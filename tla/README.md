# libuv_tcp in TLA+

A TLA+ model of libuv_tcp, the C++ wrapper that makes a TCP client and a TCP
server of libuv: what its threads and callbacks do to each other, what travels
on a connection, and what happens when a connection ends or a user closes it.
TLC checks the modules on small instances; TLAPS proves theorems about each
component for every value of its constants.

## The system

| part | source | state | operations |
| --- | --- | --- | --- |
| ring buffer | `src/pod_circularbuffer.h` | array, read and write position, two flags | `write`, `read`, `clear`, `size` |
| framing | `src/net/packet_sync.h`, `src/net/net_base.h` | two buffers, what has been parsed of the next frame | `Start`, `recvdata`, `PacketData` |
| client, sending | `src/tcpclient.cpp` | ring, list of `write_param`s, close flag | `Send`, `Close`, `AsyncCB`, `send_inl`, `AfterSend`, `AfterRecv` |
| client, life | `src/tcpclient.cpp` | the handles, `connectstatus_`, `isreconnecting_`, `repeat_time_`, `isclosed_` | `Connect`, `AfterConnect`, `ReconnectTimer`, `AfterClientClose`, `run` |
| server, life | `src/tcpserver.cpp` | `clients_list_`, `avai_tcphandle_`, `startstatus_`, `isclosed_`, close flag | `Start`, `StartThread`, `AcceptConnection`, `Close`, `closeinl`, the close callbacks |
| server, sending | `src/tcpserver.cpp` | list of `write_param`s, `mutex_clients_` | `GetPacket`, `sendinl`, `AfterSend`, `SetRecvCB`, `broadcast` |
| protocol hook | `src/tcpserverprotocolprocess.h` | none | one virtual function |
| logger | `src/log4z` | queue of log lines, loggers and their ids, files, writer thread | `PushLog`, `PopLog`, `Run`, `Start`, `Stop`, `CreateLogger`, `Config`, `UpdateConfig` |
| primitives | `src/sys/thread_uv.h` | none | sleep, locks, threads |

How they interact:

* Each client and each server has one *loop thread* that runs libuv's loop and
  every callback, the user's included. User threads reach it in three ways
  only: a mutex-protected ring of bytes to send (client), flags without any
  protection (`isuseraskforclosed_`, `isclosed_`, `connectstatus_`,
  `startstatus_`), and `uv_async_send`, which wakes the loop; wakeups that come
  before the first is answered are one.
* A read callback hands bytes to the connection's `PacketSync`, which calls the
  user back with each frame. The user answers from inside that callback.
* Both sides recycle memory: a `write_param` goes from a list to libuv and back,
  a `TcpClientCtx` with its handle and its parser from one connection to the
  next.
* `mutex_clients_` guards the server's map of connections. User threads take it
  in `SetRecvCB`; the loop thread takes it to add and to remove a connection,
  and calls the user's closed callback while it has it.

What is hard in it: threads that store into the ring while the loop empties
it; a `Send` that has to wait for room; writes that fail late, after the
connection has gone and come back; a parser that is fed pieces of a stream and
must find its way after damage; a close that meets connections which are ending
by themselves; and a start that meets the end of the start before. There is no
persistent state, so no crash and recovery. `PROJECT.json` lists these hazards
one by one with their lines.

## The modules

**`CircularBuffer`** models `PodCircularBuffer`: one action per branch of
`write` and `read`, the array as a function on `0 .. Capacity - 1`, positions
and flags as in the class. Calls are made under a mutex, so a call is a step.
**`BoundedFifo`** is what its callers rely on, a bounded queue; `ImplementsFifo`
says that the first implements the second under the mapping `queue <- Contents`.
**`CircularBufferProofs`** has the proofs. The proofs about the other components
are in modules of their own too, named after them: `PacketSyncProofs`,
`ClientSendProofs`, `ClientLifeProofs`, `ServerProofs` (both modules of the server),
`LogManagerProofs`, `LinkProofs`. **`DataLemmas`** has what they share: induction over numbers,
recursion, sequences without repetition and parts of sequences.

**`PacketSync`** models `recvdata` turn by turn of its loop. The four header
fields the parser looks at are kept, one byte each; `Digest` stands for MD5. The
peer's stream is a sequence of *pieces*, frames or noise, that is cut into
reads of any size in `ChunkSizes`. `Frames` is the reference: what the frames of
a sequence of bytes are when one has them all at once.

**`ClientSend`** models the client's send path. A critical section is a step; so
is a callback up to its call of `send_inl`, and one turn of the loop in
`send_inl`. `ring` is a sequence here: that the class is one is what
`CircularBufferProofs` shows. Bytes carry their sender, the call, and their
number, as history. `reqs`, `outq` and `wire` are libuv's queue of write
requests, the bytes of them the kernel has not taken, and those it has. The
loop thread can be a sender too: when a callback of the user's is running
(`"recv cb"`, `"end cb"`, `"connect cb"`) it may call `Send`, and the callback
does not end before that returns. Of reconnection it has what matters to writes:
the handle is initialized (`Reconnect`) before the attempt succeeds (`Reconnected`)
or fails (`ReconnectFails`), and in between libuv takes writes.

**`ClientLife`** models the life of a `TCPClient`: `Connect` with its ten seconds
of waiting, the `ConnectThread` of each `Connect`, the callbacks of the loop,
reconnection, `Close` and `closeinl`, the close callbacks, and the return of
`uv_run`. The stream's handle is one variable, `tcp`, since the code closes and
initializes one object over and over; its field `data`, that some callbacks read
as a `TcpClientCtx` and one as a `TCPClient`, is another. The reconnect timer
fires whenever it is started, so that an attempt may take less or more than its
period; its doubling is left out. `abandoned` records what libuv does when
`uv_tcp_init` is called on a handle with a pending request: the request is
never called back and the loop counts it for ever.

**`LogManager`** models log4z's `CLogerManager`: callers of `PushLog`, whose tests
of `m_bRuning` and of the logger are made without the lock and are a step of
their own, the writer thread, and a controlling thread that starts and stops the
logger, creates loggers, reads the configuration file and changes levels and
limits. Lines are known by their thread and number. Whether a line is of the
same day as the one before, and whether a file can be opened and takes all of a
line, is arbitrary. The length of a file is counted in lines; a limit is `Mega`
lines times `_limitsize`, computed in an unsigned int of `Width` values, so that
it wraps as `_limitsize * 1024 * 1024` does. The writer looks at the file of a line
(`UpdateFile`, `log4z.cpp:907-936`) and writes the line (`Write`, `:938-973`) in two
steps, since the controlling thread may change the limit in between without a
lock; `found` remembers, as history, the limit of the look. That the line is not
discarded (`:900`) is one step with the look, and the beginning of `Run` one step,
for `Start` has not returned then.

**`LogConfig`** is `ParseConfig`, a recursion over the lines of a file, beside `Meaning`,
which says what a file means without reading it line by line, by the keys of
`GetExampleConfig` (`KeyFor`, `log4z.cpp:541-550`) and the names of the levels
(`Level`, `log4z.h:198-206`). The two disagree: the example gives the key `limit`
(`log4z.cpp:549`), and `ParseConfig` knows only `limitsize` (`:1272`), so that a limit
set as in the example is not set at all; and a level `alarm` is read as `warn`
(`:1240`), though there is a level of that name. `AsRead` lists such lines, with the
two synonyms that the code adds (`all`, `warning`), and `ParseMeans` says that but for
them every file is read as it means; without `AsRead` it fails at the first `limit`. **`LogText`** has the two buffers a line's text goes through,
character by character since the property is about where it ends: the stream of
`LOG_STREAM`, with `snprintf`, and the copy in `PushLog`. `LogManager` extends both.

**`Server`** models the life of `TCPServer` and its `AcceptClient`s, with one
user thread, the loop's callbacks in any order and one `StartThread` for each
successful `Start`, whose last assignments are steps of their own because a user
thread may run between them. `Start` has a failing branch, and so has
`AcceptConnection` for each of its three calls of libuv. `misused` records that
a handle was closed or initialized twice, which libuv does not define: the
library shipped with the repository is built without assertions, where a second
`uv_close` links the list of closing handles to itself. The model lets nothing
happen in the loop after it, and says nothing about what follows.

**`ServerSend`** extends `Server` with what happens on its connections. A packet
that the parser has found is answered by the user's `ParsePacket`; the answer is
copied into a `write_param` and given to `uv_write`, which may refuse it, and
comes back to the list in `AfterSend`, with an error if the connection has ended.
Several packets in one read are successive steps, and an empty answer, which
sends nothing, is a packet that never came. The mutex is a variable; a callback
of the user's that calls `SetRecvCB` keeps the loop thread until it gets the mutex.
`SubClientClosed` calls the closed callback with the mutex held: a callback that
calls `SetRecvCB` then waits for its own thread (`Stuck`), which is what the code
does and what two of the properties except. (The receive callback that `SetRecvCB`
stores is never called by the code.)

**`Link`** composes the two ends of a connection: it extends `ClientSend`, makes the
bytes of each call those of a frame, as the test programs do with `PacketData`,
and instantiates `PacketSync` with the stream being what the client's kernel took
(`wire`), seen through `Values`. A step is one of the client's or one of the
parser's. One direction of one connection is modelled, while it is up: after
its end the server is left with a beginning of what it would have had, which
is a state of the model too.

**`NetBase`** has the conversions of `net_base.h`: integers of 32 and 64 bits and
whole headers to the bytes of the wire and back, on hosts of both byte orders.
`PacketSync` extends it, and keeps of a header the fields it looks at.

`MC*.tla` and the `.cfg` files give the constants of each run.

## The runs

| run | properties | shows |
| --- | --- | --- |
| `ring` | `TypeOK`, `FlagsAgree`, `ImplementsFifo` | the ring is a bounded queue |
| `frames` | `TypeOK`, `FramesOfStream`, `RecvReturns`, `ConversionsSound` | the frames delivered are those of the bytes received, in any cut; no overrun; no endless loop; integers and headers come back as they were |
| `send` | `TypeOK`, `InOrderOnce`, `NothingLostWhileUp`, `PoolSound`, `NoLostWakeup`, `SendReturnsUnobstructed` | order, loss, recycling; wakeups of calls no longer than the ring; return of `Send` while neither a callback sends nor a call is longer than the ring |
| `link` | `MessagesSound`, `UntornDelivered` | what one end delivers is what threads at the other sent, in order, once; of an untorn stream all of it |
| `life` | `TypeOK`, `CastsSound`, `RetryUnderWay`, `AnswerSound`, `Reconnects`, `ClosesInTheEnd` | the stream's callbacks find the data they expect, the close callback until a `Close` is served; `Connect` answers what is so; a lost connection is always being retried, and comes back; `Close` takes effect in every phase |
| `log` | `TypeOK`, `IdsSound`, `OrderKept`, `AllAccounted`, `StopFlushes`, `ParseSound`, `TextSound`, `LimitKept`, `StopReturns` | lines are neither lost, doubled nor reordered; each logger has a place of its own; files keep the limit found when they were looked at; `Stop` returns and what came before it is written; configuration files mean what they say, but for `limit` and `alarm`; texts end inside their buffers |
| `server` | `TypeOK`, `CtxSound`, `ClosedLast`, `ShutdownCompletes` | contexts are not shared, ends are told, shutdown completes |
| `replies` | `SendTypeOK`, `RepliesSound`, `RequestsLive`, `FoundLives`, `SetRecvCBReturns`, `ShutdownUnlessStuck` | each connection gets its own replies in order; requests outlive neither context nor buffer; the mutex is given back; shutdown completes |

`ConversionsSound`, `ParseSound` and `TextSound` are facts about data, not about
steps. They are invariants of the form `Init => Fact`, so that TLC evaluates each
over all its bounded inputs, and mutants of the code's functions break them.

Four runs end in a violation, each of a property that states what the
repository says of itself and the code does not do; the counterexample is the
behaviour described:

* `callback_send` (`SendReturns`): as `test_tcpclient_reconnect.cpp` does, the
  receive callback replies. With the ring too full for the reply, the loop
  thread waits for itself.
* `stale_frame` (`EveryFrameDelivered`): an unfinished frame of the last
  connection swallows the first ones of the next. `FramesOfStream` and
  `UntornDelivered` are what remains true.
* `lost_close` (`CloseTakesEffect`): `StartThread` sets `isclosed_` before it
  clears `isuseraskforclosed_`; a `Start` and a `Close` in between are undone.
* `double_close` (`CloseTakesEffect`): the end of a connection and the user's
  `Close`, served in one turn of the loop, close one handle twice.

The models show more for which no run is kept. Messages that two threads send
while the ring is nearly full are stored in pieces, between which the mutex is
free, and mix: all the bytes arrive, the torn message is refused by the peer's
parser, and `Send` has returned its full length (`MessagesSound` and
`UntornDelivered` are what remains true). An attempt to reconnect that takes longer
than the timer's period is overtaken: `ReconnectTimer` initializes the handle again,
the loop counts the forgotten request for ever, and a later `Close` does not end
`uv_run` (`ClosesInTheEnd` excepts it, as `abandoned`). `CharToInt64`, which nothing calls,
adds its lower four bytes as an `int`: a number whose fifth byte on the wire is
above 127 comes out one too small in its upper half (`ConversionsSound` excepts
it). Integers go on the wire lowest byte first on a little-endian host and
highest first on a big-endian one, so that hosts of different byte orders do not
understand each other. A `Send` of more bytes
than the ring holds wakes the loop, fills the ring and sleeps, with no wakeup
after filling it, so that on a quiet connection it does not return; the run
`send` has such calls, and `Oversized` in `NoLostWakeup` and `SendReturnsUnobstructed`
excepts them and those that wait for the room they take. A limit of
log4z that is lowered after the writer has looked at the file of a line is not kept
by that line: the file may become longer than the new limit and the line, and the
next line begins a new one. A `Close` served between the end of a connection and
its close callback makes that callback, `AfterClientClose`, read a `TcpClientCtx` as
a `TCPClient`; `CastsSound` speaks of it until then. And a tail byte above 127 is never recognized,
because `recvdata` compares it as a signed char.

### Bounds

* `ring`: three slots and two elements; data of up to four elements and counts
  from -1 to 4. With three slots every order of the two positions occurs, with
  room before, behind and between them, and every write and read that ends at,
  before and beyond the end of the array.
* `frames`: a buffer of seven bytes with a header of four, so that a frame of
  three bytes of data does not fit and the buffer has to grow; reads of one,
  three and eight bytes; two pieces on a first connection and one on a second,
  out of three frames and five kinds of noise, among them a wrong tail, a wrong
  digest, a length that promises too much, a negative length and a lone HEAD.
* `send`: a ring of two bytes; one user thread with two calls and the loop
  thread with one, each of no byte, of two or of three, which is more than the ring
  holds; one break or close of the connection, with any number of attempts to
  reconnect; a list of one or two
  spare `write_param`s (`MaxList = 0`, for the code's 20). Breaks during every
  phase, full rings, and lists at their limit all occur. The threads of user
  code are symmetrical but for their number of calls, so that symmetry is not
  used.
* `link`: a ring of eleven bytes, frames of six and seven, a thread with two
  messages and one with one: three messages are needed to tear one in a ring that
  holds the longest, at each of several places; torn after its fourth byte a
  message takes the next frame's beginning for its length, data and tail. Reads
  of six or seven bytes do not begin where frames do.
* `life`: two calls of `Connect` and one call of libuv that fails (attempts that
  the timer repeats may fail without bound). One `Connect` has every phase of
  reconnection; the second starts with what the first leaves behind.
* `log`: one caller with two lines and the writer with one for each of two
  starts; places for two loggers and a configuration file with one more than
  that, with a section without a name, an attribute of each kind that matters, a
  limit of zero and one that wraps, a level that keeps out the first line of the
  writer's; two changes to the loggers; one file that
  cannot be opened or written; `Width = 8`, `Mega = 2` and a default limit of one,
  so that a file is full after three lines. Two threads push, two starts make a
  queue left over by a stopped writer occur, and two lines of one caller can be
  out of order; more callers add no behaviour, for they meet at the queue only.
  `ParseSound` takes every file of up to four lines out of fifteen kinds, `limit`, `alarm`
  and `warning` among them: a section that comes again with another spelling needs
  three. `StopReturns` is shown for callers that push a line or two (`MaxPush`); once `Stop`
  has cleared `m_bRuning`, which turns further calls away, each caller can add
  only the line it has in hand. `TextSound` takes a buffer
  of three characters with any contents, messages of up to three pieces of up to
  three characters, and strings of up to four: pieces and strings end before, at
  and beyond the end of the buffer, and come when it is full.
* `server`: two starts, three connections, one failing call, `MaxList = 0`.
* `replies`: one start, two connections, two packets, one failure (of a write, an
  accept or a peer), one call of `SetRecvCB` by a user thread and any number by
  callbacks, `MaxList = 0`. Two connections share the list, a context freed by
  one is taken by the other, and a write called back late meets both.
* conversions: bytes of two bits, so that all 32-bit integers are 256 numbers and
  all 64-bit ones 65536; `NothingLostInBytes` is the same for bytes of eight.

`CHECK_DEADLOCK FALSE` stands in the configurations whose bounds stop the
system: no more calls, connections or bytes.

### Fairness

* `ClientSend`: a thread inside `Send` is scheduled (weak fairness of each of
  its steps); the loop goes on with `send_inl`, and the user's callbacks return;
  a wakeup that is pending again and again is served (strong fairness of
  `AsyncCB`, for `uv_run` serves every ready handle in each turn, and other
  callbacks come between). Nothing is assumed of kernel, peer or network.
  `PromptSpec`, for the run about `Send` that does not return, adds that
  the kernel takes bytes and that finished writes are called back, to show that
  even that is no help.
* `PacketSync`: the loop of a running call goes on; reads need not come.
* `Link`: none, for only safety is checked of it.
* `ClientLife`: threads are scheduled and the loop calls what is due: the wakeup,
  the close callbacks with the requests they cancel, the timer. No attempt has
  to succeed, fail or be answered; `Reconnects` adds as its premise that attempts
  are made, and succeed, again and again.
* `LogManager`: threads inside the logger's functions are scheduled. Nobody has to
  push, start or stop.
* `Server`: `StartThread` is scheduled, and the loop serves the wakeup and the
  close callbacks. No connection has to come or to end.
* `ServerSend`: the same, and threads inside `SetRecvCB` are scheduled and libuv
  calls back writes it cannot finish. The calls of `SetRecvCB` that can keep
  another thread from the mutex are few, so that weak fairness gives it the mutex.
  No packet has to come and no reply to be taken by the network.

`ShutdownCompletes` speaks of a loop in which no handle was misused; that case
is `double_close`.

## What is proved

`tlapm` checks these without further assumption than the `ASSUME`s of the
modules; `Capacity` is any positive number, `Elem`, `Sender` any set. An
invariant that a run checks is seldom inductive; what each proof adds to it is
named below, and is what one has to know to see why the property holds.

The ring (`CircularBufferProofs`):

* `FlagsAlwaysAgree`: `Spec => [](TypeOK /\ FlagsAgree)`. `TypeOK` alone is not
  inductive: a write takes its branch by comparing positions, and only with
  flags that agree does the branch keep the position in range.
* `RingIsFifo`: `Spec => ImplementsFifo`. The invariant above makes `Contents`
  a sequence of at most `Capacity` elements; for each branch a lemma says what
  the array holds, read from the read position on, after it: the old contents
  with a prefix of the data behind them, or without a prefix of their own. Each
  step is then a step of the queue.

The framing (`PacketSyncProofs`), for any digest, sizes, stream and cut:

* `BuffersNeverOverfull`: `Spec => []TypeOK`. What makes it inductive is what the
  parser knows while it waits for data: the length in the header it has is the
  one the buffer for the data was sized by.
* `FramesFoundOnce`: `TAIL < 128 => (Spec => []FramesOfStream)`. `Frames` reads a
  whole stream at leisure; the parser has read ahead and holds a part. The
  invariant `Progress` joins them: the frames of all that was received, with *any*
  bytes more behind it, are those delivered and then those of what the parser
  holds, with the same bytes behind. Each turn of the loop drops bytes that
  begin no frame, gives up one HEAD, or takes one frame off the front, and for
  each a lemma about `Frames` says that this is right. `NothingKeptBack` adds that
  a call does not return with a frame it could deliver. The proviso is the
  code's: a tail byte above 127 is never recognized.
* `NothingLostInBytes`: `Spec => []ConversionsSound`, for a byte of any even number of
  values. A number divided by the weight of a place is what its higher bytes make
  (`NumberOfBytes`, `BytesOfNumber`), so that bytes and numbers below a weight are
  each other's image, and turning the bytes around twice changes nothing
  (`ToNetworkTwice`). For 64 bits the lower half stays below half its weight when
  its highest byte does (`LowerHalf`), which is where the code's `int` is right.

The client's sending (`ClientSendProofs`), for any threads, lengths and losses:

* `RingNeverOverfull`: `Spec => [](CallsOK /\ RingOK)`: the ring stays within its
  capacity and `iret` within `len`.
* `WakeupNeverLost`: `Spec => []NoLostWakeup`, for calls of any length. A call that finds
  too little room leaves the ring full only if it will look again. While no call
  longer than the ring is under way, what is in the ring was announced by the last
  wakeup of whoever stored it, or will be. (`Oversized`, in the property, is the
  code's exception too.)
* `BytesKeepTheirOrder` and `NoByteLostWhileUp`, for `InOrderOnce` and
  `NothingLostWhileUp`. `WayInv` says that the bytes with the kernel, with libuv and
  in the ring, in this order, are sorted for each thread and numbered up to what
  it has stored, and, until the first loss, complete. A failed write cuts a piece
  out of the middle (`SortedWithin`); all other steps move bytes along.
* `PoolAlwaysSound`: `Spec => []PoolSound`, by `PoolInv`: neither list has a
  `write_param` twice, and none is on both.
* `SendTypesHold`: `Spec => []TypeOK`.

The two ends together (`LinkProofs`), for any threads, texts, sizes and cuts:

* `UntornAlwaysDelivered`: `TAIL < 128 => (LinkSpec => []UntornDelivered)`. `UntornFrames`
  says that the frames of an untorn stream are the messages that are whole in it:
  `SeenUpTo` says so of its first bytes, with the rest a message that has begun
  and does not end there, and each byte more either continues that message or,
  since the stream is untorn, begins one. The inductive invariant, `LinkInv`, is that
  of the client while its connection is up (`ClientInv`: the bytes of each thread
  arrive in order and without a gap, up to a place that its call tells) and the
  parser's `ParserInv`. The parser's stream is what the client's kernel has taken,
  so that it grows under the parser; `StreamGrows` says that this does not disturb
  what the parser knows of the part it has read.
* `UntornAlwaysSound`: `TAIL < 128 => (LinkSpec => [](~Torn(Arrived) => MessagesSound))`: at
  any moment, inside `recvdata` too. The premise is not one of the proof but of the
  code: the data of a torn message may hold a whole frame, which the parser then
  finds where it looks for a header, whatever the digest, and calls back.
* `AloneAlwaysDelivered`: with one thread that sends there is no premise about the
  stream, for such a thread tears no message (`AloneUntorn`); `MessagesSound` holds
  always, and what has been delivered is all that is whole whenever no `recvdata`
  is running.

They need of the constants what `PacketSync` needs (`ParserAssumption`) and that
the texts are bytes, fewer than 128 of them, framed as `PacketData` frames them
(`TextAssumption`). `PP` is the parser with the theorems about it,
an instance of `PacketSyncProofs`; the lemmas at the head of the module say that its
definitions are those of the instance the model uses.

The client's life (`ClientLifeProofs`):

* `DataNeverMistaken`, `RetryAlwaysUnderWay` and `TypesAlwaysHold`: `Spec => []P` for
  `CastsSound`, `RetryUnderWay` and `TypeOK`. The first two are not inductive:
  `HandlesAgree` adds that a connected handle has no pending request, that nothing
  is reconnected once the timer is closed, and that a closed client has no
  handles left. With it and the types each action preserves both. `CastsSound` says
  of `AfterClientClose` that its cast is right until a `Close` is served, and no more:
  afterwards the code may get it wrong.
  `AnswerAlwaysSound` adds `AnswerSound`, which is inductive beside these.

The server's life (`ServerProofs`):

* `ContextsNeverShared`: `Spec => []CtxSound`. The invariant `CtxInv` adds that
  whoever waits for a callback has its handle open, and `FewUsed`: the contexts in
  use are no more than the connections there have been, and one on the list. With
  `CtxAssumption` (there are more contexts than connections, for `malloc` does not
  fail in the model) a new context is always one that nobody uses; that is a fact
  about cardinalities, and the lemmas `UsedGrows` and `FewUsedAfterPop` have it.
* `EndToldLast`: `Spec => []ClosedLast`. `ToldInv` adds that a connection announced is
  in the map until its end has been told, and the loop ends with an empty map.
* `ServerTypesHold`: `Spec => []TypeOK`, beside `CtxInv`.

The server's sending (`ServerProofs` too):

* `FoundAlwaysLives`: `SendSpec => []FoundLives`, since `SetRecvCB` holds the mutex as
  long as it has found something, and the map changes with the mutex free only.
* `RequestsAlwaysLive`: `SendSpec => []RequestsLive`: a client leaves the map when
  libuv has no request for its context, and another's context stays its own.
* `RepliesNeverMixed`: `SendSpec => []RepliesSound`. `ReplyInv` joins the two
  invariants above and says that no `write_param` is in two places (`ParamsApart`),
  that libuv has no more of them than replies it has accepted, so that a new one
  can be found (`FewSent`), and, for each connection, that what it has been sent
  are its first replies and what waits for it, in the buffers that waiting
  `write_param`s name, the next ones (`RepliesInv`). A context that goes to another
  connection takes nothing along, since it has no request then.
* `ServerSendTypesHold`: `SendSpec => []SendTypeOK`.

The logger (`LogManagerProofs`), for any threads, places, starts, failures and
configuration files:

* `StopAlwaysFlushes`: `Spec => []StopFlushes`. `QueueInv` says where each line
  accepted is (`Accounted`), that a thread which has decided to quit has found the
  queue empty since `Stop` (`Flushed`), and that there is no thread while another can
  be started (`Controlled`). The last needs that `Start` waits for its thread: see
  below.
* `OrderAlwaysKept` and `LinesAlwaysAccounted`, for `OrderKept` and `AllAccounted`.
  `OrderInv` says that each thread's lines in the queue come after those of its
  that have left it and before the next it will push, and that a line about to
  be pushed is the last its thread has numbered.
* `IdsAlwaysSound`, `LimitsAlwaysKept` and `LoggerTypesHold`, for `IdsSound`,
  `LimitKept` and `TypeOK`. `LoggersOK` is kept by every function that changes the
  loggers, `CreateLogger` and each turn of the loop of `Config` among them.
  `LimitKept` is about the limit which the writer found at its look at the file, for
  the controlling thread may change it before the line is written. `RoomOK` carries
  that look over to the write: the file was not full by the limit of then. That
  nothing overflows rests on `LengthFits`: the bytes of a limit, taken in an unsigned int, are
  no more than the limit says and still a multiple of a megabyte, since a
  megabyte divides 2^32 (`WidthAssumption`).
* `ConfigsAlwaysMeant`: `Spec => []ParseSound`, for files of any length. `Given` is
  `Meaning` in the words of `ParseConfig`, and `ReadMeans` shows that it is `Meaning` of
  the lines as `AsRead` has them. `ParserAt` says without recursion what the parser
  has made of the first n lines: the current section, and for each name in them
  the last value of each attribute. `ParserStep` shows that one more line leads
  from one to the next.
* `TextsAlwaysEnd`: `Spec => []TextSound`, for buffers of any size. `Written` says what
  the stream holds after some pieces: their text up to where it is full, and a
  place that is the end when it is. `PieceWritten` is the step, with `PutFits` for
  what `snprintf` and `memcpy` leave in a buffer and `HoldsText` for what `strlen`
  then finds.

Recursive definitions are recursive functions in the modules that are proved
about. The provers cannot use induction theorems that take an operator, so
`DataLemmas` states induction for sets (`Induction`, `DownInduction`, from the
library's theorem about well-founded relations), and `Recursion` says that a
function defined by what it starts from and one step after another exists.

Model-checked only: liveness (`RecvReturns`, `SendReturnsUnobstructed`,
`ShutdownCompletes`, `ShutdownUnlessStuck`, `SetRecvCBReturns`, `Reconnects`,
`ClosesInTheEnd`, `StopReturns`), which is out of the provers' reach; the four
runs that end in a violation; and `MessagesSound` for a stream with torn messages of
several threads, which the run `link` checks of its texts: it holds of those, in
which no data hold a frame, and not of all texts.

## What is not modelled

* MD5, and in the parser the header fields it carries without looking.
* `SetNoDelay`, `SetKeepAlive`, addresses, error texts and log output.
* A failure half-way through the `init` of client or server.
* The destructors, which are a `Close` and a join.
* Data races on the flags between threads beyond their order: a `bool` is read
  and written as a whole. The same holds of log4z's loggers, whose fields one
  thread writes while others read them.
* libuv and OpenSSL, vendored as binaries. Of libuv the models use: wakeups
  coalesce; write callbacks come in the order of the writes, and before the
  close callback; `uv_run` returns when no handle is left.
* `Connect` of a client that is open: it would close handles of a running loop
  from another thread. `Connect6` and `Start6`, which are `Connect` and `Start` with
  another address.
* The server's `broadcast`: it is private and nothing calls it. It would be
  `sendinl` for each connection with the mutex held.
* Of log4z: paths, directories and the names of files, the screen, the status
  counters, how lines of a configuration file are trimmed and split, and
  `Start`'s limit of three seconds. After that limit `Start` returns false, though
  its thread may begin later, and a second `Start` then makes a second writer,
  whose writes into one file are outside what C++ defines.
* `thread_uv.h`: wrappers of the platform's threads, locks and sleep, used by
  their meaning. The sample programs, which check nothing.

## Plan

1. Done: ring, framing and conversions, the client's send path and life, the
   server's life and replies, the logger with its configuration; the composition
   of `ClientSend` with `PacketSync`.
2. Done: proofs of every safety property of those components and of their
   composition.
3. Left: an abstract log (a bag of lines that each thread extends in order) that
   `LogManager` implements; the other direction of a connection, `ServerSend` with
   the parser of the client.

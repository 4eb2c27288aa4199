----------------------------- MODULE ClientSend -----------------------------
(***************************************************************************)
(* The send path of TCPClient, src/tcpclient.cpp.  Any number of user      *)
(* threads call Send; each stores its bytes in the ring buffer under a     *)
(* mutex and wakes the loop thread with uv_async_send.  The loop thread    *)
(* runs the callbacks AsyncCB, AfterRecv and AfterSend, which empty the    *)
(* ring into uv_write requests (send_inl); it also runs the user's own     *)
(* callbacks, and those call Send too, as the ReadCB and the ReConnectCB   *)
(* of src/test_tcpclient_reconnect.cpp do.  The stream underneath is       *)
(* libuv's: it queues requests, passes bytes to the kernel in order, and   *)
(* fails what is left when the connection goes.                            *)
(*                                                                         *)
(* A critical section of mutex_writebuf_ is one step, and so is a callback *)
(* up to its call of send_inl and one turn of the loop of send_inl; the    *)
(* threads interleave between those steps.  The ring is a sequence of      *)
(* bytes: CircularBufferProofs shows that PodCircularBuffer is one.        *)
(***************************************************************************)
EXTENDS Integers, Sequences, FiniteSets

CONSTANTS Sender,     \* the threads that call Send
          LoopThread, \* the loop thread: one of them if callbacks call Send
          Capacity,   \* BUFFER_SIZE: of the ring and of a write request
          Lengths,    \* the lengths of the data passed to Send
          MaxCalls,   \* bound: the calls of Send each thread makes
          MaxList,    \* MAXLISTSIZE
          MaxBreaks   \* bound: the times the connection is lost or closed

ASSUME CapacityAssumption == Capacity \in Nat \ {0}
ASSUME LengthsAssumption  == Lengths \subseteq Nat
ASSUME BoundsAssumption   == /\ MaxCalls \in [Sender -> Nat]
                             /\ MaxList \in Nat /\ MaxBreaks \in Nat

VARIABLES
    pc,        \* where each user thread is in Send
    calls,     \* how many calls of Send it has begun
    len,       \* the parameter len of its current call (0 outside a call)
    iret,      \* the local variable iret: bytes stored so far
    accepted,  \* all the bytes its calls have stored
    ring,      \* write_circularbuf_
    wakeup,    \* an uv_async_send the loop has not answered yet
    asked,     \* isuseraskforclosed_
    closed,    \* closeinl has closed every handle of the loop
    loop,      \* where the loop thread is: between callbacks ("poll"), in
               \* send_inl, in send_inl with a recvdata to follow, or in a
               \* callback of the user's
    conn,      \* the stream: "up", "broken" (nobody noticed), "closing",
               \* "connecting" again, "failed" (an attempt at that)
    reqs,      \* its uv_write requests that have not been called back
    outq,      \* the bytes of those requests the kernel has not taken
    gone,      \* how many bytes have left outq, taken or dropped
    wire,      \* the bytes the kernel has taken
    free,      \* writeparam_list_
    breaks     \* how often the connection was lost or its close asked for

callVars   == <<pc, calls, len, iret, accepted>>
streamVars == <<conn, reqs, outq, gone, wire, breaks>>
vars == <<callVars, ring, wakeup, asked, closed, loop, streamVars, free>>

(* A mistake TypeOK must notice: more is stored than there is room for. *)
Unbounded(n, m) == n

(* What write stores of n bytes when there is room for m. *)
Bounded(n, m) == IF n <= m THEN n ELSE m
From(seq, i) == SubSeq(seq, i, Len(seq))

Init ==
    /\ pc = [s \in Sender |-> "idle"]
    /\ calls = [s \in Sender |-> 0]
    /\ len = [s \in Sender |-> 0]
    /\ iret = [s \in Sender |-> 0]
    /\ accepted = [s \in Sender |-> 0]
    /\ ring = <<>>
    /\ wakeup = FALSE
    /\ asked = FALSE
    /\ closed = FALSE
    /\ loop = "poll"
    /\ conn = "up"
    /\ reqs = <<>>
    /\ outq = <<>>
    /\ gone = 0
    /\ wire = <<>>
    /\ free = <<>>
    /\ breaks = 0

-----------------------------------------------------------------------------
(* Send(data, len), in a user thread.                                      *)

InUserCallback == loop \in {"recv cb", "end cb", "connect cb"}

(* Data of no bytes are refused at once; others begin with a wakeup. *)
Send(s) ==
    /\ pc[s] = "idle"
    /\ s = LoopThread => InUserCallback
    /\ calls[s] < MaxCalls[s]
    /\ \E n \in Lengths \ {0} : len' = [len EXCEPT ![s] = n]
    /\ pc' = [pc EXCEPT ![s] = "first wakeup"]
    /\ calls' = [calls EXCEPT ![s] = @ + 1]
    /\ iret' = [iret EXCEPT ![s] = 0]
    /\ UNCHANGED <<accepted, ring, wakeup, asked, closed, loop, streamVars, free>>

FirstWakeup(s) ==
    /\ pc[s] = "first wakeup"
    /\ pc' = [pc EXCEPT ![s] = "check"]
    /\ wakeup' = TRUE
    /\ UNCHANGED <<calls, len, iret, accepted, ring, asked, closed, loop, streamVars, free>>

(* The condition of the while loop. *)
CheckAsked(s) ==
    /\ pc[s] = "check"
    /\ pc' = [pc EXCEPT ![s] = IF asked THEN "last wakeup" ELSE "write"]
    /\ UNCHANGED <<calls, len, iret, accepted, ring, wakeup, asked, closed, loop,
                   streamVars, free>>

(* The nth byte that the thread has sent, in the call it is in. *)
Byte(s, n) == [by |-> s, call |-> calls[s], nth |-> n]

(* A mistake InOrderOnce must notice: a second turn of the loop passes     *)
(* data instead of data + iret.                                            *)
PieceFromStart(s, k) == [i \in 1 .. k |-> Byte(s, accepted[s] - iret[s] + i)]

(* The next k bytes of the call. *)
Piece(s, k) == [i \in 1 .. k |-> Byte(s, accepted[s] + i)]

(* One locked write.  What did not fit is tried again after a sleep. *)
WriteRing(s) ==
    LET k == Bounded(len[s] - iret[s], Capacity - Len(ring)) IN
    /\ pc[s] = "write"
    /\ ring' = ring \o Piece(s, k)
    /\ iret' = [iret EXCEPT ![s] = @ + k]
    /\ accepted' = [accepted EXCEPT ![s] = @ + k]
    /\ pc' = [pc EXCEPT ![s] = IF iret[s] + k < len[s] THEN "check" ELSE "last wakeup"]
    /\ UNCHANGED <<calls, len, wakeup, asked, closed, loop, streamVars, free>>

(* A mistake NoLostWakeup must notice: Send wakes the loop before it       *)
(* stores the bytes and not again after.                                   *)
ReturnUnannounced(s) ==
    /\ pc[s] = "last wakeup"
    /\ pc' = [pc EXCEPT ![s] = "idle"]
    /\ len' = [len EXCEPT ![s] = 0]
    /\ iret' = [iret EXCEPT ![s] = 0]
    /\ UNCHANGED <<calls, accepted, ring, wakeup, asked, closed, loop,
                   streamVars, free>>

LastWakeup(s) ==
    /\ pc[s] = "last wakeup"
    /\ pc' = [pc EXCEPT ![s] = "idle"]
    /\ len' = [len EXCEPT ![s] = 0]
    /\ iret' = [iret EXCEPT ![s] = 0]
    /\ wakeup' = TRUE
    /\ UNCHANGED <<calls, accepted, ring, asked, closed, loop, streamVars, free>>

(* Close(), in some user thread.  Calling it again only wakes the loop again. *)
Close ==
    /\ ~asked /\ breaks < MaxBreaks
    /\ asked' = TRUE
    /\ wakeup' = TRUE
    /\ breaks' = breaks + 1
    /\ UNCHANGED <<callVars, ring, closed, loop, conn, reqs, outq, gone, wire, free>>

-----------------------------------------------------------------------------
(* The callbacks, in the loop thread.                                      *)

(* A mistake SendReturnsUnobstructed must notice: a wakeup that comes while a write is *)
(* under way is left to the callback of that write.                        *)
AsyncCBWaitsForWrites ==
    /\ loop = "poll" /\ wakeup /\ ~closed
    /\ wakeup' = FALSE
    /\ \/ /\ asked
          /\ closed' = TRUE
          /\ conn' = "closing"
          /\ UNCHANGED loop
       \/ /\ ~asked
          /\ loop' = IF reqs = <<>> THEN "send_inl" ELSE "poll"
          /\ UNCHANGED <<closed, conn>>
    /\ UNCHANGED <<callVars, ring, asked, reqs, outq, gone, wire, breaks, free>>

(* A close the user asked for comes before the bytes still in the ring. *)
AsyncCB ==
    /\ loop = "poll" /\ wakeup /\ ~closed
    /\ wakeup' = FALSE
    /\ \/ /\ asked
          /\ closed' = TRUE
          /\ conn' = "closing"
          /\ UNCHANGED loop
       \/ /\ ~asked
          /\ loop' = "send_inl"
          /\ UNCHANGED <<closed, conn>>
    /\ UNCHANGED <<callVars, ring, asked, reqs, outq, gone, wire, breaks, free>>

(* AfterRecv, nread >= 0: send_inl, and recvdata when there are data. *)
AfterRecv ==
    /\ loop = "poll" /\ conn = "up" /\ ~closed
    /\ loop' \in {"send_inl", "send_inl, recvdata"}
    /\ UNCHANGED <<callVars, ring, wakeup, asked, closed, streamVars, free>>

(* AfterRecv, nread < 0: the user is told first. *)
AfterRecvEnd ==
    /\ loop = "poll" /\ ~closed
    /\ \/ conn = "broken" /\ UNCHANGED breaks
       \/ conn = "up" /\ breaks < MaxBreaks /\ breaks' = breaks + 1
    /\ loop' = "end cb"
    /\ UNCHANGED <<callVars, ring, wakeup, asked, closed, conn, reqs, outq, gone, wire, free>>

(* A callback of the user's returns.  After the one that tells of the end  *)
(* of the connection the handle is closed, to be connected again.          *)
CallbackDone ==
    /\ InUserCallback
    /\ LoopThread \in Sender => pc[LoopThread] = "idle"
    /\ loop' = "poll"
    /\ conn' = IF loop = "end cb" THEN "closing" ELSE conn
    /\ UNCHANGED <<callVars, ring, wakeup, asked, closed, reqs, outq, gone, wire,
                   breaks, free>>

(* The write_params that are in use or kept for use, as numbers. *)
InFlight == {reqs[i].param : i \in DOMAIN reqs}
Kept     == {free[i] : i \in DOMAIN free}
Live     == InFlight \cup Kept
NewParam == CHOOSE p \in 1 .. Cardinality(Live) + 1 : p \notin Live

(* A mistake PoolSound must notice: the request is taken from the list but *)
(* left on it.                                                             *)
PopParamKeeps == IF free = <<>> THEN <<NewParam, <<>>>> ELSE <<free[1], free>>

(* The write_param to use next and the list without it. *)
PopParam == IF free = <<>> THEN <<NewParam, <<>>>> ELSE <<free[1], Tail(free)>>

(* A mistake NothingLostWhileUp must notice: the length of a recycled      *)
(* write buffer is not set to what was read into it.                       *)
StaleLength == SubSeq(ring, 1, 1)

(* What is read from the ring into the buffer of a write request. *)
ReadOut == ring

Draining == loop \in {"send_inl", "send_inl, recvdata"}

(* One turn of the loop of send_inl: leave when the ring is empty, else    *)
(* hand all it holds to uv_write.  A request that libuv refuses goes back  *)
(* to the list; the bytes read from the ring are gone.  Libuv refuses only *)
(* what comes while the handle is being closed or has none that is open;   *)
(* it queues what comes while it connects or has failed to.                *)
SendInl ==
    /\ Draining
    /\ \/ /\ ring = <<>>
          /\ loop' = IF loop = "send_inl" THEN "poll" ELSE "recv cb"
          /\ UNCHANGED <<ring, reqs, outq, free>>
       \/ /\ ring # <<>>
          /\ ring' = <<>>
          /\ \/ /\ conn # "closing"
                /\ reqs' = Append(reqs, [param |-> PopParam[1],
                                         upTo  |-> gone + Len(outq) + Len(ReadOut)])
                /\ outq' = outq \o ReadOut
                /\ free' = PopParam[2]
             \/ /\ conn = "closing"
                /\ free' = Append(PopParam[2], PopParam[1])
                /\ UNCHANGED <<reqs, outq>>
          /\ UNCHANGED loop
    /\ UNCHANGED <<callVars, wakeup, asked, closed, conn, gone, wire, breaks>>

(* A mistake TypeOK must notice: the list is never cut. *)
RecycledAlways(param) == Append(free, param)

(* writeparam_list_ after a request is done; a full list frees it instead. *)
Recycled(param) == IF Len(free) > MaxList THEN free ELSE Append(free, param)

(* AfterSend, status 0: the bytes of the oldest request are all taken. *)
AfterSend ==
    /\ loop = "poll" /\ reqs # <<>>
    /\ Head(reqs).upTo <= gone
    /\ reqs' = Tail(reqs)
    /\ free' = Recycled(Head(reqs).param)
    /\ loop' = "send_inl"
    /\ UNCHANGED <<callVars, ring, wakeup, asked, closed, conn, outq, gone, wire, breaks>>

(* AfterSend, status < 0: what is left of the oldest request is dropped. *)
AfterSendFailed ==
    /\ loop = "poll" /\ reqs # <<>> /\ conn \in {"broken", "closing", "failed"}
    /\ Head(reqs).upTo > gone
    /\ reqs' = Tail(reqs)
    /\ free' = Recycled(Head(reqs).param)
    /\ outq' = From(outq, Head(reqs).upTo - gone + 1)
    /\ gone' = Head(reqs).upTo
    /\ UNCHANGED <<callVars, ring, wakeup, asked, closed, loop, conn, wire, breaks>>

-----------------------------------------------------------------------------
(* The kernel, the network and the reconnection.                           *)

KernelTakes ==
    /\ conn = "up" /\ outq # <<>>
    /\ wire' = Append(wire, Head(outq))
    /\ outq' = Tail(outq)
    /\ gone' = gone + 1
    /\ UNCHANGED <<callVars, ring, wakeup, asked, closed, loop, conn, reqs, breaks, free>>

Break ==
    /\ conn = "up" /\ breaks < MaxBreaks
    /\ conn' = "broken"
    /\ breaks' = breaks + 1
    /\ UNCHANGED <<callVars, ring, wakeup, asked, closed, loop, reqs, outq, gone, wire, free>>

(* ReconnectTimer: the handle is initialized again and connected.  libuv   *)
(* calls every pending write back before the close callback, which starts  *)
(* the timer, and when an attempt fails.                                   *)
Reconnect ==
    /\ conn \in {"closing", "failed"} /\ ~closed /\ reqs = <<>> /\ loop = "poll"
    /\ conn' = "connecting"
    /\ UNCHANGED <<callVars, ring, wakeup, asked, closed, loop, reqs, outq, gone, wire,
                   breaks, free>>

(* AfterConnect, status < 0: the handle stays open. *)
ReconnectFails ==
    /\ conn = "connecting" /\ ~closed /\ loop = "poll"
    /\ conn' = "failed"
    /\ UNCHANGED <<callVars, ring, wakeup, asked, closed, loop, reqs, outq, gone, wire,
                   breaks, free>>

(* AfterConnect tells the user. *)
Reconnected ==
    /\ conn = "connecting" /\ ~closed /\ loop = "poll"
    /\ conn' = "up"
    /\ loop' = "connect cb"
    /\ UNCHANGED <<callVars, ring, wakeup, asked, closed, reqs, outq, gone, wire,
                   breaks, free>>

SendStep(s) ==
    \/ FirstWakeup(s)
    \/ CheckAsked(s)
    \/ WriteRing(s)
    \/ LastWakeup(s)

Next ==
    \/ \E s \in Sender : Send(s) \/ SendStep(s)
    \/ Close
    \/ AsyncCB
    \/ AfterRecv
    \/ AfterRecvEnd
    \/ CallbackDone
    \/ SendInl
    \/ AfterSend
    \/ AfterSendFailed
    \/ KernelTakes
    \/ Break
    \/ Reconnect
    \/ ReconnectFails
    \/ Reconnected

(* A thread inside Send is scheduled, and so is the loop thread, which     *)
(* serves a pending wakeup in each turn of uv_run whatever else is ready.  *)
(* Nothing is asked of the kernel, of the peer or of the network.          *)
Fairness ==
    /\ \A s \in Sender : WF_vars(SendStep(s))
    /\ WF_vars(SendInl)
    /\ WF_vars(CallbackDone)
    /\ SF_vars(AsyncCB)

Spec == Init /\ [][Next]_vars /\ Fairness

(* The same with a kernel that takes every byte and a libuv that calls     *)
(* every finished write back: all that could still help a waiting Send.    *)
PromptSpec == Spec /\ WF_vars(KernelTakes) /\ WF_vars(AfterSend)

-----------------------------------------------------------------------------
Bytes == [by : Sender, call : Nat, nth : Nat]

TypeOK ==
    /\ pc \in [Sender -> {"idle", "first wakeup", "check", "write", "last wakeup"}]
    /\ calls \in [Sender -> Nat]
    /\ len \in [Sender -> Lengths \cup {0}]
    /\ iret \in [Sender -> Nat]
    /\ accepted \in [Sender -> Nat]
    /\ ring \in Seq(Bytes) /\ Len(ring) <= Capacity
    /\ wakeup \in BOOLEAN
    /\ asked \in BOOLEAN
    /\ closed \in BOOLEAN
    /\ loop \in {"poll", "send_inl", "send_inl, recvdata",
                "recv cb", "end cb", "connect cb"}
    /\ conn \in {"up", "broken", "closing", "connecting", "failed"}
    /\ reqs \in Seq([param : Nat, upTo : Nat])
    /\ outq \in Seq(Bytes)
    /\ gone \in Nat
    /\ wire \in Seq(Bytes)
    /\ free \in Seq(Nat) /\ Len(free) <= MaxList + 1
    /\ breaks \in 0 .. MaxBreaks

(* The bytes that Send has accepted and that are not lost, the first ones  *)
(* first: with the kernel, with libuv and in the ring.                     *)
OnTheWay == wire \o outq \o ring

(* What a thread has sent reaches the kernel in the order it was sent and  *)
(* no byte of it twice, through full rings, failed writes and reconnection.*)
InOrderOnce ==
    \A i, j \in DOMAIN OnTheWay :
        i < j /\ OnTheWay[i].by = OnTheWay[j].by => OnTheWay[i].nth < OnTheWay[j].nth

(* As long as the connection has not been lost nor closed, every byte that *)
(* Send has accepted, and no other, is in one of the three places.         *)
NothingLostWhileUp ==
    breaks = 0 =>
        \A s \in Sender :
            {OnTheWay[i].nth : i \in {j \in DOMAIN OnTheWay : OnTheWay[j].by = s}}
                = 1 .. accepted[s]

(* No write_param is in use twice or both in use and on the list: libuv    *)
(* would be given a request, and a buffer, it is still working on.         *)
PoolSound ==
    /\ Cardinality(InFlight) = Len(reqs)
    /\ Cardinality(Kept) = Len(free)
    /\ InFlight \cap Kept = {}

(* The thread is in a call of Send with more than the ring holds. *)
Oversized(s) == pc[s] # "idle" /\ len[s] > Capacity

(* Bytes in the ring are never forgotten: there is a wakeup to come, the   *)
(* loop thread is looking, or a thread is on its way to wake it.  There is *)
(* one exception: a call that sends more than the ring holds fills it and  *)
(* sleeps, with no wakeup after that, and while it does so what others     *)
(* store may wait with its bytes.                                          *)
NoLostWakeup ==
    ring # <<>> /\ ~asked =>
        \/ wakeup
        \/ Draining
        \/ \E s \in Sender : pc[s] = "last wakeup" \/ Oversized(s)

(* Every call of Send returns. *)
SendReturns == \A s \in Sender : pc[s] # "idle" ~> pc[s] = "idle"

(* What a Send may wait for in vain: the loop thread while that is itself  *)
(* in Send, and the room that a call with more than the ring holds takes.  *)
Obstructed ==
    \/ LoopThread \in Sender /\ pc[LoopThread] # "idle"
    \/ \E s \in Sender : Oversized(s)

(* A call of Send returns unless, from some time on, the loop thread itself*)
(* is in Send or some call with more than the ring holds, this one or      *)
(* another, is under way: such calls may never return, but once they do,   *)
(* those that had to wait for them return too.                             *)
SendReturnsUnobstructed ==
    \A s \in Sender \ {LoopThread} :
        []<>~Obstructed => (pc[s] # "idle" ~> pc[s] = "idle")
=============================================================================

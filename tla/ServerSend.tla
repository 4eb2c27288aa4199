----------------------------- MODULE ServerSend -----------------------------
(***************************************************************************)
(* A TCPServer that answers its connections, src/tcpserver.cpp: the module *)
(* Server with what it leaves out.  A packet that a connection's parser    *)
(* has found is given to the user's ParsePacket, and what that returns is  *)
(* written to the connection; requests and their buffers (write_param) go  *)
(* to libuv and back to a list.  The map of clients is guarded by          *)
(* mutex_clients_, which is not recursive and which SetRecvCB takes: a     *)
(* user thread calls that, and so do the user's callbacks, in the thread   *)
(* of the loop.  broadcast, which nothing calls, is left out, and so are   *)
(* calls of Start after the first, which Server has.                       *)
(***************************************************************************)
EXTENDS Server, Functions, SequencesExt

CONSTANTS MaxPackets,   \* bound: the packets that are received
          MaxSets       \* bound: the calls of SetRecvCB by the user thread

ASSUME SendBoundsAssumption == {MaxPackets, MaxSets} \subseteq Nat

VARIABLES
    free,       \* writeparam_list_; a write_param is a number
    buf,        \* the reply in the buffer of each write_param
    flight,     \* the params that libuv has for each TcpClientCtx
    answered,   \* how many replies to each client libuv has accepted
    wire,       \* the replies that each client's socket has taken
    lost,       \* the clients whose peer is gone, for the socket to find out
    mutex,      \* who holds mutex_clients_: "nobody", "user" or "loop"
    setter,     \* the user thread, in SetRecvCB: "idle", "waiting" or "found"
    found,      \* the client it has found, 0 for none
    sets,       \* how many calls of SetRecvCB it has begun
    callback    \* the callback whose SetRecvCB the loop thread is in

writeVars == <<free, buf, flight, answered, wire, lost>>
lockVars  == <<mutex, setter, found, sets, callback>>
sendVars  == <<vars, writeVars, lockVars>>

Clients == 1 .. MaxClients
Params  == 1 .. MaxPackets

(* The nth reply to a client. *)
Reply(id, n) == [to |-> id, nth |-> n]

SendInit ==
    /\ Init
    /\ free = <<>>
    /\ buf = [p \in Params |-> Reply(0, 0)]
    /\ flight = [c \in Ctx |-> <<>>]
    /\ answered = [id \in Clients |-> 0]
    /\ wire = [id \in Clients |-> <<>>]
    /\ lost = {}
    /\ mutex = "nobody"
    /\ setter = "idle"
    /\ found = 0
    /\ sets = 0
    /\ callback = "none"

-----------------------------------------------------------------------------
(* Replies, in the loop thread.                                            *)

(* The loop thread is in none of the user's callbacks. *)
LoopFree == InLoop /\ callback = "none"

InFlight == UNION {Range(flight[c]) : c \in Ctx}
Spare    == Range(free)
NewParam == CHOOSE p \in Params : p \notin InFlight \cup Spare

(* A mistake RepliesSound must notice: the param is taken but left on the  *)
(* list, and the next reply goes into its buffer as well.                  *)
PopParamKeeps == IF free = <<>> THEN <<NewParam, <<>>>> ELSE <<free[1], free>>

(* The write_param for the next reply, and the list without it. *)
PopParam == IF free = <<>> THEN <<NewParam, <<>>>> ELSE <<free[1], Tail(free)>>

(* The replies that libuv has accepted. *)
Accepted == UNION {{Reply(id, n) : n \in 1 .. answered[id]} : id \in Clients}

(* GetPacket and sendinl: the reply is copied into the buffer of a param   *)
(* and given to uv_write, which may refuse it.                             *)
GetPacket(id) ==
    LET p == PopParam[1] IN
    /\ LoopFree /\ handle[clients[id]] = "open"
    /\ Cardinality(Accepted) < MaxPackets
    /\ buf' = [buf EXCEPT ![p] = Reply(id, answered[id] + 1)]
    /\ \/ /\ flight' = [flight EXCEPT ![clients[id]] = Append(@, p)]
          /\ free' = PopParam[2]
          /\ answered' = [answered EXCEPT ![id] = @ + 1]
          /\ UNCHANGED failures
       \/ /\ Fails
          /\ free' = Append(PopParam[2], p)
          /\ UNCHANGED <<flight, answered>>
    /\ UNCHANGED <<isclosed, asked, threadVars, wakeup, base, clientVars, userVars,
                   misused, wire, lost, lockVars>>

(* A mistake SendTypeOK must notice: the list is never cut. *)
RecycledParamAlways(p) == Append(free, p)

(* writeparam_list_ when a request is done; a full list frees it. *)
RecycledParam(p) == IF Len(free) > MaxList THEN free ELSE Append(free, p)

(* AfterSend, with status 0 once the socket has taken the reply, else with *)
(* an error; libuv calls back in order, and before the close callback.     *)
AfterSend(id) ==
    LET c == clients[id] IN
    /\ LoopFree /\ flight[c] # <<>>
    /\ flight' = [flight EXCEPT ![c] = Tail(@)]
    /\ free' = RecycledParam(Head(flight[c]))
    /\ \/ /\ handle[c] = "open" /\ id \notin lost
          /\ wire' = [wire EXCEPT ![id] = Append(@, buf[Head(flight[c])])]
       \/ /\ handle[c] = "closing" \/ id \in lost
          /\ UNCHANGED wire
    /\ UNCHANGED <<vars, buf, answered, lost, lockVars>>

(* The peer goes without a word; the socket finds out by writing. *)
PeerGone(id) ==
    /\ id \notin lost /\ flight[clients[id]] # <<>>
    /\ Fails
    /\ lost' = lost \cup {id}
    /\ UNCHANGED <<isclosed, asked, threadVars, wakeup, base, clientVars, userVars,
                   misused, free, buf, flight, answered, wire, lockVars>>

-----------------------------------------------------------------------------
(* SetRecvCB and the mutex.                                                *)

SetRecvCB ==
    /\ setter = "idle" /\ sets < MaxSets
    /\ setter' = "waiting"
    /\ sets' = sets + 1
    /\ UNCHANGED <<vars, writeVars, mutex, found, callback>>

(* It has the mutex and looks for a client. *)
SetRecvCBFinds ==
    /\ setter = "waiting" /\ mutex = "nobody"
    /\ mutex' = "user"
    /\ setter' = "found"
    /\ found' \in Ids \cup {0}
    /\ UNCHANGED <<vars, writeVars, sets, callback>>

(* A mistake ShutdownUnlessStuck must notice: an early return, when there  *)
(* is no such client, leaves the mutex locked.                             *)
SetRecvCBLeaks ==
    /\ setter = "found"
    /\ mutex' = IF found = 0 THEN mutex ELSE "nobody"
    /\ setter' = "idle"
    /\ found' = 0
    /\ UNCHANGED <<vars, writeVars, sets, callback>>

(* It sets the callback, if there is such a client, and unlocks. *)
SetRecvCBSets ==
    /\ setter = "found"
    /\ mutex' = "nobody"
    /\ setter' = "idle"
    /\ found' = 0
    /\ UNCHANGED <<vars, writeVars, sets, callback>>

(* The same in a callback; nothing else in the loop thread goes on. *)
CallbackSets ==
    /\ callback # "none" /\ mutex = "nobody"
    /\ callback' = "none"
    /\ UNCHANGED <<vars, writeVars, mutex, setter, found, sets>>

(* A mistake SetRecvCBReturns must notice: newconcb_ is called before      *)
(* the mutex is given up.                                                  *)
NewConCBLocked ==
    \/ UNCHANGED <<mutex, callback>>
    \/ callback' = "newconcb" /\ mutex' = "loop"

(* newconcb_, outside the mutex: it calls SetRecvCB or it does not. *)
NewConCB ==
    /\ callback' \in {"none", "newconcb"}
    /\ UNCHANGED mutex

(* AcceptConnection, which takes the mutex for the insertion. *)
AcceptConnection ==
    /\ LoopFree /\ mutex = "nobody"
    /\ Accept
    /\ NewConCB
    /\ UNCHANGED <<writeVars, setter, found, sets>>

(* A mistake FoundLives must notice: SubClientClosed without the mutex. *)
SubClientClosedUnlocked(id) ==
    /\ LoopFree /\ flight[clients[id]] = <<>>
    /\ AfterClientClose(id)
    /\ UNCHANGED <<writeVars, lockVars>>

(* A mistake RequestsLive must notice: a connection is forgotten and its   *)
(* context recycled as soon as uv_close has been called.                   *)
SubClientClosedAtOnce(id) ==
    /\ LoopFree /\ mutex = "nobody" /\ handle[clients[id]] = "open"
    /\ handle' = [handle EXCEPT ![clients[id]] = "closing"]
    /\ avail' = Recycled(clients[id])
    /\ clients' = [i \in Ids \ {id} |-> clients[i]]
    /\ told' = told \cup {id}
    /\ UNCHANGED <<isclosed, asked, threadVars, wakeup, base, lastid, recycling,
                   announced, command, misused, failures, writeVars, lockVars>>

(* AfterClientClose and SubClientClosed: closedcb_ is called under the     *)
(* mutex, and does not come back when it calls SetRecvCB.                  *)
SubClientClosed(id) ==
    /\ LoopFree /\ mutex = "nobody" /\ flight[clients[id]] = <<>>
    /\ \/ /\ AfterClientClose(id)
          /\ UNCHANGED <<mutex, callback>>
       \/ /\ handle[clients[id]] = "closing"
          /\ callback' = "closedcb" /\ mutex' = "loop"
          /\ told' = told \cup {id}
          /\ UNCHANGED <<isclosed, asked, threadVars, wakeup, base, clientVars,
                         announced, command, misused, failures>>
    /\ UNCHANGED <<writeVars, setter, found, sets>>

-----------------------------------------------------------------------------
(* The other steps of Server.  closeinl takes the mutex.                   *)

AsyncClose ==
    /\ LoopFree /\ (asked => mutex = "nobody")
    /\ AsyncCloseCB
    /\ UNCHANGED <<writeVars, lockVars>>

OtherLoopStep ==
    /\ LoopFree
    /\ AcceptFails \/ \E id \in Ids : AfterRecvEnd(id)
    /\ UNCHANGED <<writeVars, lockVars>>

OtherClosed ==
    /\ LoopFree
    /\ AfterServerClose \/ \E c \in recycling : RecycleTcpHandle(c)
    /\ UNCHANGED <<writeVars, lockVars>>

HandleClosed == OtherClosed \/ \E id \in Ids : SubClientClosed(id)

UserStep ==
    /\ Start \/ StartReturns \/ Close
    /\ UNCHANGED <<writeVars, lockVars>>

StartThread(k) == ThreadStep(k) /\ UNCHANGED <<writeVars, lockVars>>

Sent == \E id \in Ids : AfterSend(id)

SetterStep == SetRecvCBFinds \/ SetRecvCBSets

SendNext ==
    \/ \E id \in Ids : GetPacket(id) \/ PeerGone(id)
    \/ Sent
    \/ SetRecvCB
    \/ SetterStep
    \/ CallbackSets
    \/ AcceptConnection
    \/ AsyncClose
    \/ OtherLoopStep
    \/ HandleClosed
    \/ UserStep
    \/ \E k \in Runs : StartThread(k)

(* As in Server; the user thread inside SetRecvCB is scheduled too.  The   *)
(* calls of SetRecvCB that can keep another thread from the mutex are few, *)
(* so that weak fairness gives it to each in the end.                      *)
SendFairness ==
    /\ \A k \in Runs : WF_sendVars(StartThread(k))
    /\ WF_sendVars(SetterStep)
    /\ WF_sendVars(CallbackSets)
    /\ WF_sendVars(AsyncClose)
    /\ WF_sendVars(HandleClosed)
    /\ WF_sendVars(Sent)

SendSpec == SendInit /\ [][SendNext]_sendVars /\ SendFairness

-----------------------------------------------------------------------------
SendTypeOK ==
    /\ TypeOK
    /\ free \in Seq(Params) /\ Len(free) <= MaxList + 1
    /\ buf \in [Params -> [to : Clients \cup {0}, nth : 0 .. MaxPackets]]
    /\ \A c \in Ctx : flight[c] \in Seq(Params)
    /\ answered \in [Clients -> 0 .. MaxPackets]
    /\ \A id \in Clients : wire[id] \in Seq([to : Clients, nth : 1 .. MaxPackets])
    /\ lost \subseteq Clients
    /\ mutex \in {"nobody", "user", "loop"}
    /\ setter \in {"idle", "waiting", "found"}
    /\ found \in Clients \cup {0}
    /\ sets \in 0 .. MaxSets
    /\ callback \in {"none", "newconcb", "closedcb"}

Replies(id) == [n \in 1 .. answered[id] |-> Reply(id, n)]

(* The socket of a client takes replies to this client's packets only, in  *)
(* the order of the packets and each once, whatever becomes of the other   *)
(* connections, of the contexts and of the params they share; and while    *)
(* the connection is open the rest is on its way.                          *)
RepliesSound ==
    \A id \in Clients :
        /\ IsPrefix(wire[id], Replies(id))
        /\ id \in Ids /\ handle[clients[id]] = "open" /\ id \notin lost
               => LET pending == flight[clients[id]]
                  IN  wire[id] \o [i \in DOMAIN pending |-> buf[pending[i]]]
                          = Replies(id)

(* AfterSend looks into the context that the request was made for: while   *)
(* libuv has a request the context is a client's, neither freed nor on the *)
(* list for another connection.                                            *)
RequestsLive ==
    \A c \in Ctx : flight[c] # <<>> => \E id \in Ids : clients[id] = c

(* Between finding a client and setting its callback SetRecvCB has an      *)
(* object that nobody deletes.                                             *)
FoundLives == found # 0 => found \in Ids

(* The loop thread waits for a mutex that it holds itself. *)
Stuck == callback = "closedcb"

(* SetRecvCB returns, in a user thread and in the callback of a new        *)
(* connection, where src/test_tcpserver.cpp:40 calls it; all that can keep *)
(* it is a closed callback that calls it.                                  *)
SetRecvCBReturns ==
    /\ setter = "waiting" ~> setter = "idle" \/ Stuck
    /\ callback = "newconcb" ~> callback = "none" \/ Stuck

(* As ShutdownCompletes, with requests to call back and a mutex to take.   *)
ShutdownUnlessStuck == base = "closing" /\ InLoop ~> isclosed \/ Stuck
=============================================================================

------------------------------- MODULE Server -------------------------------
(***************************************************************************)
(* The life of a TCPServer and of its AcceptClients, src/tcpserver.cpp: it *)
(* is started, accepts connections, loses them, is closed, and may be      *)
(* started again.  A user thread calls Start and Close; each Start creates *)
(* a StartThread, which runs the loop and, when the loop has nothing left  *)
(* open, ends with a few assignments and the close callback.  The loop     *)
(* runs one callback at a time, in any order events may come in.           *)
(*                                                                         *)
(* A connection is known by its client id.  Its uv_tcp_t is part of a      *)
(* TcpClientCtx, which is kept on a list and used again when the           *)
(* connection is gone.  What is received and sent is not modelled here.    *)
(***************************************************************************)
EXTENDS Integers, Sequences, FiniteSets

CONSTANTS Ctx,          \* the TcpClientCtx that memory is there for
          MaxList,      \* MAXLISTSIZE
          MaxStarts,    \* bound: the calls of Start
          MaxClients,   \* bound: the connections, s_id of GetAvailaClientID
          MaxFailures   \* bound: the calls of libuv that fail

ASSUME BoundsAssumption == {MaxList, MaxStarts, MaxClients, MaxFailures} \subseteq Nat
ASSUME CtxAssumption    == IsFiniteSet(Ctx) /\ Cardinality(Ctx) > MaxClients

VARIABLES
    isclosed,     \* isclosed_
    asked,        \* isuseraskforclosed_
    startstatus,  \* startstatus_
    user,         \* the user thread: "idle" or "waiting" inside Start
    starts,       \* how many calls of Start there were
    thread,       \* where each StartThread is
    wakeup,       \* an uv_async_send that the loop has not answered yet
    base,         \* async_handle_close_ and tcp_handle_: "none", "open" or
                  \* "closing"; they are opened and closed together
    handle,       \* the tcphandle of each TcpClientCtx
    avail,        \* avai_tcphandle_
    clients,      \* clients_list_: for a client id its TcpClientCtx
    lastid,       \* s_id
    recycling,    \* the TcpClientCtx whose close callback is RecycleTcpHandle
    announced,    \* the client ids given to newconcb_, by the Start they
                  \* belong to
    told,         \* the client ids given to closedcb_
    command,      \* the user has called Close since the last Start
    misused,      \* uv_close was called for a handle that was closing, or
                  \* uv_tcp_init for one that was open
    failures      \* how many calls of libuv have failed

threadVars == <<startstatus, user, starts, thread>>
clientVars == <<handle, avail, clients, lastid, recycling>>
userVars   == <<announced, told, command>>
vars == <<isclosed, asked, threadVars, wakeup, base, clientVars, userVars,
          misused, failures>>

Runs == 1 .. MaxStarts
Ids  == DOMAIN clients

Init ==
    /\ isclosed = TRUE
    /\ asked = FALSE
    /\ startstatus = "START_DIS"
    /\ user = "idle"
    /\ starts = 0
    /\ thread = [k \in Runs |-> "none"]
    /\ wakeup = FALSE
    /\ base = "none"
    /\ handle = [c \in Ctx |-> "none"]
    /\ avail = <<>>
    /\ clients = <<>>
    /\ lastid = 0
    /\ recycling = {}
    /\ announced = [k \in Runs |-> {}]
    /\ told = {}
    /\ command = FALSE
    /\ misused = FALSE
    /\ failures = 0

-----------------------------------------------------------------------------
(* The user thread.  It calls Start only when IsClosed, or after a Start   *)
(* that has failed.                                                        *)

(* init; that it fails half-way is left out. *)
OpenHandles == isclosed' = FALSE /\ base' = "open"

(* Start or Start6, of a server that IsClosed: closeinl does nothing, init *)
(* opens the two handles.  When bind, listen or uv_thread_create fails it  *)
(* returns false and leaves them open; else there is a thread, and Start   *)
(* waits until startstatus_ is not START_DIS, which it is only the first   *)
(* time.                                                                   *)
Start ==
    /\ user = "idle" /\ isclosed /\ starts < MaxStarts
    /\ OpenHandles
    /\ wakeup' = FALSE
    /\ command' = FALSE
    /\ starts' = starts + 1
    /\ \/ /\ thread' = [thread EXCEPT ![starts + 1] = "created"]
          /\ user' = "waiting"
          /\ UNCHANGED failures
       \/ /\ failures < MaxFailures
          /\ failures' = failures + 1
          /\ UNCHANGED <<thread, user>>
    /\ UNCHANGED <<asked, startstatus, clientVars, announced, told, misused>>

(* Start, of a server that an earlier call has left open without a thread: *)
(* closeinl closes the two handles, but no loop runs to call back, init    *)
(* sees that isclosed_ is false, and bind refuses a handle being closed.   *)
StartOver ==
    /\ user = "idle" /\ ~isclosed /\ starts < MaxStarts
    /\ \A k \in Runs : thread[k] \in {"none", "ended"}
    /\ base' = "closing"
    /\ command' = FALSE
    /\ starts' = starts + 1
    /\ UNCHANGED <<isclosed, asked, startstatus, user, thread, wakeup, clientVars,
                   announced, told, misused, failures>>

(* Start returns, or gives up after ten seconds. *)
StartReturns ==
    /\ user = "waiting"
    /\ user' = "idle"
    /\ startstatus' = IF startstatus = "START_DIS" THEN "START_TIMEOUT" ELSE startstatus
    /\ UNCHANGED <<isclosed, asked, starts, thread, wakeup, base, clientVars,
                   userVars, misused, failures>>

(* Close, from any thread, at most once after each Start. *)
Close ==
    /\ ~isclosed /\ ~command
    /\ asked' = TRUE
    /\ wakeup' = TRUE
    /\ command' = TRUE
    /\ UNCHANGED <<isclosed, threadVars, base, clientVars, announced, told,
                   misused, failures>>

-----------------------------------------------------------------------------
(* StartThread, apart from the loop.                                       *)

Begin(k) ==
    /\ thread[k] = "created"
    /\ thread' = [thread EXCEPT ![k] = "running"]
    /\ startstatus' = "START_FINISH"
    /\ UNCHANGED <<isclosed, asked, user, starts, wakeup, base, clientVars, userVars,
                   misused, failures>>

Open(h) == h # "none"

(* Handles that a client or a close callback still belongs to; a handle    *)
(* that nothing was ever begun on does not keep the loop.                  *)
Kept == {clients[id] : id \in Ids} \cup recycling \cup {c \in Ctx : handle[c] = "closing"}

(* uv_run returns when all handles are closed. *)
RunReturns(k) ==
    /\ thread[k] = "running" /\ ~misused /\ base = "none" /\ Kept = {}
    /\ thread' = [thread EXCEPT ![k] = "run returned"]
    /\ UNCHANGED <<isclosed, asked, startstatus, user, starts, wakeup, base,
                   clientVars, userVars, misused, failures>>

SetClosed(k) ==
    /\ thread[k] = "run returned"
    /\ thread' = [thread EXCEPT ![k] = "closed"]
    /\ isclosed' = TRUE
    /\ UNCHANGED <<asked, startstatus, user, starts, wakeup, base, clientVars,
                   userVars, misused, failures>>

ResetAsked(k) ==
    /\ thread[k] = "closed"
    /\ thread' = [thread EXCEPT ![k] = "reset"]
    /\ asked' = FALSE
    /\ UNCHANGED <<isclosed, startstatus, user, starts, wakeup, base, clientVars,
                   userVars, misused, failures>>

(* closedcb_(-1, ...). *)
TellClosed(k) ==
    /\ thread[k] = "reset"
    /\ thread' = [thread EXCEPT ![k] = "ended"]
    /\ UNCHANGED <<isclosed, asked, startstatus, user, starts, wakeup, base,
                   clientVars, userVars, misused, failures>>

-----------------------------------------------------------------------------
(* The callbacks of the loop.                                              *)

(* A handle closed or opened twice is the end of what can be said: libuv   *)
(* asserts against the one, and corrupts its list of closing handles when  *)
(* built without assertions; the other corrupts its list of handles.       *)
InLoop == ~misused /\ \E k \in Runs : thread[k] = "running"
Run == CHOOSE k \in Runs : thread[k] = "running"

Fresh == CHOOSE c \in Ctx : /\ handle[c] = "none"
                            /\ \A i \in DOMAIN avail : avail[i] # c

(* A mistake CtxSound must notice: the context stays on the list. *)
PopCtxKeeps == IF avail = <<>> THEN <<Fresh, <<>>>> ELSE <<avail[1], avail>>

(* The context for a new connection, and the list without it. *)
PopCtx == IF avail = <<>> THEN <<Fresh, <<>>>> ELSE <<avail[1], Tail(avail)>>

Fails == failures < MaxFailures /\ failures' = failures + 1

(* AcceptConnection, status 0. *)
Accept ==
    LET c == PopCtx[1] IN
    /\ InLoop /\ base = "open" /\ lastid < MaxClients
    /\ lastid' = lastid + 1
    /\ handle' = [handle EXCEPT ![c] = "open"]
    /\ avail' = PopCtx[2]
    /\ clients' = [id \in Ids \cup {lastid + 1} |-> IF id \in Ids THEN clients[id] ELSE c]
    /\ announced' = [announced EXCEPT ![Run] = @ \cup {lastid + 1}]
    /\ misused' = (handle[c] = "open")
    /\ UNCHANGED <<isclosed, asked, threadVars, wakeup, base, recycling, told,
                   command, failures>>

(* A call of libuv fails in AcceptConnection: uv_tcp_init, uv_accept (the  *)
(* context goes back to the list with its handle open) or uv_read_start.   *)
AcceptFails ==
    LET c == PopCtx[1] IN
    /\ InLoop /\ base = "open" /\ lastid < MaxClients
    /\ Fails
    /\ misused' = (handle[c] = "open")
    /\ \/ /\ avail' = Append(PopCtx[2], c)
          /\ UNCHANGED <<handle, lastid, recycling>>
       \/ /\ avail' = Append(PopCtx[2], c)
          /\ handle' = [handle EXCEPT ![c] = "open"]
          /\ lastid' = lastid + 1
          /\ UNCHANGED recycling
       \/ /\ avail' = PopCtx[2]
          /\ handle' = [handle EXCEPT ![c] = "closing"]
          /\ lastid' = lastid + 1
          /\ recycling' = recycling \cup {c}
    /\ UNCHANGED <<isclosed, asked, threadVars, wakeup, base, clients, userVars>>

(* AcceptClient::Close. *)
CloseClient(id) == handle' = [handle EXCEPT ![clients[id]] = "closing"]

(* AfterRecv, nread < 0. *)
AfterRecvEnd(id) ==
    /\ InLoop /\ handle[clients[id]] = "open"
    /\ CloseClient(id)
    /\ UNCHANGED <<isclosed, asked, threadVars, wakeup, base, avail, clients, lastid,
                   recycling, userVars, misused, failures>>

(* A mistake ShutdownCompletes must notice: connections stay open until    *)
(* the peer closes them.                                                   *)
CloseInlServerOnly ==
    /\ base' = "closing"
    /\ UNCHANGED <<handle, clients, misused>>

(* A mistake ClosedLast must notice: connections are left to uv_walk, and  *)
(* its close callback tells the user nothing.                              *)
CloseInlWalkOnly ==
    /\ handle' = [c \in Ctx |-> IF Open(handle[c]) THEN "closing" ELSE "none"]
    /\ base' = "closing"
    /\ clients' = <<>>
    /\ UNCHANGED misused

(* closeinl: AcceptClient::Close for every client, though the handle of    *)
(* one may be closing by now, and then all other handles of the loop.      *)
CloseInl ==
    /\ misused' = (\E id \in Ids : handle[clients[id]] = "closing")
    /\ handle' = [c \in Ctx |-> IF Open(handle[c]) THEN "closing" ELSE "none"]
    /\ base' = "closing"
    /\ UNCHANGED clients

AsyncCloseCB ==
    /\ InLoop /\ wakeup /\ base = "open"
    /\ wakeup' = FALSE
    /\ \/ asked /\ CloseInl
       \/ ~asked /\ UNCHANGED <<handle, base, clients, misused>>
    /\ UNCHANGED <<isclosed, asked, threadVars, avail, lastid, recycling, userVars, failures>>

(* A mistake TypeOK must notice: the list is never cut. *)
RecycledAlways(c) == Append(avail, c)

(* avai_tcphandle_ when a context is done with; a full list frees it. *)
Recycled(c) == IF Len(avail) > MaxList THEN avail ELSE Append(avail, c)

(* AcceptClient::AfterClientClose and SubClientClosed. *)
AfterClientClose(id) ==
    /\ InLoop /\ handle[clients[id]] = "closing"
    /\ handle' = [handle EXCEPT ![clients[id]] = "none"]
    /\ avail' = Recycled(clients[id])
    /\ clients' = [i \in Ids \ {id} |-> clients[i]]
    /\ told' = told \cup {id}
    /\ UNCHANGED <<isclosed, asked, threadVars, wakeup, base, lastid, recycling,
                   announced, command, misused, failures>>

RecycleTcpHandle(c) ==
    /\ InLoop /\ handle[c] = "closing"
    /\ handle' = [handle EXCEPT ![c] = "none"]
    /\ avail' = Recycled(c)
    /\ recycling' = recycling \ {c}
    /\ UNCHANGED <<isclosed, asked, threadVars, wakeup, base, clients, lastid,
                   userVars, misused, failures>>

(* AfterServerClose, for the two handles of the server or for one that     *)
(* uv_accept left open.                                                    *)
AfterServerClose ==
    /\ InLoop
    /\ \/ /\ base = "closing"
          /\ base' = "none"
          /\ UNCHANGED handle
       \/ \E c \in Ctx \ ({clients[id] : id \in Ids} \cup recycling) :
              /\ handle[c] = "closing"
              /\ handle' = [handle EXCEPT ![c] = "none"]
              /\ UNCHANGED base
    /\ UNCHANGED <<isclosed, asked, threadVars, wakeup, avail, clients, lastid,
                   recycling, userVars, misused, failures>>

ThreadStep(k) ==
    \/ Begin(k)
    \/ RunReturns(k)
    \/ SetClosed(k)
    \/ ResetAsked(k)
    \/ TellClosed(k)

CloseCallback ==
    \/ \E id \in Ids : AfterClientClose(id)
    \/ \E c \in recycling : RecycleTcpHandle(c)
    \/ AfterServerClose

Next ==
    \/ Start
    \/ StartOver
    \/ StartReturns
    \/ Close
    \/ \E k \in Runs : ThreadStep(k)
    \/ Accept
    \/ AcceptFails
    \/ \E id \in Ids : AfterRecvEnd(id)
    \/ AsyncCloseCB
    \/ CloseCallback

(* Threads are scheduled, and the loop calls what is due. *)
Fairness ==
    /\ \A k \in Runs : WF_vars(ThreadStep(k))
    /\ WF_vars(AsyncCloseCB)
    /\ WF_vars(CloseCallback)

Spec == Init /\ [][Next]_vars /\ Fairness

-----------------------------------------------------------------------------
TypeOK ==
    /\ isclosed \in BOOLEAN
    /\ asked \in BOOLEAN
    /\ startstatus \in {"START_DIS", "START_FINISH", "START_TIMEOUT"}
    /\ user \in {"idle", "waiting"}
    /\ starts \in 0 .. MaxStarts
    /\ thread \in [Runs -> {"none", "created", "running", "run returned",
                            "closed", "reset", "ended"}]
    /\ wakeup \in BOOLEAN
    /\ base \in {"none", "open", "closing"}
    /\ handle \in [Ctx -> {"none", "open", "closing"}]
    /\ avail \in Seq(Ctx) /\ Len(avail) <= MaxList + 1
    /\ Ids \subseteq 1 .. MaxClients /\ clients \in [Ids -> Ctx]
    /\ lastid \in 0 .. MaxClients
    /\ recycling \subseteq Ctx
    /\ announced \in [Runs -> SUBSET (1 .. MaxClients)]
    /\ told \subseteq 1 .. MaxClients
    /\ command \in BOOLEAN
    /\ misused \in BOOLEAN
    /\ failures \in 0 .. MaxFailures

(* A context serves one connection: none is in use by two clients, nor in  *)
(* use and on the list of spare ones, nor on the list twice.               *)
CtxSound ==
    /\ \A i, j \in Ids : clients[i] = clients[j] => i = j
    /\ \A i, j \in DOMAIN avail : avail[i] = avail[j] => i = j
    /\ \A i \in DOMAIN avail : \A id \in Ids : avail[i] # clients[id]
    /\ recycling \cap ({clients[id] : id \in Ids} \cup {avail[i] : i \in DOMAIN avail}) = {}

(* When the loop of a Start has ended, every client id that was announced  *)
(* in it has been told closed: the user hears -1, the end of the server,   *)
(* after the end of each of its connections.                               *)
ClosedLast ==
    \A k \in Runs : thread[k] \in {"run returned", "closed", "reset", "ended"} =>
        announced[k] \subseteq told

(* Once the loop has begun to close its handles the server ends closed. *)
ShutdownCompletes == base = "closing" /\ InLoop ~> isclosed

(* "Close ... only set the close command, call IsClosed to verify real     *)
(* closed" (src/tcpserver.h, the usage of TCPServer): after Close the      *)
(* server does get closed.                                                 *)
CloseTakesEffect == command ~> isclosed
=============================================================================

----------------------------- MODULE ClientLife -----------------------------
(***************************************************************************)
(* The life of a TCPClient, src/tcpclient.cpp: it connects, loses the      *)
(* connection, reconnects by a timer until it succeeds, is closed, and may *)
(* be connected again.  A user thread calls Connect and Close; each        *)
(* Connect creates a ConnectThread, which runs the loop until nothing is   *)
(* open in it.  Callbacks of the loop come one at a time, in any order but *)
(* that a handle which is being closed is called back before timers are.   *)
(*                                                                         *)
(* There is one stream handle, client_handle_->tcphandle, that is closed   *)
(* and initialized again for each reconnection.  Its field data is read as *)
(* a TcpClientCtx by some callbacks and as a TCPClient by another.         *)
(***************************************************************************)
EXTENDS Integers

CONSTANTS MaxConnects,  \* bound: the calls of Connect
          MaxFailures   \* bound: the calls of libuv that fail, but for those
                        \* that are tried again by the timer

ASSUME BoundsAssumption == {MaxConnects, MaxFailures} \subseteq Nat

VARIABLES
    isclosed,      \* isclosed_
    asked,         \* isuseraskforclosed_
    connectstatus, \* connectstatus_
    user,          \* the user thread: "idle" or where it is in Connect
    connects,      \* how many calls of Connect there were
    thread,        \* where each ConnectThread is
    wakeup,        \* an uv_async_send that the loop has not answered yet
    base,          \* async_handle_ and reconnect_timer_: "none", "open" or
                   \* "closing"; they are opened and closed together
    armed,         \* reconnect_timer_ is started; it repeats until stopped
    tcp,           \* the stream handle
    data,          \* its field data: client_handle_ or this
    pending,       \* its connect request has not been called back
    abandoned,     \* uv_tcp_init made the handle forget a connect request
                   \* that was pending, and that the loop goes on to count
    reconnecting,  \* isreconnecting_
    down,          \* the last event the user was told is a disconnect
    command,       \* the user has called Close since the last Connect
    failures       \* how many calls of libuv have failed

userVars   == <<user, connects, command>>
streamVars == <<tcp, data, pending, abandoned>>
retryVars  == <<armed, reconnecting>>
vars == <<isclosed, asked, connectstatus, userVars, thread, wakeup, base,
          streamVars, retryVars, down, failures>>

Runs == 1 .. MaxConnects

Init ==
    /\ isclosed = TRUE
    /\ asked = FALSE
    /\ connectstatus = "CONNECT_DIS"
    /\ user = "idle"
    /\ connects = 0
    /\ thread = [k \in Runs |-> "none"]
    /\ wakeup = FALSE
    /\ base = "none"
    /\ armed = FALSE
    /\ tcp = "none"
    /\ data = "ctx"
    /\ pending = FALSE
    /\ abandoned = FALSE
    /\ reconnecting = FALSE
    /\ down = FALSE
    /\ command = FALSE
    /\ failures = 0

-----------------------------------------------------------------------------
(* The user threads.                                                       *)

(* init; that it fails half-way is left out. *)
OpenHandles ==
    /\ isclosed' = FALSE
    /\ base' = "open"
    /\ armed' = FALSE
    /\ tcp' = "open"
    /\ data' = "ctx"

(* Connect or Connect6, of a client that IsClosed: closeinl does nothing,  *)
(* init opens the handles.  A call that fails then returns false and       *)
(* leaves them open, with no loop; else Connect waits for the callback.    *)
(* The status it waits for is not reset.                                   *)
Connect ==
    /\ user = "idle" /\ isclosed /\ connects < MaxConnects
    /\ OpenHandles
    /\ connects' = connects + 1
    /\ command' = FALSE
    /\ down' = FALSE
    /\ wakeup' = FALSE
    /\ \/ /\ pending' = TRUE
          /\ thread' = [thread EXCEPT ![connects + 1] = "running"]
          /\ user' = "waiting"
          /\ UNCHANGED failures
       \/ /\ failures < MaxFailures
          /\ failures' = failures + 1
          /\ UNCHANGED <<pending, thread, user>>
    /\ UNCHANGED <<asked, connectstatus, abandoned, reconnecting>>

(* Ten seconds are over when the status is looked at for the last time, *)
GiveUp ==
    /\ user = "waiting" /\ connectstatus = "CONNECT_DIS"
    /\ user' = "giving up"
    /\ UNCHANGED <<isclosed, asked, connectstatus, connects, command, thread, wakeup,
                   base, streamVars, retryVars, down, failures>>

(* and it is set, though it may have changed since. *)
TimeOut ==
    /\ user = "giving up"
    /\ connectstatus' = "CONNECT_TIMEOUT"
    /\ user' = "returning"
    /\ UNCHANGED <<isclosed, asked, connects, command, thread, wakeup, base,
                   streamVars, retryVars, down, failures>>

ConnectReturns ==
    /\ \/ user = "returning"
       \/ user = "waiting" /\ connectstatus # "CONNECT_DIS"
    /\ user' = "idle"
    /\ UNCHANGED <<isclosed, asked, connectstatus, connects, command, thread, wakeup,
                   base, streamVars, retryVars, down, failures>>

(* Close, in any thread. *)
Close ==
    /\ ~isclosed
    /\ asked' = TRUE
    /\ wakeup' = TRUE
    /\ command' = TRUE
    /\ UNCHANGED <<isclosed, connectstatus, user, connects, thread, base, streamVars,
                   retryVars, down, failures>>

(* Send wakes the loop; ClientSend has the rest of it. *)
Send ==
    /\ ~isclosed
    /\ wakeup' = TRUE
    /\ UNCHANGED <<isclosed, asked, connectstatus, userVars, thread, base, streamVars,
                   retryVars, down, failures>>

-----------------------------------------------------------------------------
(* run, apart from the callbacks of the loop.  uv_run returns when it has  *)
(* no handle and no request left; it counts the abandoned ones.            *)

RunReturns(k) ==
    /\ thread[k] = "running"
    /\ base = "none" /\ tcp = "none" /\ ~abandoned
    /\ thread' = [thread EXCEPT ![k] = "closed"]
    /\ isclosed' = TRUE
    /\ UNCHANGED <<asked, connectstatus, userVars, wakeup, base, streamVars,
                   retryVars, down, failures>>

(* closedcb_(-1, ...). *)
TellClosed(k) ==
    /\ thread[k] = "closed"
    /\ thread' = [thread EXCEPT ![k] = "ended"]
    /\ UNCHANGED <<isclosed, asked, connectstatus, userVars, wakeup, base, streamVars,
                   retryVars, down, failures>>

-----------------------------------------------------------------------------
(* The callbacks of the loop.                                              *)

InLoop == \E k \in Runs : thread[k] = "running"

(* StopReconnect. *)
StopReconnect ==
    /\ reconnecting' = FALSE
    /\ data' = "ctx"
    /\ armed' = FALSE

(* AfterConnect with an error, which may be that the handle is being       *)
(* closed.  A handle whose reconnection failed is left open.               *)
ConnectFails ==
    /\ InLoop /\ pending
    /\ pending' = FALSE
    /\ connectstatus' = "CONNECT_ERROR"
    /\ armed' = (armed \/ reconnecting)
    /\ UNCHANGED <<isclosed, asked, userVars, thread, wakeup, base, tcp, data, abandoned,
                   reconnecting, down, failures>>

(* A mistake Reconnects must notice: the timer goes on. *)
ConnectSucceedsTimerGoesOn ==
    /\ InLoop /\ pending /\ tcp = "open"
    /\ pending' = FALSE
    /\ \/ /\ tcp' = "connected"
          /\ connectstatus' = "CONNECT_FINISH"
          /\ UNCHANGED failures
       \/ /\ failures < MaxFailures
          /\ failures' = failures + 1
          /\ connectstatus' = "CONNECT_ERROR"
          /\ UNCHANGED tcp
    /\ down' = FALSE
    /\ UNCHANGED <<isclosed, asked, userVars, thread, wakeup, base, data, abandoned,
                   retryVars>>

(* A mistake AnswerSound must notice: a connection that cannot be read     *)
(* from is taken for one all the same.                                     *)
ConnectSucceedsUnread ==
    /\ InLoop /\ pending /\ tcp = "open"
    /\ pending' = FALSE
    /\ connectstatus' = "CONNECT_FINISH"
    /\ \/ /\ tcp' = "connected"
          /\ UNCHANGED failures
       \/ /\ failures < MaxFailures
          /\ failures' = failures + 1
          /\ UNCHANGED tcp
    /\ \/ reconnecting /\ StopReconnect /\ down' = FALSE
       \/ ~reconnecting /\ UNCHANGED <<data, retryVars, down>>
    /\ UNCHANGED <<isclosed, asked, userVars, thread, wakeup, base, abandoned>>

(* AfterConnect without an error.  Whether uv_read_start fails or not, a   *)
(* reconnection ends with this, and the user is told.                      *)
ConnectSucceeds ==
    /\ InLoop /\ pending /\ tcp = "open"
    /\ pending' = FALSE
    /\ \/ /\ tcp' = "connected"
          /\ connectstatus' = "CONNECT_FINISH"
          /\ UNCHANGED failures
       \/ /\ failures < MaxFailures
          /\ failures' = failures + 1
          /\ connectstatus' = "CONNECT_ERROR"
          /\ UNCHANGED tcp
    /\ \/ reconnecting /\ StopReconnect /\ down' = FALSE
       \/ ~reconnecting /\ UNCHANGED <<data, retryVars, down>>
    /\ UNCHANGED <<isclosed, asked, userVars, thread, wakeup, base, abandoned>>

(* A mistake RetryUnderWay must notice: the close callback will take the   *)
(* context for the client.                                                 *)
AfterRecvEndKeepsData ==
    /\ InLoop /\ tcp = "connected"
    /\ down' = TRUE
    /\ reconnecting' = TRUE
    /\ tcp' = "closing"
    /\ UNCHANGED <<isclosed, asked, connectstatus, userVars, thread, wakeup, base, data,
                   pending, abandoned, armed, failures>>

(* AfterRecv, nread < 0: the user is told, the handle closed. *)
AfterRecvEnd ==
    /\ InLoop /\ tcp = "connected"
    /\ down' = TRUE
    /\ reconnecting' = TRUE
    /\ data' = "client"
    /\ tcp' = "closing"
    /\ UNCHANGED <<isclosed, asked, connectstatus, userVars, thread, wakeup, base, pending,
                   abandoned, armed, failures>>

(* AfterClientClose of the stream handle; the connect request is called    *)
(* back before.  With data a TcpClientCtx, read as a TCPClient, it compares*)
(* the handle with the loop, which is found where client_handle_ would be, *)
(* and does nothing, like the close callback NULL of ReconnectTimer.       *)
AfterClientClose ==
    /\ InLoop /\ tcp = "closing" /\ ~pending
    /\ tcp' = "none"
    /\ armed' = (armed \/ (data = "client" /\ reconnecting))
    /\ UNCHANGED <<isclosed, asked, connectstatus, userVars, thread, wakeup, base, data,
                   pending, abandoned, reconnecting, down, failures>>

(* AfterClientClose of the other two. *)
BaseClosed ==
    /\ InLoop /\ base = "closing"
    /\ base' = "none"
    /\ UNCHANGED <<isclosed, asked, connectstatus, userVars, thread, wakeup, streamVars,
                   retryVars, down, failures>>

TimerDue == InLoop /\ base = "open" /\ armed /\ reconnecting /\ tcp # "closing"

(* A mistake CastsSound must notice: data stays what StartReconnect made   *)
(* of it.                                                                  *)
RetryKeepsData ==
    /\ TimerDue
    /\ tcp' = "open"
    /\ abandoned' = (abandoned \/ pending)
    /\ pending' = TRUE
    /\ UNCHANGED <<isclosed, asked, connectstatus, userVars, thread, wakeup, base,
                   data, retryVars, down, failures>>

(* ReconnectTimer: the handle is initialized and connected.  When it was   *)
(* open the descriptor it had is lost, when it was connecting the request. *)
Retry ==
    /\ TimerDue
    /\ tcp' = "open"
    /\ data' = "ctx"
    /\ abandoned' = (abandoned \/ pending)
    /\ pending' = TRUE
    /\ UNCHANGED <<isclosed, asked, connectstatus, userVars, thread, wakeup, base,
                   retryVars, down, failures>>

(* ReconnectTimer, when uv_tcp_connect fails: the handle is closed and the *)
(* timer started again.  When uv_tcp_init fails that is all that happens,  *)
(* and nothing changes here.                                               *)
RetryFails ==
    /\ TimerDue
    /\ tcp' = "closing"
    /\ data' = "ctx"
    /\ abandoned' = (abandoned \/ pending)
    /\ pending' = FALSE
    /\ UNCHANGED <<isclosed, asked, connectstatus, userVars, thread, wakeup, base,
                   retryVars, down, failures>>

(* A mistake ClosesInTheEnd must notice: the stream handle is not closed   *)
(* when a reconnection is under way.                                       *)
CloseInlConnected ==
    /\ tcp' = IF tcp = "connected" THEN "closing" ELSE tcp
    /\ base' = "closing"
    /\ StopReconnect

(* A mistake TypeOK must notice: the reconnection is not stopped. *)
CloseInlTimerRuns ==
    /\ tcp' = IF tcp = "none" THEN "none" ELSE "closing"
    /\ base' = "closing"
    /\ UNCHANGED <<data, retryVars>>

(* closeinl. *)
CloseInl ==
    /\ StopReconnect
    /\ tcp' = IF tcp = "none" THEN "none" ELSE "closing"
    /\ base' = "closing"

AsyncCB ==
    /\ InLoop /\ wakeup /\ base = "open"
    /\ wakeup' = FALSE
    /\ \/ asked /\ CloseInl
       \/ ~asked /\ UNCHANGED <<tcp, data, base, retryVars>>
    /\ UNCHANGED <<isclosed, asked, connectstatus, userVars, thread, pending, abandoned,
                   down, failures>>

UserStep   == GiveUp \/ TimeOut \/ ConnectReturns
ThreadStep == \E k \in Runs : RunReturns(k) \/ TellClosed(k)

Next ==
    \/ Connect
    \/ UserStep
    \/ Close
    \/ Send
    \/ ThreadStep
    \/ ConnectFails
    \/ ConnectSucceeds
    \/ AfterRecvEnd
    \/ AfterClientClose
    \/ BaseClosed
    \/ Retry
    \/ RetryFails
    \/ AsyncCB

(* Threads are scheduled, and the loop calls what is due: a wakeup, close  *)
(* callbacks with the requests they cancel, the timer.  No connection has  *)
(* to succeed, to fail or to end.                                          *)
Fairness ==
    /\ WF_vars(ThreadStep)
    /\ WF_vars(AsyncCB)
    /\ WF_vars(tcp = "closing" /\ ConnectFails)
    /\ WF_vars(AfterClientClose)
    /\ WF_vars(BaseClosed)
    /\ WF_vars(Retry \/ RetryFails)

Spec == Init /\ [][Next]_vars /\ Fairness

-----------------------------------------------------------------------------
UserTypes ==
    /\ user \in {"idle", "waiting", "giving up", "returning"}
    /\ connectstatus \in {"CONNECT_DIS", "CONNECT_FINISH", "CONNECT_ERROR", "CONNECT_TIMEOUT"}
    /\ connects \in 0 .. MaxConnects
    /\ failures \in 0 .. MaxFailures

ThreadTypes == thread \in [Runs -> {"none", "running", "closed", "ended"}]

FlagTypes ==
    /\ isclosed \in BOOLEAN
    /\ asked \in BOOLEAN
    /\ command \in BOOLEAN
    /\ wakeup \in BOOLEAN
    /\ pending \in BOOLEAN
    /\ abandoned \in BOOLEAN
    /\ reconnecting \in BOOLEAN
    /\ down \in BOOLEAN

(* The timer is started only while its handle is open. *)
HandleTypes ==
    /\ base \in {"none", "open", "closing"}
    /\ armed \in BOOLEAN /\ (armed => base = "open")
    /\ tcp \in {"none", "open", "connected", "closing"}
    /\ data \in {"ctx", "client"}

TypeOK == UserTypes /\ ThreadTypes /\ FlagTypes /\ HandleTypes

(* AfterConnect, AllocBufferForRecv and AfterRecv take data for what it    *)
(* is, a TcpClientCtx, whenever they can be called.  AfterClientClose      *)
(* takes it for a TCPClient, and of a handle closed at the end of its      *)
(* connection it is one until closeinl has begun to close the client: from *)
(* then on it reads a TcpClientCtx as a TCPClient.  Where the timer is     *)
(* started as well the handle is that of an attempt which failed at once,  *)
(* and its close has no callback.                                          *)
CastsSound ==
    /\ pending \/ tcp = "connected" => data = "ctx"
    /\ tcp = "closing" /\ data = "ctx" => base # "open" \/ armed

(* A user who was told of a disconnect, has not been told of a reconnect   *)
(* and has not closed the client is being reconnected, and something that  *)
(* is to come will see to it: the timer, the close callback that starts    *)
(* it, or the callback of a connect request.                               *)
RetryUnderWay ==
    /\ down /\ ~asked => reconnecting
    /\ reconnecting => down
    /\ reconnecting =>
           armed \/ pending \/ (tcp = "closing" /\ data = "client")

(* The status that Connect, which looks at it every tenth of a second,     *)
(* makes its answer of is true of what has become of the connection in the *)
(* meantime: it says yes while there is a connection, or one that was lost *)
(* and comes back, or one closed by the user, and it says no, but for the  *)
(* answer of a Connect that had waited too long, only while there is none. *)
(* It promises nothing after a Close, where the old status is left over.   *)
AnswerSound ==
    /\ connectstatus = "CONNECT_FINISH" => tcp = "connected" \/ reconnecting \/ asked
    /\ tcp = "connected" => connectstatus \in {"CONNECT_FINISH", "CONNECT_TIMEOUT"}

(* A reconnection goes on until it succeeds: when connection attempts do   *)
(* not fail at once for ever nor come to nothing for ever, it does.        *)
Reconnects ==
    SF_vars(Retry) /\ SF_vars(ConnectSucceeds) => (reconnecting ~> ~reconnecting)

(* In whatever phase of connection and reconnection Close is called, the   *)
(* client gets closed, unless an attempt to connect took longer than the   *)
(* period of the timer.                                                    *)
ClosesInTheEnd == command /\ InLoop ~> isclosed \/ abandoned
=============================================================================

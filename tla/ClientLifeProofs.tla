-------------------------- MODULE ClientLifeProofs --------------------------
(***************************************************************************)
(* Theorems about the life of a TCPClient, for any number of connections   *)
(* and of failures: until the client is being closed no callback takes     *)
(* data for what it is not, and a client that lost its connection is       *)
(* always being reconnected.                                               *)
(***************************************************************************)
EXTENDS ClientLife, TLAPS

(* What the two rest on: a connected handle has no request pending; once   *)
(* the timer and the wakeup handle are closed nothing is reconnected and   *)
(* the stream is closed or about to be; a closed client has neither.       *)
HandlesAgree ==
    /\ tcp = "connected" => ~pending
    /\ base # "open" => ~reconnecting /\ tcp \in {"none", "closing"}
    /\ isclosed => base = "none"

LifeOK == TypeOK /\ HandlesAgree /\ CastsSound /\ RetryUnderWay

-----------------------------------------------------------------------------
LEMMA BoundsAreNat == MaxConnects \in Nat /\ MaxFailures \in Nat
BY BoundsAssumption

LEMMA CountTypes ==
    ASSUME LifeOK
    PROVE  /\ connects \in 0 .. MaxConnects /\ failures \in 0 .. MaxFailures
           /\ MaxConnects \in Nat /\ MaxFailures \in Nat
BY BoundsAreNat DEF LifeOK, TypeOK, UserTypes

LEMMA InitLife == Init => LifeOK
<1> SUFFICES ASSUME Init PROVE LifeOK
  OBVIOUS
<1>1. UserTypes
  BY BoundsAreNat DEF Init, UserTypes
<1>2. ThreadTypes /\ FlagTypes /\ HandleTypes
  BY DEF Init, ThreadTypes, FlagTypes, HandleTypes
<1>3. HandlesAgree /\ CastsSound /\ RetryUnderWay
  BY DEF Init, HandlesAgree, CastsSound, RetryUnderWay
<1> QED BY <1>1, <1>2, <1>3 DEF LifeOK, TypeOK

LEMMA UserTypesStep == LifeOK /\ [Next]_vars => UserTypes'
<1> SUFFICES ASSUME LifeOK, [Next]_vars PROVE UserTypes'
  OBVIOUS
<1> USE DEF LifeOK, userVars, streamVars, retryVars
<1>1. CASE Connect
  <2>1. user' \in {"idle", "waiting"} /\ UNCHANGED connectstatus
    BY <1>1 DEF Connect, OpenHandles, TypeOK, UserTypes
  <2>2. connects' = connects + 1 /\ connects < MaxConnects
    BY <1>1 DEF Connect
  <2>3. failures' = failures \/ (failures' = failures + 1 /\ failures < MaxFailures)
    BY <1>1 DEF Connect
  <2>4. connects' \in 0 .. MaxConnects /\ failures' \in 0 .. MaxFailures
    BY <2>2, <2>3, CountTypes
  <2> QED BY <2>1, <2>4 DEF TypeOK, UserTypes
<1>2. CASE GiveUp
  BY <1>2 DEF GiveUp, TypeOK, UserTypes
<1>3. CASE TimeOut
  BY <1>3 DEF TimeOut, TypeOK, UserTypes
<1>4. CASE ConnectReturns
  BY <1>4 DEF ConnectReturns, TypeOK, UserTypes
<1>5. CASE ConnectFails
  BY <1>5 DEF ConnectFails, TypeOK, UserTypes
<1>6. CASE ConnectSucceeds
  <2>1. connectstatus' \in {"CONNECT_FINISH", "CONNECT_ERROR"}
    BY <1>6 DEF ConnectSucceeds
  <2>2. failures' = failures \/ (failures' = failures + 1 /\ failures < MaxFailures)
    BY <1>6 DEF ConnectSucceeds
  <2>3. UNCHANGED <<user, connects>>
    BY <1>6 DEF ConnectSucceeds
  <2>4. failures' \in 0 .. MaxFailures
    BY <2>2, CountTypes
  <2> QED BY <2>1, <2>3, <2>4 DEF TypeOK, UserTypes
<1>7. CASE ThreadStep \/ Close \/ Send \/ AfterRecvEnd \/ AfterClientClose \/ BaseClosed
           \/ Retry \/ RetryFails \/ AsyncCB \/ UNCHANGED vars
  <2>1. UNCHANGED <<user, connectstatus, connects, failures>>
    BY <1>7 DEF Close, Send, RunReturns, TellClosed, AfterRecvEnd, AfterClientClose,
       BaseClosed, Retry, RetryFails, AsyncCB, TimerDue, CloseInl, StopReconnect,
       ThreadStep, vars
  <2> QED BY <2>1 DEF TypeOK, UserTypes
<1> QED BY <1>1, <1>2, <1>3, <1>4, <1>5, <1>6, <1>7 DEF Next, UserStep, ThreadStep

LEMMA ThreadTypesStep == LifeOK /\ [Next]_vars => ThreadTypes'
<1> SUFFICES ASSUME LifeOK, [Next]_vars PROVE ThreadTypes'
  OBVIOUS
<1> USE DEF LifeOK, userVars, streamVars, retryVars
<1>1. CASE Connect
  BY <1>1 DEF Connect, OpenHandles, TypeOK, UserTypes, ThreadTypes
<1>2. ASSUME NEW k \in Runs, RunReturns(k) PROVE ThreadTypes'
  BY <1>2 DEF RunReturns, TypeOK, UserTypes, ThreadTypes
<1>3. ASSUME NEW k \in Runs, TellClosed(k) PROVE ThreadTypes'
  BY <1>3 DEF TellClosed, TypeOK, UserTypes, ThreadTypes
<1>4. CASE UserStep \/ Close \/ Send \/ ConnectFails \/ ConnectSucceeds \/ AfterRecvEnd
           \/ AfterClientClose \/ BaseClosed \/ Retry \/ RetryFails \/ AsyncCB \/
           UNCHANGED vars
  <2>1. UNCHANGED <<thread>>
    BY <1>4 DEF GiveUp, TimeOut, ConnectReturns, Close, Send, ConnectFails,
       ConnectSucceeds, AfterRecvEnd, AfterClientClose, BaseClosed, Retry, RetryFails,
       AsyncCB, StopReconnect, TimerDue, CloseInl, UserStep, vars
  <2> QED BY <2>1 DEF TypeOK, ThreadTypes
<1> QED BY <1>1, <1>2, <1>3, <1>4 DEF Next, UserStep, ThreadStep

LEMMA FlagTypesStep == LifeOK /\ [Next]_vars => FlagTypes'
<1> SUFFICES ASSUME LifeOK, [Next]_vars PROVE FlagTypes'
  OBVIOUS
<1> USE DEF LifeOK, userVars, streamVars, retryVars
<1>1. CASE Connect
  BY <1>1 DEF Connect, OpenHandles, TypeOK, FlagTypes
<1>2. CASE Close
  BY <1>2 DEF Close, TypeOK, FlagTypes
<1>3. CASE Send
  BY <1>3 DEF Send, TypeOK, FlagTypes
<1>4. ASSUME NEW k \in Runs, RunReturns(k) PROVE FlagTypes'
  BY <1>4 DEF RunReturns, TypeOK, FlagTypes
<1>5. CASE ConnectFails
  BY <1>5 DEF ConnectFails, TypeOK, FlagTypes
<1>6. CASE ConnectSucceeds
  BY <1>6 DEF ConnectSucceeds, StopReconnect, TypeOK, FlagTypes
<1>7. CASE AfterRecvEnd
  BY <1>7 DEF AfterRecvEnd, TypeOK, FlagTypes
<1>8. CASE Retry
  BY <1>8 DEF Retry, TimerDue, TypeOK, FlagTypes
<1>9. CASE RetryFails
  BY <1>9 DEF RetryFails, TimerDue, TypeOK, FlagTypes
<1>10. CASE AsyncCB
  BY <1>10 DEF AsyncCB, CloseInl, StopReconnect, TypeOK, FlagTypes
<1>11. CASE (\E k \in Runs : TellClosed(k)) \/ UserStep \/ AfterClientClose \/
           BaseClosed \/ UNCHANGED vars
  <2>1. UNCHANGED <<isclosed, asked, command, wakeup, pending, abandoned, reconnecting, down>>
    BY <1>11 DEF GiveUp, TimeOut, ConnectReturns, TellClosed, AfterClientClose,
       BaseClosed, UserStep, vars
  <2> QED BY <2>1 DEF TypeOK, FlagTypes
<1> QED BY <1>1, <1>2, <1>3, <1>4, <1>5, <1>6, <1>7, <1>8, <1>9, <1>10, <1>11 DEF Next,
           UserStep, ThreadStep

LEMMA HandleTypesStep == LifeOK /\ [Next]_vars => HandleTypes'
<1> SUFFICES ASSUME LifeOK, [Next]_vars PROVE HandleTypes'
  OBVIOUS
<1> USE DEF LifeOK, userVars, streamVars, retryVars
<1>1. CASE Connect
  BY <1>1 DEF Connect, OpenHandles, TypeOK, FlagTypes, HandleTypes, HandlesAgree
<1>2. CASE ConnectFails
  BY <1>2 DEF ConnectFails, TypeOK, FlagTypes, HandleTypes, HandlesAgree
<1>3. CASE ConnectSucceeds
  BY <1>3 DEF ConnectSucceeds, StopReconnect, TypeOK, FlagTypes, HandleTypes, HandlesAgree
<1>4. CASE AfterRecvEnd
  BY <1>4 DEF AfterRecvEnd, TypeOK, FlagTypes, HandleTypes, HandlesAgree
<1>5. CASE AfterClientClose
  BY <1>5 DEF AfterClientClose, TypeOK, FlagTypes, HandleTypes, HandlesAgree
<1>6. CASE BaseClosed
  BY <1>6 DEF BaseClosed, TypeOK, FlagTypes, HandleTypes, HandlesAgree
<1>7. CASE Retry
  BY <1>7 DEF Retry, TimerDue, TypeOK, FlagTypes, HandleTypes, HandlesAgree
<1>8. CASE RetryFails
  BY <1>8 DEF RetryFails, TimerDue, TypeOK, FlagTypes, HandleTypes, HandlesAgree
<1>9. CASE AsyncCB
  BY <1>9 DEF AsyncCB, CloseInl, StopReconnect, TypeOK, FlagTypes, HandleTypes,
     HandlesAgree
<1>10. CASE ThreadStep \/ UserStep \/ Close \/ Send \/ UNCHANGED vars
  <2>1. UNCHANGED <<base, armed, tcp, data>>
    BY <1>10 DEF GiveUp, TimeOut, ConnectReturns, Close, Send, RunReturns, TellClosed,
       ThreadStep, UserStep, vars
  <2> QED BY <2>1 DEF TypeOK, HandleTypes
<1> QED BY <1>1, <1>2, <1>3, <1>4, <1>5, <1>6, <1>7, <1>8, <1>9, <1>10 DEF Next, UserStep,
           ThreadStep

LEMMA HandlesStep == LifeOK /\ [Next]_vars => HandlesAgree'
<1> SUFFICES ASSUME LifeOK, [Next]_vars PROVE HandlesAgree'
  OBVIOUS
<1> USE DEF LifeOK, userVars, streamVars, retryVars
<1>1. CASE Connect
  BY <1>1 DEF Connect, OpenHandles, TypeOK, HandleTypes, HandlesAgree
<1>2. ASSUME NEW k \in Runs, RunReturns(k) PROVE HandlesAgree'
  BY <1>2 DEF RunReturns, TypeOK, HandleTypes, HandlesAgree
<1>3. CASE ConnectFails
  BY <1>3 DEF ConnectFails, TypeOK, HandleTypes, HandlesAgree
<1>4. CASE ConnectSucceeds
  BY <1>4 DEF ConnectSucceeds, StopReconnect, TypeOK, HandleTypes, HandlesAgree
<1>5. CASE AfterRecvEnd
  BY <1>5 DEF AfterRecvEnd, TypeOK, HandleTypes, HandlesAgree
<1>6. CASE AfterClientClose
  BY <1>6 DEF AfterClientClose, TypeOK, HandleTypes, HandlesAgree
<1>7. CASE BaseClosed
  BY <1>7 DEF BaseClosed, TypeOK, HandleTypes, HandlesAgree
<1>8. CASE Retry
  BY <1>8 DEF Retry, TimerDue, TypeOK, HandleTypes, HandlesAgree
<1>9. CASE RetryFails
  BY <1>9 DEF RetryFails, TimerDue, TypeOK, HandleTypes, HandlesAgree
<1>10. CASE AsyncCB
  BY <1>10 DEF AsyncCB, CloseInl, StopReconnect, TypeOK, HandleTypes, HandlesAgree
<1>11. CASE (\E k \in Runs : TellClosed(k)) \/ UserStep \/ Close \/ Send \/ UNCHANGED
           vars
  <2>1. UNCHANGED <<isclosed, base, tcp, pending, reconnecting>>
    BY <1>11 DEF GiveUp, TimeOut, ConnectReturns, Close, Send, TellClosed, UserStep, vars
  <2> QED BY <2>1 DEF HandlesAgree
<1> QED BY <1>1, <1>2, <1>3, <1>4, <1>5, <1>6, <1>7, <1>8, <1>9, <1>10, <1>11 DEF Next,
           UserStep, ThreadStep

LEMMA CastsStep == LifeOK /\ [Next]_vars => CastsSound'
<1> SUFFICES ASSUME LifeOK, [Next]_vars PROVE CastsSound'
  OBVIOUS
<1> USE DEF LifeOK, userVars, streamVars, retryVars
<1>1. CASE Connect
  BY <1>1 DEF Connect, OpenHandles, HandlesAgree, CastsSound
<1>2. CASE ConnectFails
  BY <1>2 DEF ConnectFails, HandlesAgree, CastsSound
<1>3. CASE ConnectSucceeds
  BY <1>3 DEF ConnectSucceeds, StopReconnect, HandlesAgree, CastsSound
<1>4. CASE AfterRecvEnd
  BY <1>4 DEF AfterRecvEnd, HandlesAgree, CastsSound
<1>5. CASE AfterClientClose
  BY <1>5 DEF AfterClientClose, HandlesAgree, CastsSound
<1>6. CASE Retry
  BY <1>6 DEF Retry, TimerDue, HandlesAgree, CastsSound
<1>7. CASE RetryFails
  BY <1>7 DEF RetryFails, TimerDue, HandlesAgree, CastsSound
<1>8. CASE AsyncCB
  BY <1>8 DEF AsyncCB, CloseInl, StopReconnect, HandlesAgree, CastsSound
<1>9. CASE ThreadStep \/ UserStep \/ Close \/ Send \/ BaseClosed \/ UNCHANGED vars
  <2>1. UNCHANGED <<tcp, pending, data, armed>> /\ (base' = base \/ base' = "none")
    BY <1>9 DEF GiveUp, TimeOut, ConnectReturns, Close, Send, RunReturns, TellClosed,
       BaseClosed, ThreadStep, UserStep, vars
  <2> QED BY <2>1 DEF CastsSound
<1> QED BY <1>1, <1>2, <1>3, <1>4, <1>5, <1>6, <1>7, <1>8, <1>9 DEF Next, UserStep,
           ThreadStep

LEMMA RetryStep == LifeOK /\ [Next]_vars => RetryUnderWay'
<1> SUFFICES ASSUME LifeOK, [Next]_vars PROVE RetryUnderWay'
  OBVIOUS
<1> USE DEF LifeOK, userVars, streamVars, retryVars
<1>1. CASE Connect
  BY <1>1 DEF Connect, OpenHandles, TypeOK, FlagTypes, HandleTypes, HandlesAgree,
     RetryUnderWay
<1>2. CASE Close
  BY <1>2 DEF Close, TypeOK, FlagTypes, HandleTypes, HandlesAgree, RetryUnderWay
<1>3. CASE ConnectFails
  BY <1>3 DEF ConnectFails, TypeOK, FlagTypes, HandleTypes, HandlesAgree, RetryUnderWay
<1>4. CASE ConnectSucceeds
  BY <1>4 DEF ConnectSucceeds, StopReconnect, TypeOK, FlagTypes, HandleTypes,
     HandlesAgree, RetryUnderWay
<1>5. CASE AfterRecvEnd
  BY <1>5 DEF AfterRecvEnd, TypeOK, FlagTypes, HandleTypes, HandlesAgree, RetryUnderWay
<1>6. CASE AfterClientClose
  BY <1>6 DEF AfterClientClose, TypeOK, FlagTypes, HandleTypes, HandlesAgree,
     RetryUnderWay
<1>7. CASE Retry
  BY <1>7 DEF Retry, TimerDue, TypeOK, FlagTypes, HandleTypes, HandlesAgree, RetryUnderWay
<1>8. CASE RetryFails
  BY <1>8 DEF RetryFails, TimerDue, TypeOK, FlagTypes, HandleTypes, HandlesAgree,
     RetryUnderWay
<1>9. CASE AsyncCB
  BY <1>9 DEF AsyncCB, CloseInl, StopReconnect, TypeOK, FlagTypes, HandleTypes,
     HandlesAgree, RetryUnderWay
<1>10. CASE ThreadStep \/ UserStep \/ Send \/ BaseClosed \/ UNCHANGED vars
  <2>1. UNCHANGED <<asked, armed, tcp, data, pending, reconnecting, down>>
    BY <1>10 DEF GiveUp, TimeOut, ConnectReturns, Send, RunReturns, TellClosed,
       BaseClosed, ThreadStep, UserStep, vars
  <2> QED BY <2>1 DEF RetryUnderWay
<1> QED BY <1>1, <1>2, <1>3, <1>4, <1>5, <1>6, <1>7, <1>8, <1>9, <1>10 DEF Next, UserStep,
           ThreadStep

THEOREM LifeAlwaysOK == Spec => []LifeOK
<1>1. Init => LifeOK
  BY InitLife
<1>2. LifeOK /\ [Next]_vars => LifeOK'
  BY UserTypesStep, ThreadTypesStep, FlagTypesStep, HandleTypesStep, HandlesStep,
     CastsStep, RetryStep DEF LifeOK, TypeOK
<1> QED BY <1>1, <1>2, PTL DEF Spec

(* AfterConnect, AllocBufferForRecv and AfterRecv find in data what they   *)
(* take it for, whatever the order of disconnects, retries, failures and   *)
(* calls of Close; AfterClientClose does until closeinl has begun to close *)
(* the client, and not after.                                              *)
THEOREM DataNeverMistaken == Spec => []CastsSound
<1>1. LifeOK => CastsSound
  BY DEF LifeOK
<1> QED BY <1>1, LifeAlwaysOK, PTL

(* A client that was disconnected and not closed never is left without     *)
(* somebody to reconnect it.                                               *)
THEOREM RetryAlwaysUnderWay == Spec => []RetryUnderWay
<1>1. LifeOK => RetryUnderWay
  BY DEF LifeOK
<1> QED BY <1>1, LifeAlwaysOK, PTL

(* The types, and that the timer is started only while it is open. *)
THEOREM TypesAlwaysHold == Spec => []TypeOK
<1>1. LifeOK => TypeOK
  BY DEF LifeOK
<1> QED BY <1>1, LifeAlwaysOK, PTL

LEMMA AnswerStep == LifeOK /\ AnswerSound /\ [Next]_vars => AnswerSound'
<1> SUFFICES ASSUME LifeOK, AnswerSound, [Next]_vars PROVE AnswerSound'
  OBVIOUS
<1> USE DEF LifeOK, userVars, streamVars, retryVars
<1>1. CASE Connect
  <2>1. tcp \in {"none", "closing"} /\ ~reconnecting
    BY <1>1 DEF Connect, HandlesAgree
  <2>2. UNCHANGED <<connectstatus, asked>> /\ tcp' = "open"
    BY <1>1 DEF Connect, OpenHandles
  <2> QED BY <2>1, <2>2 DEF AnswerSound
<1>2. CASE TimeOut
  BY <1>2 DEF TimeOut, AnswerSound
<1>3. CASE Close
  BY <1>3 DEF Close, AnswerSound
<1>4. CASE ConnectFails
  <2>1. connectstatus' = "CONNECT_ERROR" /\ tcp' = tcp /\ tcp # "connected"
    BY <1>4 DEF ConnectFails, HandlesAgree
  <2> QED BY <2>1 DEF AnswerSound
<1>5. CASE ConnectSucceeds
  BY <1>5 DEF ConnectSucceeds, StopReconnect, AnswerSound
<1>6. CASE AfterRecvEnd
  BY <1>6 DEF AfterRecvEnd, AnswerSound
<1>7. CASE AfterClientClose
  BY <1>7 DEF AfterClientClose, AnswerSound
<1>8. CASE Retry \/ RetryFails
  <2>1. reconnecting' /\ tcp' # "connected"
    BY <1>8 DEF Retry, RetryFails, TimerDue
  <2> QED BY <2>1 DEF AnswerSound
<1>9. CASE AsyncCB
  <2>1. UNCHANGED <<connectstatus, asked>>
    BY <1>9 DEF AsyncCB
  <2>2. (asked /\ tcp' # "connected") \/ UNCHANGED <<tcp, reconnecting>>
    BY <1>9 DEF AsyncCB, CloseInl
  <2> QED BY <2>1, <2>2 DEF AnswerSound
<1>10. CASE ThreadStep \/ GiveUp \/ ConnectReturns \/ Send \/ BaseClosed \/ UNCHANGED vars
  <2>1. UNCHANGED <<connectstatus, asked, tcp, reconnecting>>
    BY <1>10 DEF GiveUp, ConnectReturns, Send, RunReturns, TellClosed, BaseClosed,
       ThreadStep, vars
  <2> QED BY <2>1 DEF AnswerSound
<1> QED BY <1>1, <1>2, <1>3, <1>4, <1>5, <1>6, <1>7, <1>8, <1>9, <1>10 DEF Next, UserStep

(* What Connect makes its answer of is true of the connection, however     *)
(* often it is lost and comes back while Connect does not look.            *)
THEOREM AnswerAlwaysSound == Spec => []AnswerSound
<1>1. Init => AnswerSound
  BY DEF Init, AnswerSound
<1> QED BY <1>1, LifeAlwaysOK, AnswerStep, PTL DEF Spec
=============================================================================

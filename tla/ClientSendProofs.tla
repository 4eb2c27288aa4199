-------------------------- MODULE ClientSendProofs --------------------------
(***************************************************************************)
(* Theorems about TCPClient::Send and the loop's callbacks for any set of  *)
(* threads, any capacity and any number of calls: no byte waits in the     *)
(* ring for ever, the bytes of each thread keep their order on the way to  *)
(* the kernel, none is lost while the connection is up, and no request is  *)
(* in two hands.                                                           *)
(***************************************************************************)
EXTENDS ClientSend, DataLemmas

(* The local variables of the calls. *)
CallsOK ==
    /\ pc \in [Sender -> {"idle", "first wakeup", "check", "write", "last wakeup"}]
    /\ calls \in [Sender -> Nat]
    /\ len \in [Sender -> Lengths \cup {0}]
    /\ iret \in [Sender -> Nat]
    /\ accepted \in [Sender -> Nat]
    /\ \A s \in Sender : iret[s] <= len[s]

RingOK == ring \in Seq(Bytes) /\ Len(ring) <= Capacity

(* What a locked write can rely on: the ring is never overfull and a call  *)
(* never stores more than it was given.                                    *)
StoreOK == CallsOK /\ RingOK

USE CapacityAssumption, LengthsAssumption, BoundsAssumption

-----------------------------------------------------------------------------
LEMMA InitStore == Init => StoreOK /\ NoLostWakeup
<1> SUFFICES ASSUME Init PROVE StoreOK /\ NoLostWakeup
  OBVIOUS
<1>1. ring = <<>> /\ <<>> \in Seq(Bytes) /\ Len(<<>>) = 0
  BY DEF Init
<1>2. RingOK
  BY <1>1 DEF RingOK
<1>3. CallsOK
  BY DEF Init, CallsOK
<1> QED BY <1>1, <1>2, <1>3 DEF StoreOK, NoLostWakeup

LEMMA CallTypes ==
    ASSUME StoreOK, NEW s \in Sender
    PROVE  /\ len[s] \in Nat /\ iret[s] \in Nat /\ iret[s] <= len[s]
           /\ accepted[s] \in Nat /\ calls[s] \in Nat
<1>1. Lengths \cup {0} \subseteq Nat
  OBVIOUS
<1>2. len[s] \in Lengths \cup {0}
  BY DEF StoreOK, CallsOK
<1> QED BY <1>1, <1>2 DEF StoreOK, CallsOK

LEMMA RingTypes ==
    ASSUME StoreOK
    PROVE  Len(ring) \in Nat /\ Len(ring) <= Capacity /\ ring \in Seq(Bytes)
BY LenProperties DEF StoreOK, RingOK

(* How much one locked write stores. *)
LEMMA StoredBytes ==
    ASSUME StoreOK, NEW s \in Sender, NEW k,
           k = Bounded(len[s] - iret[s], Capacity - Len(ring))
    PROVE  /\ k \in Nat /\ iret[s] + k <= len[s] /\ Len(ring) + k <= Capacity
           /\ ring \o Piece(s, k) \in Seq(Bytes)
           /\ Len(ring \o Piece(s, k)) = Len(ring) + k
<1>1. /\ len[s] \in Nat /\ iret[s] \in Nat /\ iret[s] <= len[s]
      /\ Len(ring) \in Nat /\ Len(ring) <= Capacity /\ ring \in Seq(Bytes)
      /\ accepted[s] \in Nat /\ calls[s] \in Nat
  BY CallTypes, RingTypes
<1>2. k \in Nat /\ iret[s] + k <= len[s] /\ Len(ring) + k <= Capacity
  BY <1>1 DEF Bounded
<1>3. \A i \in 1 .. k : Byte(s, accepted[s] + i) \in Bytes
  BY SMTT(30), <1>1, <1>2 DEF Byte, Bytes
<1>4. Piece(s, k) \in Seq(Bytes) /\ Len(Piece(s, k)) = k
  BY <1>2, <1>3 DEF Piece
<1> HIDE DEF Piece
<1> QED BY ZenonT(40), <1>1, <1>2, <1>4, ConcatProperties

LEMMA StoreStep == StoreOK /\ [Next]_vars => StoreOK'
<1> SUFFICES ASSUME StoreOK, [Next]_vars PROVE StoreOK'
  OBVIOUS
<1>1. ASSUME NEW s \in Sender, Send(s) PROVE StoreOK'
  <2>1. PICK n \in Lengths \ {0} : len' = [len EXCEPT ![s] = n]
    BY <1>1 DEF Send
  <2>2. /\ pc' = [pc EXCEPT ![s] = "first wakeup"]
        /\ calls' = [calls EXCEPT ![s] = @ + 1]
        /\ iret' = [iret EXCEPT ![s] = 0]
        /\ UNCHANGED <<accepted, ring>>
    BY <1>1 DEF Send
  <2>3. n \in Nat /\ n \in Lengths
    OBVIOUS
  <2>4. /\ len' \in [Sender -> Lengths \cup {0}]
        /\ calls' \in [Sender -> Nat] /\ iret' \in [Sender -> Nat]
        /\ pc' \in [Sender -> {"idle", "first wakeup", "check", "write", "last wakeup"}]
    <3>1. len' \in [Sender -> Lengths \cup {0}]
      BY <2>1, <2>3 DEF StoreOK, CallsOK
    <3>2. calls' \in [Sender -> Nat]
      <4>1. calls \in [Sender -> Nat]
        BY DEF StoreOK, CallsOK
      <4>2. calls[s] + 1 \in Nat
        BY <4>1
      <4> QED BY <2>2, <4>1, <4>2
    <3> QED BY <2>2, <3>1, <3>2 DEF StoreOK, CallsOK
  <2>5. ASSUME NEW t \in Sender PROVE iret'[t] <= len'[t]
    <3>1. CASE t = s
      <4>1. iret \in [Sender -> Nat] /\ len \in [Sender -> Lengths \cup {0}]
        BY DEF StoreOK, CallsOK
      <4>2. iret'[s] = 0
        BY <2>2, <4>1
      <4>3. len'[s] = n
        BY <2>1, <4>1
      <4> QED BY <2>3, <3>1, <4>2, <4>3
    <3>2. CASE t # s
      BY <2>1, <2>2, <3>2, CallTypes DEF StoreOK, CallsOK
    <3> QED BY <3>1, <3>2
  <2> QED BY <2>2, <2>4, <2>5 DEF StoreOK, CallsOK, RingOK
<1>2. ASSUME NEW s \in Sender, FirstWakeup(s) PROVE StoreOK'
  BY <1>2 DEF FirstWakeup, StoreOK, CallsOK, RingOK
<1>3. ASSUME NEW s \in Sender, CheckAsked(s) PROVE StoreOK'
  BY <1>3 DEF CheckAsked, StoreOK, CallsOK, RingOK
<1>4. ASSUME NEW s \in Sender, WriteRing(s) PROVE StoreOK'
  <2> DEFINE k == Bounded(len[s] - iret[s], Capacity - Len(ring))
  <2>1. /\ k \in Nat /\ iret[s] + k <= len[s] /\ Len(ring) + k <= Capacity
        /\ ring \o Piece(s, k) \in Seq(Bytes)
        /\ Len(ring \o Piece(s, k)) = Len(ring) + k
    BY StoredBytes
  <2>2. /\ ring' = ring \o Piece(s, k)
        /\ iret' = [iret EXCEPT ![s] = @ + k]
        /\ accepted' = [accepted EXCEPT ![s] = @ + k]
        /\ pc' = [pc EXCEPT ![s] = IF iret[s] + k < len[s] THEN "check" ELSE "last wakeup"]
        /\ UNCHANGED <<calls, len>>
    BY <1>4 DEF WriteRing
  <2> HIDE DEF k
  <2>3. RingOK'
    BY <2>1, <2>2 DEF RingOK
  <2>4. CallsOK'
    <3>1. /\ pc' \in [Sender -> {"idle", "first wakeup", "check", "write", "last wakeup"}]
          /\ calls' \in [Sender -> Nat] /\ len' \in [Sender -> Lengths \cup {0}]
      BY <2>2 DEF StoreOK, CallsOK
    <3>2. iret' \in [Sender -> Nat] /\ accepted' \in [Sender -> Nat]
      <4>1. iret[s] + k \in Nat /\ accepted[s] + k \in Nat
        BY SMTT(30), <2>1, CallTypes
      <4> QED BY <2>2, <4>1 DEF StoreOK, CallsOK
    <3>3. ASSUME NEW t \in Sender PROVE iret'[t] <= len'[t]
      BY <2>1, <2>2, CallTypes DEF StoreOK, CallsOK
    <3> QED BY <3>1, <3>2, <3>3 DEF CallsOK
  <2> QED BY <2>3, <2>4 DEF StoreOK
<1>5. ASSUME NEW s \in Sender, LastWakeup(s) PROVE StoreOK'
  <2>1. /\ pc' = [pc EXCEPT ![s] = "idle"]
        /\ len' = [len EXCEPT ![s] = 0] /\ iret' = [iret EXCEPT ![s] = 0]
        /\ UNCHANGED <<calls, accepted, ring>>
    BY <1>5 DEF LastWakeup
  <2>2. /\ len' \in [Sender -> Lengths \cup {0}] /\ iret' \in [Sender -> Nat]
        /\ pc' \in [Sender -> {"idle", "first wakeup", "check", "write", "last wakeup"}]
    BY <2>1 DEF StoreOK, CallsOK
  <2>3. ASSUME NEW t \in Sender PROVE iret'[t] <= len'[t]
    <3>1. CASE t = s
      <4>1. iret \in [Sender -> Nat] /\ len \in [Sender -> Lengths \cup {0}]
        BY DEF StoreOK, CallsOK
      <4> QED BY <2>1, <3>1, <4>1
    <3>2. CASE t # s
      BY <2>1, <3>2, CallTypes DEF StoreOK, CallsOK
    <3> QED BY <3>1, <3>2
  <2> QED BY <2>1, <2>2, <2>3 DEF StoreOK, CallsOK, RingOK
<1>6. CASE SendInl
  <2>1. ring' \in Seq(Bytes) /\ Len(ring') <= Capacity
    <3>1. <<>> \in Seq(Bytes) /\ Len(<<>>) <= Capacity
      OBVIOUS
    <3> QED BY <1>6, <3>1 DEF SendInl, StoreOK, RingOK
  <2> QED BY <1>6, <2>1 DEF SendInl, callVars, StoreOK, CallsOK, RingOK
<1>7. CASE Close \/ AsyncCB \/ AfterRecv \/ AfterRecvEnd \/ CallbackDone
           \/ AfterSend \/ AfterSendFailed \/ KernelTakes \/ Break
           \/ Reconnect \/ ReconnectFails \/ Reconnected
  BY <1>7 DEF Close, AsyncCB, AfterRecv, AfterRecvEnd, CallbackDone, AfterSend,
              AfterSendFailed, KernelTakes, Break, Reconnect, ReconnectFails, Reconnected,
              callVars, StoreOK, CallsOK, RingOK
<1>8. CASE UNCHANGED vars
  BY <1>8 DEF vars, callVars, StoreOK, CallsOK, RingOK
<1> QED BY <1>1, <1>2, <1>3, <1>4, <1>5, <1>6, <1>7, <1>8 DEF Next, SendStep

-----------------------------------------------------------------------------
(* A thread that cannot store all it has left, and that is not more than   *)
(* the ring holds, finds the ring not empty: so there was a reason to      *)
(* expect the loop already, and there still is one.                        *)
LEMMA WakeupStep ==
    StoreOK /\ NoLostWakeup /\ [Next]_vars => NoLostWakeup'
<1> DEFINE Awaited == \/ wakeup
                      \/ Draining
                      \/ \E t \in Sender : pc[t] = "last wakeup" \/ Oversized(t)
<1> SUFFICES ASSUME StoreOK, NoLostWakeup, [Next]_vars, ring' # <<>>, ~asked'
             PROVE  Awaited'
  BY DEF NoLostWakeup
<1>0. /\ pc \in [Sender -> {"idle", "first wakeup", "check", "write", "last wakeup"}]
      /\ len \in [Sender -> Lengths \cup {0}]
  BY DEF StoreOK, CallsOK
<1>1. ASSUME NEW s \in Sender, Send(s) \/ CheckAsked(s)
      PROVE  Awaited'
  <2>1. UNCHANGED <<ring, asked, wakeup, loop>> /\ pc[s] \in {"idle", "check"}
    BY <1>1 DEF Send, CheckAsked
  <2>2. Awaited
    BY <2>1 DEF NoLostWakeup
  <2>3. wakeup' = wakeup /\ Draining' = Draining
    BY <2>1 DEF Draining
  <2>4. ASSUME NEW t \in Sender, pc[t] = "last wakeup" PROVE pc'[t] = "last wakeup"
    BY <1>0, <1>1, <2>1, <2>4 DEF Send, CheckAsked
  <2>5. ASSUME NEW t \in Sender, Oversized(t) PROVE Oversized(t)'
    <3>1. CASE t = s
      BY <1>0, <1>1, <2>1, <2>5, <3>1 DEF Send, CheckAsked, Oversized
    <3>2. CASE t # s
      BY <1>0, <1>1, <2>5, <3>2 DEF Send, CheckAsked, Oversized
    <3> QED BY <3>1, <3>2
  <2> QED BY <2>2, <2>3, <2>4, <2>5
<1>2. ASSUME NEW s \in Sender, FirstWakeup(s) \/ LastWakeup(s)
      PROVE  Awaited'
  BY <1>2 DEF FirstWakeup, LastWakeup
<1>3. ASSUME NEW s \in Sender, WriteRing(s)
      PROVE  Awaited'
  <2>0. UNCHANGED <<wakeup, len, loop>> /\ pc[s] = "write"
    BY <1>3 DEF WriteRing
  <2>1. CASE Oversized(s)
    <3>1. pc'[s] # "idle"
      BY <1>0, <1>3 DEF WriteRing
    <3> QED BY <2>0, <2>1, <3>1 DEF Oversized
  <2>2. CASE ring = <<>> /\ ~Oversized(s)
    <3>1. len[s] \in Nat /\ iret[s] \in Nat /\ Len(ring) = 0
      BY <2>2, CallTypes
    <3>2. len[s] <= Capacity
      BY <2>0, <2>2, <3>1 DEF Oversized
    <3>3. Bounded(len[s] - iret[s], Capacity - Len(ring)) = len[s] - iret[s]
      BY <3>1, <3>2 DEF Bounded
    <3>4. ~ (iret[s] + (len[s] - iret[s]) < len[s])
      BY <3>1
    <3>5. pc' = [pc EXCEPT ![s] = "last wakeup"]
      BY <1>3, <3>3, <3>4 DEF WriteRing
    <3> QED BY <1>0, <3>5
  <2>3. CASE ring # <<>>
    <3>1. Awaited
      BY <1>3, <2>3 DEF WriteRing, NoLostWakeup
    <3>2. ASSUME NEW t \in Sender, pc[t] = "last wakeup" PROVE pc'[t] = "last wakeup"
      BY <1>0, <1>3, <2>0, <3>2 DEF WriteRing
    <3>3. wakeup' = wakeup /\ Draining' = Draining
      BY <2>0 DEF Draining
    <3>4. ASSUME NEW t \in Sender, Oversized(t) PROVE Oversized(t)'
      BY <1>0, <1>3, <2>0, <3>4 DEF WriteRing, Oversized
    <3> QED BY <3>1, <3>2, <3>3, <3>4
  <2> QED BY <2>1, <2>2, <2>3
<1>4. CASE Close
  BY <1>4 DEF Close
<1>5. CASE AsyncCB
  BY <1>5 DEF AsyncCB, Draining
<1>6. CASE SendInl
  BY <1>6 DEF SendInl
<1>7. CASE AfterRecv \/ AfterSend
  BY <1>7 DEF AfterRecv, AfterSend, Draining
<1>8. CASE \/ AfterRecvEnd \/ CallbackDone \/ AfterSendFailed \/ KernelTakes \/ Break
           \/ Reconnect \/ ReconnectFails \/ Reconnected \/ UNCHANGED vars
  <2>1. /\ UNCHANGED <<ring, asked, wakeup, pc, len>>
        /\ loop' = loop \/ ~Draining
    BY <1>8 DEF AfterRecvEnd, CallbackDone, AfterSendFailed, KernelTakes, Break, Reconnect,
       ReconnectFails, Reconnected, InUserCallback, Draining, vars, callVars
  <2> QED BY <2>1 DEF NoLostWakeup, Oversized, Draining
<1> QED BY <1>1, <1>2, <1>3, <1>4, <1>5, <1>6, <1>7, <1>8 DEF Next, SendStep

-----------------------------------------------------------------------------
(* However many threads write to it, the ring is never overfull, and no    *)
(* call of Send stores more bytes than it was given.                       *)
THEOREM RingNeverOverfull == Spec => [](CallsOK /\ RingOK)
<1>1. StoreOK => CallsOK /\ RingOK
  BY DEF StoreOK
<1> QED BY <1>1, InitStore, StoreStep, PTL DEF Spec

(* Bytes in the ring are never forgotten: a wakeup is pending, or the loop *)
(* thread is in send_inl, or a thread is about to wake it, or some call    *)
(* sends more than the ring holds.                                         *)
THEOREM WakeupNeverLost == Spec => []NoLostWakeup
<1>1. Init => StoreOK /\ NoLostWakeup
  BY InitStore
<1>2. StoreOK /\ NoLostWakeup /\ [Next]_vars => StoreOK' /\ NoLostWakeup'
  BY StoreStep, WakeupStep
<1> QED BY <1>1, <1>2, PTL DEF Spec
-----------------------------------------------------------------------------
(* The bytes on their way.                                                 *)

Request == [param : Nat, upTo : Nat]

PlaceTypes ==
    /\ outq \in Seq(Bytes)
    /\ wire \in Seq(Bytes)
    /\ reqs \in Seq(Request)
    /\ gone \in Nat
    /\ breaks \in 0 .. MaxBreaks

(* The bytes of a thread are in the order of their numbers, *)
Sorted(q) ==
    /\ q \in Seq(Bytes)
    /\ \A i, j \in DOMAIN q : i < j /\ q[i].by = q[j].by => q[i].nth < q[j].nth

(* which are among those it has sent, *)
Numbered(q, sent) == \A i \in DOMAIN q : q[i].nth \in 1 .. sent[q[i].by]

(* and none of those is missing. *)
Complete(q, sent) ==
    \A s \in Sender : \A n \in 1 .. sent[s] :
        \E i \in DOMAIN q : q[i].by = s /\ q[i].nth = n

Unbroken == conn = "up" /\ loop # "end cb" /\ ~asked /\ Complete(OnTheWay, accepted)

WayInv ==
    /\ PlaceTypes
    /\ Sorted(OnTheWay)
    /\ Numbered(OnTheWay, accepted)
    /\ breaks = 0 => Unbroken

LEMMA SortedWithin ==
    ASSUME NEW q, NEW sent, Sorted(q), Numbered(q, sent), NEW r \in Seq(Bytes), Within(r, q)
    PROVE  Sorted(r) /\ Numbered(r, sent)
<1>1. PICK e \in [DOMAIN r -> DOMAIN q] : /\ \A i, j \in DOMAIN r : i < j => e[i] < e[j]
                                          /\ \A i \in DOMAIN r : r[i] = q[e[i]]
  BY DEF Within
<1>2. \A i \in DOMAIN r : e[i] \in DOMAIN q /\ r[i] = q[e[i]]
  BY <1>1
<1>3. Numbered(r, sent)
  BY <1>2 DEF Numbered
<1>4. ASSUME NEW i \in DOMAIN r, NEW j \in DOMAIN r, i < j, r[i].by = r[j].by
      PROVE  r[i].nth < r[j].nth
  <2>1. e[i] < e[j]
    BY <1>1, <1>4
  <2>2. q[e[i]].by = q[e[j]].by
    BY <1>2, <1>4
  <2>3. q[e[i]].nth < q[e[j]].nth
    BY <1>2, <2>1, <2>2 DEF Sorted
  <2> QED BY <1>2, <2>3
<1> QED BY <1>3, <1>4 DEF Sorted

(* The next bytes of a thread are put behind all the others. *)
LEMMA SortedMore ==
    ASSUME NEW q, NEW sent \in [Sender -> Nat], Sorted(q), Numbered(q, sent),
           NEW s \in Sender, NEW p \in Seq(Bytes),
           \A i \in 1 .. Len(p) : p[i].by = s /\ p[i].nth = sent[s] + i,
           NEW sent2 \in [Sender -> Nat],
           \A t \in Sender : sent2[t] = IF t = s THEN sent[t] + Len(p) ELSE sent[t]
    PROVE  /\ Sorted(q \o p)
           /\ Numbered(q \o p, sent2)
           /\ Complete(q, sent) => Complete(q \o p, sent2)
<1> DEFINE r == q \o p  k == Len(p)
<1>0. k \in Nat
  BY LenProperties
<1>1. /\ q \in Seq(Bytes) /\ Len(q) \in Nat /\ DOMAIN q = 1 .. Len(q)
      /\ \A i \in DOMAIN q : q[i] \in Bytes
  BY LenProperties DEF Sorted
<1>2. /\ r \in Seq(Bytes) /\ DOMAIN r = 1 .. Len(q) + k
      /\ \A i \in 1 .. Len(q) + k : r[i] = IF i <= Len(q) THEN q[i] ELSE p[i - Len(q)]
  <2>1. /\ r \in Seq(Bytes) /\ Len(r) = Len(q) + k
        /\ \A i \in 1 .. Len(q) + k : r[i] = IF i <= Len(q) THEN q[i] ELSE p[i - Len(q)]
    BY <1>1, ConcatProperties
  <2> QED BY <1>0, <1>1, <2>1, LenProperties
<1> HIDE DEF r
<1>3. /\ sent[s] \in Nat /\ sent2[s] = sent[s] + k
      /\ \A t \in Sender : t # s => sent2[t] = sent[t]
      /\ \A i \in 1 .. k : p[i].by = s /\ p[i].nth = sent[s] + i
  OBVIOUS
<1> HIDE DEF k
<1> USE <1>0
<1>4. \A i \in DOMAIN r :
          \/ i \in DOMAIN q /\ r[i] = q[i]
          \/ ~(i <= Len(q)) /\ i - Len(q) \in 1 .. k /\ r[i] = p[i - Len(q)]
  BY <1>1, <1>2
<1>5. \A i \in DOMAIN q : i \in DOMAIN r /\ r[i] = q[i]
  BY <1>1, <1>2
<1>6. ASSUME NEW i \in 1 .. k PROVE i + Len(q) \in DOMAIN r /\ r[i + Len(q)] = p[i]
  <2>1. /\ i + Len(q) \in 1 .. Len(q) + k /\ ~(i + Len(q) <= Len(q))
        /\ (i + Len(q)) - Len(q) = i
    BY <1>1
  <2> QED BY <1>2, <2>1
<1>7. \A i \in DOMAIN q : /\ q[i].by \in Sender /\ q[i].nth \in Nat
                          /\ q[i].nth \in 1 .. sent[q[i].by]
  BY <1>1 DEF Numbered, Bytes
<1>8. Sorted(r)
  <2> SUFFICES ASSUME NEW i \in DOMAIN r, NEW j \in DOMAIN r, i < j, r[i].by = r[j].by
               PROVE  r[i].nth < r[j].nth
    BY <1>2 DEF Sorted
  <2>1. i \in Int /\ j \in Int
    BY <1>2
  <2>2. CASE i \in DOMAIN q /\ r[i] = q[i] /\ j \in DOMAIN q /\ r[j] = q[j]
    BY <2>2 DEF Sorted
  <2>3. CASE /\ i \in DOMAIN q /\ r[i] = q[i]
             /\ j - Len(q) \in 1 .. k /\ r[j] = p[j - Len(q)]
    <3>1. r[j].by = s /\ r[j].nth = sent[s] + (j - Len(q)) /\ j - Len(q) >= 1
      BY SMTT(30), <1>1, <1>3, <2>1, <2>3
    <3>2. r[i].nth \in Nat /\ r[i].nth <= sent[s]
      BY <1>3, <1>7, <2>3, <3>1
    <3> QED BY <1>1, <1>3, <2>1, <3>1, <3>2
  <2>4. CASE /\ i - Len(q) \in 1 .. k /\ r[i] = p[i - Len(q)]
             /\ j - Len(q) \in 1 .. k /\ r[j] = p[j - Len(q)]
    <3>1. r[i].nth = sent[s] + (i - Len(q)) /\ r[j].nth = sent[s] + (j - Len(q))
      BY <1>3, <2>4
    <3> QED BY <1>1, <1>3, <2>1, <3>1
  <2> QED BY <1>1, <1>4, <2>1, <2>2, <2>3, <2>4
<1>9. Numbered(r, sent2)
  <2> SUFFICES ASSUME NEW i \in DOMAIN r PROVE r[i].nth \in 1 .. sent2[r[i].by]
    BY DEF Numbered
  <2>1. CASE i \in DOMAIN q /\ r[i] = q[i]
    <3>1. q[i].by \in Sender /\ q[i].nth \in 1 .. sent[q[i].by]
      BY <1>7, <2>1
    <3>2. sent[q[i].by] \in Nat /\ sent2[q[i].by] \in Nat /\ sent[q[i].by] <= sent2[q[i].by]
      <4>1. ASSUME NEW t \in Sender PROVE sent[t] <= sent2[t]
        <5>1. CASE t = s
          BY <1>3, <5>1
        <5>2. CASE t # s
          BY <1>3, <5>2
        <5> QED BY <5>1, <5>2
      <4> QED BY <3>1, <4>1
    <3> QED BY <2>1, <3>1, <3>2
  <2>2. CASE i - Len(q) \in 1 .. k /\ r[i] = p[i - Len(q)]
    <3>1. r[i].by = s /\ r[i].nth = sent[s] + (i - Len(q))
      BY <1>3, <2>2
    <3> QED BY <1>1, <1>3, <2>2, <3>1
  <2> QED BY <1>4, <2>1, <2>2
<1>10. ASSUME Complete(q, sent) PROVE Complete(r, sent2)
  <2> SUFFICES ASSUME NEW t \in Sender, NEW n \in 1 .. sent2[t]
               PROVE  \E i \in DOMAIN r : r[i].by = t /\ r[i].nth = n
    BY DEF Complete
  <2>1. CASE n \in 1 .. sent[t]
    BY <1>5, <1>10, <2>1 DEF Complete
  <2>2. CASE n \notin 1 .. sent[t]
    <3>1. t = s /\ n - sent[s] \in 1 .. k
      BY <1>3, <2>2
    <3>2. p[n - sent[s]].by = s /\ p[n - sent[s]].nth = n
      BY <1>3, <3>1
    <3> QED BY <1>6, <3>1, <3>2
  <2> QED BY <2>1, <2>2
<1> QED BY <1>8, <1>9, <1>10 DEF r

LEMMA InitWay == Init => WayInv
<1> SUFFICES ASSUME Init PROVE WayInv
  OBVIOUS
<1>1. /\ outq = <<>> /\ wire = <<>> /\ ring = <<>> /\ reqs = <<>> /\ gone = 0 /\ breaks = 0
      /\ conn = "up" /\ loop = "poll" /\ asked = FALSE /\ accepted = [s \in Sender |-> 0]
  BY DEF Init
<1>2. PlaceTypes
  BY <1>1, EmptySeq DEF PlaceTypes
<1>3. OnTheWay \in Seq(Bytes) /\ DOMAIN OnTheWay = {}
  BY <1>1 DEF OnTheWay
<1>4. Sorted(OnTheWay) /\ Numbered(OnTheWay, accepted)
  BY <1>3 DEF Sorted, Numbered
<1>5. Unbroken
  BY <1>1 DEF Unbroken, Complete
<1> QED BY <1>2, <1>4, <1>5 DEF WayInv

(* A step that leaves every byte in its place. *)
LEMMA PlacesAlone ==
    ASSUME WayInv, UNCHANGED <<accepted, OnTheWay>>, PlaceTypes',
           breaks' = 0 => breaks = 0 /\ UNCHANGED <<conn, asked>> /\ loop' # "end cb"
    PROVE  WayInv'
<1>1. Sorted(OnTheWay)' /\ Numbered(OnTheWay, accepted)'
  BY DEF WayInv, Sorted, Numbered, Bytes
<1>2. ASSUME breaks' = 0 PROVE Unbroken'
  <2>1. /\ conn' = conn /\ asked' = asked /\ loop' # "end cb"
        /\ accepted' = accepted /\ OnTheWay' = OnTheWay
        /\ breaks = 0
    BY <1>2
  <2>2. conn = "up" /\ ~asked /\ Complete(OnTheWay, accepted)
    BY <2>1 DEF WayInv, Unbroken
  <2>3. Complete(OnTheWay, accepted)'
    <3> SUFFICES ASSUME NEW t \in Sender, NEW n \in 1 .. accepted'[t]
                 PROVE  \E i \in DOMAIN OnTheWay' : OnTheWay'[i].by = t /\ OnTheWay'[i].nth = n
      BY DEF Complete
    <3>1. n \in 1 .. accepted[t]
      BY <2>1
    <3>2. \E i \in DOMAIN OnTheWay : OnTheWay[i].by = t /\ OnTheWay[i].nth = n
      BY <2>2, <3>1 DEF Complete
    <3> QED BY <2>1, <3>2
  <2>4. conn' = "up" /\ ~asked'
    BY <2>1, <2>2
  <2> QED BY <2>1, <2>3, <2>4 DEF Unbroken
<1> QED BY <1>1, <1>2 DEF WayInv

LEMMA WriteRingWay ==
    ASSUME StoreOK, WayInv, NEW s \in Sender, WriteRing(s)
    PROVE  WayInv'
<1> DEFINE k == Bounded(len[s] - iret[s], Capacity - Len(ring))
           p == Piece(s, k)
           q == wire \o outq
<1>1. /\ ring' = ring \o p
      /\ accepted' = [accepted EXCEPT ![s] = @ + k]
      /\ UNCHANGED <<wire, outq, reqs, gone, breaks, conn, loop, asked>>
  BY DEF WriteRing, streamVars
<1>2. k \in Nat
  BY StoredBytes
<1>3. ring \in Seq(Bytes) /\ q \in Seq(Bytes) /\ accepted \in [Sender -> Nat]
  BY ConcatProperties DEF StoreOK, CallsOK, RingOK, WayInv, PlaceTypes
<1> HIDE DEF k
<1>4. p \in Seq(Bytes) /\ Len(p) = k /\ \A i \in 1 .. k : p[i].by = s /\ p[i].nth = accepted[s] + i
  <2>1. calls[s] \in Nat /\ accepted[s] \in Nat
    BY CallTypes
  <2>2. \A i \in 1 .. k : Byte(s, accepted[s] + i) \in Bytes
    BY <1>2, <2>1 DEF Byte, Bytes
  <2>3. p \in Seq(Bytes) /\ Len(p) = k
    BY <1>2, <2>2 DEF Piece
  <2>4. \A i \in 1 .. k : p[i].by = s /\ p[i].nth = accepted[s] + i
    BY DEF Piece, Byte
  <2> QED BY <2>3, <2>4
<1> HIDE DEF p, q
<1>5. OnTheWay = q \o ring /\ OnTheWay' = q \o (ring \o p)
  BY <1>1 DEF OnTheWay, q
<1>6. (q \o ring) \o p = q \o (ring \o p)
  BY SMTT(30), <1>3, <1>4, Associative
<1>7. OnTheWay' = OnTheWay \o p
  BY <1>5, <1>6
<1>8. /\ Sorted(OnTheWay \o p) /\ Numbered(OnTheWay \o p, accepted')
      /\ Complete(OnTheWay, accepted) => Complete(OnTheWay \o p, accepted')
  <2>1. Sorted(OnTheWay) /\ Numbered(OnTheWay, accepted)
    BY DEF WayInv
  <2> DEFINE way == OnTheWay
  <2> HIDE DEF way
  <2>2. Sorted(way) /\ Numbered(way, accepted)
    BY <2>1 DEF way
  <2>3. \A i \in 1 .. Len(p) : p[i].by = s /\ p[i].nth = accepted[s] + i
    BY <1>4
  <2>4. /\ accepted' \in [Sender -> Nat]
        /\ \A t \in Sender : accepted'[t] = IF t = s THEN accepted[t] + Len(p) ELSE accepted[t]
    BY <1>1, <1>2, <1>3, <1>4
  <2>5. /\ Sorted(way \o p) /\ Numbered(way \o p, accepted')
        /\ Complete(way, accepted) => Complete(way \o p, accepted')
    <3> HIDE <1>1, <1>4
    <3> QED BY ZenonT(40), <1>3, <1>4, <2>2, <2>3, <2>4, SortedMore
  <2> QED BY <2>5 DEF way
<1>9. PlaceTypes'
  BY <1>1 DEF WayInv, PlaceTypes, Bytes
<1>10. ASSUME breaks' = 0 PROVE Unbroken'
  <2>1. conn' = "up" /\ loop' # "end cb" /\ ~asked' /\ Complete(OnTheWay \o p, accepted')
    BY <1>1, <1>8, <1>10 DEF WayInv, Unbroken
  <2>2. Complete(OnTheWay, accepted)'
    <3> SUFFICES ASSUME NEW t \in Sender, NEW n \in 1 .. accepted'[t]
                 PROVE  \E i \in DOMAIN OnTheWay' : OnTheWay'[i].by = t /\ OnTheWay'[i].nth = n
      BY DEF Complete
    <3>1. \E i \in DOMAIN (OnTheWay \o p) : (OnTheWay \o p)[i].by = t /\ (OnTheWay \o p)[i].nth = n
      BY <2>1 DEF Complete
    <3> QED BY <1>7, <3>1
  <2> QED BY <2>1, <2>2 DEF Unbroken
<1>11. Sorted(OnTheWay)' /\ Numbered(OnTheWay, accepted)'
  BY <1>7, <1>8 DEF Sorted, Numbered, Bytes
<1> QED BY <1>9, <1>10, <1>11 DEF WayInv

LEMMA SendInlWay ==
    ASSUME StoreOK, WayInv, SendInl, PopParam[1] \in Nat
    PROVE  WayInv'
<1>1. UNCHANGED <<accepted, asked, conn, gone, wire, breaks>>
  BY DEF SendInl, callVars
<1>2. loop' # "end cb"
  BY DEF SendInl, Draining
<1>3. /\ ring \in Seq(Bytes) /\ outq \in Seq(Bytes) /\ wire \in Seq(Bytes)
      /\ reqs \in Seq(Request) /\ gone \in Nat
  BY DEF StoreOK, RingOK, WayInv, PlaceTypes
<1>4. CASE UNCHANGED <<ring, reqs, outq>>
  <2>1. PlaceTypes' /\ OnTheWay' = OnTheWay
    BY <1>1, <1>4 DEF WayInv, PlaceTypes, OnTheWay, Bytes
  <2> QED BY <1>1, <1>2, <2>1, PlacesAlone
<1>5. CASE /\ ring' = <<>> /\ outq' = outq \o ring
           /\ \E r \in Request : reqs' = Append(reqs, r)
  <2>1. PlaceTypes'
    <3>1. outq' \in Seq(Bytes) /\ reqs' \in Seq(Request)
      BY <1>3, <1>5, ConcatProperties
    <3> QED BY <1>1, <3>1 DEF WayInv, PlaceTypes, Bytes, Request
  <2>2. OnTheWay' = OnTheWay
    <3>1. (wire \o outq) \o ring = wire \o (outq \o ring)
      BY SMTT(30), <1>3, Associative
    <3>2. wire \o (outq \o ring) \in Seq(Bytes)
      BY <1>3, ConcatProperties
    <3>3. (wire \o (outq \o ring)) \o <<>> = wire \o (outq \o ring)
      BY <3>2, ConcatEmptySeq
    <3> QED BY <1>1, <1>5, <3>1, <3>3 DEF OnTheWay
  <2> QED BY <1>1, <1>2, <2>1, <2>2, PlacesAlone
<1>6. CASE conn = "closing" /\ ring' = <<>> /\ UNCHANGED <<reqs, outq>>
  <2> DEFINE q == wire \o outq
  <2>1. PlaceTypes' /\ breaks' # 0
    BY <1>1, <1>6 DEF WayInv, PlaceTypes, Bytes, Unbroken
  <2>2. q \in Seq(Bytes)
    BY <1>3, ConcatProperties
  <2>3. OnTheWay' = q \o <<>> /\ OnTheWay = q \o ring
    BY <1>1, <1>6 DEF OnTheWay
  <2> HIDE DEF q
  <2>4. Within(q \o <<>>, (q \o ring) \o <<>>)
    BY <1>3, <2>2, CutOut, EmptySeq
  <2>5. (q \o ring) \o <<>> = q \o ring /\ q \o <<>> \in Seq(Bytes)
    BY <1>3, <2>2, ConcatProperties, ConcatEmptySeq, EmptySeq
  <2>6. Within(q \o <<>>, OnTheWay)
    BY <2>3, <2>4, <2>5
  <2>7. Sorted(q \o <<>>) /\ Numbered(q \o <<>>, accepted)
    BY <2>5, <2>6, SortedWithin DEF WayInv
  <2> QED BY <1>1, <2>1, <2>3, <2>7 DEF WayInv, Sorted, Numbered, Bytes
<1>7. ASSUME conn # "closing", ring' = <<>>, outq' = outq \o ring,
             reqs' = Append(reqs, [param |-> PopParam[1],
                                   upTo  |-> gone + Len(outq) + Len(ReadOut)])
      PROVE  \E r \in Request : reqs' = Append(reqs, r)
  <2>1. gone + Len(outq) + Len(ReadOut) \in Nat
    BY <1>3, LenProperties DEF ReadOut
  <2> QED BY <1>7, <2>1 DEF Request
<1> QED BY <1>4, <1>5, <1>6, <1>7 DEF SendInl, ReadOut
LEMMA KernelTakesWay ==
    ASSUME StoreOK, WayInv, KernelTakes
    PROVE  WayInv'
<1>1. /\ UNCHANGED <<accepted, asked, conn, loop, reqs, breaks, ring>>
      /\ outq # <<>> /\ wire' = Append(wire, Head(outq)) /\ outq' = Tail(outq) /\ gone' = gone + 1
  BY DEF KernelTakes, callVars
<1>2. /\ ring \in Seq(Bytes) /\ outq \in Seq(Bytes) /\ wire \in Seq(Bytes) /\ gone \in Nat
  BY DEF StoreOK, RingOK, WayInv, PlaceTypes
<1>3. Head(outq) \in Bytes /\ Tail(outq) \in Seq(Bytes)
  BY <1>1, <1>2, HeadTailProperties
<1>4. PlaceTypes'
  <2>1. wire' \in Seq(Bytes) /\ outq' \in Seq(Bytes) /\ gone' \in Nat
    BY <1>1, <1>2, <1>3
  <2> QED BY <1>1, <2>1 DEF WayInv, PlaceTypes, Bytes, Request
<1>5. Append(wire, Head(outq)) \o Tail(outq) = wire \o outq
  <2> DEFINE h == <<Head(outq)>>  t == Tail(outq)
  <2>1. h \in Seq(Bytes) /\ t \in Seq(Bytes)
    BY <1>3
  <2>2. h \o t = outq
    BY <1>1, <1>2
  <2>3. Append(wire, Head(outq)) = wire \o h
    BY <1>2, <1>3, AppendIsConcat
  <2> HIDE DEF h, t
  <2>4. (wire \o h) \o t = wire \o (h \o t)
    BY SMTT(30), <1>2, <2>1, Associative
  <2> QED BY <2>2, <2>3, <2>4 DEF t
<1>6. OnTheWay' = OnTheWay
  BY <1>1, <1>5 DEF OnTheWay
<1>7. breaks' = 0 => loop' # "end cb"
  BY <1>1 DEF WayInv, Unbroken
<1> QED BY <1>1, <1>4, <1>6, <1>7, PlacesAlone

(* What is left of the oldest request is dropped: the rest closes up. *)
LEMMA AfterSendFailedWay ==
    ASSUME StoreOK, WayInv, AfterSendFailed
    PROVE  WayInv'
<1> DEFINE m == Head(reqs).upTo - gone
           t == From(outq, m + 1)
<1>1. /\ UNCHANGED <<accepted, wire, ring, breaks>>
      /\ reqs # <<>> /\ reqs' = Tail(reqs) /\ gone' = Head(reqs).upTo /\ gone < Head(reqs).upTo
      /\ outq' = t
      /\ conn # "up"
  BY DEF AfterSendFailed, callVars
<1>2. /\ ring \in Seq(Bytes) /\ outq \in Seq(Bytes) /\ wire \in Seq(Bytes) /\ gone \in Nat
      /\ reqs \in Seq(Request) /\ Len(outq) \in Nat
  BY LenProperties DEF StoreOK, RingOK, WayInv, PlaceTypes
<1>3. Head(reqs) \in Request /\ Tail(reqs) \in Seq(Request)
  BY <1>1, <1>2, HeadTailProperties
<1>4. m \in Nat \ {0} /\ Head(reqs).upTo \in Nat
  BY SMTT(30), <1>1, <1>2, <1>3 DEF Request
<1> HIDE DEF m
<1>5. \E r \in Seq(Bytes) : t \in Seq(Bytes) /\ outq = r \o t
  <2>1. CASE m <= Len(outq)
    <3>1. SubSeq(outq, 1, m) \in Seq(Bytes) /\ t \in Seq(Bytes)
      BY <1>2, <1>4, <2>1, SubSeqProperties DEF From
    <3>2. SubSeq(outq, 1, m) \o t = SubSeq(outq, 1, Len(outq))
      <4>1. m \in 1 .. Len(outq) + 1
        BY <1>2, <1>4, <2>1
      <4> QED BY <1>2, <1>4, <2>1, <4>1, ConcatAdjacentSubSeq DEF From
    <3>3. SubSeq(outq, 1, Len(outq)) = outq
      BY <1>2, SubSeqFull
    <3> QED BY <3>1, <3>2, <3>3
  <2>2. CASE m > Len(outq)
    <3>1. t = <<>>
      BY <1>2, <1>4, <2>2, SubSeqEmpty DEF From
    <3>2. outq \o <<>> = outq
      BY <1>2, ConcatEmptySeq
    <3> QED BY <1>2, <3>1, <3>2, EmptySeq
  <2>3. m <= Len(outq) \/ m > Len(outq)
    BY <1>2, <1>4
  <2> QED BY <2>1, <2>2, <2>3, Zenon
<1> HIDE DEF t
<1>6. PICK r \in Seq(Bytes) : t \in Seq(Bytes) /\ outq = r \o t
  BY <1>5
<1>7. PlaceTypes' /\ breaks' # 0
  BY <1>1, <1>3, <1>4, <1>6 DEF WayInv, PlaceTypes, Bytes, Request, Unbroken
<1> DEFINE u == t \o ring
<1>8. u \in Seq(Bytes)
  BY <1>2, <1>6, ConcatProperties
<1>9. (wire \o t) \o ring = wire \o u
  BY SMTT(30), <1>2, <1>6, Associative
<1>10. (wire \o (r \o t)) \o ring = (wire \o r) \o u
  <2>1. wire \o r \in Seq(Bytes)
    BY <1>2, ConcatProperties
  <2>2. (wire \o r) \o t = wire \o (r \o t)
    BY SMTT(30), <1>2, <1>6, Associative
  <2>3. ((wire \o r) \o t) \o ring = (wire \o r) \o (t \o ring)
    <3> DEFINE w == wire \o r
    <3>1. t \in Seq(Bytes) /\ w \in Seq(Bytes) /\ ring \in Seq(Bytes)
      BY <1>2, <1>6, <2>1
    <3> HIDE <1>6, <2>2 DEF w
    <3>2. (w \o t) \o ring = w \o (t \o ring)
      BY <3>1, Associative
    <3> QED BY <3>2 DEF w
  <2> QED BY <2>2, <2>3
<1>11. Within(wire \o u, (wire \o r) \o u)
  <2> HIDE <1>6, <1>9, <1>10 DEF u
  <2> QED BY <1>2, <1>8, CutOut
<1>12. wire \o u \in Seq(Bytes)
  BY <1>2, <1>8, ConcatProperties
<1> HIDE DEF u
<1>13. OnTheWay = (wire \o r) \o u /\ OnTheWay' = wire \o u
  BY <1>1, <1>6, <1>9, <1>10 DEF OnTheWay, u
<1>14. Sorted(wire \o u) /\ Numbered(wire \o u, accepted)
  <2>1. Sorted((wire \o r) \o u) /\ Numbered((wire \o r) \o u, accepted)
    BY <1>13 DEF WayInv
  <2> HIDE <1>13
  <2> QED BY <1>11, <1>12, <2>1, SortedWithin
<1> QED BY <1>1, <1>7, <1>13, <1>14 DEF WayInv, Sorted, Numbered, Bytes

LEMMA OtherWay ==
    ASSUME StoreOK, WayInv,
           \/ \E s \in Sender : Send(s) \/ FirstWakeup(s) \/ CheckAsked(s) \/ LastWakeup(s)
           \/ Close \/ AsyncCB \/ AfterRecv \/ AfterRecvEnd \/ CallbackDone \/ AfterSend
           \/ Break \/ Reconnect \/ ReconnectFails \/ Reconnected \/ UNCHANGED vars
    PROVE  WayInv'
<1>1. /\ UNCHANGED <<accepted, wire, outq, ring, gone>>
      /\ reqs' = reqs \/ (reqs # <<>> /\ reqs' = Tail(reqs))
  BY DEF Send, FirstWakeup, CheckAsked, LastWakeup, Close, AsyncCB, AfterRecv, AfterRecvEnd,
         CallbackDone, AfterSend, Break, Reconnect, ReconnectFails, Reconnected, callVars,
         streamVars, vars
<1>2. breaks' = breaks \/ (breaks' = breaks + 1 /\ breaks < MaxBreaks)
  BY DEF Send, FirstWakeup, CheckAsked, LastWakeup, Close, AsyncCB, AfterRecv, AfterRecvEnd,
         CallbackDone, AfterSend, Break, Reconnect, ReconnectFails, Reconnected, callVars,
         streamVars, vars
<1>3. reqs' \in Seq(Request) /\ breaks' \in 0 .. MaxBreaks /\ breaks \in 0 .. MaxBreaks
  <2>1. reqs \in Seq(Request) /\ breaks \in 0 .. MaxBreaks
    BY DEF WayInv, PlaceTypes
  <2>2. reqs # <<>> => Tail(reqs) \in Seq(Request)
    BY <2>1, HeadTailProperties
  <2>3. breaks' \in 0 .. MaxBreaks
    BY <1>2, <2>1
  <2> QED BY <1>1, <2>1, <2>2, <2>3
<1>4. PlaceTypes' /\ OnTheWay' = OnTheWay
  BY <1>1, <1>3 DEF WayInv, PlaceTypes, OnTheWay, Bytes, Request
<1>5. ASSUME breaks' = 0
      PROVE  breaks = 0 /\ UNCHANGED <<conn, asked>> /\ loop' # "end cb"
  <2>1. breaks = 0 /\ breaks' = breaks
    BY <1>2, <1>3, <1>5
  <2>2. conn = "up" /\ loop # "end cb" /\ ~asked
    BY <2>1 DEF WayInv, Unbroken
  <2>3. breaks' # breaks + 1
    BY <1>3, <2>1
  <2>4. ~Close /\ ~AfterRecvEnd /\ ~Break
    BY <2>2, <2>3 DEF Close, AfterRecvEnd, Break
  <2> QED BY <2>1, <2>2, <2>4
     DEF Send, FirstWakeup, CheckAsked, LastWakeup, AsyncCB, AfterRecv, CallbackDone, AfterSend,
         Reconnect, ReconnectFails, Reconnected, callVars, streamVars, vars
<1> QED BY <1>1, <1>4, <1>5, PlacesAlone
-----------------------------------------------------------------------------
(* The write requests.                                                     *)

(* The write_params of the requests, oldest first. *)
Params(rs) == [i \in DOMAIN rs |-> rs[i].param]

(* No write_param is in two requests, on the list twice, or both. *)
PoolInv ==
    /\ reqs \in Seq(Request)
    /\ free \in Seq(Nat) /\ Len(free) <= MaxList + 1
    /\ NoRepeat(Params(reqs))
    /\ NoRepeat(free)
    /\ Items(Params(reqs)) \cap Items(free) = {}

LEMMA ParamsType ==
    ASSUME NEW rs \in Seq(Request)
    PROVE  /\ Params(rs) \in Seq(Nat) /\ Len(Params(rs)) = Len(rs)
           /\ \A r \in Request : Params(Append(rs, r)) = Append(Params(rs), r.param)
           /\ rs # <<>> => /\ Params(Tail(rs)) = Tail(Params(rs))
                           /\ Params(rs) # <<>> /\ Head(Params(rs)) = Head(rs).param
                           /\ Tail(rs) \in Seq(Request)
<1>1. Len(rs) \in Nat /\ DOMAIN rs = 1 .. Len(rs) /\ \A i \in DOMAIN rs : rs[i] \in Request
  BY LenProperties
<1>2. \A i \in 1 .. Len(rs) : rs[i].param \in Nat
  BY <1>1 DEF Request
<1>3. /\ Params(rs) = [i \in 1 .. Len(rs) |-> rs[i].param]
      /\ Params(rs) \in Seq(Nat) /\ Len(Params(rs)) = Len(rs)
  BY <1>1, <1>2 DEF Params
<1>4. ASSUME NEW r \in Request PROVE Params(Append(rs, r)) = Append(Params(rs), r.param)
  <2>1. /\ DOMAIN Append(rs, r) = 1 .. Len(rs) + 1
        /\ \A i \in 1 .. Len(rs) + 1 : Append(rs, r)[i] = IF i <= Len(rs) THEN rs[i] ELSE r
    BY <1>1
  <2>2. r.param \in Nat
    BY DEF Request
  <2>3. /\ Append(Params(rs), r.param) \in Seq(Nat)
        /\ Len(Append(Params(rs), r.param)) = Len(rs) + 1
        /\ \A i \in 1 .. Len(rs) + 1 :
               Append(Params(rs), r.param)[i] = IF i <= Len(rs) THEN Params(rs)[i] ELSE r.param
    BY <1>1, <1>3, <2>2
  <2>4. Params(Append(rs, r)) = [i \in 1 .. Len(rs) + 1 |-> Append(rs, r)[i].param]
    BY <2>1 DEF Params
  <2>5. Append(Params(rs), r.param)
            = [i \in 1 .. Len(rs) + 1 |-> IF i <= Len(rs) THEN Params(rs)[i] ELSE r.param]
    BY <1>1, <2>3
  <2>6. \A i \in 1 .. Len(rs) + 1 :
            Append(rs, r)[i].param = IF i <= Len(rs) THEN Params(rs)[i] ELSE r.param
    BY <1>1, <1>3, <2>1
  <2> QED BY <2>4, <2>5, <2>6
<1>5. ASSUME rs # <<>>
      PROVE  /\ Params(Tail(rs)) = Tail(Params(rs))
             /\ Params(rs) # <<>> /\ Head(Params(rs)) = Head(rs).param
             /\ Tail(rs) \in Seq(Request)
  <2>1. Len(rs) # 0 /\ Params(rs) # <<>>
    BY <1>1, <1>3, <1>5, EmptySeq
  <2>2. /\ Tail(rs) \in Seq(Request) /\ Len(Tail(rs)) = Len(rs) - 1
        /\ \A i \in 1 .. Len(rs) - 1 : Tail(rs)[i] = rs[i + 1]
    BY <1>5, HeadTailProperties
  <2>3. /\ Tail(Params(rs)) \in Seq(Nat) /\ Len(Tail(Params(rs))) = Len(rs) - 1
        /\ \A i \in 1 .. Len(rs) - 1 : Tail(Params(rs))[i] = Params(rs)[i + 1]
    BY <1>3, <2>1, HeadTailProperties
  <2>4. DOMAIN Tail(rs) = 1 .. Len(rs) - 1
    BY <2>2, LenProperties
  <2>5. Params(Tail(rs)) = [i \in 1 .. Len(rs) - 1 |-> Tail(rs)[i].param]
    BY <2>4 DEF Params
  <2>6. Tail(Params(rs)) = [i \in 1 .. Len(rs) - 1 |-> Params(rs)[i + 1]]
    <3> DEFINE q == Tail(Params(rs))
    <3>1. DOMAIN q = 1 .. Len(rs) - 1 /\ q = [i \in DOMAIN q |-> q[i]]
      BY <2>3, LenProperties
    <3>2. \A i \in 1 .. Len(rs) - 1 : q[i] = Params(rs)[i + 1]
      BY <2>3
    <3> HIDE DEF q
    <3>3. q = [i \in 1 .. Len(rs) - 1 |-> Params(rs)[i + 1]]
      BY <3>1, <3>2
    <3> QED BY <3>3 DEF q
  <2>7. \A i \in 1 .. Len(rs) - 1 : Tail(rs)[i].param = Params(rs)[i + 1]
    BY <1>1, <1>3, <2>2
  <2>8. Head(Params(rs)) = Head(rs).param
    BY <1>1, <1>3, <2>1
  <2> QED BY <2>1, <2>2, <2>5, <2>6, <2>7, <2>8
<1> QED BY <1>3, <1>4, <1>5

LEMMA PoolSets ==
    ASSUME PoolInv
    PROVE  /\ InFlight = Items(Params(reqs)) /\ Kept = Items(free)
           /\ NewParam \in Nat \ Live
<1>1. InFlight = Items(Params(reqs)) /\ Kept = Items(free)
  BY DEF InFlight, Kept, Items, Params
<1>2. IsFiniteSet(Live)
  <2>1. IsFiniteSet(Items(Params(reqs))) /\ IsFiniteSet(Items(free))
    BY ParamsType, NoRepeatCard DEF PoolInv
  <2> QED BY <1>1, <2>1, FS_Union DEF Live
<1>3. \E p \in 1 .. Cardinality(Live) + 1 : p \notin Live
  BY <1>2, OneLeft
<1>4. NewParam \in 1 .. Cardinality(Live) + 1 /\ NewParam \notin Live
  BY <1>3 DEF NewParam
<1> QED BY <1>1, <1>4

(* PopParam returns a write_param that nobody has, and the others. *)
LEMMA PopParamSound ==
    ASSUME PoolInv
    PROVE  /\ PopParam[1] \in Nat /\ PopParam[1] \notin InFlight
           /\ PopParam[2] \in Seq(Nat) /\ Len(PopParam[2]) <= MaxList
           /\ NoRepeat(PopParam[2])
           /\ Items(PopParam[2]) \cap InFlight = {} /\ PopParam[1] \notin Items(PopParam[2])
<1>1. CASE free = <<>>
  <2>1. PopParam[1] = NewParam /\ PopParam[2] = <<>>
    BY <1>1 DEF PopParam
  <2>2. <<>> \in Seq(Nat) /\ Len(<<>>) <= MaxList /\ NoRepeat(<<>>) /\ Items(<<>>) = {}
    BY DEF NoRepeat, Items
  <2> QED BY <2>1, <2>2, PoolSets DEF Live
<1>2. CASE free # <<>>
  <2>1. PopParam[1] = free[1] /\ PopParam[2] = Tail(free)
    BY <1>2 DEF PopParam
  <2>2. free \in Seq(Nat) /\ NoRepeat(free) /\ Len(free) <= MaxList + 1
        /\ Items(Params(reqs)) \cap Items(free) = {}
    BY DEF PoolInv
  <2>3. /\ free[1] \in Nat /\ free[1] \in Items(free)
        /\ Tail(free) \in Seq(Nat) /\ Len(Tail(free)) = Len(free) - 1 /\ Len(free) \in Nat
        /\ NoRepeat(Tail(free)) /\ Items(Tail(free)) = Items(free) \ {free[1]}
    BY <1>2, <2>2, NoRepeatTail
  <2> QED BY <2>1, <2>2, <2>3, PoolSets
<1> QED BY <1>1, <1>2

(* A state with these requests and this list is a good one. *)
LEMMA PoolNext ==
    ASSUME NEW rs \in Seq(Request), NEW fr \in Seq(Nat), Len(fr) <= MaxList + 1,
           NEW ps, NoRepeat(ps), NoRepeat(fr), Items(ps) \cap Items(fr) = {},
           ps = Params(rs), reqs' = rs, free' = fr
    PROVE  PoolInv'
<1>1. (NoRepeat(free))'
  BY DEF NoRepeat
<1>2. ps = Params(reqs)'
  BY DEF Params
<1>3. (NoRepeat(Params(reqs)))'
  BY <1>2 DEF NoRepeat
<1>4. Items(ps) = Items(Params(reqs))'
  BY <1>2 DEF Items
<1>5. Items(fr) = Items(free)'
  BY DEF Items
<1>6. (Items(Params(reqs)) \cap Items(free) = {})'
  BY <1>4, <1>5
<1>7. (reqs \in Seq(Request) /\ free \in Seq(Nat) /\ Len(free) <= MaxList + 1)'
  BY DEF Request
<1> QED BY <1>1, <1>3, <1>6, <1>7 DEF PoolInv

LEMMA SendInlPool ==
    ASSUME StoreOK, PlaceTypes, PoolInv, SendInl
    PROVE  PoolInv'
<1> DEFINE p == PopParam[1]  rest == PopParam[2]
           r == [param |-> p, upTo |-> gone + Len(outq) + Len(ReadOut)]
<1>1. \/ UNCHANGED <<reqs, free>>
      \/ reqs' = Append(reqs, r) /\ free' = rest
      \/ reqs' = reqs /\ free' = Append(rest, p)
  BY DEF SendInl
<1>2. r \in Request
  <2>1. gone + Len(outq) + Len(ReadOut) \in Nat
    BY LenProperties DEF PlaceTypes, StoreOK, RingOK, ReadOut
  <2> QED BY <2>1, PopParamSound DEF Request
<1>3. /\ p \in Nat /\ p \notin Items(Params(reqs))
      /\ rest \in Seq(Nat) /\ Len(rest) <= MaxList /\ NoRepeat(rest)
      /\ Items(rest) \cap Items(Params(reqs)) = {} /\ p \notin Items(rest)
      /\ r.param = p
  BY PopParamSound, PoolSets
<1>4. /\ reqs \in Seq(Request) /\ Params(reqs) \in Seq(Nat) /\ NoRepeat(Params(reqs))
  BY ParamsType DEF PoolInv
<1> HIDE DEF p, rest, r
<1>5. CASE UNCHANGED <<reqs, free>>
  <2>1. NoRepeat(free) /\ free \in Seq(Nat) /\ Len(free) <= MaxList + 1
        /\ Items(Params(reqs)) \cap Items(free) = {}
    BY DEF PoolInv
  <2> QED BY <1>4, <1>5, <2>1, PoolNext
<1>6. CASE reqs' = Append(reqs, r) /\ free' = rest
  <2>1. /\ Params(Append(reqs, r)) = Append(Params(reqs), p)
        /\ Append(reqs, r) \in Seq(Request)
    BY <1>2, <1>3, <1>4, ParamsType
  <2>2. /\ NoRepeat(Append(Params(reqs), p))
        /\ Items(Append(Params(reqs), p)) = Items(Params(reqs)) \cup {p}
    BY <1>3, <1>4, NoRepeatAppend
  <2>3. Len(rest) <= MaxList + 1
    BY <1>3, LenProperties
  <2>4. Items(Append(Params(reqs), p)) \cap Items(rest) = {}
    BY <1>3, <2>2
  <2> QED BY <1>3, <1>6, <2>1, <2>2, <2>3, <2>4, PoolNext
<1>7. CASE reqs' = reqs /\ free' = Append(rest, p)
  <2>1. /\ Append(rest, p) \in Seq(Nat) /\ Len(Append(rest, p)) = Len(rest) + 1
        /\ Items(Append(rest, p)) = Items(rest) \cup {p} /\ NoRepeat(Append(rest, p))
    BY <1>3, NoRepeatAppend
  <2>2. Len(Append(rest, p)) <= MaxList + 1 /\ Items(Params(reqs)) \cap Items(Append(rest, p)) = {}
    BY <1>3, <2>1, LenProperties
  <2> QED BY <1>4, <1>7, <2>1, <2>2, PoolNext
<1> QED BY <1>1, <1>5, <1>6, <1>7

(* AfterSend, with either status. *)
LEMMA AfterSendPool ==
    ASSUME PoolInv, reqs # <<>>, reqs' = Tail(reqs), free' = Recycled(Head(reqs).param)
    PROVE  PoolInv'
<1> DEFINE h == Head(reqs).param  ps == Params(reqs)
<1>1. /\ ps \in Seq(Nat) /\ ps # <<>> /\ NoRepeat(ps) /\ h = Head(ps)
      /\ Params(Tail(reqs)) = Tail(ps) /\ Tail(reqs) \in Seq(Request)
  BY ParamsType DEF PoolInv
<1>2. free \in Seq(Nat) /\ Len(free) <= MaxList + 1 /\ NoRepeat(free) /\ Items(ps) \cap Items(free) = {}
  BY DEF PoolInv
<1>3. free' = free \/ (Len(free) <= MaxList /\ free' = Append(free, h))
  <2>1. Len(free) \in Nat
    BY <1>2, LenProperties
  <2> QED BY <2>1 DEF Recycled
<1> HIDE DEF h, ps
<1>4. h \in Nat /\ h \in Items(ps) /\ NoRepeat(Tail(ps)) /\ Items(Tail(ps)) = Items(ps) \ {h}
  BY <1>1, NoRepeatTail
<1>5. /\ Append(free, h) \in Seq(Nat) /\ Len(Append(free, h)) = Len(free) + 1
      /\ Items(Append(free, h)) = Items(free) \cup {h}
      /\ NoRepeat(free) /\ h \notin Items(free) => NoRepeat(Append(free, h))
  BY <1>2, <1>4, NoRepeatAppend
<1>6. /\ free' \in Seq(Nat) /\ Len(free') <= MaxList + 1 /\ NoRepeat(free')
      /\ Items(Tail(ps)) \cap Items(free') = {}
  <2>1. CASE free' = free
    BY <1>2, <1>4, <2>1
  <2>2. CASE Len(free) <= MaxList /\ free' = Append(free, h)
    <3>1. NoRepeat(Append(free, h)) /\ Items(Tail(ps)) \cap Items(Append(free, h)) = {}
      BY <1>2, <1>4, <1>5
    <3>2. Len(Append(free, h)) <= MaxList + 1
      BY <1>2, <1>5, <2>2, LenProperties
    <3> QED BY <1>5, <2>2, <3>1, <3>2
  <2> QED BY <1>3, <2>1, <2>2
<1> QED BY <1>1, <1>4, <1>6, PoolNext
LEMMA PoolStep == StoreOK /\ PlaceTypes /\ PoolInv /\ [Next]_vars => PoolInv'
<1> SUFFICES ASSUME StoreOK, PlaceTypes, PoolInv, [Next]_vars PROVE PoolInv'
  OBVIOUS
<1>1. CASE SendInl
  BY <1>1, SendInlPool
<1>2. CASE AfterSend \/ AfterSendFailed
  BY <1>2, AfterSendPool DEF AfterSend, AfterSendFailed
<1>3. CASE ~SendInl /\ ~AfterSend /\ ~AfterSendFailed
  <2>1. UNCHANGED <<reqs, free>>
    BY <1>3 DEF Next, SendStep, Send, FirstWakeup, CheckAsked, WriteRing, LastWakeup, Close, AsyncCB,
       AfterRecv, AfterRecvEnd, CallbackDone, KernelTakes, Break, Reconnect, ReconnectFails,
       Reconnected, streamVars, vars
  <2>2. /\ reqs \in Seq(Request) /\ free \in Seq(Nat) /\ Len(free) <= MaxList + 1
        /\ NoRepeat(Params(reqs)) /\ NoRepeat(free) /\ Items(Params(reqs)) \cap Items(free) = {}
    BY DEF PoolInv
  <2> QED BY <2>1, <2>2, PoolNext
<1> QED BY <1>1, <1>2, <1>3

(* Where the loop thread, the connection and the two flags can be. *)
FlagTypes ==
    /\ wakeup \in BOOLEAN
    /\ asked \in BOOLEAN
    /\ closed \in BOOLEAN
    /\ loop \in {"poll", "send_inl", "send_inl, recvdata", "recv cb", "end cb", "connect cb"}
    /\ conn \in {"up", "broken", "closing", "connecting", "failed"}

LEMMA FlagStep == FlagTypes /\ [Next]_vars => FlagTypes'
<1> SUFFICES ASSUME FlagTypes, [Next]_vars PROVE FlagTypes'
  OBVIOUS
<1>1. ASSUME NEW s \in Sender, Send(s) \/ SendStep(s) PROVE FlagTypes'
  BY <1>1 DEF FlagTypes, Send, SendStep, FirstWakeup, CheckAsked, WriteRing, LastWakeup, streamVars
<1>2. CASE Close \/ AsyncCB \/ AfterRecv \/ AfterRecvEnd \/ CallbackDone
  BY <1>2 DEF FlagTypes, Close, AsyncCB, AfterRecv, AfterRecvEnd, CallbackDone, streamVars
<1>3. CASE \/ SendInl \/ AfterSend \/ AfterSendFailed \/ KernelTakes \/ Break
           \/ Reconnect \/ ReconnectFails \/ Reconnected \/ UNCHANGED vars
  BY <1>3 DEF FlagTypes, SendInl, Draining, AfterSend, AfterSendFailed, KernelTakes, Break,
              Reconnect, ReconnectFails, Reconnected, streamVars, vars
<1> QED BY <1>1, <1>2, <1>3 DEF Next

SendInv == StoreOK /\ WayInv /\ PoolInv /\ FlagTypes

LEMMA InitSend == Init => SendInv
<1> SUFFICES ASSUME Init PROVE SendInv
  OBVIOUS
<1>1. StoreOK /\ WayInv
  BY InitStore, InitWay
<1>2. FlagTypes
  BY DEF Init, FlagTypes
<1>3. reqs = <<>> /\ free = <<>>
  BY DEF Init
<1>4. NoRepeat(<<>>) /\ Items(<<>>) = {} /\ Params(<<>>) = <<>>
  BY DEF NoRepeat, Items, Params
<1>5. /\ <<>> \in Seq(Request) /\ <<>> \in Seq(Nat) /\ Len(<<>>) <= MaxList + 1
  OBVIOUS
<1>6. PoolInv
  BY <1>3, <1>4, <1>5 DEF PoolInv
<1> QED BY <1>1, <1>2, <1>6 DEF SendInv

LEMMA SendInvStep == SendInv /\ [Next]_vars => SendInv'
<1> SUFFICES ASSUME SendInv, [Next]_vars PROVE SendInv'
  OBVIOUS
<1>1. StoreOK /\ WayInv /\ PoolInv /\ FlagTypes /\ PlaceTypes
  BY DEF SendInv, WayInv
<1>2. StoreOK' /\ PoolInv' /\ FlagTypes'
  BY <1>1, StoreStep, PoolStep, FlagStep
<1>3. PopParam[1] \in Nat
  BY <1>1, PopParamSound
<1>4. WayInv'
  BY <1>1, <1>3, WriteRingWay, SendInlWay, KernelTakesWay, AfterSendFailedWay, OtherWay
     DEF Next, SendStep
<1> QED BY <1>2, <1>4 DEF SendInv

(* The types of the send path: among them that the ring is never overfull  *)
(* and that the list of write_params stays as short as MAXLISTSIZE says.   *)
THEOREM SendTypesHold == Spec => []TypeOK
<1>1. SendInv => TypeOK
  BY DEF SendInv, StoreOK, CallsOK, RingOK, WayInv, PlaceTypes, PoolInv, FlagTypes, TypeOK, Request
<1> QED BY <1>1, InitSend, SendInvStep, PTL DEF Spec

(* The kernel is given the bytes of each thread in the order in which the  *)
(* thread sent them and none twice, whatever the other threads, the full   *)
(* ring, failed writes and reconnections do.                               *)
THEOREM BytesKeepTheirOrder == Spec => []InOrderOnce
<1>1. SendInv => InOrderOnce
  BY DEF SendInv, WayInv, Sorted, InOrderOnce
<1> QED BY <1>1, InitSend, SendInvStep, PTL DEF Spec

(* While the connection lasts no byte that Send has accepted is missing.   *)
THEOREM NoByteLostWhileUp == Spec => []NothingLostWhileUp
<1>1. SendInv => NothingLostWhileUp
  <2> SUFFICES ASSUME SendInv, breaks = 0, NEW s \in Sender
               PROVE  {OnTheWay[i].nth : i \in {j \in DOMAIN OnTheWay : OnTheWay[j].by = s}}
                          = 1 .. accepted[s]
    BY DEF NothingLostWhileUp
  <2>1. Numbered(OnTheWay, accepted) /\ Complete(OnTheWay, accepted)
    BY DEF SendInv, WayInv, Unbroken
  <2>2. \A i \in DOMAIN OnTheWay : OnTheWay[i].by = s => OnTheWay[i].nth \in 1 .. accepted[s]
    BY <2>1 DEF Numbered
  <2>3. \A n \in 1 .. accepted[s] :
            \E i \in DOMAIN OnTheWay : OnTheWay[i].by = s /\ OnTheWay[i].nth = n
    BY <2>1 DEF Complete
  <2> QED BY <2>2, <2>3
<1> QED BY <1>1, InitSend, SendInvStep, PTL DEF Spec

(* No write_param is ever given to libuv twice, or while it waits on the   *)
(* list for its next use.                                                  *)
THEOREM PoolAlwaysSound == Spec => []PoolSound
<1>1. SendInv => PoolSound
  <2> SUFFICES ASSUME PoolInv PROVE PoolSound
    BY DEF SendInv
  <2>1. InFlight = Items(Params(reqs)) /\ Kept = Items(free)
    BY PoolSets
  <2>2. /\ Params(reqs) \in Seq(Nat) /\ Len(Params(reqs)) = Len(reqs) /\ NoRepeat(Params(reqs))
        /\ free \in Seq(Nat) /\ NoRepeat(free) /\ Items(Params(reqs)) \cap Items(free) = {}
    BY ParamsType DEF PoolInv
  <2>3. Cardinality(Items(Params(reqs))) = Len(Params(reqs)) /\ Cardinality(Items(free)) = Len(free)
    BY <2>2, NoRepeatCard
  <2> QED BY <2>1, <2>2, <2>3 DEF PoolSound
<1> QED BY <1>1, InitSend, SendInvStep, PTL DEF Spec
=============================================================================

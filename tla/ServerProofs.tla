---------------------------- MODULE ServerProofs ----------------------------
(***************************************************************************)
(* Theorems about a TCPServer, for any number of starts, of connections,   *)
(* of packets and of failing calls, and any MAXLISTSIZE.  Its life: no     *)
(* TcpClientCtx ever serves two connections, and the user is told of the   *)
(* end of each connection before the end of the server.  Its answers:      *)
(* nobody's client is deleted under him, no request outlives the           *)
(* connection it was made for, and each connection gets the replies to its *)
(* own packets, in order and once.                                         *)
(***************************************************************************)
EXTENDS ServerSend, DataLemmas

USE BoundsAssumption, CtxAssumption

(* The contexts of clients, those on the list, and all that are in use: a  *)
(* context that is not can be taken for a new one.                         *)
Held  == {clients[id] : id \in Ids}
Listed == {avail[i] : i \in DOMAIN avail}
Used  == {c \in Ctx : handle[c] # "none"} \cup Listed

CtxTypes ==
    /\ handle \in [Ctx -> {"none", "open", "closing"}]
    /\ avail \in Seq(Ctx)
    /\ clients \in [Ids -> Ctx]
    /\ recycling \subseteq Ctx
    /\ lastid \in Nat

(* What somebody waits to be called back for has its handle open. *)
HandlesKept ==
    /\ \A id \in Ids : handle[clients[id]] # "none"
    /\ \A c \in recycling : handle[c] = "closing"

(* Each connection uses up at most one new context, and so does an attempt *)
(* that fails at once, which leaves one on the list for the next.          *)
FewUsed == Cardinality(Used) <= IF avail = <<>> THEN lastid ELSE lastid + 1

CtxInv == CtxTypes /\ HandlesKept /\ FewUsed /\ CtxSound

-----------------------------------------------------------------------------
LEMMA TailFacts ==
    ASSUME NEW S, NEW q \in Seq(S), q # <<>>, NoRepeat(q)
    PROVE  /\ q[1] \in S /\ q[1] \in Items(q)
           /\ Tail(q) \in Seq(S) /\ NoRepeat(Tail(q))
           /\ Items(Tail(q)) \subseteq Items(q) \ {q[1]}
BY NoRepeatTail

LEMMA AppendFacts ==
    ASSUME NEW S, NEW q \in Seq(S), NEW e \in S, NoRepeat(q), e \notin Items(q)
    PROVE  /\ Append(q, e) \in Seq(S) /\ Append(q, e) # <<>>
           /\ NoRepeat(Append(q, e))
           /\ Items(Append(q, e)) = Items(q) \cup {e}
BY NoRepeatAppend

-----------------------------------------------------------------------------
LEMMA UsedFinite ==
    ASSUME CtxTypes
    PROVE  Used \subseteq Ctx /\ IsFiniteSet(Used) /\ Cardinality(Used) \in Nat
<1>1. Listed \subseteq Ctx
  BY LenProperties DEF CtxTypes, Listed
<1>2. Used \subseteq Ctx
  BY <1>1 DEF Used
<1> QED BY <1>2, FS_Subset, FS_CardinalityType

LEMMA FreshFree ==
    ASSUME CtxInv, avail = <<>>, lastid < MaxClients
    PROVE  Fresh \in Ctx /\ handle[Fresh] = "none"
<1>1. Used \subseteq Ctx /\ Cardinality(Used) <= lastid /\ Cardinality(Used) \in Nat
  BY UsedFinite DEF CtxInv, FewUsed
<1>2. lastid \in Nat /\ Cardinality(Ctx) \in Nat
  BY FS_CardinalityType DEF CtxInv, CtxTypes
<1>3. Cardinality(Used) < Cardinality(Ctx)
  BY <1>1, <1>2
<1>4. Used # Ctx
  BY <1>1, <1>3
<1>5. PICK c \in Ctx : c \notin Used
  BY <1>1, <1>4
<1>6. handle[c] = "none" /\ \A i \in DOMAIN avail : avail[i] # c
  BY <1>5 DEF Used, Listed
<1> QED BY <1>6 DEF Fresh

(* What AcceptConnection takes for a new connection nobody else has. *)
LEMMA PoppedFree ==
    ASSUME CtxInv, lastid < MaxClients, NEW c, NEW rest, c = PopCtx[1], rest = PopCtx[2]
    PROVE  /\ c \in Ctx /\ c \notin Held /\ c \notin recycling
           /\ rest \in Seq(Ctx) /\ NoRepeat(rest) /\ Items(rest) \subseteq Listed \ {c}
           /\ avail = <<>> => rest = <<>>
           /\ avail # <<>> => c \in Listed
<1>1. CASE avail = <<>>
  <2>1. c = Fresh /\ rest = <<>>
    BY <1>1 DEF PopCtx
  <2>2. c \in Ctx /\ handle[c] = "none"
    BY <1>1, <2>1, FreshFree
  <2>3. c \notin Held /\ c \notin recycling
    BY <2>2 DEF CtxInv, HandlesKept, Held
  <2>4. rest \in Seq(Ctx) /\ NoRepeat(rest) /\ Items(rest) = {}
    BY <2>1, EmptySeq DEF NoRepeat, Items
  <2> QED BY <1>1, <2>1, <2>2, <2>3, <2>4
<1>2. CASE avail # <<>>
  <2>1. c = avail[1] /\ rest = Tail(avail)
    BY <1>2 DEF PopCtx
  <2>2. avail \in Seq(Ctx) /\ NoRepeat(avail) /\ Items(avail) = Listed
    BY DEF CtxInv, CtxTypes, CtxSound, NoRepeat, Items, Listed
  <2>3. /\ c \in Ctx /\ c \in Listed
        /\ rest \in Seq(Ctx) /\ NoRepeat(rest) /\ Items(rest) \subseteq Listed \ {c}
    BY <1>2, <2>1, <2>2, TailFacts
  <2>4. c \notin Held /\ c \notin recycling
    BY <2>3 DEF CtxInv, CtxSound, Held, Listed
  <2> QED BY <1>2, <2>3, <2>4
<1> QED BY <1>1, <1>2

LEMMA UsedGrows ==
    ASSUME CtxInv, CtxTypes', NEW c, Used' \subseteq Used \cup {c}
    PROVE  /\ Cardinality(Used) \in Nat /\ Cardinality(Used)' \in Nat
           /\ Cardinality(Used)' <= Cardinality(Used) + 1
           /\ c \in Used => Cardinality(Used)' <= Cardinality(Used)
<1>1. IsFiniteSet(Used) /\ Cardinality(Used) \in Nat
  BY UsedFinite DEF CtxInv
<1>2. /\ IsFiniteSet(Used \cup {c})
      /\ Cardinality(Used \cup {c}) =
             IF c \in Used THEN Cardinality(Used) ELSE Cardinality(Used) + 1
  BY <1>1, FS_AddElement
<1>3. /\ IsFiniteSet(Used') /\ Cardinality(Used') <= Cardinality(Used \cup {c})
      /\ Cardinality(Used') \in Nat
  BY <1>2, FS_Subset, FS_CardinalityType
<1> QED BY <1>1, <1>2, <1>3

(* A step that takes no new context. *)
LEMMA FewUsedKept ==
    ASSUME CtxInv, CtxTypes', Used' \subseteq Used, lastid' = lastid,
           avail' = <<>> => avail = <<>>
    PROVE  FewUsed'
<1>1. PICK c : c \in Used \/ Used = {}
  OBVIOUS
<1>2. IsFiniteSet(Used) /\ Cardinality(Used) \in Nat /\ Cardinality(Used') <= Cardinality(Used)
      /\ Cardinality(Used') \in Nat
  BY UsedFinite, FS_Subset, FS_CardinalityType DEF CtxInv
<1>3. lastid \in Nat
  BY DEF CtxInv, CtxTypes
<1> QED BY <1>2, <1>3 DEF CtxInv, FewUsed

(* A step of AcceptConnection, which takes one. *)
LEMMA FewUsedAfterPop ==
    ASSUME CtxInv, CtxTypes', NEW c, Used' \subseteq Used \cup {c},
           avail # <<>> => c \in Used,
           lastid' = lastid + 1 \/ (lastid' = lastid /\ avail' # <<>>)
    PROVE  FewUsed'
<1>1. /\ Cardinality(Used) \in Nat /\ Cardinality(Used)' \in Nat
      /\ Cardinality(Used)' <= Cardinality(Used) + 1
      /\ c \in Used => Cardinality(Used)' <= Cardinality(Used)
  BY UsedGrows
<1>2. lastid \in Nat
  BY DEF CtxInv, CtxTypes
<1> QED BY <1>1, <1>2 DEF CtxInv, FewUsed

(* CtxSound after a step, from the three sets. *)
LEMMA SoundNext ==
    ASSUME \A i, j \in Ids' : clients'[i] = clients'[j] => i = j,
           NoRepeat(avail'), Held' \cap Listed' = {},
           recycling' \cap (Held' \cup Listed') = {}
    PROVE  CtxSound'
<1>1. \A i, j \in DOMAIN avail' : avail'[i] = avail'[j] => i = j
  BY DEF NoRepeat
<1>2. \A i \in DOMAIN avail' : \A id \in Ids' : avail'[i] # clients'[id]
  <2> SUFFICES ASSUME NEW i \in DOMAIN avail', NEW id \in Ids'
               PROVE  avail'[i] # clients'[id]
    OBVIOUS
  <2>1. avail'[i] \in Listed' /\ clients'[id] \in Held'
    BY DEF Held, Listed
  <2> QED BY <2>1
<1> QED BY <1>1, <1>2 DEF CtxSound, Held, Listed

LEMMA AcceptStep == CtxInv /\ Accept => CtxInv'
<1> SUFFICES ASSUME CtxInv, Accept PROVE CtxInv'
  OBVIOUS
<1> DEFINE c == PopCtx[1]
           rest == PopCtx[2]
<1>1. /\ c \in Ctx /\ c \notin Held /\ c \notin recycling
      /\ rest \in Seq(Ctx) /\ NoRepeat(rest) /\ Items(rest) \subseteq Listed \ {c}
      /\ avail # <<>> => c \in Listed
  BY PoppedFree DEF Accept
<1>2. /\ handle' = [handle EXCEPT ![c] = "open"]
      /\ avail' = rest /\ lastid' = lastid + 1 /\ recycling' = recycling
      /\ clients' = [id \in Ids \cup {lastid + 1} |-> IF id \in Ids THEN clients[id] ELSE c]
  BY DEF Accept
<1> HIDE DEF c, rest
<1>3. CtxTypes'
  BY <1>1, <1>2 DEF CtxInv, CtxTypes, Ids
<1>4. /\ Ids' = Ids \cup {lastid + 1}
      /\ \A id \in Ids : clients'[id] = clients[id] /\ clients[id] # c
      /\ lastid + 1 \notin Ids => clients'[lastid + 1] = c
  BY <1>1, <1>2 DEF Ids, Held
<1>5. HandlesKept'
  BY <1>1, <1>2, <1>4 DEF CtxInv, CtxTypes, HandlesKept
<1>6. Used' \subseteq Used \cup {c} /\ Listed' = Items(rest)
  BY <1>1, <1>2 DEF CtxInv, CtxTypes, Used, Listed, Items
<1>7. FewUsed'
  BY <1>1, <1>2, <1>3, <1>6, FewUsedAfterPop DEF Used
<1>8. CtxSound'
  <2>1. Held' \subseteq Held \cup {c}
    BY <1>4 DEF Held
  <2>2. \A i, j \in Ids' : clients'[i] = clients'[j] => i = j
    BY <1>4 DEF CtxInv, CtxSound
  <2>3. Held \cap Listed = {} /\ recycling \cap (Held \cup Listed) = {}
    BY DEF CtxInv, CtxSound, Held, Listed
  <2>4. Held' \cap Listed' = {} /\ recycling' \cap (Held' \cup Listed') = {}
    BY <1>1, <1>2, <1>6, <2>1, <2>3
  <2>5. NoRepeat(avail')
    BY <1>1, <1>2
  <2> QED BY <2>2, <2>4, <2>5, SoundNext
<1> QED BY <1>3, <1>5, <1>7, <1>8 DEF CtxInv

LEMMA AcceptFailsStep == CtxInv /\ AcceptFails => CtxInv'
<1> SUFFICES ASSUME CtxInv, AcceptFails PROVE CtxInv'
  OBVIOUS
<1> DEFINE c == PopCtx[1]
           rest == PopCtx[2]
<1>1. /\ c \in Ctx /\ c \notin Held /\ c \notin recycling
      /\ rest \in Seq(Ctx) /\ NoRepeat(rest) /\ Items(rest) \subseteq Listed \ {c}
      /\ avail # <<>> => c \in Listed
  BY PoppedFree DEF AcceptFails
<1>2. /\ clients' = clients
      /\ \/ /\ avail' = Append(rest, c) /\ recycling' = recycling
            /\ \/ handle' = handle /\ lastid' = lastid
               \/ handle' = [handle EXCEPT ![c] = "open"] /\ lastid' = lastid + 1
         \/ /\ avail' = rest
            /\ handle' = [handle EXCEPT ![c] = "closing"]
            /\ lastid' = lastid + 1
            /\ recycling' = recycling \cup {c}
  BY DEF AcceptFails
<1> HIDE DEF c, rest
<1>3. /\ Append(rest, c) \in Seq(Ctx) /\ Append(rest, c) # <<>>
      /\ NoRepeat(Append(rest, c)) /\ Items(Append(rest, c)) = Items(rest) \cup {c}
  BY <1>1, AppendFacts
<1>4. /\ avail' \in Seq(Ctx) /\ NoRepeat(avail') /\ Listed' = Items(avail')
      /\ \/ Listed' \subseteq Listed \cup {c} /\ recycling' = recycling
         \/ Listed' \subseteq Listed \ {c} /\ recycling' = recycling \cup {c}
  BY <1>1, <1>2, <1>3 DEF Listed, Items
<1>5. CtxTypes'
  <2>1. handle' \in [Ctx -> {"none", "open", "closing"}]
    BY <1>1, <1>2 DEF CtxInv, CtxTypes
  <2>2. clients' \in [Ids' -> Ctx] /\ lastid' \in Nat
    BY <1>2 DEF CtxInv, CtxTypes, Ids
  <2>3. recycling' \subseteq Ctx
    BY <1>1, <1>2 DEF CtxInv, CtxTypes
  <2> QED BY <1>4, <2>1, <2>2, <2>3 DEF CtxTypes
<1>6. /\ Ids' = Ids /\ Held' = Held
      /\ \A id \in Ids : clients'[id] = clients[id] /\ clients[id] # c
  BY <1>1, <1>2 DEF Ids, Held
<1>7. HandlesKept'
  BY <1>1, <1>2, <1>6 DEF CtxInv, CtxTypes, HandlesKept
<1>8. Used' \subseteq Used \cup {c}
  BY <1>1, <1>2, <1>4 DEF CtxInv, CtxTypes, Used
<1>9. FewUsed'
  BY <1>1, <1>2, <1>3, <1>5, <1>8, FewUsedAfterPop DEF Used
<1>10. CtxSound'
  <2>1. Held \cap Listed = {} /\ recycling \cap (Held \cup Listed) = {}
    BY DEF CtxInv, CtxSound, Held, Listed
  <2>2. Held' \cap Listed' = {}
    BY <1>1, <1>4, <1>6, <2>1
  <2>3. recycling' \cap (Held' \cup Listed') = {}
    BY <1>1, <1>4, <1>6, <2>1
  <2>4. \A i, j \in Ids' : clients'[i] = clients'[j] => i = j
    BY <1>2, <1>6 DEF CtxInv, CtxSound
  <2> QED BY <1>4, <2>2, <2>3, <2>4, SoundNext
<1> QED BY <1>5, <1>7, <1>9, <1>10 DEF CtxInv

(* A callback that only changes handles, and opens none. *)
LEMMA HandlesStep ==
    ASSUME CtxInv, UNCHANGED <<avail, clients, recycling, lastid>>,
           handle' \in [Ctx -> {"none", "open", "closing"}],
           \A c \in Ctx : handle'[c] # "none" => handle[c] # "none",
           HandlesKept'
    PROVE  CtxInv'
<1>1. CtxTypes'
  BY DEF CtxInv, CtxTypes, Ids
<1>2. Used' \subseteq Used
  BY DEF Used, Listed
<1>3. FewUsed'
  BY <1>1, <1>2, FewUsedKept
<1>4. CtxSound'
  BY DEF CtxInv, CtxSound, Ids
<1> QED BY <1>1, <1>3, <1>4 DEF CtxInv

LEMMA AfterRecvEndStep ==
    ASSUME CtxInv, NEW id \in Ids, AfterRecvEnd(id)
    PROVE  CtxInv'
<1>1. /\ handle' = [handle EXCEPT ![clients[id]] = "closing"]
      /\ handle[clients[id]] = "open"
      /\ UNCHANGED <<avail, clients, recycling, lastid>>
  BY DEF AfterRecvEnd, CloseClient, clientVars
<1>2. clients[id] \in Ctx
  BY DEF CtxInv, CtxTypes
<1>3. handle' \in [Ctx -> {"none", "open", "closing"}]
  BY <1>1 DEF CtxInv, CtxTypes
<1>4. \A c \in Ctx : handle'[c] # "none" => handle[c] # "none"
  BY <1>1, <1>2 DEF CtxInv, CtxTypes
<1>5. HandlesKept'
  BY <1>1, <1>2 DEF CtxInv, CtxTypes, HandlesKept, Ids
<1> QED BY <1>1, <1>3, <1>4, <1>5, HandlesStep

LEMMA AsyncCloseStep == CtxInv /\ AsyncCloseCB => CtxInv'
<1> SUFFICES ASSUME CtxInv, AsyncCloseCB PROVE CtxInv'
  OBVIOUS
<1>1. UNCHANGED <<avail, clients, recycling, lastid>>
  BY DEF AsyncCloseCB, CloseInl
<1>2. \/ handle' = handle
      \/ handle' = [c \in Ctx |-> IF handle[c] # "none" THEN "closing" ELSE "none"]
  BY DEF AsyncCloseCB, CloseInl, Open
<1>3. /\ handle' \in [Ctx -> {"none", "open", "closing"}]
      /\ \A c \in Ctx : handle'[c] # "none" => handle[c] # "none"
  BY <1>2 DEF CtxInv, CtxTypes
<1>4. HandlesKept'
  BY <1>1, <1>2 DEF CtxInv, CtxTypes, HandlesKept, Ids
<1> QED BY <1>1, <1>3, <1>4, HandlesStep

LEMMA AfterServerCloseStep == CtxInv /\ AfterServerClose => CtxInv'
<1> SUFFICES ASSUME CtxInv, AfterServerClose PROVE CtxInv'
  OBVIOUS
<1>1. UNCHANGED <<avail, clients, recycling, lastid>>
  BY DEF AfterServerClose
<1>2. \/ handle' = handle
      \/ \E c \in Ctx \ (Held \cup recycling) : handle' = [handle EXCEPT ![c] = "none"]
  BY DEF AfterServerClose, Held
<1>3. /\ handle' \in [Ctx -> {"none", "open", "closing"}]
      /\ \A c \in Ctx : handle'[c] # "none" => handle[c] # "none"
  BY <1>2 DEF CtxInv, CtxTypes
<1>4. HandlesKept'
  BY <1>1, <1>2 DEF CtxInv, CtxTypes, HandlesKept, Ids, Held
<1> QED BY <1>1, <1>3, <1>4, HandlesStep

(* A context that is in use and not on the list goes there, or is freed. *)
LEMMA RecycledFacts ==
    ASSUME CtxInv, NEW c \in Ctx, c \notin Listed, avail' = Recycled(c)
    PROVE  /\ avail' \in Seq(Ctx) /\ NoRepeat(avail')
           /\ Listed' \subseteq Listed \cup {c}
           /\ avail' = <<>> => avail = <<>>
<1>1. avail \in Seq(Ctx) /\ NoRepeat(avail) /\ Items(avail) = Listed
  BY DEF CtxInv, CtxTypes, CtxSound, NoRepeat, Items, Listed
<1>2. /\ Append(avail, c) \in Seq(Ctx) /\ Append(avail, c) # <<>>
      /\ NoRepeat(Append(avail, c)) /\ Items(Append(avail, c)) = Listed \cup {c}
  BY <1>1, AppendFacts
<1>3. Listed' = Items(avail')
  BY DEF Listed, Items
<1>4. avail' = avail \/ avail' = Append(avail, c)
  BY DEF Recycled
<1> QED BY <1>1, <1>2, <1>3, <1>4

LEMMA AfterClientCloseStep ==
    ASSUME CtxInv, NEW id \in Ids, AfterClientClose(id)
    PROVE  CtxInv'
<1> DEFINE c == clients[id]
<1>1. /\ handle' = [handle EXCEPT ![c] = "none"] /\ handle[c] = "closing"
      /\ avail' = Recycled(c)
      /\ clients' = [i \in Ids \ {id} |-> clients[i]]
      /\ UNCHANGED <<recycling, lastid>>
  BY DEF AfterClientClose
<1>2. c \in Ctx /\ c \in Held /\ c \notin Listed /\ c \notin recycling
  BY DEF CtxInv, CtxTypes, CtxSound, Held, Listed
<1>3. /\ avail' \in Seq(Ctx) /\ NoRepeat(avail') /\ Listed' \subseteq Listed \cup {c}
      /\ avail' = <<>> => avail = <<>>
  BY <1>1, <1>2, RecycledFacts
<1>4. \A i \in Ids \ {id} : clients[i] # c
  BY DEF CtxInv, CtxSound
<1> HIDE DEF c
<1>5. /\ Ids' = Ids \ {id}
      /\ \A i \in Ids' : i \in Ids /\ clients'[i] = clients[i] /\ clients[i] # c
  BY <1>1, <1>4 DEF Ids
<1>6. CtxTypes'
  BY <1>1, <1>2, <1>3, <1>5 DEF CtxInv, CtxTypes
<1>7. HandlesKept'
  BY <1>1, <1>2, <1>5 DEF CtxInv, CtxTypes, HandlesKept
<1>8. Used' \subseteq Used
  BY <1>1, <1>2, <1>3 DEF CtxInv, CtxTypes, Used
<1>9. FewUsed'
  BY <1>1, <1>3, <1>6, <1>8, FewUsedKept
<1>10. CtxSound'
  <2>1. Held' \subseteq Held \ {c}
    BY <1>5 DEF Held
  <2>2. Held \cap Listed = {} /\ recycling \cap (Held \cup Listed) = {}
    BY DEF CtxInv, CtxSound, Held, Listed
  <2>3. Held' \cap Listed' = {} /\ recycling' \cap (Held' \cup Listed') = {}
    BY <1>1, <1>2, <1>3, <2>1, <2>2
  <2>4. \A i, j \in Ids' : clients'[i] = clients'[j] => i = j
    BY <1>5 DEF CtxInv, CtxSound
  <2> QED BY <1>3, <2>3, <2>4, SoundNext
<1> QED BY <1>6, <1>7, <1>9, <1>10 DEF CtxInv

LEMMA RecycleStep ==
    ASSUME CtxInv, NEW c \in recycling, RecycleTcpHandle(c)
    PROVE  CtxInv'
<1>1. /\ handle' = [handle EXCEPT ![c] = "none"] /\ handle[c] = "closing"
      /\ avail' = Recycled(c)
      /\ recycling' = recycling \ {c}
      /\ UNCHANGED <<clients, lastid>>
  BY DEF RecycleTcpHandle
<1>2. c \in Ctx /\ c \notin Held /\ c \notin Listed
  BY DEF CtxInv, CtxTypes, CtxSound, Held, Listed
<1>3. /\ avail' \in Seq(Ctx) /\ NoRepeat(avail') /\ Listed' \subseteq Listed \cup {c}
      /\ avail' = <<>> => avail = <<>>
  BY <1>1, <1>2, RecycledFacts
<1>4. Ids' = Ids /\ Held' = Held
  BY <1>1 DEF Ids, Held
<1>5. CtxTypes'
  BY <1>1, <1>2, <1>3, <1>4 DEF CtxInv, CtxTypes
<1>6. HandlesKept'
  <2>1. \A id \in Ids : clients[id] # c /\ clients[id] \in Ctx
    BY <1>2 DEF CtxInv, CtxTypes, Held
  <2> QED BY <1>1, <1>2, <1>4, <2>1 DEF CtxInv, CtxTypes, HandlesKept
<1>7. Used' \subseteq Used
  BY <1>1, <1>2, <1>3 DEF CtxInv, CtxTypes, Used
<1>8. FewUsed'
  BY <1>1, <1>3, <1>5, <1>7, FewUsedKept
<1>9. CtxSound'
  <2>1. Held \cap Listed = {} /\ recycling \cap (Held \cup Listed) = {}
    BY DEF CtxInv, CtxSound, Held, Listed
  <2>2. Held' \cap Listed' = {} /\ recycling' \cap (Held' \cup Listed') = {}
    BY <1>1, <1>2, <1>3, <1>4, <2>1
  <2>3. \A i, j \in Ids' : clients'[i] = clients'[j] => i = j
    BY <1>1, <1>4 DEF CtxInv, CtxSound
  <2> QED BY <1>3, <2>2, <2>3, SoundNext
<1> QED BY <1>5, <1>6, <1>8, <1>9 DEF CtxInv

-----------------------------------------------------------------------------
LEMMA InitCtx == Init => CtxInv
<1> SUFFICES ASSUME Init PROVE CtxInv
  OBVIOUS
<1>1. /\ avail = <<>> /\ clients = <<>> /\ recycling = {} /\ lastid = 0
      /\ handle = [c \in Ctx |-> "none"]
  BY DEF Init
<1>2. Ids = {} /\ DOMAIN avail = {}
  BY <1>1 DEF Ids
<1>3. CtxTypes
  BY <1>1, <1>2, EmptySeq DEF CtxTypes
<1>4. Used = {}
  BY <1>1, <1>2 DEF Used, Listed
<1>5. FewUsed
  BY <1>1, <1>4, FS_EmptySet DEF FewUsed
<1> QED BY <1>1, <1>2, <1>3, <1>5 DEF CtxInv, HandlesKept, CtxSound

LEMMA CtxStep == CtxInv /\ [Next]_vars => CtxInv'
<1> SUFFICES ASSUME CtxInv, [Next]_vars PROVE CtxInv'
  OBVIOUS
<1>1. CASE Accept
  BY <1>1, AcceptStep
<1>2. CASE AcceptFails
  BY <1>2, AcceptFailsStep
<1>3. ASSUME NEW id \in Ids, AfterRecvEnd(id) PROVE CtxInv'
  BY <1>3, AfterRecvEndStep
<1>4. CASE AsyncCloseCB
  BY <1>4, AsyncCloseStep
<1>5. CASE CloseCallback
  BY <1>5, AfterClientCloseStep, RecycleStep, AfterServerCloseStep DEF CloseCallback
<1>6. CASE \/ Start \/ StartOver \/ StartReturns \/ Close \/ UNCHANGED vars
           \/ \E k \in Runs : ThreadStep(k)
  <2>1. UNCHANGED clientVars
    BY <1>6 DEF Start, StartOver, StartReturns, Close, vars, ThreadStep, Begin, RunReturns,
       SetClosed, ResetAsked, TellClosed
  <2> QED BY <2>1 DEF clientVars, CtxInv, CtxTypes, HandlesKept, FewUsed, CtxSound, Ids, Used,
         Listed
<1> QED BY <1>1, <1>2, <1>3, <1>4, <1>5, <1>6 DEF Next

(* No TcpClientCtx serves two connections, or one while it is on the list  *)
(* for another: whatever fails, however long the list may be.              *)
THEOREM ContextsNeverShared == Spec => []CtxSound
<1>1. CtxInv => CtxSound
  BY DEF CtxInv
<1> QED BY <1>1, InitCtx, CtxStep, PTL DEF Spec

-----------------------------------------------------------------------------
ThreadTypes == thread \in [Runs -> {"none", "created", "running", "run returned",
                                    "closed", "reset", "ended"}]

(* A client that was announced is in the map until its end is told. *)
ToldInv ==
    /\ ThreadTypes
    /\ DOMAIN announced = Runs
    /\ \A k \in Runs : announced[k] \subseteq told \cup Ids
    /\ ClosedLast

LEMMA ToldStep == ToldInv /\ [Next]_vars => ToldInv'
<1> SUFFICES ASSUME ToldInv, [Next]_vars PROVE ToldInv'
  OBVIOUS
<1> USE DEF ToldInv, ClosedLast, ThreadTypes
<1>1. CASE Accept
  <2>1. PICK k \in Runs : thread[k] = "running"
    BY <1>1 DEF Accept, InLoop
  <2>2. Run \in Runs /\ thread[Run] = "running"
    BY <2>1 DEF Run
  <2>3. /\ announced' = [announced EXCEPT ![Run] = @ \cup {lastid + 1}]
        /\ lastid' = lastid + 1 /\ told' = told /\ thread' = thread
        /\ Ids' = Ids \cup {lastid + 1}
    BY <1>1 DEF Accept, Ids, threadVars
  <2>4. DOMAIN announced' = Runs
    BY <2>3
  <2>5. \A r \in Runs : announced'[r] \subseteq told' \cup Ids'
    BY <2>2, <2>3
  <2>6. ClosedLast'
    BY <2>2, <2>3
  <2>7. ThreadTypes'
    BY <2>3
  <2> QED BY <2>4, <2>5, <2>6, <2>7
<1>2. CASE AcceptFails
  <2>1. UNCHANGED <<announced, told, thread, Ids>>
    BY <1>2 DEF AcceptFails, Ids, userVars, threadVars
  <2> QED BY <2>1
<1>3. ASSUME NEW id \in Ids, AfterClientClose(id) PROVE ToldInv'
  <2>1. /\ UNCHANGED <<announced, thread>>
        /\ told' = told \cup {id} /\ Ids' = Ids \ {id}
    BY <1>3 DEF AfterClientClose, Ids, threadVars
  <2>2. \A r \in Runs : announced'[r] \subseteq told' \cup Ids'
    <3> SUFFICES ASSUME NEW r \in Runs PROVE announced'[r] \subseteq told' \cup Ids'
      OBVIOUS
    <3>1. announced[r] \subseteq told \cup Ids /\ announced'[r] = announced[r]
      BY <2>1
    <3>2. told \cup Ids \subseteq told' \cup Ids'
      BY <2>1
    <3> QED BY <3>1, <3>2
  <2>3. ThreadTypes' /\ DOMAIN announced' = Runs
    BY <2>1
  <2>4. ClosedLast'
    BY <2>1
  <2> QED BY <2>2, <2>3, <2>4
<1>4. ASSUME NEW k \in Runs, RunReturns(k) PROVE ToldInv'
  <2>1. Ids = {}
    <3>1. Kept = {}
      BY <1>4 DEF RunReturns
    <3>2. \A id \in Ids : clients[id] \in Kept
      BY Zenon DEF Kept
    <3> QED BY <3>1, <3>2
  <2>2. UNCHANGED <<announced, told, Ids>>
    BY <1>4 DEF RunReturns, Ids, clientVars, userVars
  <2>3. \A r \in Runs : announced'[r] \subseteq told'
    BY <2>1, <2>2
  <2>4. ThreadTypes'
    BY <1>4 DEF RunReturns
  <2> QED BY <2>2, <2>3, <2>4
<1>5. CASE Start
  <2>1. UNCHANGED <<announced, told, Ids>>
    BY <1>5 DEF Start, Ids, clientVars
  <2>2. \A r \in Runs : thread'[r] # thread[r] => thread'[r] = "created"
    BY <1>5 DEF Start
  <2>3. ThreadTypes'
    BY <1>5 DEF Start
  <2> QED BY <2>1, <2>2, <2>3
<1>6. ASSUME NEW k \in Runs, Begin(k) PROVE ToldInv'
  <2>1. UNCHANGED <<announced, told, Ids>>
    BY <1>6 DEF Begin, Ids, clientVars, userVars
  <2>2. \A r \in Runs : thread'[r] # thread[r] => thread'[r] = "running"
    BY <1>6 DEF Begin
  <2>3. ThreadTypes'
    BY <1>6 DEF Begin
  <2> QED BY <2>1, <2>2, <2>3
<1>7. ASSUME NEW k \in Runs, SetClosed(k) \/ ResetAsked(k) \/ TellClosed(k) PROVE ToldInv'
  <2>1. UNCHANGED <<announced, told, Ids>>
    BY <1>7 DEF SetClosed, ResetAsked, TellClosed, Ids, clientVars, userVars
  <2>2. /\ thread[k] \in {"run returned", "closed", "reset"}
        /\ \A r \in Runs \ {k} : thread'[r] = thread[r]
    BY <1>7 DEF SetClosed, ResetAsked, TellClosed
  <2>3. ThreadTypes'
    BY <1>7 DEF SetClosed, ResetAsked, TellClosed
  <2> QED BY <2>1, <2>2, <2>3
<1>8. CASE \/ StartOver \/ StartReturns \/ Close \/ AsyncCloseCB \/ AfterServerClose
           \/ UNCHANGED vars \/ (\E id \in Ids : AfterRecvEnd(id))
           \/ (\E c \in recycling : RecycleTcpHandle(c))
  <2>1. UNCHANGED <<announced, told, Ids, thread>>
    BY <1>8 DEF StartOver, StartReturns, Close, AsyncCloseCB, CloseInl, AfterServerClose,
       AfterRecvEnd, RecycleTcpHandle, vars, clientVars, threadVars, userVars, Ids
  <2> QED BY <2>1
<1> QED BY <1>1, <1>2, <1>3, <1>4, <1>5, <1>6, <1>7, <1>8 DEF Next, ThreadStep, CloseCallback

(* The user hears of the end of the server after the end of each of its    *)
(* connections, in every run of it.                                        *)
THEOREM EndToldLast == Spec => []ClosedLast
<1>1. Init => ToldInv
  BY DEF Init, ToldInv, ClosedLast, ThreadTypes
<1>2. ToldInv => ClosedLast
  BY DEF ToldInv
<1> QED BY <1>1, <1>2, ToldStep, PTL DEF Spec
-----------------------------------------------------------------------------
(* A context goes to the list only in the place of one taken from it, or   *)
(* when there is room.                                                     *)
LEMMA ListShort ==
    ASSUME CtxInv, Len(avail) <= MaxList + 1, NEW c \in Ctx
    PROVE  /\ Len(Recycled(c)) <= MaxList + 1
           /\ Len(PopCtx[2]) <= MaxList + 1
           /\ Len(Append(PopCtx[2], c)) <= MaxList + 1
<1>1. avail \in Seq(Ctx) /\ Len(avail) \in Nat /\ MaxList \in Nat
  BY LenProperties DEF CtxInv, CtxTypes
<1>2. Len(Append(avail, c)) = Len(avail) + 1
  BY <1>1, AppendProperties
<1>3. Len(Recycled(c)) <= MaxList + 1
  BY <1>1, <1>2 DEF Recycled
<1>4. CASE avail = <<>>
  <2>1. PopCtx[2] = <<>>
    BY <1>4 DEF PopCtx
  <2>2. PopCtx[2] \in Seq(Ctx) /\ Len(PopCtx[2]) = 0
    BY <2>1, EmptySeq
  <2>3. Len(Append(PopCtx[2], c)) = 1
    BY <2>2, AppendProperties
  <2> QED BY <1>1, <1>3, <2>2, <2>3
<1>5. CASE avail # <<>>
  <2>1. PopCtx[2] = Tail(avail)
    BY <1>5 DEF PopCtx
  <2>2. PopCtx[2] \in Seq(Ctx) /\ Len(PopCtx[2]) = Len(avail) - 1
    BY <1>1, <1>5, <2>1, NoRepeatTail
  <2>3. Len(Append(PopCtx[2], c)) = Len(avail)
    BY <1>1, <2>2, AppendProperties
  <2> QED BY <1>1, <1>3, <2>2, <2>3
<1> QED BY <1>4, <1>5

(* The loop's callbacks change these. *)
LEMMA AcceptTypes == CtxInv /\ TypeOK /\ (Accept \/ AcceptFails) => TypeOK'
<1> SUFFICES ASSUME CtxInv, TypeOK, Accept \/ AcceptFails PROVE TypeOK'
  OBVIOUS
<1>1. CtxInv' /\ CtxTypes'
  BY AcceptStep, AcceptFailsStep DEF CtxInv
<1>2. lastid < MaxClients /\ lastid \in 0 .. MaxClients /\ MaxClients \in Nat
  BY DEF Accept, AcceptFails, TypeOK
<1>3. PopCtx[1] \in Ctx
  BY <1>2, PoppedFree
<1>4. Len(avail) <= MaxList + 1
  BY DEF TypeOK
<1>5. Len(avail') <= MaxList + 1
  BY <1>3, <1>4, ListShort DEF Accept, AcceptFails
<1>6. lastid' \in 0 .. MaxClients
  BY <1>2 DEF Accept, AcceptFails
<1>7. Ids' \subseteq 1 .. MaxClients
  <2>1. Ids' \subseteq Ids \cup {lastid + 1}
    BY DEF Accept, AcceptFails, Ids
  <2>2. Ids \subseteq 1 .. MaxClients
    BY DEF TypeOK
  <2>3. lastid + 1 \in 1 .. MaxClients
    BY <1>2
  <2> QED BY Zenon, <2>1, <2>2, <2>3
<1>8. announced' \in [Runs -> SUBSET (1 .. MaxClients)]
  <2>1. \/ announced' = announced
        \/ announced' = [announced EXCEPT ![Run] = @ \cup {lastid + 1}]
    BY DEF Accept, AcceptFails, userVars
  <2>2. lastid + 1 \in 1 .. MaxClients
    BY <1>2
  <2>3. announced \in [Runs -> SUBSET (1 .. MaxClients)]
    BY DEF TypeOK
  <2> DEFINE S == 1 .. MaxClients
  <2> HIDE DEF S
  <2>4. announced' \in [Runs -> SUBSET S]
    BY <2>1, <2>2, <2>3 DEF S
  <2> QED BY <2>4 DEF S
<1>9. failures' \in 0 .. MaxFailures /\ misused' \in BOOLEAN
  <2>1. failures \in 0 .. MaxFailures /\ MaxFailures \in Nat
    BY DEF TypeOK
  <2>2. failures' = failures \/ (failures < MaxFailures /\ failures' = failures + 1)
    BY DEF Accept, AcceptFails, Fails
  <2>3. misused' \in BOOLEAN
    BY DEF Accept, AcceptFails
  <2> QED BY <2>1, <2>2, <2>3
<1>10. UNCHANGED <<isclosed, asked, threadVars, wakeup, base, told, command>>
  BY DEF Accept, AcceptFails, userVars
<1> QED BY <1>1, <1>5, <1>6, <1>7, <1>8, <1>9, <1>10 DEF TypeOK, CtxTypes, threadVars

LEMMA CloseTypes ==
    ASSUME CtxInv, TypeOK, CtxInv',
           \/ \E id \in Ids : AfterRecvEnd(id) \/ AfterClientClose(id)
           \/ \E c \in recycling : RecycleTcpHandle(c)
           \/ AsyncCloseCB \/ AfterServerClose
    PROVE  TypeOK'
<1>1. Len(avail) <= MaxList + 1 /\ (\A id \in Ids : clients[id] \in Ctx) /\ recycling \subseteq Ctx
  BY DEF TypeOK
<1>2. Len(avail') <= MaxList + 1
  <2>1. \/ avail' = avail
        \/ \E id \in Ids : avail' = Recycled(clients[id])
        \/ \E c \in recycling : avail' = Recycled(c)
    BY DEF AfterRecvEnd, AfterClientClose, RecycleTcpHandle, AsyncCloseCB, AfterServerClose
  <2> QED BY <1>1, <2>1, ListShort
<1>3. Ids' \subseteq Ids /\ lastid' = lastid
  BY DEF AfterRecvEnd, AfterClientClose, RecycleTcpHandle, AsyncCloseCB, CloseInl,
     AfterServerClose, Ids
<1>4. told' \subseteq told \cup Ids
  BY DEF AfterRecvEnd, AfterClientClose, RecycleTcpHandle, AsyncCloseCB, AfterServerClose,
     userVars
<1>5. base' \in {"none", "open", "closing"} /\ misused' \in BOOLEAN /\ wakeup' \in BOOLEAN
  BY DEF AfterRecvEnd, AfterClientClose, RecycleTcpHandle, AsyncCloseCB, CloseInl,
     AfterServerClose, TypeOK
<1>6. UNCHANGED <<isclosed, asked, threadVars, announced, command, failures>>
  BY DEF AfterRecvEnd, AfterClientClose, RecycleTcpHandle, AsyncCloseCB, AfterServerClose,
     userVars
<1>7. CtxTypes'
  BY DEF CtxInv
<1> QED BY <1>2, <1>3, <1>4, <1>5, <1>6, <1>7 DEF TypeOK, CtxTypes, threadVars

LEMMA OutsideTypes ==
    ASSUME TypeOK,
           \/ Start \/ StartOver \/ StartReturns \/ Close
           \/ \E k \in Runs : ThreadStep(k)
    PROVE  TypeOK'
<1>1. UNCHANGED <<clientVars, announced, told, misused>>
  BY DEF Start, StartOver, StartReturns, Close, ThreadStep, Begin, RunReturns, SetClosed,
     ResetAsked, TellClosed, userVars
<1>2. thread' \in [Runs -> {"none", "created", "running", "run returned",
                            "closed", "reset", "ended"}]
  BY DEF TypeOK, Start, StartOver, StartReturns, Close, ThreadStep, Begin, RunReturns,
     SetClosed, ResetAsked, TellClosed, threadVars
<1>3. starts' \in 0 .. MaxStarts /\ failures' \in 0 .. MaxFailures
  <2>1. /\ starts \in 0 .. MaxStarts /\ failures \in 0 .. MaxFailures
        /\ {MaxStarts, MaxFailures} \subseteq Nat
    BY DEF TypeOK
  <2>2. /\ starts' = starts \/ (starts < MaxStarts /\ starts' = starts + 1)
        /\ failures' = failures \/ (failures < MaxFailures /\ failures' = failures + 1)
    BY DEF Start, StartOver, StartReturns, Close, ThreadStep, Begin, RunReturns,
       SetClosed, ResetAsked, TellClosed, threadVars
  <2> QED BY <2>1, <2>2
<1>4. /\ isclosed' \in BOOLEAN /\ asked' \in BOOLEAN /\ wakeup' \in BOOLEAN
      /\ command' \in BOOLEAN /\ base' \in {"none", "open", "closing"}
  BY ZenonT(30) DEF TypeOK, Start, StartOver, StartReturns, Close, ThreadStep, Begin, RunReturns,
     SetClosed, ResetAsked, TellClosed, OpenHandles, userVars
<1>5. /\ startstatus' \in {"START_DIS", "START_FINISH", "START_TIMEOUT"}
      /\ user' \in {"idle", "waiting"}
  BY DEF TypeOK, Start, StartOver, StartReturns, Close, ThreadStep, Begin, RunReturns,
     SetClosed, ResetAsked, TellClosed, threadVars
<1> QED BY <1>1, <1>2, <1>3, <1>4, <1>5 DEF TypeOK, clientVars, Ids

LEMMA TypesStep == CtxInv /\ TypeOK /\ [Next]_vars => TypeOK'
<1> SUFFICES ASSUME CtxInv, TypeOK, [Next]_vars PROVE TypeOK'
  OBVIOUS
<1>1. CtxInv'
  BY CtxStep
<1>2. CASE UNCHANGED vars
  BY <1>2 DEF vars, threadVars, clientVars, userVars, TypeOK, Ids
<1> QED BY <1>1, <1>2, AcceptTypes, CloseTypes, OutsideTypes DEF Next, CloseCallback

LEMMA InitTypes == Init => TypeOK
<1> SUFFICES ASSUME Init PROVE TypeOK
  OBVIOUS
<1>1. avail \in Seq(Ctx) /\ Len(avail) = 0 /\ clients = <<>> /\ Ids = {}
  BY EmptySeq DEF Init, Ids
<1>2. {MaxList, MaxStarts, MaxClients, MaxFailures} \subseteq Nat
  OBVIOUS
<1>3. starts \in 0 .. MaxStarts /\ lastid \in 0 .. MaxClients /\ failures \in 0 .. MaxFailures
  BY <1>2 DEF Init
<1>4. /\ thread \in [Runs -> {"none", "created", "running", "run returned",
                             "closed", "reset", "ended"}]
      /\ handle \in [Ctx -> {"none", "open", "closing"}]
      /\ announced \in [Runs -> SUBSET (1 .. MaxClients)]
  BY DEF Init
<1>5. Ids \subseteq 1 .. MaxClients /\ clients \in [Ids -> Ctx] /\ Len(avail) <= MaxList + 1
  BY <1>1, <1>2
<1> QED BY <1>1, <1>3, <1>4, <1>5 DEF Init, TypeOK

(* Every variable keeps its type.  Among others the list of spare contexts *)
(* never holds more than MAXLISTSIZE and one, though a failing accept puts *)
(* a context on it without looking at its length.                          *)
THEOREM ServerTypesHold == Spec => []TypeOK
<1>1. Init => CtxInv /\ TypeOK
  BY InitCtx, InitTypes
<1>2. CtxInv /\ TypeOK /\ [Next]_vars => (CtxInv /\ TypeOK)'
  BY CtxStep, TypesStep
<1> QED BY <1>1, <1>2, PTL DEF Spec

-----------------------------------------------------------------------------
(* Sending.                                                                *)

USE SendBoundsAssumption

(* What SetRecvCB has found it holds the mutex for, which the removal of a *)
(* client takes.                                                           *)
FoundInv == found # 0 => mutex = "user" /\ found \in Ids

LiveInv == DOMAIN flight = Ctx /\ RequestsLive

-----------------------------------------------------------------------------
(* The map of clients changes in two steps only, with the mutex free. *)
LEMMA ClientsChange ==
    ASSUME [SendNext]_sendVars
    PROVE  \/ UNCHANGED clients
           \/ AcceptConnection
           \/ \E id \in Ids : SubClientClosed(id)
<1>1. CASE (\E id \in Ids : GetPacket(id) \/ PeerGone(id)) \/ Sent
  BY <1>1 DEF GetPacket, PeerGone, Sent, AfterSend, vars, clientVars
<1>2. CASE SetRecvCB \/ SetterStep \/ CallbackSets
  BY <1>2 DEF SetRecvCB, SetterStep, SetRecvCBFinds, SetRecvCBSets, CallbackSets, vars,
     clientVars
<1>3. CASE AsyncClose
  BY <1>3 DEF AsyncClose, AsyncCloseCB, CloseInl
<1>4. CASE OtherLoopStep
  BY <1>4 DEF OtherLoopStep, AcceptFails, AfterRecvEnd
<1>5. CASE OtherClosed
  BY <1>5 DEF OtherClosed, AfterServerClose, RecycleTcpHandle
<1>6. CASE UserStep
  BY <1>6 DEF UserStep, Start, StartReturns, Close, clientVars
<1>7. CASE \E k \in Runs : StartThread(k)
  BY <1>7 DEF StartThread, ThreadStep, Begin, RunReturns, SetClosed, ResetAsked, TellClosed,
     clientVars
<1>8. CASE UNCHANGED sendVars
  BY <1>8 DEF sendVars, vars, clientVars
<1> QED BY <1>1, <1>2, <1>3, <1>4, <1>5, <1>6, <1>7, <1>8 DEF SendNext, HandleClosed

(* What the two of them do to the map. *)
LEMMA ClientAdded ==
    ASSUME AcceptConnection
    PROVE  Ids \subseteq Ids' /\ \A id \in Ids : clients'[id] = clients[id]
BY DEF AcceptConnection, Accept, Ids

LEMMA ClientRemoved ==
    ASSUME NEW id \in Ids, SubClientClosed(id)
    PROVE  /\ flight[clients[id]] = <<>>
           /\ \A i \in Ids \ {id} : i \in Ids' /\ clients'[i] = clients[i]
BY DEF SubClientClosed, AfterClientClose, clientVars, Ids

LEMMA MutexKept ==
    ASSUME [SendNext]_sendVars, mutex = "user", found # 0
    PROVE  UNCHANGED <<mutex, found, clients>> \/ found' = 0
<1>1. \A id \in Ids : ~SubClientClosed(id)
  BY DEF SubClientClosed
<1>2. ~AcceptConnection
  BY DEF AcceptConnection
<1>3. UNCHANGED clients
  BY <1>1, <1>2, ClientsChange
<1>4. CASE SetterStep
  BY <1>3, <1>4 DEF SetterStep, SetRecvCBFinds, SetRecvCBSets
<1>5. CASE \/ \E id \in Ids : GetPacket(id) \/ PeerGone(id)
           \/ Sent \/ AsyncClose \/ OtherLoopStep \/ OtherClosed \/ UserStep
           \/ \E k \in Runs : StartThread(k)
           \/ UNCHANGED sendVars
  BY <1>3, <1>5 DEF GetPacket, PeerGone, Sent, AfterSend, AsyncClose, OtherLoopStep,
     OtherClosed, UserStep, StartThread, sendVars, lockVars
<1>6. CASE SetRecvCB \/ CallbackSets
  BY <1>3, <1>6 DEF SetRecvCB, CallbackSets
<1> QED BY <1>1, <1>2, <1>4, <1>5, <1>6 DEF SendNext, HandleClosed

LEMMA FoundStep == FoundInv /\ [SendNext]_sendVars => FoundInv'
<1> SUFFICES ASSUME FoundInv, [SendNext]_sendVars PROVE FoundInv'
  OBVIOUS
<1>1. CASE found # 0
  BY <1>1, MutexKept DEF FoundInv, Ids
<1>2. CASE found = 0
  <2>1. CASE SetterStep
    <3>1. CASE SetRecvCBFinds
      BY <3>1 DEF SetRecvCBFinds, FoundInv, Ids, vars, clientVars
    <3>2. CASE SetRecvCBSets
      BY <3>2 DEF SetRecvCBSets, FoundInv
    <3> QED BY <2>1, <3>1, <3>2 DEF SetterStep
  <2>2. CASE ~SetterStep
    <3>1. found' = found
      BY <2>2 DEF SendNext, GetPacket, PeerGone, Sent, AfterSend, SetRecvCB, CallbackSets,
         AcceptConnection, AsyncClose, OtherLoopStep, HandleClosed, OtherClosed,
         SubClientClosed, UserStep, StartThread, sendVars, lockVars
    <3> QED BY <1>2, <3>1 DEF FoundInv
  <2> QED BY <2>1, <2>2
<1> QED BY <1>1, <1>2

(* SetRecvCB never gets hold of a client that is deleted before it has set *)
(* its callback, however many threads end connections meanwhile.           *)
THEOREM FoundAlwaysLives == SendSpec => []FoundLives
<1>1. SendInit => FoundInv
  BY DEF SendInit, FoundInv
<1>2. FoundInv => FoundLives
  BY DEF FoundInv, FoundLives
<1> QED BY <1>1, <1>2, FoundStep, PTL DEF SendSpec

-----------------------------------------------------------------------------
LEMMA LiveStep == LiveInv /\ [SendNext]_sendVars => LiveInv'
<1> SUFFICES ASSUME LiveInv, [SendNext]_sendVars PROVE LiveInv'
  OBVIOUS
<1>1. ASSUME NEW id \in Ids, GetPacket(id) PROVE LiveInv'
  <2>1. /\ UNCHANGED clients
        /\ \/ UNCHANGED flight
           \/ \E p : flight' = [flight EXCEPT ![clients[id]] = Append(@, p)]
    BY <1>1 DEF GetPacket, clientVars
  <2> QED BY <2>1 DEF LiveInv, RequestsLive, Ids
<1>2. ASSUME NEW id \in Ids, AfterSend(id) PROVE LiveInv'
  <2>1. /\ UNCHANGED clients /\ flight[clients[id]] # <<>>
        /\ flight' = [flight EXCEPT ![clients[id]] = Tail(@)]
    BY <1>2 DEF AfterSend, vars, clientVars
  <2> QED BY <2>1 DEF LiveInv, RequestsLive, Ids
<1>3. CASE AcceptConnection
  <2>1. flight' = flight
    BY <1>3 DEF AcceptConnection, writeVars
  <2> QED BY <1>3, <2>1, ClientAdded DEF LiveInv, RequestsLive
<1>4. ASSUME NEW id \in Ids, SubClientClosed(id) PROVE LiveInv'
  <2>1. flight' = flight
    BY <1>4 DEF SubClientClosed, writeVars
  <2> QED BY <1>4, <2>1, ClientRemoved DEF LiveInv, RequestsLive
<1>5. CASE /\ ~\E id \in Ids : GetPacket(id) \/ AfterSend(id) \/ SubClientClosed(id)
           /\ ~AcceptConnection
  <2>1. UNCHANGED clients
    BY <1>5, ClientsChange
  <2>2. UNCHANGED flight
    BY <1>5 DEF SendNext, PeerGone, Sent, SetRecvCB, SetterStep, SetRecvCBFinds,
       SetRecvCBSets, CallbackSets, AsyncClose, OtherLoopStep, HandleClosed, OtherClosed,
       UserStep, StartThread, sendVars, writeVars
  <2> QED BY <2>1, <2>2 DEF LiveInv, RequestsLive, Ids
<1> QED BY <1>1, <1>2, <1>3, <1>4, <1>5

(* While libuv has a request, the context that AfterSend will look into is *)
(* a client's.                                                             *)
THEOREM RequestsAlwaysLive == SendSpec => []RequestsLive
<1>1. SendInit => LiveInv
  BY DEF SendInit, LiveInv, RequestsLive
<1>2. LiveInv => RequestsLive
  BY DEF LiveInv
<1> QED BY <1>1, <1>2, LiveStep, PTL DEF SendSpec
-----------------------------------------------------------------------------
(* A step that is none of Server's, as far as Server sees it: a call of    *)
(* libuv fails, or a closed callback is called and does not come back.     *)
Aside ==
    /\ UNCHANGED <<isclosed, asked, threadVars, wakeup, base, clientVars, announced,
                   command, misused>>
    /\ failures' = failures \/ Fails
    /\ told' = told \/ \E id \in Ids : told' = told \cup {id}

LEMMA StepBelow == [SendNext]_sendVars => [Next]_vars \/ Aside
<1> SUFFICES ASSUME [SendNext]_sendVars PROVE [Next]_vars \/ Aside
  OBVIOUS
<1>1. ASSUME NEW id \in Ids, GetPacket(id) \/ PeerGone(id) PROVE Aside
  BY <1>1 DEF GetPacket, PeerGone, Aside, userVars
<1>2. CASE Sent \/ SetRecvCB \/ SetterStep \/ CallbackSets \/ UNCHANGED sendVars
  BY <1>2 DEF Sent, AfterSend, SetRecvCB, SetterStep, SetRecvCBFinds, SetRecvCBSets,
     CallbackSets, sendVars
<1>3. ASSUME NEW id \in Ids, SubClientClosed(id) PROVE [Next]_vars \/ Aside
  BY <1>3 DEF SubClientClosed, Next, CloseCallback, Aside
<1>4. CASE \/ AcceptConnection \/ AsyncClose \/ OtherLoopStep \/ OtherClosed \/ UserStep
           \/ \E k \in Runs : StartThread(k)
  BY <1>4 DEF AcceptConnection, AsyncClose, OtherLoopStep, OtherClosed, UserStep,
     StartThread, Next, CloseCallback
<1> QED BY <1>1, <1>2, <1>3, <1>4 DEF SendNext, HandleClosed

(* So the invariants of Server hold of a server that answers. *)
LEMMA LifeStep == CtxInv /\ TypeOK /\ [SendNext]_sendVars => (CtxInv /\ TypeOK)'
<1> SUFFICES ASSUME CtxInv, TypeOK, [SendNext]_sendVars PROVE CtxInv' /\ TypeOK'
  OBVIOUS
<1>1. CASE [Next]_vars
  BY <1>1, CtxStep, TypesStep
<1>2. CASE Aside
  <2>1. CtxInv'
    BY <1>2 DEF Aside, clientVars, CtxInv, CtxTypes, HandlesKept, FewUsed, CtxSound, Ids,
       Used, Listed
  <2>2. failures' \in 0 .. MaxFailures
    <3>1. failures' = failures \/ (failures < MaxFailures /\ failures' = failures + 1)
      BY <1>2 DEF Aside, Fails
    <3>2. failures \in 0 .. MaxFailures /\ MaxFailures \in Nat
      BY DEF TypeOK
    <3> QED BY <3>1, <3>2
  <2>3. told' \subseteq 1 .. MaxClients
    BY <1>2 DEF Aside, TypeOK
  <2> QED BY <1>2, <2>1, <2>2, <2>3 DEF Aside, clientVars, threadVars, TypeOK, Ids
<1> QED BY <1>1, <1>2, StepBelow

-----------------------------------------------------------------------------
WriteTypes ==
    /\ free \in Seq(Params) /\ Len(free) <= MaxList + 1
    /\ buf \in [Params -> [to : Clients \cup {0}, nth : 0 .. MaxPackets]]
    /\ flight \in [Ctx -> Seq(Params)]
    /\ answered \in [Clients -> 0 .. MaxPackets]
    /\ wire \in [Clients -> Seq([to : Clients, nth : 1 .. MaxPackets])]
    /\ lost \subseteq Clients

LockTypes ==
    /\ mutex \in {"nobody", "user", "loop"}
    /\ setter \in {"idle", "waiting", "found"}
    /\ found \in Clients \cup {0}
    /\ sets \in 0 .. MaxSets
    /\ callback \in {"none", "newconcb", "closedcb"}

(* No param is in two places. *)
ParamsApart ==
    /\ NoRepeat(free)
    /\ \A c \in Ctx : NoRepeat(flight[c]) /\ Items(flight[c]) \cap Items(free) = {}
    /\ \A c, d \in Ctx : c # d => Items(flight[c]) \cap Items(flight[d]) = {}

(* There are no more params with libuv than replies it has accepted, so    *)
(* that a new one can be found while there are packets to come.            *)
FewSent ==
    /\ IsFiniteSet(Accepted)
    /\ Cardinality(InFlight) <= Cardinality(Accepted)
    /\ \A id \in Clients : answered[id] <= Cardinality(Accepted)

(* What a client's socket has taken, and what is on its way while it can   *)
(* take more.                                                              *)
RepliesInv ==
    /\ Ids \subseteq 1 .. lastid
    /\ \A id \in Clients :
        /\ lastid < id => answered[id] = 0
        /\ Len(wire[id]) <= answered[id]
        /\ \A n \in DOMAIN wire[id] : wire[id][n] = Reply(id, n)
        /\ id \in Ids /\ handle[clients[id]] = "open" /\ id \notin lost =>
            /\ Len(wire[id]) + Len(flight[clients[id]]) = answered[id]
            /\ \A i \in DOMAIN flight[clients[id]] :
                   buf[flight[clients[id]][i]] = Reply(id, Len(wire[id]) + i)

ReplyInv ==
    /\ CtxInv /\ TypeOK /\ LiveInv
    /\ WriteTypes /\ LockTypes /\ ParamsApart /\ FewSent /\ RepliesInv

-----------------------------------------------------------------------------
LEMMA InFlightItems == \A p : p \in InFlight <=> \E c \in Ctx : p \in Items(flight[c])
BY DEF InFlight, Range, Items

LEMMA InFlightFinite ==
    ASSUME WriteTypes
    PROVE  /\ InFlight \subseteq Params
           /\ IsFiniteSet(InFlight) /\ Cardinality(InFlight) \in Nat
           /\ IsFiniteSet(Params) /\ Cardinality(Params) = MaxPackets
<1>1. \A c \in Ctx : Items(flight[c]) \subseteq Params
  BY LenProperties DEF WriteTypes, Items
<1>2. InFlight \subseteq Params
  BY <1>1, InFlightItems
<1>3. IsFiniteSet(Params) /\ Cardinality(Params) = MaxPackets
  BY FS_Interval DEF Params
<1> QED BY <1>2, <1>3, FS_Subset, FS_CardinalityType

(* The param for the next reply is nobody's. *)
LEMMA PoppedParam ==
    ASSUME WriteTypes, ParamsApart, FewSent, Cardinality(Accepted) < MaxPackets,
           NEW p, NEW rest, p = PopParam[1], rest = PopParam[2]
    PROVE  /\ p \in Params /\ p \notin InFlight
           /\ rest \in Seq(Params) /\ Len(rest) <= MaxList
           /\ NoRepeat(rest) /\ Items(rest) \subseteq Items(free) \ {p}
<1>1. CASE free = <<>>
  <2>1. Spare = {}
    BY <1>1 DEF Spare, Range
  <2>2. Cardinality(InFlight) # Cardinality(Params)
    BY InFlightFinite, FS_CardinalityType DEF FewSent
  <2>3. \E q \in Params : q \notin InFlight \cup Spare
    <3>1. InFlight # Params
      BY Zenon, <2>2
    <3>2. InFlight \subseteq Params
      BY InFlightFinite
    <3> QED BY Zenon, <2>1, <3>1, <3>2
  <2>4. NewParam \in Params /\ NewParam \notin InFlight
    BY <2>3 DEF NewParam
  <2>5. p = NewParam /\ rest = <<>>
    BY <1>1 DEF PopParam
  <2>6. /\ rest \in Seq(Params) /\ Len(rest) = 0
        /\ NoRepeat(rest) /\ Items(rest) = {}
    BY <2>5, EmptySeq DEF NoRepeat, Items
  <2> QED BY <2>4, <2>5, <2>6
<1>2. CASE free # <<>>
  <2>1. p = Head(free) /\ rest = Tail(free)
    BY <1>2 DEF PopParam
  <2>2. free \in Seq(Params) /\ NoRepeat(free) /\ Len(free) <= MaxList + 1
    BY DEF WriteTypes, ParamsApart
  <2>3. /\ p \in Params /\ p \in Items(free)
        /\ rest \in Seq(Params) /\ Len(rest) <= MaxList
        /\ NoRepeat(rest) /\ Items(rest) = Items(free) \ {p}
    BY <1>2, <2>1, <2>2, NoRepeatTail
  <2>4. p \notin InFlight
    BY <2>3, InFlightItems DEF ParamsApart
  <2> QED BY <2>3, <2>4
<1> QED BY <1>1, <1>2

(* libuv accepts one more reply. *)
LEMMA AcceptedGrows ==
    ASSUME WriteTypes, FewSent, NEW id \in Clients,
           answered' = [answered EXCEPT ![id] = @ + 1]
    PROVE  /\ IsFiniteSet(Accepted')
           /\ Cardinality(Accepted') = Cardinality(Accepted) + 1
           /\ Cardinality(Accepted) \in Nat
<1> DEFINE r == Reply(id, answered[id] + 1)
<1>1. answered[id] \in Nat /\ \A i \in Clients : answered[i] \in Nat
  BY DEF WriteTypes
<1>2. \A x : x \in Accepted <=> \E i \in Clients : \E n \in 1 .. answered[i] : x = Reply(i, n)
  BY DEF Accepted
<1>3. \A x : x \in Accepted' <=> \E i \in Clients : \E n \in 1 .. answered'[i] : x = Reply(i, n)
  BY DEF Accepted, Reply
<1>4. \A i, j, n, m : Reply(i, n) = Reply(j, m) => i = j /\ n = m
  BY DEF Reply
<1>5. r \notin Accepted
  BY <1>1, <1>2, <1>4
<1>6. Accepted' \subseteq Accepted \cup {r}
  <2> SUFFICES ASSUME NEW i \in Clients, NEW n \in 1 .. answered'[i], Reply(i, n) # r
               PROVE  Reply(i, n) \in Accepted
    BY <1>3
  <2>1. n \in 1 .. answered[i]
    BY SMTT(30), <1>1 DEF WriteTypes
  <2> QED BY <1>2, <2>1
<1>7. Accepted \cup {r} \subseteq Accepted'
  <2>1. \A i \in Clients : answered[i] <= answered'[i] /\ answered'[i] \in Nat
    BY <1>1 DEF WriteTypes
  <2>2. \A i \in Clients : 1 .. answered[i] \subseteq 1 .. answered'[i]
    BY <1>1, <2>1
  <2>3. Accepted \subseteq Accepted'
    BY <1>2, <1>3, <2>2
  <2>4. answered[id] + 1 \in 1 .. answered'[id]
    BY <1>1 DEF WriteTypes
  <2> QED BY <1>3, <2>3, <2>4
<1>8. Accepted' = Accepted \cup {r}
  BY <1>6, <1>7
<1> QED BY <1>5, <1>8, FS_AddElement, FS_CardinalityType DEF FewSent
-----------------------------------------------------------------------------
(* GetPacket: the reply goes into the buffer of a param that is nobody's.  *)
LEMMA GetPacketFacts ==
    ASSUME ReplyInv, NEW id \in Ids, GetPacket(id),
           NEW p, NEW rest, p = PopParam[1], rest = PopParam[2]
    PROVE  /\ p \in Params /\ p \notin InFlight
           /\ rest \in Seq(Params) /\ Len(rest) <= MaxList
           /\ NoRepeat(rest) /\ Items(rest) \subseteq Items(free) \ {p}
           /\ id \in Clients /\ clients[id] \in Ctx /\ handle[clients[id]] = "open"
           /\ answered[id] \in Nat /\ answered[id] + 1 <= MaxPackets
           /\ buf' = [buf EXCEPT ![p] = Reply(id, answered[id] + 1)]
           /\ \/ /\ flight' = [flight EXCEPT ![clients[id]] = Append(@, p)]
                 /\ free' = rest
                 /\ answered' = [answered EXCEPT ![id] = @ + 1]
              \/ free' = Append(rest, p) /\ UNCHANGED <<flight, answered>>
           /\ UNCHANGED <<handle, clients, lastid, wire, lost>>
<1>1. WriteTypes /\ ParamsApart /\ FewSent /\ Cardinality(Accepted) < MaxPackets
  BY DEF ReplyInv, GetPacket
<1>2. /\ p \in Params /\ p \notin InFlight
      /\ rest \in Seq(Params) /\ Len(rest) <= MaxList
      /\ NoRepeat(rest) /\ Items(rest) \subseteq Items(free) \ {p}
  BY <1>1, PoppedParam
<1>3. id \in Clients /\ clients[id] \in Ctx
  BY DEF ReplyInv, TypeOK, Clients
<1>4. answered[id] \in Nat /\ answered[id] <= Cardinality(Accepted)
  BY <1>1, <1>3 DEF WriteTypes, FewSent
<1>5. Cardinality(Accepted) \in Nat
  BY <1>1, FS_CardinalityType DEF FewSent
<1>6. answered[id] + 1 <= MaxPackets
  BY <1>1, <1>4, <1>5
<1> QED BY <1>2, <1>3, <1>4, <1>6 DEF GetPacket, clientVars

LEMMA GetPacketTypes ==
    ASSUME ReplyInv, NEW id \in Ids, GetPacket(id)
    PROVE  WriteTypes'
<1> DEFINE p == PopParam[1]  rest == PopParam[2]  c == clients[id]
<1>1. /\ p \in Params
      /\ rest \in Seq(Params) /\ Len(rest) <= MaxList
      /\ id \in Clients /\ c \in Ctx
      /\ answered[id] \in Nat /\ answered[id] + 1 <= MaxPackets
      /\ buf' = [buf EXCEPT ![p] = Reply(id, answered[id] + 1)]
      /\ \/ /\ flight' = [flight EXCEPT ![c] = Append(@, p)]
            /\ free' = rest
            /\ answered' = [answered EXCEPT ![id] = @ + 1]
         \/ free' = Append(rest, p) /\ UNCHANGED <<flight, answered>>
      /\ UNCHANGED <<wire, lost>>
  BY SMTT(30), GetPacketFacts
<1>2. WriteTypes
  BY DEF ReplyInv
<1> HIDE DEF p, rest, c
<1>3. Append(rest, p) \in Seq(Params) /\ Len(Append(rest, p)) <= MaxList + 1
      /\ Len(rest) <= MaxList + 1
  <2>1. Append(rest, p) \in Seq(Params) /\ Len(Append(rest, p)) = Len(rest) + 1
    BY <1>1, AppendProperties
  <2>2. Len(rest) \in Nat
    BY <1>1, LenProperties
  <2> QED BY <1>1, <2>1, <2>2
<1>4. free' \in Seq(Params) /\ Len(free') <= MaxList + 1
  BY <1>1, <1>3
<1>5. buf' \in [Params -> [to : Clients \cup {0}, nth : 0 .. MaxPackets]]
  <2>1. answered[id] + 1 \in 0 .. MaxPackets
    BY SMTT(30), <1>1
  <2>2. Reply(id, answered[id] + 1) \in [to : Clients \cup {0}, nth : 0 .. MaxPackets]
    BY <1>1, <2>1 DEF Reply
  <2>3. buf \in [Params -> [to : Clients \cup {0}, nth : 0 .. MaxPackets]]
    BY <1>2 DEF WriteTypes
  <2> QED BY <1>1, <2>2, <2>3
<1>6. flight' \in [Ctx -> Seq(Params)]
  <2>1. Append(flight[c], p) \in Seq(Params)
    BY <1>1, <1>2, AppendProperties DEF WriteTypes
  <2>2. flight \in [Ctx -> Seq(Params)]
    BY <1>2 DEF WriteTypes
  <2> QED BY <1>1, <2>1, <2>2
<1>7. answered' \in [Clients -> 0 .. MaxPackets]
  <2>1. answered[id] + 1 \in 0 .. MaxPackets
    BY SMTT(30), <1>1
  <2>2. answered \in [Clients -> 0 .. MaxPackets]
    BY <1>2 DEF WriteTypes
  <2> QED BY <1>1, <2>1, <2>2
<1> QED BY <1>1, <1>2, <1>4, <1>5, <1>6, <1>7 DEF WriteTypes

(* Where each param is after a step, from its being apart before it. *)
LEMMA ApartAfterAppend ==
    ASSUME WriteTypes, ParamsApart, NEW c \in Ctx, NEW p \in Params, p \notin InFlight,
           flight' = [flight EXCEPT ![c] = Append(@, p)],
           NoRepeat(free'), Items(free') \subseteq Items(free) \ {p}
    PROVE  ParamsApart'
<1>1. /\ \A d \in Ctx : d # c => flight'[d] = flight[d]
      /\ flight'[c] = Append(flight[c], p) /\ flight[c] \in Seq(Params)
  BY DEF WriteTypes
<1>2. \A d \in Ctx : p \notin Items(flight[d])
  BY InFlightItems
<1>3. NoRepeat(flight'[c]) /\ Items(flight'[c]) = Items(flight[c]) \cup {p}
  BY <1>1, <1>2, NoRepeatAppend DEF ParamsApart
<1>4. \A d \in Ctx : NoRepeat(flight'[d])
  BY <1>1, <1>3 DEF ParamsApart
<1>5. \A d \in Ctx : Items(flight'[d]) \cap Items(free') = {}
  <2> SUFFICES ASSUME NEW d \in Ctx, NEW x \in Items(flight'[d]), x \in Items(free')
               PROVE  FALSE
    OBVIOUS
  <2>1. x \in Items(free) /\ x # p
    OBVIOUS
  <2>2. x \in Items(flight[d])
    BY <1>1, <1>3, <2>1
  <2> QED BY <2>1, <2>2 DEF ParamsApart
<1>6. \A d, e \in Ctx : d # e => Items(flight'[d]) \cap Items(flight'[e]) = {}
  <2> SUFFICES ASSUME NEW d \in Ctx, NEW e \in Ctx, d # e,
                      NEW x \in Items(flight'[d]), x \in Items(flight'[e])
               PROVE  FALSE
    OBVIOUS
  <2>1. /\ x \in Items(flight[d]) \/ (d = c /\ x = p)
        /\ x \in Items(flight[e]) \/ (e = c /\ x = p)
    BY <1>1, <1>3
  <2> QED BY <1>2, <2>1 DEF ParamsApart
<1>7. NoRepeat(free)'
  BY DEF NoRepeat
<1>8. \A d \in Ctx : NoRepeat(flight[d])' /\ (Items(flight[d]) \cap Items(free) = {})'
  BY <1>4, <1>5 DEF NoRepeat, Items
<1>9. \A d, e \in Ctx : d # e => (Items(flight[d]) \cap Items(flight[e]) = {})'
  BY <1>6 DEF Items
<1> QED BY <1>7, <1>8, <1>9 DEF ParamsApart
LEMMA GetPacketApart ==
    ASSUME ReplyInv, NEW id \in Ids, GetPacket(id)
    PROVE  ParamsApart'
<1> DEFINE p == PopParam[1]  rest == PopParam[2]  c == clients[id]
<1>1. /\ p \in Params /\ p \notin InFlight
      /\ rest \in Seq(Params)
      /\ NoRepeat(rest) /\ Items(rest) \subseteq Items(free) \ {p}
      /\ c \in Ctx
      /\ \/ /\ flight' = [flight EXCEPT ![c] = Append(@, p)]
            /\ free' = rest
         \/ free' = Append(rest, p) /\ UNCHANGED flight
  BY SMTT(30), GetPacketFacts
<1>2. WriteTypes /\ ParamsApart
  BY DEF ReplyInv
<1> HIDE DEF p, rest, c
<1>3. CASE flight' = [flight EXCEPT ![c] = Append(@, p)] /\ free' = rest
  BY <1>1, <1>2, <1>3, ApartAfterAppend
<1>4. CASE free' = Append(rest, p) /\ UNCHANGED flight
  <2>1. NoRepeat(free') /\ Items(free') = Items(rest) \cup {p}
    BY <1>1, <1>4, NoRepeatAppend
  <2>2. \A d \in Ctx : p \notin Items(flight[d])
    BY <1>1, InFlightItems
  <2>3. \A d \in Ctx : Items(flight[d]) \cap Items(free') = {}
    BY <1>1, <1>2, <2>1, <2>2 DEF ParamsApart
  <2>4. NoRepeat(free)'
    BY <2>1 DEF NoRepeat
  <2>5. flight' = flight /\ Items(free)' = Items(free')
    BY <1>4 DEF Items
  <2>6. \A d \in Ctx : NoRepeat(flight[d])' = NoRepeat(flight[d])
                       /\ Items(flight[d])' = Items(flight[d])
    BY <2>5 DEF NoRepeat, Items
  <2>7. \A d \in Ctx : NoRepeat(flight[d])' /\ (Items(flight[d]) \cap Items(free) = {})'
    BY <1>2, <2>3, <2>5, <2>6 DEF ParamsApart
  <2>8. \A d, e \in Ctx : d # e => (Items(flight[d]) \cap Items(flight[e]) = {})'
    BY <1>2, <2>6 DEF ParamsApart
  <2> QED BY <2>4, <2>7, <2>8 DEF ParamsApart
<1> QED BY <1>1, <1>3, <1>4

LEMMA GetPacketFew ==
    ASSUME ReplyInv, NEW id \in Ids, GetPacket(id)
    PROVE  FewSent'
<1> DEFINE p == PopParam[1]  c == clients[id]
<1>1. /\ id \in Clients /\ c \in Ctx
      /\ \/ /\ flight' = [flight EXCEPT ![c] = Append(@, p)]
            /\ answered' = [answered EXCEPT ![id] = @ + 1]
         \/ UNCHANGED <<flight, answered>>
      /\ p \in Params /\ p \notin InFlight
  BY GetPacketFacts
<1>2. WriteTypes /\ FewSent
  BY DEF ReplyInv
<1> HIDE DEF p, c
<1>3. CASE /\ flight' = [flight EXCEPT ![c] = Append(@, p)]
           /\ answered' = [answered EXCEPT ![id] = @ + 1]
  <2>1. /\ IsFiniteSet(Accepted') /\ Cardinality(Accepted') = Cardinality(Accepted) + 1
        /\ Cardinality(Accepted) \in Nat
    BY <1>1, <1>2, <1>3, AcceptedGrows
  <2>2. \A i \in Clients : answered'[i] <= answered[i] + 1 /\ answered[i] \in Nat
    BY SMTT(30), <1>1, <1>2, <1>3 DEF WriteTypes
  <2>3. \A i \in Clients : answered'[i] <= Cardinality(Accepted')
    <3> SUFFICES ASSUME NEW i \in Clients PROVE answered'[i] <= Cardinality(Accepted')
      OBVIOUS
    <3>1. answered[i] <= Cardinality(Accepted)
      BY <1>2 DEF FewSent
    <3>2. answered'[i] \in Nat
      BY <1>1, <1>2, <1>3 DEF WriteTypes
    <3> QED BY <2>1, <2>2, <3>1, <3>2
  <2>4. Cardinality(InFlight') <= Cardinality(InFlight) + 1
    <3>1. /\ \A d \in Ctx : d # c => flight'[d] = flight[d]
          /\ flight'[c] = Append(flight[c], p) /\ flight[c] \in Seq(Params)
      BY <1>1, <1>2, <1>3 DEF WriteTypes
    <3>2. Items(flight'[c]) = Items(flight[c]) \cup {p}
      BY <1>1, <3>1, NoRepeatAppend
    <3>3. \A x : x \in InFlight' => \E d \in Ctx : x \in Items(flight'[d])
      BY DEF InFlight, Range, Items
    <3>4. InFlight' \subseteq InFlight \cup {p}
      BY <3>1, <3>2, <3>3, InFlightItems
    <3>5. IsFiniteSet(InFlight) /\ Cardinality(InFlight) \in Nat
      BY <1>2, InFlightFinite
    <3>6. /\ IsFiniteSet(InFlight \cup {p})
          /\ Cardinality(InFlight \cup {p}) = Cardinality(InFlight) + 1
      BY <1>1, <3>5, FS_AddElement
    <3>7. /\ Cardinality(InFlight') <= Cardinality(InFlight \cup {p})
          /\ Cardinality(InFlight') \in Nat /\ Cardinality(InFlight \cup {p}) \in Nat
      BY <3>4, <3>6, FS_Subset, FS_CardinalityType
    <3> QED BY <3>5, <3>6, <3>7
  <2>5. Cardinality(InFlight') <= Cardinality(Accepted')
    <3>1. Cardinality(InFlight') \in Nat /\ Cardinality(InFlight) \in Nat
      <4>1. WriteTypes'
        BY GetPacketTypes
      <4>2. \A d \in Ctx : Items(flight'[d]) \subseteq Params
        BY <4>1, LenProperties DEF WriteTypes, Items
      <4>3. InFlight' \subseteq Params
        BY <4>2 DEF InFlight, Range, Items
      <4> QED BY <1>2, <4>3, InFlightFinite, FS_Subset, FS_CardinalityType
    <3>2. Cardinality(InFlight) <= Cardinality(Accepted)
      BY <1>2 DEF FewSent
    <3> QED BY <2>1, <2>4, <3>1, <3>2
  <2> QED BY <2>1, <2>3, <2>5 DEF FewSent
<1>4. CASE UNCHANGED <<flight, answered>>
  BY <1>2, <1>4 DEF FewSent, Accepted, InFlight, Reply
<1> QED BY <1>1, <1>3, <1>4

(* What is on its way to one client, after the reply has been added.       *)
LEMMA GetPacketReplies ==
    ASSUME ReplyInv, NEW id \in Ids, GetPacket(id)
    PROVE  RepliesInv'
<1> DEFINE p == PopParam[1]  rest == PopParam[2]  c == clients[id]  r == Reply(id, answered[id] + 1)
<1>1. /\ p \in Params /\ p \notin InFlight
      /\ id \in Clients /\ c \in Ctx /\ handle[c] = "open"
      /\ answered[id] \in Nat
      /\ buf' = [buf EXCEPT ![p] = r]
      /\ \/ /\ flight' = [flight EXCEPT ![c] = Append(@, p)]
            /\ answered' = [answered EXCEPT ![id] = @ + 1]
         \/ UNCHANGED <<flight, answered>>
      /\ UNCHANGED <<handle, clients, lastid, wire, lost>>
  BY GetPacketFacts
<1>2. WriteTypes /\ RepliesInv /\ Ids' = Ids
  BY <1>1 DEF ReplyInv, Ids
<1>3. \A i \in Ids : clients[i] \in Ctx /\ (i # id => clients[i] # c)
  BY DEF ReplyInv, CtxInv, CtxTypes, CtxSound
<1>4. r = Reply(id, answered[id] + 1)
  OBVIOUS
<1>5. id \in 1 .. lastid /\ lastid \in Nat
  BY <1>2 DEF RepliesInv, ReplyInv, CtxInv, CtxTypes
<1> HIDE DEF p, rest, c, r
<1>6. /\ \A d \in Ctx : d # c => flight'[d] = flight[d]
      /\ flight[c] \in Seq(Params)
      /\ \/ flight'[c] = Append(flight[c], p) /\ answered'[id] = answered[id] + 1
         \/ flight'[c] = flight[c] /\ answered'[id] = answered[id]
      /\ \A i \in Clients : i # id => answered'[i] = answered[i]
  BY <1>1, <1>2 DEF WriteTypes
<1>7. \A d \in Ctx : \A i \in DOMAIN flight[d] :
          flight[d][i] \in Params /\ flight[d][i] # p /\ buf'[flight[d][i]] = buf[flight[d][i]]
  <2> SUFFICES ASSUME NEW d \in Ctx, NEW i \in DOMAIN flight[d]
               PROVE  /\ flight[d][i] \in Params /\ flight[d][i] # p
                      /\ buf'[flight[d][i]] = buf[flight[d][i]]
    OBVIOUS
  <2>1. flight[d][i] \in InFlight
    BY InFlightItems DEF Items
  <2>2. flight[d][i] \in Params /\ flight[d][i] # p
    BY <1>1, <1>2, <2>1, InFlightFinite
  <2> QED BY <1>1, <1>2, <2>2 DEF WriteTypes
<1>8. p \in DOMAIN buf
  BY <1>1, <1>2 DEF WriteTypes
<1>9. /\ lastid < id => answered'[id] = 0
      /\ Len(wire[id]) <= answered'[id]
      /\ Len(wire[id]) \in Nat
  <2>1. Len(wire[id]) <= answered[id] /\ Len(wire[id]) \in Nat
    BY <1>1, <1>2, LenProperties DEF RepliesInv, WriteTypes
  <2> QED BY <1>1, <1>5, <1>6, <2>1
<1>10. ASSUME id \notin lost
       PROVE  /\ Len(wire[id]) + Len(flight'[c]) = answered'[id]
              /\ \A i \in DOMAIN flight'[c] : buf'[flight'[c][i]] = Reply(id, Len(wire[id]) + i)
  <2> DEFINE w == Len(wire[id])  k == Len(flight[c])
  <2>1. w + k = answered[id]
    BY <1>1, <1>2, <1>10 DEF RepliesInv, c
  <2>2. \A i \in DOMAIN flight[c] : buf[flight[c][i]] = Reply(id, w + i)
    BY <1>1, <1>2, <1>10 DEF RepliesInv, c
  <2>3. w \in Nat /\ k \in Nat /\ DOMAIN flight[c] = 1 .. k
    BY <1>6, <1>9, LenProperties
  <2>4. CASE flight'[c] = Append(flight[c], p) /\ answered'[id] = answered[id] + 1
    <3>1. /\ DOMAIN flight'[c] = 1 .. k + 1
          /\ Len(flight'[c]) = k + 1
          /\ \A i \in 1 .. k : flight'[c][i] = flight[c][i]
          /\ flight'[c][k + 1] = p
      <4>1. /\ Append(flight[c], p) \in Seq(Params)
            /\ Len(Append(flight[c], p)) = k + 1
            /\ \A i \in 1 .. k : Append(flight[c], p)[i] = flight[c][i]
            /\ Append(flight[c], p)[k + 1] = p
        BY <1>1, <1>6, AppendProperties
      <4> QED BY <2>4, <4>1, LenProperties
    <3> HIDE DEF w, k
    <3>2. w + (k + 1) = answered'[id] /\ w + (k + 1) = answered[id] + 1
      BY <2>1, <2>3, <2>4
    <3>3. buf'[p] = Reply(id, w + (k + 1))
      BY <1>1, <1>4, <1>8, <3>2
    <3>4. \A i \in 1 .. k : buf'[flight'[c][i]] = Reply(id, w + i)
      <4> SUFFICES ASSUME NEW i \in 1 .. k PROVE buf'[flight'[c][i]] = Reply(id, w + i)
        OBVIOUS
      <4>1. flight'[c][i] = flight[c][i] /\ i \in DOMAIN flight[c]
        BY <2>3, <3>1
      <4>2. buf'[flight[c][i]] = buf[flight[c][i]]
        BY <1>1, <1>7, <4>1
      <4> QED BY <2>2, <4>1, <4>2
    <3>5. \A i \in DOMAIN flight'[c] : i \in 1 .. k \/ i = k + 1
      BY <2>3, <3>1
    <3>6. \A i \in DOMAIN flight'[c] : buf'[flight'[c][i]] = Reply(id, w + i)
      BY <3>1, <3>3, <3>4, <3>5
    <3>7. w + Len(flight'[c]) = answered'[id]
      BY <3>1, <3>2
    <3> QED BY <3>6, <3>7 DEF w
  <2>5. CASE flight'[c] = flight[c] /\ answered'[id] = answered[id]
    <3>1. \A i \in DOMAIN flight[c] : buf'[flight[c][i]] = buf[flight[c][i]]
      BY <1>1, <1>7
    <3> HIDE DEF k
    <3>2. w + Len(flight'[c]) = answered'[id]
      BY <2>1, <2>5 DEF k
    <3>3. \A i \in DOMAIN flight'[c] : buf'[flight'[c][i]] = Reply(id, w + i)
      BY <2>2, <2>5, <3>1
    <3> QED BY <3>2, <3>3
  <2> QED BY <1>6, <2>4, <2>5
<1> QED
  <2>1. Ids' \subseteq 1 .. lastid'
    BY <1>1, <1>2 DEF RepliesInv
  <2>2. ASSUME NEW j \in Clients
        PROVE  /\ lastid' < j => answered'[j] = 0
               /\ Len(wire'[j]) <= answered'[j]
               /\ \A n \in DOMAIN wire'[j] : wire'[j][n] = Reply(j, n)
               /\ j \in Ids' /\ handle'[clients'[j]] = "open" /\ j \notin lost' =>
                   /\ Len(wire'[j]) + Len(flight'[clients'[j]]) = answered'[j]
                   /\ \A i \in DOMAIN flight'[clients'[j]] :
                          buf'[flight'[clients'[j]][i]] = Reply(j, Len(wire'[j]) + i)
    <3>1. CASE j = id
      <4>1. /\ lastid' < id => answered'[id] = 0
            /\ Len(wire'[id]) <= answered'[id]
        BY <1>1, <1>9
      <4>2. \A n \in DOMAIN wire'[id] : wire'[id][n] = Reply(id, n)
        BY <1>1, <1>2 DEF RepliesInv
      <4>3. clients'[id] = c /\ wire' = wire /\ lost' = lost
        BY <1>1 DEF c
      <4> QED BY <1>10, <3>1, <4>1, <4>2, <4>3
    <3>2. CASE j # id
      <4>1. /\ lastid' < j => answered'[j] = 0
            /\ Len(wire'[j]) <= answered'[j]
            /\ \A n \in DOMAIN wire'[j] : wire'[j][n] = Reply(j, n)
        BY <1>1, <1>2, <1>6, <3>2 DEF RepliesInv
      <4>2. ASSUME j \in Ids, handle[clients[j]] = "open", j \notin lost
            PROVE  /\ Len(wire[j]) + Len(flight'[clients[j]]) = answered'[j]
                   /\ \A i \in DOMAIN flight'[clients[j]] :
                          buf'[flight'[clients[j]][i]] = Reply(j, Len(wire[j]) + i)
        <5>1. clients[j] \in Ctx /\ flight'[clients[j]] = flight[clients[j]]
          BY <1>3, <1>6, <3>2, <4>2
        <5>2. answered'[j] = answered[j]
          BY <1>6, <3>2
        <5>3. \A i \in DOMAIN flight[clients[j]] :
                 buf'[flight[clients[j]][i]] = buf[flight[clients[j]][i]]
          BY <1>7, <5>1
        <5> QED BY <1>2, <4>2, <5>1, <5>2, <5>3 DEF RepliesInv
      <4> QED BY <1>1, <1>2, <4>1, <4>2
    <3> QED BY <3>1, <3>2
  <2> QED BY <2>1, <2>2 DEF RepliesInv, Reply
-----------------------------------------------------------------------------
(* AfterSend: the oldest request of a client is done with. *)
LEMMA AfterSendFacts ==
    ASSUME ReplyInv, NEW id \in Ids, AfterSend(id),
           NEW c, NEW h, c = clients[id], h = Head(flight[c])
    PROVE  /\ id \in Clients /\ c \in Ctx /\ flight[c] \in Seq(Params) /\ flight[c] # <<>>
           /\ h \in Params /\ h = flight[c][1] /\ h \in Items(flight[c])
           /\ flight' = [flight EXCEPT ![c] = Tail(@)]
           /\ free' = RecycledParam(h)
           /\ \/ /\ handle[c] = "open" /\ id \notin lost
                 /\ wire' = [wire EXCEPT ![id] = Append(@, buf[h])]
              \/ (handle[c] = "closing" \/ id \in lost) /\ wire' = wire
           /\ UNCHANGED <<handle, clients, lastid, buf, answered, lost>>
<1>1. id \in Clients /\ c \in Ctx
  BY DEF ReplyInv, TypeOK, Clients
<1>2. flight[c] \in Seq(Params) /\ flight[c] # <<>>
  BY <1>1 DEF ReplyInv, WriteTypes, AfterSend
<1>3. h \in Params /\ h = flight[c][1] /\ h \in Items(flight[c])
  BY <1>2, NoRepeatTail
<1> QED BY <1>1, <1>2, <1>3 DEF AfterSend, vars, clientVars

(* The reply that a socket takes is the next of its client. *)
LEMMA NextReply ==
    ASSUME ReplyInv, NEW id \in Ids, AfterSend(id),
           handle[clients[id]] = "open", id \notin lost
    PROVE  /\ buf[Head(flight[clients[id]])] = Reply(id, Len(wire[id]) + 1)
           /\ Len(wire[id]) \in Nat /\ answered[id] \in Nat
           /\ Len(wire[id]) + Len(flight[clients[id]]) = answered[id]
           /\ Len(wire[id]) + 1 <= answered[id] /\ answered[id] <= MaxPackets
<1> DEFINE c == clients[id]
<1>1. /\ id \in Clients /\ c \in Ctx /\ flight[c] \in Seq(Params) /\ flight[c] # <<>>
      /\ Head(flight[c]) = flight[c][1]
  BY AfterSendFacts
<1>2. WriteTypes /\ RepliesInv
  BY DEF ReplyInv
<1>3. Len(wire[id]) + Len(flight[c]) = answered[id]
  BY <1>1, <1>2 DEF RepliesInv
<1>4. \A i \in DOMAIN flight[c] : buf[flight[c][i]] = Reply(id, Len(wire[id]) + i)
  BY <1>1, <1>2 DEF RepliesInv
<1>5. Len(wire[id]) \in Nat /\ answered[id] \in Nat /\ answered[id] <= MaxPackets
  BY <1>1, <1>2, LenProperties DEF WriteTypes
<1>6. Len(flight[c]) \in Nat \ {0} /\ 1 \in DOMAIN flight[c]
  <2>1. Len(flight[c]) \in Nat \ {0} /\ DOMAIN flight[c] = 1 .. Len(flight[c])
    BY <1>1, LenProperties, EmptySeq
  <2> QED BY <2>1
<1>7. buf[Head(flight[c])] = Reply(id, Len(wire[id]) + 1)
  BY <1>1, <1>4, <1>6
<1>8. Len(wire[id]) + 1 <= answered[id]
  <2> DEFINE w == Len(wire[id])  k == Len(flight[c])  a == answered[id]
  <2>1. w \in Nat /\ a \in Nat /\ k \in Nat \ {0} /\ w + k = a
    BY <1>3, <1>5, <1>6
  <2> HIDE DEF w, k, a
  <2>2. w + 1 <= a
    BY <2>1
  <2> QED BY <2>2 DEF w, a
<1> QED BY <1>3, <1>5, <1>7, <1>8

LEMMA AfterSendTypes ==
    ASSUME ReplyInv, NEW id \in Ids, AfterSend(id)
    PROVE  WriteTypes'
<1> DEFINE c == clients[id]  h == Head(flight[c])
<1>1. /\ id \in Clients /\ c \in Ctx /\ flight[c] \in Seq(Params) /\ flight[c] # <<>>
      /\ h \in Params
      /\ flight' = [flight EXCEPT ![c] = Tail(@)]
      /\ free' = RecycledParam(h)
      /\ UNCHANGED <<buf, answered, lost>>
  BY AfterSendFacts
<1>2. \/ /\ handle[c] = "open" /\ id \notin lost
         /\ wire' = [wire EXCEPT ![id] = Append(@, buf[h])]
      \/ wire' = wire
  BY SMTT(30), AfterSendFacts
<1>3. WriteTypes
  BY DEF ReplyInv
<1>4. free' \in Seq(Params) /\ Len(free') <= MaxList + 1
  <2>1. free \in Seq(Params) /\ Len(free) \in Nat /\ Len(free) <= MaxList + 1
    BY <1>3, LenProperties DEF WriteTypes
  <2>2. Append(free, h) \in Seq(Params) /\ Len(Append(free, h)) = Len(free) + 1
    BY <1>1, <2>1, AppendProperties
  <2> QED BY <1>1, <2>1, <2>2 DEF RecycledParam
<1>5. wire' \in [Clients -> Seq([to : Clients, nth : 1 .. MaxPackets])]
  <2> DEFINE R == [to : Clients, nth : 1 .. MaxPackets]
  <2>1. wire \in [Clients -> Seq(R)]
    BY <1>3 DEF WriteTypes
  <2>2. CASE /\ handle[c] = "open" /\ id \notin lost
             /\ wire' = [wire EXCEPT ![id] = Append(@, buf[h])]
    <3>1. /\ buf[h] = Reply(id, Len(wire[id]) + 1)
          /\ Len(wire[id]) + 1 \in 1 .. MaxPackets
      <4> DEFINE w == Len(wire[id])
      <4>1. /\ buf[h] = Reply(id, w + 1) /\ w \in Nat /\ answered[id] \in Nat
            /\ w + 1 <= answered[id] /\ answered[id] <= MaxPackets
        BY <2>2, NextReply
      <4> HIDE DEF w
      <4>2. w + 1 \in 1 .. MaxPackets
        BY <4>1
      <4> QED BY <4>1, <4>2 DEF w
    <3>2. buf[h] \in R
      BY <1>1, <3>1 DEF Reply
    <3> HIDE DEF R
    <3>3. Append(wire[id], buf[h]) \in Seq(R)
      BY <1>1, <2>1, <3>2, AppendProperties
    <3> QED BY <2>1, <2>2, <3>3 DEF R
  <2> QED BY <1>2, <2>1, <2>2
<1> HIDE DEF c, h
<1>6. flight' \in [Ctx -> Seq(Params)]
  <2>1. Tail(flight[c]) \in Seq(Params)
    BY <1>1, NoRepeatTail
  <2>2. flight \in [Ctx -> Seq(Params)]
    BY <1>3 DEF WriteTypes
  <2> QED BY <1>1, <2>1, <2>2
<1> QED BY <1>1, <1>3, <1>4, <1>5, <1>6 DEF WriteTypes

LEMMA AfterSendApart ==
    ASSUME ReplyInv, NEW id \in Ids, AfterSend(id)
    PROVE  ParamsApart' /\ InFlight' \subseteq InFlight
<1> DEFINE c == clients[id]  h == Head(flight[c])
<1>1. /\ c \in Ctx /\ flight[c] \in Seq(Params) /\ flight[c] # <<>>
      /\ h \in Params /\ h \in Items(flight[c])
      /\ flight' = [flight EXCEPT ![c] = Tail(@)]
      /\ free' = RecycledParam(h)
  BY AfterSendFacts
<1>2. WriteTypes /\ ParamsApart
  BY DEF ReplyInv
<1>3. NoRepeat(flight[c]) => /\ NoRepeat(Tail(flight[c]))
                             /\ Items(Tail(flight[c])) = Items(flight[c]) \ {h}
  BY <1>1, NoRepeatTail
<1> HIDE DEF c, h
<1>4. /\ \A d \in Ctx : d # c => flight'[d] = flight[d]
      /\ flight'[c] = Tail(flight[c])
  BY <1>1, <1>2 DEF WriteTypes
<1>5. /\ \A d \in Ctx : Items(flight'[d]) \subseteq Items(flight[d]) \ {h}
      /\ \A d \in Ctx : NoRepeat(flight'[d])
  <2> SUFFICES ASSUME NEW d \in Ctx
               PROVE  Items(flight'[d]) \subseteq Items(flight[d]) \ {h} /\ NoRepeat(flight'[d])
    OBVIOUS
  <2>1. CASE d = c
    BY <1>1, <1>2, <1>3, <1>4, <2>1 DEF ParamsApart
  <2>2. CASE d # c
    BY <1>1, <1>2, <1>4, <2>2 DEF ParamsApart
  <2> QED BY <2>1, <2>2
<1>6. h \notin Items(free)
  BY <1>1, <1>2 DEF ParamsApart
<1>7. NoRepeat(free') /\ Items(free') \subseteq Items(free) \cup {h}
  <2>1. free \in Seq(Params) /\ NoRepeat(free)
    BY <1>2 DEF WriteTypes, ParamsApart
  <2>2. NoRepeat(Append(free, h)) /\ Items(Append(free, h)) = Items(free) \cup {h}
    BY <1>1, <1>6, <2>1, NoRepeatAppend
  <2> QED BY <1>1, <2>1, <2>2 DEF RecycledParam
<1>8. \A d \in Ctx : Items(flight'[d]) \cap Items(free') = {}
  BY <1>2, <1>5, <1>7 DEF ParamsApart
<1>9. \A d, e \in Ctx : d # e => Items(flight'[d]) \cap Items(flight'[e]) = {}
  BY <1>2, <1>5 DEF ParamsApart
<1>10. NoRepeat(free)'
  BY <1>7 DEF NoRepeat
<1>11. \A d \in Ctx : NoRepeat(flight[d])' /\ (Items(flight[d]) \cap Items(free) = {})'
  BY <1>5, <1>8 DEF NoRepeat, Items
<1>12. \A d, e \in Ctx : d # e => (Items(flight[d]) \cap Items(flight[e]) = {})'
  BY <1>9 DEF Items
<1>13. ParamsApart'
  BY <1>10, <1>11, <1>12 DEF ParamsApart
<1>14. InFlight' \subseteq InFlight
  <2>1. \A x : x \in InFlight' => \E d \in Ctx : x \in Items(flight'[d])
    BY DEF InFlight, Range, Items
  <2> QED BY <1>5, <2>1, InFlightItems
<1> QED BY <1>13, <1>14

LEMMA AfterSendFew ==
    ASSUME ReplyInv, NEW id \in Ids, AfterSend(id)
    PROVE  FewSent'
<1>1. answered' = answered /\ WriteTypes /\ FewSent
  BY DEF ReplyInv, AfterSend
<1>2. Accepted' = Accepted
  BY <1>1 DEF Accepted, Reply
<1>3. InFlight' \subseteq InFlight
  BY AfterSendApart
<1>4. /\ Cardinality(InFlight') <= Cardinality(InFlight)
      /\ Cardinality(InFlight') \in Nat /\ Cardinality(InFlight) \in Nat
      /\ Cardinality(Accepted) \in Nat
  BY <1>1, <1>3, InFlightFinite, FS_Subset, FS_CardinalityType DEF FewSent
<1>5. Cardinality(InFlight) <= Cardinality(Accepted)
  BY <1>1 DEF FewSent
<1>6. Cardinality(InFlight') <= Cardinality(Accepted')
  BY <1>2, <1>4, <1>5
<1> QED BY <1>1, <1>2, <1>6 DEF FewSent
LEMMA AfterSendReplies ==
    ASSUME ReplyInv, NEW id \in Ids, AfterSend(id)
    PROVE  RepliesInv'
<1> DEFINE c == clients[id]  h == Head(flight[c])
<1>1. /\ id \in Clients /\ c \in Ctx /\ flight[c] \in Seq(Params) /\ flight[c] # <<>>
      /\ flight' = [flight EXCEPT ![c] = Tail(@)]
      /\ UNCHANGED <<handle, clients, lastid, buf, answered, lost>>
  BY AfterSendFacts
<1>2. \/ /\ handle[c] = "open" /\ id \notin lost
         /\ wire' = [wire EXCEPT ![id] = Append(@, buf[h])]
      \/ (handle[c] = "closing" \/ id \in lost) /\ wire' = wire
  BY AfterSendFacts
<1>3. WriteTypes /\ RepliesInv /\ Ids' = Ids
  BY <1>1 DEF ReplyInv, Ids
<1>4. \A i \in Ids : clients[i] \in Ctx /\ (i # id => clients[i] # c)
  BY DEF ReplyInv, CtxInv, CtxTypes, CtxSound
<1>5. /\ \A d \in Ctx : d # c => flight'[d] = flight[d]
      /\ flight'[c] = Tail(flight[c])
      /\ \A j \in Clients : j # id => wire'[j] = wire[j]
  BY <1>1, <1>2, <1>3 DEF WriteTypes
<1>6. /\ Len(wire'[id]) <= answered[id]
      /\ \A n \in DOMAIN wire'[id] : wire'[id][n] = Reply(id, n)
      /\ handle[c] = "open" /\ id \notin lost =>
          /\ Len(wire'[id]) + Len(flight'[c]) = answered[id]
          /\ \A i \in DOMAIN flight'[c] : buf[flight'[c][i]] = Reply(id, Len(wire'[id]) + i)
  <2>1. CASE /\ handle[c] = "open" /\ id \notin lost
             /\ wire' = [wire EXCEPT ![id] = Append(@, buf[h])]
    <3> DEFINE w == Len(wire[id])  k == Len(flight[c])  a == answered[id]
    <3>1. buf[h] = Reply(id, w + 1)
      BY <2>1, NextReply
    <3>2. w \in Nat /\ a \in Nat /\ w + k = a /\ w + 1 <= a
      BY <2>1, NextReply
    <3>3. /\ k \in Nat \ {0} /\ DOMAIN flight[c] = 1 .. k
          /\ DOMAIN flight'[c] = 1 .. k - 1 /\ Len(flight'[c]) = k - 1
          /\ \A i \in 1 .. k - 1 : flight'[c][i] = flight[c][i + 1]
      <4>1. /\ Tail(flight[c]) \in Seq(Params) /\ Len(Tail(flight[c])) = k - 1
            /\ \A i \in 1 .. Len(Tail(flight[c])) : Tail(flight[c])[i] = flight[c][i + 1]
        BY <1>1, HeadTailProperties
      <4>2. DOMAIN Tail(flight[c]) = 1 .. k - 1
        BY <4>1, LenProperties
      <4>3. k \in Nat \ {0} /\ DOMAIN flight[c] = 1 .. k
        BY <1>1, LenProperties, EmptySeq
      <4> QED BY <1>5, <4>1, <4>2, <4>3
    <3>4. \A i \in DOMAIN flight[c] : buf[flight[c][i]] = Reply(id, w + i)
      BY <1>1, <1>3, <2>1 DEF RepliesInv
    <3>5. \A n \in 1 .. w : wire[id][n] = Reply(id, n)
      BY <1>1, <1>3, LenProperties DEF RepliesInv, WriteTypes
    <3>6. /\ Len(wire'[id]) = w + 1 /\ DOMAIN wire'[id] = 1 .. w + 1
          /\ \A n \in 1 .. w : wire'[id][n] = wire[id][n]
          /\ wire'[id][w + 1] = buf[h]
      <4> DEFINE R == [to : Clients, nth : 1 .. MaxPackets]
      <4>1. wire \in [Clients -> Seq(R)] /\ wire'[id] = Append(wire[id], buf[h])
        BY <1>1, <1>3, <2>1 DEF WriteTypes
      <4>2. buf[h] \in R
        <5>1. a <= MaxPackets
          BY <2>1, NextReply
        <5> HIDE DEF w, a
        <5>2. w + 1 \in 1 .. MaxPackets
          BY <3>2, <5>1
        <5> QED BY <1>1, <3>1, <5>2 DEF Reply
      <4> HIDE DEF R, h
      <4>3. wire[id] \in Seq(R)
        BY <1>1, <4>1
      <4>4. /\ Append(wire[id], buf[h]) \in Seq(R)
            /\ Len(Append(wire[id], buf[h])) = w + 1
            /\ \A n \in 1 .. w : Append(wire[id], buf[h])[n] = wire[id][n]
            /\ Append(wire[id], buf[h])[w + 1] = buf[h]
        BY <4>2, <4>3, AppendProperties
      <4>5. DOMAIN Append(wire[id], buf[h]) = 1 .. w + 1
        BY <4>4, LenProperties
      <4> QED BY <4>1, <4>4, <4>5
    <3> HIDE DEF w, k, a, h
    <3>7. Len(wire'[id]) <= a /\ Len(wire'[id]) + Len(flight'[c]) = a
      <4>1. (w + 1) + (k - 1) = a
        BY <3>2, <3>3
      <4> QED BY <3>2, <3>3, <3>6, <4>1
    <3>8. \A n \in DOMAIN wire'[id] : wire'[id][n] = Reply(id, n)
      <4>1. \A n \in DOMAIN wire'[id] : n \in 1 .. w \/ n = w + 1
        BY <3>2, <3>6
      <4> QED BY <3>1, <3>5, <3>6, <4>1
    <3>9. \A i \in DOMAIN flight'[c] : buf[flight'[c][i]] = Reply(id, (w + 1) + i)
      <4> SUFFICES ASSUME NEW i \in 1 .. k - 1
                   PROVE  buf[flight'[c][i]] = Reply(id, (w + 1) + i)
        BY <3>3
      <4>1. i + 1 \in DOMAIN flight[c] /\ w + (i + 1) = (w + 1) + i
        BY <3>2, <3>3
      <4>2. flight'[c][i] = flight[c][i + 1]
        BY <3>3
      <4>3. buf[flight[c][i + 1]] = Reply(id, w + (i + 1))
        BY <3>4, <4>1
      <4> QED BY <4>1, <4>2, <4>3
    <3>10. Len(wire'[id]) = w + 1
      BY <3>6
    <3> QED BY <3>7, <3>8, <3>9, <3>10 DEF a
  <2>2. CASE (handle[c] = "closing" \/ id \in lost) /\ wire' = wire
    BY <1>1, <1>3, <2>2 DEF RepliesInv
  <2> QED BY <1>2, <2>1, <2>2
<1> HIDE DEF h
<1> QED
  <2>1. Ids' \subseteq 1 .. lastid'
    BY <1>1, <1>3 DEF RepliesInv
  <2>2. ASSUME NEW j \in Clients
        PROVE  /\ lastid' < j => answered'[j] = 0
               /\ Len(wire'[j]) <= answered'[j]
               /\ \A n \in DOMAIN wire'[j] : wire'[j][n] = Reply(j, n)
               /\ j \in Ids' /\ handle'[clients'[j]] = "open" /\ j \notin lost' =>
                   /\ Len(wire'[j]) + Len(flight'[clients'[j]]) = answered'[j]
                   /\ \A i \in DOMAIN flight'[clients'[j]] :
                          buf'[flight'[clients'[j]][i]] = Reply(j, Len(wire'[j]) + i)
    <3>1. CASE j = id
      <4>1. lastid' < id => answered'[id] = 0
        BY <1>1, <1>3 DEF RepliesInv
      <4>2. /\ clients'[id] = c /\ lost' = lost /\ handle' = handle /\ buf' = buf
            /\ answered' = answered
        BY <1>1
      <4> HIDE DEF c
      <4> QED BY <1>6, <3>1, <4>1, <4>2
    <3>2. CASE j # id
      <4>1. /\ lastid' < j => answered'[j] = 0
            /\ Len(wire'[j]) <= answered'[j]
            /\ \A n \in DOMAIN wire'[j] : wire'[j][n] = Reply(j, n)
        <5>1. /\ lastid < j => answered[j] = 0
              /\ Len(wire[j]) <= answered[j]
              /\ \A n \in DOMAIN wire[j] : wire[j][n] = Reply(j, n)
          BY <1>3 DEF RepliesInv
        <5>2. wire'[j] = wire[j] /\ answered' = answered /\ lastid' = lastid
          BY <1>1, <1>5, <3>2
        <5> QED BY <5>1, <5>2
      <4>2. ASSUME j \in Ids, handle[clients[j]] = "open", j \notin lost
            PROVE  /\ Len(wire'[j]) + Len(flight'[clients[j]]) = answered[j]
                   /\ \A i \in DOMAIN flight'[clients[j]] :
                          buf[flight'[clients[j]][i]] = Reply(j, Len(wire'[j]) + i)
        <5>1. flight'[clients[j]] = flight[clients[j]] /\ wire'[j] = wire[j]
          BY <1>4, <1>5, <3>2, <4>2
        <5>2. /\ Len(wire[j]) + Len(flight[clients[j]]) = answered[j]
              /\ \A i \in DOMAIN flight[clients[j]] :
                     buf[flight[clients[j]][i]] = Reply(j, Len(wire[j]) + i)
          BY <1>3, <4>2 DEF RepliesInv
        <5> QED BY <5>1, <5>2
      <4> HIDE DEF c
      <4> QED BY <1>1, <1>3, <4>1, <4>2
    <3> QED BY <3>1, <3>2
  <2> QED BY <2>1, <2>2 DEF RepliesInv, Reply

-----------------------------------------------------------------------------
(* In the other steps a client stays as it was, does not open again, or is *)
(* a new one with a context that libuv has no request for.                 *)
LEMMA ClientsStay ==
    ASSUME ReplyInv, [Next]_vars \/ Aside
    PROVE  /\ lastid' \in {lastid, lastid + 1}
           /\ \A id \in Ids' :
                  \/ /\ id \in Ids /\ clients'[id] = clients[id]
                     /\ handle'[clients[id]] = "open" => handle[clients[id]] = "open"
                  \/ /\ id = lastid + 1 /\ lastid' = lastid + 1
                     /\ flight[clients'[id]] = <<>>
<1> USE DEF Ids
<1>1. handle \in [Ctx -> {"none", "open", "closing"}] /\ \A id \in Ids : clients[id] \in Ctx
  BY DEF ReplyInv, CtxInv, CtxTypes
<1>2. CASE Accept
  <2> DEFINE c == PopCtx[1]  rest == PopCtx[2]
  <2>1. c \in Ctx /\ c \notin Held
    BY <1>2, PoppedFree DEF ReplyInv, Accept
  <2>2. flight[c] = <<>>
    BY <2>1 DEF ReplyInv, LiveInv, RequestsLive, Held
  <2>3. /\ handle' = [handle EXCEPT ![c] = "open"] /\ lastid' = lastid + 1
        /\ clients' = [id \in Ids \cup {lastid + 1} |-> IF id \in Ids THEN clients[id] ELSE c]
    BY <1>2 DEF Accept
  <2>4. \A id \in Ids : clients[id] # c
    BY <2>1 DEF Held
  <2> HIDE DEF c
  <2> QED BY <1>1, <2>2, <2>3, <2>4
<1>3. CASE AcceptFails
  <2> DEFINE c == PopCtx[1]  rest == PopCtx[2]
  <2>1. c \in Ctx /\ c \notin Held
    BY <1>3, PoppedFree DEF ReplyInv, AcceptFails
  <2>2. /\ lastid' \in {lastid, lastid + 1} /\ clients' = clients
        /\ \A d \in Ctx : d # c => handle'[d] = handle[d]
    BY <1>1, <1>3 DEF AcceptFails
  <2>3. \A id \in Ids : clients[id] # c
    BY <2>1 DEF Held
  <2> HIDE DEF c
  <2> QED BY <1>1, <2>2, <2>3
<1>4. ASSUME NEW id \in Ids, AfterRecvEnd(id) \/ AfterClientClose(id)
      PROVE  /\ lastid' = lastid
             /\ \A i \in Ids' : /\ i \in Ids /\ clients'[i] = clients[i]
                                /\ handle'[clients[i]] = "open" => handle[clients[i]] = "open"
  BY <1>1, <1>4 DEF AfterRecvEnd, CloseClient, AfterClientClose
<1>5. CASE \/ AsyncCloseCB \/ AfterServerClose \/ \E c \in recycling : RecycleTcpHandle(c)
  <2>1. lastid' = lastid /\ clients' = clients
    BY <1>5 DEF AsyncCloseCB, CloseInl, AfterServerClose, RecycleTcpHandle
  <2>2. \/ handle' = handle
        \/ handle' = [c \in Ctx |-> IF Open(handle[c]) THEN "closing" ELSE "none"]
        \/ \E c \in Ctx : handle' = [handle EXCEPT ![c] = "none"]
    BY <1>5 DEF AsyncCloseCB, CloseInl, AfterServerClose, RecycleTcpHandle, ReplyInv, CtxInv,
       CtxTypes
  <2>3. \A c \in Ctx : handle'[c] = "open" => handle[c] = "open"
    BY <1>1, <2>2
  <2> QED BY <1>1, <2>1, <2>3
<1>6. CASE \/ Start \/ StartOver \/ StartReturns \/ Close \/ UNCHANGED vars \/ Aside
           \/ \E k \in Runs : ThreadStep(k)
  <2>1. UNCHANGED clientVars
    BY <1>6 DEF Start, StartOver, StartReturns, Close, vars, Aside, ThreadStep, Begin,
       RunReturns, SetClosed, ResetAsked, TellClosed
  <2> QED BY <2>1 DEF clientVars
<1> QED BY <1>2, <1>3, <1>4, <1>5, <1>6 DEF Next, CloseCallback

LEMMA QuietReplies ==
    ASSUME ReplyInv, [SendNext]_sendVars, lost \subseteq lost',
           UNCHANGED <<buf, flight, answered, wire>>
    PROVE  RepliesInv'
<1>1. lastid \in Nat /\ RepliesInv /\ WriteTypes
  BY DEF ReplyInv, CtxInv, CtxTypes
<1>2. /\ lastid' \in {lastid, lastid + 1}
      /\ \A id \in Ids' :
             \/ /\ id \in Ids /\ clients'[id] = clients[id]
                /\ handle'[clients[id]] = "open" => handle[clients[id]] = "open"
             \/ /\ id = lastid + 1 /\ lastid' = lastid + 1
                /\ flight[clients'[id]] = <<>>
  BY StepBelow, ClientsStay
<1>3. Ids' \subseteq 1 .. lastid'
  <2> SUFFICES ASSUME NEW id \in Ids' PROVE id \in 1 .. lastid'
    OBVIOUS
  <2>1. id \in Ids \/ (id = lastid + 1 /\ lastid' = lastid + 1)
    BY <1>2
  <2>2. id \in Ids => id \in 1 .. lastid
    BY <1>1 DEF RepliesInv
  <2>3. lastid' = lastid \/ lastid' = lastid + 1
    BY <1>2
  <2> QED BY <1>1, <2>1, <2>2, <2>3
<1>4. ASSUME NEW j \in Clients
      PROVE  /\ lastid' < j => answered[j] = 0
             /\ Len(wire[j]) <= answered[j]
             /\ \A n \in DOMAIN wire[j] : wire[j][n] = Reply(j, n)
             /\ j \in Ids' /\ handle'[clients'[j]] = "open" /\ j \notin lost' =>
                 /\ Len(wire[j]) + Len(flight[clients'[j]]) = answered[j]
                 /\ \A i \in DOMAIN flight[clients'[j]] :
                        buf[flight[clients'[j]][i]] = Reply(j, Len(wire[j]) + i)
  <2>1. Len(wire[j]) <= answered[j] /\ \A n \in DOMAIN wire[j] : wire[j][n] = Reply(j, n)
    BY <1>1 DEF RepliesInv
  <2>2. lastid < j => answered[j] = 0
    BY <1>1 DEF RepliesInv
  <2>3. lastid' < j => answered[j] = 0
    <3>1. j \in Nat
      BY DEF Clients
    <3> QED BY <1>1, <1>2, <2>2, <3>1
  <2>4. CASE /\ j \in Ids /\ clients'[j] = clients[j]
             /\ handle'[clients[j]] = "open" => handle[clients[j]] = "open"
    <3>1. ASSUME handle[clients[j]] = "open", j \notin lost
          PROVE  /\ Len(wire[j]) + Len(flight[clients[j]]) = answered[j]
                 /\ \A i \in DOMAIN flight[clients[j]] :
                        buf[flight[clients[j]][i]] = Reply(j, Len(wire[j]) + i)
      BY <1>1, <2>4, <3>1 DEF RepliesInv
    <3> QED BY <2>1, <2>3, <2>4, <3>1
  <2>5. CASE j = lastid + 1 /\ flight[clients'[j]] = <<>>
    <3>1. answered[j] = 0 /\ Len(wire[j]) \in Nat
      BY <1>1, <2>2, <2>5, LenProperties DEF WriteTypes
    <3>2. Len(wire[j]) = 0
      BY <2>1, <3>1
    <3>3. Len(flight[clients'[j]]) = 0 /\ DOMAIN flight[clients'[j]] = {}
      BY <2>5
    <3> QED BY <2>1, <2>3, <3>1, <3>2, <3>3
  <2> QED BY <1>2, <2>1, <2>3, <2>4, <2>5
<1> QED BY <1>3, <1>4 DEF RepliesInv, Reply
LEMMA WritesKept ==
    ASSUME WriteTypes, ParamsApart, FewSent, lost' \subseteq Clients,
           UNCHANGED <<free, buf, flight, answered, wire>>
    PROVE  (WriteTypes /\ ParamsApart /\ FewSent)'
<1>1. WriteTypes'
  BY DEF WriteTypes
<1>2. FewSent'
  BY DEF FewSent, Accepted, InFlight, Reply
<1>3. ParamsApart'
  BY SMTT(30) DEF ParamsApart, NoRepeat, Items
<1> QED BY <1>1, <1>2, <1>3

LEMMA LocksStep == TypeOK /\ LockTypes /\ [SendNext]_sendVars => LockTypes'
<1> SUFFICES ASSUME TypeOK, LockTypes, [SendNext]_sendVars PROVE LockTypes'
  OBVIOUS
<1> USE DEF LockTypes
<1>1. CASE UNCHANGED lockVars
  BY <1>1 DEF lockVars
<1>2. CASE SetRecvCB
  <2>1. sets < MaxSets /\ sets' = sets + 1 /\ setter' = "waiting"
        /\ UNCHANGED <<mutex, found, callback>>
    BY <1>2 DEF SetRecvCB
  <2>2. sets \in 0 .. MaxSets /\ MaxSets \in Nat
    OBVIOUS
  <2>3. sets' \in 0 .. MaxSets
    BY <2>1, <2>2
  <2> QED BY <2>1, <2>3
<1>3. CASE SetRecvCBFinds
  <2>1. Ids \subseteq Clients
    BY DEF TypeOK, Clients
  <2> QED BY <1>3, <2>1 DEF SetRecvCBFinds
<1>4. CASE SetRecvCBSets
  BY <1>4 DEF SetRecvCBSets
<1>5. CASE CallbackSets
  BY <1>5 DEF CallbackSets
<1>6. CASE AcceptConnection
  BY <1>6 DEF AcceptConnection, NewConCB
<1>7. ASSUME NEW id \in Ids, SubClientClosed(id) PROVE LockTypes'
  BY <1>7 DEF SubClientClosed
<1>8. CASE \/ \E id \in Ids : GetPacket(id) \/ PeerGone(id)
           \/ Sent \/ AsyncClose \/ OtherLoopStep \/ OtherClosed \/ UserStep
           \/ \E k \in Runs : StartThread(k)
           \/ UNCHANGED sendVars
  <2>1. UNCHANGED lockVars
    BY <1>8 DEF GetPacket, PeerGone, Sent, AfterSend, AsyncClose, OtherLoopStep,
       OtherClosed, UserStep, StartThread, sendVars
  <2> QED BY <1>1, <2>1
<1> QED BY <1>2, <1>3, <1>4, <1>5, <1>6, <1>7, <1>8 DEF SendNext, HandleClosed, SetterStep

LEMMA ReplyStep == ReplyInv /\ [SendNext]_sendVars => ReplyInv'
<1> SUFFICES ASSUME ReplyInv, [SendNext]_sendVars PROVE ReplyInv'
  OBVIOUS
<1>1. (CtxInv /\ TypeOK)' /\ LiveInv' /\ LockTypes'
  BY LifeStep, LiveStep, LocksStep DEF ReplyInv
<1>2. ASSUME NEW id \in Ids, GetPacket(id) PROVE ReplyInv'
  BY <1>1, <1>2, GetPacketTypes, GetPacketApart, GetPacketFew, GetPacketReplies DEF ReplyInv
<1>3. ASSUME NEW id \in Ids, AfterSend(id) PROVE ReplyInv'
  BY <1>1, <1>3, AfterSendTypes, AfterSendApart, AfterSendFew, AfterSendReplies DEF ReplyInv
<1>4. CASE ~\E id \in Ids : GetPacket(id) \/ AfterSend(id)
  <2>1. /\ UNCHANGED <<free, buf, flight, answered, wire>>
        /\ lost' = lost \/ \E id \in Ids : lost' = lost \cup {id}
    BY <1>4 DEF SendNext, PeerGone, Sent, SetRecvCB, SetterStep, SetRecvCBFinds,
       SetRecvCBSets, CallbackSets, AcceptConnection, AsyncClose, OtherLoopStep,
       HandleClosed, SubClientClosed, OtherClosed, UserStep, StartThread, sendVars, writeVars
  <2>2. Ids \subseteq Clients /\ lost \subseteq Clients
    BY DEF ReplyInv, TypeOK, Clients, WriteTypes
  <2>3. lost \subseteq lost' /\ lost' \subseteq Clients
    BY <2>1, <2>2
  <2>4. RepliesInv'
    BY <2>1, <2>3, QuietReplies
  <2>5. (WriteTypes /\ ParamsApart /\ FewSent)'
    BY <2>1, <2>3, WritesKept DEF ReplyInv
  <2> QED BY <1>1, <2>4, <2>5 DEF ReplyInv
<1> QED BY <1>2, <1>3, <1>4

LEMMA InitReplies == SendInit => ReplyInv
<1> SUFFICES ASSUME SendInit PROVE ReplyInv
  OBVIOUS
<1>1. CtxInv /\ TypeOK
  BY InitCtx, InitTypes DEF SendInit
<1>2. /\ free = <<>> /\ free \in Seq(Params) /\ Len(free) = 0
      /\ flight = [c \in Ctx |-> <<>>] /\ flight \in [Ctx -> Seq(Params)]
      /\ answered = [id \in Clients |-> 0]
      /\ wire = [id \in Clients |-> <<>>]
      /\ wire \in [Clients -> Seq([to : Clients, nth : 1 .. MaxPackets])]
  BY EmptySeq DEF SendInit
<1>3. Ids = {} /\ {MaxList, MaxPackets, MaxSets} \subseteq Nat
  BY DEF SendInit, Init, Ids
<1>4. WriteTypes
  <2>1. buf \in [Params -> [to : Clients \cup {0}, nth : 0 .. MaxPackets]]
    <3>1. Reply(0, 0) \in [to : Clients \cup {0}, nth : 0 .. MaxPackets]
      BY <1>3 DEF Reply
    <3> QED BY <3>1 DEF SendInit
  <2>2. answered \in [Clients -> 0 .. MaxPackets] /\ Len(free) <= MaxList + 1
    BY <1>2, <1>3
  <2>3. lost \subseteq Clients
    BY DEF SendInit
  <2> QED BY <1>2, <2>1, <2>2, <2>3 DEF WriteTypes
<1>5. LockTypes
  BY <1>3 DEF SendInit, LockTypes
<1>6. ParamsApart
  BY <1>2 DEF ParamsApart, NoRepeat, Items
<1>7. FewSent
  <2>1. Accepted = {} /\ InFlight = {}
    BY <1>2 DEF Accepted, InFlight, Range
  <2>2. IsFiniteSet(Accepted) /\ Cardinality(Accepted) = 0 /\ Cardinality(InFlight) = 0
    BY <2>1, FS_EmptySet
  <2>3. \A id \in Clients : answered[id] = 0
    BY <1>2
  <2> QED BY <2>2, <2>3 DEF FewSent
<1>8. RepliesInv
  <2>1. \A id \in Clients : /\ answered[id] = 0 /\ Len(wire[id]) = 0
                            /\ DOMAIN wire[id] = {}
    BY <1>2
  <2> QED BY <1>3, <2>1 DEF RepliesInv
<1>9. LiveInv
  BY <1>2 DEF LiveInv, RequestsLive
<1> QED BY <1>1, <1>4, <1>5, <1>6, <1>7, <1>8, <1>9 DEF ReplyInv

(* What RepliesSound says in whole sequences. *)
LEMMA InvSound == ReplyInv => RepliesSound
<1> SUFFICES ASSUME ReplyInv, NEW id \in Clients
             PROVE  /\ IsPrefix(wire[id], Replies(id))
                    /\ id \in Ids /\ handle[clients[id]] = "open" /\ id \notin lost
                           => LET pending == flight[clients[id]]
                              IN  wire[id] \o [i \in DOMAIN pending |-> buf[pending[i]]]
                                      = Replies(id)
  BY DEF RepliesSound
<1> DEFINE w == wire[id]  n == answered[id]  q == Replies(id)
           R == [to : Clients, nth : Nat]
<1>1. n \in Nat /\ w \in Seq(R) /\ WriteTypes /\ RepliesInv
  <2>1. WriteTypes /\ RepliesInv
    BY DEF ReplyInv
  <2>2. n \in Nat /\ w \in Seq([to : Clients, nth : 1 .. MaxPackets])
    <3>1. answered[id] \in 0 .. MaxPackets /\ MaxPackets \in Nat
      BY <2>1 DEF WriteTypes
    <3>2. wire[id] \in Seq([to : Clients, nth : 1 .. MaxPackets])
      BY <2>1 DEF WriteTypes
    <3> QED BY <3>1, <3>2
  <2>3. [to : Clients, nth : 1 .. MaxPackets] \subseteq R
    OBVIOUS
  <2> HIDE DEF w, R
  <2>4. w \in Seq(R)
    BY <2>2, <2>3, SeqMonotonic
  <2> QED BY <2>1, <2>2, <2>4
<1>2. Len(w) <= n /\ \A i \in DOMAIN w : w[i] = Reply(id, i)
  BY <1>1 DEF RepliesInv
<1>3. q = [i \in 1 .. n |-> Reply(id, i)]
  BY DEF Replies
<1>4. /\ q \in Seq(R) /\ Len(q) = n
      /\ \A i \in 1 .. n : q[i] = Reply(id, i)
  <2>1. \A i \in 1 .. n : Reply(id, i) \in R
    BY <1>1 DEF Reply
  <2> HIDE DEF n, q, R
  <2>2. q \in [1 .. n -> R] /\ \A i \in 1 .. n : q[i] = Reply(id, i)
    BY <1>3, <2>1
  <2> QED BY <1>1, <2>2, FunctionIsSeq
<1>5. Len(w) \in Nat /\ DOMAIN w = 1 .. Len(w)
  BY <1>1, LenProperties
<1>6. IsPrefix(w, q)
  <2> HIDE DEF w, q, n, R
  <2> DEFINE u == SubSeq(w, 1, Len(w))  v == SubSeq(q, 1, Len(w))
  <2>1. u = w
    BY <1>1, SubSeqFull
  <2>2. Len(w) <= Len(q) /\ 1 \in 1 .. Len(q) + 1 /\ Len(w) \in 0 .. Len(q)
    BY <1>1, <1>2, <1>4, <1>5
  <2>3. /\ v \in Seq(R) /\ Len(v) = Len(w)
        /\ \A i \in 1 .. Len(w) : v[i] = q[i]
    <3>1. \A i \in 1 .. Len(w) : q[i] \in R
      BY <1>4, <2>2, ElementOfSeq
    <3>2. /\ v \in Seq(R) /\ Len(v) = IF 1 <= Len(w) THEN Len(w) - 1 + 1 ELSE 0
          /\ \A i \in 1 .. Len(w) - 1 + 1 : v[i] = q[1 + i - 1]
      BY <1>5, <3>1, SubSeqProperties
    <3> HIDE DEF v
    <3>3. Len(v) = Len(w)
      BY <1>5, <3>2
    <3>4. \A i \in 1 .. Len(w) : v[i] = q[i]
      <4> SUFFICES ASSUME NEW i \in 1 .. Len(w) PROVE v[i] = q[i]
        OBVIOUS
      <4>1. i \in 1 .. Len(w) - 1 + 1 /\ 1 + i - 1 = i
        BY <1>5
      <4> QED BY <3>2, <4>1
    <3> QED BY <3>2, <3>3, <3>4
  <2>4. \A i \in 1 .. Len(w) : w[i] = q[i]
    <3> SUFFICES ASSUME NEW i \in 1 .. Len(w) PROVE w[i] = q[i]
      OBVIOUS
    <3>1. i \in DOMAIN w /\ i \in 1 .. n
      BY <1>1, <1>2, <1>5
    <3> QED BY <1>2, <1>4, <3>1
  <2>5. w = v
    BY <1>1, <1>5, <2>3, <2>4, SeqEqual
  <2> QED BY <2>1, <2>2, <2>5 DEF IsPrefix
<1>7. ASSUME id \in Ids, handle[clients[id]] = "open", id \notin lost
      PROVE  w \o [i \in DOMAIN flight[clients[id]] |-> buf[flight[clients[id]][i]]] = q
  <2> DEFINE f == flight[clients[id]]  g == [i \in DOMAIN f |-> buf[f[i]]]  a == Len(w)  k == Len(f)
  <2>1. clients[id] \in Ctx
    BY <1>7 DEF ReplyInv, CtxInv, CtxTypes
  <2>2. f \in Seq(Params) /\ k \in Nat /\ DOMAIN f = 1 .. k
    BY <1>1, <2>1, LenProperties DEF WriteTypes
  <2>3. a + k = n /\ a \in Nat
    BY <1>1, <1>5, <1>7 DEF RepliesInv
  <2>4. \A i \in 1 .. k : g[i] = Reply(id, a + i)
    BY ZenonT(40), <1>1, <1>7, <2>2 DEF RepliesInv
  <2>5. g \in Seq(R) /\ Len(g) = k
    <3>1. g = [i \in 1 .. k |-> g[i]]
      BY <2>2
    <3> HIDE DEF g, k, a, n, f
    <3>2. \A i \in 1 .. k : g[i] \in R
      <4>1. \A i \in 1 .. k : a + i \in Nat
        BY <2>2, <2>3
      <4>2. \A i \in 1 .. k : Reply(id, a + i) \in R
        BY <4>1 DEF Reply
      <4> HIDE DEF R
      <4> QED BY <2>4, <4>2
    <3> HIDE DEF R
    <3>3. g \in [1 .. k -> R]
      BY <3>1, <3>2
    <3> QED BY <2>2, <3>3, FunctionIsSeq
  <2> HIDE DEF f, g, a, k, w, q, n, R
  <2>6. /\ w \o g \in Seq(R) /\ Len(w \o g) = n
        /\ \A i \in 1 .. n : (w \o g)[i] = IF i <= a THEN w[i] ELSE g[i - a]
    BY <1>1, <2>3, <2>5, ConcatProperties DEF a
  <2>7. \A i \in 1 .. n : (w \o g)[i] = q[i]
    <3> SUFFICES ASSUME NEW i \in 1 .. n PROVE (w \o g)[i] = q[i]
      OBVIOUS
    <3>1. CASE i <= a
      <4>1. i \in DOMAIN w
        BY <1>5, <2>3, <3>1 DEF a
      <4> QED BY <1>2, <1>4, <2>6, <3>1, <4>1
    <3>2. CASE ~(i <= a)
      <4>1. i - a \in 1 .. k /\ a + (i - a) = i
        BY <1>1, <2>2, <2>3, <3>2
      <4> QED BY <1>4, <2>4, <2>6, <3>2, <4>1
    <3> QED BY <3>1, <3>2
  <2>8. w \o g = q
    BY <1>1, <1>4, <2>6, <2>7, SeqEqual
  <2> QED BY <2>8 DEF w, g, f, q
<1> QED BY <1>6, <1>7

LEMMA InvTypes == ReplyInv => SendTypeOK
<1> SUFFICES ASSUME ReplyInv PROVE SendTypeOK
  OBVIOUS
<1>1. TypeOK /\ WriteTypes /\ LockTypes
  BY DEF ReplyInv
<1>2. /\ \A c \in Ctx : flight[c] \in Seq(Params)
      /\ \A id \in Clients : wire[id] \in Seq([to : Clients, nth : 1 .. MaxPackets])
  BY <1>1 DEF WriteTypes
<1> QED BY <1>1, <1>2 DEF WriteTypes, LockTypes, SendTypeOK

(* Every variable of a server that answers keeps its type: among others,   *)
(* its list of spare params never outgrows MAXLISTSIZE by more than one,   *)
(* and a buffer that libuv is given holds a reply to some client.          *)
THEOREM ServerSendTypesHold == SendSpec => []SendTypeOK
BY InitReplies, ReplyStep, InvTypes, PTL DEF SendSpec

(* A client's socket takes the replies to this client's packets only, in   *)
(* their order and each once, however contexts and params go from one      *)
(* connection to the next; while it is open the rest is on its way.        *)
THEOREM RepliesNeverMixed == SendSpec => []RepliesSound
BY InitReplies, ReplyStep, InvSound, PTL DEF SendSpec
=============================================================================

------------------------ MODULE CircularBufferProofs ------------------------
(***************************************************************************)
(* Theorems about PodCircularBuffer, for every capacity, element type and  *)
(* set of calls.  The inductive invariant is Inv: the types (both          *)
(* positions inside the array) and the agreement of the flags with the     *)
(* positions, without which no branch of write or read can be trusted.     *)
(***************************************************************************)
EXTENDS CircularBuffer, SequenceTheorems, TLAPS

Inv == TypeOK /\ FlagsAgree

-----------------------------------------------------------------------------
(* The shape of the data that memcpy produces. *)
LEMMA CopiedType ==
    ASSUME NEW mem \in [Slots -> Elem], NEW at \in Nat, NEW data \in Seq(Elem),
           NEW from \in Nat, NEW n \in Nat, from + n <= Len(data)
    PROVE  Copied(mem, at, data, from, n) \in [Slots -> Elem]
<1> DEFINE val(j) == IF at <= j /\ j < at + n THEN data[from + 1 + (j - at)]
                                              ELSE mem[j]
<1>1. DOMAIN mem = Slots
  OBVIOUS
<1>2. ASSUME NEW j \in Slots PROVE val(j) \in Elem
  <2>1. CASE at <= j /\ j < at + n
    <3>1. from + 1 + (j - at) \in 1 .. Len(data)
      BY <2>1, CapacityAssumption DEF Slots
    <3> QED BY <2>1, <3>1, ElementOfSeq
  <2>2. CASE ~ (at <= j /\ j < at + n)
    BY <2>2
  <2> QED BY <2>1, <2>2
<1> HIDE DEF val
<1>3. [j \in Slots |-> val(j)] \in [Slots -> Elem]
  BY <1>2
<1> QED BY <1>1, <1>3 DEF Copied, val

(* A run of slots that stays inside the array holds elements. *)
LEMMA TakenType ==
    ASSUME NEW mem \in [Slots -> Elem], NEW at \in Slots, NEW n \in Nat,
           at + n <= Capacity
    PROVE  /\ Taken(mem, at, n) \in Seq(Elem)
           /\ Len(Taken(mem, at, n)) = n
           /\ \A i \in 1 .. n : Taken(mem, at, n)[i] = mem[at + i - 1]
<1>1. \A i \in 1 .. n : at + i - 1 \in Slots
  BY CapacityAssumption DEF Slots
<1>2. \A i \in 1 .. n : mem[at + i - 1] \in Elem
  BY <1>1
<1> QED BY <1>2, IsASeq DEF Taken

(* Positions around the ring are positions of the array. *)
LEMMA SlotType ==
    ASSUME NEW p \in Nat, p < 2 * Capacity
    PROVE  Slot(p) \in Slots
BY CapacityAssumption DEF Slot, Slots

(* What Ring lists is a sequence of elements of the given length. *)
LEMMA RingType ==
    ASSUME NEW mem \in [Slots -> Elem], NEW at \in Slots,
           NEW n \in Nat, n <= Capacity
    PROVE  /\ Ring(mem, at, n) \in Seq(Elem)
           /\ Len(Ring(mem, at, n)) = n
           /\ \A i \in 1 .. n : Ring(mem, at, n)[i] = mem[Slot(at + i - 1)]
<1>1. \A i \in 1 .. n : at + i - 1 \in Nat /\ at + i - 1 < 2 * Capacity
  BY CapacityAssumption DEF Slots
<1>2. \A i \in 1 .. n : mem[Slot(at + i - 1)] \in Elem
  BY <1>1, SlotType
<1> QED BY <1>2, IsASeq DEF Ring

(* Two runs, one up to the end of the array and one from its beginning,    *)
(* are one run around the ring.                                            *)
LEMMA TakenAround ==
    ASSUME NEW mem \in [Slots -> Elem], NEW at \in Slots, NEW n \in Nat, n <= at
    PROVE  Taken(mem, at, Capacity - at) \o Taken(mem, 0, n)
             = Ring(mem, at, Capacity - at + n)
<1> DEFINE left == Capacity - at
           s1 == Taken(mem, at, left)
           s2 == Taken(mem, 0, n)
           cat == s1 \o s2
           res == Ring(mem, at, left + n)
<1> USE CapacityAssumption
<1>0. /\ left \in Nat /\ at + left <= Capacity /\ left + n \in Nat
      /\ left + n <= Capacity /\ 0 \in Slots /\ 0 + n <= Capacity /\ at \in Nat
  BY DEF Slots
<1>1. /\ s1 \in Seq(Elem) /\ Len(s1) = left
      /\ \A i \in 1 .. left : s1[i] = mem[at + i - 1]
  BY <1>0, TakenType
<1>2. /\ s2 \in Seq(Elem) /\ Len(s2) = n
      /\ \A i \in 1 .. n : s2[i] = mem[0 + i - 1]
  BY <1>0, TakenType
<1>3. /\ res \in Seq(Elem) /\ Len(res) = left + n
      /\ \A i \in 1 .. left + n : res[i] = mem[Slot(at + i - 1)]
  BY <1>0, RingType
<1> HIDE DEF s1, s2, res
<1>4. /\ cat \in Seq(Elem) /\ Len(cat) = Len(s1) + Len(s2)
      /\ \A i \in 1 .. Len(s1) + Len(s2) :
            cat[i] = IF i <= Len(s1) THEN s1[i] ELSE s2[i - Len(s1)]
  BY <1>1, <1>2, ConcatProperties
<1> HIDE DEF cat, left
<1>5. ASSUME NEW i \in 1 .. left + n PROVE cat[i] = res[i]
  <2>0. cat[i] = IF i <= left THEN s1[i] ELSE s2[i - left]
    BY <1>1, <1>2, <1>4
  <2>1. res[i] = mem[Slot(at + i - 1)]
    BY <1>3
  <2>2. CASE i <= left
    <3>1. i \in 1 .. left /\ Slot(at + i - 1) = at + i - 1
      BY <1>0, <2>2 DEF Slot, left
    <3> QED BY <1>1, <2>0, <2>1, <2>2, <3>1
  <2>3. CASE i > left
    <3>1. i - left \in 1 .. n /\ Slot(at + i - 1) = 0 + (i - left) - 1
      BY <1>0, <2>3 DEF Slot, left
    <3>2. cat[i] = s2[i - left]
      BY <1>0, <2>0, <2>3
    <3>3. s2[i - left] = mem[0 + (i - left) - 1]
      BY <1>2, <3>1
    <3> QED BY <2>1, <3>1, <3>2, <3>3
  <2> QED BY <1>0, <2>2, <2>3
<1>6. cat = res
  BY <1>1, <1>2, <1>3, <1>4, <1>5, SeqEqual
<1> QED BY <1>6 DEF cat, res, s1, s2, left

(* The k slots behind the n held take the data; those held stay. *)
Appended(mem, new, at, n, k, data) ==
    /\ mem \in [Slots -> Elem] /\ new \in [Slots -> Elem] /\ at \in Slots
    /\ n \in Nat /\ k \in Nat /\ n + k <= Capacity
    /\ data \in Seq(Elem) /\ k <= Len(data)
    /\ \A i \in 0 .. n - 1 : new[Slot(at + i)] = mem[Slot(at + i)]
    /\ \A i \in 0 .. k - 1 : new[Slot(at + n + i)] = data[i + 1]

(* What the queue holds after a write that keeps k elements of data. *)
Extended(s, data, k) == s \o SubSeq(data, 1, k)

(* Storing k elements behind the n held appends them to what is held. *)
LEMMA RingAppend ==
    ASSUME NEW mem, NEW new, NEW at, NEW n, NEW k, NEW data,
           Appended(mem, new, at, n, k, data)
    PROVE  Ring(new, at, n + k) = Extended(Ring(mem, at, n), data, k)
<1> DEFINE old == Ring(mem, at, n)
           ext == SubSeq(data, 1, k)
           res == Ring(new, at, n + k)
<1>0. /\ mem \in [Slots -> Elem] /\ new \in [Slots -> Elem] /\ at \in Slots
      /\ n \in Nat /\ k \in Nat /\ n + k <= Capacity
      /\ data \in Seq(Elem) /\ k <= Len(data)
  BY DEF Appended
<1>1. /\ old \in Seq(Elem) /\ Len(old) = n
      /\ \A i \in 1 .. n : old[i] = mem[Slot(at + i - 1)]
  BY SMTT(30), <1>0, RingType, CapacityAssumption
<1>2. /\ res \in Seq(Elem) /\ Len(res) = n + k
      /\ \A i \in 1 .. n + k : res[i] = new[Slot(at + i - 1)]
  <2>1. n + k \in Nat /\ n + k <= Capacity
    BY <1>0
  <2> QED BY <1>0, <2>1, RingType
<1>3. /\ ext \in Seq(Elem) /\ Len(ext) = k
      /\ \A i \in 1 .. k : ext[i] = data[i]
  BY <1>0, SubSeqProperties, LenProperties
<1> HIDE DEF old, ext, res
<1> DEFINE cat == old \o ext
<1>4. /\ cat \in Seq(Elem) /\ Len(cat) = Len(old) + Len(ext)
      /\ \A i \in 1 .. Len(old) + Len(ext) :
            cat[i] = IF i <= Len(old) THEN old[i] ELSE ext[i - Len(old)]
  BY <1>1, <1>3, ConcatProperties
<1> HIDE DEF cat
<1>5. ASSUME NEW i \in 1 .. n + k PROVE res[i] = cat[i]
  <2>0. cat[i] = IF i <= n THEN old[i] ELSE ext[i - n]
    BY <1>0, <1>1, <1>3, <1>4
  <2>1. CASE i <= n
    <3>1. i - 1 \in 0 .. n - 1 /\ at + (i - 1) = at + i - 1 /\ i \in 1 .. n
      BY <1>0, <2>1 DEF Slots
    <3>2. new[Slot(at + i - 1)] = mem[Slot(at + i - 1)]
      BY <1>0, <3>1 DEF Appended
    <3> QED BY <1>0, <1>1, <1>2, <2>0, <2>1, <3>1, <3>2
  <2>2. CASE i > n
    <3>1. /\ i - n - 1 \in 0 .. k - 1 /\ i - n \in 1 .. k
          /\ at + n + (i - n - 1) = at + i - 1 /\ i - n - 1 + 1 = i - n
      BY <1>0, <2>2 DEF Slots
    <3>2. new[Slot(at + i - 1)] = data[i - n]
      BY <1>0, <3>1 DEF Appended
    <3>3. cat[i] = ext[i - n]
      BY <1>0, <2>0, <2>2
    <3>4. ext[i - n] = data[i - n]
      BY <1>3, <3>1
    <3>5. res[i] = new[Slot(at + i - 1)]
      BY <1>2
    <3> QED BY <3>2, <3>3, <3>4, <3>5
  <2> QED BY <1>0, <2>1, <2>2
<1>6. res = cat
  BY <1>0, <1>1, <1>2, <1>3, <1>4, <1>5, SeqEqual
<1> QED BY <1>6 DEF old, ext, res, cat, Extended

(* Reading k of the n elements held splits them where the reading stops. *)
LEMMA RingSplit ==
    ASSUME NEW mem \in [Slots -> Elem], NEW at \in Slots,
           NEW n \in Nat, n <= Capacity, NEW k \in Nat, k <= n
    PROVE  /\ SubSeq(Ring(mem, at, n), 1, k) = Ring(mem, at, k)
           /\ SubSeq(Ring(mem, at, n), k + 1, n) = Ring(mem, Slot(at + k), n - k)
<1> DEFINE all  == Ring(mem, at, n)
           head == SubSeq(all, 1, k)
           tail == SubSeq(all, k + 1, n)
           next == Slot(at + k)
<1>1. /\ all \in Seq(Elem) /\ Len(all) = n
      /\ \A i \in 1 .. n : all[i] = mem[Slot(at + i - 1)]
  BY RingType
<1>2. /\ head \in Seq(Elem) /\ Len(head) = k
      /\ \A i \in 1 .. k : head[i] = all[i]
  BY <1>1, SubSeqProperties
<1>3. /\ tail \in Seq(Elem) /\ Len(tail) = n - k
      /\ \A i \in 1 .. n - k : tail[i] = all[k + i]
  <2>1. CASE k = n
    BY <1>1, <2>1, SubSeqProperties
  <2>2. CASE k < n
    BY <1>1, <2>2, SubSeqProperties
  <2> QED BY <2>1, <2>2
<1>4. next \in Slots
  BY CapacityAssumption DEF Slot, Slots
<1>5. /\ Ring(mem, at, k) \in Seq(Elem) /\ Len(Ring(mem, at, k)) = k
      /\ \A i \in 1 .. k : Ring(mem, at, k)[i] = mem[Slot(at + i - 1)]
  <2>1. k <= Capacity
    BY CapacityAssumption
  <2> QED BY <2>1, RingType
<1>6. /\ Ring(mem, next, n - k) \in Seq(Elem) /\ Len(Ring(mem, next, n - k)) = n - k
      /\ \A i \in 1 .. n - k : Ring(mem, next, n - k)[i] = mem[Slot(next + i - 1)]
  <2>1. n - k \in Nat /\ n - k <= Capacity
    BY CapacityAssumption
  <2> QED BY <1>4, <2>1, RingType
<1>7. \A i \in 1 .. n - k : Slot(next + i - 1) = Slot(at + (k + i) - 1)
  BY CapacityAssumption DEF Slot, Slots
<1> HIDE DEF all, head, tail, next
<1>8. head = Ring(mem, at, k)
  <2>1. \A i \in 1 .. k : i \in 1 .. n
    OBVIOUS
  <2>2. \A i \in 1 .. Len(head) : head[i] = Ring(mem, at, k)[i]
    BY <1>1, <1>2, <1>5, <2>1
  <2> QED BY <1>2, <1>5, <2>2, SeqEqual
<1>9. tail = Ring(mem, next, n - k)
  <2>1. \A i \in 1 .. n - k : k + i \in 1 .. n
    OBVIOUS
  <2>2. \A i \in 1 .. Len(tail) : tail[i] = Ring(mem, next, n - k)[i]
    <3> TAKE i \in 1 .. Len(tail)
    <3>1. i \in 1 .. n - k
      BY <1>3
    <3>2. k + i \in 1 .. n /\ tail[i] = all[k + i]
      BY <1>3, <2>1, <3>1
    <3>3. all[k + i] = mem[Slot(at + (k + i) - 1)]
      BY <1>1, <3>2
    <3>4. Ring(mem, next, n - k)[i] = mem[Slot(next + i - 1)]
      BY <1>6, <3>1
    <3>5. Slot(next + i - 1) = Slot(at + (k + i) - 1)
      BY <1>7, <3>1
    <3> QED BY <3>2, <3>3, <3>4, <3>5
  <2> QED BY <1>3, <1>6, <2>2, SeqEqual
<1> QED BY <1>8, <1>9 DEF all, head, tail, next

-----------------------------------------------------------------------------
(* What every branch of write comes to: k elements of data stored behind   *)
(* those held, which stay where they are.                                  *)
Stores(data, k) ==
    /\ accepted' = k
    /\ taken' = <<>>
    /\ readPos' = readPos
    /\ Size' = Size + k
    /\ \A i \in 0 .. Size - 1 : pBuf'[Slot(readPos + i)] = pBuf[Slot(readPos + i)]
    /\ \A i \in 0 .. k - 1 : pBuf'[Slot(readPos + Size + i)] = data[i + 1]

(* What every branch of read comes to: the k oldest elements handed out.   *)
Drains(k) ==
    /\ accepted' = 0
    /\ taken' = Ring(pBuf, readPos, k)
    /\ pBuf' = pBuf
    /\ readPos' = Slot(readPos + k)
    /\ Size' = Size - k

LEMMA EmptyIsSeq == <<>> \in Seq(Elem)
OBVIOUS

(* size() never exceeds the capacity. *)
LEMMA SizeType == ASSUME Inv PROVE Size \in 0 .. Capacity
BY CapacityAssumption DEF Inv, TypeOK, FlagsAgree, Size, Slots

LEMMA WriteWhenEmptyStores ==
    ASSUME Inv, NEW data \in Seq(Elem), NEW count \in Int, count <= Len(data),
           WriteWhenEmpty(data, count)
    PROVE  Inv' /\ Stores(data, Fifo!Least(count, Capacity - Size))
<1> DEFINE left == Capacity - writePos
           over == IF readPos > count - left THEN count - left ELSE writePos
           first == Copied(pBuf, writePos, data, 0, left)
<1> USE CapacityAssumption
<1>0. /\ count \in Nat /\ left \in Nat /\ writePos \in Nat /\ readPos \in Nat
      /\ writePos < Capacity /\ readPos = writePos /\ empty = TRUE /\ full = FALSE
      /\ Size = 0 /\ pBuf \in [Slots -> Elem] /\ Len(data) \in Nat
  BY LenProperties DEF Inv, TypeOK, FlagsAgree, WriteWhenEmpty, Slots, Size
<1>1. CASE left > count
  <2>1. /\ pBuf' = Copied(pBuf, writePos, data, 0, count)
        /\ writePos' = writePos + count /\ accepted' = count
        /\ full' = FALSE /\ empty' = FALSE /\ readPos' = readPos /\ taken' = <<>>
    <3>1. /\ pBuf' = Copied(pBuf, writePos, data, 0, count)
          /\ writePos' = writePos + count /\ accepted' = count /\ full' = full
      BY <1>0, <1>1 DEF WriteWhenEmpty
    <3>2. empty' = FALSE /\ readPos' = readPos /\ taken' = <<>>
      BY DEF WriteWhenEmpty
    <3> QED BY <1>0, <3>1, <3>2
  <2>2. pBuf' \in [Slots -> Elem]
    <3>1. 0 \in Nat /\ 0 + count <= Len(data)
      OBVIOUS
    <3> QED BY <1>0, <2>1, <3>1, CopiedType
  <2>3. \A i \in 0 .. count - 1 : pBuf'[Slot(readPos + i)] = data[i + 1]
    BY <1>0, <1>1, <2>1 DEF Copied, Slots, Slot
  <2>4. Size' = count /\ writePos' \in Slots /\ count > 0
    BY <1>0, <1>1, <2>1 DEF Size, Slots, WriteWhenEmpty
  <2>5. Inv'
    <3>1. readPos' \in Slots /\ accepted' \in 0 .. Capacity
      BY <1>0, <1>1, <2>1, <2>2, <2>4 DEF Inv, TypeOK, Slots
    <3>2. taken' \in Seq(Elem)
      BY <1>0, <1>1, <2>1, <2>2, <2>4, EmptyIsSeq
    <3>3. FlagsAgree'
      BY <1>0, <1>1, <2>1, <2>2, <2>4 DEF FlagsAgree, Slots
    <3> QED BY <1>0, <1>1, <2>1, <2>2, <2>4, <3>1, <3>2, <3>3 DEF Inv, TypeOK
  <2>6. Fifo!Least(count, Capacity - Size) = count
    BY <1>0, <1>1 DEF Fifo!Least
  <2> QED BY <1>0, <2>1, <2>3, <2>4, <2>5, <2>6 DEF Stores
<1>2. CASE left <= count
  <2>1. /\ pBuf' = Copied(first, 0, data, left, over)
        /\ writePos' = over /\ accepted' = left + over
        /\ full' \in BOOLEAN /\ (full' <=> over = readPos) /\ empty' = FALSE
        /\ readPos' = readPos /\ taken' = <<>>
    <3>1. /\ pBuf' = Copied(first, 0, data, left, over)
          /\ writePos' = over /\ accepted' = left + over
          /\ full' = (over = readPos) /\ empty' = FALSE
          /\ readPos' = readPos /\ taken' = <<>>
      BY <1>0, <1>2 DEF WriteWhenEmpty
    <3> QED BY <3>1, Zenon
  <2>2. /\ over \in Nat /\ over <= readPos /\ left + over <= count
        /\ left + over = Fifo!Least(count, Capacity - Size)
    BY <1>0, <1>2 DEF Fifo!Least
  <2> HIDE DEF over
  <2>3. first \in [Slots -> Elem]
    BY <1>0, <1>2, CopiedType
  <2>4. pBuf' \in [Slots -> Elem]
    BY <1>0, <2>1, <2>2, <2>3, CopiedType
  <2>5. \A i \in 0 .. left + over - 1 : pBuf'[Slot(readPos + i)] = data[i + 1]
    BY <1>0, <1>2, <2>1, <2>2 DEF Copied, Slots, Slot
  <2>6. Size' = left + over /\ writePos' \in Slots
    BY <1>0, <1>2, <2>1, <2>2 DEF Size, Slots
  <2>7. Inv'
    <3>1. readPos' \in Slots /\ accepted' \in 0 .. Capacity
      BY <1>0, <1>2, <2>1, <2>2, <2>4, <2>6 DEF Inv, TypeOK, Slots
    <3>2. taken' \in Seq(Elem)
      BY <1>0, <1>2, <2>1, <2>2, <2>4, <2>6, EmptyIsSeq
    <3>3. FlagsAgree'
      BY <1>0, <1>2, <2>1, <2>2, <2>4, <2>6 DEF FlagsAgree, Slots
    <3> QED BY <1>0, <1>2, <2>1, <2>2, <2>4, <2>6, <3>1, <3>2, <3>3 DEF Inv, TypeOK
  <2> QED BY <1>0, <2>1, <2>2, <2>5, <2>6, <2>7 DEF Stores
<1> QED BY <1>0, <1>1, <1>2

LEMMA WriteAheadStores ==
    ASSUME Inv, NEW data \in Seq(Elem), NEW count \in Int, count <= Len(data),
           WriteAhead(data, count)
    PROVE  Inv' /\ Stores(data, Fifo!Least(count, Capacity - Size))
<1> DEFINE left == Capacity - writePos
           over == IF readPos >= count - left THEN count - left ELSE readPos
           first == Copied(pBuf, writePos, data, 0, left)
<1> USE CapacityAssumption
<1>0. /\ count \in Nat /\ left \in Nat /\ writePos \in Nat /\ readPos \in Nat
      /\ writePos < Capacity /\ readPos < writePos /\ empty = FALSE /\ full = FALSE
      /\ Size = writePos - readPos /\ pBuf \in [Slots -> Elem] /\ Len(data) \in Nat
  BY LenProperties DEF Inv, TypeOK, FlagsAgree, WriteAhead, Slots, Size
<1>1. CASE left > count
  <2>1. /\ pBuf' = Copied(pBuf, writePos, data, 0, count)
        /\ writePos' = writePos + count /\ accepted' = count
        /\ full' \in BOOLEAN /\ (full' <=> readPos = writePos') /\ empty' = FALSE
        /\ readPos' = readPos /\ taken' = <<>>
    <3>1. /\ pBuf' = Copied(pBuf, writePos, data, 0, count)
          /\ writePos' = writePos + count /\ accepted' = count
          /\ full' = (readPos = writePos') /\ empty' = FALSE
          /\ readPos' = readPos /\ taken' = <<>>
      BY <1>0, <1>1 DEF WriteAhead
    <3> QED BY <3>1, Zenon
  <2>2. pBuf' \in [Slots -> Elem]
    <3>1. 0 \in Nat /\ 0 + count <= Len(data)
      OBVIOUS
    <3> QED BY <1>0, <2>1, <3>1, CopiedType
  <2>3. /\ \A i \in 0 .. count - 1 : pBuf'[Slot(readPos + Size + i)] = data[i + 1]
        /\ \A i \in 0 .. Size - 1 : pBuf'[Slot(readPos + i)] = pBuf[Slot(readPos + i)]
    BY <1>0, <1>1, <2>1 DEF Copied, Slots, Slot
  <2>4. Size' = Size + count /\ writePos' \in Slots
    BY <1>0, <1>1, <2>1 DEF Size, Slots
  <2>5. Inv'
    <3>1. readPos' \in Slots /\ accepted' \in 0 .. Capacity
      BY <1>0, <1>1, <2>1, <2>2, <2>4 DEF Inv, TypeOK, Slots
    <3>2. taken' \in Seq(Elem)
      BY <1>0, <1>1, <2>1, <2>2, <2>4, EmptyIsSeq
    <3>3. FlagsAgree'
      BY <1>0, <1>1, <2>1, <2>2, <2>4 DEF FlagsAgree, Slots
    <3> QED BY <1>0, <1>1, <2>1, <2>2, <2>4, <3>1, <3>2, <3>3 DEF Inv, TypeOK
  <2>6. Fifo!Least(count, Capacity - Size) = count
    BY <1>0, <1>1 DEF Fifo!Least
  <2> QED BY <1>0, <2>1, <2>3, <2>4, <2>5, <2>6 DEF Stores
<1>2. CASE left <= count
  <2>1. /\ pBuf' = Copied(first, 0, data, left, over)
        /\ writePos' = over /\ accepted' = left + over
        /\ full' \in BOOLEAN /\ (full' <=> readPos = writePos') /\ empty' = FALSE
        /\ readPos' = readPos /\ taken' = <<>>
    <3>1. /\ pBuf' = Copied(first, 0, data, left, over)
          /\ writePos' = over /\ accepted' = left + over
          /\ full' = (readPos = writePos') /\ empty' = FALSE
          /\ readPos' = readPos /\ taken' = <<>>
      BY <1>0, <1>2 DEF WriteAhead
    <3> QED BY <3>1, Zenon
  <2>2. /\ over \in Nat /\ over <= readPos /\ left + over <= count
        /\ left + over = Fifo!Least(count, Capacity - Size)
    BY <1>0, <1>2 DEF Fifo!Least
  <2> HIDE DEF over
  <2>3. first \in [Slots -> Elem]
    BY <1>0, <1>2, CopiedType
  <2>4. pBuf' \in [Slots -> Elem]
    BY <1>0, <2>1, <2>2, <2>3, CopiedType
  <2>5. /\ \A i \in 0 .. left + over - 1 : pBuf'[Slot(readPos + Size + i)] = data[i + 1]
        /\ \A i \in 0 .. Size - 1 : pBuf'[Slot(readPos + i)] = pBuf[Slot(readPos + i)]
    BY <1>0, <1>2, <2>1, <2>2 DEF Copied, Slots, Slot
  <2>6. Size' = Size + left + over /\ writePos' \in Slots
    BY <1>0, <1>2, <2>1, <2>2 DEF Size, Slots
  <2>7. Inv'
    <3>1. readPos' \in Slots /\ accepted' \in 0 .. Capacity
      BY <1>0, <1>2, <2>1, <2>2, <2>4, <2>6 DEF Inv, TypeOK, Slots
    <3>2. taken' \in Seq(Elem)
      BY <1>0, <1>2, <2>1, <2>2, <2>4, <2>6, EmptyIsSeq
    <3>3. FlagsAgree'
      BY <1>0, <1>2, <2>1, <2>2, <2>4, <2>6 DEF FlagsAgree, Slots
    <3> QED BY <1>0, <1>2, <2>1, <2>2, <2>4, <2>6, <3>1, <3>2, <3>3 DEF Inv, TypeOK
  <2> QED BY <1>0, <2>1, <2>2, <2>5, <2>6, <2>7 DEF Stores
<1> QED BY <1>0, <1>1, <1>2

LEMMA WriteBehindStores ==
    ASSUME Inv, NEW data \in Seq(Elem), NEW count \in Int, count <= Len(data),
           WriteBehind(data, count)
    PROVE  Inv' /\ Stores(data, Fifo!Least(count, Capacity - Size))
<1> DEFINE left == readPos - writePos
           k    == IF left > count THEN count ELSE left
<1> USE CapacityAssumption
<1>0. /\ count \in Nat /\ left \in Nat /\ writePos \in Nat /\ readPos \in Nat
      /\ readPos < Capacity /\ writePos < readPos /\ empty = FALSE /\ full = FALSE
      /\ Size = Capacity - readPos + writePos /\ pBuf \in [Slots -> Elem] /\ count > 0 /\ Len(data) \in Nat
  BY LenProperties DEF Inv, TypeOK, FlagsAgree, WriteBehind, Slots, Size
<1>1. /\ pBuf' = Copied(pBuf, writePos, data, 0, k)
      /\ writePos' = writePos + k /\ accepted' = k
      /\ full' \in BOOLEAN /\ (full' <=> readPos = writePos + k) /\ empty' = FALSE
      /\ readPos' = readPos /\ taken' = <<>>
  <2>1. /\ pBuf' = Copied(pBuf, writePos, data, 0, k)
        /\ writePos' = writePos + k /\ accepted' = k
        /\ full' = (readPos = writePos + k) /\ empty' = FALSE
        /\ readPos' = readPos /\ taken' = <<>>
    BY DEF WriteBehind
  <2> QED BY <2>1, Zenon
<1>2. /\ k \in Nat /\ k > 0 /\ k <= left /\ k <= count
      /\ k = Fifo!Least(count, Capacity - Size)
  BY <1>0 DEF Fifo!Least
<1> HIDE DEF k
<1>3. pBuf' \in [Slots -> Elem]
  <2>1. 0 \in Nat /\ 0 + k <= Len(data)
    BY <1>0, <1>2
  <2> QED BY <1>0, <1>1, <1>2, <2>1, CopiedType
<1>4. /\ \A i \in 0 .. k - 1 : pBuf'[Slot(readPos + Size + i)] = data[i + 1]
      /\ \A i \in 0 .. Size - 1 : pBuf'[Slot(readPos + i)] = pBuf[Slot(readPos + i)]
  <2>1. /\ pBuf \in [Slots -> Elem] /\ pBuf' = Copied(pBuf, writePos, data, 0, k)
        /\ Size = Capacity - readPos + writePos
    BY <1>0, <1>1
  <2>2. \A j \in Slots : pBuf'[j] = IF writePos <= j /\ j < writePos + k
                                    THEN data[0 + 1 + (j - writePos)] ELSE pBuf[j]
    BY <2>1 DEF Copied
  <2>3. \A i \in 0 .. k - 1 : /\ Slot(readPos + Size + i) = writePos + i
                              /\ writePos + i \in Slots
    BY <1>0, <1>2 DEF Slot, Slots
  <2>4. \A i \in 0 .. Size - 1 : /\ Slot(readPos + i) \in Slots
                                 /\ \/ Slot(readPos + i) >= readPos
                                    \/ Slot(readPos + i) < writePos
    BY <1>0 DEF Slot, Slots
  <2>5. \A i \in 0 .. k - 1 : pBuf'[Slot(readPos + Size + i)] = data[i + 1]
    BY <1>0, <1>2, <2>2, <2>3
  <2>6. \A i \in 0 .. Size - 1 : pBuf'[Slot(readPos + i)] = pBuf[Slot(readPos + i)]
    <3> TAKE i \in 0 .. Size - 1
    <3> DEFINE j == Slot(readPos + i)
    <3>1. j \in Slots /\ (j >= readPos \/ j < writePos) /\ j \in Int
      BY <2>4 DEF Slots
    <3> HIDE DEF j
    <3>2. ~ (writePos <= j /\ j < writePos + k)
      BY <1>0, <1>2, <3>1
    <3>3. pBuf'[j] = pBuf[j]
      BY <2>2, <3>1, <3>2
    <3> QED BY <3>3 DEF j
  <2> QED BY <2>5, <2>6
<1>5. Size' = Size + k /\ writePos' \in Slots
  BY SMTT(30), <1>0, <1>1, <1>2 DEF Size, Slots
<1>6. Inv'
  <2>1. readPos' \in Slots /\ accepted' \in 0 .. Capacity
    BY <1>0, <1>1, <1>2, <1>3, <1>5 DEF Inv, TypeOK, Slots
  <2>2. taken' \in Seq(Elem)
    BY <1>0, <1>1, <1>2, <1>3, <1>5, EmptyIsSeq
  <2>3. FlagsAgree'
    BY <1>0, <1>1, <1>2, <1>3, <1>5 DEF FlagsAgree, Slots
  <2> QED BY <1>0, <1>1, <1>2, <1>3, <1>5, <2>1, <2>2, <2>3 DEF Inv, TypeOK
<1> QED BY <1>0, <1>1, <1>2, <1>4, <1>5, <1>6 DEF Stores

-----------------------------------------------------------------------------
(* Every branch of read leaves the invariant to the empty flag. *)
LEMMA DrainedInv ==
    ASSUME Inv, NEW k \in Nat, k <= Capacity,
           empty' \in BOOLEAN, empty' <=> readPos' = writePos, full' = FALSE,
           accepted' = 0, pBuf' = pBuf, writePos' = writePos, readPos' \in Slots,
           taken' = Ring(pBuf, readPos, k)
    PROVE  Inv'
<1>1. taken' \in Seq(Elem)
  BY RingType DEF Inv, TypeOK
<1>2. FlagsAgree'
  BY DEF FlagsAgree
<1>3. accepted' \in 0 .. Capacity
  BY CapacityAssumption
<1>4. /\ pBuf' \in [Slots -> Elem] /\ writePos' \in Slots
      /\ full' \in BOOLEAN
  BY DEF Inv, TypeOK
<1> QED BY <1>1, <1>2, <1>3, <1>4, Zenon DEF Inv, TypeOK

LEMMA ReadWhenFullDrains ==
    ASSUME Inv, NEW count \in Int, ReadWhenFull(count)
    PROVE  Inv' /\ Drains(Fifo!Least(count, Size))
<1> DEFINE left == Capacity - readPos
           over == IF writePos > count - left THEN count - left ELSE writePos
           k    == Fifo!Least(count, Size)
<1> USE CapacityAssumption
<1>0. /\ count \in Nat /\ count > 0 /\ left \in Nat /\ writePos \in Nat /\ readPos \in Nat
      /\ readPos < Capacity /\ readPos = writePos /\ empty = FALSE /\ full = TRUE
      /\ Size = Capacity /\ pBuf \in [Slots -> Elem] /\ readPos \in Slots
  BY DEF Inv, TypeOK, FlagsAgree, ReadWhenFull, Slots, Size
<1>1. /\ empty' \in BOOLEAN /\ (empty' <=> readPos' = writePos) /\ full' = FALSE
      /\ accepted' = 0 /\ pBuf' = pBuf /\ writePos' = writePos
  <2>1. /\ empty' = (readPos' = writePos) /\ full' = FALSE
        /\ accepted' = 0 /\ pBuf' = pBuf /\ writePos' = writePos
    BY DEF ReadWhenFull
  <2> QED BY <2>1, Zenon
<1>2. k \in Nat /\ k <= Capacity /\ k > 0
  BY <1>0 DEF Fifo!Least
<1>3. taken' = Ring(pBuf, readPos, k) /\ readPos' = Slot(readPos + k)
  <2>1. CASE left > count
    <3>1. taken' = Taken(pBuf, readPos, count) /\ readPos' = readPos + count
      BY <1>0, <2>1 DEF ReadWhenFull
    <3>2. k = count
      BY <1>0, <2>1 DEF Fifo!Least
    <3>3. \A i \in 1 .. count : Slot(readPos + i - 1) = readPos + i - 1
      BY <1>0, <2>1 DEF Slot
    <3> QED BY <1>0, <2>1, <3>1, <3>2, <3>3 DEF Taken, Ring, Slot
  <2>2. CASE left <= count
    <3>1. taken' = Taken(pBuf, readPos, left) \o Taken(pBuf, 0, over) /\ readPos' = over
      BY <1>0, <2>2 DEF ReadWhenFull
    <3>2. over \in Nat /\ over <= writePos /\ k = left + over
      BY <1>0, <2>2 DEF Fifo!Least
    <3> HIDE DEF over, k
    <3>3. Taken(pBuf, readPos, left) \o Taken(pBuf, 0, over) = Ring(pBuf, readPos, left + over)
      BY <1>0, <3>2, TakenAround
    <3> QED BY <1>0, <3>1, <3>2, <3>3 DEF Slot
  <2> QED BY <1>0, <2>1, <2>2
<1> HIDE DEF k
<1>4. readPos' \in Slots
  BY <1>0, <1>2, <1>3, SlotType
<1>5. Size' = Size - k
  BY <1>0, <1>1, <1>2, <1>3 DEF Size, Slot
<1>6. Inv'
  BY <1>0, <1>1, <1>2, <1>3, <1>4, DrainedInv
<1> QED BY <1>1, <1>3, <1>5, <1>6 DEF Drains, k

LEMMA ReadAheadDrains ==
    ASSUME Inv, NEW count \in Int, ReadAhead(count)
    PROVE  Inv' /\ Drains(Fifo!Least(count, Size))
<1> DEFINE left == writePos - readPos
           k    == Fifo!Least(count, Size)
<1> USE CapacityAssumption
<1>0. /\ count \in Nat /\ count > 0 /\ left \in Nat /\ writePos \in Nat /\ readPos \in Nat
      /\ writePos < Capacity /\ readPos < writePos /\ empty = FALSE /\ full = FALSE
      /\ Size = left /\ pBuf \in [Slots -> Elem] /\ readPos \in Slots
  BY DEF Inv, TypeOK, FlagsAgree, ReadAhead, Slots, Size
<1>1. /\ k \in Nat /\ k <= left /\ k > 0 /\ k <= Capacity
      /\ k = IF left > count THEN count ELSE left
  BY <1>0 DEF Fifo!Least
<1> HIDE DEF k
<1>2. /\ taken' = Taken(pBuf, readPos, k) /\ readPos' = readPos + k
      /\ full' = FALSE /\ accepted' = 0 /\ pBuf' = pBuf /\ writePos' = writePos
  BY <1>1 DEF ReadAhead
<1>3. empty' \in BOOLEAN /\ (empty' <=> readPos' = writePos)
  <2>1. empty' = (readPos' = writePos)
    BY <1>1, <1>2 DEF ReadAhead
  <2> QED BY <2>1, Zenon
<1>4. \A i \in 1 .. k : Slot(readPos + i - 1) = readPos + i - 1
  BY <1>0, <1>1 DEF Slot
<1>5. taken' = Ring(pBuf, readPos, k)
  BY <1>2, <1>4 DEF Taken, Ring
<1>6. readPos' = Slot(readPos + k) /\ readPos' \in Slots
  BY <1>0, <1>1, <1>2 DEF Slot, Slots
<1>7. Size' = Size - k
  BY <1>0, <1>1, <1>2, <1>3 DEF Size
<1>8. Inv'
  BY <1>1, <1>2, <1>3, <1>5, <1>6, DrainedInv
<1> QED BY <1>2, <1>5, <1>6, <1>7, <1>8 DEF Drains, k

LEMMA ReadBehindDrains ==
    ASSUME Inv, NEW count \in Int, ReadBehind(count)
    PROVE  Inv' /\ Drains(Fifo!Least(count, Size))
<1> DEFINE left == Capacity - readPos
           over == IF writePos >= count - left THEN count - left ELSE writePos
           k    == Fifo!Least(count, Size)
<1> USE CapacityAssumption
<1>0. /\ count \in Nat /\ count > 0 /\ left \in Nat /\ writePos \in Nat /\ readPos \in Nat
      /\ readPos < Capacity /\ writePos < readPos /\ empty = FALSE /\ full = FALSE
      /\ Size = left + writePos /\ pBuf \in [Slots -> Elem] /\ readPos \in Slots
  BY DEF Inv, TypeOK, FlagsAgree, ReadBehind, Slots, Size
<1>1. /\ empty' \in BOOLEAN /\ (empty' <=> readPos' = writePos) /\ full' = FALSE
      /\ accepted' = 0 /\ pBuf' = pBuf /\ writePos' = writePos
  <2>1. /\ empty' = (readPos' = writePos) /\ full' = FALSE
        /\ accepted' = 0 /\ pBuf' = pBuf /\ writePos' = writePos
    BY DEF ReadBehind
  <2> QED BY <2>1, Zenon
<1>2. k \in Nat /\ k <= Size /\ k <= Capacity /\ k > 0
  BY <1>0 DEF Fifo!Least
<1>3. taken' = Ring(pBuf, readPos, k) /\ readPos' = Slot(readPos + k)
  <2>1. CASE left > count
    <3>1. taken' = Taken(pBuf, readPos, count) /\ readPos' = readPos + count
      BY <1>0, <2>1 DEF ReadBehind
    <3>2. k = count
      BY <1>0, <2>1 DEF Fifo!Least
    <3>3. \A i \in 1 .. count : Slot(readPos + i - 1) = readPos + i - 1
      BY <1>0, <2>1 DEF Slot
    <3> QED BY <1>0, <2>1, <3>1, <3>2, <3>3 DEF Taken, Ring, Slot
  <2>2. CASE left <= count
    <3>1. taken' = Taken(pBuf, readPos, left) \o Taken(pBuf, 0, over) /\ readPos' = over
      BY <1>0, <2>2 DEF ReadBehind
    <3>2. over \in Nat /\ over <= writePos /\ k = left + over
      BY <1>0, <2>2 DEF Fifo!Least
    <3> HIDE DEF over, k
    <3>3. Taken(pBuf, readPos, left) \o Taken(pBuf, 0, over) = Ring(pBuf, readPos, left + over)
      <4>1. over <= readPos
        BY <1>0, <3>2
      <4> QED BY <1>0, <3>2, <4>1, TakenAround
    <3> QED BY <1>0, <3>1, <3>2, <3>3 DEF Slot
  <2> QED BY <1>0, <2>1, <2>2
<1> HIDE DEF k
<1>4. readPos' \in Slots
  BY <1>0, <1>2, <1>3, SlotType
<1>5. Size' = Size - k
  BY <1>0, <1>1, <1>2, <1>3 DEF Size, Slot
<1>6. Inv'
  BY <1>0, <1>1, <1>2, <1>3, <1>4, DrainedInv
<1> QED BY <1>1, <1>3, <1>5, <1>6 DEF Drains, k

-----------------------------------------------------------------------------
(* Every call keeps the invariant and is a call of the queue. *)
LEMMA WriteStep ==
    ASSUME Inv, NEW data \in Seq(Elem), NEW count \in Int, count <= Len(data),
           Write(data, count)
    PROVE  Inv' /\ Fifo!Write(data, count)
<1> USE CapacityAssumption
<1>0. /\ Size \in 0 .. Capacity /\ Len(Contents) = Size /\ pBuf \in [Slots -> Elem]
      /\ readPos \in Slots
  BY SizeType, RingType DEF Inv, TypeOK, Contents
<1>1. CASE WriteNothing(count)
  <2>1. Fifo!Least(Fifo!Asked(count), Capacity - Len(Contents)) = 0
    BY <1>0, <1>1 DEF WriteNothing, Fifo!Least, Fifo!Asked, Size, Inv, FlagsAgree
  <2>2. Contents \o SubSeq(data, 1, 0) = Contents
    BY <1>0, RingType, SubSeqEmpty, ConcatEmptySeq DEF Contents
  <2>3. Contents' = Contents
    BY <1>1 DEF WriteNothing, Contents, Ring, Size
  <2>4. Inv'
    BY <1>1, EmptyIsSeq DEF WriteNothing, Inv, TypeOK, FlagsAgree
  <2> QED BY <1>1, <2>1, <2>2, <2>3, <2>4 DEF WriteNothing, Fifo!Write
<1>2. ASSUME count > 0, Inv', Stores(data, Fifo!Least(count, Capacity - Size))
      PROVE  Fifo!Write(data, count)
  <2> DEFINE k == Fifo!Least(count, Capacity - Size)
  <2>1. k \in Nat /\ k <= count /\ Size + k <= Capacity
    BY <1>0, <1>2 DEF Fifo!Least
  <2>2. Fifo!Least(Fifo!Asked(count), Capacity - Len(Contents)) = k
    BY <1>0, <1>2 DEF Fifo!Asked
  <2> HIDE DEF k
  <2>3. Contents' = Contents \o SubSeq(data, 1, k)
    <3>1. Contents' = Ring(pBuf', readPos, Size + k)
      BY <1>2 DEF Contents, Ring, Stores, Slot, k
    <3>2. pBuf' \in [Slots -> Elem] /\ Size \in Nat /\ k <= Len(data)
      BY <1>0, <1>2, <2>1, LenProperties DEF Inv, TypeOK
    <3>3. Appended(pBuf, pBuf', readPos, Size, k, data)
      BY <1>0, <1>2, <2>1, <3>2 DEF Stores, Appended, k
    <3>4. Ring(pBuf', readPos, Size + k) = Extended(Ring(pBuf, readPos, Size), data, k)
      BY <3>3, RingAppend
    <3>5. Contents' = Extended(Contents, data, k)
      BY <3>1, <3>4 DEF Contents
    <3> QED BY <3>5 DEF Extended
  <2> QED BY <1>2, <2>2, <2>3 DEF Stores, Fifo!Write, k
<1>3. CASE WriteWhenEmpty(data, count)
  BY <1>2, <1>3, WriteWhenEmptyStores DEF WriteWhenEmpty
<1>4. CASE WriteAhead(data, count)
  BY <1>2, <1>4, WriteAheadStores DEF WriteAhead
<1>5. CASE WriteBehind(data, count)
  BY <1>2, <1>5, WriteBehindStores DEF WriteBehind
<1> QED BY <1>1, <1>3, <1>4, <1>5 DEF Write

LEMMA ReadStep ==
    ASSUME Inv, NEW count \in Int, Read(count)
    PROVE  Inv' /\ Fifo!Read(count)
<1> USE CapacityAssumption
<1>0. /\ Size \in 0 .. Capacity /\ Len(Contents) = Size /\ pBuf \in [Slots -> Elem]
      /\ readPos \in Slots /\ Contents \in Seq(Elem)
  <2> DEFINE n == Size
  <2>1. n \in Nat /\ n <= Capacity /\ pBuf \in [Slots -> Elem] /\ readPos \in Slots
    BY SizeType DEF Inv, TypeOK
  <2> HIDE DEF n
  <2>2. Ring(pBuf, readPos, n) \in Seq(Elem) /\ Len(Ring(pBuf, readPos, n)) = n
    BY <2>1, RingType
  <2> QED BY <2>1, <2>2 DEF Contents, n
<1>1. CASE ReadNothing(count)
  <2>1. Fifo!Least(Fifo!Asked(count), Len(Contents)) = 0
    BY <1>0, <1>1 DEF ReadNothing, Fifo!Least, Fifo!Asked, Size
  <2>2. SubSeq(Contents, 1, 0) = <<>>
    BY SubSeqEmpty
  <2>3. SubSeq(Contents, 0 + 1, Len(Contents)) = Contents
    BY <1>0, SubSeqFull
  <2>4. Contents' = Contents
    BY <1>1 DEF ReadNothing, Contents, Ring, Size
  <2>5. Inv'
    BY <1>1, EmptyIsSeq DEF ReadNothing, Inv, TypeOK, FlagsAgree
  <2> QED BY <1>1, <2>1, <2>2, <2>3, <2>4, <2>5 DEF ReadNothing, Fifo!Read
<1>2. ASSUME count > 0, Inv', Drains(Fifo!Least(count, Size))
      PROVE  Fifo!Read(count)
  <2> DEFINE k == Fifo!Least(count, Size)
  <2>1. k \in Nat /\ k <= Size /\ Size \in Nat /\ Size <= Capacity
    BY <1>0, <1>2 DEF Fifo!Least
  <2>2. Fifo!Least(Fifo!Asked(count), Len(Contents)) = k
    BY <1>0, <1>2 DEF Fifo!Asked
  <2> HIDE DEF k
  <2>3. /\ SubSeq(Contents, 1, k) = Ring(pBuf, readPos, k)
        /\ SubSeq(Contents, k + 1, Size) = Ring(pBuf, Slot(readPos + k), Size - k)
    BY ZenonT(40), <1>0, <2>1, RingSplit DEF Contents
  <2>4. Contents' = Ring(pBuf, Slot(readPos + k), Size - k)
    BY <1>2 DEF Contents, Ring, Drains, Slot, k
  <2> QED BY <1>0, <1>2, <2>2, <2>3, <2>4 DEF Drains, Fifo!Read, k
<1>3. CASE ReadWhenFull(count)
  BY <1>2, <1>3, ReadWhenFullDrains DEF ReadWhenFull
<1>4. CASE ReadAhead(count)
  BY <1>2, <1>4, ReadAheadDrains DEF ReadAhead
<1>5. CASE ReadBehind(count)
  BY <1>2, <1>5, ReadBehindDrains DEF ReadBehind
<1> QED BY <1>1, <1>3, <1>4, <1>5 DEF Read

LEMMA ClearStep ==
    ASSUME Inv, Clear
    PROVE  Inv' /\ Fifo!Clear
<1>1. Inv'
  BY CapacityAssumption, EmptyIsSeq DEF Clear, Inv, TypeOK, FlagsAgree, Slots
<1>2. Contents' = <<>>
  BY <1>1 DEF Clear, Contents, Ring, Size
<1> QED BY <1>1, <1>2 DEF Clear, Fifo!Clear

LEMMA InitStep == ASSUME Init PROVE Inv /\ Fifo!Init
<1>1. Inv
  <2>1. /\ readPos \in Slots /\ writePos \in Slots /\ accepted \in 0 .. Capacity
        /\ pBuf \in [Slots -> Elem]
    BY CapacityAssumption DEF Init, Slots
  <2>2. empty = TRUE /\ full = FALSE /\ readPos = writePos /\ taken = <<>>
    BY DEF Init
  <2>3. TypeOK
    BY <2>1, <2>2, EmptyIsSeq, Zenon DEF TypeOK
  <2>4. FlagsAgree
    BY <2>2 DEF FlagsAgree
  <2> QED BY <2>3, <2>4 DEF Inv
<1>2. Contents = <<>>
  BY DEF Init, Contents, Ring, Size
<1> QED BY <1>1, <1>2 DEF Init, Fifo!Init

(* One step, or a stutter, of the ring buffer is one of the queue. *)
LEMMA NextStep ==
    ASSUME Inv, [Next]_vars
    PROVE  Inv' /\ [Fifo!Next]_(Fifo!fifoVars)
<1>1. ASSUME NEW data \in Chunks, NEW count \in Counts, count <= Len(data),
             Write(data, count)
      PROVE  Inv' /\ Fifo!Next
  BY <1>1, RequestAssumption, WriteStep DEF Fifo!Next
<1>2. ASSUME NEW count \in Counts, Read(count)
      PROVE  Inv' /\ Fifo!Next
  BY <1>2, RequestAssumption, ReadStep DEF Fifo!Next
<1>3. CASE Clear
  BY <1>3, ClearStep DEF Fifo!Next
<1>4. CASE UNCHANGED vars
  BY <1>4 DEF vars, Inv, TypeOK, FlagsAgree, Fifo!fifoVars, Contents, Ring, Size
<1> QED BY <1>1, <1>2, <1>3, <1>4 DEF Next

-----------------------------------------------------------------------------
(* The positions never leave the array and the flags always agree with     *)
(* them: the invariant every branch of write and read relies on.           *)
THEOREM FlagsAlwaysAgree == Spec => [](TypeOK /\ FlagsAgree)
<1>1. Init => Inv
  BY InitStep
<1>2. Inv /\ [Next]_vars => Inv'
  BY NextStep
<1>3. Inv => TypeOK /\ FlagsAgree
  BY DEF Inv
<1> QED BY <1>1, <1>2, <1>3, PTL DEF Spec

(* PodCircularBuffer implements the bounded queue, whatever its capacity:  *)
(* no element is lost, repeated, reordered or made up by any sequence of   *)
(* calls of write, read and clear.                                         *)
THEOREM RingIsFifo == Spec => ImplementsFifo
<1>1. Init => Inv /\ Fifo!Init
  BY InitStep
<1>2. Inv /\ [Next]_vars => Inv' /\ [Fifo!Next]_(Fifo!fifoVars)
  BY NextStep
<1> QED BY <1>1, <1>2, PTL DEF Spec, ImplementsFifo, Fifo!Spec
=============================================================================

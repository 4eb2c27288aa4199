-------------------------- MODULE PacketSyncProofs --------------------------
(***************************************************************************)
(* That the parser finds exactly the frames of the stream, that its        *)
(* buffers never overflow, and that the conversions lose nothing.          *)
(*                                                                         *)
(* Frames reads a whole sequence of bytes at one's leisure; the parser     *)
(* sees it in pieces, and has read ahead.  The invariant that joins the    *)
(* two, Progress, takes what the parser has not dealt with, Unread: the    *)
(* frames of all that was received, with anything more behind it, are      *)
(* those called back and then those of Unread with the same behind it.     *)
(* Every turn of the loop keeps that: it drops bytes that begin no frame,  *)
(* or gives up a HEAD and keeps what is behind it, or takes one frame off  *)
(* the front.  When recvdata returns, Unread has no frame in it.           *)
(*                                                                         *)
(* The module begins with the conversions of net_base.h: a number is made  *)
(* of its bytes again, for every number of bytes up to eight, because each *)
(* byte added divides the number by one weight less.  Then it is about     *)
(* Frames alone: that the function it is defined by exists, and what it    *)
(* does with the first byte, with noise and with a candidate.  The last    *)
(* part is about the steps.                                                *)
(***************************************************************************)
EXTENDS PacketSync, DataLemmas

-----------------------------------------------------------------------------
(* The conversions: numbers and their bytes.                               *)

LEMMA SomeByteValues == ByteValues \in Nat \ {0}
BY ByteAssumption

USE SomeByteValues

(* What the provers are told of multiplication and division. *)
LEMMA DivMod ==
    ASSUME NEW a \in Nat, NEW d \in Nat \ {0}
    PROVE  a \div d \in Nat /\ a % d \in 0 .. d - 1 /\ a = d * (a \div d) + (a % d)
BY SMT

LEMMA Product ==
    ASSUME NEW a \in Nat, NEW d \in Nat
    PROVE  a * d \in Nat /\ a * d = d * a /\ (a # 0 /\ d # 0 => a * d # 0)
BY SMT

LEMMA Stretch ==
    ASSUME NEW d \in Nat, NEW x \in Int, NEW y \in Int, x < y
    PROVE  d * x + d <= d * y
BY SMT

LEMMA Distributes ==
    ASSUME NEW d \in Int, NEW x \in Int, NEW y \in Int
    PROVE  d * (x + y) = d * x + d * y
BY SMT

LEMMA Divided ==
    ASSUME NEW a \in Nat, NEW d \in Nat \ {0}, NEW q \in Nat, NEW r \in 0 .. d - 1,
           a = d * q + r
    PROVE  a \div d = q /\ a % d = r
<1>1. a \div d \in Nat /\ a % d \in 0 .. d - 1 /\ a = d * (a \div d) + (a % d)
  BY DivMod
<1>2. PICK x \in Nat : x = a \div d
  BY <1>1
<1>3. PICK z \in 0 .. d - 1 : z = a % d
  BY <1>1
<1>4. d * x + z = d * q + r
  BY <1>1, <1>2, <1>3
<1>5. d * x \in Int /\ d * q \in Int
  BY Product
<1>6. ~(x < q)
  <2> SUFFICES ASSUME x < q PROVE FALSE
    OBVIOUS
  <2>1. d * x + d <= d * q
    BY Stretch
  <2> HIDE <1>2, <1>3
  <2> QED BY <1>4, <1>5, <2>1
<1>7. ~(q < x)
  <2> SUFFICES ASSUME q < x PROVE FALSE
    OBVIOUS
  <2>1. d * q + d <= d * x
    BY Stretch
  <2> HIDE <1>2, <1>3
  <2> QED BY <1>4, <1>5, <2>1
<1>8. x = q
  BY <1>6, <1>7
<1> QED BY <1>2, <1>3, <1>4, <1>5, <1>8

(* One division after another. *)
LEMMA DividedTwice ==
    ASSUME NEW a \in Nat, NEW d \in Nat \ {0}, NEW e \in Nat \ {0}
    PROVE  a \div (d * e) = (a \div d) \div e
<1>1. PICK x \in Nat, r \in 0 .. d - 1 : x = a \div d /\ a = d * x + r
  BY DivMod
<1>2. PICK y \in Nat, s \in 0 .. e - 1 : y = x \div e /\ x = e * y + s
  BY DivMod
<1>3. d * e \in Nat \ {0} /\ d * s \in Nat /\ e * y \in Nat /\ d * (e * y) \in Nat
  BY Product
<1>4. a = (d * e) * y + (d * s + r)
  <2>1. d * (e * y + s) = d * (e * y) + d * s
    BY <1>3, Distributes
  <2>2. d * (e * y) = (d * e) * y
    OBVIOUS
  <2>3. d * x = (d * e) * y + d * s
    BY <1>2, <2>1, <2>2
  <2> DEFINE f == d * x  g == (d * e) * y  t == d * s
  <2>4. f \in Int /\ g \in Int /\ t \in Int
    BY <1>3, <2>2
  <2>5. a = f + r /\ f = g + t
    BY <1>1, <2>3
  <2> HIDE DEF f, g, t
  <2>6. a = g + (t + r)
    BY <2>4, <2>5
  <2> QED BY <2>6 DEF g, t
<1>5. d * s + r \in 0 .. (d * e) - 1
  <2>1. d * s + d <= d * e
    BY Stretch
  <2> QED BY <1>3, <2>1
<1>6. a \div (d * e) = y
  <2> DEFINE g == d * e  t == d * s + r
  <2>1. g \in Nat \ {0} /\ t \in 0 .. g - 1 /\ a = g * y + t
    BY <1>3, <1>4, <1>5
  <2> HIDE DEF g, t
  <2>2. a \div g = y
    BY <2>1, Divided
  <2> QED BY <2>2 DEF g
<1> QED BY <1>1, <1>2, <1>6

(* The weights, one after another. *)
LEMMA WeightDefined ==
    /\ Weight[0] = 1
    /\ \A i \in 1 .. 8 : Weight[i] = Weight[i - 1] * ByteValues
    /\ \A i \in 0 .. 8 : Weight[i] \in Nat \ {0}
<1> DEFINE V == Nat \ {0}
           step == [iv \in (1 .. 8) \X V |-> iv[2] * ByteValues]
           Does(f) == f = [i \in 0 .. 8 |-> IF i = 0 THEN 1 ELSE f[i - 1] * ByteValues]
<1>1. 1 \in V /\ ByteValues \in V /\ 8 \in Nat
  OBVIOUS
<1>2. \A v \in V : v * ByteValues \in V
  BY <1>1, Product
<1>3. IsStep(V, 8, step)
  <2> HIDE DEF V
  <2>1. step \in [(1 .. 8) \X V -> V]
    BY <1>2
  <2> QED BY <2>1 DEF IsStep
<1>4. Unfolds(V, 8, 1, step)
  <2> HIDE DEF V, step
  <2> QED BY <1>1, <1>3, Recursion
<1>5. PICK f \in [0 .. 8 -> V] : f[0] = 1 /\ \A i \in 1 .. 8 : f[i] = step[<<i, f[i - 1]>>]
  BY <1>4 DEF Unfolds
<1>6. ASSUME NEW i \in 1 .. 8 PROVE f[i] = f[i - 1] * ByteValues
  <2>1. i - 1 \in 0 .. 8
    OBVIOUS
  <2>2. f[i - 1] \in V
    BY <1>5, <2>1
  <2>3. <<i, f[i - 1]>> \in (1 .. 8) \X V
    BY <2>2
  <2>4. step[<<i, f[i - 1]>>] = f[i - 1] * ByteValues
    BY <2>3
  <2> QED BY <1>5, <2>4
<1>7. Does(f)
  <2> DEFINE g == [i \in 0 .. 8 |-> IF i = 0 THEN 1 ELSE f[i - 1] * ByteValues]
  <2>1. ASSUME NEW i \in 0 .. 8 PROVE f[i] = g[i]
    <3>1. CASE i = 0
      BY <1>5, <3>1
    <3>2. CASE i # 0
      <4>1. i \in 1 .. 8
        BY <3>2
      <4> QED BY <1>6, <3>2, <4>1
    <3> QED BY <3>1, <3>2
  <2>2. f \in [0 .. 8 -> V] /\ DOMAIN g = 0 .. 8 /\ DOMAIN f = 0 .. 8
    BY <1>5
  <2> HIDE DEF V
  <2>3. f = [i \in 0 .. 8 |-> f[i]] /\ g = [i \in 0 .. 8 |-> g[i]]
    BY <2>2
  <2>4. f = g
    <3> HIDE DEF g
    <3> QED BY Zenon, <2>1, <2>3
  <2> QED BY <2>4
<1>8. Does(Weight)
  <2>1. Weight = CHOOSE h : Does(h)
    BY DEF Weight
  <2> HIDE DEF Does
  <2> QED BY <1>7, <2>1
<1>9. \A i \in 0 .. 8 : Weight[i] = IF i = 0 THEN 1 ELSE Weight[i - 1] * ByteValues
  <2> DEFINE u == Weight
  <2>1. Does(u)
    BY <1>8
  <2> HIDE DEF u
  <2>2. \A i \in 0 .. 8 : u[i] = IF i = 0 THEN 1 ELSE u[i - 1] * ByteValues
    BY ZenonT(40), <2>1
  <2> QED BY <2>2 DEF u
<1>10. Weight[0] = 1 /\ \A i \in 1 .. 8 : Weight[i] = Weight[i - 1] * ByteValues
  <2>1. 0 \in 0 .. 8 /\ \A i \in 1 .. 8 : i \in 0 .. 8 /\ i # 0
    OBVIOUS
  <2> QED BY <1>9, <2>1
<1>11. ASSUME NEW i \in 0 .. 8 PROVE Weight[i] \in V
  <2> DEFINE T == {k \in Nat : k <= 8 => Weight[k] \in V}
  <2>1. 0 \in T
    BY <1>1, <1>10
  <2>2. ASSUME NEW k \in Nat, k \in T PROVE k + 1 \in T
    <3> SUFFICES ASSUME k + 1 <= 8 PROVE Weight[k + 1] \in V
      OBVIOUS
    <3>1. Weight[k] \in V /\ k + 1 \in 1 .. 8 /\ (k + 1) - 1 = k
      BY <2>2
    <3>2. Weight[k + 1] = Weight[k] * ByteValues
      BY <1>10, <3>1
    <3> HIDE DEF V
    <3> QED BY <1>2, <3>1, <3>2
  <2> HIDE DEF T
  <2>3. i \in T
    BY <2>1, <2>2, Induction
  <2> QED BY <2>3 DEF T
<1> QED BY <1>10, <1>11

(* What Number computes after each byte. *)
UpToByte(q) == CHOOSE f : f = [i \in 0 .. Len(q) |->
                                   IF i = 0 THEN 0 ELSE f[i - 1] * ByteValues + q[i]]

LEMMA NumberIs == \A q : Number(q) = UpToByte(q)[Len(q)]
BY DEF Number, UpToByte

LEMMA UpToByteDefined ==
    ASSUME NEW q \in Seq(Byte)
    PROVE  /\ UpToByte(q)[0] = 0
           /\ \A i \in 1 .. Len(q) : UpToByte(q)[i] = UpToByte(q)[i - 1] * ByteValues + q[i]
           /\ \A i \in 0 .. Len(q) : UpToByte(q)[i] \in Nat
<1> DEFINE n == Len(q)
           Adds(i, v) == v * ByteValues + q[i]
           step == [iv \in (1 .. n) \X Nat |-> Adds(iv[1], iv[2])]
           Does(f) == f = [i \in 0 .. n |-> IF i = 0 THEN 0 ELSE f[i - 1] * ByteValues + q[i]]
<1>1. n \in Nat /\ 0 \in Nat
  BY LenProperties
<1>2. \A i \in 1 .. n : q[i] \in Nat
  BY ElementOfSeq DEF Byte
<1> HIDE DEF n
<1>3. ASSUME NEW i \in 1 .. n, NEW v \in Nat PROVE Adds(i, v) \in Nat
  <2>1. v * ByteValues \in Nat
    BY Product
  <2> QED BY <1>2, <2>1
<1>4. IsStep(Nat, n, step)
  <2> HIDE DEF Adds
  <2>1. step \in [(1 .. n) \X Nat -> Nat]
    BY <1>3
  <2> HIDE DEF step
  <2> QED BY <2>1 DEF IsStep
<1>5. Unfolds(Nat, n, 0, step)
  <2> HIDE DEF step
  <2> QED BY <1>1, <1>4, Recursion
<1>6. PICK f \in [0 .. n -> Nat] : f[0] = 0 /\ \A i \in 1 .. n : f[i] = step[<<i, f[i - 1]>>]
  BY <1>5 DEF Unfolds
<1>7. ASSUME NEW i \in 1 .. n PROVE f[i] = Adds(i, f[i - 1])
  <2>1. i - 1 \in 0 .. n /\ f[i - 1] \in Nat
    <3>1. i - 1 \in 0 .. n
      BY <1>1
    <3> QED BY <1>6, <3>1
  <2>2. <<i, f[i - 1]>> \in (1 .. n) \X Nat
    BY <2>1
  <2>3. step[<<i, f[i - 1]>>] = Adds(i, f[i - 1])
    <3> HIDE DEF Adds
    <3> QED BY <2>2
  <2> QED BY <1>6, <2>3
<1>8. Does(f)
  <2> DEFINE g == [i \in 0 .. n |-> IF i = 0 THEN 0 ELSE f[i - 1] * ByteValues + q[i]]
  <2>1. ASSUME NEW i \in 0 .. n PROVE f[i] = g[i]
    <3>1. CASE i = 0
      BY <1>6, <3>1
    <3>2. CASE i # 0
      <4>1. i \in 1 .. n
        BY <1>1, <3>2
      <4> QED BY <1>7, <3>2, <4>1
    <3> QED BY <3>1, <3>2
  <2>2. DOMAIN g = 0 .. n /\ DOMAIN f = 0 .. n
    BY <1>6
  <2>3. f = [i \in 0 .. n |-> f[i]] /\ g = [i \in 0 .. n |-> g[i]]
    BY <1>6, <2>2
  <2>4. f = g
    <3> HIDE DEF g
    <3> QED BY Zenon, <2>1, <2>3
  <2> QED BY <2>4
<1>9. Does(UpToByte(q))
  <2>1. UpToByte(q) = CHOOSE h : Does(h)
    BY DEF UpToByte, n
  <2> HIDE DEF Does
  <2> QED BY <1>8, <2>1
<1>10. /\ UpToByte(q)[0] = 0
       /\ \A i \in 1 .. n : UpToByte(q)[i] = UpToByte(q)[i - 1] * ByteValues + q[i]
  <2> DEFINE u == UpToByte(q)
  <2>1. Does(u)
    BY <1>9
  <2> HIDE DEF u
  <2>2. 0 \in 0 .. n /\ \A i \in 1 .. n : i \in 0 .. n /\ i # 0
    BY <1>1
  <2>3. \A i \in 0 .. n : u[i] = IF i = 0 THEN 0 ELSE u[i - 1] * ByteValues + q[i]
    BY ZenonT(40), <2>1
  <2> QED BY <2>2, <2>3 DEF u
<1>11. ASSUME NEW i \in 0 .. n PROVE UpToByte(q)[i] \in Nat
  <2> DEFINE T == {k \in Nat : k <= n => UpToByte(q)[k] \in Nat}
  <2>1. 0 \in T
    BY <1>1, <1>10
  <2>2. ASSUME NEW k \in Nat, k \in T PROVE k + 1 \in T
    <3> SUFFICES ASSUME k + 1 <= n PROVE UpToByte(q)[k + 1] \in Nat
      OBVIOUS
    <3>1. UpToByte(q)[k] \in Nat /\ k + 1 \in 1 .. n /\ (k + 1) - 1 = k
      BY <1>1, <2>2
    <3>2. UpToByte(q)[k + 1] = Adds(k + 1, UpToByte(q)[k])
      BY <1>10, <3>1
    <3> HIDE DEF Adds
    <3> QED BY <1>3, <3>1, <3>2
  <2> HIDE DEF T
  <2>3. i \in T
    <3>1. i \in Nat
      BY <1>1
    <3> QED BY <2>1, <2>2, <3>1, Induction
  <2> QED BY <1>1, <2>3 DEF T
<1> QED BY <1>10, <1>11 DEF n

(* A byte is less than the number of its values. *)
LEMMA BytesBelow ==
    ASSUME NEW q \in Seq(Byte)
    PROVE  Len(q) \in Nat /\ \A i \in 1 .. Len(q) : q[i] \in Nat /\ q[i] < ByteValues
BY LenProperties, ElementOfSeq DEF Byte

(* One byte more. *)
LEMMA OneByteMore ==
    ASSUME NEW u \in Nat, NEW w \in Nat \ {0}, u < w, NEW b \in Nat, b < ByteValues
    PROVE  /\ u * ByteValues + b \in Nat
           /\ u * ByteValues + b < w * ByteValues
           /\ (u * ByteValues + b) \div ByteValues = u
           /\ (u * ByteValues + b) % ByteValues = b
<1>1. /\ u * ByteValues \in Nat /\ u * ByteValues = ByteValues * u
      /\ w * ByteValues \in Nat /\ w * ByteValues = ByteValues * w
  BY Product
<1>2. ByteValues * u + ByteValues <= ByteValues * w
  BY Stretch
<1>3. u * ByteValues + b \in Nat /\ u * ByteValues + b < w * ByteValues
  BY <1>1, <1>2
<1> DEFINE a == u * ByteValues + b
<1>4. a \in Nat /\ a = ByteValues * u + b /\ b \in 0 .. ByteValues - 1
  BY <1>1, <1>3
<1> HIDE DEF a
<1>5. a \div ByteValues = u /\ a % ByteValues = b
  BY <1>4, Divided
<1> QED BY <1>3, <1>5 DEF a

LEMMA UpToByteBelow ==
    ASSUME NEW q \in Seq(Byte), Len(q) <= 8
    PROVE  \A i \in 0 .. Len(q) : UpToByte(q)[i] < Weight[i]
<1> DEFINE u == UpToByte(q)
           T == {i \in Nat : i <= Len(q) => u[i] < Weight[i]}
<1>1. Len(q) \in Nat /\ \A i \in 1 .. Len(q) : q[i] \in Nat /\ q[i] < ByteValues
  BY BytesBelow
<1>2. /\ u[0] = 0 /\ \A i \in 1 .. Len(q) : u[i] = u[i - 1] * ByteValues + q[i]
      /\ \A i \in 0 .. Len(q) : u[i] \in Nat
  BY UpToByteDefined
<1> HIDE DEF u
<1>3. 0 \in T
  BY <1>2, WeightDefined
<1>4. ASSUME NEW k \in Nat, k \in T PROVE k + 1 \in T
  <2> SUFFICES ASSUME k + 1 <= Len(q) PROVE u[k + 1] < Weight[k + 1]
    OBVIOUS
  <2>1. /\ k + 1 \in 1 .. Len(q) /\ k + 1 \in 1 .. 8 /\ (k + 1) - 1 = k
        /\ k \in 0 .. 8 /\ k \in 0 .. Len(q) /\ u[k] < Weight[k]
    BY <1>1, <1>4
  <2>2. /\ u[k + 1] = u[k] * ByteValues + q[k + 1] /\ u[k] \in Nat
        /\ Weight[k + 1] = Weight[k] * ByteValues /\ Weight[k] \in Nat \ {0}
        /\ q[k + 1] \in Nat /\ q[k + 1] < ByteValues
    BY <1>1, <1>2, <2>1, WeightDefined
  <2>3. u[k] * ByteValues + q[k + 1] < Weight[k] * ByteValues
    BY <2>1, <2>2, OneByteMore
  <2> QED BY <2>2, <2>3
<1> HIDE DEF T
<1>5. Nat \subseteq T
  BY <1>3, <1>4, Induction
<1>6. ASSUME NEW i \in 0 .. Len(q) PROVE u[i] < Weight[i]
  <2>1. i \in T
    BY <1>1, <1>5
  <2> QED BY <1>1, <2>1 DEF T
<1> QED BY <1>6 DEF u

LEMMA NumberBelow ==
    ASSUME NEW q \in Seq(Byte), Len(q) <= 8
    PROVE  Number(q) \in Nat /\ Number(q) < Weight[Len(q)]
<1>1. Len(q) \in 0 .. Len(q)
  BY BytesBelow
<1> QED BY <1>1, NumberIs, UpToByteDefined, UpToByteBelow

LEMMA BytesType ==
    ASSUME NEW n \in Nat, NEW k \in 0 .. 8
    PROVE  /\ BytesOf(n, k) \in Seq(Byte) /\ Len(BytesOf(n, k)) = k
           /\ \A i \in 1 .. k : BytesOf(n, k)[i] = (n \div Weight[k - i]) % ByteValues
<1>1. ASSUME NEW i \in 1 .. k
      PROVE  ByteAt(n, k - i) \in Byte
  <2>1. k - i \in 0 .. 8
    OBVIOUS
  <2>2. n \div Weight[k - i] \in Nat
    BY <2>1, WeightDefined, DivMod
  <2>3. (n \div Weight[k - i]) % ByteValues \in 0 .. ByteValues - 1
    BY <2>2, DivMod
  <2> QED BY <2>3 DEF ByteAt, Byte
<1>2. BytesOf(n, k) \in [1 .. k -> Byte]
  BY <1>1 DEF BytesOf
<1>3. BytesOf(n, k) \in Seq(Byte) /\ Len(BytesOf(n, k)) = k
  BY <1>2, FunctionIsSeq
<1> QED BY <1>3 DEF BytesOf, ByteAt

(* The bytes of a number make that number again, *)
LEMMA NumberOfBytes ==
    ASSUME NEW k \in 0 .. 8, NEW n \in 0 .. Weight[k] - 1
    PROVE  Number(BytesOf(n, k)) = n
<1> DEFINE q == BytesOf(n, k)
           u == UpToByte(q)
           T == {i \in Nat : i <= k => u[i] = n \div Weight[k - i]}
<1>1. n \in Nat /\ Weight[k] \in Nat \ {0} /\ n < Weight[k] /\ Weight[0] = 1
  BY WeightDefined
<1>2. /\ q \in Seq(Byte) /\ Len(q) = k
      /\ \A i \in 1 .. k : q[i] = (n \div Weight[k - i]) % ByteValues
  BY <1>1, BytesType
<1> HIDE DEF q
<1>3. u[0] = 0 /\ \A i \in 1 .. k : u[i] = u[i - 1] * ByteValues + q[i]
  BY <1>2, UpToByteDefined
<1> HIDE DEF u
<1>4. 0 \in T
  <2>1. n = Weight[k] * 0 + n /\ n \in 0 .. Weight[k] - 1
    BY <1>1
  <2>2. n \div Weight[k] = 0
    BY <1>1, <2>1, Divided
  <2> QED BY <1>3, <2>2
<1>5. ASSUME NEW i \in Nat, i \in T PROVE i + 1 \in T
  <2> SUFFICES ASSUME i + 1 <= k PROVE u[i + 1] = n \div Weight[k - (i + 1)]
    OBVIOUS
  <2> DEFINE d == Weight[k - (i + 1)]
  <2>1. /\ i + 1 \in 1 .. k /\ (i + 1) - 1 = i /\ u[i] = n \div Weight[k - i]
        /\ k - i \in 1 .. 8 /\ (k - i) - 1 = k - (i + 1) /\ k - (i + 1) \in 0 .. 8
    BY <1>5
  <2>2. d \in Nat \ {0} /\ Weight[k - i] = d * ByteValues
    BY <2>1, WeightDefined
  <2>3. u[i + 1] = u[i] * ByteValues + ((n \div d) % ByteValues)
    BY <1>2, <1>3, <2>1
  <2> HIDE DEF d
  <2>4. n \div Weight[k - i] = (n \div d) \div ByteValues
    <3>1. n \div (d * ByteValues) = (n \div d) \div ByteValues
      BY <1>1, <2>2, DividedTwice
    <3> QED BY <2>2, <3>1
  <2>5. PICK x \in Nat : x = n \div d
    BY <1>1, <2>2, DivMod
  <2>6. /\ x \div ByteValues \in Nat
        /\ x = ByteValues * (x \div ByteValues) + (x % ByteValues)
    BY DivMod
  <2>7. (x \div ByteValues) * ByteValues = ByteValues * (x \div ByteValues)
    BY <2>6, Product
  <2>8. u[i + 1] = x
    BY <2>1, <2>3, <2>4, <2>5, <2>6, <2>7
  <2> QED BY <2>5, <2>8 DEF d
<1> HIDE DEF T
<1>6. k \in T
  BY <1>4, <1>5, Induction
<1>7. u[k] = n \div Weight[0]
  BY <1>6 DEF T
<1>8. u[k] = n
  BY <1>1, <1>7
<1> QED BY <1>2, <1>8, NumberIs DEF q, u

(* and the number some bytes make has those bytes. *)
LEMMA BytesOfNumber ==
    ASSUME NEW q \in Seq(Byte), Len(q) <= 8
    PROVE  BytesOf(Number(q), Len(q)) = q
<1> DEFINE u == UpToByte(q)
           k == Len(q)
           n == Number(q)
           T == {j \in Nat : j <= k => n \div Weight[j] = u[k - j]}
<1>1. /\ k \in Nat /\ k <= 8 /\ \A i \in 1 .. k : q[i] \in Nat /\ q[i] < ByteValues
      /\ n \in Nat /\ n = u[k]
  BY BytesBelow, NumberBelow, NumberIs
<1>2. /\ u[0] = 0 /\ \A i \in 1 .. k : u[i] = u[i - 1] * ByteValues + q[i]
      /\ \A i \in 0 .. k : u[i] \in Nat
      /\ \A i \in 0 .. k : u[i] < Weight[i]
  BY UpToByteDefined, UpToByteBelow
<1> HIDE DEF u, n, k
<1>3. ASSUME NEW i \in 1 .. k
      PROVE  u[i] \div ByteValues = u[i - 1] /\ u[i] % ByteValues = q[i]
  <2>1. /\ i - 1 \in 0 .. k /\ i - 1 \in 0 .. 8 /\ u[i - 1] \in Nat /\ u[i - 1] < Weight[i - 1]
        /\ q[i] \in Nat /\ q[i] < ByteValues /\ u[i] = u[i - 1] * ByteValues + q[i]
    BY <1>1, <1>2
  <2>2. Weight[i - 1] \in Nat \ {0}
    BY <2>1, WeightDefined
  <2>3. /\ (u[i - 1] * ByteValues + q[i]) \div ByteValues = u[i - 1]
        /\ (u[i - 1] * ByteValues + q[i]) % ByteValues = q[i]
    BY <2>1, <2>2, OneByteMore
  <2> QED BY <2>1, <2>3
<1>4. 0 \in T
  <2>1. n \div Weight[0] = n
    <3>1. n \in Nat
      BY <1>1
    <3>2. n = 1 * n + 0
      BY <3>1
    <3>3. n \div 1 = n
      BY <3>1, <3>2, Divided
    <3> QED BY <3>3, WeightDefined
  <2> QED BY <1>1, <2>1
<1>5. ASSUME NEW j \in Nat, j \in T PROVE j + 1 \in T
  <2> SUFFICES ASSUME j + 1 <= k PROVE n \div Weight[j + 1] = u[k - (j + 1)]
    OBVIOUS
  <2>1. /\ j + 1 \in 1 .. 8 /\ (j + 1) - 1 = j /\ j \in 0 .. 8 /\ n \div Weight[j] = u[k - j]
        /\ k - j \in 1 .. k /\ (k - j) - 1 = k - (j + 1)
    BY <1>1, <1>5
  <2>2. Weight[j + 1] = Weight[j] * ByteValues /\ Weight[j] \in Nat \ {0}
    BY <2>1, WeightDefined
  <2>3. n \div Weight[j + 1] = (n \div Weight[j]) \div ByteValues
    <3>1. n \div (Weight[j] * ByteValues) = (n \div Weight[j]) \div ByteValues
      BY <1>1, <2>2, DividedTwice
    <3> QED BY <2>2, <3>1
  <2>4. u[k - j] \div ByteValues = u[(k - j) - 1]
    BY <1>3, <2>1
  <2> QED BY <2>1, <2>3, <2>4
<1> HIDE DEF T
<1>6. Nat \subseteq T
  BY <1>4, <1>5, Induction
<1>7. /\ BytesOf(n, k) \in Seq(Byte) /\ Len(BytesOf(n, k)) = k
      /\ \A i \in 1 .. k : BytesOf(n, k)[i] = (n \div Weight[k - i]) % ByteValues
  <2>1. k \in 0 .. 8
    BY <1>1
  <2> QED BY <1>1, <2>1, BytesType
<1>8. ASSUME NEW i \in 1 .. k PROVE BytesOf(n, k)[i] = q[i]
  <2>1. k - i \in Nat /\ k - i <= k /\ k - (k - i) = i
    BY <1>1
  <2>2. n \div Weight[k - i] = u[i]
    BY <1>6, <2>1 DEF T
  <2> QED BY <1>3, <1>7, <2>2
<1>9. BytesOf(n, k) = q
  <2> DEFINE r == BytesOf(n, k)
  <2>1. r \in Seq(Byte) /\ Len(r) = Len(q) /\ \A i \in 1 .. Len(r) : r[i] = q[i]
    BY <1>7, <1>8 DEF k
  <2> HIDE DEF r
  <2>2. r = q
    BY <2>1, SeqEqual
  <2> QED BY <2>2 DEF r
<1> QED BY <1>9 DEF n, k

(* Turning the bytes of a number around twice changes nothing. *)
LEMMA ToNetworkTwice ==
    ASSUME NEW k \in 0 .. 8, NEW n \in 0 .. Weight[k] - 1, NEW order
    PROVE  /\ ToNetwork(n, k, order) \in 0 .. Weight[k] - 1
           /\ ToNetwork(ToNetwork(n, k, order), k, order) = n
<1>1. n \in Nat /\ Weight[k] \in Nat \ {0}
  BY WeightDefined
<1>2. CASE order # "little"
  BY <1>2 DEF ToNetwork
<1>3. CASE order = "little"
  <2> DEFINE q == BytesOf(n, k)
             r == Reverse(q)
  <2>1. q \in Seq(Byte) /\ Len(q) = k /\ Number(q) = n
    BY <1>1, BytesType, NumberOfBytes
  <2> HIDE DEF q
  <2>2. r = [i \in 1 .. k |-> q[(k - i) + 1]]
    BY <2>1 DEF Reverse
  <2>3. \A i \in 1 .. k : q[i] \in Byte /\ (k - i) + 1 \in 1 .. k
    BY <2>1, ElementOfSeq
  <2>4. r \in Seq(Byte) /\ Len(r) = k
    <3>1. r \in [1 .. k -> Byte]
      BY <2>2, <2>3
    <3> HIDE DEF r
    <3> QED BY <3>1, FunctionIsSeq
  <2>5. Reverse(r) = [i \in 1 .. k |-> r[(k - i) + 1]]
    <3> HIDE DEF r
    <3> QED BY <2>4 DEF Reverse
  <2> HIDE DEF r
  <2>6. Reverse(r) = q
    <3>1. \A i \in 1 .. k : (k - i) + 1 \in 1 .. k /\ (k - ((k - i) + 1)) + 1 = i
      OBVIOUS
    <3>2. \A i \in 1 .. k : r[(k - i) + 1] = q[i]
      BY <2>2, <3>1
    <3>3. q = [i \in 1 .. k |-> q[i]]
      BY <2>1, LenProperties
    <3> QED BY <2>5, <3>2, <3>3
  <2>7. Number(r) \in 0 .. Weight[k] - 1 /\ BytesOf(Number(r), k) = r
    <3>1. Len(r) <= 8
      BY <2>4
    <3> QED BY <1>1, <2>4, <3>1, NumberBelow, BytesOfNumber
  <2>8. /\ ToNetwork(n, k, order) = Number(r)
        /\ ToNetwork(Number(r), k, order) = Number(Reverse(r))
    BY <1>3, <2>7 DEF ToNetwork, r, q
  <2> QED BY <2>1, <2>6, <2>7, <2>8
<1> QED BY <1>2, <1>3

LEMMA ConvertsInt32 ==
    ASSUME NEW n \in UInt32, NEW order
    PROVE  /\ Int32ToChar(n, order) \in Seq(Byte) /\ Len(Int32ToChar(n, order)) = 4
           /\ CharToInt32(Int32ToChar(n, order), order) = n
<1> DEFINE m == ToNetwork(n, 4, order)
<1>1. 4 \in 0 .. 8 /\ n \in 0 .. Weight[4] - 1 /\ Weight[4] \in Nat
  BY WeightDefined DEF UInt32
<1>2. m \in 0 .. Weight[4] - 1 /\ ToNetwork(m, 4, order) = n
  BY <1>1, ToNetworkTwice
<1>3. Int32ToChar(n, order) = BytesOf(m, 4)
  BY DEF Int32ToChar
<1> HIDE DEF m
<1>4. BytesOf(m, 4) \in Seq(Byte) /\ Len(BytesOf(m, 4)) = 4 /\ Number(BytesOf(m, 4)) = m
  <2>1. m \in Nat
    BY <1>1, <1>2
  <2> QED BY <1>1, <1>2, <2>1, BytesType, NumberOfBytes
<1> QED BY <1>2, <1>3, <1>4 DEF CharToInt32

(* The first and the last four of eight bytes, each a number of its own. *)
LEMMA Halves ==
    ASSUME NEW q \in Seq(Byte), Len(q) = 8
    PROVE  LET upper == SubSeq(q, 1, 4)
               lower == SubSeq(q, 5, 8) IN
           /\ upper \in Seq(Byte) /\ Len(upper) = 4
           /\ lower \in Seq(Byte) /\ Len(lower) = 4 /\ lower[1] = q[5]
           /\ Number(q) = Number(upper) * Weight[4] + Number(lower)
<1> DEFINE a == SubSeq(q, 1, 4)
           b == SubSeq(q, 5, 8)
           u == UpToByte(q)
           v == UpToByte(a)
           w == UpToByte(b)
<1>1. \A i \in 1 .. 8 : q[i] \in Byte /\ q[i] \in Nat
  <2>1. \A i \in 1 .. Len(q) : q[i] \in Byte
    BY ElementOfSeq
  <2>2. \A i \in 1 .. 8 : q[i] \in Byte
    BY <2>1
  <2>3. Byte \subseteq Nat
    BY DEF Byte
  <2> QED BY <2>2, <2>3
<1>2. a \in Seq(Byte) /\ Len(a) = 4 /\ \A i \in 1 .. 4 : a[i] = q[i]
  <2>1. \A i \in 1 .. 4 : q[i] \in Byte
    BY SMTT(30), <1>1
  <2>2. a \in Seq(Byte) /\ Len(a) = 4 /\ \A i \in 1 .. 4 - 1 + 1 : a[i] = q[1 + i - 1]
    BY <2>1, SubSeqProperties
  <2> HIDE DEF a
  <2> QED BY <2>2
<1>3. b \in Seq(Byte) /\ Len(b) = 4 /\ \A i \in 1 .. 4 : b[i] = q[4 + i]
  <2>1. \A i \in 5 .. 8 : q[i] \in Byte
    BY SMTT(30), <1>1
  <2>2. b \in Seq(Byte) /\ Len(b) = 8 - 5 + 1 /\ \A i \in 1 .. 8 - 5 + 1 : b[i] = q[5 + i - 1]
    BY <2>1, SubSeqProperties
  <2> HIDE DEF b
  <2> QED BY <2>2
<1> HIDE DEF a, b
<1>4. /\ u[0] = 0
      /\ \A i \in 1 .. 8 : u[i] = u[i - 1] * ByteValues + q[i]
      /\ \A i \in 0 .. 8 : u[i] \in Nat
  BY UpToByteDefined
<1>5. /\ v[0] = 0 /\ \A i \in 1 .. 4 : v[i] = v[i - 1] * ByteValues + q[i]
      /\ \A i \in 0 .. 4 : v[i] \in Nat
  <2>1. /\ v[0] = 0 /\ \A i \in 1 .. Len(a) : v[i] = v[i - 1] * ByteValues + a[i]
        /\ \A i \in 0 .. Len(a) : v[i] \in Nat
    BY <1>2, UpToByteDefined
  <2> HIDE DEF v
  <2> QED BY <1>2, <2>1
<1>6. /\ w[0] = 0 /\ \A i \in 1 .. 4 : w[i] = w[i - 1] * ByteValues + q[4 + i]
      /\ \A i \in 0 .. 4 : w[i] \in Nat
  <2>1. /\ w[0] = 0 /\ \A i \in 1 .. Len(b) : w[i] = w[i - 1] * ByteValues + b[i]
        /\ \A i \in 0 .. Len(b) : w[i] \in Nat
    BY <1>3, UpToByteDefined
  <2> HIDE DEF w
  <2> QED BY <1>3, <2>1
<1>7. Number(q) = u[8] /\ Number(a) = v[4] /\ Number(b) = w[4]
  BY <1>2, <1>3, NumberIs
<1> HIDE DEF u, v, w
<1>8. v[4] = u[4]
  <2>1. ASSUME NEW i \in 1 .. 4, v[i - 1] = u[i - 1] PROVE v[i] = u[i]
    <3>1. i \in 1 .. 8
      OBVIOUS
    <3> QED BY <1>4, <1>5, <2>1, <3>1
  <2>2. v[1 - 1] = u[1 - 1] /\ 1 \in 1 .. 4 /\ 2 \in 1 .. 4 /\ 3 \in 1 .. 4 /\ 4 \in 1 .. 4
    BY SMTT(30), <1>4, <1>5
  <2>3. v[2 - 1] = u[2 - 1]
    <3>1. v[1] = u[1]
      BY <2>1, <2>2
    <3> QED BY <3>1
  <2>4. v[3 - 1] = u[3 - 1]
    <3>1. v[2] = u[2]
      BY <2>1, <2>2, <2>3
    <3> QED BY <3>1
  <2>5. v[4 - 1] = u[4 - 1]
    <3>1. v[3] = u[3]
      BY <2>1, <2>2, <2>4
    <3> QED BY <3>1
  <2> QED BY <2>1, <2>2, <2>5
<1> DEFINE T == {i \in Nat : i <= 4 => u[4 + i] = u[4] * Weight[i] + w[i]}
<1>9. 0 \in T
  <2>1. u[4] \in Nat /\ w[0] = 0 /\ Weight[0] = 1
    BY <1>4, <1>6, WeightDefined
  <2> QED BY <2>1
<1>10. ASSUME NEW i \in Nat, i \in T PROVE i + 1 \in T
  <2> SUFFICES ASSUME i + 1 <= 4 PROVE u[4 + (i + 1)] = u[4] * Weight[i + 1] + w[i + 1]
    OBVIOUS
  <2>1. /\ i + 1 \in 1 .. 4 /\ i + 1 \in 1 .. 8 /\ (i + 1) - 1 = i /\ i \in 0 .. 8 /\ i \in 0 .. 4
        /\ 4 + (i + 1) \in 1 .. 8 /\ (4 + (i + 1)) - 1 = 4 + i
        /\ u[4 + i] = u[4] * Weight[i] + w[i]
    BY <1>10
  <2>2. /\ u[4 + (i + 1)] = u[4 + i] * ByteValues + q[4 + (i + 1)]
        /\ w[i + 1] = w[i] * ByteValues + q[4 + (i + 1)]
        /\ Weight[i + 1] = Weight[i] * ByteValues
        /\ q[4 + (i + 1)] \in Nat /\ u[4] \in Nat /\ w[i] \in Nat /\ Weight[i] \in Nat
    <3>1. u[4 + (i + 1)] = u[(4 + (i + 1)) - 1] * ByteValues + q[4 + (i + 1)]
      BY <1>4, <2>1
    <3>2. w[i + 1] = w[(i + 1) - 1] * ByteValues + q[4 + (i + 1)]
      BY <1>6, <2>1
    <3>3. Weight[i + 1] = Weight[(i + 1) - 1] * ByteValues /\ Weight[i] \in Nat
      BY <2>1, WeightDefined
    <3>4. q[4 + (i + 1)] \in Nat /\ w[i] \in Nat
      BY <1>1, <1>6, <2>1
    <3>5. u[4] \in Nat
      BY <1>4
    <3> QED BY <2>1, <3>1, <3>2, <3>3, <3>4, <3>5
  <2>3. PICK x \in Nat : x = u[4]
    BY <2>2
  <2>4. PICK y \in Nat : y = Weight[i]
    BY <2>2
  <2>5. PICK z \in Nat : z = w[i]
    BY <2>2
  <2>6. (x * y + z) * ByteValues = x * (y * ByteValues) + z * ByteValues
    OBVIOUS
  <2>7. x * (y * ByteValues) \in Nat /\ z * ByteValues \in Nat
    BY Product
  <2> DEFINE f == x * (y * ByteValues)  g == z * ByteValues  h == q[4 + (i + 1)]
  <2>8. /\ u[4 + (i + 1)] = (f + g) + h /\ w[i + 1] = g + h /\ u[4] * Weight[i + 1] = f
        /\ f \in Nat /\ g \in Nat /\ h \in Nat
    BY <2>1, <2>2, <2>3, <2>4, <2>5, <2>6, <2>7
  <2> HIDE DEF f, g, h
  <2> QED BY <2>8
<1> HIDE DEF T
<1>11. 4 \in T
  BY <1>9, <1>10, Induction
<1>12. u[8] = u[4] * Weight[4] + w[4]
  BY <1>11 DEF T
<1> QED BY <1>2, <1>3, <1>7, <1>8, <1>12 DEF a, b

(* What the lower four bytes make, the first of them not negative as a     *)
(* char, is not negative as an int.                                        *)
LEMMA LowerHalf ==
    ASSUME NEW q \in Seq(Byte), Len(q) = 4, q[1] < ByteValues \div 2
    PROVE  AsInt(Number(q)) = Number(q)
<1> DEFINE u == UpToByte(q)
           h == ByteValues \div 2
           T == {i \in Nat : i + 1 <= 4 => u[i + 1] < h * Weight[i]}
<1>1. h \in Nat /\ ByteValues = h * 2 /\ h # 0
  BY ByteAssumption
<1>2. \A i \in 1 .. 4 : q[i] \in Nat /\ q[i] < ByteValues
  BY BytesBelow
<1>3. /\ u[0] = 0 /\ \A i \in 1 .. 4 : u[i] = u[i - 1] * ByteValues + q[i]
      /\ \A i \in 0 .. 4 : u[i] \in Nat
  BY UpToByteDefined
<1>4. Number(q) = u[4]
  BY NumberIs
<1>5. q[1] < h
  OBVIOUS
<1> HIDE DEF u, h
<1>6. 0 \in T
  <2>1. u[1] = q[1]
    <3>1. 1 \in 1 .. 4 /\ q[1] \in Nat
      BY <1>2
    <3>2. u[1] = u[1 - 1] * ByteValues + q[1]
      BY <1>3, <3>1
    <3> QED BY <1>3, <3>1, <3>2
  <2>2. h * Weight[0] = h
    BY <1>1, WeightDefined
  <2> QED BY <1>5, <2>1, <2>2
<1>7. ASSUME NEW i \in Nat, i \in T PROVE i + 1 \in T
  <2> SUFFICES ASSUME (i + 1) + 1 <= 4 PROVE u[(i + 1) + 1] < h * Weight[i + 1]
    OBVIOUS
  <2>1. /\ i + 1 \in 1 .. 8 /\ (i + 1) - 1 = i /\ i \in 0 .. 8 /\ i + 1 \in 0 .. 4
        /\ (i + 1) + 1 \in 1 .. 4 /\ ((i + 1) + 1) - 1 = i + 1
        /\ u[i + 1] < h * Weight[i]
    BY <1>7
  <2>2. /\ Weight[i + 1] = Weight[i] * ByteValues /\ Weight[i] \in Nat \ {0}
    BY <2>1, WeightDefined
  <2>3. u[(i + 1) + 1] = u[i + 1] * ByteValues + q[(i + 1) + 1] /\ u[i + 1] \in Nat
    BY <1>3, <2>1
  <2>4. q[(i + 1) + 1] \in Nat /\ q[(i + 1) + 1] < ByteValues
    BY <1>2, <2>1
  <2>5. h * Weight[i] \in Nat \ {0}
    BY <1>1, <2>2, Product
  <2>6. u[i + 1] * ByteValues + q[(i + 1) + 1] < (h * Weight[i]) * ByteValues
    BY <2>1, <2>3, <2>4, <2>5, OneByteMore
  <2>7. PICK y \in Nat : y = Weight[i]
    BY <2>2
  <2>8. (h * y) * ByteValues = h * (y * ByteValues)
    BY <1>1
  <2> QED BY <2>2, <2>3, <2>6, <2>7, <2>8
<1> HIDE DEF T
<1>8. 3 \in T
  BY <1>6, <1>7, Induction
<1>9. u[4] < h * Weight[3] /\ u[4] \in Nat
  BY <1>3, <1>8 DEF T
<1>10. Weight[4] \div 2 = h * Weight[3]
  <2>1. Weight[3] \in Nat /\ Weight[4] = Weight[3] * ByteValues /\ Weight[4] \in Nat
    <3>1. 4 \in 1 .. 8 /\ 4 - 1 = 3 /\ 3 \in 0 .. 8 /\ 4 \in 0 .. 8
      OBVIOUS
    <3>2. Weight[4] = Weight[4 - 1] * ByteValues
      BY <3>1, WeightDefined
    <3> QED BY <3>1, <3>2, WeightDefined
  <2>2. PICK y \in Nat : y = Weight[3]
    BY <2>1
  <2>3. y * (h * 2) = 2 * (h * y) /\ h * y \in Nat
    BY <1>1, Product
  <2>4. Weight[4] = 2 * (h * y) + 0
    BY <1>1, <2>1, <2>2, <2>3
  <2>5. Weight[4] \div 2 = h * y
    BY <2>1, <2>3, <2>4, Divided
  <2> QED BY <2>2, <2>5
<1>11. ~(Number(q) >= Weight[4] \div 2)
  <2>1. h * Weight[3] \in Nat
    <3>1. 3 \in 0 .. 8
      OBVIOUS
    <3>2. Weight[3] \in Nat
      BY <3>1, WeightDefined
    <3> QED BY <1>1, <3>2, Product
  <2> QED BY <1>4, <1>9, <1>10, <2>1
<1> QED BY <1>11 DEF AsInt

LEMMA ConvertsInt64 ==
    ASSUME NEW n \in UInt64, NEW order, Int64ToChar(n, order)[5] < ByteValues \div 2
    PROVE  CharToInt64(Int64ToChar(n, order), order) = n
<1> DEFINE m == ToNetwork(n, 8, order)
           q == Int64ToChar(n, order)
           upper == SubSeq(q, 1, 4)
           lower == SubSeq(q, 5, 8)
<1>1. 8 \in 0 .. 8 /\ n \in 0 .. Weight[8] - 1 /\ Weight[8] \in Nat \ {0}
  BY WeightDefined DEF UInt64
<1>2. m \in 0 .. Weight[8] - 1 /\ ToNetwork(m, 8, order) = n
  BY <1>1, ToNetworkTwice
<1>3. q = BytesOf(m, 8) /\ q[5] < ByteValues \div 2
  BY DEF Int64ToChar
<1> HIDE DEF m, q
<1>4. q \in Seq(Byte) /\ Len(q) = 8 /\ Number(q) = m
  <2>1. m \in Nat
    BY <1>1, <1>2
  <2> QED BY <1>1, <1>2, <1>3, <2>1, BytesType, NumberOfBytes
<1>5. /\ lower \in Seq(Byte) /\ Len(lower) = 4 /\ lower[1] = q[5]
      /\ Number(q) = Number(upper) * Weight[4] + Number(lower)
  BY <1>4, Halves
<1> HIDE DEF upper, lower
<1>6. AsInt(Number(lower)) = Number(lower)
  BY <1>3, <1>5, LowerHalf
<1>7. (Number(upper) * Weight[4] + AsInt(Number(lower))) % Weight[8] = m
  <2>1. m = Weight[8] * 0 + m /\ m \in Nat
    BY <1>1, <1>2
  <2>2. m % Weight[8] = m
    BY <1>1, <1>2, <2>1, Divided
  <2> QED BY <1>4, <1>5, <1>6, <2>2
<1>8. CharToInt64(q, order) = ToNetwork(m, 8, order)
  BY <1>7 DEF CharToInt64, upper, lower
<1> QED BY <1>2, <1>8 DEF q

-----------------------------------------------------------------------------
(* The header of a frame and its bytes.                                    *)

(* x is c behind a, and both are where they were put. *)
Behind(x, a, c) ==
    /\ x \in Seq(Nat) /\ Len(x) = Len(a) + Len(c)
    /\ SubSeq(x, Len(a) + 1, Len(a) + Len(c)) = c
    /\ \A i \in 1 .. Len(a) : x[i] = a[i]
    /\ \A i \in 1 .. Len(c) : x[Len(a) + i] = c[i]
    /\ \A k \in Nat \ {0}, n \in 1 .. Len(a) : SubSeq(x, k, n) = SubSeq(a, k, n)

LEMMA PutBehind ==
    ASSUME NEW a \in Seq(Nat), NEW c \in Seq(Nat), NEW x, x = a \o c
    PROVE  Behind(x, a, c)
<1> SUFFICES ASSUME NEW l, l = Len(a), NEW d, d = Len(c)
             PROVE  /\ x \in Seq(Nat) /\ Len(x) = l + d
                    /\ SubSeq(x, l + 1, l + d) = c
                    /\ \A i \in 1 .. l : x[i] = a[i]
                    /\ \A i \in 1 .. d : x[l + i] = c[i]
                    /\ \A k \in Nat \ {0}, n \in 1 .. l : SubSeq(x, k, n) = SubSeq(a, k, n)
  BY DEF Behind
<1>1. l \in Nat /\ d \in Nat
  BY LenProperties
<1>2. /\ x \in Seq(Nat) /\ Len(x) = l + d
      /\ \A i \in 1 .. l + d : x[i] = IF i <= l THEN a[i] ELSE c[i - l]
  BY ConcatProperties
<1>3. \A i \in 1 .. l : a[i] \in Nat
  BY ElementOfSeq
<1>4. \A i \in 1 .. l : x[i] = a[i]
  BY <1>1, <1>2
<1>5. ASSUME NEW i \in 1 .. d PROVE x[l + i] = c[i]
  <2>1. l + i \in 1 .. l + d /\ ~(l + i <= l) /\ (l + i) - l = i
    BY <1>1
  <2> QED BY <1>2, <2>1
<1>6. SubSeq(x, l + 1, l + d) = c
  <2> DEFINE r == SubSeq(x, l + 1, l + d)
  <2>1. \A i \in l + 1 .. l + d : x[i] \in Nat
    <3>1. \A i \in 1 .. l + d : x[i] \in Nat
      BY <1>2, ElementOfSeq
    <3> QED BY <1>1, <3>1
  <2>2. /\ r \in Seq(Nat) /\ Len(r) = IF l + 1 <= l + d THEN (l + d) - (l + 1) + 1 ELSE 0
        /\ \A i \in 1 .. (l + d) - (l + 1) + 1 : r[i] = x[(l + 1) + i - 1]
    BY <1>1, <1>2, <2>1, SubSeqProperties
  <2> HIDE DEF r
  <2>3. Len(r) = d
    BY <1>1, <2>2
  <2>4. ASSUME NEW i \in 1 .. d PROVE r[i] = x[l + i]
    <3>1. i \in 1 .. (l + d) - (l + 1) + 1 /\ (l + 1) + i - 1 = l + i
      BY <1>1
    <3> QED BY <2>2, <3>1
  <2>5. \A i \in 1 .. d : r[i] = c[i]
    BY <1>5, <2>4
  <2>6. r = c
    BY <2>2, <2>3, <2>5, SeqEqual
  <2> QED BY <2>6 DEF r
<1>7. ASSUME NEW k \in Nat \ {0}, NEW n \in 1 .. l
      PROVE  SubSeq(x, k, n) = SubSeq(a, k, n)
  <2> DEFINE r == SubSeq(x, k, n)  t == SubSeq(a, k, n)
  <2>1. \A i \in k .. n : a[i] \in Nat /\ x[i] = a[i]
    BY <1>1, <1>3, <1>4
  <2>2. /\ r \in Seq(Nat) /\ Len(r) = IF k <= n THEN n - k + 1 ELSE 0
        /\ \A i \in 1 .. n - k + 1 : r[i] = x[k + i - 1]
    BY <1>1, <1>2, <2>1, SubSeqProperties
  <2>3. /\ t \in Seq(Nat) /\ Len(t) = IF k <= n THEN n - k + 1 ELSE 0
        /\ \A i \in 1 .. n - k + 1 : t[i] = a[k + i - 1]
    BY <1>1, <2>1, SubSeqProperties
  <2> HIDE DEF r, t
  <2>4. Len(r) = Len(t) /\ \A i \in 1 .. Len(r) : i \in 1 .. n - k + 1
    BY <1>1, <2>2, <2>3
  <2>5. \A i \in 1 .. n - k + 1 : k + i - 1 \in k .. n
    BY <1>1
  <2>6. \A i \in 1 .. Len(r) : r[i] = t[i]
    BY <2>1, <2>2, <2>3, <2>4, <2>5
  <2>7. r = t
    BY <2>2, <2>3, <2>4, <2>6, SeqEqual
  <2> QED BY <2>7 DEF r, t
<1> QED BY <1>2, <1>4, <1>5, <1>6, <1>7

(* The 34 bytes of x are these. *)
HasParts(x, V, h, t, C, T, D, R) ==
    /\ SubSeq(x, 1, 4) = V /\ x[5] = h /\ x[6] = t
    /\ SubSeq(x, 7, 22) = C /\ SubSeq(x, 23, 26) = T
    /\ SubSeq(x, 27, 30) = D /\ SubSeq(x, 31, 34) = R

LEMMA HeaderParts ==
    ASSUME NEW V \in Seq(Nat), Len(V) = 4, NEW h \in Nat, NEW t \in Nat,
           NEW C \in Seq(Nat), Len(C) = 16, NEW T \in Seq(Nat), Len(T) = 4,
           NEW D \in Seq(Nat), Len(D) = 4, NEW R \in Seq(Nat), Len(R) = 4,
           NEW x, x = V \o <<h, t>> \o C \o T \o D \o R
    PROVE  HasParts(x, V, h, t, C, T, D, R)
<1>1. <<h, t>> \in Seq(Nat) /\ Len(<<h, t>>) = 2 /\ <<h, t>>[1] = h /\ <<h, t>>[2] = t
  OBVIOUS
<1>2. PICK b \in Seq(Nat) : b = <<h, t>> /\ Len(b) = 2 /\ b[1] = h /\ b[2] = t
  BY <1>1
<1>3. PICK x2 : x2 = V \o b
  OBVIOUS
<1>4. PICK x3 : x3 = x2 \o C
  OBVIOUS
<1>5. PICK x4 : x4 = x3 \o T
  OBVIOUS
<1>6. PICK x5 : x5 = x4 \o D
  OBVIOUS
<1>7. x = x5 \o R
  BY <1>2, <1>3, <1>4, <1>5, <1>6
<1>8. PICK x6 : x6 = x5 \o R
  OBVIOUS
<1>9. /\ x2 \in Seq(Nat) /\ Len(x2) = 6 /\ x2[5] = h /\ x2[6] = t
      /\ SubSeq(x2, 1, 4) = V
  <2>1. Behind(x2, V, b)
    BY <1>2, <1>3, PutBehind
  <2>2. /\ x2 \in Seq(Nat) /\ Len(x2) = 4 + 2
        /\ \A i \in 1 .. 2 : x2[4 + i] = b[i]
        /\ \A k \in Nat \ {0}, n \in 1 .. 4 : SubSeq(x2, k, n) = SubSeq(V, k, n)
    BY <1>2, <1>3, <2>1 DEF Behind
  <2>3. SubSeq(V, 1, 4) = V
    BY SubSeqFull
  <2>4. x2[4 + 1] = h /\ x2[4 + 2] = t /\ SubSeq(x2, 1, 4) = SubSeq(V, 1, 4)
    <3>1. x2[4 + 1] = b[1] /\ x2[4 + 2] = b[2]
      BY <2>2
    <3>2. SubSeq(x2, 1, 4) = SubSeq(V, 1, 4)
      <4>1. 1 \in Nat \ {0} /\ 4 \in 1 .. 4
        OBVIOUS
      <4>2. \A k \in Nat \ {0}, n \in 1 .. 4 : SubSeq(x2, k, n) = SubSeq(V, k, n)
        BY <2>2
      <4> QED BY ONLY <4>1, <4>2
    <3> QED BY <1>2, <3>1, <3>2
  <2> QED BY <2>2, <2>3, <2>4
<1>10. /\ x3 \in Seq(Nat) /\ Len(x3) = 22 /\ x3[5] = h /\ x3[6] = t
      /\ SubSeq(x3, 1, 4) = V /\ SubSeq(x3, 7, 22) = C
  <2>1. Behind(x3, x2, C)
    BY <1>4, <1>9, PutBehind
  <2>2. /\ x3 \in Seq(Nat) /\ Len(x3) = 6 + 16 /\ SubSeq(x3, 6 + 1, 6 + 16) = C
        /\ \A i \in 1 .. 6 : x3[i] = x2[i]
        /\ \A k \in Nat \ {0}, n \in 1 .. 6 : SubSeq(x3, k, n) = SubSeq(x2, k, n)
    BY <1>4, <1>9, <2>1 DEF Behind
  <2> QED BY <1>9, <2>2
<1>11. /\ x4 \in Seq(Nat) /\ Len(x4) = 26 /\ x4[5] = h /\ x4[6] = t
       /\ SubSeq(x4, 1, 4) = V /\ SubSeq(x4, 7, 22) = C /\ SubSeq(x4, 23, 26) = T
  <2>1. Behind(x4, x3, T)
    BY <1>5, <1>10, PutBehind
  <2>2. /\ x4 \in Seq(Nat) /\ Len(x4) = 22 + 4 /\ SubSeq(x4, 22 + 1, 22 + 4) = T
        /\ \A i \in 1 .. 22 : x4[i] = x3[i]
        /\ \A k \in Nat \ {0}, n \in 1 .. 22 : SubSeq(x4, k, n) = SubSeq(x3, k, n)
    BY <1>5, <1>10, <2>1 DEF Behind
  <2> QED BY <1>10, <2>2
<1>12. /\ x5 \in Seq(Nat) /\ Len(x5) = 30 /\ x5[5] = h /\ x5[6] = t
       /\ SubSeq(x5, 1, 4) = V /\ SubSeq(x5, 7, 22) = C /\ SubSeq(x5, 23, 26) = T
       /\ SubSeq(x5, 27, 30) = D
  <2>1. Behind(x5, x4, D)
    BY <1>6, <1>11, PutBehind
  <2>2. /\ x5 \in Seq(Nat) /\ Len(x5) = 26 + 4 /\ SubSeq(x5, 26 + 1, 26 + 4) = D
        /\ \A i \in 1 .. 26 : x5[i] = x4[i]
        /\ \A k \in Nat \ {0}, n \in 1 .. 26 : SubSeq(x5, k, n) = SubSeq(x4, k, n)
    BY <1>6, <1>11, <2>1 DEF Behind
  <2>3. x5[5] = h /\ x5[6] = t /\ SubSeq(x5, 27, 30) = D
    BY <1>11, <2>2
  <2>4. SubSeq(x5, 1, 4) = V /\ SubSeq(x5, 7, 22) = C /\ SubSeq(x5, 23, 26) = T
    <3>1. /\ 1 \in Nat \ {0} /\ 4 \in 1 .. 26 /\ 7 \in Nat \ {0} /\ 22 \in 1 .. 26
          /\ 23 \in Nat \ {0} /\ 26 \in 1 .. 26
      OBVIOUS
    <3>2. \A k \in Nat \ {0}, n \in 1 .. 26 : SubSeq(x5, k, n) = SubSeq(x4, k, n)
      BY <2>2
    <3>3. /\ SubSeq(x5, 1, 4) = SubSeq(x4, 1, 4) /\ SubSeq(x5, 7, 22) = SubSeq(x4, 7, 22)
          /\ SubSeq(x5, 23, 26) = SubSeq(x4, 23, 26)
      BY ONLY <3>1, <3>2
    <3> QED BY <1>11, <3>3
  <2>5. x5 \in Seq(Nat) /\ Len(x5) = 30
    BY <2>2
  <2> QED BY <2>3, <2>4, <2>5
<1>13. /\ x6 \in Seq(Nat) /\ Len(x6) = 34 /\ x6[5] = h /\ x6[6] = t
       /\ SubSeq(x6, 1, 4) = V /\ SubSeq(x6, 7, 22) = C /\ SubSeq(x6, 23, 26) = T
       /\ SubSeq(x6, 27, 30) = D /\ SubSeq(x6, 31, 34) = R
  <2>1. Behind(x6, x5, R)
    BY <1>8, <1>12, PutBehind
  <2>2. /\ x6 \in Seq(Nat) /\ Len(x6) = 30 + 4 /\ SubSeq(x6, 30 + 1, 30 + 4) = R
        /\ \A i \in 1 .. 30 : x6[i] = x5[i]
        /\ \A k \in Nat \ {0}, n \in 1 .. 30 : SubSeq(x6, k, n) = SubSeq(x5, k, n)
    BY <1>8, <1>12, <2>1 DEF Behind
  <2>3. x6[5] = h /\ x6[6] = t /\ SubSeq(x6, 31, 34) = R
    <3>1. 5 \in 1 .. 30 /\ 6 \in 1 .. 30
      OBVIOUS
    <3>2. x6[5] = x5[5] /\ x6[6] = x5[6]
      BY <2>2, <3>1
    <3>3. SubSeq(x6, 31, 34) = R
      BY <2>2
    <3> QED BY <1>12, <3>2, <3>3
  <2>4. SubSeq(x6, 1, 4) = V /\ SubSeq(x6, 7, 22) = C
    <3>1. 1 \in Nat \ {0} /\ 4 \in 1 .. 30 /\ 7 \in Nat \ {0} /\ 22 \in 1 .. 30
      OBVIOUS
    <3>2. \A k \in Nat \ {0}, n \in 1 .. 30 : SubSeq(x6, k, n) = SubSeq(x5, k, n)
      BY <2>2
    <3>3. /\ SubSeq(x6, 1, 4) = SubSeq(x5, 1, 4)
          /\ SubSeq(x6, 7, 22) = SubSeq(x5, 7, 22)
      BY ONLY <3>1, <3>2
    <3> QED BY <1>12, <3>3
  <2>5. SubSeq(x6, 23, 26) = T /\ SubSeq(x6, 27, 30) = D
    <3>1. 23 \in Nat \ {0} /\ 26 \in 1 .. 30 /\ 27 \in Nat \ {0} /\ 30 \in 1 .. 30
      OBVIOUS
    <3>2. \A k \in Nat \ {0}, n \in 1 .. 30 : SubSeq(x6, k, n) = SubSeq(x5, k, n)
      BY <2>2
    <3>3. /\ SubSeq(x6, 23, 26) = SubSeq(x5, 23, 26)
          /\ SubSeq(x6, 27, 30) = SubSeq(x5, 27, 30)
      BY ONLY <3>1, <3>2
    <3> QED BY <1>12, <3>3
  <2>6. x6 \in Seq(Nat) /\ Len(x6) = 34
    BY <2>2
  <2> QED BY <2>3, <2>4, <2>5, <2>6
<1>14. x = x6
  BY <1>7, <1>8
<1> QED BY <1>13, <1>14 DEF HasParts

LEMMA ConvertsHeader ==
    ASSUME NEW n \in UInt32, NEW l \in UInt32, NEW order
    PROVE  CharToNetPacket(NetPacketToChar(APacket(n, l), order), order)
               = Received32(APacket(n, l))
<1> DEFINE p == APacket(n, l)
           V == Int32ToChar(1, order)
           T == Int32ToChar(n, order)
           D == Int32ToChar(l, order)
           R == Int32ToChar(Weight[4] - 2, order)
           C == [i \in 1 .. 16 |-> i % ByteValues]
           x == NetPacketToChar(p, order)
<1>1. 1 \in UInt32 /\ Weight[4] - 2 \in UInt32
  <2>1. 4 \in 1 .. 8 /\ 4 - 1 = 3 /\ 3 \in 0 .. 8
    OBVIOUS
  <2>2. Weight[4] = Weight[4 - 1] * ByteValues
    BY <2>1, WeightDefined
  <2>3. Weight[3] \in Nat /\ Weight[3] >= 1
    BY <2>1, WeightDefined
  <2>4. ByteValues \in Nat /\ ByteValues >= 2
    BY ByteAssumption
  <2>5. Weight[3] * ByteValues >= ByteValues
    <3>1. ByteValues * 0 + ByteValues <= ByteValues * Weight[3]
      BY <2>3, <2>4, Stretch
    <3>2. Weight[3] * ByteValues = ByteValues * Weight[3]
      BY <2>3, <2>4, Product
    <3> QED BY <2>4, <3>1, <3>2
  <2>6. Weight[3] * ByteValues \in Nat
    BY <2>3, <2>4, Product
  <2> QED BY <2>1, <2>2, <2>4, <2>5, <2>6 DEF UInt32
<1>2. Byte \subseteq Nat
  BY DEF Byte
<1>3. \A m \in UInt32 :
          /\ Int32ToChar(m, order) \in Seq(Byte) /\ Len(Int32ToChar(m, order)) = 4
          /\ CharToInt32(Int32ToChar(m, order), order) = m
  BY ConvertsInt32
<1>4. \A m \in UInt32 : Int32ToChar(m, order) \in Seq(Nat)
  <2>1. \A q \in Seq(Byte) : q \in Seq(Nat)
    BY <1>2, SeqMonotonic
  <2> QED BY <1>3, <2>1
<1>5. C \in Seq(Nat) /\ Len(C) = 16
  <2>1. \A i \in 1 .. 16 : i % ByteValues \in Nat
    BY DivMod
  <2>2. C \in [1 .. 16 -> Nat]
    BY <2>1
  <2> HIDE DEF C
  <2> QED BY <2>2, FunctionIsSeq
<1>6. x = V \o <<2, 3>> \o C \o T \o D \o R
  BY DEF NetPacketToChar, APacket
<1>7. /\ CharToInt32(V, order) = 1 /\ CharToInt32(T, order) = n
      /\ CharToInt32(D, order) = l /\ CharToInt32(R, order) = Weight[4] - 2
  BY <1>1, <1>3
<1>8. /\ SubSeq(x, 1, 4) = V /\ x[5] = 2 /\ x[6] = 3
      /\ SubSeq(x, 7, 22) = C /\ SubSeq(x, 23, 26) = T
      /\ SubSeq(x, 27, 30) = D /\ SubSeq(x, 31, 34) = R
  <2>1. /\ V \in Seq(Nat) /\ Len(V) = 4 /\ T \in Seq(Nat) /\ Len(T) = 4
        /\ D \in Seq(Nat) /\ Len(D) = 4 /\ R \in Seq(Nat) /\ Len(R) = 4
        /\ 2 \in Nat /\ 3 \in Nat
    BY <1>1, <1>3, <1>4
  <2> HIDE DEF V, T, D, R, C, x
  <2>2. HasParts(x, V, 2, 3, C, T, D, R)
    BY <1>5, <1>6, <2>1, HeaderParts
  <2> QED BY <2>2 DEF HasParts
<1> HIDE DEF V, T, D, R, x
<1>9. CharToNetPacket(x, order)
          = [version |-> AsInt(1), header |-> 2, tail |-> 3, check |-> C,
             type |-> AsInt(n), datalen |-> AsInt(l), reserve |-> AsInt(Weight[4] - 2)]
  <2>1. /\ SubSeq(x, 0 + 1, 0 + 4) = V /\ SubSeq(x, 22 + 1, 22 + 4) = T
        /\ SubSeq(x, 26 + 1, 26 + 4) = D /\ SubSeq(x, 30 + 1, 30 + 4) = R
    BY <1>8
  <2> HIDE DEF C
  <2> QED BY <1>7, <1>8, <2>1 DEF CharToNetPacket
<1>10. Received32(p)
          = [version |-> AsInt(1), header |-> 2, tail |-> 3, check |-> C,
             type |-> AsInt(n), datalen |-> AsInt(l), reserve |-> AsInt(Weight[4] - 2)]
  <2>1. p = [version |-> 1, header |-> 2, tail |-> 3, check |-> C,
             type |-> n, datalen |-> l, reserve |-> Weight[4] - 2]
    BY DEF APacket
  <2> HIDE DEF p, C
  <2>2. /\ p.version = 1 /\ p.type = n /\ p.datalen = l /\ p.reserve = Weight[4] - 2
    BY <2>1
  <2>3. Received32(p) = [p EXCEPT !.version = AsInt(1), !.type = AsInt(n), !.datalen = AsInt(l),
                                  !.reserve = AsInt(Weight[4] - 2)]
    BY <2>2 DEF Received32
  <2> QED BY <2>1, <2>3
<1> QED BY <1>9, <1>10 DEF x

(* What one host puts on the wire is what another of its byte order takes  *)
(* from it, for every integer and every header.                            *)
LEMMA AllConverts == Converts
<1>1. ASSUME NEW order \in HostOrders, NEW n \in UInt32
      PROVE  /\ CharToInt32(Int32ToChar(n, order), order) = n
             /\ LET p == APacket(n, (n * n) % Weight[4]) IN
                CharToNetPacket(NetPacketToChar(p, order), order) = Received32(p)
  <2>1. Weight[4] \in Nat \ {0} /\ n \in Nat
    <3>1. 4 \in 0 .. 8
      OBVIOUS
    <3> QED BY <3>1, WeightDefined DEF UInt32
  <2>2. n * n \in Nat
    BY <2>1, Product
  <2>3. (n * n) % Weight[4] \in UInt32
    BY <2>1, <2>2, DivMod DEF UInt32
  <2> QED BY <2>3, ConvertsInt32, ConvertsHeader
<1>2. ASSUME NEW order \in HostOrders, NEW n \in UInt64
      PROVE  LET bytes == Int64ToChar(n, order) IN
             bytes[5] < ByteValues \div 2 => CharToInt64(bytes, order) = n
  BY ConvertsInt64
<1> QED BY <1>1, <1>2 DEF Converts

HIDE SomeByteValues

-----------------------------------------------------------------------------
(* The frames of a sequence of bytes.                                      *)

USE HeadAssumption, BufferAssumption

(* What Frames computes at each byte of a sequence. *)
Scan(bytes) == CHOOSE f : f = [i \in 1 .. Len(bytes) + 1 |-> FramesFrom(bytes, f, i)]

LEMMA FramesIsScan == \A bytes : Frames(bytes) = Scan(bytes)[1]
BY DEF Frames, Scan

(* A part of a sequence of bytes. *)
LEMMA PartOf ==
    ASSUME NEW s \in Bytes, NEW m \in Nat \ {0}, NEW n \in Nat, n <= Len(s)
    PROVE  /\ SubSeq(s, m, n) \in Bytes
           /\ Len(SubSeq(s, m, n)) = IF m <= n THEN n - m + 1 ELSE 0
           /\ \A i \in 1 .. n - m + 1 : SubSeq(s, m, n)[i] = s[m + i - 1]
<1>1. \A i \in 1 .. Len(s) : s[i] \in 0 .. 255
  BY ElementOfSeq DEF Bytes
<1>2. \A i \in m .. n : s[i] \in 0 .. 255
  BY <1>1
<1> QED BY <1>2, SubSeqProperties DEF Bytes

LEMMA SignedByte ==
    ASSUME NEW b \in 0 .. 255
    PROVE  Signed(b) \in -128 .. 127 /\ (Signed(b) >= 0 => Signed(b) = b)
BY DEF Signed

(* What the candidate at a byte says of itself. *)
LEMMA HeaderAt ==
    ASSUME NEW U \in Bytes, NEW i \in Nat \ {0}, i + HeadLen <= Len(U),
           NEW p, p = ToNetPacket(From(U, i + 1))
    PROVE  /\ p.header = U[i + 1] /\ p.tail = U[i + 2] /\ p.check = U[i + 3]
           /\ p.datalen = Signed(U[i + 4])
           /\ p.header \in 0 .. 255 /\ p.tail \in 0 .. 255 /\ p.check \in 0 .. 255
           /\ p.datalen \in -128 .. 127
<1>1. Len(U) \in Nat
  BY LenProperties DEF Bytes
<1>2. \A j \in 1 .. 4 : From(U, i + 1)[j] = U[i + j]
  <2>1. \A j \in 1 .. Len(U) - (i + 1) + 1 : SubSeq(U, i + 1, Len(U))[j] = U[(i + 1) + j - 1]
    BY <1>1, PartOf
  <2> QED BY <1>1, <2>1 DEF From, HeadLen
<1>3. \A j \in 1 .. 4 : U[i + j] \in 0 .. 255
  <2>1. \A k \in 1 .. Len(U) : U[k] \in 0 .. 255
    BY ElementOfSeq DEF Bytes
  <2>2. \A j \in 1 .. 4 : i + j \in 1 .. Len(U)
    BY <1>1 DEF HeadLen
  <2> QED BY <2>1, <2>2
<1>4. /\ From(U, i + 1)[1] = U[i + 1] /\ From(U, i + 1)[2] = U[i + 2]
      /\ From(U, i + 1)[3] = U[i + 3] /\ From(U, i + 1)[4] = U[i + 4]
  BY <1>2
<1>5. p = [header |-> U[i + 1], tail |-> U[i + 2], check |-> U[i + 3],
           datalen |-> Signed(U[i + 4])]
  BY <1>4 DEF ToNetPacket
<1>6. U[i + 1] \in 0 .. 255 /\ U[i + 2] \in 0 .. 255 /\ U[i + 3] \in 0 .. 255
  BY <1>3
<1>7. U[i + 4] \in 0 .. 255
  BY <1>3
<1>8. Signed(U[i + 4]) \in -128 .. 127
  BY <1>7, SignedByte
<1>9. /\ p.header = U[i + 1] /\ p.tail = U[i + 2] /\ p.check = U[i + 3]
      /\ p.datalen = Signed(U[i + 4])
  BY <1>5
<1>10. p.header \in 0 .. 255 /\ p.tail \in 0 .. 255 /\ p.check \in 0 .. 255
  BY <1>6, <1>9
<1>11. p.datalen \in -128 .. 127
  BY <1>8, <1>9
<1> QED BY <1>9, <1>10, <1>11

(* Where a candidate ends, if it is one. *)
LEMMA CandidateEnd ==
    ASSUME NEW U \in Bytes, NEW i \in Nat \ {0}, i + HeadLen <= Len(U),
           NEW p, NEW last,
           p = ToNetPacket(From(U, i + 1)), last = i + HeadLen + p.datalen + 1,
           ValidHeader(p)
    PROVE  last \in i + 5 .. i + 132 /\ p.datalen \in 0 .. 127
<1>1. p.datalen \in -128 .. 127
  BY HeaderAt
<1>2. p.datalen >= 0
  BY DEF ValidHeader
<1>3. ASSUME NEW d \in -128 .. 127, d >= 0, last = i + 4 + d + 1
      PROVE  last \in i + 5 .. i + 132 /\ d \in 0 .. 127
  BY <1>3
<1> QED BY <1>1, <1>2, <1>3 DEF HeadLen

(* FramesFrom looks at later places of f only. *)
LEMMA LooksAhead ==
    ASSUME NEW U \in Bytes, NEW i \in 1 .. Len(U) + 1, NEW f, NEW g,
           \A j \in i + 1 .. Len(U) + 1 : f[j] = g[j]
    PROVE  FramesFrom(U, f, i) = FramesFrom(U, g, i)
<1>1. Len(U) \in Nat
  BY LenProperties DEF Bytes
<1>2. PICK p : p = ToNetPacket(From(U, i + 1))
  OBVIOUS
<1>3. PICK last : last = i + HeadLen + p.datalen + 1
  OBVIOUS
<1>4. i <= Len(U) => f[i + 1] = g[i + 1]
  BY <1>1
<1>5. ASSUME i + HeadLen <= Len(U), ValidHeader(p), last <= Len(U)
      PROVE  f[last + 1] = g[last + 1]
  <2>1. last \in i + 5 .. i + 132
    BY <1>1, <1>2, <1>3, <1>5, CandidateEnd
  <2>2. last + 1 \in i + 1 .. Len(U) + 1
    BY <1>1, <1>5, <2>1
  <2> QED BY <2>2
<1>6. i \in Nat /\ (i > Len(U) \/ i <= Len(U))
  BY <1>1
<1>7. i + HeadLen > Len(U) \/ i + HeadLen <= Len(U)
  BY <1>1 DEF HeadLen
<1>8. last > Len(U) \/ last <= Len(U) \/ ~ValidHeader(p) \/ i + HeadLen > Len(U)
  <2> SUFFICES ASSUME ValidHeader(p), i + HeadLen <= Len(U) PROVE last > Len(U) \/ last <= Len(U)
    BY <1>7
  <2>1. last \in i + 5 .. i + 132
    BY <1>1, <1>2, <1>3, CandidateEnd
  <2> QED BY <1>1, <2>1
<1> DEFINE data == SubSeq(U, i + HeadLen + 1, last - 1)
           Goes(h) == IF i > Len(U) THEN <<>>
                      ELSE IF U[i] # HEAD THEN h[i + 1]
                      ELSE IF i + HeadLen > Len(U) THEN <<>>
                      ELSE IF ~ValidHeader(p) THEN h[i + 1]
                      ELSE IF last > Len(U) THEN <<>>
                      ELSE IF U[last] = TAIL /\ p.check = Check(data)
                           THEN <<data>> \o h[last + 1]
                           ELSE h[i + 1]
<1>9. FramesFrom(U, f, i) = Goes(f) /\ FramesFrom(U, g, i) = Goes(g)
  BY <1>2, <1>3 DEF FramesFrom
<1> HIDE DEF data
<1>10. Goes(f) = Goes(g)
  BY <1>4, <1>5, <1>6, <1>7, <1>8
<1> QED BY <1>9, <1>10

(* So there is a function that does what Frames says, by going down from   *)
(* the end.                                                                *)
LEMMA ScanDefined ==
    ASSUME NEW U \in Bytes
    PROVE  Scan(U) = [i \in 1 .. Len(U) + 1 |-> FramesFrom(U, Scan(U), i)]
<1> DEFINE n == Len(U)
           Does(f, k) == f = [i \in k .. n + 1 |-> FramesFrom(U, f, i)]
           T == {k \in Nat : \E f : Does(f, k)}
<1>1. n \in Nat
  BY LenProperties DEF Bytes
<1> HIDE DEF n
<1>2. n + 2 \in T
  <2> DEFINE f == [i \in n + 2 .. n + 1 |-> 0]
  <2>1. f = [i \in n + 2 .. n + 1 |-> FramesFrom(U, f, i)]
    BY <1>1
  <2> QED BY <1>1, <2>1
<1>3. ASSUME NEW k \in 1 .. n + 1, k + 1 \in T PROVE k \in T
  <2>1. PICK f : Does(f, k + 1)
    BY <1>3
  <2> DEFINE g == [i \in k .. n + 1 |-> IF i = k THEN FramesFrom(U, f, k) ELSE f[i]]
  <2> HIDE DEF g
  <2>2. \A j \in k + 1 .. n + 1 : g[j] = f[j]
    BY <1>1 DEF g
  <2>3. \A i \in k .. n + 1 : FramesFrom(U, g, i) = FramesFrom(U, f, i)
    <3> SUFFICES ASSUME NEW i \in k .. n + 1 PROVE FramesFrom(U, g, i) = FramesFrom(U, f, i)
      OBVIOUS
    <3>1. i \in 1 .. Len(U) + 1 /\ \A j \in i + 1 .. Len(U) + 1 : g[j] = f[j]
      BY <1>1, <2>2 DEF n
    <3> QED BY <3>1, LooksAhead
  <2>4. \A i \in k .. n + 1 : g[i] = FramesFrom(U, g, i)
    <3> SUFFICES ASSUME NEW i \in k .. n + 1 PROVE g[i] = FramesFrom(U, g, i)
      OBVIOUS
    <3>1. CASE i = k
      BY <2>3, <3>1 DEF g
    <3>2. CASE i # k
      <4>1. i \in k + 1 .. n + 1
        BY <1>1, <3>2
      <4>2. f[i] = FramesFrom(U, f, i)
        BY <2>1, <4>1
      <4> QED BY <2>2, <2>3, <4>1, <4>2
    <3> QED BY <3>1, <3>2
  <2>5. Does(g, k)
    BY <2>4 DEF g
  <2> QED BY <2>5
<1>4. 1 \in T
  <2> HIDE DEF T
  <2>1. \A k \in 1 .. (n + 2) - 1 : k + 1 \in T => k \in T
    BY <1>1, <1>3
  <2> QED BY <1>1, <1>2, <2>1, DownInduction
<1>5. \E f : f = [i \in 1 .. Len(U) + 1 |-> FramesFrom(U, f, i)]
  BY <1>4 DEF n
<1> QED BY <1>5 DEF Scan

(* What is left of a sequence of bytes behind the first k. *)
LEMMA RestOf ==
    ASSUME NEW U \in Bytes, NEW k \in 0 .. Len(U)
    PROVE  /\ From(U, k + 1) \in Bytes
           /\ Len(From(U, k + 1)) = Len(U) - k
           /\ \A j \in 1 .. Len(U) - k : From(U, k + 1)[j] = U[k + j]
<1>1. Len(U) \in Nat
  BY LenProperties DEF Bytes
<1>2. k + 1 \in Nat \ {0}
  BY <1>1
<1>3. /\ From(U, k + 1) \in Bytes
      /\ Len(From(U, k + 1)) = IF k + 1 <= Len(U) THEN Len(U) - (k + 1) + 1 ELSE 0
      /\ \A j \in 1 .. Len(U) - (k + 1) + 1 : From(U, k + 1)[j] = U[(k + 1) + j - 1]
  BY <1>1, <1>2, PartOf DEF From
<1>4. \A j \in 1 .. Len(U) - k : From(U, k + 1)[j] = U[k + j]
  BY <1>1, <1>3
<1> QED BY <1>1, <1>3, <1>4

LEMMA PartOfRest ==
    ASSUME NEW U \in Bytes, NEW k \in 0 .. Len(U),
           NEW a \in Nat \ {0}, NEW b \in Nat, b <= Len(U) - k
    PROVE  SubSeq(From(U, k + 1), a, b) = SubSeq(U, k + a, k + b)
<1> DEFINE V == From(U, k + 1)
           s == SubSeq(V, a, b)
           t == SubSeq(U, k + a, k + b)
<1>1. Len(U) \in Nat
  BY LenProperties DEF Bytes
<1>2. V \in Bytes /\ Len(V) = Len(U) - k /\ \A j \in 1 .. Len(U) - k : V[j] = U[k + j]
  BY RestOf
<1> HIDE DEF V
<1>3. /\ s \in Bytes /\ Len(s) = IF a <= b THEN b - a + 1 ELSE 0
      /\ \A i \in 1 .. b - a + 1 : s[i] = V[a + i - 1]
  BY <1>2, PartOf
<1>4. k + a \in Nat \ {0} /\ k + b \in Nat /\ k + b <= Len(U)
  BY <1>1
<1>5. /\ t \in Bytes /\ Len(t) = IF k + a <= k + b THEN (k + b) - (k + a) + 1 ELSE 0
      /\ \A i \in 1 .. (k + b) - (k + a) + 1 : t[i] = U[(k + a) + i - 1]
  BY <1>4, PartOf
<1> HIDE DEF s, t
<1>6. Len(s) = Len(t)
  BY <1>1, <1>3, <1>5
<1>7. \A i \in 1 .. Len(s) : s[i] = t[i]
  <2> SUFFICES ASSUME NEW i \in 1 .. Len(s) PROVE s[i] = t[i]
    OBVIOUS
  <2>1. i \in 1 .. b - a + 1 /\ a + i - 1 \in 1 .. Len(U) - k
    BY <1>1, <1>3
  <2>2. s[i] = V[a + i - 1] /\ V[a + i - 1] = U[k + (a + i - 1)]
    BY <1>2, <1>3, <2>1
  <2>3. t[i] = U[(k + a) + i - 1]
    BY <1>5, <2>1
  <2>4. k + (a + i - 1) = (k + a) + i - 1
    BY <2>1
  <2> QED BY <2>2, <2>3, <2>4
<1>8. s = t
  BY <1>3, <1>5, <1>6, <1>7, SeqEqual DEF Bytes
<1> QED BY <1>8 DEF s, t, V

(* What FramesFrom finds in the rest of a sequence is what it finds there  *)
(* in the whole.                                                           *)
LEMMA FoundInRest ==
    ASSUME NEW U \in Bytes, NEW k \in 0 .. Len(U), NEW V, V = From(U, k + 1),
           NEW i \in 1 .. Len(V) + 1, NEW f, NEW g,
           \A j \in i + 1 .. Len(V) + 1 : f[k + j] = g[j]
    PROVE  FramesFrom(U, f, k + i) = FramesFrom(V, g, i)
<1>1. Len(U) \in Nat
  BY LenProperties DEF Bytes
<1>2. V \in Bytes /\ Len(V) = Len(U) - k /\ \A j \in 1 .. Len(U) - k : V[j] = U[k + j]
  BY RestOf
<1>3. CASE i = Len(V) + 1
  <2>1. k + i > Len(U) /\ i > Len(V)
    BY <1>1, <1>2, <1>3
  <2> QED BY <2>1 DEF FramesFrom
<1>4. CASE i \in 1 .. Len(V)
  <2>1. /\ i \in Nat \ {0} /\ k + i \in Nat \ {0} /\ ~(k + i > Len(U)) /\ ~(i > Len(V))
        /\ (k + i) + 1 = k + (i + 1) /\ i + 1 \in i + 1 .. Len(V) + 1
    BY <1>1, <1>2, <1>4
  <2>2. V[i] = U[k + i] /\ f[k + (i + 1)] = g[i + 1]
    BY <1>1, <1>2, <1>4, <2>1
  <2>3. (k + i) + HeadLen > Len(U) <=> i + HeadLen > Len(V)
    BY <1>1, <1>2, <2>1 DEF HeadLen
  <2>4. From(V, i + 1) = From(U, (k + i) + 1)
    <3>1. SubSeq(From(U, k + 1), i + 1, Len(V)) = SubSeq(U, k + (i + 1), k + Len(V))
      <4>1. i + 1 \in Nat \ {0} /\ Len(V) \in Nat /\ Len(V) <= Len(U) - k
        BY <1>1, <1>2, <2>1
      <4> QED BY <4>1, PartOfRest
    <3>2. k + Len(V) = Len(U)
      BY <1>1, <1>2
    <3> QED BY <2>1, <3>1, <3>2 DEF From
  <2>5. PICK p : p = ToNetPacket(From(V, i + 1))
    OBVIOUS
  <2>6. PICK last : last = i + HeadLen + p.datalen + 1
    OBVIOUS
  <2>7. PICK atend : atend = (k + i) + HeadLen + p.datalen + 1
    OBVIOUS
  <2>8. ASSUME ~(i + HeadLen > Len(V)), ValidHeader(p)
        PROVE  /\ atend = k + last
               /\ atend > Len(U) <=> last > Len(V)
               /\ ~(last > Len(V)) =>
                      /\ V[last] = U[atend]
                      /\ f[atend + 1] = g[last + 1]
                      /\ SubSeq(V, i + HeadLen + 1, last - 1) =
                             SubSeq(U, (k + i) + HeadLen + 1, atend - 1)
    <3>1. i + HeadLen <= Len(V)
      BY <1>1, <1>2, <2>1, <2>8 DEF HeadLen
    <3>2. last \in i + 5 .. i + 132 /\ p.datalen \in 0 .. 127
      <4>1. V \in Bytes /\ i \in Nat \ {0}
        BY <1>2, <2>1
      <4> QED BY ZenonT(60), <2>5, <2>6, <2>8, <3>1, <4>1, CandidateEnd
    <3>3. atend = k + last
      <4>1. ASSUME NEW d \in 0 .. 127 PROVE (k + i) + 4 + d + 1 = k + (i + 4 + d + 1)
        BY <2>1
      <4> QED BY <2>6, <2>7, <3>2, <4>1 DEF HeadLen
    <3>4. atend > Len(U) <=> last > Len(V)
      BY <1>1, <1>2, <2>1, <3>2, <3>3
    <3>5. ASSUME ~(last > Len(V))
          PROVE  /\ V[last] = U[atend]
                 /\ f[atend + 1] = g[last + 1]
                 /\ SubSeq(V, i + HeadLen + 1, last - 1) =
                        SubSeq(U, (k + i) + HeadLen + 1, atend - 1)
      <4>1. /\ last \in 1 .. Len(U) - k /\ last + 1 \in i + 1 .. Len(V) + 1
            /\ atend + 1 = k + (last + 1)
            /\ i + HeadLen + 1 \in Nat \ {0} /\ last - 1 \in Nat /\ last - 1 <= Len(U) - k
            /\ k + (i + HeadLen + 1) = (k + i) + HeadLen + 1 /\ k + (last - 1) = atend - 1
        BY <1>1, <1>2, <2>1, <3>2, <3>3, <3>5 DEF HeadLen
      <4>2. V[last] = U[atend]
        BY <1>2, <3>3, <4>1
      <4>3. f[atend + 1] = g[last + 1]
        BY SMTT(30), <4>1
      <4>4. SubSeq(V, i + HeadLen + 1, last - 1) =
                SubSeq(U, k + (i + HeadLen + 1), k + (last - 1))
        BY ZenonT(60), <4>1, PartOfRest
      <4>5. k + (i + HeadLen + 1) = (k + i) + HeadLen + 1 /\ k + (last - 1) = atend - 1
        BY <4>1
      <4> QED BY ZenonT(60), <4>2, <4>3, <4>4, <4>5
    <3> QED BY <3>3, <3>4, <3>5
  <2> DEFINE Goes(W, h, at, end) ==
          LET data == SubSeq(W, at + HeadLen + 1, end - 1) IN
          IF at > Len(W) THEN <<>>
          ELSE IF W[at] # HEAD THEN h[at + 1]
          ELSE IF at + HeadLen > Len(W) THEN <<>>
          ELSE IF ~ValidHeader(p) THEN h[at + 1]
          ELSE IF end > Len(W) THEN <<>>
          ELSE IF W[end] = TAIL /\ p.check = Check(data) THEN <<data>> \o h[end + 1]
          ELSE h[at + 1]
  <2>9. FramesFrom(V, g, i) = Goes(V, g, i, last)
    BY <2>5, <2>6 DEF FramesFrom
  <2>10. FramesFrom(U, f, k + i) = Goes(U, f, k + i, atend)
    BY <2>4, <2>5, <2>7 DEF FramesFrom
  <2>11. Goes(V, g, i, last) = Goes(U, f, k + i, atend)
    BY <2>1, <2>2, <2>3, <2>8
  <2> QED BY <2>9, <2>10, <2>11
<1>5. i = Len(V) + 1 \/ i \in 1 .. Len(V)
  BY <1>1, <1>2
<1> QED BY <1>3, <1>4, <1>5

(* The frames of the rest of a sequence are those found behind its first k *)
(* bytes.                                                                  *)
LEMMA FramesOfRest ==
    ASSUME NEW U \in Bytes, NEW k \in 0 .. Len(U)
    PROVE  Scan(U)[k + 1] = Frames(From(U, k + 1))
<1> DEFINE V == From(U, k + 1)
           m == Len(V) + 1
           T == {i \in 1 .. m : \A j \in i .. m : Scan(U)[k + j] = Scan(V)[j]}
<1>1. Len(U) \in Nat
  BY LenProperties DEF Bytes
<1>2. V \in Bytes /\ Len(V) = Len(U) - k
  BY RestOf
<1> HIDE DEF V
<1>3. /\ \A i \in 1 .. Len(U) + 1 : Scan(U)[i] = FramesFrom(U, Scan(U), i)
      /\ \A i \in 1 .. m : Scan(V)[i] = FramesFrom(V, Scan(V), i)
  BY <1>2, ScanDefined
<1>4. ASSUME NEW i \in 1 .. m, \A j \in i + 1 .. m : Scan(U)[k + j] = Scan(V)[j]
      PROVE  Scan(U)[k + i] = Scan(V)[i]
  <2>1. FramesFrom(U, Scan(U), k + i) = FramesFrom(V, Scan(V), i)
    BY <1>4, FoundInRest DEF V
  <2>2. k + i \in 1 .. Len(U) + 1
    BY <1>1, <1>2
  <2> QED BY <1>3, <2>1, <2>2
<1>5. m \in Nat /\ m \in T
  <2>1. m \in Nat /\ m \in 1 .. m /\ \A j \in m + 1 .. m : FALSE
    BY <1>1, <1>2
  <2>2. Scan(U)[k + m] = Scan(V)[m]
    BY <1>4, <2>1
  <2>3. \A j \in m .. m : j = m
    BY <2>1
  <2> HIDE DEF m
  <2> QED BY <2>1, <2>2, <2>3
<1>6. ASSUME NEW i \in 1 .. m - 1, i + 1 \in T PROVE i \in T
  <2>1. i \in 1 .. m
    BY <1>5
  <2>2. Scan(U)[k + i] = Scan(V)[i]
    BY <1>4, <1>6, <2>1
  <2>3. \A j \in i .. m : j = i \/ j \in i + 1 .. m
    BY <1>5
  <2> HIDE DEF m
  <2> QED BY <1>6, <2>1, <2>2, <2>3
<1>7. 1 .. m \subseteq T
  <2> HIDE DEF T, m
  <2> QED BY <1>5, <1>6, DownInduction
<1>8. 1 \in 1 .. m /\ 1 \in 1 .. m
  BY <1>1, <1>2
<1> QED BY <1>7, <1>8, FramesIsScan DEF V

-----------------------------------------------------------------------------
(* What Frames makes of the first byte.                                    *)

LEMMA FramesType ==
    ASSUME NEW U \in Bytes
    PROVE  Frames(U) \in Seq(Bytes)
<1> DEFINE m == Len(U) + 1
           T == {i \in 1 .. m : \A j \in i .. m : Scan(U)[j] \in Seq(Bytes)}
<1>1. Len(U) \in Nat /\ m \in Nat /\ m \in 1 .. m
  BY LenProperties DEF Bytes
<1>2. \A i \in 1 .. m : Scan(U)[i] = FramesFrom(U, Scan(U), i)
  BY ScanDefined
<1> HIDE DEF m
<1>3. ASSUME NEW i \in 1 .. m, \A j \in i + 1 .. m : Scan(U)[j] \in Seq(Bytes)
      PROVE  Scan(U)[i] \in Seq(Bytes)
  <2>1. <<>> \in Seq(Bytes)
    BY EmptySeq
  <2>2. PICK p : p = ToNetPacket(From(U, i + 1))
    OBVIOUS
  <2>3. PICK last : last = i + HeadLen + p.datalen + 1
    OBVIOUS
  <2>4. i <= Len(U) => Scan(U)[i + 1] \in Seq(Bytes)
    BY <1>1, <1>3 DEF m
  <2>5. ASSUME i + HeadLen <= Len(U), ValidHeader(p), last <= Len(U)
        PROVE  /\ Scan(U)[last + 1] \in Seq(Bytes)
               /\ SubSeq(U, i + HeadLen + 1, last - 1) \in Bytes
    <3>1. last \in i + 5 .. i + 132
      BY <1>1, <2>2, <2>3, <2>5, CandidateEnd DEF m
    <3>2. last + 1 \in i + 1 .. m
      BY <1>1, <2>5, <3>1 DEF m
    <3>3. i + HeadLen + 1 \in Nat \ {0} /\ last - 1 \in Nat /\ last - 1 <= Len(U)
      BY <1>1, <2>5, <3>1 DEF HeadLen
    <3>4. SubSeq(U, i + HeadLen + 1, last - 1) \in Bytes
      BY <3>3, PartOf
    <3> QED BY <1>3, <3>2, <3>4
  <2>6. i <= Len(U) \/ i > Len(U)
    BY <1>1
  <2>7. i + HeadLen > Len(U) \/ i + HeadLen <= Len(U)
    BY <1>1 DEF HeadLen
  <2>8. ASSUME i + HeadLen <= Len(U), ValidHeader(p)
        PROVE  last > Len(U) \/ last <= Len(U)
    <3>1. last \in i + 5 .. i + 132
      BY <1>1, <2>2, <2>3, <2>8, CandidateEnd DEF m
    <3> QED BY <1>1, <3>1
  <2> DEFINE data == SubSeq(U, i + HeadLen + 1, last - 1)
  <2>9. ASSUME data \in Bytes, Scan(U)[last + 1] \in Seq(Bytes)
        PROVE  <<data>> \o Scan(U)[last + 1] \in Seq(Bytes)
    <3> HIDE DEF data
    <3>1. <<data>> \in Seq(Bytes)
      BY <2>9
    <3> QED BY <2>9, <3>1, ConcatProperties
  <2>10. FramesFrom(U, Scan(U), i) =
             IF i > Len(U) THEN <<>>
             ELSE IF U[i] # HEAD THEN Scan(U)[i + 1]
             ELSE IF i + HeadLen > Len(U) THEN <<>>
             ELSE IF ~ValidHeader(p) THEN Scan(U)[i + 1]
             ELSE IF last > Len(U) THEN <<>>
             ELSE IF U[last] = TAIL /\ p.check = Check(data)
                  THEN <<data>> \o Scan(U)[last + 1]
                  ELSE Scan(U)[i + 1]
    BY <2>2, <2>3 DEF FramesFrom
  <2> HIDE DEF data
  <2>11. FramesFrom(U, Scan(U), i) \in Seq(Bytes)
    BY <2>1, <2>4, <2>5, <2>6, <2>7, <2>8, <2>9, <2>10 DEF data
  <2> QED BY <1>2, <2>11
<1>4. m \in T
  <2>1. \A j \in m + 1 .. m : FALSE
    BY <1>1
  <2>2. Scan(U)[m] \in Seq(Bytes)
    BY <1>1, <1>3, <2>1
  <2>3. \A j \in m .. m : j = m
    BY <1>1
  <2> QED BY <1>1, <2>2, <2>3
<1>5. ASSUME NEW i \in 1 .. m - 1, i + 1 \in T PROVE i \in T
  <2>1. i \in 1 .. m /\ \A j \in i .. m : j = i \/ j \in i + 1 .. m
    BY <1>1
  <2>2. Scan(U)[i] \in Seq(Bytes)
    BY <1>3, <1>5, <2>1
  <2> QED BY <1>5, <2>1, <2>2
<1>6. 1 .. m \subseteq T
  <2> HIDE DEF T
  <2> QED BY <1>1, <1>4, <1>5, DownInduction
<1>7. 1 \in 1 .. m
  BY <1>1
<1> QED BY <1>6, <1>7, FramesIsScan

(* All cases at once. *)
LEMMA FramesUnfold ==
    ASSUME NEW U \in Bytes, NEW p, p = ToNetPacket(From(U, 2)), NEW n, n = Len(U)
    PROVE  Frames(U) =
               IF n = 0 THEN <<>>
               ELSE IF U[1] # HEAD THEN Frames(From(U, 2))
               ELSE IF n < 5 THEN <<>>
               ELSE IF ~ValidHeader(p) THEN Frames(From(U, 2))
               ELSE IF p.datalen + 6 > n THEN <<>>
               ELSE IF U[p.datalen + 6] = TAIL /\ p.check = Check(SubSeq(U, 6, p.datalen + 5))
                    THEN <<SubSeq(U, 6, p.datalen + 5)>> \o Frames(From(U, p.datalen + 7))
                    ELSE Frames(From(U, 2))
<1>1. n \in Nat
  BY LenProperties DEF Bytes
<1>2. \A i \in 1 .. n + 1 : Scan(U)[i] = FramesFrom(U, Scan(U), i)
  BY ScanDefined
<1>3. n # 0 => Scan(U)[2] = Frames(From(U, 2))
  <2> SUFFICES ASSUME n # 0 PROVE Scan(U)[2] = Frames(From(U, 2))
    OBVIOUS
  <2>1. 1 \in 0 .. Len(U) /\ 1 + 1 = 2
    BY <1>1
  <2>2. Scan(U)[1 + 1] = Frames(From(U, 1 + 1))
    BY <2>1, FramesOfRest
  <2> QED BY <2>1, <2>2
<1>4. PICK last : last = 1 + HeadLen + p.datalen + 1
  OBVIOUS
<1>5. FramesFrom(U, Scan(U), 1) =
          IF 1 > n THEN <<>>
          ELSE IF U[1] # HEAD THEN Scan(U)[1 + 1]
          ELSE IF 1 + HeadLen > n THEN <<>>
          ELSE IF ~ValidHeader(p) THEN Scan(U)[1 + 1]
          ELSE IF last > n THEN <<>>
          ELSE IF U[last] = TAIL /\ p.check = Check(SubSeq(U, 1 + HeadLen + 1, last - 1))
               THEN <<SubSeq(U, 1 + HeadLen + 1, last - 1)>> \o Scan(U)[last + 1]
               ELSE Scan(U)[1 + 1]
  BY <1>4 DEF FramesFrom
<1>6. Frames(U) = FramesFrom(U, Scan(U), 1)
  <2>1. 1 \in 1 .. n + 1
    BY <1>1
  <2> QED BY <1>2, <2>1, FramesIsScan
<1>7. ASSUME n >= 5, ValidHeader(p)
      PROVE  /\ last = p.datalen + 6 /\ last - 1 = p.datalen + 5 /\ last + 1 = p.datalen + 7
             /\ last \in Nat
             /\ ~(last > n) => Scan(U)[last + 1] = Frames(From(U, last + 1))
  <2>1. 1 + HeadLen <= Len(U) /\ p = ToNetPacket(From(U, 1 + 1)) /\ 1 \in Nat \ {0}
    BY <1>1, <1>7 DEF HeadLen
  <2>2. last \in 1 + 5 .. 1 + 132 /\ p.datalen \in 0 .. 127
    <3> HIDE <1>1
    <3> QED BY <1>4, <1>7, <2>1, CandidateEnd
  <2>3. last = p.datalen + 6 /\ last - 1 = p.datalen + 5 /\ last + 1 = p.datalen + 7
    <3>1. ASSUME NEW d \in 0 .. 127, last = 1 + 4 + d + 1
          PROVE  last = d + 6 /\ last - 1 = d + 5 /\ last + 1 = d + 7
      BY <3>1
    <3> QED BY <1>4, <2>2, <3>1 DEF HeadLen
  <2>4. ~(last > n) => Scan(U)[last + 1] = Frames(From(U, last + 1))
    <3>1. ~(last > n) => last \in 0 .. Len(U)
      BY <1>1, <2>2
    <3> QED BY <3>1, FramesOfRest
  <2>5. last \in Nat
    BY <2>2
  <2> QED BY <2>3, <2>4, <2>5
<1>8. (1 > n <=> n = 0) /\ (1 + HeadLen > n <=> n < 5) /\ 1 + HeadLen + 1 = 6 /\ 1 + 1 = 2
      /\ (n < 5 \/ n >= 5)
  BY <1>1 DEF HeadLen
<1> DEFINE d == p.datalen
<1> HIDE DEF d
<1>9. ASSUME n >= 5, ValidHeader(p)
      PROVE  /\ last = d + 6 /\ last - 1 = d + 5 /\ last + 1 = d + 7
             /\ ~(last > n) => Scan(U)[last + 1] = Frames(From(U, d + 7))
  BY <1>7, <1>9 DEF d
<1> QED BY <1>3, <1>5, <1>6, <1>8, <1>9 DEF d

-----------------------------------------------------------------------------
(* Sequences of bytes put together and taken apart.                        *)

LEMMA Bytewise ==
    ASSUME NEW U \in Bytes
    PROVE  /\ Len(U) \in Nat
           /\ \A i \in 1 .. Len(U) : U[i] \in 0 .. 255
           /\ Len(U) = 0 <=> U = <<>>
           /\ U \o <<>> = U /\ <<>> \o U = U
<1>1. Len(U) \in Nat /\ \A i \in 1 .. Len(U) : U[i] \in 0 .. 255
  BY LenProperties, ElementOfSeq DEF Bytes
<1>2. Len(U) = 0 <=> U = <<>>
  BY EmptySeq DEF Bytes
<1>3. U \o <<>> = U /\ <<>> \o U = U
  BY ConcatEmptySeq DEF Bytes
<1> QED BY <1>1, <1>2, <1>3

LEMMA NoBytes == <<>> \in Bytes /\ Len(<<>>) = 0
BY EmptySeq DEF Bytes

LEMMA SameBytes ==
    ASSUME NEW U \in Bytes, NEW V \in Bytes, Len(U) = Len(V),
           \A i \in 1 .. Len(U) : U[i] = V[i]
    PROVE  U = V
BY SeqEqual DEF Bytes

LEMMA Together ==
    ASSUME NEW U \in Bytes, NEW V \in Bytes
    PROVE  /\ U \o V \in Bytes /\ Len(U \o V) = Len(U) + Len(V)
           /\ \A i \in 1 .. Len(U) : (U \o V)[i] = U[i]
           /\ \A i \in 1 .. Len(V) : (U \o V)[Len(U) + i] = V[i]
<1>1. Len(U) \in Nat /\ Len(V) \in Nat
  BY Bytewise
<1>2. /\ U \o V \in Bytes /\ Len(U \o V) = Len(U) + Len(V)
      /\ \A i \in 1 .. Len(U) + Len(V) :
             (U \o V)[i] = IF i <= Len(U) THEN U[i] ELSE V[i - Len(U)]
  BY ConcatProperties DEF Bytes
<1>3. \A i \in 1 .. Len(U) : (U \o V)[i] = U[i]
  BY <1>1, <1>2
<1>4. ASSUME NEW i \in 1 .. Len(V) PROVE (U \o V)[Len(U) + i] = V[i]
  <2>1. /\ Len(U) + i \in 1 .. Len(U) + Len(V) /\ ~(Len(U) + i <= Len(U))
        /\ (Len(U) + i) - Len(U) = i
    BY <1>1
  <2> QED BY <1>2, <2>1
<1> QED BY <1>2, <1>3, <1>4

LEMMA Regroup ==
    ASSUME NEW U \in Bytes, NEW V \in Bytes, NEW W \in Bytes
    PROVE  (U \o V) \o W = U \o (V \o W)
<1>1. U \in Seq(0 .. 255) /\ V \in Seq(0 .. 255) /\ W \in Seq(0 .. 255)
  BY DEF Bytes
<1> QED BY SMTT(30), <1>1, Associative

(* A sequence is its first k bytes and the rest. *)
LEMMA CutBytes ==
    ASSUME NEW U \in Bytes, NEW m \in 1 .. Len(U) + 1, NEW k \in m - 1 .. Len(U),
           NEW n \in k .. Len(U)
    PROVE  SubSeq(U, m, k) \o SubSeq(U, k + 1, n) = SubSeq(U, m, n)
BY ConcatAdjacentSubSeq DEF Bytes

LEMMA WholeBytes ==
    ASSUME NEW U \in Bytes
    PROVE  From(U, 1) = U
BY SubSeqFull DEF Bytes, From

LEMMA PastEnd ==
    ASSUME NEW U \in Bytes
    PROVE  From(U, Len(U) + 1) = <<>>
<1>1. Len(U) + 1 \in Int /\ Len(U) \in Int /\ Len(U) < Len(U) + 1
  BY Bytewise
<1> QED BY <1>1, SubSeqEmpty DEF From

LEMMA RestOfTogether ==
    ASSUME NEW U \in Bytes, NEW V \in Bytes, NEW k \in 0 .. Len(U)
    PROVE  From(U \o V, k + 1) = From(U, k + 1) \o V
<1> DEFINE X == U \o V
           A == From(X, k + 1)
           R == From(U, k + 1)
           B == R \o V
<1>1. Len(U) \in Nat /\ Len(V) \in Nat
  BY Bytewise
<1>2. /\ X \in Bytes /\ Len(X) = Len(U) + Len(V)
      /\ \A i \in 1 .. Len(U) : X[i] = U[i]
      /\ \A i \in 1 .. Len(V) : X[Len(U) + i] = V[i]
  BY Together
<1> HIDE DEF X
<1>3. k \in 0 .. Len(X)
  BY <1>1, <1>2
<1>4. A \in Bytes /\ Len(A) = Len(X) - k /\ \A j \in 1 .. Len(X) - k : A[j] = X[k + j]
  BY <1>2, <1>3, RestOf
<1>5. R \in Bytes /\ Len(R) = Len(U) - k /\ \A j \in 1 .. Len(U) - k : R[j] = U[k + j]
  BY RestOf
<1> HIDE DEF A, R
<1>6. /\ B \in Bytes /\ Len(B) = Len(R) + Len(V)
      /\ \A i \in 1 .. Len(R) : B[i] = R[i]
      /\ \A i \in 1 .. Len(V) : B[Len(R) + i] = V[i]
  BY <1>5, Together
<1> HIDE DEF B
<1>7. Len(A) = Len(B)
  BY <1>1, <1>2, <1>4, <1>5, <1>6
<1>8. ASSUME NEW i \in 1 .. Len(A) PROVE A[i] = B[i]
  <2>1. A[i] = X[k + i]
    BY <1>4
  <2>2. CASE i <= Len(U) - k
    <3>1. i \in 1 .. Len(R) /\ i \in 1 .. Len(U) - k /\ k + i \in 1 .. Len(U)
      BY <1>1, <1>5, <2>2
    <3>2. B[i] = R[i] /\ R[i] = U[k + i] /\ X[k + i] = U[k + i]
      BY <1>2, <1>5, <1>6, <3>1
    <3> QED BY <2>1, <3>2
  <2>3. CASE i > Len(U) - k
    <3>1. /\ i - (Len(U) - k) \in 1 .. Len(V)
          /\ Len(R) + (i - (Len(U) - k)) = i
          /\ Len(U) + (i - (Len(U) - k)) = k + i
      BY <1>1, <1>2, <1>4, <1>5, <2>3
    <3> DEFINE j == i - (Len(U) - k)
    <3>2. B[Len(R) + j] = V[j] /\ X[Len(U) + j] = V[j]
      BY <1>2, <1>6, <3>1
    <3> QED BY <2>1, <3>1, <3>2
  <2> QED BY <1>1, <2>2, <2>3
<1>9. A = B
  BY <1>4, <1>6, <1>7, <1>8, SameBytes
<1> QED BY <1>9 DEF A, B, R, X

(* The part that comes first, cut off. *)
LEMMA RestBehind ==
    ASSUME NEW U \in Bytes, NEW V \in Bytes
    PROVE  From(U \o V, Len(U) + 1) = V
<1>1. Len(U) \in 0 .. Len(U)
  BY Bytewise
<1>2. From(U \o V, Len(U) + 1) = From(U, Len(U) + 1) \o V
  BY <1>1, RestOfTogether
<1> QED BY <1>2, PastEnd, Bytewise

-----------------------------------------------------------------------------
(* Bytes before the first HEAD do not matter.                              *)
LEMMA SkipNoise ==
    ASSUME NEW U \in Bytes, NEW k \in 0 .. Len(U), \A i \in 1 .. k : U[i] # HEAD
    PROVE  Frames(U) = Frames(From(U, k + 1))
<1> DEFINE T == {j \in Nat : j <= k => Frames(U) = Frames(From(U, j + 1))}
<1>1. Len(U) \in Nat
  BY Bytewise
<1>2. 0 \in T
  BY WholeBytes
<1>3. ASSUME NEW j \in Nat, j \in T PROVE j + 1 \in T
  <2> SUFFICES ASSUME j + 1 <= k PROVE Frames(U) = Frames(From(U, (j + 1) + 1))
    OBVIOUS
  <2>1. /\ j \in 0 .. Len(U) /\ j <= k /\ j + 1 \in 1 .. k /\ j + 1 \in 0 .. Len(U)
        /\ 1 \in 1 .. Len(U) - j
    BY <1>1
  <2> DEFINE V == From(U, j + 1)
  <2>2. V \in Bytes /\ Len(V) = Len(U) - j /\ V[1] = U[j + 1]
    BY <2>1, RestOf
  <2>3. From(V, 1 + 1) = From(U, (j + 1) + 1)
    <3>1. /\ 1 + 1 \in Nat \ {0} /\ Len(V) \in Nat /\ Len(V) <= Len(U) - j
          /\ j + (1 + 1) = (j + 1) + 1 /\ j + Len(V) = Len(U)
      BY <1>1, <2>1, <2>2
    <3>2. SubSeq(From(U, j + 1), 1 + 1, Len(V)) = SubSeq(U, j + (1 + 1), j + Len(V))
      BY <2>1, <3>1, PartOfRest
    <3> QED BY <3>1, <3>2 DEF From
  <2>4. V[1] # HEAD
    BY <2>1, <2>2
  <2>5. Frames(V) = Frames(From(V, 2))
    <3>1. Len(V) # 0
      BY <1>1, <2>1, <2>2
    <3> HIDE DEF V
    <3> QED BY <2>2, <2>4, <3>1, FramesUnfold
  <2> QED BY <1>3, <2>1, <2>3, <2>5
<1>4. Nat \subseteq T
  <2> HIDE DEF T
  <2> QED BY <1>2, <1>3, Induction
<1>5. k \in Nat /\ k <= k
  BY <1>1
<1> QED BY <1>4, <1>5

(* There is no frame in less bytes than a frame without data has. *)
LEMMA FramesShort ==
    ASSUME NEW U \in Bytes, Len(U) < HeadLen + 2
    PROVE  Frames(U) = <<>>
<1> DEFINE m == Len(U) + 1
           T == {i \in 1 .. m : Scan(U)[i] = <<>>}
<1>1. Len(U) \in Nat /\ Len(U) < 6 /\ m \in Nat /\ m \in 1 .. m
  BY Bytewise DEF HeadLen
<1>2. \A i \in 1 .. m : Scan(U)[i] = FramesFrom(U, Scan(U), i)
  BY ScanDefined
<1> HIDE DEF m
<1>3. m \in T
  <2>1. m > Len(U)
    BY <1>1 DEF m
  <2>2. FramesFrom(U, Scan(U), m) = <<>>
    BY <2>1 DEF FramesFrom
  <2> QED BY <1>1, <1>2, <2>2
<1>4. ASSUME NEW i \in 1 .. m - 1, i + 1 \in T PROVE i \in T
  <2>1. i \in 1 .. m /\ i \in Nat \ {0}
    BY <1>1
  <2>2. PICK p : p = ToNetPacket(From(U, i + 1))
    OBVIOUS
  <2>3. PICK last : last = i + HeadLen + p.datalen + 1
    OBVIOUS
  <2>4. ASSUME ~(i + HeadLen > Len(U)), ValidHeader(p) PROVE last > Len(U)
    <3>1. i + HeadLen <= Len(U)
      BY <1>1, <2>1, <2>4 DEF HeadLen
    <3>2. last \in i + 5 .. i + 132
      BY <2>1, <2>2, <2>3, <2>4, <3>1, CandidateEnd
    <3> QED BY <1>1, <2>1, <3>2
  <2>5. FramesFrom(U, Scan(U), i) =
            IF i > Len(U) THEN <<>>
            ELSE IF U[i] # HEAD THEN Scan(U)[i + 1]
            ELSE IF i + HeadLen > Len(U) THEN <<>>
            ELSE IF ~ValidHeader(p) THEN Scan(U)[i + 1]
            ELSE IF last > Len(U) THEN <<>>
            ELSE IF U[last] = TAIL /\ p.check = Check(SubSeq(U, i + HeadLen + 1, last - 1))
                 THEN <<SubSeq(U, i + HeadLen + 1, last - 1)>> \o Scan(U)[last + 1]
                 ELSE Scan(U)[i + 1]
    BY <2>2, <2>3 DEF FramesFrom
  <2>6. FramesFrom(U, Scan(U), i) = <<>>
    BY <1>4, <2>4, <2>5
  <2> QED BY <1>2, <2>1, <2>6
<1>5. 1 .. m \subseteq T
  <2> HIDE DEF T
  <2> QED BY <1>1, <1>3, <1>4, DownInduction
<1>6. 1 \in 1 .. m
  BY <1>1
<1> QED BY <1>5, <1>6, FramesIsScan

(* What candidates begin with: HEAD and the fields of a header. *)
Heads == {h \in Bytes : /\ Len(h) = HeadLen + 1
                        /\ h[1] = HEAD
                        /\ ValidHeader(ToNetPacket(From(h, 2)))}

(* A candidate: its head, what follows as its data and TAIL, and the rest. *)
LEMMA CandidateParts ==
    ASSUME NEW H \in Heads, NEW W \in Bytes, NEW R \in Bytes
    PROVE  LET X == H \o (W \o R) IN
           /\ X \in Bytes /\ Len(X) = 5 + Len(W) + Len(R) /\ X[1] = HEAD
           /\ From(X, 2) = From(H, 2) \o (W \o R)
           /\ ToNetPacket(From(X, 2)) = ToNetPacket(From(H, 2))
           /\ \A i \in 1 .. Len(W) : X[5 + i] = W[i]
           /\ \A k \in 0 .. Len(W) : SubSeq(X, 6, 5 + k) = SubSeq(W, 1, k)
           /\ From(X, 5 + Len(W) + 1) = R
<1>0. H \in Bytes
  BY DEF Heads
<1>1. Len(W) \in Nat /\ Len(R) \in Nat /\ Len(H) = 5
  BY Bytewise DEF HeadLen, Heads
<1> DEFINE Y == W \o R
           X == H \o Y
           Z == H \o W
<1>2. /\ Y \in Bytes /\ Len(Y) = Len(W) + Len(R) /\ \A i \in 1 .. Len(W) : Y[i] = W[i]
      /\ From(Y, Len(W) + 1) = R
  BY Together, RestBehind
<1> HIDE DEF Y
<1>3. /\ X \in Bytes /\ Len(X) = 5 + Len(Y)
      /\ \A i \in 1 .. 5 : X[i] = H[i]
      /\ \A i \in 1 .. Len(Y) : X[5 + i] = Y[i]
  <2>1. /\ X \in Bytes /\ Len(X) = Len(H) + Len(Y)
        /\ \A i \in 1 .. Len(H) : X[i] = H[i]
        /\ \A i \in 1 .. Len(Y) : X[Len(H) + i] = Y[i]
    BY <1>0, <1>2, Together
  <2> HIDE DEF X
  <2> QED BY <1>1, <2>1
<1>4. From(X, 2) = From(H, 2) \o Y
  <2>1. 1 \in 0 .. Len(H) /\ 1 + 1 = 2
    BY <1>1 DEF HeadLen
  <2>2. From(X, 1 + 1) = From(H, 1 + 1) \o Y
    BY <1>0, <1>2, <2>1, RestOfTogether
  <2> QED BY <2>1, <2>2
<1>5. From(X, 5 + Len(W) + 1) = R
  <2>1. Z \o R = X
    BY <1>0, Regroup DEF Y
  <2>2. Z \in Bytes /\ Len(Z) = Len(H) + Len(W)
    BY <1>0, Together
  <2> HIDE DEF X, Z
  <2>3. From(Z \o R, Len(Z) + 1) = R
    BY <2>2, RestBehind
  <2>4. Len(Z) + 1 = 5 + Len(W) + 1
    BY <1>1, <2>2
  <2> QED BY <2>1, <2>3, <2>4
<1> HIDE DEF X
<1>6. Len(X) = 5 + Len(W) + Len(R) /\ X[1] = HEAD
  BY <1>1, <1>2, <1>3 DEF Heads
<1>7. ToNetPacket(From(X, 2)) = ToNetPacket(From(H, 2))
  <2>1. 1 \in 0 .. Len(H) /\ 1 \in 0 .. Len(X) /\ 1 + 1 = 2
    BY <1>1, <1>6 DEF HeadLen
  <2>2. \A j \in 1 .. Len(H) - 1 : From(H, 1 + 1)[j] = H[1 + j]
    BY <1>0, <2>1, RestOf
  <2>3. \A j \in 1 .. Len(X) - 1 : From(X, 1 + 1)[j] = X[1 + j]
    BY <1>3, <2>1, RestOf
  <2>4. \A j \in 1 .. 4 : j \in 1 .. Len(H) - 1 /\ j \in 1 .. Len(X) - 1 /\ 1 + j \in 1 .. 5
    BY <1>1, <1>6 DEF HeadLen
  <2>5. \A j \in 1 .. 4 : From(X, 2)[j] = From(H, 2)[j]
    BY <1>3, <2>1, <2>2, <2>3, <2>4
  <2>6. /\ From(X, 2)[1] = From(H, 2)[1] /\ From(X, 2)[2] = From(H, 2)[2]
        /\ From(X, 2)[3] = From(H, 2)[3] /\ From(X, 2)[4] = From(H, 2)[4]
    BY <2>5
  <2> QED BY <2>6 DEF ToNetPacket
<1>8. \A i \in 1 .. Len(W) : X[5 + i] = W[i]
  BY <1>1, <1>2, <1>3
<1>9. ASSUME NEW k \in 0 .. Len(W) PROVE SubSeq(X, 6, 5 + k) = SubSeq(W, 1, k)
  <2> DEFINE s == SubSeq(X, 6, 5 + k)
             t == SubSeq(W, 1, k)
  <2>1. 6 \in Nat \ {0} /\ 1 \in Nat \ {0} /\ k \in Nat /\ 5 + k \in Nat /\ 5 + k <= Len(X)
    BY <1>1, <1>6
  <2>2. /\ s \in Bytes /\ Len(s) = IF 6 <= 5 + k THEN (5 + k) - 6 + 1 ELSE 0
        /\ \A i \in 1 .. (5 + k) - 6 + 1 : s[i] = X[6 + i - 1]
    BY <1>3, <2>1, PartOf
  <2>3. /\ t \in Bytes /\ Len(t) = IF 1 <= k THEN k - 1 + 1 ELSE 0
        /\ \A i \in 1 .. k - 1 + 1 : t[i] = W[1 + i - 1]
    BY <2>1, PartOf
  <2> HIDE DEF s, t
  <2>4. Len(s) = k /\ Len(t) = k
    BY <2>1, <2>2, <2>3
  <2>5. ASSUME NEW i \in 1 .. k PROVE s[i] = t[i]
    <3>1. /\ i \in 1 .. (5 + k) - 6 + 1 /\ i \in 1 .. k - 1 + 1 /\ 6 + i - 1 = 5 + i
          /\ 1 + i - 1 = i /\ i \in 1 .. Len(W)
      BY <1>1, <2>1
    <3> QED BY <1>8, <2>2, <2>3, <3>1
  <2>6. s = t
    BY <2>2, <2>3, <2>4, <2>5, SameBytes
  <2> QED BY <2>6 DEF s, t
<1> QED BY <1>3, <1>4, <1>5, <1>6, <1>7, <1>8, <1>9 DEF Y, X

LEMMA FirstHeader ==
    ASSUME NEW U \in Bytes, Len(U) >= HeadLen + 1
    PROVE  ToNetPacket(From(U, 2)).datalen \in -128 .. 127
<1>1. \A j \in Nat \ {0} : j + HeadLen <= Len(U) =>
          ToNetPacket(From(U, j + 1)).datalen \in -128 .. 127
  BY HeaderAt
<1>2. 1 \in Nat \ {0} /\ 1 + HeadLen <= Len(U) /\ 1 + 1 = 2
  BY Bytewise DEF HeadLen
<1>3. ToNetPacket(From(U, 1 + 1)).datalen \in -128 .. 127
  BY <1>1, <1>2
<1> QED BY <1>2, <1>3

(* The bytes of a candidate make a frame or not; until all are there, they *)
(* make none.                                                              *)
LEMMA FramesOfCandidate ==
    ASSUME NEW H \in Heads, NEW W \in Bytes, NEW R \in Bytes
    PROVE  LET p == ToNetPacket(From(H, 2))
               X == H \o (W \o R)
           IN  /\ p.datalen \in 0 .. 127
               /\ Len(W) <= p.datalen /\ R = <<>> => Frames(X) = <<>>
               /\ Len(W) = p.datalen + 1 =>
                      Frames(X) =
                          IF W[p.datalen + 1] = TAIL /\ p.check = Check(SubSeq(W, 1, p.datalen))
                          THEN <<SubSeq(W, 1, p.datalen)>> \o Frames(R)
                          ELSE Frames(From(H, 2) \o (W \o R))
<1> DEFINE p == ToNetPacket(From(H, 2))
           X == H \o (W \o R)
           d == p.datalen
           n == Len(X)
<1>1. /\ X \in Bytes /\ n = 5 + Len(W) + Len(R) /\ X[1] = HEAD
      /\ From(X, 2) = From(H, 2) \o (W \o R)
      /\ ToNetPacket(From(X, 2)) = p
      /\ \A i \in 1 .. Len(W) : X[5 + i] = W[i]
      /\ \A k \in 0 .. Len(W) : SubSeq(X, 6, 5 + k) = SubSeq(W, 1, k)
      /\ From(X, 5 + Len(W) + 1) = R
  BY ZenonT(40), CandidateParts
<1>2. d \in -128 .. 127
  <2>1. H \in Bytes /\ Len(H) >= HeadLen + 1
    <3>1. H \in Bytes /\ Len(H) = HeadLen + 1
      BY DEF Heads
    <3> QED BY <3>1 DEF HeadLen
  <2> QED BY <2>1, FirstHeader
<1>3. d >= 0 /\ ValidHeader(p)
  BY DEF ValidHeader, Heads
<1> HIDE DEF p, X
<1>4. Len(W) \in Nat /\ Len(R) \in Nat /\ n \in Nat /\ n >= 5
  BY <1>1, Bytewise
<1>5. d \in 0 .. 127
  <2> HIDE DEF d
  <2> QED BY <1>2, <1>3
<1>6. Frames(X) =
          IF d + 6 > n THEN <<>>
          ELSE IF X[d + 6] = TAIL /\ p.check = Check(SubSeq(X, 6, d + 5))
               THEN <<SubSeq(X, 6, d + 5)>> \o Frames(From(X, d + 7))
               ELSE Frames(From(X, 2))
  <2>1. ~(n = 0) /\ ~(n < 5)
    BY <1>4
  <2>2. p = ToNetPacket(From(X, 2)) /\ X \in Bytes /\ X[1] = HEAD
    BY <1>1
  <2> QED BY <1>3, <2>1, <2>2, FramesUnfold
<1> HIDE DEF d
<1>7. ASSUME Len(W) <= d, R = <<>> PROVE Frames(X) = <<>>
  <2>1. d + 6 > n
    BY <1>1, <1>4, <1>5, <1>7, NoBytes
  <2> QED BY <1>6, <2>1
<1>8. ASSUME Len(W) = d + 1
      PROVE  Frames(X) = IF W[d + 1] = TAIL /\ p.check = Check(SubSeq(W, 1, d))
                         THEN <<SubSeq(W, 1, d)>> \o Frames(R)
                         ELSE Frames(From(X, 2))
  <2>1. /\ ~(d + 6 > n) /\ d + 6 = 5 + (d + 1) /\ d + 1 \in 1 .. Len(W)
        /\ d \in 0 .. Len(W) /\ d + 5 = 5 + d /\ d + 7 = 5 + Len(W) + 1
    BY <1>1, <1>4, <1>5, <1>8
  <2>2. X[d + 6] = W[d + 1] /\ SubSeq(X, 6, d + 5) = SubSeq(W, 1, d) /\ From(X, d + 7) = R
    BY <1>1, <2>1
  <2> QED BY <1>6, <2>1, <2>2
<1> QED BY <1>1, <1>5, <1>7, <1>8 DEF d, p, X
-----------------------------------------------------------------------------
(* The steps of the parser, as facts about sequences of bytes.             *)

(* The same four bytes say the same. *)
LEMMA SameHeader ==
    ASSUME NEW U, NEW V, \A j \in 1 .. 4 : U[j] = V[j]
    PROVE  ToNetPacket(U) = ToNetPacket(V)
<1>1. U[1] = V[1] /\ U[2] = V[2] /\ U[3] = V[3] /\ U[4] = V[4]
  OBVIOUS
<1> QED BY <1>1 DEF ToNetPacket

LEMMA NoHead ==
    ASSUME NEW U \in Bytes, NEW Z \in Bytes, \A i \in 1 .. Len(U) : U[i] # HEAD
    PROVE  Frames(U \o Z) = Frames(Z)
<1> DEFINE X == U \o Z
<1>1. Len(U) \in Nat /\ Len(Z) \in Nat
  BY Bytewise
<1>2. /\ X \in Bytes /\ Len(X) = Len(U) + Len(Z)
      /\ \A i \in 1 .. Len(U) : X[i] = U[i]
      /\ From(X, Len(U) + 1) = Z
  BY Together, RestBehind
<1> HIDE DEF X
<1>3. Len(U) \in 0 .. Len(X) /\ \A i \in 1 .. Len(U) : X[i] # HEAD
  BY <1>1, <1>2
<1>4. Frames(X) = Frames(From(X, Len(U) + 1))
  BY <1>2, <1>3, SkipNoise
<1> QED BY <1>2, <1>4 DEF X

LEMMA FirstHead ==
    ASSUME NEW U \in Bytes, NEW Z \in Bytes, NEW h \in 1 .. Len(U),
           \A i \in 1 .. h - 1 : U[i] # HEAD
    PROVE  Frames(U \o Z) = Frames(From(U, h) \o Z)
<1> DEFINE X == U \o Z
           k == h - 1
<1>1. Len(U) \in Nat /\ Len(Z) \in Nat
  BY Bytewise
<1>2. /\ X \in Bytes /\ Len(X) = Len(U) + Len(Z)
      /\ \A i \in 1 .. Len(U) : X[i] = U[i]
  BY Together
<1>3. k \in 0 .. Len(U) /\ k \in 0 .. Len(X) /\ k + 1 = h
  BY <1>1, <1>2
<1>4. \A i \in 1 .. k : X[i] # HEAD
  BY <1>1, <1>2
<1>5. From(X, k + 1) = From(U, k + 1) \o Z
  BY <1>3, RestOfTogether
<1> HIDE DEF X, k
<1>6. Frames(X) = Frames(From(X, k + 1))
  BY <1>2, <1>3, <1>4, SkipNoise
<1> QED BY <1>3, <1>5, <1>6 DEF X

(* The head of a candidate, cut out. *)
LEMMA HeadOf ==
    ASSUME NEW U \in Bytes, NEW h \in Nat \ {0}, h + HeadLen <= Len(U)
    PROVE  LET H == SubSeq(U, h, h + HeadLen) IN
           /\ H \in Bytes /\ Len(H) = HeadLen + 1 /\ H[1] = U[h]
           /\ From(H, 2) = SubSeq(U, h + 1, h + HeadLen)
           /\ ToNetPacket(From(H, 2)) = ToNetPacket(From(U, h + 1))
           /\ From(U, h) = H \o From(U, h + HeadLen + 1)
           /\ From(U, h + 1) = From(H, 2) \o From(U, h + HeadLen + 1)
<1> DEFINE H == SubSeq(U, h, h + HeadLen)
           G == SubSeq(U, h + 1, h + HeadLen)
           F == From(U, h + 1)
           R == From(U, h + HeadLen + 1)
<1>1. Len(U) \in Nat
  BY Bytewise
<1>2. /\ h + HeadLen \in Nat /\ h + 1 \in Nat \ {0} /\ h + HeadLen <= Len(U)
      /\ h \in 1 .. Len(U) + 1 /\ h + 1 \in 1 .. Len(U) + 1
      /\ h + HeadLen \in h - 1 .. Len(U) /\ h + HeadLen \in (h + 1) - 1 .. Len(U)
      /\ Len(U) \in h + HeadLen .. Len(U)
  BY <1>1 DEF HeadLen
<1> DEFINE e == h + HeadLen
           g == h + 1
<1>3. /\ H \in Bytes /\ Len(H) = IF h <= e THEN e - h + 1 ELSE 0
      /\ \A i \in 1 .. e - h + 1 : H[i] = U[h + i - 1]
  <2>1. e \in Nat /\ e <= Len(U) /\ H = SubSeq(U, h, e)
    BY <1>2
  <2> HIDE DEF e, H
  <2> QED BY <2>1, PartOf
<1>4. /\ G \in Bytes /\ Len(G) = IF g <= e THEN e - g + 1 ELSE 0
      /\ \A i \in 1 .. e - g + 1 : G[i] = U[g + i - 1]
  <2>1. e \in Nat /\ e <= Len(U) /\ g \in Nat \ {0} /\ G = SubSeq(U, g, e)
    BY <1>2
  <2> HIDE DEF e, g, G
  <2> QED BY SMTT(30), <2>1, PartOf
<1>5. H \o R = From(U, h)
  BY <1>2, CutBytes DEF From
<1>6. G \o R = F
  BY <1>2, CutBytes DEF From
<1>7. R \in Bytes
  <2>1. h + HeadLen \in 0 .. Len(U)
    BY <1>2
  <2> QED BY <2>1, RestOf
<1>8. \A j \in 1 .. Len(G) : (G \o R)[j] = G[j]
  BY <1>4, <1>7, Together
<1> HIDE DEF H, G, F, R
<1>9. /\ Len(H) = 5 /\ \A i \in 1 .. 5 : H[i] = U[h + i - 1]
      /\ Len(G) = 4 /\ \A i \in 1 .. 4 : G[i] = U[h + i]
  BY <1>3, <1>4 DEF HeadLen
<1>10. H[1] = U[h] /\ Len(H) = HeadLen + 1
  BY <1>9 DEF HeadLen
<1>11. From(H, 2) = G
  <2>1. 1 \in 0 .. Len(H) /\ 1 + 1 = 2
    BY <1>9
  <2>2. /\ From(H, 2) \in Bytes /\ Len(From(H, 2)) = Len(H) - 1
        /\ \A j \in 1 .. Len(H) - 1 : From(H, 2)[j] = H[1 + j]
    <3>1. /\ From(H, 1 + 1) \in Bytes /\ Len(From(H, 1 + 1)) = Len(H) - 1
          /\ \A j \in 1 .. Len(H) - 1 : From(H, 1 + 1)[j] = H[1 + j]
      BY <1>3, <2>1, RestOf
    <3> QED BY <2>1, <3>1
  <2>3. Len(From(H, 2)) = Len(G)
    BY <1>9, <2>2
  <2>4. ASSUME NEW j \in 1 .. 4 PROVE From(H, 2)[j] = G[j]
    <3>1. j \in 1 .. Len(H) - 1 /\ 1 + j \in 1 .. 5 /\ h + (1 + j) - 1 = h + j
      BY <1>9
    <3> QED BY <1>9, <2>2, <3>1
  <2>5. \A j \in 1 .. Len(From(H, 2)) : From(H, 2)[j] = G[j]
    BY <1>9, <2>3, <2>4
  <2> QED BY <1>4, <2>2, <2>3, <2>5, SameBytes
<1>12. ToNetPacket(G) = ToNetPacket(F)
  <2>1. \A j \in 1 .. 4 : G[j] = F[j]
    BY <1>6, <1>8, <1>9
  <2> QED BY <2>1, SameHeader
<1> QED BY <1>3, <1>5, <1>6, <1>10, <1>11, <1>12 DEF H, G, F, R

(* A candidate with a wrong header: the search goes on behind its HEAD. *)
LEMMA WrongHeader ==
    ASSUME NEW U \in Bytes, NEW Z \in Bytes, NEW h \in Nat \ {0}, h + HeadLen <= Len(U),
           ~ValidHeader(ToNetPacket(From(U, h + 1)))
    PROVE  Frames(From(U, h) \o Z) = Frames(From(U, h + 1) \o Z)
<1> DEFINE V == From(U, h)
           F == From(U, h + 1)
           X == V \o Z
           k == h - 1
<1>1. Len(U) \in Nat /\ k \in 0 .. Len(U) /\ h \in 0 .. Len(U) /\ k + 1 = h
  BY Bytewise DEF HeadLen
<1>2. V \in Bytes /\ Len(V) = Len(U) - k
  <2>1. From(U, k + 1) \in Bytes /\ Len(From(U, k + 1)) = Len(U) - k
    BY <1>1, RestOf
  <2> QED BY <1>1, <2>1
<1>3. F \in Bytes /\ Len(F) = Len(U) - h
  BY <1>1, RestOf
<1>4. From(V, 1 + 1) = F
  <2>1. /\ 1 + 1 \in Nat \ {0} /\ Len(V) \in Nat /\ Len(V) <= Len(U) - k
        /\ k + (1 + 1) = h + 1 /\ k + Len(V) = Len(U)
    BY <1>1, <1>2
  <2>2. SubSeq(From(U, k + 1), 1 + 1, Len(V)) = SubSeq(U, k + (1 + 1), k + Len(V))
    BY ZenonT(40), <1>1, <2>1, PartOfRest
  <2>3. SubSeq(V, 1 + 1, Len(V)) = SubSeq(U, h + 1, Len(U))
    BY <1>1, <2>1, <2>2
  <2> QED BY <2>3 DEF From
<1>5. X \in Bytes /\ Len(X) = Len(V) + Len(Z) /\ Len(Z) \in Nat
  BY <1>2, Together, Bytewise
<1>6. From(X, 1 + 1) = F \o Z
  <2>1. 1 \in 0 .. Len(V)
    BY <1>1, <1>2
  <2> HIDE DEF V, F
  <2>2. From(V \o Z, 1 + 1) = From(V, 1 + 1) \o Z
    BY <1>2, <2>1, RestOfTogether
  <2> QED BY <1>4, <2>2
<1>7. ToNetPacket(F \o Z) = ToNetPacket(F)
  <2>1. \A j \in 1 .. Len(F) : (F \o Z)[j] = F[j]
    BY <1>3, Together
  <2>2. \A j \in 1 .. 4 : j \in 1 .. Len(F)
    BY <1>1, <1>3 DEF HeadLen
  <2> HIDE DEF F
  <2> QED BY <2>1, <2>2, SameHeader
<1> HIDE DEF X
<1>8. ~ValidHeader(ToNetPacket(From(X, 2)))
  <2>1. 1 + 1 = 2
    OBVIOUS
  <2> QED BY <1>6, <1>7, <2>1
<1>9. Len(X) >= 5
  BY <1>1, <1>2, <1>5 DEF HeadLen
<1>10. Frames(X) = Frames(From(X, 2))
  <2>1. ~(Len(X) = 0) /\ ~(Len(X) < 5)
    BY <1>9, <1>5, Bytewise
  <2> QED BY <1>5, <1>8, <2>1, FramesUnfold
<1>11. From(X, 2) = F \o Z
  BY <1>6
<1> QED BY <1>10, <1>11 DEF X
-----------------------------------------------------------------------------
(* What the peer sends is made of bytes.                                   *)

(* What FlattenSeq computes up to each of the sequences. *)
Flat(seqs) == CHOOSE f : f = [i \in 1 .. Len(seqs) |->
                                 IF i = 1 THEN seqs[i] ELSE f[i - 1] \o seqs[i]]

LEMMA FlatDefined ==
    ASSUME NEW seqs, Len(seqs) \in Nat
    PROVE  Flat(seqs) = [i \in 1 .. Len(seqs) |->
                            IF i = 1 THEN seqs[i] ELSE Flat(seqs)[i - 1] \o seqs[i]]
<1> DEFINE n == Len(seqs)
           Does(f, k) == f = [i \in 1 .. k |-> IF i = 1 THEN seqs[i] ELSE f[i - 1] \o seqs[i]]
           T == {k \in Nat : \E f : Does(f, k)}
<1>1. 0 \in T
  <2> DEFINE f == [i \in 1 .. 0 |-> 0]
  <2>1. f = [i \in 1 .. 0 |-> IF i = 1 THEN seqs[i] ELSE f[i - 1] \o seqs[i]]
    OBVIOUS
  <2> QED BY <2>1
<1>2. ASSUME NEW k \in Nat, k \in T PROVE k + 1 \in T
  <2>1. PICK f : Does(f, k)
    BY <1>2
  <2> DEFINE last == IF k + 1 = 1 THEN seqs[k + 1] ELSE f[k] \o seqs[k + 1]
             g == [i \in 1 .. k + 1 |-> IF i = k + 1 THEN last ELSE f[i]]
  <2> HIDE DEF g, last
  <2>2. \A i \in 1 .. k : g[i] = f[i]
    BY DEF g
  <2>3. g[k + 1] = last
    BY DEF g
  <2>4. \A i \in 1 .. k + 1 : g[i] = IF i = 1 THEN seqs[i] ELSE g[i - 1] \o seqs[i]
    <3> SUFFICES ASSUME NEW i \in 1 .. k + 1
                 PROVE  g[i] = IF i = 1 THEN seqs[i] ELSE g[i - 1] \o seqs[i]
      OBVIOUS
    <3>1. CASE i = k + 1
      <4>1. (k + 1) - 1 = k /\ (k + 1 # 1 => k \in 1 .. k)
        OBVIOUS
      <4> QED BY <2>2, <2>3, <3>1, <4>1 DEF last
    <3>2. CASE i \in 1 .. k
      <4>1. f[i] = IF i = 1 THEN seqs[i] ELSE f[i - 1] \o seqs[i]
        BY <2>1, <3>2
      <4>2. i # 1 => i - 1 \in 1 .. k
        BY <3>2
      <4> QED BY <2>2, <3>2, <4>1, <4>2
    <3>3. i = k + 1 \/ i \in 1 .. k
      OBVIOUS
    <3> QED BY <3>1, <3>2, <3>3
  <2>5. Does(g, k + 1)
    BY <2>4 DEF g
  <2>6. \E h : Does(h, k + 1)
    BY <2>5
  <2> HIDE DEF Does
  <2> QED BY <2>6
<1>3. n \in T
  <2> HIDE DEF T
  <2>1. Nat \subseteq T
    BY <1>1, <1>2, Induction
  <2> QED BY <2>1
<1> QED BY <1>3 DEF Flat

LEMMA FlattenType ==
    ASSUME NEW S, NEW seqs \in Seq(Seq(S))
    PROVE  FlattenSeq(seqs) \in Seq(S)
<1> DEFINE n == Len(seqs)
           T == {k \in Nat : k \in 1 .. n => Flat(seqs)[k] \in Seq(S)}
<1>1. n \in Nat /\ \A i \in 1 .. n : seqs[i] \in Seq(S)
  BY LenProperties, ElementOfSeq
<1>2. FlattenSeq(seqs) = IF n = 0 THEN seqs ELSE Flat(seqs)[n]
  BY DEF FlattenSeq, Flat
<1>3. \A i \in 1 .. n : Flat(seqs)[i] = IF i = 1 THEN seqs[i] ELSE Flat(seqs)[i - 1] \o seqs[i]
  BY ZenonT(40), <1>1, FlatDefined
<1> HIDE DEF n
<1>4. 0 \in T
  OBVIOUS
<1>5. ASSUME NEW k \in Nat, k \in T PROVE k + 1 \in T
  <2> SUFFICES ASSUME k + 1 \in 1 .. n PROVE Flat(seqs)[k + 1] \in Seq(S)
    OBVIOUS
  <2>1. (k + 1) - 1 = k /\ seqs[k + 1] \in Seq(S)
    BY <1>1
  <2>2. CASE k = 0
    BY <1>3, <2>1, <2>2
  <2>3. CASE k # 0
    <3>1. k \in 1 .. n /\ k + 1 # 1
      BY <1>1, <2>3
    <3>2. Flat(seqs)[k] \in Seq(S)
      BY <1>5, <3>1
    <3>3. Flat(seqs)[k] \o seqs[k + 1] \in Seq(S)
      BY <2>1, <3>2, ConcatProperties
    <3> QED BY <1>3, <2>1, <3>1, <3>3
  <2> QED BY <2>2, <2>3
<1>6. Nat \subseteq T
  <2> HIDE DEF T
  <2> QED BY <1>4, <1>5, Induction
<1>7. n # 0 => n \in 1 .. n
  BY <1>1
<1>8. n = 0 => seqs = <<>>
  BY EmptySeq DEF n
<1>9. <<>> \in Seq(S)
  BY EmptySeq
<1> QED BY <1>1, <1>2, <1>6, <1>7, <1>8, <1>9

(* The first sequences of several, one after the other. *)
FirstOnes(seqs, c) == FlattenSeq([i \in 1 .. c |-> seqs[i]])

LEMMA FlatOfFirst ==
    ASSUME NEW seqs, NEW n \in Nat, NEW c \in 0 .. n, Len(seqs) = n
    PROVE  LET q == [i \in 1 .. c |-> seqs[i]] IN
           \A i \in 1 .. c : Flat(q)[i] = Flat(seqs)[i]
<1> DEFINE q == [i \in 1 .. c |-> seqs[i]]
           T == {k \in Nat : k \in 1 .. c => Flat(q)[k] = Flat(seqs)[k]}
<1>1. Len(q) = c /\ \A i \in 1 .. c : q[i] = seqs[i]
  OBVIOUS
<1>2. \A i \in 1 .. c : Flat(q)[i] = IF i = 1 THEN q[i] ELSE Flat(q)[i - 1] \o q[i]
  <2> HIDE DEF q
  <2>1. Len(q) \in Nat
    BY <1>1
  <2> QED BY ZenonT(40), <1>1, <2>1, FlatDefined
<1>3. \A i \in 1 .. n : Flat(seqs)[i] = IF i = 1 THEN seqs[i] ELSE Flat(seqs)[i - 1] \o seqs[i]
  BY ZenonT(100), FlatDefined
<1> HIDE DEF q
<1>4. 0 \in T
  OBVIOUS
<1>5. ASSUME NEW k \in Nat, k \in T PROVE k + 1 \in T
  <2> SUFFICES ASSUME k + 1 \in 1 .. c PROVE Flat(q)[k + 1] = Flat(seqs)[k + 1]
    OBVIOUS
  <2>1. (k + 1) - 1 = k /\ k + 1 \in 1 .. n /\ (k + 1 # 1 => k \in 1 .. c)
    OBVIOUS
  <2>2. k + 1 # 1 => Flat(q)[k] = Flat(seqs)[k]
    BY <1>5, <2>1
  <2> QED BY <1>1, <1>2, <1>3, <2>1, <2>2
<1>6. Nat \subseteq T
  <2> HIDE DEF T
  <2> QED BY <1>4, <1>5, Induction
<1> QED BY <1>6 DEF q

LEMMA FirstOnesGrow ==
    ASSUME NEW seqs \in Seq(Bytes)
    PROVE  /\ \A c \in 0 .. Len(seqs) : FirstOnes(seqs, c) \in Bytes
           /\ FirstOnes(seqs, 0) = <<>>
           /\ \A c \in 1 .. Len(seqs) :
                  FirstOnes(seqs, c) = FirstOnes(seqs, c - 1) \o seqs[c]
           /\ FirstOnes(seqs, Len(seqs)) = FlattenSeq(seqs)
<1> USE DEF Bytes
<1> DEFINE n == Len(seqs)
           Q(c) == [i \in 1 .. c |-> seqs[i]]
<1>1. n \in Nat /\ DOMAIN seqs = 1 .. n /\ \A i \in 1 .. n : seqs[i] \in Bytes
  BY LenProperties, ElementOfSeq
<1> HIDE DEF n
<1>2. ASSUME NEW c \in 0 .. n PROVE Q(c) \in Seq(Bytes) /\ Len(Q(c)) = c
  <2>1. Q(c) \in [1 .. c -> Bytes] /\ c \in Nat
    BY <1>1
  <2> HIDE DEF Q
  <2> QED BY <2>1, FunctionIsSeq
<1>3. ASSUME NEW c \in 0 .. n PROVE FirstOnes(seqs, c) \in Bytes
  <2>1. Q(c) \in Seq(Bytes)
    BY <1>2
  <2>2. FlattenSeq(Q(c)) \in Bytes
    <3> HIDE DEF Q
    <3> QED BY <2>1, FlattenType
  <2> QED BY <2>2 DEF FirstOnes
<1>4. FirstOnes(seqs, 0) = <<>>
  <2>1. 0 \in 0 .. n
    BY <1>1
  <2>2. Q(0) = <<>> /\ Len(Q(0)) = 0
    BY <1>2, <2>1, EmptySeq
  <2> QED BY <2>2 DEF FirstOnes, FlattenSeq
<1>5. ASSUME NEW c \in 1 .. n PROVE FirstOnes(seqs, c) = Flat(seqs)[c]
  <2>1. c \in 0 .. n /\ n = Len(seqs) /\ c \in 1 .. c
    BY <1>1 DEF n
  <2>2. Flat(Q(c))[c] = Flat(seqs)[c]
    BY <1>1, <2>1, FlatOfFirst
  <2>3. Len(Q(c)) = c /\ c # 0
    BY <1>2, <2>1
  <2>4. FlattenSeq(Q(c)) = Flat(Q(c))[Len(Q(c))]
    <3> HIDE DEF Q
    <3> QED BY <2>3 DEF FlattenSeq, Flat
  <2> QED BY <2>2, <2>3, <2>4 DEF FirstOnes
<1>6. ASSUME NEW c \in 1 .. n PROVE FirstOnes(seqs, c) = FirstOnes(seqs, c - 1) \o seqs[c]
  <2>1. Flat(seqs)[c] = IF c = 1 THEN seqs[c] ELSE Flat(seqs)[c - 1] \o seqs[c]
    <3>1. Flat(seqs) = [i \in 1 .. n |-> IF i = 1 THEN seqs[i] ELSE Flat(seqs)[i - 1] \o seqs[i]]
      BY <1>1, FlatDefined DEF n
    <3> QED BY ZenonT(40), <3>1
  <2>2. CASE c = 1
    <3>1. FirstOnes(seqs, c - 1) = <<>> /\ seqs[c] \in Bytes
      BY <1>1, <1>4, <2>2
    <3> QED BY SMTT(30), <1>5, <2>1, <2>2, <3>1, ConcatEmptySeq
  <2>3. CASE c # 1
    <3>1. c - 1 \in 1 .. n
      BY <1>1, <2>3
    <3> QED BY <1>5, <2>1, <2>3, <3>1
  <2> QED BY <2>2, <2>3
<1>7. FirstOnes(seqs, n) = FlattenSeq(seqs)
  <2>1. Q(n) = seqs
    BY <1>1, <1>2
  <2> QED BY <2>1 DEF FirstOnes
<1> QED BY <1>3, <1>4, <1>6, <1>7 DEF n

(* part is in all, behind so many elements. *)
LiesBehind(before, part, all) ==
    /\ before \in Nat /\ before + Len(part) <= Len(all)
    /\ \A j \in 1 .. Len(part) : all[before + j] = part[j]

(* Each of the sequences can be read in all of them, behind those before. *)
LEMMA PlaceInFlat ==
    ASSUME NEW seqs \in Seq(Bytes), NEW c \in 1 .. Len(seqs)
    PROVE  /\ Len(FirstOnes(seqs, c)) = Len(FirstOnes(seqs, c - 1)) + Len(seqs[c])
           /\ LiesBehind(Len(FirstOnes(seqs, c - 1)), seqs[c], FlattenSeq(seqs))
<1> USE DEF Bytes
<1> DEFINE n == Len(seqs)
           E(k) == Len(FirstOnes(seqs, k))
           T == {k \in Nat : c + k <= n =>
                     /\ E(c) <= E(c + k)
                     /\ \A i \in 1 .. E(c) : FirstOnes(seqs, c + k)[i] = FirstOnes(seqs, c)[i]}
<1>1. n \in Nat /\ \A i \in 1 .. n : seqs[i] \in Bytes /\ Len(seqs[i]) \in Nat
  BY LenProperties, ElementOfSeq
<1>2. /\ \A k \in 0 .. n : FirstOnes(seqs, k) \in Bytes
      /\ \A k \in 1 .. n : FirstOnes(seqs, k) = FirstOnes(seqs, k - 1) \o seqs[k]
      /\ FirstOnes(seqs, n) = FlattenSeq(seqs)
  BY FirstOnesGrow
<1>3. \A k \in 0 .. n : E(k) \in Nat
  BY <1>2, LenProperties
<1>4. ASSUME NEW k \in 1 .. n
      PROVE  /\ E(k) = E(k - 1) + Len(seqs[k])
             /\ \A i \in 1 .. E(k - 1) : FirstOnes(seqs, k)[i] = FirstOnes(seqs, k - 1)[i]
             /\ \A j \in 1 .. Len(seqs[k]) : FirstOnes(seqs, k)[E(k - 1) + j] = seqs[k][j]
  <2> DEFINE a == FirstOnes(seqs, k - 1)
             b == seqs[k]
             x == FirstOnes(seqs, k)
  <2>0. k - 1 \in 0 .. n /\ k \in 0 .. n /\ k \in 1 .. n
    BY <1>1
  <2>1. a \in Bytes /\ b \in Bytes /\ x = a \o b
    <3> HIDE DEF n
    <3>1. FirstOnes(seqs, k - 1) \in Bytes /\ seqs[k] \in Bytes
      BY <1>1, <1>2, <2>0
    <3>2. FirstOnes(seqs, k) = FirstOnes(seqs, k - 1) \o seqs[k]
      BY <1>2, <2>0
    <3> QED BY <3>1, <3>2
  <2>2. Len(a) \in Nat /\ Len(b) \in Nat /\ E(k) = Len(x) /\ E(k - 1) = Len(a)
    BY <2>1, LenProperties
  <2> HIDE DEF a, b, x
  <2>3. /\ Len(x) = Len(a) + Len(b)
        /\ \A i \in 1 .. Len(a) + Len(b) : x[i] = IF i <= Len(a) THEN a[i] ELSE b[i - Len(a)]
    BY <2>1, ConcatProperties
  <2>4. ASSUME NEW i \in 1 .. Len(a) PROVE x[i] = a[i]
    <3>1. i \in 1 .. Len(a) + Len(b) /\ i <= Len(a)
      BY <2>2
    <3> QED BY <2>3, <3>1
  <2>5. ASSUME NEW j \in 1 .. Len(b) PROVE x[Len(a) + j] = b[j]
    <3>1. Len(a) + j \in 1 .. Len(a) + Len(b) /\ ~(Len(a) + j <= Len(a)) /\ (Len(a) + j) - Len(a) = j
      BY SMTT(30), <2>2
    <3> QED BY <2>3, <3>1
  <2> QED BY <2>2, <2>3, <2>4, <2>5 DEF a, b, x
<1> HIDE DEF n, E
<1>5. 0 \in T
  <2>1. c \in 0 .. n /\ c + 0 = c
    BY <1>1 DEF n
  <2> QED BY <1>3, <2>1
<1>6. ASSUME NEW k \in Nat, k \in T PROVE k + 1 \in T
  <2> SUFFICES ASSUME c + (k + 1) <= n
               PROVE  /\ E(c) <= E(c + (k + 1))
                      /\ \A i \in 1 .. E(c) : FirstOnes(seqs, c + (k + 1))[i] = FirstOnes(seqs, c)[i]
    OBVIOUS
  <2>1. /\ c \in 1 .. n /\ c + (k + 1) \in 1 .. n /\ (c + (k + 1)) - 1 = c + k
        /\ c + k <= n /\ c + k \in 1 .. n
    BY <1>1 DEF n
  <2>2. /\ E(c) <= E(c + k)
        /\ \A i \in 1 .. E(c) : FirstOnes(seqs, c + k)[i] = FirstOnes(seqs, c)[i]
    BY <1>6, <2>1
  <2>3. /\ E(c + (k + 1)) = E(c + k) + Len(seqs[c + (k + 1)])
        /\ \A i \in 1 .. E(c + k) : FirstOnes(seqs, c + (k + 1))[i] = FirstOnes(seqs, c + k)[i]
    BY <1>4, <2>1
  <2>4. E(c) \in Nat /\ E(c + k) \in Nat /\ Len(seqs[c + (k + 1)]) \in Nat
    BY SMTT(30), <1>1, <1>3, <2>1
  <2>5. E(c) <= E(c + (k + 1))
    BY SMTT(30), <2>2, <2>3, <2>4
  <2>6. \A i \in 1 .. E(c) : i \in 1 .. E(c + k)
    BY <2>2, <2>4
  <2> QED BY <2>2, <2>3, <2>5, <2>6
<1>7. n - c \in T
  <2>1. Nat \subseteq T
    <3> HIDE DEF T
    <3> QED BY <1>5, <1>6, Induction
  <2>2. n - c \in Nat
    BY <1>1 DEF n
  <2> HIDE DEF T
  <2> QED BY <2>1, <2>2
<1>8. c \in 1 .. n /\ c + (n - c) = n /\ n <= n /\ c - 1 \in 0 .. n
  BY <1>1 DEF n
<1>9. /\ E(c) <= E(n)
      /\ \A i \in 1 .. E(c) : FirstOnes(seqs, n)[i] = FirstOnes(seqs, c)[i]
  BY <1>7, <1>8
<1>10. /\ E(c) = E(c - 1) + Len(seqs[c])
       /\ \A j \in 1 .. Len(seqs[c]) : FirstOnes(seqs, c)[E(c - 1) + j] = seqs[c][j]
  BY <1>4, <1>8
<1>11. E(c - 1) \in Nat /\ E(c) \in Nat /\ Len(seqs[c]) \in Nat
  BY <1>1, <1>3, <1>8
<1>12. ASSUME NEW j \in 1 .. Len(seqs[c]) PROVE FirstOnes(seqs, n)[E(c - 1) + j] = seqs[c][j]
  <2>1. E(c - 1) + j \in 1 .. E(c)
    BY SMTT(30), <1>10, <1>11
  <2> QED BY <1>9, <1>10, <2>1
<1> QED BY <1>2, <1>9, <1>10, <1>11, <1>12 DEF E, n, LiesBehind

LEMMA OnePiece ==
    ASSUME NEW p
    PROVE  Joined(<<p>>) = p.bytes
<1> DEFINE q == [i \in DOMAIN <<p>> |-> <<p>>[i].bytes]
<1>1. Len(q) = 1 /\ q[1] = p.bytes
  OBVIOUS
<1> HIDE DEF q
<1>2. Flat(q)[1] = q[1]
  <2>1. Flat(q) = [i \in 1 .. Len(q) |-> IF i = 1 THEN q[i] ELSE Flat(q)[i - 1] \o q[i]]
    <3>1. Len(q) \in Nat
      BY <1>1
    <3> QED BY ONLY <3>1, FlatDefined
  <2>2. 1 \in 1 .. Len(q)
    BY <1>1
  <2> QED BY ZenonT(40), <2>1, <2>2
<1>3. FlattenSeq(q) = Flat(q)[Len(q)]
  BY <1>1 DEF FlattenSeq, Flat
<1> QED BY <1>1, <1>2, <1>3 DEF Joined, q

LEMMA JoinedType ==
    ASSUME NEW ps \in Seq(Pieces)
    PROVE  Joined(ps) \in Bytes /\ Len(Joined(ps)) \in Nat
<1>1. \A m \in Pieces : m.bytes \in Bytes
  <2>1. \A data \in Messages : FramePiece(data).bytes \in Bytes
    BY FrameAssumption DEF FramePiece, Bytes
  <2>2. \A noise \in Noise : NoisePiece(noise).bytes \in Bytes
    BY WireAssumption DEF NoisePiece, Bytes
  <2> QED BY <2>1, <2>2 DEF Pieces
<1>2. [i \in DOMAIN ps |-> ps[i].bytes] \in Seq(Bytes)
  <2>1. DOMAIN ps = 1 .. Len(ps) /\ Len(ps) \in Nat
    BY LenProperties
  <2>2. \A i \in 1 .. Len(ps) : ps[i].bytes \in Bytes
    BY <1>1, ElementOfSeq
  <2> QED BY <2>1, <2>2, IsASeq
<1>3. Joined(ps) \in Bytes
  BY <1>2, FlattenType DEF Joined, Bytes
<1> QED BY <1>3, Bytewise

LEMMA StreamType ==
    ASSUME pieces \in Seq(Pieces)
    PROVE  Stream \in Bytes /\ Len(Stream) \in Nat
BY JoinedType DEF Stream

-----------------------------------------------------------------------------
(* What PacketData makes can be found, *)
GoodData == {data \in Bytes : Len(data) < 128 /\ PacketData(data) \in Bytes}

HeadOfFrame(data) == <<HEAD, HEAD, TAIL, Check(data), Len(data)>>

LEMMA FrameParts ==
    ASSUME NEW data \in GoodData
    PROVE  LET H == HeadOfFrame(data)
               W == data \o <<TAIL>>
           IN  /\ H \in Heads /\ W \in Bytes /\ Len(W) = Len(data) + 1
               /\ PacketData(data) = H \o W /\ Len(H \o W) = Len(data) + 6
               /\ ToNetPacket(From(H, 2)).datalen = Len(data)
               /\ ToNetPacket(From(H, 2)).check = Check(data)
               /\ W[Len(data) + 1] = TAIL /\ SubSeq(W, 1, Len(data)) = data
<1> DEFINE H == HeadOfFrame(data)
           W == data \o <<TAIL>>
           X == PacketData(data)
           p == ToNetPacket(From(H, 2))
<1>1. data \in Bytes /\ Len(data) \in Nat /\ Len(data) < 128 /\ X \in Bytes
  BY Bytewise DEF GoodData
<1>2. <<TAIL>> \in Bytes /\ Len(<<TAIL>>) = 1 /\ <<TAIL>>[1] = TAIL
  BY DEF Bytes
<1>3. /\ W \in Bytes /\ Len(W) = Len(data) + 1 /\ W[Len(data) + 1] = TAIL
      /\ \A i \in 1 .. Len(data) : W[i] = data[i]
  BY <1>1, <1>2, Together
<1>4. SubSeq(W, 1, Len(data)) = data
  <2> DEFINE V == SubSeq(W, 1, Len(data))
  <2> HIDE DEF W
  <2>0. 1 \in Nat \ {0} /\ Len(data) <= Len(W)
    BY <1>1, <1>3
  <2>1. /\ V \in Bytes /\ Len(V) = IF 1 <= Len(data) THEN Len(data) - 1 + 1 ELSE 0
        /\ \A i \in 1 .. Len(data) - 1 + 1 : V[i] = W[1 + i - 1]
    BY <1>1, <1>3, <2>0, PartOf
  <2> HIDE DEF V
  <2>2. Len(V) = Len(data) /\ \A i \in 1 .. Len(V) : V[i] = data[i]
    BY <1>1, <1>3, <2>1
  <2>3. V = data
    BY <1>1, <2>1, <2>2, SameBytes
  <2> QED BY <2>3 DEF V
<1>4a. PICK S : H \in Seq(S) /\ data \in Seq(S) /\ <<TAIL>> \in Seq(S) /\ W \in Seq(S)
  <2> DEFINE c == Check(data)
             n == Len(data)
             S == {HEAD, TAIL, c, n} \cup (0 .. 255)
  <2> HIDE DEF c, n
  <2>1. H \in Seq(S)
    BY DEF HeadOfFrame, c, n
  <2>2. <<TAIL>> \in Seq(S)
    OBVIOUS
  <2>3. data \in Seq(S) /\ W \in Seq(S)
    <3> HIDE DEF W
    <3>1. 0 .. 255 \subseteq S
      OBVIOUS
    <3> QED BY SMTT(30), <1>1, <1>3, <3>1 DEF Bytes
  <2> HIDE DEF H, W, S
  <2> QED BY <2>1, <2>2, <2>3
<1>5. X = H \o W
  <2> DEFINE T == <<TAIL>>
  <2>1. X = (H \o data) \o T
    BY DEF PacketData, HeadOfFrame
  <2> HIDE DEF H, T
  <2>2. (H \o data) \o T = H \o (data \o T)
    BY SMTT(30), <1>4a, Associative DEF T
  <2> QED BY <2>1, <2>2 DEF T
<1>6. Len(H) = 5 /\ H[1] = HEAD /\ H[2] = HEAD /\ H[3] = TAIL /\ H[4] = Check(data) /\ H[5] = Len(data)
  BY DEF HeadOfFrame
<1>7. \A i \in 1 .. 5 : H[i] = X[i]
  <2> HIDE DEF H, W, X
  <2>1. \A i \in 1 .. Len(H) : (H \o W)[i] = H[i]
    BY <1>4a
  <2> QED BY <1>5, <1>6, <2>1
<1>8. H \in Bytes
  <2>1. Len(X) = 5 + Len(W)
    <3> HIDE DEF W
    <3>1. Len(W) \in Nat
      BY <1>3, Bytewise
    <3>2. Len(H \o W) = 5 + Len(W)
      BY <1>6, <3>1 DEF HeadOfFrame
    <3> QED BY <1>5, <3>2
  <2>2. \A i \in 1 .. 5 : X[i] \in 0 .. 255
    <3>1. \A i \in 1 .. Len(X) : X[i] \in 0 .. 255
      BY <1>1, Bytewise
    <3>2. Len(W) \in Nat
      BY <1>3, Bytewise
    <3> HIDE DEF X, W
    <3>3. \A i \in 1 .. 5 : i \in 1 .. Len(X)
      BY <2>1, <3>2
    <3> QED BY <3>1, <3>3
  <2>3. H[4] \in 0 .. 255 /\ H[5] \in 0 .. 255
    BY <1>7, <2>2
  <2>4. Check(data) \in 0 .. 255 /\ Len(data) \in 0 .. 255
    BY <1>6, <2>3
  <2> QED BY SMTT(30), <2>4 DEF HeadOfFrame, Bytes
<1>9. p.header = HEAD /\ p.tail = TAIL /\ p.check = Check(data) /\ p.datalen = Len(data)
  <2>1. 1 \in Nat \ {0} /\ 1 + HeadLen <= Len(H) /\ 1 + 1 = 2 /\ 1 + 2 = 3 /\ 1 + 3 = 4 /\ 1 + 4 = 5
    BY SMTT(30), <1>6 DEF HeadLen
  <2>2. p = ToNetPacket(From(H, 1 + 1))
    BY <2>1
  <2> HIDE DEF H, p
  <2>3. /\ p.header = H[1 + 1] /\ p.tail = H[1 + 2] /\ p.check = H[1 + 3]
        /\ p.datalen = Signed(H[1 + 4])
    BY <1>8, <2>1, <2>2, HeaderAt
  <2>4. Signed(Len(data)) = Len(data)
    BY <1>1 DEF Signed
  <2> QED BY <1>6, <2>1, <2>3, <2>4
<1>10. H \in Heads
  BY <1>1, <1>6, <1>8, <1>9 DEF Heads, ValidHeader, HeadLen
<1>11. Len(H \o W) = Len(data) + 6
  <2> HIDE DEF H, W
  <2>1. Len(H \o W) = Len(H) + Len(W)
    BY <1>3, <1>8, Together
  <2> QED BY <1>1, <1>3, <1>6, <2>1
<1> QED BY <1>3, <1>4, <1>5, <1>9, <1>10, <1>11

LEMMA FrameFound ==
    ASSUME NEW data \in GoodData, NEW Z \in Bytes
    PROVE  Frames(PacketData(data) \o Z) = <<data>> \o Frames(Z)
<1> DEFINE H == HeadOfFrame(data)
           W == data \o <<TAIL>>
           p == ToNetPacket(From(H, 2))
<1>1. /\ H \in Heads /\ W \in Bytes /\ Len(W) = Len(data) + 1 /\ PacketData(data) = H \o W
      /\ p.datalen = Len(data) /\ p.check = Check(data)
      /\ W[Len(data) + 1] = TAIL /\ SubSeq(W, 1, Len(data)) = data
  BY FrameParts
<1> HIDE DEF H, W
<1>2. H \in Bytes
  BY <1>1 DEF Heads
<1>3. (H \o W) \o Z = H \o (W \o Z)
  BY <1>1, <1>2, Regroup
<1>4. Len(W) = p.datalen + 1 =>
          Frames(H \o (W \o Z)) =
              IF W[p.datalen + 1] = TAIL /\ p.check = Check(SubSeq(W, 1, p.datalen))
              THEN <<SubSeq(W, 1, p.datalen)>> \o Frames(Z)
              ELSE Frames(From(H, 2) \o (W \o Z))
  BY <1>1, FramesOfCandidate
<1> QED BY <1>1, <1>3, <1>4

(* and as long as its last byte is missing there is nothing to be found.   *)
LEMMA FrameUnfinished ==
    ASSUME NEW data \in GoodData, NEW n \in Nat, n < Len(PacketData(data))
    PROVE  Frames(SubSeq(PacketData(data), 1, n)) = <<>>
<1> DEFINE H == HeadOfFrame(data)
           W == data \o <<TAIL>>
           p == ToNetPacket(From(H, 2))
           X == PacketData(data)
           Y == SubSeq(X, 1, n)
           K == SubSeq(W, 1, n - 5)
<1>1. /\ H \in Heads /\ W \in Bytes /\ Len(W) = Len(data) + 1 /\ X = H \o W
      /\ p.datalen = Len(data) /\ Len(X) = Len(data) + 6 /\ Len(data) \in Nat
  BY FrameParts, Bytewise DEF GoodData
<1>2. /\ H \in Bytes /\ Len(H) = 5 /\ X \in Bytes
  BY <1>1, Together DEF Heads, HeadLen
<1>3. /\ \A i \in 1 .. 5 : X[i] = H[i]
      /\ \A i \in 1 .. Len(W) : X[5 + i] = W[i]
  <2> HIDE DEF H, W, X
  <2>1. /\ \A i \in 1 .. Len(H) : (H \o W)[i] = H[i]
        /\ \A i \in 1 .. Len(W) : (H \o W)[Len(H) + i] = W[i]
    BY <1>1, <1>2, Together
  <2> QED BY <1>1, <1>2, <2>1
<1> HIDE DEF H, W, X, p
<1>0. n <= Len(X) /\ n < Len(X) /\ 1 \in Nat \ {0}
  <2>1. n < Len(X)
    BY DEF X
  <2> QED BY <1>1, <2>1
<1>4. Y \in Bytes /\ Len(Y) = n /\ \A i \in 1 .. n : Y[i] = X[i]
  <2>1. /\ Y \in Bytes /\ Len(Y) = IF 1 <= n THEN n - 1 + 1 ELSE 0
        /\ \A i \in 1 .. n - 1 + 1 : Y[i] = X[1 + i - 1]
    BY <1>0, <1>2, PartOf
  <2> HIDE DEF Y
  <2>2. \A i \in 1 .. n : 1 + i - 1 = i /\ i \in 1 .. n - 1 + 1
    OBVIOUS
  <2> QED BY <2>1, <2>2
<1> HIDE DEF Y
<1>5. ASSUME n < 6 PROVE Frames(Y) = <<>>
  BY <1>4, <1>5, FramesShort DEF HeadLen
<1>6. ASSUME ~(n < 6) PROVE Frames(Y) = <<>>
  <2>1. /\ K \in Bytes /\ Len(K) = n - 5 /\ \A i \in 1 .. n - 5 : K[i] = W[i]
    <3>1. n - 5 \in Nat /\ 1 <= n - 5 /\ n - 5 <= Len(W)
      BY <1>0, <1>1, <1>6
    <3>2. /\ K \in Bytes /\ Len(K) = IF 1 <= n - 5 THEN (n - 5) - 1 + 1 ELSE 0
          /\ \A i \in 1 .. (n - 5) - 1 + 1 : K[i] = W[1 + i - 1]
      BY <1>1, <3>1, PartOf
    <3> HIDE DEF K
    <3>3. \A i \in 1 .. n - 5 : 1 + i - 1 = i /\ i \in 1 .. (n - 5) - 1 + 1
      OBVIOUS
    <3> QED BY <3>1, <3>2, <3>3
  <2> HIDE DEF K
  <2>2. /\ H \o K \in Bytes /\ Len(H \o K) = n
        /\ \A i \in 1 .. 5 : (H \o K)[i] = H[i]
        /\ \A i \in 1 .. n - 5 : (H \o K)[5 + i] = K[i]
    <3>1. /\ H \o K \in Bytes /\ Len(H \o K) = Len(H) + Len(K)
          /\ \A i \in 1 .. Len(H) : (H \o K)[i] = H[i]
          /\ \A i \in 1 .. Len(K) : (H \o K)[Len(H) + i] = K[i]
      BY <1>2, <2>1, Together
    <3> QED BY <1>2, <1>6, <2>1, <3>1
  <2>3. ASSUME NEW i \in 1 .. n PROVE Y[i] = (H \o K)[i]
    <3>1. CASE i <= 5
      <4>1. i \in 1 .. 5
        BY <3>1
      <4> QED BY <1>3, <1>4, <2>2, <4>1
    <3>2. CASE ~(i <= 5)
      <4>1. i - 5 \in 1 .. n - 5 /\ 5 + (i - 5) = i /\ i - 5 \in 1 .. Len(W)
        BY <1>0, <1>1, <3>2
      <4>2. X[i] = W[i - 5] /\ (H \o K)[i] = K[i - 5]
        BY <1>3, <2>2, <4>1
      <4> QED BY <1>4, <2>1, <4>1, <4>2
    <3> QED BY <3>1, <3>2
  <2>4. Y = H \o K
    BY <1>4, <2>2, <2>3, SameBytes
  <2>5. H \o (K \o <<>>) = H \o K
    BY <2>1, Bytewise
  <2>6. Len(K) <= p.datalen /\ <<>> = <<>> => Frames(H \o (K \o <<>>)) = <<>>
    BY <1>1, <2>1, NoBytes, FramesOfCandidate DEF p
  <2>7. Len(K) <= p.datalen
    BY <1>0, <1>1, <2>1
  <2> QED BY <2>4, <2>5, <2>6, <2>7
<1> QED BY <1>5, <1>6 DEF X, Y

-----------------------------------------------------------------------------
(* The invariant.                                                          *)

HeadPart == SubSeq(readdata, headpos, headpos + HeadLen)

(* The candidate the parser is at, in the buffer and in packetdata: if all *)
(* of it is in the buffer, packetdata is a copy.                           *)
Candidate ==
    /\ headpos # 0 /\ headpos + HeadLen <= Len(readdata)
    /\ readdata[headpos] = HEAD
    /\ packet = ToNetPacket(From(readdata, headpos + 1))
    /\ ValidHeader(packet)
    /\ Len(packetdata) <= packet.datalen + 1
    /\ packet.datalen + 1 <= packetroom
    /\ InReadData => packetdata = SubSeq(readdata, headpos + HeadLen + 1,
                                         headpos + HeadLen + packet.datalen + 1)

TypeInv == TypeOK /\ (parsetype = "PARSE_HEAD" => Candidate)

(* The bytes received that are still to be parsed. *)
Unread == IF parsetype = "PARSE_NOTHING"
          THEN readdata \o chunk
          ELSE HeadPart \o (packetdata \o (AfterFrame \o chunk))

(* Whatever is still to come, the frames are those called back and those   *)
(* of the bytes that are still to be parsed.                               *)
Progress == \A more \in Bytes : Frames(Received \o more) = delivered \o Frames(Unread \o more)

(* recvdata does not return before it has looked at all it was given, nor  *)
(* with a frame it could call back.                                        *)
Idle == ~running => chunk = <<>>
NothingKeptBack == ~running => Frames(Unread) = <<>>

ParserInv == TypeInv /\ Idle /\ Progress /\ NothingKeptBack

-----------------------------------------------------------------------------
LEMMA ReceivedType ==
    ASSUME TypeOK
    PROVE  /\ Received \in Bytes
           /\ arrived \in Nat /\ arrived <= Len(Stream) /\ Stream \in Bytes /\ Len(Stream) \in Nat
<1>1. Stream \in Bytes /\ Len(Stream) \in Nat /\ arrived \in 0 .. Len(Stream)
  BY StreamType DEF TypeOK
<1>2. 1 \in Nat \ {0} /\ arrived \in Nat /\ arrived <= Len(Stream)
  BY <1>1
<1>3. SubSeq(Stream, 1, arrived) \in Bytes
  BY <1>1, <1>2, PartOf
<1>4. earlier.bytes \in Bytes
  BY DEF TypeOK
<1> QED BY <1>1, <1>2, <1>3, <1>4, Together DEF Received

(* What is known of a candidate. *)
LEMMA CandidateFacts ==
    ASSUME TypeOK, Candidate
    PROVE  /\ HeadPart \in Heads /\ headpos \in Nat \ {0}
           /\ packet = ToNetPacket(From(HeadPart, 2)) /\ packet.datalen \in 0 .. 127
           /\ Missing \in Nat /\ AfterFrame \in Bytes
           /\ SubSeq(readdata, headpos + 1, headpos + HeadLen) = From(HeadPart, 2)
           /\ InReadData => /\ Missing = 0
                            /\ From(readdata, headpos + 1) =
                                   From(HeadPart, 2) \o (packetdata \o AfterFrame)
           /\ ~InReadData => AfterFrame = <<>>
<1>1. /\ readdata \in Bytes /\ packetdata \in Bytes /\ headpos \in Nat \ {0}
      /\ headpos + HeadLen <= Len(readdata)
      /\ Len(readdata) \in Nat /\ Len(packetdata) \in Nat
  BY Bytewise DEF TypeOK, Candidate
<1>2. /\ HeadPart \in Bytes /\ Len(HeadPart) = HeadLen + 1 /\ HeadPart[1] = readdata[headpos]
      /\ From(HeadPart, 2) = SubSeq(readdata, headpos + 1, headpos + HeadLen)
      /\ ToNetPacket(From(HeadPart, 2)) = ToNetPacket(From(readdata, headpos + 1))
      /\ From(readdata, headpos + 1) = From(HeadPart, 2) \o From(readdata, headpos + HeadLen + 1)
  BY <1>1, HeadOf DEF HeadPart
<1>3. packet = ToNetPacket(From(HeadPart, 2)) /\ readdata[headpos] = HEAD /\ ValidHeader(packet)
  BY <1>2 DEF Candidate
<1>4. HeadPart \in Heads
  BY <1>2, <1>3 DEF Heads
<1>5. packet.datalen \in 0 .. 127
  <2>1. ToNetPacket(From(HeadPart, 2)).datalen \in 0 .. 127
    BY <1>4, NoBytes, FramesOfCandidate
  <2> QED BY <1>3, <2>1
<1> DEFINE d == packet.datalen
           b == headpos + HeadLen
           e == b + d + 1
<1>12. /\ d \in 0 .. 127 /\ Len(packetdata) <= d + 1
       /\ Missing = d + 1 - Len(packetdata)
       /\ InReadData <=> Len(readdata) - headpos - HeadLen >= d + 1
       /\ AfterFrame = IF InReadData THEN From(readdata, headpos + HeadLen + d + 2) ELSE <<>>
  BY <1>5 DEF Missing, InReadData, AfterFrame, Candidate
<1> HIDE DEF d
<1>6. Missing \in Nat
  BY <1>1, <1>12
<1>7. /\ b \in Nat /\ e \in Nat /\ b <= Len(readdata) /\ b <= e
      /\ InReadData <=> e <= Len(readdata)
      /\ e - b = d + 1
  BY <1>1, <1>12 DEF HeadLen
<1>8. AfterFrame = IF InReadData THEN From(readdata, e + 1) ELSE <<>>
  <2>1. headpos + HeadLen + d + 2 = e + 1
    BY <1>1, <1>12 DEF HeadLen
  <2> QED BY <1>12, <2>1
<1>9. InReadData => packetdata = SubSeq(readdata, b + 1, e)
  BY DEF Candidate, d
<1> HIDE DEF b, e
<1>10. AfterFrame \in Bytes
  <2>1. CASE InReadData
    <3>1. e \in 0 .. Len(readdata)
      BY <1>1, <1>7, <2>1
    <3> QED BY <1>1, <1>8, <2>1, <3>1, RestOf
  <2>2. CASE ~InReadData
    BY <1>8, <2>2, NoBytes
  <2> QED BY <2>1, <2>2
<1>11. ASSUME InReadData
       PROVE  Missing = 0 /\ From(readdata, headpos + 1) = From(HeadPart, 2) \o (packetdata \o AfterFrame)
  <2>1. b + 1 \in Nat \ {0} /\ e <= Len(readdata)
    BY <1>7, <1>11
  <2>2. Len(SubSeq(readdata, b + 1, e)) = IF b + 1 <= e THEN e - (b + 1) + 1 ELSE 0
    BY <1>1, <1>7, <2>1, PartOf
  <2>3. Len(packetdata) = d + 1
    BY <1>12, <1>7, <1>9, <1>11, <2>2
  <2>4. Missing = 0
    BY <1>12, <2>3
  <2>5. /\ b + 1 \in 1 .. Len(readdata) + 1 /\ e \in (b + 1) - 1 .. Len(readdata)
        /\ Len(readdata) \in e .. Len(readdata)
    BY <1>1, <1>7, <2>1
  <2>6. SubSeq(readdata, b + 1, e) \o SubSeq(readdata, e + 1, Len(readdata)) =
            SubSeq(readdata, b + 1, Len(readdata))
    BY <1>1, <2>5, CutBytes
  <2>7. packetdata \o AfterFrame = From(readdata, headpos + HeadLen + 1)
    BY <1>8, <1>9, <1>11, <2>6 DEF From, b
  <2> QED BY <1>2, <2>4, <2>7
<1> QED BY <1>1, <1>2, <1>3, <1>4, <1>5, <1>6, <1>8, <1>10, <1>11

(* When enough has come. *)
LEMMA WholeFacts ==
    ASSUME TypeOK, Candidate, Len(chunk) >= Missing
    PROVE  /\ Whole \in Bytes /\ Len(Whole) = packet.datalen + 1
           /\ From(chunk, Missing + 1) \in Bytes
           /\ packetdata \o (AfterFrame \o chunk) =
                  Whole \o (AfterFrame \o From(chunk, Missing + 1))
           /\ InReadData => Whole = packetdata
<1> DEFINE k == Missing
           K == SubSeq(chunk, 1, k)
           C == From(chunk, k + 1)
<1>1. /\ chunk \in Bytes /\ packetdata \in Bytes /\ Len(chunk) \in Nat /\ Len(packetdata) \in Nat
  BY Bytewise DEF TypeOK
<1>2. /\ k \in Nat /\ AfterFrame \in Bytes /\ packet.datalen \in 0 .. 127
      /\ (InReadData => k = 0) /\ (~InReadData => AfterFrame = <<>>)
  BY CandidateFacts
<1>3. k + Len(packetdata) = packet.datalen + 1
  <2> DEFINE d == packet.datalen
  <2>1. d \in 0 .. 127 /\ k = d + 1 - Len(packetdata)
    BY <1>2 DEF Missing
  <2> HIDE DEF d, k
  <2>2. k + Len(packetdata) = d + 1
    BY <1>1, <2>1
  <2> QED BY <2>2 DEF d
<1>4. k \in 0 .. Len(chunk)
  BY <1>1, <1>2
<1> HIDE DEF k
<1>5. K \in Bytes /\ Len(K) = k
  <2>1. 1 \in Nat \ {0} /\ k \in Nat /\ k <= Len(chunk)
    BY <1>1, <1>4
  <2>2. K \in Bytes /\ Len(K) = IF 1 <= k THEN k - 1 + 1 ELSE 0
    BY <1>1, <2>1, PartOf
  <2> QED BY <2>1, <2>2
<1>6. C \in Bytes
  BY <1>1, <1>4, RestOf
<1>7. K \o C = chunk
  <2>1. /\ 1 \in 1 .. Len(chunk) + 1 /\ k \in 1 - 1 .. Len(chunk)
        /\ Len(chunk) \in k .. Len(chunk)
    BY <1>1, <1>4
  <2>2. SubSeq(chunk, 1, k) \o SubSeq(chunk, k + 1, Len(chunk)) = SubSeq(chunk, 1, Len(chunk))
    BY <1>1, <2>1, CutBytes
  <2>3. SubSeq(chunk, 1, Len(chunk)) = chunk
    BY <1>1, WholeBytes DEF From
  <2> QED BY <2>2, <2>3 DEF From
<1>8. Whole = packetdata \o K
  BY DEF Whole, k
<1>9. k = 0 => K = <<>> /\ C = chunk
  <2>1. k = 0 => C = From(chunk, 1)
    OBVIOUS
  <2> QED BY <1>1, <1>5, <2>1, WholeBytes, Bytewise
<1> HIDE DEF K, C
<1>10. Whole \in Bytes /\ Len(Whole) = packet.datalen + 1
  <2>1. packetdata \o K \in Bytes /\ Len(packetdata \o K) = Len(packetdata) + Len(K)
    BY <1>1, <1>5, Together
  <2> QED BY <1>1, <1>2, <1>3, <1>5, <1>8, <2>1
<1>11. InReadData => Whole = packetdata
  BY <1>1, <1>2, <1>8, <1>9, Bytewise
<1>12. packetdata \o (AfterFrame \o chunk) = Whole \o (AfterFrame \o C)
  <2>1. CASE InReadData
    BY <1>2, <1>9, <1>11, <2>1
  <2>2. CASE ~InReadData
    <3>1. AfterFrame \o chunk = chunk /\ AfterFrame \o C = C
      BY <1>1, <1>2, <1>6, <2>2, Bytewise
    <3>2. packetdata \o (K \o C) = (packetdata \o K) \o C
      BY ZenonT(40), <1>1, <1>5, <1>6, Regroup
    <3> QED BY <1>7, <1>8, <3>1, <3>2
  <2> QED BY <2>1, <2>2
<1> QED BY <1>6, <1>10, <1>11, <1>12 DEF C, k
-----------------------------------------------------------------------------
(* The steps.  One turn at the beginning of a frame skips what no frame    *)
(* begins with.                                                            *)

LEMMA HeaderType ==
    ASSUME NEW U \in Bytes, NEW i \in Nat \ {0}, i + HeadLen <= Len(U)
    PROVE  /\ ToNetPacket(From(U, i + 1)) \in
                  [header : Nat, tail : Nat, check : Nat, datalen : Int]
           /\ ToNetPacket(From(U, i + 1)).datalen \in -128 .. 127
<1> DEFINE F == From(U, i + 1)
           p == ToNetPacket(F)
<1>1. /\ p.header \in 0 .. 255 /\ p.tail \in 0 .. 255 /\ p.check \in 0 .. 255
      /\ p.datalen \in -128 .. 127
  BY HeaderAt
<1>2. p = [header |-> F[1], tail |-> F[2], check |-> F[3], datalen |-> Signed(F[4])]
  BY DEF ToNetPacket
<1> HIDE DEF F, p
<1>3. F[1] \in 0 .. 255 /\ F[2] \in 0 .. 255 /\ F[3] \in 0 .. 255 /\ Signed(F[4]) \in -128 .. 127
  BY <1>1, <1>2
<1>4. F[1] \in Nat /\ F[2] \in Nat /\ F[3] \in Nat /\ Signed(F[4]) \in Int
  <2>1. 0 .. 255 \subseteq Nat /\ -128 .. 127 \subseteq Int
    OBVIOUS
  <2> QED BY <1>3, <2>1
<1>5. p \in [header : Nat, tail : Nat, check : Nat, datalen : Int]
  BY <1>2, <1>4
<1> QED BY <1>1, <1>5 DEF F, p

LEMMA ParseHeadStep ==
    ASSUME TypeInv, ParseHead
    PROVE  /\ TypeInv'
           /\ \A more \in Bytes : Frames(Unread' \o more) = Frames(Unread \o more)
<1> DEFINE k   == Smaller(room - Len(readdata), Len(chunk))
           buf == readdata \o SubSeq(chunk, 1, k)
           at  == {i \in DOMAIN buf : buf[i] = HEAD}
           h   == Min(at)
           p   == ToNetPacket(From(buf, h + 1))
           end == h + HeadLen
<1>1. /\ parsetype = "PARSE_NOTHING" /\ chunk' = From(chunk, k + 1)
      /\ \/ /\ at = {}
            /\ readdata' = <<>>
            /\ UNCHANGED <<parsetype, headpos, packet, packetdata, packetroom>>
         \/ /\ at # {} /\ Len(buf) < end
            /\ headpos' = h
            /\ readdata' = From(buf, h)
            /\ UNCHANGED <<parsetype, packet, packetdata, packetroom>>
         \/ /\ at # {} /\ Len(buf) >= end
            /\ headpos' = h
            /\ packet' = p
            /\ ~ValidHeader(p)
            /\ readdata' = From(buf, h + 1)
            /\ UNCHANGED <<parsetype, packetdata, packetroom>>
         \/ /\ at # {} /\ Len(buf) >= end
            /\ headpos' = h
            /\ packet' = p
            /\ ValidHeader(p)
            /\ readdata' = buf
            /\ parsetype' = "PARSE_HEAD"
            /\ packetdata' = SubSeq(buf, end + 1, Smaller(Len(buf), end + p.datalen + 1))
            /\ packetroom' = Larger(packetroom, p.datalen + 1)
  BY DEF ParseHead, BehindHead
<1>2. UNCHANGED <<pieces, arrived, running, room, history>>
  BY DEF ParseHead
<1>3. /\ readdata \in Bytes /\ chunk \in Bytes /\ Len(readdata) \in Nat /\ Len(chunk) \in Nat
      /\ room \in Nat /\ Len(readdata) <= room
      /\ packetdata \in Bytes /\ packetroom \in Nat /\ Len(packetdata) <= packetroom
  BY Bytewise DEF TypeInv, TypeOK
<1>4. k \in 0 .. Len(chunk) /\ k <= room - Len(readdata)
  BY <1>3 DEF Smaller
<1> DEFINE K == SubSeq(chunk, 1, k)
           C == From(chunk, k + 1)
<1> HIDE DEF k
<1>5. K \in Bytes /\ Len(K) = k
  <2>1. 1 \in Nat \ {0} /\ k \in Nat /\ k <= Len(chunk)
    BY <1>3, <1>4
  <2>2. K \in Bytes /\ Len(K) = IF 1 <= k THEN k - 1 + 1 ELSE 0
    BY <1>3, <2>1, PartOf
  <2> QED BY <2>1, <2>2
<1>6. C \in Bytes
  BY <1>3, <1>4, RestOf
<1>7. K \o C = chunk
  <2>1. /\ 1 \in 1 .. Len(chunk) + 1 /\ k \in 1 - 1 .. Len(chunk)
        /\ Len(chunk) \in k .. Len(chunk)
    BY <1>3, <1>4
  <2>2. SubSeq(chunk, 1, k) \o SubSeq(chunk, k + 1, Len(chunk)) = SubSeq(chunk, 1, Len(chunk))
    BY <1>3, <2>1, CutBytes
  <2>3. SubSeq(chunk, 1, Len(chunk)) = chunk
    BY <1>3, WholeBytes DEF From
  <2> QED BY <2>2, <2>3 DEF From
<1>8. chunk' = C
  BY <1>1
<1>9. buf = readdata \o K
  OBVIOUS
<1> HIDE DEF K, C, buf
<1>10. buf \in Bytes /\ Len(buf) \in Nat /\ Len(buf) <= room
  <2>1. readdata \o K \in Bytes /\ Len(readdata \o K) = Len(readdata) + Len(K)
    BY <1>3, <1>5, Together
  <2>2. Len(buf) = Len(readdata) + k
    BY <1>5, <1>9, <2>1
  <2> QED BY <1>3, <1>4, <1>9, <2>1, <2>2
<1>11. Unread = buf \o C
  <2>1. readdata \o (K \o C) = (readdata \o K) \o C
    BY ZenonT(40), <1>3, <1>5, <1>6, Regroup
  <2> QED BY <1>1, <1>7, <1>9, <2>1 DEF Unread
<1>12. ASSUME NEW more \in Bytes
       PROVE  C \o more \in Bytes /\ (buf \o C) \o more = buf \o (C \o more)
  <2>1. C \o more \in Bytes
    BY <1>6, Together
  <2>2. (buf \o C) \o more = buf \o (C \o more)
    BY <1>6, <1>10, Regroup
  <2> QED BY <2>1, <2>2
<1>13. at = {} => \A i \in 1 .. Len(buf) : buf[i] # HEAD
  BY <1>10 DEF Bytes
<1>14. at # {} => /\ h \in 1 .. Len(buf) /\ buf[h] = HEAD
                  /\ \A i \in 1 .. h - 1 : buf[i] # HEAD
  <2>1. DOMAIN buf = 1 .. Len(buf)
    BY <1>10 DEF Bytes
  <2>2. at \in SUBSET Nat
    BY <1>10, <2>1
  <2> SUFFICES ASSUME at # {}
               PROVE  /\ h \in 1 .. Len(buf) /\ buf[h] = HEAD
                      /\ \A i \in 1 .. h - 1 : buf[i] # HEAD
    OBVIOUS
  <2> HIDE DEF at
  <2>3. \E m \in at : \A i \in at : m <= i
    BY <2>2, Least
  <2>4. h \in at /\ \A i \in at : h <= i
    BY <2>3 DEF Min
  <2> HIDE DEF h
  <2>5. h \in 1 .. Len(buf) /\ buf[h] = HEAD
    BY <2>1, <2>4 DEF at
  <2>6. ASSUME NEW i \in 1 .. h - 1 PROVE buf[i] # HEAD
    <3>1. i \in 1 .. Len(buf) /\ ~(h <= i)
      BY <1>10, <2>5
    <3> QED BY <2>1, <2>4, <3>1 DEF at
  <2> QED BY <2>5, <2>6
<1> HIDE DEF at, h
<1>15. ASSUME at # {}, NEW more \in Bytes
       PROVE  Frames((buf \o C) \o more) = Frames(From(buf, h) \o (C \o more))
  <2>1. Frames(buf \o (C \o more)) = Frames(From(buf, h) \o (C \o more))
    BY <1>10, <1>12, <1>14, <1>15, FirstHead
  <2> QED BY <1>12, <2>1
<1>16. at # {} => /\ h \in Nat \ {0} /\ h + 1 \in Nat /\ h \in 0 .. Len(buf)
                  /\ From(buf, h) \in Bytes /\ Len(From(buf, h)) <= Len(buf)
                  /\ From(buf, h + 1) \in Bytes /\ Len(From(buf, h + 1)) <= Len(buf)
  <2> SUFFICES ASSUME at # {}
               PROVE  /\ h \in Nat \ {0} /\ h + 1 \in Nat /\ h \in 0 .. Len(buf)
                      /\ From(buf, h) \in Bytes /\ Len(From(buf, h)) <= Len(buf)
                      /\ From(buf, h + 1) \in Bytes /\ Len(From(buf, h + 1)) <= Len(buf)
    OBVIOUS
  <2>1. h \in 1 .. Len(buf)
    BY <1>14
  <2> DEFINE j == h - 1
  <2>2. j \in 0 .. Len(buf) /\ h \in 0 .. Len(buf) /\ j + 1 = h
    BY <1>10, <2>1
  <2> HIDE DEF j
  <2>3. From(buf, j + 1) \in Bytes /\ Len(From(buf, j + 1)) = Len(buf) - j
    BY <1>10, <2>2, RestOf
  <2>4. From(buf, h + 1) \in Bytes /\ Len(From(buf, h + 1)) = Len(buf) - h
    BY <1>10, <2>2, RestOf
  <2> QED BY <1>10, <2>1, <2>2, <2>3, <2>4
<1>17. at # {} /\ Len(buf) >= end =>
           /\ p \in [header : Nat, tail : Nat, check : Nat, datalen : Int]
           /\ p.datalen \in -128 .. 127
  <2> SUFFICES ASSUME at # {}, Len(buf) >= end
               PROVE  /\ p \in [header : Nat, tail : Nat, check : Nat, datalen : Int]
                      /\ p.datalen \in -128 .. 127
    OBVIOUS
  <2>1. h \in Nat \ {0} /\ h + HeadLen <= Len(buf)
    BY <1>10, <1>16 DEF HeadLen
  <2> QED BY <1>10, <2>1, HeaderType
<1>18. /\ pieces' \in Seq(Pieces) /\ arrived' \in 0 .. Len(Stream')
       /\ running' \in BOOLEAN /\ room' \in Nat /\ delivered' \in Seq(Bytes)
       /\ earlier' \in [bytes : Bytes, frames : Nat] /\ connection' \in 1 .. Len(MaxPieces)
       /\ room' = room
  BY <1>2 DEF TypeInv, TypeOK, Stream, history
<1>19. /\ headpos \in Nat
       /\ packet \in [header : Nat, tail : Nat, check : Nat, datalen : Int]
  BY DEF TypeInv, TypeOK
<1>20. CASE at = {} /\ readdata' = <<>>
            /\ UNCHANGED <<parsetype, headpos, packet, packetdata, packetroom>>
  <2>1. parsetype' = "PARSE_NOTHING"
    BY <1>1, <1>20
  <2>2. TypeOK'
    BY <1>3, <1>6, <1>8, <1>18, <1>19, <1>20, <2>1, NoBytes DEF TypeOK
  <2>3. Unread' = C
    BY <1>6, <1>8, <1>20, <2>1, Bytewise DEF Unread
  <2>4. ASSUME NEW more \in Bytes PROVE Frames(Unread' \o more) = Frames(Unread \o more)
    <3>1. Frames(buf \o (C \o more)) = Frames(C \o more)
      BY <1>10, <1>12, <1>13, <1>20, NoHead
    <3> QED BY <1>11, <1>12, <2>3, <3>1
  <2> QED BY <2>1, <2>2, <2>4 DEF TypeInv
<1>21. CASE /\ at # {} /\ Len(buf) < end
            /\ headpos' = h
            /\ readdata' = From(buf, h)
            /\ UNCHANGED <<parsetype, packet, packetdata, packetroom>>
  <2>1. parsetype' = "PARSE_NOTHING"
    BY <1>1, <1>21
  <2>2. readdata' \in Bytes /\ Len(readdata') <= room' /\ headpos' \in Nat
    <3>1. From(buf, h) \in Bytes /\ Len(From(buf, h)) <= Len(buf) /\ h \in Nat
      BY <1>16, <1>21
    <3>2. Len(From(buf, h)) \in Nat
      BY <3>1, Bytewise
    <3> QED BY <1>3, <1>10, <1>18, <1>21, <3>1, <3>2
  <2>3. TypeOK'
    BY <1>3, <1>6, <1>8, <1>18, <1>19, <1>21, <2>1, <2>2 DEF TypeOK
  <2>4. Unread' = From(buf, h) \o C
    BY <1>8, <1>21, <2>1 DEF Unread
  <2>5. ASSUME NEW more \in Bytes PROVE Frames(Unread' \o more) = Frames(Unread \o more)
    <3>1. (From(buf, h) \o C) \o more = From(buf, h) \o (C \o more)
      BY ZenonT(40), <1>6, <1>16, <1>21, Regroup
    <3> QED BY <1>11, <1>15, <1>21, <2>4, <3>1
  <2> QED BY <2>1, <2>3, <2>5 DEF TypeInv
<1>22. CASE /\ at # {} /\ Len(buf) >= end
            /\ headpos' = h
            /\ packet' = p
            /\ ~ValidHeader(p)
            /\ readdata' = From(buf, h + 1)
            /\ UNCHANGED <<parsetype, packetdata, packetroom>>
  <2>1. parsetype' = "PARSE_NOTHING"
    BY <1>1, <1>22
  <2>2. readdata' \in Bytes /\ Len(readdata') <= room' /\ headpos' \in Nat
    <3>1. From(buf, h + 1) \in Bytes /\ Len(From(buf, h + 1)) <= Len(buf) /\ h \in Nat
      BY <1>16, <1>22
    <3>2. Len(From(buf, h + 1)) \in Nat
      BY <3>1, Bytewise
    <3> QED BY <1>3, <1>10, <1>18, <1>22, <3>1, <3>2
  <2>3. packet' \in [header : Nat, tail : Nat, check : Nat, datalen : Int]
    BY <1>17, <1>22
  <2>4. TypeOK'
    BY <1>3, <1>6, <1>8, <1>18, <1>22, <2>1, <2>2, <2>3 DEF TypeOK
  <2>5. Unread' = From(buf, h + 1) \o C
    BY <1>8, <1>22, <2>1 DEF Unread
  <2>6. h \in Nat \ {0} /\ h + HeadLen <= Len(buf)
    BY <1>10, <1>16, <1>22 DEF HeadLen
  <2>7. ASSUME NEW more \in Bytes PROVE Frames(Unread' \o more) = Frames(Unread \o more)
    <3>1. (From(buf, h + 1) \o C) \o more = From(buf, h + 1) \o (C \o more)
      BY ZenonT(40), <1>6, <1>16, <1>22, Regroup
    <3>2. Frames(From(buf, h) \o (C \o more)) = Frames(From(buf, h + 1) \o (C \o more))
      BY <1>10, <1>12, <1>22, <2>6, WrongHeader
    <3> QED BY <1>11, <1>15, <1>22, <2>5, <3>1, <3>2
  <2> QED BY <2>1, <2>4, <2>7 DEF TypeInv
<1>23. CASE /\ at # {} /\ Len(buf) >= end
            /\ headpos' = h
            /\ packet' = p
            /\ ValidHeader(p)
            /\ readdata' = buf
            /\ parsetype' = "PARSE_HEAD"
            /\ packetdata' = SubSeq(buf, end + 1, Smaller(Len(buf), end + p.datalen + 1))
            /\ packetroom' = Larger(packetroom, p.datalen + 1)
  <2>1. h \in Nat \ {0} /\ h + HeadLen <= Len(buf) /\ buf[h] = HEAD
    BY <1>10, <1>14, <1>16, <1>23 DEF HeadLen
  <2> DEFINE d == p.datalen
             e == end + d + 1
             m == Smaller(Len(buf), e)
             D == SubSeq(buf, end + 1, m)
  <2>2. d \in 0 .. 127
    <3>1. d \in -128 .. 127 /\ d >= 0
      BY <1>17, <1>23 DEF ValidHeader
    <3> HIDE DEF d
    <3> QED BY <3>1
  <2>3. packetdata' = D /\ packetroom' = Larger(packetroom, d + 1)
    BY <1>23
  <2> HIDE DEF d
  <2>4. /\ end \in Nat /\ e \in Nat /\ m \in end .. Len(buf) /\ end + 1 \in Nat \ {0}
        /\ m <= e /\ e - end = d + 1
        /\ (Len(buf) - h - HeadLen >= d + 1 => m = e)
        /\ (~(Len(buf) - h - HeadLen >= d + 1) => m = Len(buf))
        /\ h + HeadLen + d + 2 = e + 1 /\ h + HeadLen + d + 1 = e
    BY <1>10, <2>1, <2>2 DEF HeadLen, Smaller
  <2> HIDE DEF e, m
  <2>5. D \in Bytes /\ Len(D) <= d + 1
    <3>1. m \in Nat /\ m <= Len(buf)
      BY <1>10, <2>4
    <3>2. D \in Bytes /\ Len(D) = IF end + 1 <= m THEN m - (end + 1) + 1 ELSE 0
      <4> HIDE DEF end
      <4> QED BY <1>10, <2>4, <3>1, PartOf
    <3> HIDE DEF D
    <3> QED BY SMTT(30), <2>2, <2>4, <3>1, <3>2
  <2>6. packetroom' \in Nat /\ Len(packetdata') <= packetroom' /\ d + 1 <= packetroom'
    <3>1. Len(D) \in Nat
      BY <2>5, Bytewise
    <3> HIDE DEF D
    <3> QED BY <1>3, <2>2, <2>3, <2>5, <3>1 DEF Larger
  <2>7. packet' \in [header : Nat, tail : Nat, check : Nat, datalen : Int]
    BY <1>17, <1>23
  <2>8. TypeOK'
    <3>1. readdata' \in Bytes /\ Len(readdata') <= room' /\ headpos' \in Nat
      BY <1>10, <1>18, <1>23, <2>1
    <3>2. packetdata' \in Bytes
      BY <2>3, <2>5
    <3>3. parsetype' \in {"PARSE_NOTHING", "PARSE_HEAD"}
      BY <1>23
    <3> QED BY <1>6, <1>8, <1>18, <2>6, <2>7, <3>1, <3>2, <3>3 DEF TypeOK
  <2>9. /\ InReadData' <=> Len(buf) - h - HeadLen >= d + 1
        /\ AfterFrame' = IF InReadData' THEN From(buf, e + 1) ELSE <<>>
        /\ HeadPart' = SubSeq(buf, h, h + HeadLen)
    BY <1>23, <2>4 DEF InReadData, AfterFrame, HeadPart, d
  <2>10. Candidate'
    <3>1. headpos' # 0 /\ headpos' + HeadLen <= Len(readdata') /\ readdata'[headpos'] = HEAD
      BY <1>23, <2>1
    <3>2. packet' = ToNetPacket(From(readdata', headpos' + 1)) /\ ValidHeader(packet')
      BY <1>23 DEF p
    <3>3. packet'.datalen = d
      BY <1>23 DEF d
    <3>4. Len(packetdata') <= packet'.datalen + 1 /\ packet'.datalen + 1 <= packetroom'
      BY <2>3, <2>5, <2>6, <3>3
    <3>5. InReadData' => packetdata' = SubSeq(readdata', headpos' + HeadLen + 1,
                                              headpos' + HeadLen + packet'.datalen + 1)
      BY <1>23, <2>3, <2>4, <2>9, <3>3
    <3> QED BY <3>1, <3>2, <3>4, <3>5 DEF Candidate
  <2>11. D \o AfterFrame' = From(buf, end + 1)
    <3>1. CASE InReadData'
      <4>1. /\ end + 1 \in 1 .. Len(buf) + 1 /\ e \in (end + 1) - 1 .. Len(buf)
            /\ Len(buf) \in e .. Len(buf) /\ m = e
        BY SMTT(30), <1>10, <2>2, <2>4, <2>9, <3>1
      <4> HIDE DEF end
      <4>2. SubSeq(buf, end + 1, e) \o SubSeq(buf, e + 1, Len(buf)) = SubSeq(buf, end + 1, Len(buf))
        BY <1>10, <4>1, CutBytes
      <4> QED BY <2>9, <3>1, <4>1, <4>2 DEF From
    <3>2. CASE ~InReadData'
      <4>1. m = Len(buf)
        BY <2>4, <2>9, <3>2
      <4> QED BY <2>5, <2>9, <3>2, <4>1, Bytewise DEF From
    <3> QED BY <3>1, <3>2
  <2>12. /\ HeadPart' \in Bytes /\ AfterFrame' \in Bytes
         /\ From(buf, h) = HeadPart' \o From(buf, end + 1)
    <3>1. /\ SubSeq(buf, h, h + HeadLen) \in Bytes
          /\ From(buf, h) = SubSeq(buf, h, h + HeadLen) \o From(buf, h + HeadLen + 1)
      BY <1>10, <2>1, HeadOf
    <3>2. AfterFrame' \in Bytes
      <4>1. CASE InReadData'
        <5>1. e \in 0 .. Len(buf)
          BY <1>10, <2>2, <2>4, <2>9, <4>1
        <5> QED BY <1>10, <2>9, <4>1, <5>1, RestOf
      <4>2. CASE ~InReadData'
        BY <2>9, <4>2, NoBytes
      <4> QED BY <4>1, <4>2
    <3> QED BY <2>9, <3>1, <3>2
  <2>13. Unread' = From(buf, h) \o C
    <3>1. Unread' = HeadPart' \o (D \o (AfterFrame' \o C))
      BY <1>8, <1>23, <2>3 DEF Unread
    <3> HIDE DEF D
    <3>2. D \o (AfterFrame' \o C) = (D \o AfterFrame') \o C /\ D \o AfterFrame' \in Bytes
      BY ZenonT(40), <1>6, <2>5, <2>12, Regroup, Together
    <3>3. HeadPart' \o ((D \o AfterFrame') \o C) = (HeadPart' \o (D \o AfterFrame')) \o C
      BY <1>6, <2>12, <3>2, Regroup
    <3> QED BY <2>11, <2>12, <3>1, <3>2, <3>3
  <2>14. ASSUME NEW more \in Bytes PROVE Frames(Unread' \o more) = Frames(Unread \o more)
    <3>1. (From(buf, h) \o C) \o more = From(buf, h) \o (C \o more)
      BY ZenonT(40), <1>6, <1>16, <1>23, Regroup
    <3> QED BY <1>11, <1>15, <1>23, <2>13, <3>1
  <2> QED BY <2>8, <2>10, <2>14 DEF TypeInv
<1> QED BY <1>1, <1>20, <1>21, <1>22, <1>23
(* In a state between two frames, and at a candidate.                      *)
LEMMA UnreadType ==
    ASSUME TypeInv
    PROVE  Unread \in Bytes
<1>1. readdata \in Bytes /\ chunk \in Bytes /\ packetdata \in Bytes
  BY DEF TypeInv, TypeOK
<1>2. CASE parsetype = "PARSE_NOTHING"
  BY <1>1, <1>2, Together DEF Unread
<1>3. CASE parsetype = "PARSE_HEAD"
  <2>1. HeadPart \in Bytes /\ AfterFrame \in Bytes
    BY <1>3, CandidateFacts DEF TypeInv, Heads
  <2>2. AfterFrame \o chunk \in Bytes
    BY <1>1, <2>1, Together
  <2>3. packetdata \o (AfterFrame \o chunk) \in Bytes
    BY <1>1, <2>2, Together
  <2>4. HeadPart \o (packetdata \o (AfterFrame \o chunk)) \in Bytes
    BY <2>1, <2>3, Together
  <2> QED BY <1>3, <2>4 DEF Unread
<1> QED BY <1>2, <1>3 DEF TypeInv, TypeOK

LEMMA ReturnStep ==
    ASSUME TypeInv, Return
    PROVE  TypeInv' /\ Unread' = Unread /\ chunk' = <<>> /\ Frames(Unread') = <<>>
<1>1. /\ parsetype = "PARSE_NOTHING" /\ ~MoreToParse /\ running' = FALSE
      /\ UNCHANGED <<pieces, arrived, chunk, parser, history>>
  BY DEF Return
<1>2. TypeOK' /\ parsetype' = "PARSE_NOTHING"
  BY <1>1 DEF TypeInv, TypeOK, Stream, parser, history
<1>3. Unread' = Unread
  BY <1>1 DEF Unread, AfterFrame, InReadData, HeadPart, parser
<1>4. chunk = <<>> /\ Len(readdata) < HeadLen + 2 /\ readdata \in Bytes
  <2>1. readdata \in Bytes /\ Len(readdata) \in Nat
    BY Bytewise DEF TypeInv, TypeOK
  <2> QED BY <1>1, <2>1 DEF MoreToParse, HeadLen
<1>5. Unread = readdata
  BY <1>1, <1>4, Bytewise DEF Unread
<1>6. Frames(readdata) = <<>>
  BY <1>4, FramesShort
<1> QED BY <1>1, <1>2, <1>3, <1>4, <1>5, <1>6 DEF TypeInv

LEMMA WaitForDataStep ==
    ASSUME TypeInv, WaitForData
    PROVE  TypeInv' /\ Unread' = Unread /\ chunk' = <<>> /\ Frames(Unread') = <<>>
<1>1. /\ parsetype = "PARSE_HEAD" /\ Len(chunk) < Missing
      /\ packetdata' = packetdata \o chunk /\ chunk' = <<>> /\ running' = FALSE
      /\ UNCHANGED <<pieces, arrived, parsetype, readdata, room, headpos, packet,
                     packetroom, history>>
  BY DEF WaitForData
<1>2. TypeOK /\ Candidate
  BY <1>1 DEF TypeInv
<1>3. /\ chunk \in Bytes /\ packetdata \in Bytes
      /\ Len(chunk) \in Nat /\ Len(packetdata) \in Nat
  BY <1>2, Bytewise DEF TypeOK
<1>4. /\ HeadPart \in Heads /\ packet = ToNetPacket(From(HeadPart, 2)) /\ packet.datalen \in 0 .. 127
      /\ (InReadData => Missing = 0) /\ (~InReadData => AfterFrame = <<>>)
  BY <1>2, CandidateFacts
<1>5. ~InReadData /\ AfterFrame = <<>>
  BY <1>1, <1>3, <1>4
<1> DEFINE W == packetdata \o chunk
<1>6. W \in Bytes /\ Len(W) = Len(packetdata) + Len(chunk)
  BY <1>3, Together
<1> HIDE DEF W
<1>7. packetdata' = W
  BY <1>1 DEF W
<1>8. Len(W) <= packet.datalen
  <2> DEFINE d == packet.datalen
  <2>1. d \in 0 .. 127 /\ Len(chunk) < d + 1 - Len(packetdata)
    BY <1>1, <1>4 DEF Missing
  <2> HIDE DEF d
  <2>2. Len(W) <= d
    BY <1>3, <1>6, <2>1
  <2> QED BY <2>2 DEF d
<1>9. Len(W) <= packet.datalen + 1 /\ packet.datalen + 1 <= packetroom /\ Len(W) <= packetroom
  <2> DEFINE d == packet.datalen
  <2>1. d \in 0 .. 127 /\ Len(W) <= d /\ d + 1 <= packetroom /\ packetroom \in Nat /\ Len(W) \in Nat
    BY <1>2, <1>4, <1>6, <1>8, Bytewise DEF Candidate, TypeOK
  <2> HIDE DEF d
  <2>2. Len(W) <= d + 1 /\ d + 1 <= packetroom /\ Len(W) <= packetroom
    BY <2>1
  <2> QED BY <2>2 DEF d
<1>10. TypeOK'
  BY <1>1, <1>2, <1>6, <1>7, <1>9, NoBytes DEF TypeOK, Stream, history
<1>11. /\ InReadData' = InReadData /\ HeadPart' = HeadPart /\ AfterFrame' = <<>>
  BY <1>1, <1>5 DEF InReadData, HeadPart, AfterFrame
<1>12. Candidate'
  BY <1>1, <1>2, <1>5, <1>7, <1>9, <1>11 DEF Candidate
<1>13. Unread' = HeadPart \o (W \o (<<>> \o <<>>))
  BY <1>1, <1>7, <1>11 DEF Unread
<1>14. Unread = HeadPart \o (packetdata \o (<<>> \o chunk))
  BY <1>1, <1>5 DEF Unread
<1>15. <<>> \o chunk = chunk /\ <<>> \o <<>> = <<>> /\ W \o <<>> = W
  BY <1>3, <1>6, NoBytes, Bytewise
<1>16. Unread' = Unread /\ Unread' = HeadPart \o (W \o <<>>)
  BY <1>13, <1>14, <1>15 DEF W
<1>17. Frames(HeadPart \o (W \o <<>>)) = <<>>
  <2>1. Len(W) <= ToNetPacket(From(HeadPart, 2)).datalen
    BY <1>4, <1>8
  <2>2. HeadPart \in Heads
    BY <1>4
  <2> QED BY <1>6, <2>1, <2>2, NoBytes, FramesOfCandidate
<1> QED BY <1>1, <1>10, <1>12, <1>16, <1>17 DEF TypeInv

(* The frame behind a candidate's head, or what is behind its HEAD.        *)
LEMMA CandidateStep ==
    ASSUME TypeInv, parsetype = "PARSE_HEAD", Len(chunk) >= Missing, NEW more \in Bytes
    PROVE  LET Rest == AfterFrame \o From(chunk, Missing + 1) IN
           /\ Rest \in Bytes
           /\ Frames(Unread \o more) =
                  IF /\ Whole[packet.datalen + 1] = TAIL
                     /\ packet.check = Check(SubSeq(Whole, 1, packet.datalen))
                  THEN <<SubSeq(Whole, 1, packet.datalen)>> \o Frames(Rest \o more)
                  ELSE Frames((From(HeadPart, 2) \o (Whole \o Rest)) \o more)
<1> DEFINE C == From(chunk, Missing + 1)
           R == AfterFrame \o C
           W == Whole
           H == HeadPart
           G == From(H, 2)
<1>1. TypeOK /\ Candidate
  BY DEF TypeInv
<1>2. /\ H \in Heads /\ packet = ToNetPacket(From(H, 2)) /\ AfterFrame \in Bytes
  BY <1>1, CandidateFacts
<1>3. /\ W \in Bytes /\ Len(W) = packet.datalen + 1 /\ C \in Bytes
      /\ packetdata \o (AfterFrame \o chunk) = W \o R
  BY <1>1, WholeFacts
<1> HIDE DEF C, W, H
<1>4. R \in Bytes
  BY <1>2, <1>3, Together
<1>5. Unread = H \o (W \o R)
  BY <1>3 DEF Unread, H
<1> HIDE DEF R
<1>6. H \in Bytes
  BY <1>2 DEF Heads
<1>7. G \in Bytes
  <2>1. 1 \in 0 .. Len(H) /\ 1 + 1 = 2
    <3>1. Len(H) = HeadLen + 1
      BY <1>2 DEF Heads
    <3> QED BY <3>1 DEF HeadLen
  <2>2. From(H, 1 + 1) \in Bytes
    BY <1>6, <2>1, RestOf
  <2> QED BY <2>1, <2>2
<1> HIDE DEF G
<1>8. R \o more \in Bytes /\ W \o R \in Bytes
  BY <1>3, <1>4, Together
<1>9. (W \o R) \o more = W \o (R \o more)
  BY <1>3, <1>4, Regroup
<1>10. (H \o (W \o R)) \o more = H \o (W \o (R \o more))
  <2>1. (H \o (W \o R)) \o more = H \o ((W \o R) \o more)
    BY <1>6, <1>8, Regroup
  <2> QED BY <1>9, <2>1
<1>11. (G \o (W \o R)) \o more = G \o (W \o (R \o more))
  <2>1. (G \o (W \o R)) \o more = G \o ((W \o R) \o more)
    BY <1>7, <1>8, Regroup
  <2> QED BY <1>9, <2>1
<1>12. Frames(H \o (W \o (R \o more))) =
           IF W[packet.datalen + 1] = TAIL /\ packet.check = Check(SubSeq(W, 1, packet.datalen))
           THEN <<SubSeq(W, 1, packet.datalen)>> \o Frames(R \o more)
           ELSE Frames(G \o (W \o (R \o more)))
  <2> DEFINE p == ToNetPacket(From(H, 2))
             S == R \o more
  <2>1. Len(W) = p.datalen + 1 =>
            Frames(H \o (W \o S)) =
                IF W[p.datalen + 1] = TAIL /\ p.check = Check(SubSeq(W, 1, p.datalen))
                THEN <<SubSeq(W, 1, p.datalen)>> \o Frames(S)
                ELSE Frames(From(H, 2) \o (W \o S))
    <3>1. S \in Bytes /\ W \in Bytes /\ H \in Heads
      BY <1>2, <1>3, <1>8
    <3> HIDE DEF S
    <3> QED BY <3>1, FramesOfCandidate
  <2>2. p = packet
    BY <1>2
  <2> HIDE DEF p, S
  <2>3. Len(W) = p.datalen + 1
    BY <1>3, <2>2
  <2> QED BY <2>1, <2>2, <2>3 DEF G, S
<1> QED BY <1>4, <1>5, <1>10, <1>11, <1>12 DEF R, C, W, H, G
LEMMA RejectStep ==
    ASSUME TypeInv, Reject
    PROVE  /\ TypeInv'
           /\ Unread' = From(HeadPart, 2) \o (Whole \o (AfterFrame \o From(chunk, Missing + 1)))
<1> DEFINE C == From(chunk, Missing + 1)
           W == Whole
           G == From(HeadPart, 2)
           A == AfterFrame
<1>1. /\ parsetype = "PARSE_HEAD" /\ Len(chunk) >= Missing
      /\ chunk' = C /\ packetdata' = W /\ parsetype' = "PARSE_NOTHING"
      /\ \/ /\ InReadData
            /\ readdata' = From(readdata, headpos + 1)
            /\ room' = room
         \/ /\ ~InReadData
            /\ readdata' = SubSeq(readdata, headpos + 1, headpos + HeadLen) \o W
            /\ room' = Larger(room, HeadLen + packet.datalen + 1)
      /\ UNCHANGED <<pieces, arrived, running, headpos, packet, packetroom, history>>
  BY DEF Reject, BehindHead, RoomFor
<1>2. TypeOK /\ Candidate
  BY <1>1 DEF TypeInv
<1>3. /\ HeadPart \in Heads /\ headpos \in Nat \ {0} /\ packet.datalen \in 0 .. 127 /\ A \in Bytes
      /\ SubSeq(readdata, headpos + 1, headpos + HeadLen) = G
      /\ (InReadData => From(readdata, headpos + 1) = G \o (packetdata \o A))
      /\ (~InReadData => A = <<>>)
  BY <1>2, CandidateFacts
<1>4. /\ W \in Bytes /\ Len(W) = packet.datalen + 1 /\ C \in Bytes
      /\ (InReadData => W = packetdata)
  BY <1>1, <1>2, WholeFacts
<1>5. G \in Bytes /\ Len(G) = HeadLen
  <2>1. HeadPart \in Bytes /\ Len(HeadPart) = HeadLen + 1
    BY <1>3 DEF Heads
  <2>2. 1 \in 0 .. Len(HeadPart) /\ 1 + 1 = 2
    BY <2>1 DEF HeadLen
  <2>3. From(HeadPart, 1 + 1) \in Bytes /\ Len(From(HeadPart, 1 + 1)) = Len(HeadPart) - 1
    <3>1. HeadPart \in Bytes
      BY <2>1
    <3> HIDE <2>1
    <3> QED BY <2>2, <3>1, RestOf
  <2>4. Len(From(HeadPart, 2)) = 4
    BY <2>1, <2>2, <2>3 DEF HeadLen
  <2> QED BY <2>2, <2>3, <2>4 DEF HeadLen
<1>6. /\ readdata \in Bytes /\ Len(readdata) \in Nat /\ room \in Nat /\ Len(readdata) <= room
      /\ headpos + HeadLen <= Len(readdata) /\ packetroom \in Nat
      /\ packet.datalen + 1 <= packetroom
  BY <1>2, Bytewise DEF TypeOK, Candidate
<1> HIDE DEF C, W, G, A
<1>7. Len(G \o W) = HeadLen + packet.datalen + 1 /\ G \o W \in Bytes
  <2> DEFINE d == packet.datalen
  <2>1. d \in 0 .. 127 /\ Len(W) = d + 1
    BY <1>3, <1>4
  <2>2. G \o W \in Bytes /\ Len(G \o W) = Len(G) + Len(W)
    <3>1. G \in Bytes /\ W \in Bytes
      BY <1>4, <1>5
    <3> HIDE <1>5
    <3> QED BY <3>1, Together
  <2> HIDE DEF d
  <2>3. Len(G \o W) = HeadLen + d + 1
    BY <1>5, <2>1, <2>2 DEF HeadLen
  <2> QED BY <2>2, <2>3 DEF d
<1>8. readdata' \in Bytes /\ Len(readdata') <= room' /\ room' \in Nat
  <2>1. CASE InReadData
    <3>1. headpos \in 0 .. Len(readdata)
      BY <1>3, <1>6 DEF HeadLen
    <3>2. From(readdata, headpos + 1) \in Bytes
          /\ Len(From(readdata, headpos + 1)) = Len(readdata) - headpos
      BY <1>6, <3>1, RestOf
    <3>3. readdata' = From(readdata, headpos + 1) /\ room' = room
      BY <1>1, <2>1
    <3>4. Len(readdata) - headpos <= room
      BY <1>3, <1>6
    <3> QED BY <1>6, <3>2, <3>3, <3>4
  <2>2. CASE ~InReadData
    <3> DEFINE n == HeadLen + packet.datalen + 1
    <3>1. readdata' = G \o W /\ room' = Larger(room, n)
      BY <1>1, <1>3, <2>2
    <3>2. n \in Nat
      <4> DEFINE d == packet.datalen
      <4>1. d \in 0 .. 127
        BY <1>3
      <4> HIDE DEF d
      <4>2. HeadLen + d + 1 \in Nat
        BY <4>1 DEF HeadLen
      <4> QED BY <4>2 DEF d
    <3>3. Len(readdata') = n
      BY <1>7, <3>1
    <3> HIDE DEF n
    <3>4. n <= Larger(room, n) /\ Larger(room, n) \in Nat
      BY <1>6, <3>2 DEF Larger
    <3> QED BY <1>7, <3>1, <3>3, <3>4
  <2> QED BY <2>1, <2>2
<1>9. TypeOK'
  <2>1. Len(packetdata') <= packetroom' /\ packetdata' \in Bytes
    BY <1>1, <1>4, <1>6
  <2> QED BY <1>1, <1>2, <1>4, <1>8, <2>1 DEF TypeOK, Stream, history
<1>10. Unread' = readdata' \o C
  BY <1>1 DEF Unread
<1>11. readdata' \o C = G \o (W \o (A \o C))
  <2>1. CASE InReadData
    <3>1. readdata' = G \o (W \o A)
      BY <1>1, <1>3, <1>4, <2>1
    <3>2. W \o A \in Bytes
      BY <1>3, <1>4, Together
    <3>3. G \in Bytes
      BY <1>5
    <3>4. (G \o (W \o A)) \o C = G \o ((W \o A) \o C)
      BY <1>4, <3>2, <3>3, Regroup
    <3>5. (W \o A) \o C = W \o (A \o C)
      BY <1>3, <1>4, Regroup
    <3> QED BY <3>1, <3>4, <3>5
  <2>2. CASE ~InReadData
    <3>1. readdata' = G \o W
      BY <1>1, <1>3, <2>2
    <3>2. G \in Bytes
      BY <1>5
    <3>3. (G \o W) \o C = G \o (W \o C)
      BY <1>4, <3>2, Regroup
    <3>4. A \o C = C
      BY <1>3, <1>4, <2>2, Bytewise
    <3> QED BY <3>1, <3>3, <3>4
  <2> QED BY <2>1, <2>2
<1> QED BY <1>1, <1>9, <1>10, <1>11 DEF TypeInv, C, W, G, A

LEMMA DeliverStep ==
    ASSUME TypeInv, Deliver
    PROVE  /\ TypeInv'
           /\ Unread' = AfterFrame \o From(chunk, Missing + 1)
           /\ SubSeq(Whole, 1, packet.datalen) \in Bytes
<1> DEFINE C == From(chunk, Missing + 1)
           W == Whole
           A == AfterFrame
           data == SubSeq(W, 1, packet.datalen)
<1>1. /\ parsetype = "PARSE_HEAD" /\ Len(chunk) >= Missing
      /\ chunk' = C /\ packetdata' = W /\ readdata' = A
      /\ delivered' = Append(delivered, data)
      /\ parsetype' = "PARSE_NOTHING"
      /\ UNCHANGED <<pieces, arrived, running, room, headpos, packet, packetroom,
                     earlier, connection>>
  BY DEF Deliver
<1>2. TypeOK /\ Candidate
  BY <1>1 DEF TypeInv
<1>3. headpos \in Nat \ {0} /\ packet.datalen \in 0 .. 127 /\ A \in Bytes
  BY <1>2, CandidateFacts
<1>4. W \in Bytes /\ Len(W) = packet.datalen + 1 /\ C \in Bytes
  BY <1>1, <1>2, WholeFacts
<1>5. /\ readdata \in Bytes /\ Len(readdata) \in Nat /\ room \in Nat /\ Len(readdata) <= room
      /\ packetroom \in Nat /\ packet.datalen + 1 <= packetroom /\ delivered \in Seq(Bytes)
  BY <1>2, Bytewise DEF TypeOK, Candidate
<1>6. Len(A) <= room
  <2>1. CASE InReadData
    <3> DEFINE d == packet.datalen
               k == headpos + HeadLen + d + 1
    <3>1. d \in 0 .. 127 /\ Len(readdata) - headpos - HeadLen >= d + 1
          /\ A = From(readdata, headpos + HeadLen + d + 2)
      BY <1>3, <2>1 DEF InReadData, AfterFrame
    <3> HIDE DEF d
    <3>2. k \in 0 .. Len(readdata) /\ k + 1 = headpos + HeadLen + d + 2
      BY <1>3, <1>5, <3>1 DEF HeadLen
    <3>3. A = From(readdata, k + 1)
      BY <3>1, <3>2
    <3> HIDE DEF k
    <3>4. Len(From(readdata, k + 1)) = Len(readdata) - k
      BY <1>5, <3>2, RestOf
    <3>5. Len(readdata) - k <= room
      BY <1>5, <3>2
    <3> QED BY <3>3, <3>4, <3>5
  <2>2. CASE ~InReadData
    BY <1>5, <2>2, NoBytes DEF AfterFrame
  <2> QED BY <2>1, <2>2
<1> HIDE DEF C, W, A
<1>7. data \in Bytes
  <2> DEFINE d == packet.datalen
  <2>1. d \in 0 .. 127 /\ Len(W) = d + 1
    BY <1>3, <1>4
  <2> HIDE DEF d
  <2>2. 1 \in Nat \ {0} /\ d \in Nat /\ d <= Len(W)
    BY <2>1
  <2>3. SubSeq(W, 1, d) \in Bytes
    <3>1. W \in Bytes
      BY <1>4
    <3> HIDE <2>1
    <3> QED BY <2>2, <3>1, PartOf
  <2> QED BY <2>3 DEF d
<1>8. delivered' \in Seq(Bytes)
  <2> HIDE DEF data
  <2> QED BY <1>1, <1>5, <1>7, AppendProperties
<1>9. Len(packetdata') <= packetroom' /\ packetdata' \in Bytes
  BY <1>1, <1>4, <1>5
<1>10. TypeOK'
  BY <1>1, <1>2, <1>3, <1>4, <1>6, <1>8, <1>9 DEF TypeOK, Stream
<1>11. Unread' = A \o C
  BY <1>1 DEF Unread
<1> QED BY <1>1, <1>7, <1>10, <1>11 DEF TypeInv, C, W, A

(* A byte that is compared as a char with an unsigned char equals it when  *)
(* that is less than 128.                                                  *)
LEMMA GoodFrameIs ==
    ASSUME TAIL < 128, TypeInv, parsetype = "PARSE_HEAD", Len(chunk) >= Missing
    PROVE  GoodFrame(Whole) <=>
               /\ Whole[packet.datalen + 1] = TAIL
               /\ packet.check = Check(SubSeq(Whole, 1, packet.datalen))
<1>1. TypeOK /\ Candidate
  BY DEF TypeInv
<1>2. packet.datalen \in 0 .. 127
  BY <1>1, CandidateFacts
<1>3. Whole \in Bytes /\ Len(Whole) = packet.datalen + 1
  BY <1>1, WholeFacts
<1>4. Whole[packet.datalen + 1] \in 0 .. 255
  <2> DEFINE d == packet.datalen
  <2>1. d \in 0 .. 127 /\ Len(Whole) = d + 1
    BY <1>2, <1>3
  <2> HIDE DEF d
  <2>2. d + 1 \in 1 .. Len(Whole)
    BY <2>1
  <2>3. \A i \in 1 .. Len(Whole) : Whole[i] \in 0 .. 255
    BY <1>3, Bytewise
  <2>4. Whole[d + 1] \in 0 .. 255
    BY <2>2, <2>3
  <2> QED BY <2>4 DEF d
<1>5. ASSUME NEW b \in 0 .. 255 PROVE Signed(b) = TAIL <=> b = TAIL
  BY DEF Signed
<1>6. Signed(Whole[packet.datalen + 1]) = TAIL <=> Whole[packet.datalen + 1] = TAIL
  BY <1>4, <1>5
<1> QED BY <1>6 DEF GoodFrame
LEMMA RecvDataStep ==
    ASSUME TypeInv, Idle, NEW n \in ChunkSizes, RecvData(n)
    PROVE  /\ TypeInv' /\ chunk' \in Bytes
           /\ Received' = Received \o chunk' /\ Unread' = Unread \o chunk'
<1>1. /\ chunk = <<>>
      /\ arrived + n <= Len(Stream) /\ running' = TRUE /\ arrived' = arrived + n
      /\ chunk' = SubSeq(Stream, arrived + 1, arrived + n)
      /\ UNCHANGED <<pieces, parser, history>>
  BY DEF RecvData, Idle
<1>2. n \in Nat
  BY BoundsAssumption
<1>3. /\ Received \in Bytes /\ arrived \in Nat /\ arrived <= Len(Stream)
      /\ Stream \in Bytes /\ Len(Stream) \in Nat
  BY ReceivedType DEF TypeInv
<1>4. Stream' = Stream /\ earlier' = earlier
  BY <1>1 DEF Stream, history
<1> DEFINE i == arrived
           j == arrived + n
           c == SubSeq(Stream, i + 1, j)
<1>5. /\ i \in Nat /\ j \in Nat /\ j <= Len(Stream) /\ i + 1 \in Nat \ {0}
      /\ 1 \in 1 .. Len(Stream) + 1 /\ i \in 1 - 1 .. Len(Stream) /\ j \in i .. Len(Stream)
      /\ 1 \in Nat \ {0}
  BY <1>1, <1>2, <1>3
<1> HIDE DEF j
<1>6. c \in Bytes
  BY <1>3, <1>5, PartOf
<1>7. SubSeq(Stream, 1, i) \o c = SubSeq(Stream, 1, j)
  BY <1>3, <1>5, CutBytes
<1>8. SubSeq(Stream, 1, i) \in Bytes /\ earlier.bytes \in Bytes
  BY <1>3, <1>5, PartOf DEF TypeInv, TypeOK
<1>9. Received' = Received \o c
  <2>1. Received' = earlier.bytes \o SubSeq(Stream, 1, j)
    BY <1>1, <1>4 DEF Received, j
  <2>2. (earlier.bytes \o SubSeq(Stream, 1, i)) \o c = earlier.bytes \o (SubSeq(Stream, 1, i) \o c)
    BY <1>6, <1>8, Regroup
  <2> QED BY <1>7, <2>1, <2>2 DEF Received
<1>10. chunk' = c
  BY <1>1 DEF j
<1> HIDE DEF c
<1>11. TypeOK'
  <2>1. arrived' \in 0 .. Len(Stream')
    BY <1>1, <1>3, <1>4, <1>5 DEF j
  <2> QED BY <1>1, <1>6, <1>10, <2>1 DEF TypeInv, TypeOK, parser, history
<1>12. parsetype = "PARSE_HEAD" => Candidate'
  BY <1>1 DEF TypeInv, Candidate, InReadData, parser
<1>13. AfterFrame' = AfterFrame /\ HeadPart' = HeadPart /\ parsetype' = parsetype
       /\ readdata' = readdata /\ packetdata' = packetdata
  BY <1>1 DEF AfterFrame, InReadData, HeadPart, parser
<1>14. readdata \in Bytes /\ packetdata \in Bytes
  BY DEF TypeInv, TypeOK
<1>15. CASE parsetype = "PARSE_NOTHING"
  <2>1. Unread = readdata \o <<>> /\ Unread' = readdata \o c
    BY <1>1, <1>10, <1>13, <1>15 DEF Unread
  <2>2. readdata \o <<>> = readdata
    BY <1>14, Bytewise
  <2>3. Unread' = Unread \o c
    BY <2>1, <2>2
  <2>4. TypeInv'
    BY <1>11, <1>12, <1>13, <1>15 DEF TypeInv
  <2> QED BY <1>6, <1>9, <1>10, <2>3, <2>4
<1>16. CASE parsetype = "PARSE_HEAD"
  <2> DEFINE A == AfterFrame
             H == HeadPart
             P == packetdata
  <2>1. H \in Bytes /\ A \in Bytes /\ P \in Bytes
    BY <1>14, <1>16, CandidateFacts DEF TypeInv, Heads
  <2>2. Unread = H \o (P \o (A \o <<>>)) /\ Unread' = H \o (P \o (A \o c))
    BY <1>1, <1>10, <1>13, <1>16 DEF Unread
  <2> HIDE DEF A, H, P
  <2>3. A \o <<>> = A /\ P \o A \in Bytes
    BY <2>1, Bytewise, Together
  <2>4. (H \o (P \o A)) \o c = H \o ((P \o A) \o c)
    BY ZenonT(40), <1>6, <2>1, <2>3, Regroup
  <2>5. (P \o A) \o c = P \o (A \o c)
    BY <1>6, <2>1, Regroup
  <2>6. Unread' = Unread \o c
    BY <2>2, <2>3, <2>4, <2>5
  <2>7. TypeInv'
    BY <1>11, <1>12, <1>16 DEF TypeInv
  <2> QED BY <1>6, <1>9, <1>10, <2>6, <2>7
<1> QED BY <1>15, <1>16 DEF TypeInv, TypeOK

LEMMA NoPart ==
    ASSUME NEW U \in Bytes
    PROVE  SubSeq(U, 1, 0) = <<>>
<1>1. 1 \in Nat \ {0} /\ 0 \in Nat /\ 0 <= Len(U) /\ ~(1 <= 0)
  BY Bytewise
<1>2. SubSeq(U, 1, 0) \in Bytes /\ Len(SubSeq(U, 1, 0)) = IF 1 <= 0 THEN 0 - 1 + 1 ELSE 0
  BY <1>1, PartOf
<1> QED BY <1>1, <1>2, Bytewise

LEMMA SomePieces ==
    ASSUME NEW c \in 1 .. Len(MaxPieces), NEW n \in 1 .. MaxPieces[c], NEW ps \in [1 .. n -> Pieces]
    PROVE  ps \in Seq(Pieces)
<1>1. MaxPieces[c] \in Nat
  BY BoundsAssumption, ElementOfSeq
<1>2. n \in Nat
  BY <1>1
<1> QED BY <1>2, SeqDef

LEMMA StartStep ==
    ASSUME TypeInv, Start
    PROVE  TypeInv' /\ Received' = Received /\ Unread' = Unread
<1>1. /\ connection < Len(MaxPieces) /\ arrived' = 0 /\ connection' = connection + 1
      /\ earlier' = [bytes |-> Received, frames |-> Len(delivered)]
      /\ UNCHANGED <<running, chunk, parser, delivered>>
  BY DEF Start
<1>2. connection \in 1 .. Len(MaxPieces) /\ Len(MaxPieces) \in Nat
  BY BoundsAssumption, LenProperties DEF TypeInv, TypeOK
<1>3. connection + 1 \in 1 .. Len(MaxPieces)
  BY <1>1, <1>2
<1>4. pieces' \in Seq(Pieces)
  <2>1. PICK n \in 1 .. MaxPieces[connection + 1] : pieces' \in [1 .. n -> Pieces]
    BY DEF Start
  <2> QED BY <1>3, <2>1, SomePieces
<1>5. Received \in Bytes
  BY ReceivedType DEF TypeInv
<1>6. delivered \in Seq(Bytes) /\ Len(delivered) \in Nat
  BY LenProperties DEF TypeInv, TypeOK
<1>7. Stream' \in Bytes /\ Len(Stream') \in Nat
  <2>1. \A ps \in Seq(Pieces) : Joined(ps) \in Bytes /\ Len(Joined(ps)) \in Nat
    BY JoinedType
  <2> QED BY <1>4, <2>1 DEF Stream
<1>8. Received' = Received
  <2>1. Received' = Received \o SubSeq(Stream', 1, 0)
    BY <1>1 DEF Received
  <2>2. SubSeq(Stream', 1, 0) = <<>>
    BY <1>7, NoPart
  <2> QED BY <1>5, <2>1, <2>2, Bytewise
<1>9. TypeOK'
  <2>1. earlier' \in [bytes : Bytes, frames : Nat]
    BY <1>1, <1>5, <1>6
  <2>2. arrived' \in 0 .. Len(Stream')
    BY <1>1, <1>7
  <2> QED BY <1>1, <1>3, <1>4, <2>1, <2>2 DEF TypeInv, TypeOK, parser
<1>10. parsetype' = "PARSE_HEAD" => Candidate'
  BY <1>1 DEF TypeInv, Candidate, InReadData, parser
<1>11. Unread' = Unread
  BY <1>1 DEF Unread, AfterFrame, InReadData, HeadPart, parser
<1> QED BY <1>8, <1>9, <1>10, <1>11 DEF TypeInv

LEMMA Initially == Init => ParserInv
<1> SUFFICES ASSUME Init PROVE ParserInv
  OBVIOUS
<1>1. pieces \in Seq(Pieces)
  <2>1. PICK n \in 1 .. MaxPieces[1] : pieces \in [1 .. n -> Pieces]
    BY DEF Init
  <2>2. 1 \in 1 .. Len(MaxPieces)
    BY BoundsAssumption, LenProperties, EmptySeq
  <2> QED BY <2>1, <2>2, SomePieces
<1>2. Stream \in Bytes /\ Len(Stream) \in Nat
  BY <1>1, StreamType
<1>3. TypeOK
  <2>1. 1 \in 1 .. Len(MaxPieces)
    BY BoundsAssumption, LenProperties, EmptySeq
  <2>2. <<>> \in Seq(Bytes)
    BY EmptySeq
  <2>3. arrived \in 0 .. Len(Stream) /\ connection \in 1 .. Len(MaxPieces)
    BY <1>2, <2>1 DEF Init, NewParser
  <2>4. /\ readdata \in Bytes /\ Len(readdata) <= room /\ room \in Nat
        /\ packetdata \in Bytes /\ Len(packetdata) <= packetroom /\ packetroom \in Nat
    BY NoBytes DEF Init, NewParser, HeadLen
  <2>5. packet \in [header : Nat, tail : Nat, check : Nat, datalen : Int]
    BY DEF Init, NewParser
  <2>6. chunk \in Bytes /\ delivered \in Seq(Bytes) /\ earlier \in [bytes : Bytes, frames : Nat]
    BY <2>2, NoBytes DEF Init, NewParser
  <2>7. running \in BOOLEAN /\ parsetype = "PARSE_NOTHING" /\ headpos \in Nat
    BY DEF Init, NewParser
  <2> QED BY <1>1, <2>3, <2>4, <2>5, <2>6, <2>7 DEF TypeOK
<1>4. Received = <<>> /\ Unread = <<>> /\ parsetype = "PARSE_NOTHING" /\ chunk = <<>>
  <2>1. SubSeq(Stream, 1, 0) = <<>>
    BY <1>2, NoPart
  <2>2. <<>> \o <<>> = <<>>
    BY NoBytes, Bytewise
  <2> QED BY <2>1, <2>2 DEF Init, NewParser, Received, Unread
<1>5. Progress
  <2> SUFFICES ASSUME NEW more \in Bytes
               PROVE  Frames(Received \o more) = delivered \o Frames(Unread \o more)
    BY DEF Progress
  <2>1. <<>> \o more = more
    BY Bytewise
  <2>2. <<>> \o Frames(more) = Frames(more)
    BY FramesType, ConcatEmptySeq
  <2>3. delivered = <<>>
    BY DEF Init, NewParser
  <2> QED BY <1>4, <2>1, <2>2, <2>3
<1>6. Frames(Unread) = <<>>
  <2>1. Len(<<>>) < HeadLen + 2
    BY NoBytes DEF HeadLen
  <2>2. Frames(<<>>) = <<>>
    BY <2>1, NoBytes, FramesShort
  <2> QED BY <1>4, <2>2
<1> QED BY <1>3, <1>4, <1>5, <1>6 DEF ParserInv, TypeInv, Idle, NothingKeptBack
-----------------------------------------------------------------------------
LEMMA TypesKept ==
    ASSUME TypeInv, Idle, [Next]_vars
    PROVE  TypeInv' /\ Idle'
<1>1. CASE Start
  BY <1>1, StartStep DEF Idle, Start
<1>2. ASSUME NEW n \in ChunkSizes, RecvData(n) PROVE TypeInv' /\ Idle'
  <2>1. ~running /\ running' = TRUE
    BY <1>2 DEF RecvData
  <2> QED BY <1>2, <2>1, RecvDataStep DEF Idle
<1>3. CASE ParseHead
  BY <1>3, ParseHeadStep DEF Idle, ParseHead
<1>4. CASE Return
  BY <1>4, ReturnStep DEF Idle
<1>5. CASE WaitForData
  BY <1>5, WaitForDataStep DEF Idle
<1>6. CASE Reject
  BY <1>6, RejectStep DEF Idle, Reject
<1>7. CASE Deliver
  BY <1>7, DeliverStep DEF Idle, Deliver
<1>8. CASE UNCHANGED vars
  <2>1. UNCHANGED <<pieces, arrived, running, chunk, parsetype, readdata, room, headpos,
                    packet, packetdata, packetroom, delivered, earlier, connection>>
    BY <1>8 DEF vars, parser, history
  <2> QED BY <2>1 DEF TypeInv, TypeOK, Stream, Candidate, InReadData, Idle
<1> QED BY <1>1, <1>2, <1>3, <1>4, <1>5, <1>6, <1>7, <1>8 DEF Next, Turn

(* A turn that calls no frame back leaves as many to be found as before.   *)
LEMMA SameProgress ==
    ASSUME Progress, UNCHANGED <<pieces, arrived, earlier, delivered>>,
           \A more \in Bytes : Frames(Unread' \o more) = Frames(Unread \o more)
    PROVE  Progress'
<1>1. Received' = Received
  BY DEF Received, Stream
<1> QED BY <1>1 DEF Progress

LEMMA ProgressKept ==
    ASSUME TAIL < 128, TypeInv, Idle, Progress, NothingKeptBack, [Next]_vars
    PROVE  Progress' /\ NothingKeptBack'
<1>1. CASE Start
  <2>1. Received' = Received /\ Unread' = Unread /\ delivered' = delivered /\ running' = running
    BY <1>1, StartStep DEF Start
  <2> QED BY <2>1 DEF Progress, NothingKeptBack
<1>2. ASSUME NEW n \in ChunkSizes, RecvData(n) PROVE Progress' /\ NothingKeptBack'
  <2>1. chunk = <<>> /\ running' = TRUE /\ delivered' = delivered
    BY <1>2 DEF RecvData, Idle, history
  <2>2. /\ chunk' \in Bytes
        /\ Received' = Received \o chunk' /\ Unread' = Unread \o chunk'
    BY <1>2, <2>1, RecvDataStep
  <2>3. Received \in Bytes /\ Unread \in Bytes
    BY ReceivedType, UnreadType DEF TypeInv
  <2>4. ASSUME NEW more \in Bytes
        PROVE  Frames(Received' \o more) = delivered' \o Frames(Unread' \o more)
    <3> DEFINE c == chunk'
               R == Received
               U == Unread
    <3>1. c \in Bytes /\ R \in Bytes /\ U \in Bytes
      BY <2>2, <2>3
    <3>2. \A e \in Bytes : Frames(R \o e) = delivered \o Frames(U \o e)
      BY DEF Progress
    <3>3. R' = R \o c /\ U' = U \o c
      BY <2>2
    <3> HIDE DEF c, R, U
    <3>4. c \o more \in Bytes
      BY <3>1, Together
    <3>5. (R \o c) \o more = R \o (c \o more) /\ (U \o c) \o more = U \o (c \o more)
      BY ZenonT(40), <3>1, Regroup
    <3>6. Frames(R \o (c \o more)) = delivered \o Frames(U \o (c \o more))
      BY <3>2, <3>4
    <3> QED BY <2>1, <3>3, <3>5, <3>6 DEF R, U
  <2> QED BY <2>1, <2>4 DEF Progress, NothingKeptBack
<1>3. CASE ParseHead
  <2>1. running /\ UNCHANGED <<pieces, arrived, earlier, delivered, running>>
    BY <1>3 DEF ParseHead, history
  <2>2. Progress'
    BY <1>3, <2>1, ParseHeadStep, SameProgress
  <2> QED BY <2>1, <2>2 DEF NothingKeptBack
<1>4. CASE Return
  <2>1. UNCHANGED <<pieces, arrived, earlier, delivered>>
    BY <1>4 DEF Return, history
  <2>2. Unread' = Unread /\ Frames(Unread') = <<>>
    BY <1>4, ReturnStep
  <2> QED BY <2>1, <2>2, SameProgress DEF NothingKeptBack
<1>5. CASE WaitForData
  <2>1. UNCHANGED <<pieces, arrived, earlier, delivered>>
    BY <1>5 DEF WaitForData, history
  <2>2. Unread' = Unread /\ Frames(Unread') = <<>>
    BY <1>5, WaitForDataStep
  <2> QED BY <2>1, <2>2, SameProgress DEF NothingKeptBack
<1>6. CASE Reject
  <2>1. /\ running /\ UNCHANGED <<pieces, arrived, earlier, delivered, running>>
        /\ parsetype = "PARSE_HEAD" /\ Len(chunk) >= Missing /\ ~GoodFrame(Whole)
    BY <1>6 DEF Reject, history
  <2>2. ~(/\ Whole[packet.datalen + 1] = TAIL
          /\ packet.check = Check(SubSeq(Whole, 1, packet.datalen)))
    BY <2>1, GoodFrameIs
  <2>3. Unread' = From(HeadPart, 2) \o (Whole \o (AfterFrame \o From(chunk, Missing + 1)))
    BY <1>6, RejectStep
  <2>4. \A more \in Bytes : Frames(Unread' \o more) = Frames(Unread \o more)
    BY <2>1, <2>2, <2>3, CandidateStep
  <2> QED BY <2>1, <2>4, SameProgress DEF NothingKeptBack
<1>7. CASE Deliver
  <2> DEFINE data == SubSeq(Whole, 1, packet.datalen)
             Rest == AfterFrame \o From(chunk, Missing + 1)
  <2>1. /\ running /\ UNCHANGED <<pieces, arrived, earlier, running>>
        /\ parsetype = "PARSE_HEAD" /\ Len(chunk) >= Missing /\ GoodFrame(Whole)
        /\ delivered' = Append(delivered, data)
    BY <1>7 DEF Deliver
  <2>2. /\ Whole[packet.datalen + 1] = TAIL
        /\ packet.check = Check(data)
    BY <2>1, GoodFrameIs
  <2>3. Unread' = Rest /\ data \in Bytes
    BY <1>7, DeliverStep
  <2>4. Rest \in Bytes
    BY <2>1, NoBytes, CandidateStep
  <2>5. \A more \in Bytes : Frames(Unread \o more) = <<data>> \o Frames(Rest \o more)
    BY <2>1, <2>2, CandidateStep
  <2>6. Received' = Received
    BY <2>1 DEF Received, Stream
  <2>7. delivered \in Seq(Bytes)
    BY DEF TypeInv, TypeOK
  <2> HIDE DEF data, Rest
  <2>8. delivered' = delivered \o <<data>> /\ <<data>> \in Seq(Bytes)
    BY <2>1, <2>3, <2>7, AppendIsConcat
  <2>9. ASSUME NEW more \in Bytes
        PROVE  Frames(Received' \o more) = delivered' \o Frames(Unread' \o more)
    <3>1. Frames(Received \o more) = delivered \o Frames(Unread \o more)
      BY DEF Progress
    <3>2. Rest \o more \in Bytes
      BY <2>4, Together
    <3> DEFINE fs == Frames(Rest \o more)
    <3>3. fs \in Seq(Bytes)
      BY <3>2, FramesType
    <3> HIDE DEF fs
    <3>4. delivered \o (<<data>> \o fs) = (delivered \o <<data>>) \o fs
      <4>1. <<data>> \in Seq(Bytes)
        BY <2>8
      <4> HIDE <2>8
      <4> QED BY <2>7, <3>3, <4>1, Associative
    <3> QED BY <2>3, <2>5, <2>6, <2>8, <3>1, <3>4 DEF fs
  <2>10. Progress'
    BY <2>9 DEF Progress
  <2> QED BY <2>1, <2>10 DEF NothingKeptBack
<1>8. CASE UNCHANGED vars
  <2>1. UNCHANGED <<pieces, arrived, running, chunk, parsetype, readdata, room, headpos,
                    packet, packetdata, packetroom, delivered, earlier, connection>>
    BY <1>8 DEF vars, parser, history
  <2>2. Unread' = Unread /\ Received' = Received
    BY <2>1 DEF Unread, AfterFrame, InReadData, HeadPart, Received, Stream
  <2> QED BY <2>1, <2>2 DEF Progress, NothingKeptBack
<1> QED BY <1>1, <1>2, <1>3, <1>4, <1>5, <1>6, <1>7, <1>8 DEF Next, Turn

(* What was called back comes first among the frames received. *)
LEMMA DeliveredFirst ==
    ASSUME ParserInv
    PROVE  /\ delivered \in Seq(Bytes) /\ Frames(Unread) \in Seq(Bytes)
           /\ Frames(Received) = delivered \o Frames(Unread)
<1>1. Frames(Received \o <<>>) = delivered \o Frames(Unread \o <<>>)
  BY NoBytes DEF ParserInv, Progress
<1>2. Received \in Bytes /\ Unread \in Bytes
  BY ReceivedType, UnreadType DEF ParserInv, TypeInv
<1>3. Received \o <<>> = Received /\ Unread \o <<>> = Unread
  BY <1>2, Bytewise
<1>4. Frames(Unread) \in Seq(Bytes) /\ delivered \in Seq(Bytes)
  BY <1>2, FramesType DEF ParserInv, TypeInv, TypeOK
<1> QED BY <1>1, <1>3, <1>4

LEMMA InvFindsFrames == ParserInv => FramesOfStream
<1> SUFFICES ASSUME ParserInv, ~running PROVE delivered = Frames(Received)
  BY DEF FramesOfStream
<1>1. delivered \in Seq(Bytes) /\ Frames(Received) = delivered \o Frames(Unread)
  BY DeliveredFirst
<1>2. Frames(Unread) = <<>>
  BY DEF ParserInv, NothingKeptBack
<1>3. delivered \o <<>> = delivered
  BY <1>1, ConcatEmptySeq
<1> QED BY <1>1, <1>2, <1>3

(* The peer sends more. *)
LEMMA StreamGrows ==
    ASSUME ParserInv, pieces' \in Seq(Pieces), NEW more \in Bytes, Stream' = Stream \o more,
           UNCHANGED <<arrived, running, chunk, parser, history>>
    PROVE  ParserInv'
<1>1. UNCHANGED <<arrived, running, chunk, parsetype, readdata, room, headpos,
                  packet, packetdata, packetroom, delivered, earlier, connection>>
  BY DEF parser, history
<1>2. arrived \in Nat /\ arrived <= Len(Stream) /\ Stream \in Bytes /\ Len(Stream) \in Nat
  BY ReceivedType DEF ParserInv, TypeInv
<1> DEFINE x == Stream \o more
           a == arrived
<1>3. /\ x \in Bytes /\ Len(x) = Len(Stream) + Len(more) /\ Len(more) \in Nat
      /\ \A i \in 1 .. Len(Stream) : x[i] = Stream[i]
  BY <1>2, Together, Bytewise
<1> HIDE DEF x
<1>4. SubSeq(x, 1, a) = SubSeq(Stream, 1, a)
  <2>1. a \in Nat /\ a <= Len(Stream) /\ a <= Len(x) /\ 1 \in Nat \ {0}
    BY <1>2, <1>3
  <2> HIDE DEF a
  <2>2. CASE a = 0
    BY <1>2, <1>3, <2>2, NoPart
  <2>3. CASE a # 0
    <3> DEFINE y == SubSeq(x, 1, a)
               z == SubSeq(Stream, 1, a)
    <3>0. 1 <= a
      BY <2>1, <2>3
    <3>1. /\ y \in Bytes /\ Len(y) = a - 1 + 1 /\ \A i \in 1 .. a - 1 + 1 : y[i] = x[1 + i - 1]
      BY <1>3, <2>1, <3>0, PartOf
    <3>2. /\ z \in Bytes /\ Len(z) = a - 1 + 1 /\ \A i \in 1 .. a - 1 + 1 : z[i] = Stream[1 + i - 1]
      BY <1>2, <2>1, <3>0, PartOf
    <3> HIDE DEF y, z
    <3>3. a - 1 + 1 = a /\ \A i \in 1 .. a : 1 + i - 1 = i /\ i \in 1 .. Len(Stream)
      BY <1>2, <2>1
    <3>4. \A i \in 1 .. a : y[i] = z[i]
      BY <1>3, <3>1, <3>2, <3>3
    <3>5. y = z
      BY <3>1, <3>2, <3>3, <3>4, SameBytes
    <3> QED BY <3>5 DEF y, z
  <2> QED BY <2>2, <2>3
<1>5. TypeInv'
  <2>1. arrived' \in 0 .. Len(Stream')
    BY <1>1, <1>2, <1>3 DEF x
  <2>2. TypeOK'
    BY <1>1, <2>1 DEF ParserInv, TypeInv, TypeOK
  <2> QED BY <1>1, <2>2 DEF ParserInv, TypeInv, Candidate, InReadData
<1>6. Received' = Received /\ Unread' = Unread
  BY <1>1, <1>4 DEF Received, Unread, AfterFrame, InReadData, HeadPart, x, a
<1> QED BY <1>1, <1>5, <1>6 DEF ParserInv, Idle, Progress, NothingKeptBack

-----------------------------------------------------------------------------
(* The buffers of the parser hold bytes, and no more of them than there is *)
(* memory for, whatever comes on the wire and however it is cut: the       *)
(* memmove and memcpy of recvdata stay inside what thread_readdata and     *)
(* thread_packetdata have allocated (src/net/packet_sync.h, recvdata).     *)
THEOREM BuffersNeverOverfull == Spec => []TypeOK
<1>1. Init => TypeInv /\ Idle
  BY Initially DEF ParserInv
<1>2. TypeInv /\ Idle /\ [Next]_vars => (TypeInv /\ Idle)'
  BY TypesKept
<1>3. TypeInv /\ Idle => TypeOK
  BY DEF TypeInv
<1> QED BY <1>1, <1>2, <1>3, PTL DEF Spec

(* When recvdata has returned, it has called back exactly the frames of    *)
(* all the bytes it was ever given, in their order, however the stream was *)
(* cut into calls and whatever noise was in it.  The TAIL of the program   *)
(* is less than 128: recvdata compares a char with it, which never equals  *)
(* a greater one, and no frame would ever be called back.                  *)
THEOREM FramesFoundOnce ==
    ASSUME TAIL < 128
    PROVE  Spec => []FramesOfStream
<1>1. Init => ParserInv
  BY Initially
<1>2. ParserInv /\ [Next]_vars => ParserInv'
  BY TypesKept, ProgressKept DEF ParserInv
<1>3. ParserInv => FramesOfStream
  BY InvFindsFrames
<1> QED BY <1>1, <1>2, <1>3, PTL DEF Spec

(* What one host puts on the wire, another of its byte order takes from it *)
(* again: every 32-bit integer and every field of a header, and every      *)
(* 64-bit integer whose fifth byte on the wire is not negative as a char.  *)
THEOREM NothingLostInBytes == Spec => []ConversionsSound
<1>1. ConversionsSound
  BY AllConverts DEF ConversionsSound
<1>2. Spec => []ConversionsSound
  BY <1>1, PTL
<1> QED BY <1>2
=============================================================================

----------------------------- MODULE DataLemmas -----------------------------
(***************************************************************************)
(* Facts about numbers and sequences that the proofs of the components     *)
(* share.  Induction is stated for sets: the numbers in a set that has 0,  *)
(* and with each number the next, are all there are.                       *)
(***************************************************************************)
EXTENDS Integers, SequenceTheorems, FiniteSetTheorems, WellFoundedInduction, TLAPS

(* A set of numbers that is not empty has a least one. *)
LEMMA Least ==
    ASSUME NEW T \in SUBSET Nat, T # {}
    PROVE  \E n \in T : \A m \in T : n <= m
<1> DEFINE R == {ss \in Nat \X Nat : ss[1] < ss[2]}
<1>1. IsWellFoundedOn(R, Nat)
  BY NatLessThanWellFounded DEF OpToRel
<1> HIDE DEF R
<1>2. \E n \in T : \A m \in T : <<m, n>> \notin R
  BY <1>1, WFMin
<1>3. \A m, n \in Nat : <<m, n>> \notin R => n <= m
  BY DEF R
<1> QED BY <1>2, <1>3

LEMMA Induction ==
    ASSUME NEW T, 0 \in T, \A n \in Nat : n \in T => n + 1 \in T
    PROVE  Nat \subseteq T
<1> SUFFICES ASSUME Nat \ T # {} PROVE FALSE
  OBVIOUS
<1>1. PICK n \in Nat \ T : \A m \in Nat \ T : n <= m
  BY Least
<1>2. n - 1 \in Nat /\ n - 1 \in T
  BY <1>1
<1>3. (n - 1) + 1 \in T
  BY <1>2
<1> QED BY <1>1, <1>3

(* From a number down to 1. *)
LEMMA DownInduction ==
    ASSUME NEW m \in Nat, NEW T, m \in T, \A n \in 1 .. m - 1 : n + 1 \in T => n \in T
    PROVE  1 .. m \subseteq T
<1> DEFINE U == {k \in Nat : m - k \in 1 .. m => m - k \in T}
<1>1. 0 \in U
  OBVIOUS
<1>2. ASSUME NEW k \in Nat, k \in U PROVE k + 1 \in U
  <2> SUFFICES ASSUME m - (k + 1) \in 1 .. m PROVE m - (k + 1) \in T
    OBVIOUS
  <2> DEFINE n == m - (k + 1)
  <2>1. n \in 1 .. m - 1 /\ n + 1 = m - k /\ m - k \in 1 .. m
    OBVIOUS
  <2>2. n + 1 \in T
    BY <1>2, <2>1
  <2> QED BY <2>1, <2>2
<1> HIDE DEF U
<1>3. Nat \subseteq U
  BY <1>1, <1>2, Induction
<1>4. ASSUME NEW n \in 1 .. m PROVE n \in T
  <2>1. m - n \in Nat /\ m - (m - n) = n
    OBVIOUS
  <2>2. m - n \in U
    BY <1>3, <2>1
  <2> QED BY <2>1, <2>2 DEF U
<1> QED BY <1>4

(* What the theorem ConcatAssociative of the library says, and the provers *)
(* do not take from it.                                                    *)
LEMMA Associative ==
    ASSUME NEW S, NEW s \in Seq(S), NEW t \in Seq(S), NEW u \in Seq(S)
    PROVE  (s \o t) \o u = s \o (t \o u)
<1>1. \A q, r \in Seq(S) :
          /\ q \o r \in Seq(S) /\ Len(q \o r) = Len(q) + Len(r)
          /\ \A i \in 1 .. Len(q) + Len(r) :
                 (q \o r)[i] = IF i <= Len(q) THEN q[i] ELSE r[i - Len(q)]
  BY ConcatProperties
<1>2. PICK a \in Seq(S) : a = s \o t
  BY <1>1
<1>3. PICK b \in Seq(S) : b = t \o u
  BY <1>1
<1>4. PICK x \in Seq(S) : x = a \o u
  BY <1>1
<1>5. PICK y \in Seq(S) : y = s \o b
  BY <1>1
<1>6. Len(s) \in Nat /\ Len(t) \in Nat /\ Len(u) \in Nat
  BY LenProperties
<1>7. /\ Len(a) = Len(s) + Len(t) /\ Len(b) = Len(t) + Len(u)
      /\ Len(x) = Len(a) + Len(u) /\ Len(y) = Len(s) + Len(b)
  BY <1>1, <1>2, <1>3, <1>4, <1>5
<1>8. \A i \in 1 .. Len(s) + Len(t) : a[i] = IF i <= Len(s) THEN s[i] ELSE t[i - Len(s)]
  BY <1>1, <1>2
<1>9. \A i \in 1 .. Len(t) + Len(u) : b[i] = IF i <= Len(t) THEN t[i] ELSE u[i - Len(t)]
  BY <1>1, <1>3
<1>10. \A i \in 1 .. Len(a) + Len(u) : x[i] = IF i <= Len(a) THEN a[i] ELSE u[i - Len(a)]
  BY <1>1, <1>4
<1>11. \A i \in 1 .. Len(s) + Len(b) : y[i] = IF i <= Len(s) THEN s[i] ELSE b[i - Len(s)]
  BY <1>1, <1>5
<1>12. ASSUME NEW i \in 1 .. Len(x) PROVE x[i] = y[i]
  <2>1. /\ i \in 1 .. Len(a) + Len(u) /\ i \in 1 .. Len(s) + Len(b)
        /\ i <= Len(s) \/ ~(i <= Len(s))
    BY <1>6, <1>7
  <2>2. CASE i <= Len(s)
    <3>1. i <= Len(a) /\ i \in 1 .. Len(s) + Len(t)
      BY <1>6, <1>7, <2>2
    <3> QED BY <1>8, <1>10, <1>11, <2>1, <2>2, <3>1
  <2>3. CASE ~(i <= Len(s)) /\ i <= Len(a)
    <3>1. /\ i \in 1 .. Len(s) + Len(t) /\ i - Len(s) \in 1 .. Len(t) + Len(u)
          /\ i - Len(s) <= Len(t)
      BY <1>6, <1>7, <2>3
    <3> QED BY <1>8, <1>9, <1>10, <1>11, <2>1, <2>3, <3>1
  <2>4. CASE ~(i <= Len(s)) /\ ~(i <= Len(a))
    <3>1. /\ i - Len(s) \in 1 .. Len(t) + Len(u) /\ ~(i - Len(s) <= Len(t))
          /\ (i - Len(s)) - Len(t) = i - Len(a)
      BY <1>6, <1>7, <2>1, <2>4
    <3> QED BY <1>9, <1>10, <1>11, <2>1, <2>4, <3>1
  <2> QED BY <2>2, <2>3, <2>4
<1>13. x = y
  <2>1. Len(x) = Len(y)
    BY <1>6, <1>7
  <2> HIDE <1>2, <1>3, <1>4, <1>5
  <2> QED BY <1>12, <2>1, SeqEqual
<1> QED BY <1>2, <1>3, <1>4, <1>5, <1>13

(* r is what is left of q when some of its elements are taken out. *)
Within(r, q) ==
    \E e \in [DOMAIN r -> DOMAIN q] :
        /\ \A i, j \in DOMAIN r : i < j => e[i] < e[j]
        /\ \A i \in DOMAIN r : r[i] = q[e[i]]

LEMMA CutOut ==
    ASSUME NEW S, NEW q \in Seq(S), NEW r \in Seq(S), NEW t \in Seq(S)
    PROVE  Within(q \o t, (q \o r) \o t)
<1> DEFINE a == q \o r  x == q \o t  y == a \o t
           e == [i \in DOMAIN x |-> IF i <= Len(q) THEN i ELSE i + Len(r)]
<1>1. \A v, w \in Seq(S) :
          /\ v \o w \in Seq(S) /\ Len(v \o w) = Len(v) + Len(w)
          /\ \A i \in 1 .. Len(v) + Len(w) :
                 (v \o w)[i] = IF i <= Len(v) THEN v[i] ELSE w[i - Len(v)]
  BY ConcatProperties
<1>2. /\ Len(q) \in Nat /\ Len(r) \in Nat /\ Len(t) \in Nat
      /\ a \in Seq(S) /\ Len(a) = Len(q) + Len(r)
      /\ \A i \in 1 .. Len(q) : a[i] = q[i]
  BY <1>1, LenProperties
<1>3. /\ x \in Seq(S) /\ Len(x) = Len(q) + Len(t)
      /\ \A i \in 1 .. Len(q) + Len(t) : x[i] = IF i <= Len(q) THEN q[i] ELSE t[i - Len(q)]
  BY <1>1
<1>4. /\ y \in Seq(S) /\ Len(y) = Len(a) + Len(t)
      /\ \A i \in 1 .. Len(a) + Len(t) : y[i] = IF i <= Len(a) THEN a[i] ELSE t[i - Len(a)]
  BY <1>1, <1>2
<1> HIDE DEF a, x, y
<1>5. DOMAIN x = 1 .. Len(q) + Len(t) /\ DOMAIN y = 1 .. Len(q) + Len(r) + Len(t)
  BY <1>2, <1>3, <1>4, LenProperties
<1>6. ASSUME NEW i \in DOMAIN x PROVE e[i] \in DOMAIN y /\ x[i] = y[e[i]]
  <2>1. CASE i <= Len(q)
    <3>1. e[i] = i /\ i \in 1 .. Len(a) + Len(t) /\ i <= Len(a) /\ i \in 1 .. Len(q)
      BY <1>2, <1>5, <2>1
    <3> QED BY <1>2, <1>3, <1>4, <1>5, <2>1, <3>1
  <2>2. CASE ~(i <= Len(q))
    <3>1. /\ e[i] = i + Len(r) /\ i + Len(r) \in 1 .. Len(a) + Len(t)
          /\ ~(i + Len(r) <= Len(a)) /\ (i + Len(r)) - Len(a) = i - Len(q)
      BY <1>2, <1>5, <2>2
    <3> QED BY <1>2, <1>3, <1>4, <1>5, <2>2, <3>1
  <2> QED BY <2>1, <2>2
<1>7. \A i, j \in DOMAIN x : i < j => e[i] < e[j]
  BY <1>2, <1>5
<1>8. e \in [DOMAIN x -> DOMAIN y]
  BY <1>6
<1> HIDE DEF e
<1>9. Within(x, y)
  BY <1>6, <1>7, <1>8 DEF Within
<1> QED BY <1>9 DEF a, x, y
-----------------------------------------------------------------------------
(* Sequences in which nothing occurs twice.                                *)

NoRepeat(q) == \A i, j \in DOMAIN q : q[i] = q[j] => i = j
Items(q) == {q[i] : i \in DOMAIN q}

LEMMA NoRepeatAppend ==
    ASSUME NEW S, NEW q \in Seq(S), NEW x \in S
    PROVE  /\ Append(q, x) \in Seq(S) /\ Len(Append(q, x)) = Len(q) + 1
           /\ Items(Append(q, x)) = Items(q) \cup {x}
           /\ NoRepeat(q) /\ x \notin Items(q) => NoRepeat(Append(q, x))
<1> DEFINE r == Append(q, x)
<1>1. /\ Len(q) \in Nat /\ DOMAIN q = 1 .. Len(q) /\ DOMAIN r = 1 .. Len(q) + 1
      /\ r \in Seq(S) /\ Len(r) = Len(q) + 1
      /\ (\A i \in DOMAIN q : r[i] = q[i]) /\ r[Len(q) + 1] = x
  BY LenProperties
<1> HIDE DEF r
<1>2. \A i \in DOMAIN r : \/ i \in DOMAIN q /\ r[i] = q[i]
                          \/ i = Len(q) + 1 /\ r[i] = x
  BY <1>1
<1>3. (\A i \in DOMAIN q : i \in DOMAIN r) /\ Len(q) + 1 \in DOMAIN r
  BY <1>1
<1>4. Items(r) = Items(q) \cup {x}
  BY <1>1, <1>2, <1>3 DEF Items
<1>5. ASSUME NoRepeat(q), x \notin Items(q) PROVE NoRepeat(r)
  BY <1>2, <1>5 DEF NoRepeat, Items
<1> QED BY <1>1, <1>4, <1>5 DEF r

LEMMA NoRepeatTail ==
    ASSUME NEW S, NEW q \in Seq(S), q # <<>>
    PROVE  /\ Head(q) \in S /\ Head(q) = q[1] /\ Head(q) \in Items(q)
           /\ Tail(q) \in Seq(S) /\ Len(Tail(q)) = Len(q) - 1 /\ Len(q) \in Nat \ {0}
           /\ Items(Tail(q)) \subseteq Items(q)
           /\ NoRepeat(q) => NoRepeat(Tail(q)) /\ Items(Tail(q)) = Items(q) \ {Head(q)}
<1> DEFINE r == Tail(q)  h == Head(q)
<1>1. Len(q) \in Nat \ {0} /\ DOMAIN q = 1 .. Len(q)
  BY LenProperties, EmptySeq
<1>2. r \in Seq(S) /\ Len(r) = Len(q) - 1 /\ \A i \in 1 .. Len(r) : r[i] = q[i + 1]
  BY HeadTailProperties
<1>3. DOMAIN r = 1 .. Len(r)
  BY <1>2, LenProperties
<1>4. h = q[1] /\ h \in S
  BY HeadTailProperties
<1> HIDE DEF r, h
<1>5. \A i \in DOMAIN r : i + 1 \in DOMAIN q /\ r[i] = q[i + 1] /\ i + 1 # 1
  BY <1>1, <1>2, <1>3
<1>6. \A i \in DOMAIN q : i = 1 \/ (i - 1 \in DOMAIN r /\ r[i - 1] = q[i])
  <2> SUFFICES ASSUME NEW i \in DOMAIN q, i # 1 PROVE i - 1 \in DOMAIN r /\ r[i - 1] = q[i]
    OBVIOUS
  <2>1. i - 1 \in 1 .. Len(r) /\ (i - 1) + 1 = i
    BY <1>1, <1>2
  <2> QED BY <1>2, <1>3, <2>1
<1>7. 1 \in DOMAIN q
  BY <1>1
<1>8. Items(r) \subseteq Items(q) /\ h \in Items(q) /\ Items(q) \ {h} \subseteq Items(r)
  BY <1>4, <1>5, <1>6, <1>7 DEF Items
<1>9. ASSUME NoRepeat(q) PROVE NoRepeat(r) /\ h \notin Items(r)
  <2>1. \A i, j \in DOMAIN r : r[i] = r[j] => i + 1 = j + 1
    BY <1>5, <1>9 DEF NoRepeat
  <2>2. \A i, j \in DOMAIN r : i + 1 = j + 1 => i = j
    BY <1>2, <1>3
  <2>3. h \notin Items(r)
    BY <1>4, <1>5, <1>7, <1>9 DEF NoRepeat, Items
  <2> QED BY <2>1, <2>2, <2>3 DEF NoRepeat
<1>10. NoRepeat(q) => NoRepeat(r) /\ Items(r) = Items(q) \ {h}
  BY <1>8, <1>9
<1> QED BY <1>1, <1>2, <1>4, <1>8, <1>10 DEF r, h

LEMMA NoRepeatCard ==
    ASSUME NEW S, NEW q \in Seq(S)
    PROVE  /\ IsFiniteSet(Items(q)) /\ Cardinality(Items(q)) <= Len(q)
           /\ NoRepeat(q) => Cardinality(Items(q)) = Len(q)
<1>1. Len(q) \in Nat /\ DOMAIN q = 1 .. Len(q) /\ IsFiniteSet(1 .. Len(q))
      /\ Cardinality(1 .. Len(q)) = Len(q)
  <2>1. Len(q) \in Nat /\ DOMAIN q = 1 .. Len(q)
    BY LenProperties
  <2>2. /\ IsFiniteSet(1 .. Len(q))
        /\ Cardinality(1 .. Len(q)) = IF 1 > Len(q) THEN 0 ELSE Len(q) - 1 + 1
    BY <2>1, FS_Interval
  <2> QED BY <2>1, <2>2
<1>2. q \in Surjection(1 .. Len(q), Items(q))
  BY <1>1 DEF Surjection, Items
<1>3. IsFiniteSet(Items(q)) /\ Cardinality(Items(q)) <= Len(q)
  BY <1>1, <1>2, FS_Surjection
<1>4. ASSUME NoRepeat(q) PROVE Cardinality(Items(q)) = Len(q)
  <2>1. q \in Injection(1 .. Len(q), Items(q))
    BY <1>1, <1>2, <1>4 DEF Injection, Surjection, NoRepeat, IsInjective
  <2> QED BY <1>1, <1>2, <2>1, FS_Surjection
<1> QED BY <1>3, <1>4

(* One number of n + 1 is not among n things. *)
LEMMA OneLeft ==
    ASSUME NEW T, IsFiniteSet(T)
    PROVE  \E p \in 1 .. Cardinality(T) + 1 : p \notin T
<1> SUFFICES ASSUME 1 .. Cardinality(T) + 1 \subseteq T PROVE FALSE
  OBVIOUS
<1>1. Cardinality(T) \in Nat
  BY FS_CardinalityType
<1>2. Cardinality(1 .. Cardinality(T) + 1) = Cardinality(T) + 1
  BY <1>1, FS_Interval
<1>3. Cardinality(1 .. Cardinality(T) + 1) <= Cardinality(T)
  BY FS_Subset
<1> QED BY <1>1, <1>2, <1>3
(* A function on the first numbers is a sequence.                          *)
LEMMA FunctionIsSeq ==
    ASSUME NEW S, NEW n \in Nat, NEW f \in [1 .. n -> S]
    PROVE  f \in Seq(S) /\ Len(f) = n
<1>1. f \in Seq(S)
  BY SeqDef
<1> QED BY <1>1, LenProperties

(* A recursion has a solution: what it starts from, and one step after     *)
(* another, for as long as each step leads to a value of the same set.     *)
IsStep(V, N, step) == step \in [(1 .. N) \X V -> V]

Unfolds(V, N, base, step) ==
    \E f \in [0 .. N -> V] : f[0] = base /\ \A n \in 1 .. N : f[n] = step[<<n, f[n - 1]>>]

LEMMA Recursion ==
    ASSUME NEW V, NEW N \in Nat, NEW base \in V, NEW step, IsStep(V, N, step)
    PROVE  Unfolds(V, N, base, step)
<1> USE DEF IsStep, Unfolds
<1> DEFINE Steps(f, m) == f[0] = base /\ \A n \in 1 .. m : f[n] = step[<<n, f[n - 1]>>]
           T == {m \in Nat : m <= N => \E f \in [0 .. m -> V] : Steps(f, m)}
<1>1. 0 \in T
  <2>1. [n \in 0 .. 0 |-> base] \in [0 .. 0 -> V] /\ Steps([n \in 0 .. 0 |-> base], 0)
    OBVIOUS
  <2> HIDE DEF Steps
  <2> QED BY <2>1
<1>2. ASSUME NEW m \in Nat, m \in T PROVE m + 1 \in T
  <2> SUFFICES ASSUME m + 1 <= N PROVE \E f \in [0 .. m + 1 -> V] : Steps(f, m + 1)
    OBVIOUS
  <2>1. PICK g \in [0 .. m -> V] : Steps(g, m)
    BY <1>2
  <2>2. g[m] \in V /\ m + 1 \in 1 .. N
    OBVIOUS
  <2>3. PICK v \in V : v = step[<<m + 1, g[m]>>]
    BY <2>2
  <2> DEFINE f == [n \in 0 .. m + 1 |-> IF n <= m THEN g[n] ELSE v]
  <2>4. f \in [0 .. m + 1 -> V]
    OBVIOUS
  <2>5. f[0] = base
    BY <2>1
  <2>6. ASSUME NEW n \in 1 .. m + 1 PROVE f[n] = step[<<n, f[n - 1]>>]
    <3>1. f[n - 1] = g[n - 1]
      OBVIOUS
    <3>2. CASE n = m + 1
      <4>1. f[n] = v /\ g[n - 1] = g[m]
        BY <3>2
      <4> QED BY <2>3, <3>1, <3>2, <4>1
    <3>3. CASE n # m + 1
      <4>1. n \in 1 .. m /\ f[n] = g[n]
        BY <3>3
      <4> QED BY <2>1, <3>1, <4>1
    <3> QED BY <3>2, <3>3
  <2> QED BY <2>4, <2>5, <2>6
<1> HIDE DEF T
<1>3. N \in T
  BY <1>1, <1>2, Induction
<1> QED BY <1>3 DEF T
=============================================================================

----------------------------------- MODULE Counting -----------------------------------
(***************************************************************************)
(* Counting, for the proofs: least elements and ranks in sets of numbers,  *)
(* small sets, and how often a sequence hits a set.                        *)
(***************************************************************************)
EXTENDS Integers, Sequences, FiniteSets, FiniteSetTheorems, WellFoundedInduction,
        TLAPS

-----------------------------------------------------------------------------
(* Sets. *)

\* A non-empty set of numbers has a least element.
LEMMA LeastNat ==
    ASSUME NEW S \in SUBSET Nat, S # {}
    PROVE  \E o \in S : \A x \in S : o <= x
<1>1. PICK n \in S : TRUE
  OBVIOUS
<1> DEFINE below(k) == 0..k
           T == {below(k) : k \in {x \in S : x <= n}}
<1>2. IsWellFoundedOn(StrictSubsetOrdering(0..n), FiniteSubsetsOf(0..n))
  BY FS_StrictSubsetOrderingWellFounded
<1>3. T \subseteq FiniteSubsetsOf(0..n) /\ T # {}
  <2>1. IsFiniteSet(0..n)
    BY FS_Interval
  <2>2. \A k \in S : k <= n => below(k) \subseteq 0..n
    OBVIOUS
  <2>3. QED BY <1>1, <2>1, <2>2, FS_Subset DEF FiniteSubsetsOf
<1>4. PICK B \in T : \A C \in T : <<C, B>> \notin StrictSubsetOrdering(0..n)
  <2> HIDE DEF T
  <2>1. QED BY <1>2, <1>3, WFMin
<1>5. PICK k \in S : k <= n /\ B = below(k)
  BY <1>4
<1>6. ASSUME NEW x \in S, x < k PROVE FALSE
  <2>1. below(x) \in T
    BY <1>5, <1>6
  <2>2. below(x) \subseteq below(k) /\ below(x) # below(k)
    BY <1>6
  <2>3. below(x) \in SUBSET (0..n) /\ below(k) \in SUBSET (0..n)
    BY <1>5, <1>6
  <2>4. QED BY <1>4, <1>5, <2>1, <2>2, <2>3 DEF StrictSubsetOrdering
<1>7. QED BY <1>6

\* The rank of a member of a finite set of numbers is one to one with the numbers
\* up to the size of the set.
RankIn(S, o) == Cardinality({x \in S : x <= o})

LEMMA RankBijection ==
    ASSUME NEW S \in SUBSET Int, IsFiniteSet(S)
    PROVE  /\ \A o \in S : RankIn(S, o) \in 1..Cardinality(S)
           /\ \A o, q \in S : o < q => RankIn(S, o) < RankIn(S, q)
           /\ \A k \in 1..Cardinality(S) : \E o \in S : RankIn(S, o) = k
  <1> DEFINE upTo(o) == {x \in S : x <= o}
             n == Cardinality(S)
             f == [o \in S |-> RankIn(S, o)]
  <1>0. n \in Nat
    BY FS_CardinalityType
  <1>1. \A o \in S : IsFiniteSet(upTo(o)) /\ Cardinality(upTo(o)) \in 1..n
    <2> SUFFICES ASSUME NEW o \in S
                 PROVE  IsFiniteSet(upTo(o)) /\ Cardinality(upTo(o)) \in 1..n
      OBVIOUS
    <2>1. upTo(o) \in SUBSET S /\ o \in upTo(o)
      OBVIOUS
    <2> HIDE DEF upTo
    <2>2. /\ IsFiniteSet(upTo(o)) /\ Cardinality(upTo(o)) \in Nat
          /\ Cardinality(upTo(o)) <= n /\ Cardinality(upTo(o)) # 0
      BY <2>1, FS_Subset, FS_CardinalityType, FS_EmptySet
    <2> QED
      BY <1>0, <2>2
  <1>2. \A o, q \in S : o < q => Cardinality(upTo(o)) < Cardinality(upTo(q))
    <2> SUFFICES ASSUME NEW o \in S, NEW q \in S, o < q
                 PROVE  Cardinality(upTo(o)) < Cardinality(upTo(q))
      OBVIOUS
    <2>0. o \in Int /\ q \in Int /\ \A x \in S : x \in Int
      OBVIOUS
    <2>1. \A x \in S : x <= o => x <= q
      BY <2>0
    <2>2. q <= q /\ ~(q <= o)
      BY <2>0
    <2>3. upTo(o) \in SUBSET upTo(q) /\ q \in upTo(q) /\ q \notin upTo(o)
      BY <2>1, <2>2
    <2>4. /\ Cardinality(upTo(o)) \in Nat /\ Cardinality(upTo(q)) \in Nat
          /\ IsFiniteSet(upTo(q))
      BY <1>1, FS_CardinalityType
    <2> HIDE DEF upTo
    <2> QED
      BY <2>3, <2>4, FS_Subset
  <1>3. f \in Injection(S, 1..n)
    <2>1. f \in [S -> 1..n]
      BY <1>1 DEF RankIn
    <2>2. \A o, q \in S : f[o] = f[q] => o = q
      <3> SUFFICES ASSUME NEW o \in S, NEW q \in S, f[o] = f[q], o # q PROVE FALSE
        OBVIOUS
      <3>1. Cardinality(upTo(o)) = Cardinality(upTo(q))
        BY DEF RankIn
      <3>2. o < q \/ q < o
        OBVIOUS
      <3>3. Cardinality(upTo(o)) \in Int /\ Cardinality(upTo(q)) \in Int
        BY <1>1
      <3>4. Cardinality(upTo(o)) < Cardinality(upTo(q))
            \/ Cardinality(upTo(q)) < Cardinality(upTo(o))
        BY <1>2, <3>2
      <3> QED
        BY <3>1, <3>3, <3>4
    <2> QED
      BY <2>1, <2>2 DEF Injection, IsInjective
  <1>4. f \in Surjection(S, 1..n)
    <2>1. IsFiniteSet(1..n) /\ Cardinality(1..n) = n
      BY <1>0, FS_Interval
    <2> HIDE DEF f
    <2> QED
      BY <1>3, <2>1, FS_Injection
  <1>5. \A k \in 1..n : \E o \in S : f[o] = k
    BY <1>4 DEF Surjection
  <1> QED
    BY <1>1, <1>2, <1>5 DEF RankIn

\* The part of a finite set of numbers whose ranks lie in an interval.
LEMMA RankInterval ==
    ASSUME NEW S \in SUBSET Int, IsFiniteSet(S), NEW a \in Nat, NEW b \in Nat,
           a <= b, b <= Cardinality(S)
    PROVE  Cardinality({o \in S : a < RankIn(S, o) /\ RankIn(S, o) <= b}) = b - a
  <1> DEFINE P == {o \in S : a < RankIn(S, o) /\ RankIn(S, o) <= b}
             f == [o \in P |-> RankIn(S, o)]
  <1>0. Cardinality(S) \in Nat
    BY FS_CardinalityType
  <1>1. IsFiniteSet(P)
    BY FS_Subset
  <1>2. f \in Bijection(P, (a + 1)..b)
    <2>1. f \in [P -> (a + 1)..b]
      <3> SUFFICES ASSUME NEW o \in P PROVE RankIn(S, o) \in (a + 1)..b
        OBVIOUS
      <3>1. RankIn(S, o) \in Int
        BY <1>0, RankBijection
      <3> QED
        BY <3>1
    <2>2. \A o, q \in P : f[o] = f[q] => o = q
      <3> SUFFICES ASSUME NEW o \in P, NEW q \in P, RankIn(S, o) = RankIn(S, q), o # q
                   PROVE FALSE
        OBVIOUS
      <3>1. o < q \/ q < o
        OBVIOUS
      <3> QED
        BY <1>0, <3>1, RankBijection
    <2>3. \A k \in (a + 1)..b : \E o \in P : f[o] = k
      <3> SUFFICES ASSUME NEW k \in (a + 1)..b PROVE \E o \in P : f[o] = k
        OBVIOUS
      <3>1. k \in 1..Cardinality(S) /\ a < k /\ k <= b
        BY <1>0
      <3>2. PICK o \in S : RankIn(S, o) = k
        BY <3>1, RankBijection
      <3> QED
        BY <3>1, <3>2
    <2> QED
      BY <2>1, <2>2, <2>3 DEF Bijection, Injection, IsInjective, Surjection
  <1>3. Cardinality((a + 1)..b) = b - a
    <2>1. a + 1 \in Int /\ b \in Int
      OBVIOUS
    <2>2. Cardinality((a + 1)..b) = IF a + 1 > b THEN 0 ELSE b - (a + 1) + 1
      BY <2>1, FS_Interval
    <2> QED
      BY <2>2
  <1> HIDE DEF f, P
  <1>4. Cardinality((a + 1)..b) = Cardinality(P)
    BY <1>1, <1>2, FS_Bijection DEF ExistsBijection
  <1> QED
    BY <1>3, <1>4 DEF P

\* A set of two, and of at least two.
LEMMA TwoMembers ==
    /\ \A S : Cardinality(S) = 2 /\ IsFiniteSet(S)
                 => \E a, b \in S : a # b /\ S = {a, b}
    /\ \A S : Cardinality(S) = 1 /\ IsFiniteSet(S) => \E a : S = {a}
    /\ \A S : IsFiniteSet(S) /\ (\E a, b \in S : a # b) => Cardinality(S) >= 2
  <1>1. ASSUME NEW S, IsFiniteSet(S), NEW a \in S
        PROVE  /\ IsFiniteSet(S \ {a}) /\ Cardinality(S \ {a}) \in Nat
               /\ Cardinality(S) \in Nat
               /\ Cardinality(S \ {a}) = Cardinality(S) - 1
    BY <1>1, FS_RemoveElement, FS_CardinalityType
  <1>2. ASSUME NEW S, Cardinality(S) = 1, IsFiniteSet(S) PROVE \E a : S = {a}
    <2>1. PICK a \in S : TRUE
      BY <1>2, FS_EmptySet
    <2>2. Cardinality(S \ {a}) = 0 /\ IsFiniteSet(S \ {a})
      BY <1>1, <1>2
    <2>3. S \ {a} = {}
      BY <2>2, FS_EmptySet
    <2> QED
      BY <2>1, <2>3
  <1>3. ASSUME NEW S, Cardinality(S) = 2, IsFiniteSet(S)
        PROVE  \E a, b \in S : a # b /\ S = {a, b}
    <2>1. PICK a \in S : TRUE
      BY <1>3, FS_EmptySet
    <2>2. Cardinality(S \ {a}) = 1 /\ IsFiniteSet(S \ {a})
      BY <1>1, <1>3
    <2>3. PICK b : S \ {a} = {b}
      BY <1>2, <2>2
    <2> QED
      BY <2>1, <2>3
  <1>4. ASSUME NEW S, IsFiniteSet(S), NEW a \in S, NEW b \in S, a # b
        PROVE  Cardinality(S) >= 2
    <2>1. b \in S \ {a}
      BY <1>4
    <2>2. Cardinality(S \ {a}) # 0
      BY <1>1, <1>4, <2>1, FS_EmptySet
    <2> QED
      BY <1>1, <1>4, <2>2
  <1> QED
    BY <1>2, <1>3, <1>4

-----------------------------------------------------------------------------
(* Sequences. *)

\* A function on the first numbers is a sequence.
LEMMA TupleType ==
    ASSUME NEW S, NEW n \in Nat, NEW q \in [1..n -> S]
    PROVE  q \in Seq(S) /\ DOMAIN q = 1..n /\ Len(q) = n
  OBVIOUS

\* Where q hits T, and how often.
Hits(q, T) == {i \in DOMAIN q : q[i] \in T}

HitCount(q, T) == Cardinality(Hits(q, T))

\* A sequence hits a set finitely often.
LEMMA HitsType ==
    ASSUME NEW S, NEW q \in Seq(S), NEW T
    PROVE  /\ IsFiniteSet(Hits(q, T))
           /\ HitCount(q, T) \in Nat
           /\ HitCount(q, T) = 0 <=> \A i \in DOMAIN q : q[i] \notin T
  <1>1. DOMAIN q = 1..Len(q) /\ Len(q) \in Nat
    OBVIOUS
  <1>2. IsFiniteSet(DOMAIN q)
    BY <1>1, FS_Interval
  <1>3. IsFiniteSet(Hits(q, T))
    BY <1>2, FS_Subset DEF Hits
  <1>4. HitCount(q, T) = 0 <=> Hits(q, T) = {}
    BY <1>3, FS_EmptySet DEF HitCount
  <1> QED
    BY <1>3, <1>4, FS_CardinalityType DEF HitCount, Hits

\* One sequence after the other hits as often as the two together.
LEMMA HitsConcat ==
    ASSUME NEW S, NEW q \in Seq(S), NEW r \in Seq(S), NEW T
    PROVE  HitCount(q \o r, T) = HitCount(q, T) + HitCount(r, T)
  <1> DEFINE n == Len(q)
             A == Hits(q, T)
             B == Hits(r, T)
             s == q \o r
             C == {i \in Hits(s, T) : i > n}
             f == [i \in B |-> i + n]
  <1>1. /\ n \in Nat /\ DOMAIN q = 1..n /\ Len(r) \in Nat /\ DOMAIN r = 1..Len(r)
        /\ s \in Seq(S) /\ DOMAIN s = 1..(n + Len(r))
        /\ \A i \in 1..n : s[i] = q[i]
        /\ \A i \in 1..Len(r) : s[i + n] = r[i]
    OBVIOUS
  <1>2. A \subseteq 1..n /\ B \subseteq 1..Len(r)
    BY <1>1 DEF Hits
  <1> HIDE DEF n
  <1>3. Hits(s, T) = A \cup C /\ A \cap C = {}
    <2>1. \A i \in DOMAIN s : i <= n => (i \in DOMAIN q /\ s[i] = q[i])
      BY <1>1
    <2>2. \A i \in DOMAIN q : i \in DOMAIN s /\ s[i] = q[i] /\ i <= n
      BY <1>1
    <2>3. \A i \in DOMAIN s : i \in Int
      BY <1>1
    <2> HIDE DEF s
    <2> QED
      BY <1>1, <2>1, <2>2, <2>3 DEF Hits
  <1>4. f \in Bijection(B, C)
    <2>1. f \in [B -> C]
      <3> SUFFICES ASSUME NEW i \in B PROVE i + n \in C
        OBVIOUS
      <3>1. i \in 1..Len(r) /\ r[i] \in T
        BY <1>1 DEF Hits
      <3>2. i + n \in DOMAIN s /\ s[i + n] = r[i] /\ i + n > n
        BY <1>1, <3>1
      <3> HIDE DEF s
      <3> QED
        BY <3>1, <3>2 DEF Hits
    <2>2. \A i, j \in B : f[i] = f[j] => i = j
      BY <1>1, <1>2
    <2>3. \A k \in C : \E i \in B : f[i] = k
      <3> SUFFICES ASSUME NEW k \in C PROVE \E i \in B : f[i] = k
        OBVIOUS
      <3>1. k \in DOMAIN s /\ s[k] \in T /\ k > n
        BY DEF Hits
      <3>2. k - n \in 1..Len(r) /\ (k - n) + n = k
        BY <1>1, <3>1
      <3>3. r[k - n] = s[k]
        BY <1>1, <3>2
      <3>4. k - n \in B
        BY <1>1, <3>1, <3>2, <3>3 DEF Hits
      <3> HIDE DEF B
      <3> QED
        BY <3>2, <3>4
    <2> QED
      BY <2>1, <2>2, <2>3 DEF Bijection, Injection, IsInjective, Surjection
  <1>5. IsFiniteSet(A) /\ IsFiniteSet(B) /\ IsFiniteSet(Hits(s, T))
    BY <1>1, HitsType
  <1>6. IsFiniteSet(C)
    BY <1>5, FS_Subset
  <1> HIDE DEF A, B, C, f
  <1>7. Cardinality(C) = Cardinality(B)
    BY <1>4, <1>5, FS_Bijection DEF ExistsBijection
  <1>8. Cardinality(A \cup C) = Cardinality(A) + Cardinality(C) - Cardinality(A \cap C)
    BY <1>5, <1>6, FS_Union
  <1>9. Cardinality(A \cap C) = 0
    BY <1>3, FS_EmptySet
  <1>10. Cardinality(A) \in Nat /\ Cardinality(C) \in Nat
    BY <1>5, <1>6, FS_CardinalityType
  <1> QED
    BY <1>3, <1>7, <1>8, <1>9, <1>10 DEF HitCount, A, B, s

\* A sequence of one.
LEMMA HitsSingle ==
    ASSUME NEW S, NEW m \in S, NEW T
    PROVE  HitCount(<<m>>, T) = IF m \in T THEN 1 ELSE 0
  <1> DEFINE q == <<m>>
  <1>1. DOMAIN q = {1} /\ q[1] = m
    OBVIOUS
  <1> HIDE DEF q
  <1>2. Hits(q, T) = IF m \in T THEN {1} ELSE {}
    BY <1>1 DEF Hits
  <1>3. HitCount(q, T) = IF m \in T THEN 1 ELSE 0
    BY <1>2, FS_Singleton, FS_EmptySet DEF HitCount
  <1> QED
    BY <1>3 DEF q

\* What is taken off the front no longer hits.
LEMMA HitsTail ==
    ASSUME NEW S, NEW q \in Seq(S), q # <<>>, NEW T
    PROVE  /\ Head(q) \in S /\ Tail(q) \in Seq(S)
           /\ HitCount(q, T) = HitCount(Tail(q), T)
                                 + (IF Head(q) \in T THEN 1 ELSE 0)
  <1>1. /\ Head(q) \in S /\ Tail(q) \in Seq(S) /\ <<Head(q)>> \in Seq(S)
        /\ q = <<Head(q)>> \o Tail(q)
    OBVIOUS
  <1>2. HitCount(<<Head(q)>> \o Tail(q), T)
          = HitCount(<<Head(q)>>, T) + HitCount(Tail(q), T)
    BY <1>1, HitsConcat
  <1>3. HitCount(<<Head(q)>>, T) = IF Head(q) \in T THEN 1 ELSE 0
    BY <1>1, HitsSingle
  <1>4. HitCount(Tail(q), T) \in Nat
    BY <1>1, HitsType
  <1> DEFINE a == HitCount(<<Head(q)>>, T)
             b == HitCount(Tail(q), T)
  <1>5. HitCount(q, T) = a + b
    BY <1>1, <1>2
  <1> HIDE DEF a, b
  <1> QED
    BY <1>1, <1>3, <1>4, <1>5 DEF a, b

\* A sequence with exactly one place that hits.
LEMMA HitsOnce ==
    ASSUME NEW S, NEW q \in Seq(S), NEW T, NEW k \in DOMAIN q, q[k] \in T,
           \A i \in DOMAIN q : q[i] \in T => i = k
    PROVE  HitCount(q, T) = 1
  <1>1. Hits(q, T) = {k}
    BY DEF Hits
  <1> QED
    BY <1>1, FS_Singleton DEF HitCount

\* Every element of a sequence that goes on or is cut is one of its parts'.
LEMMA HitsParts ==
    ASSUME NEW S, NEW q \in Seq(S), NEW r \in Seq(S)
    PROVE  /\ q \o r \in Seq(S)
           /\ \A i \in DOMAIN (q \o r) : \/ \E j \in DOMAIN q : (q \o r)[i] = q[j]
                                         \/ \E j \in DOMAIN r : (q \o r)[i] = r[j]
           /\ q # <<>> => \A i \in DOMAIN Tail(q) :
                             \E j \in DOMAIN q : Tail(q)[i] = q[j]
  <1>1. /\ q \o r \in Seq(S) /\ DOMAIN (q \o r) = 1..(Len(q) + Len(r))
        /\ Len(q) \in Nat /\ Len(r) \in Nat /\ DOMAIN q = 1..Len(q)
        /\ DOMAIN r = 1..Len(r)
    OBVIOUS
  <1>2. ASSUME NEW i \in DOMAIN (q \o r)
        PROVE  \/ \E j \in DOMAIN q : (q \o r)[i] = q[j]
               \/ \E j \in DOMAIN r : (q \o r)[i] = r[j]
    <2>1. CASE i <= Len(q)
      <3>1. i \in DOMAIN q /\ (q \o r)[i] = q[i]
        BY <1>1, <2>1
      <3> QED
        BY <3>1
    <2>2. CASE ~(i <= Len(q))
      <3>1. i - Len(q) \in DOMAIN r /\ (q \o r)[i] = r[i - Len(q)]
        BY <1>1, <2>2
      <3> QED
        BY <3>1
    <2> QED
      BY <2>1, <2>2
  <1>3. ASSUME q # <<>>, NEW i \in DOMAIN Tail(q)
        PROVE  \E j \in DOMAIN q : Tail(q)[i] = q[j]
    <2>1. i \in Nat /\ i + 1 \in DOMAIN q /\ Tail(q)[i] = q[i + 1]
      BY <1>1, <1>3
    <2> QED
      BY <2>1
  <1> QED
    BY <1>1, <1>2, <1>3

\* Appending is putting a sequence of one behind.
LEMMA HitsAppend ==
    ASSUME NEW S, NEW q \in Seq(S), NEW m \in S
    PROVE  /\ Append(q, m) \in Seq(S) /\ Append(q, m) = q \o <<m>>
           /\ \A T : HitCount(Append(q, m), T)
                       = HitCount(q, T) + (IF m \in T THEN 1 ELSE 0)
           /\ \A i \in DOMAIN Append(q, m) : \/ \E j \in DOMAIN q : Append(q, m)[i] = q[j]
                                            \/ Append(q, m)[i] = m
  <1>1. Append(q, m) \in Seq(S) /\ <<m>> \in Seq(S)
    OBVIOUS
  <1>2. Append(q, m) = q \o <<m>>
    <2> DEFINE a == Append(q, m)
               b == q \o <<m>>
    <2>1. a \in Seq(S) /\ b \in Seq(S) /\ Len(a) = Len(b)
      OBVIOUS
    <2>2. \A i \in 1..Len(a) : a[i] = b[i]
      OBVIOUS
    <2> HIDE DEF a, b
    <2>3. a = b
      BY <2>1, <2>2
    <2> QED
      BY <2>3 DEF a, b
  <1>3. ASSUME NEW T
        PROVE  HitCount(Append(q, m), T)
                 = HitCount(q, T) + (IF m \in T THEN 1 ELSE 0)
    <2>1. HitCount(q \o <<m>>, T) = HitCount(q, T) + HitCount(<<m>>, T)
      BY <1>1, HitsConcat
    <2>2. HitCount(<<m>>, T) = IF m \in T THEN 1 ELSE 0
      BY HitsSingle
    <2> QED
      BY <1>2, <2>1, <2>2
  <1>4. \A i \in DOMAIN Append(q, m) : \/ \E j \in DOMAIN q : Append(q, m)[i] = q[j]
                                      \/ Append(q, m)[i] = m
    <2>1. DOMAIN q = 1..Len(q) /\ Len(q) \in Nat
      OBVIOUS
    <2>2. \A i \in DOMAIN Append(q, m) : i \in 1..Len(q) \/ i = Len(q) + 1
      BY <2>1
    <2>3. /\ \A i \in 1..Len(q) : Append(q, m)[i] = q[i]
          /\ Append(q, m)[Len(q) + 1] = m
      BY <2>1
    <2> QED
      BY <2>1, <2>2, <2>3
  <1> QED
    BY <1>1, <1>2, <1>3, <1>4

=======================================================================================

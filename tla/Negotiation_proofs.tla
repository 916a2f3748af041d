---------------------------- MODULE Negotiation_proofs ----------------------------
(***************************************************************************)
(* The negotiation of the orders of actions, for every number of players   *)
(* and every configuration: who is asked, that the selections add up, and  *)
(* that the leftover orders are dealt out in full.                         *)
(***************************************************************************)
EXTENDS Logic_proofs

-----------------------------------------------------------------------------
(* Dealing out the leftover orders. *)

Orders(l) == 1..OrderCount(l.rpsForActionWinners)

Held(l, p) ==
    {o \in DOMAIN l.confirmedActionOrders : l.confirmedActionOrders[o] = p}

\* The selections a player has by the throw.
Won(l, p) == IF p \in l.rpsForActionWinners.winners
             THEN l.rpsForActionWinners.times ELSE 0

\* What HandedOut counts on: orders within their number, held by winners, none of
\* whom holds more than the throw has given.
Dealable(l) ==
    /\ l.rpsForActionWinners.winners \subseteq Name
    /\ l.rpsForActionWinners.times \in Nat
    /\ OrderCount(l.rpsForActionWinners) <= MaxOrders
    /\ IsHash(l.confirmedActionOrders, Order, Name)
    /\ DOMAIN l.confirmedActionOrders \subseteq Orders(l)
    /\ \A o \in DOMAIN l.confirmedActionOrders :
          l.confirmedActionOrders[o] \in l.rpsForActionWinners.winners
    /\ \A p \in l.rpsForActionWinners.winners :
          Cardinality(Held(l, p)) <= l.rpsForActionWinners.times

\* The shares of the players up to p, one pair for each order to be dealt.
SharesUpTo(l, p) ==
    {qk \in Name \X Order :
        qk[1] <= p /\ qk[2] <= RemainingActionCount(l, qk[1])}

\* The orders of one player are a finite set of numbers.
LEMMA HeldType ==
    ASSUME NEW l, IsHash(l.confirmedActionOrders, Order, Name), NEW p
    PROVE  /\ Held(l, p) \in SUBSET Int /\ IsFiniteSet(Held(l, p))
           /\ Cardinality(Held(l, p)) \in Nat
           /\ IsFiniteSet(DOMAIN l.confirmedActionOrders)
           /\ DOMAIN l.confirmedActionOrders \in SUBSET Int
  <1>1. Held(l, p) \in SUBSET Order /\ DOMAIN l.confirmedActionOrders \in SUBSET Order
    BY DEF Held, IsHash
  <1>2. IsFiniteSet(Held(l, p)) /\ IsFiniteSet(DOMAIN l.confirmedActionOrders)
    BY <1>1, Finiteness, FS_Subset
  <1> QED
    BY <1>1, <1>2, FS_CardinalityType DEF Order

\* How many orders there are: the winners times their selections.
LEMMA OrdersType ==
    ASSUME NEW l, Dealable(l)
    PROVE  /\ IsFiniteSet(l.rpsForActionWinners.winners)
           /\ Cardinality(l.rpsForActionWinners.winners) \in Nat
           /\ OrderCount(l.rpsForActionWinners) \in Nat
           /\ OrderCount(l.rpsForActionWinners)
                = Cardinality(l.rpsForActionWinners.winners)
                    * l.rpsForActionWinners.times
           /\ l.rpsForActionWinners.winners # {} =>
                 l.rpsForActionWinners.times <= OrderCount(l.rpsForActionWinners)
           /\ Orders(l) \subseteq Order
           /\ IsFiniteSet(Orders(l))
           /\ Cardinality(Orders(l)) = OrderCount(l.rpsForActionWinners)
  <1> DEFINE w == l.rpsForActionWinners
             k == Cardinality(w.winners)
             t == w.times
  <1>1. IsFiniteSet(w.winners) /\ k \in Nat /\ t \in Nat /\ MaxOrders \in Nat
    BY Finiteness, FS_Subset, FS_CardinalityType DEF Dealable
  <1>2. w.winners # {} => k # 0
    BY <1>1, FS_EmptySet
  <1>3. OrderCount(w) = k * t
    BY DEF OrderCount
  <1> HIDE DEF k, t
  <1>4. k * t \in Nat
    BY <1>1
  <1>5. k # 0 => t <= k * t
    BY <1>1
  <1>6. 1 \in Int /\ k * t \in Int
    BY <1>4
  <1>7. IsFiniteSet(1..(k * t)) /\ Cardinality(1..(k * t)) = k * t
    BY <1>4, <1>6, FS_Interval
  <1>8. Orders(l) = 1..(k * t)
    BY <1>3 DEF Orders
  <1>9. Orders(l) \subseteq Order
    BY <1>1, <1>3, <1>4, <1>8 DEF Order, Dealable
  <1> QED
    BY <1>1, <1>2, <1>3, <1>4, <1>5, <1>7, <1>8, <1>9 DEF k, t

\* Nobody is to get a negative number of orders, or more than there are.
LEMMA RemainingRange ==
    ASSUME NEW l, Dealable(l), NEW p \in Name
    PROVE  /\ RemainingActionCount(l, p) \in 0..MaxOrders
           /\ RemainingActionCount(l, p) = Won(l, p) - Cardinality(Held(l, p))
           /\ Won(l, p) \in Nat /\ Cardinality(Held(l, p)) \in Nat
           /\ Won(l, p) \in 0..OrderCount(l.rpsForActionWinners)
  <1>1. /\ Cardinality(Held(l, p)) \in Nat
        /\ RemainingActionCount(l, p) = Won(l, p) - Cardinality(Held(l, p))
    BY HeldType DEF Dealable, RemainingActionCount, Held, Won
  <1>2. CASE p \in l.rpsForActionWinners.winners
    <2>1. Won(l, p) = l.rpsForActionWinners.times
      BY <1>2 DEF Won
    <2> QED
      BY <1>1, <1>2, <2>1, OrdersType, Finiteness DEF Dealable
  <1>3. CASE p \notin l.rpsForActionWinners.winners
    <2>1. Won(l, p) = 0 /\ Held(l, p) = {}
      BY <1>3 DEF Won, Held, Dealable
    <2> QED
      BY <1>1, <2>1, FS_EmptySet, OrdersType, Finiteness
  <1> QED
    BY <1>2, <1>3

\* The shares up to a player are those up to the one before, and the player's.
LEMMA SharesGrow ==
    ASSUME NEW l, Dealable(l)
    PROVE  /\ \A p \in Int : /\ IsFiniteSet(SharesUpTo(l, p))
                             /\ Cardinality(SharesUpTo(l, p)) \in Nat
           /\ Cardinality(SharesUpTo(l, 0)) = 0
           /\ \A p \in Name :
                 Cardinality(SharesUpTo(l, p)) =
                    Cardinality(SharesUpTo(l, p - 1)) + RemainingActionCount(l, p)
           /\ \A p, q \in Int : p <= q =>
                 Cardinality(SharesUpTo(l, p)) <= Cardinality(SharesUpTo(l, q))
  <1>1. IsFiniteSet(Name \X Order)
    BY Finiteness, FS_Product
  <1>2. \A p \in Int : /\ IsFiniteSet(SharesUpTo(l, p))
                       /\ Cardinality(SharesUpTo(l, p)) \in Nat
    <2> SUFFICES ASSUME NEW p \in Int
                 PROVE  /\ IsFiniteSet(SharesUpTo(l, p))
                        /\ Cardinality(SharesUpTo(l, p)) \in Nat
      OBVIOUS
    <2>1. SharesUpTo(l, p) \in SUBSET (Name \X Order)
      BY DEF SharesUpTo
    <2> QED
      BY <1>1, <2>1, FS_Subset, FS_CardinalityType
  <1>3. SharesUpTo(l, 0) = {}
    BY DEF SharesUpTo, Name
  <1>4. ASSUME NEW p \in Name
        PROVE  Cardinality(SharesUpTo(l, p)) =
                  Cardinality(SharesUpTo(l, p - 1)) + RemainingActionCount(l, p)
    <2> DEFINE r == RemainingActionCount(l, p)
               own == {p} \X (1..r)
    <2>1. r \in 0..MaxOrders /\ MaxOrders \in Nat
      BY RemainingRange, Finiteness
    <2> HIDE DEF r
    <2>2. /\ IsFiniteSet(own) /\ Cardinality(own) = r
      <3>1. IsFiniteSet(1..r) /\ Cardinality(1..r) = r
        BY <2>1, FS_Interval
      <3>2. IsFiniteSet({p}) /\ Cardinality({p}) = 1
        BY FS_Singleton
      <3>3. IsFiniteSet(own) /\ Cardinality(own) = 1 * r
        BY <3>1, <3>2, FS_Product
      <3> QED
        BY <2>1, <3>3
    <2>3. SharesUpTo(l, p) = SharesUpTo(l, p - 1) \cup own
      <3>1. p \in Int /\ \A q \in Name : q <= p <=> (q <= p - 1 \/ q = p)
        BY DEF Name
      <3>2. \A k \in Order : k <= r <=> k \in 1..r
        BY <2>1 DEF Order
      <3>3. 1..r \subseteq Order
        BY <2>1 DEF Order
      <3>4. ASSUME NEW q \in Name, NEW k \in Order
            PROVE  <<q, k>> \in SharesUpTo(l, p)
                     <=> <<q, k>> \in SharesUpTo(l, p - 1) \cup own
        BY <3>1, <3>2 DEF SharesUpTo, r
      <3>5. /\ SharesUpTo(l, p) \subseteq Name \X Order
            /\ SharesUpTo(l, p - 1) \subseteq Name \X Order
            /\ own \subseteq Name \X Order
        BY <3>3 DEF SharesUpTo
      <3> HIDE DEF own
      <3> QED
        BY <3>4, <3>5
    <2>4. SharesUpTo(l, p - 1) \cap own = {}
      BY DEF SharesUpTo, Name
    <2>5. p - 1 \in Int
      BY DEF Name
    <2> HIDE DEF own
    <2>6. Cardinality(SharesUpTo(l, p)) =
             Cardinality(SharesUpTo(l, p - 1)) + Cardinality(own) - Cardinality({})
      BY <1>2, <2>2, <2>3, <2>4, <2>5, FS_Union
    <2> QED
      BY <1>2, <2>1, <2>2, <2>5, <2>6, FS_EmptySet DEF r
  <1>5. ASSUME NEW p \in Int, NEW q \in Int, p <= q
        PROVE  Cardinality(SharesUpTo(l, p)) <= Cardinality(SharesUpTo(l, q))
    <2>1. \A x \in Name : x <= p => x <= q
      BY <1>5 DEF Name
    <2>2. SharesUpTo(l, p) \in SUBSET SharesUpTo(l, q)
      BY <2>1 DEF SharesUpTo
    <2> QED
      BY <1>2, <2>2, FS_Subset
  <1> QED
    BY <1>2, <1>3, <1>4, <1>5, FS_EmptySet

\* The orders that are held, counted by holder and rank among the holder's.
LEMMA HeldCounted ==
    ASSUME NEW l, Dealable(l)
    PROVE  LET A == l.rpsForActionWinners.winners \X (1..l.rpsForActionWinners.times)
               B == {qk \in A : qk[2] <= Cardinality(Held(l, qk[1]))}
           IN  /\ IsFiniteSet(B)
               /\ Cardinality(B) = Cardinality(DOMAIN l.confirmedActionOrders)
  <1> DEFINE W == l.rpsForActionWinners.winners
             T == l.rpsForActionWinners.times
             C == l.confirmedActionOrders
             D == DOMAIN C
             A == W \X (1..T)
             B == {qk \in A : qk[2] <= Cardinality(Held(l, qk[1]))}
             g == [o \in D |-> <<C[o], RankIn(Held(l, C[o]), o)>>]
  <1>1. /\ T \in Nat /\ \A o \in D : C[o] \in W
        /\ \A q \in W : Cardinality(Held(l, q)) \in Nat /\ Cardinality(Held(l, q)) <= T
        /\ \A q : Held(l, q) \in SUBSET Int /\ IsFiniteSet(Held(l, q))
        /\ IsFiniteSet(D)
    BY HeldType DEF Dealable
  <1>2. \A o \in D : o \in Held(l, C[o])
    BY DEF Held
  <1>3. \A o \in D : RankIn(Held(l, C[o]), o) \in 1..Cardinality(Held(l, C[o]))
    BY <1>1, <1>2, RankBijection
  <1>4. g \in [D -> B]
    <2> SUFFICES ASSUME NEW o \in D
                 PROVE  <<C[o], RankIn(Held(l, C[o]), o)>> \in B
      OBVIOUS
    <2> DEFINE c == Cardinality(Held(l, C[o]))
               r == RankIn(Held(l, C[o]), o)
    <2>1. c \in Nat /\ c <= T /\ T \in Nat /\ r \in 1..c /\ C[o] \in W
      BY <1>1, <1>3
    <2> HIDE DEF c, r
    <2>2. r \in 1..T /\ r <= c
      BY <2>1
    <2> QED
      BY <2>1, <2>2 DEF c, r
  <1>5. \A o, q \in D : g[o] = g[q] => o = q
    <2> SUFFICES ASSUME NEW o \in D, NEW q \in D, C[o] = C[q],
                        RankIn(Held(l, C[o]), o) = RankIn(Held(l, C[o]), q), o # q
                 PROVE  FALSE
      OBVIOUS
    <2> DEFINE H == Held(l, C[o])
    <2>1. o \in H /\ q \in H /\ H \in SUBSET Int /\ IsFiniteSet(H)
          /\ Cardinality(H) \in Nat
      BY <1>1, <1>2, FS_CardinalityType
    <2> HIDE DEF H
    <2>2. o < q \/ q < o
      BY <2>1
    <2>3. RankIn(H, o) \in Int /\ RankIn(H, q) \in Int
      BY <2>1, RankBijection
    <2>4. RankIn(H, o) < RankIn(H, q) \/ RankIn(H, q) < RankIn(H, o)
      BY <2>1, <2>2, RankBijection
    <2> QED
      BY <2>3, <2>4 DEF H
  <1>6. \A b \in B : \E o \in D : g[o] = b
    <2> SUFFICES ASSUME NEW b \in B PROVE \E o \in D : g[o] = b
      OBVIOUS
    <2> DEFINE q == b[1]
               k == b[2]
    <2>0. /\ q \in W /\ k \in 1..T /\ k <= Cardinality(Held(l, q))
          /\ b = <<q, k>>
      OBVIOUS
    <2>1. k \in 1..Cardinality(Held(l, q))
      BY <1>1, <2>0
    <2> HIDE DEF q, k
    <2>2. PICK o \in Held(l, q) : RankIn(Held(l, q), o) = k
      BY <1>1, <2>1, RankBijection
    <2>3. o \in D /\ C[o] = q
      BY DEF Held
    <2> QED
      BY <2>0, <2>2, <2>3
  <1>7. g \in Bijection(D, B)
    <2> HIDE DEF g, B, D
    <2> QED
      BY <1>4, <1>5, <1>6 DEF Bijection, Injection, IsInjective, Surjection
  <1> HIDE DEF g, B, D
  <1>8. IsFiniteSet(B) /\ Cardinality(B) = Cardinality(D)
    BY <1>1, <1>7, FS_Bijection DEF ExistsBijection
  <1> QED
    BY <1>8 DEF B, D

\* There are as many shares as orders left.
LEMMA SharesTotal ==
    ASSUME NEW l, Dealable(l)
    PROVE  Cardinality(SharesUpTo(l, MaxPlayers)) = Cardinality(RemainingActionOrders(l))
  <1> DEFINE W == l.rpsForActionWinners.winners
             T == l.rpsForActionWinners.times
             N == OrderCount(l.rpsForActionWinners)
             D == DOMAIN l.confirmedActionOrders
             A == W \X (1..T)
             B == {qk \in A : qk[2] <= Cardinality(Held(l, qk[1]))}
             S == SharesUpTo(l, MaxPlayers)
             h == [qk \in A \ B |-> <<qk[1], qk[2] - Cardinality(Held(l, qk[1]))>>]
  <1>1. /\ T \in Nat /\ W \subseteq Name /\ D \subseteq Orders(l)
        /\ \A q \in W : Cardinality(Held(l, q)) \in Nat /\ Cardinality(Held(l, q)) <= T
    BY HeldType DEF Dealable
  <1>2. IsFiniteSet(A) /\ Cardinality(A) = N
    <2>1. 1 \in Int /\ T \in Nat
      BY <1>1
    <2>2. /\ IsFiniteSet(W) /\ Cardinality(W) \in Nat
          /\ N = Cardinality(W) * T
      BY OrdersType
    <2> HIDE DEF T, N, W
    <2>3. IsFiniteSet(1..T) /\ Cardinality(1..T) = T
      BY <2>1, FS_Interval
    <2> QED
      BY <2>2, <2>3, FS_Product
  <1>3. Cardinality(RemainingActionOrders(l)) = N - Cardinality(D)
    <2>1. RemainingActionOrders(l) = Orders(l) \ D /\ Orders(l) \cap D = D
      BY <1>1 DEF RemainingActionOrders, Orders
    <2>2. IsFiniteSet(Orders(l)) /\ Cardinality(Orders(l)) = N
      BY OrdersType
    <2> HIDE DEF D, N
    <2> QED
      BY <2>1, <2>2, FS_Difference
  <1>4. IsFiniteSet(A \ B) /\ Cardinality(A \ B) = N - Cardinality(D)
    <2>1. Cardinality(B) = Cardinality(D)
      BY HeldCounted
    <2>2. A \cap B = B
      OBVIOUS
    <2> HIDE DEF A, B, D, N
    <2>3. /\ IsFiniteSet(A \ B)
          /\ Cardinality(A \ B) = Cardinality(A) - Cardinality(A \cap B)
      BY <1>2, FS_Difference
    <2> QED
      BY <1>2, <2>1, <2>2, <2>3
  <1>5. \A q \in W : RemainingActionCount(l, q) = T - Cardinality(Held(l, q))
    BY <1>1, RemainingRange DEF Won
  <1>6. \A q \in Name \ W : RemainingActionCount(l, q) <= 0
    <2> SUFFICES ASSUME NEW q \in Name \ W PROVE RemainingActionCount(l, q) <= 0
      OBVIOUS
    <2> QED
      BY RemainingRange DEF Won
  <1>7. h \in [A \ B -> S]
    <2> SUFFICES ASSUME NEW q \in W, NEW k \in 1..T, ~(k <= Cardinality(Held(l, q)))
                 PROVE  <<q, k - Cardinality(Held(l, q))>> \in S
      OBVIOUS
    <2> DEFINE c == Cardinality(Held(l, q))
    <2>1. c \in Nat /\ c <= T /\ q \in Name /\ q <= MaxPlayers /\ T <= MaxOrders
          /\ MaxOrders \in Nat /\ RemainingActionCount(l, q) = T - c
      BY <1>1, <1>5, OrdersType, RulesAssumption, Finiteness DEF Name, Dealable
    <2> HIDE DEF c
    <2>2. k - c \in 1..MaxOrders /\ k - c <= T - c
      BY <1>1, <2>1 DEF c
    <2> QED
      BY <2>1, <2>2 DEF SharesUpTo, Order, c
  <1>8. \A a, b \in A \ B : h[a] = h[b] => a = b
    <2> SUFFICES ASSUME NEW q \in W, NEW k \in 1..T, NEW j \in 1..T,
                        k - Cardinality(Held(l, q)) = j - Cardinality(Held(l, q))
                 PROVE  k = j
      OBVIOUS
    <2>1. Cardinality(Held(l, q)) \in Nat /\ T \in Nat
      BY <1>1
    <2> QED
      BY <2>1
  <1>9. \A s \in S : \E a \in A \ B : h[a] = s
    <2> SUFFICES ASSUME NEW s \in S PROVE \E a \in A \ B : h[a] = s
      OBVIOUS
    <2> DEFINE q == s[1]
               k == s[2]
    <2>0. /\ q \in Name /\ k \in Order /\ k <= RemainingActionCount(l, q)
          /\ s = <<q, k>>
      BY DEF SharesUpTo
    <2> HIDE DEF q, k
    <2>1. k \in Nat /\ k > 0
      BY <2>0, Finiteness DEF Order
    <2>2. q \in W
      <3>1. RemainingActionCount(l, q) \in Int
        BY <2>0, RemainingRange, Finiteness
      <3> QED
        BY <1>6, <2>0, <2>1, <3>1
    <2> DEFINE c == Cardinality(Held(l, q))
    <2>3. c \in Nat /\ c <= T /\ T \in Nat /\ k <= T - c
      BY <1>1, <1>5, <2>0, <2>2
    <2> HIDE DEF c
    <2>4. k + c \in 1..T /\ ~(k + c <= c) /\ (k + c) - c = k
      BY <2>1, <2>3
    <2>5. <<q, k + c>> \in A \ B
      BY <2>2, <2>4 DEF c
    <2> QED
      BY <2>0, <2>4, <2>5 DEF c
  <1>10. h \in Bijection(A \ B, S)
    <2> HIDE DEF h, A, B, S
    <2> QED
      BY <1>7, <1>8, <1>9 DEF Bijection, Injection, IsInjective, Surjection
  <1> HIDE DEF h, A, B, S
  <1>11. Cardinality(S) = Cardinality(A \ B)
    BY <1>4, <1>10, FS_Bijection DEF ExistsBijection
  <1> QED
    BY <1>3, <1>4, <1>11 DEF S

\* The player in whose share an order falls: there is exactly one.
Takers(l, o) ==
    {p \in Name :
        /\ Cardinality(SharesUpTo(l, p - 1)) < RankIn(RemainingActionOrders(l), o)
        /\ RankIn(RemainingActionOrders(l), o) <= Cardinality(SharesUpTo(l, p))}

LEMMA OneTaker ==
    ASSUME NEW l, Dealable(l), NEW o \in RemainingActionOrders(l)
    PROVE  \E p \in Name : Takers(l, o) = {p}
  <1> DEFINE left == RemainingActionOrders(l)
             r == RankIn(left, o)
             s(p) == Cardinality(SharesUpTo(l, p))
             S == {p \in Name : r <= s(p)}
  <1>1. /\ left \in SUBSET Int /\ IsFiniteSet(left)
        /\ r \in 1..Cardinality(left) /\ Cardinality(left) \in Nat
    <2>1. left \in SUBSET Int /\ left \in SUBSET Orders(l)
      BY OrdersType DEF RemainingActionOrders, Orders
    <2>2. IsFiniteSet(left) /\ Cardinality(left) \in Nat
      BY <2>1, OrdersType, FS_Subset, FS_CardinalityType
    <2> QED
      BY <2>1, <2>2, RankBijection
  <1>2. \A p \in Int : s(p) \in Nat
    BY SharesGrow
  <1>3. s(0) = 0 /\ s(MaxPlayers) = Cardinality(left)
    BY SharesGrow, SharesTotal
  <1>4. \A p, q \in Int : p <= q => s(p) <= s(q)
    BY SharesGrow
  <1> HIDE DEF r, s
  <1>5. S \in SUBSET Nat /\ S # {}
    <2>1. MaxPlayers \in Nat /\ r <= s(MaxPlayers) /\ s(0) < r
      BY <1>1, <1>3, RulesAssumption
    <2>2. MaxPlayers # 0
      BY <1>1, <1>3, <2>1
    <2> QED
      BY <2>1, <2>2 DEF Name
  <1>6. PICK p \in S : \A x \in S : p <= x
    BY <1>5, LeastNat
  <1>7. p \in Name /\ p \in Int /\ p - 1 \in Int
    BY DEF Name
  <1>8. s(p - 1) < r /\ r <= s(p)
    <2>1. CASE p = 1
      <3>1. p - 1 = 0
        BY <2>1
      <3>2. s(p - 1) = 0
        BY <1>3, <3>1
      <3>3. 0 < r
        BY <1>1
      <3>4. r <= s(p)
        BY <1>6
      <3> QED
        BY <3>2, <3>3, <3>4
    <2>2. CASE p # 1
      <3>1. p - 1 \in Name /\ ~(p <= p - 1)
        BY <1>7, <2>2, RulesAssumption DEF Name
      <3>2. ~(r <= s(p - 1))
        BY <1>6, <3>1
      <3> QED
        BY <1>1, <1>2, <1>7, <3>2
    <2> QED
      BY <2>1, <2>2
  <1>9. ASSUME NEW q \in Name, s(q - 1) < r, r <= s(q) PROVE q = p
    <2>1. q \in Int /\ q - 1 \in Int
      BY DEF Name
    <2>2. q \in S
      BY <1>9
    <2>3. p <= q
      BY <1>6, <2>2
    <2>4. CASE p < q
      <3>1. p <= q - 1
        BY <1>7, <2>1, <2>4
      <3>2. s(p) <= s(q - 1)
        BY <1>4, <1>7, <2>1, <3>1
      <3> QED
        BY <1>1, <1>2, <1>7, <1>8, <1>9, <2>1, <3>2
    <2> QED
      BY <1>7, <2>1, <2>3, <2>4
  <1> QED
    BY <1>7, <1>8, <1>9 DEF Takers, r, s

\* Dealing out the leftover orders gives every order a holder, and every player
\* as many orders as the throw gave it.
LEMMA HandedOutSettles ==
    ASSUME NEW l, Dealable(l)
    PROVE  /\ DOMAIN HandedOut(l) = Orders(l)
           /\ \A p \in Name :
                 Cardinality({o \in DOMAIN HandedOut(l) : HandedOut(l)[o] = p})
                    = Won(l, p)
  <1> DEFINE left == RemainingActionOrders(l)
             C == l.confirmedActionOrders
             D == DOMAIN C
             handed == {o \in left \cap Order : Takers(l, o) # {}}
             m == [o \in D \cup handed |->
                      IF o \in D THEN C[o] ELSE CHOOSE p \in Name : p \in Takers(l, o)]
  <1>1. HandedOut(l) = m
    BY DEF HandedOut, Takers, RankIn, SharesUpTo
  <1>2. left = Orders(l) \ D /\ left \subseteq Order /\ D \subseteq Orders(l)
    BY OrdersType DEF RemainingActionOrders, Orders, Dealable
  <1>3. \A o \in left : \E p \in Name : Takers(l, o) = {p}
    BY OneTaker
  <1> HIDE DEF left, D
  <1>4. handed = left
    BY <1>2, <1>3
  <1>5. DOMAIN m = Orders(l)
    BY <1>2, <1>4
  <1>6. \A o \in D : m[o] = C[o]
    OBVIOUS
  <1>7. \A o \in left : \A p \in Name : m[o] = p <=> p \in Takers(l, o)
    <2> SUFFICES ASSUME NEW o \in left, NEW p \in Name
                 PROVE  m[o] = p <=> p \in Takers(l, o)
      OBVIOUS
    <2>1. PICK q \in Name : Takers(l, o) = {q}
      BY <1>3
    <2>2. m[o] = CHOOSE x \in Name : x \in Takers(l, o)
      BY <1>2, <1>4
    <2>3. (CHOOSE x \in Name : x \in Takers(l, o)) = q
      BY <2>1
    <2> QED
      BY <2>1, <2>2, <2>3
  <1> HIDE DEF m, handed
  <1>8. ASSUME NEW p \in Name
        PROVE  Cardinality({o \in DOMAIN m : m[o] = p}) = Won(l, p)
    <2> DEFINE T == {o \in left : p \in Takers(l, o)}
               a == Cardinality(SharesUpTo(l, p - 1))
               b == Cardinality(SharesUpTo(l, p))
               r == RemainingActionCount(l, p)
    <2>0. p \in Int /\ p - 1 \in Int /\ p - 1 <= p /\ p <= MaxPlayers
          /\ MaxPlayers \in Int
      BY RulesAssumption DEF Name
    <2>1. a \in Nat /\ b \in Nat /\ a <= b /\ b = a + r
      BY <2>0, SharesGrow
    <2>2. b <= Cardinality(left)
      BY <2>0, SharesGrow, SharesTotal DEF left
    <2>3. left \in SUBSET Int /\ IsFiniteSet(left)
      <3>1. Orders(l) \in SUBSET Int /\ IsFiniteSet(Orders(l))
        BY OrdersType DEF Orders
      <3> QED
        BY <1>2, <3>1, FS_Subset
    <2>4. T = {o \in left : a < RankIn(left, o) /\ RankIn(left, o) <= b}
      BY DEF Takers, left
    <2> HIDE DEF a, b
    <2>5. Cardinality(T) = b - a /\ IsFiniteSet(T)
      BY <2>1, <2>2, <2>3, <2>4, RankInterval, FS_Subset
    <2>6. {o \in DOMAIN m : m[o] = p} = Held(l, p) \cup T
      BY <1>2, <1>5, <1>6, <1>7 DEF Held, D
    <2>7. Held(l, p) \cap T = {}
      BY <1>2 DEF Held, D
    <2>8. IsFiniteSet(Held(l, p)) /\ Cardinality(Held(l, p)) \in Nat
      BY HeldType DEF Dealable
    <2>9. r = Won(l, p) - Cardinality(Held(l, p)) /\ Won(l, p) \in Nat
      BY RemainingRange
    <2> HIDE DEF T, r
    <2>10. Cardinality(Held(l, p) \cup T)
              = Cardinality(Held(l, p)) + Cardinality(T) - Cardinality({})
      BY <2>5, <2>7, <2>8, FS_Union
    <2> QED
      BY <2>1, <2>5, <2>6, <2>8, <2>9, <2>10, FS_EmptySet
  <1> QED
    BY <1>1, <1>5, <1>8

-----------------------------------------------------------------------------
(* The inductive invariant of the negotiation, phase by phase. *)

\* The orders a player desires, and the selections it is asked for.
Wanted(l, p) == {o \in Order : <<o, p>> \in l.desiredActionOrders}

Selected(l, p) == IF p \in DOMAIN l.actionOrderRemainingSelections
                  THEN l.actionOrderRemainingSelections[p] ELSE 0

\* The selections that a player has made: confirmed, yielded or desired.
Spent(l, p) == Cardinality(Held(l, p)) + l.actionOrderYields[p]
                 + Cardinality(Wanted(l, p))

\* The throw has parted those alive into winners and losers.
Thrown(l) ==
    /\ l.rpsForActionWinners.winners # {}
    /\ l.rpsForActionWinners.winners \subseteq AlivePlayers(l.room)
    /\ l.rpsForActionWinners.winners # AlivePlayers(l.room)
    /\ l.rpsForActionWinners.times =
          Cardinality(AlivePlayers(l.room) \ l.rpsForActionWinners.winners)

\* Winners, and only winners, hold orders and yield selections.
Granted(l) ==
    /\ Thrown(l)
    /\ DOMAIN l.confirmedActionOrders \subseteq Orders(l)
    /\ \A o \in DOMAIN l.confirmedActionOrders :
          l.confirmedActionOrders[o] \in l.rpsForActionWinners.winners
    /\ \A p \in Name : /\ l.actionOrderYields[p] \in Nat
                       /\ p \notin l.rpsForActionWinners.winners
                             => l.actionOrderYields[p] = 0

\* The orders desired are free and desired by winners, who have not made more
\* selections than they have losers to their name.
Bidding(l) ==
    /\ Granted(l)
    /\ l.desiredActionOrders \subseteq
          (Orders(l) \ DOMAIN l.confirmedActionOrders)
              \X l.rpsForActionWinners.winners
    /\ \A p \in l.rpsForActionWinners.winners :
          Spent(l, p) <= l.rpsForActionWinners.times

\* Every order has a holder, and every winner its number of orders.
Settled(l) ==
    /\ DOMAIN l.confirmedActionOrders = Orders(l)
    /\ \A p \in Name : Cardinality(Held(l, p)) = Won(l, p)

Throwing(l) ==
    /\ DOMAIN l.rpsForActionReplies \subseteq AlivePlayers(l.room)
    /\ l.asked = AlivePlayers(l.room) \ DOMAIN l.rpsForActionReplies

Choosing(l) ==
    /\ Bidding(l)
    /\ l.asked = DOMAIN l.actionOrderRemainingSelections
    /\ DOMAIN l.actionOrderRemainingSelections # {}
    /\ DOMAIN l.actionOrderRemainingSelections
          \subseteq l.rpsForActionWinners.winners
    /\ \A p \in DOMAIN l.actionOrderRemainingSelections :
          /\ l.actionOrderRemainingSelections[p] \in Nat
          /\ Wanted(l, p) = {}
    /\ \A p \in l.rpsForActionWinners.winners :
          Spent(l, p) + Selected(l, p) = l.rpsForActionWinners.times

Contesting(l) ==
    LET order == l.currentStrivingActionOrder
        striving == Desirers(l.desiredActionOrders, order)
    IN  /\ Bidding(l)
        /\ DOMAIN l.actionOrderRemainingSelections = {}
        /\ order \in Order
        /\ Cardinality(striving) >= 2
        /\ DOMAIN l.rpsForActionOrderReplies \subseteq striving
        /\ l.asked = striving \ DOMAIN l.rpsForActionOrderReplies

Acting(l) ==
    /\ Settled(l)
    /\ l.asked # {} =>
          /\ l.currentActionOrder \in DOMAIN l.confirmedActionOrders
          /\ l.confirmedActionOrders[l.currentActionOrder]
                \in AlivePlayers(l.room)
          /\ l.asked = {l.confirmedActionOrders[l.currentActionOrder]}

Earners(l) == {p \in DOMAIN l.room : l.room[p].upgradePoint > 0}

Upgrading(l) ==
    /\ IsRoundOver(l.room)
    /\ DOMAIN l.upgrades \subseteq Earners(l)
    /\ l.asked = Earners(l) \ DOMAIN l.upgrades

\* The inductive invariant: what each phase has in hand when it waits.
InStep(l) ==
    /\ l.state = "BeforeRoundStart" => l.asked = {}
    /\ l.state = "RpsForAction" => Throwing(l)
    /\ l.state = "ActionOrder" => Choosing(l)
    /\ l.state = "RpsForActionOrder" => Contesting(l)
    /\ l.state = "Action" => Acting(l)
    /\ l.state = "Upgrade" => Upgrading(l)

-----------------------------------------------------------------------------
(* Throws. *)

\* When a throw has winners it has losers too, and each winner is listed once
\* for each of them.
LEMMA WinnersAndLosers ==
    ASSUME NEW h, IsHash(h, Name, RockPaperScissors),
           RockPaperScissorsWinners(DOMAIN h, h).winners # {}
    PROVE  LET w == RockPaperScissorsWinners(DOMAIN h, h)
           IN  /\ w.winners \subseteq DOMAIN h /\ w.winners # DOMAIN h
               /\ w.times = Cardinality(DOMAIN h \ w.winners)
  <1> DEFINE kinds == {h[p] : p \in DOMAIN h}
             win == {p \in DOMAIN h : \E k \in kinds : RpsGreater(h[p], k)}
  <1>1. Cardinality(kinds) = 2
        /\ RockPaperScissorsWinners(DOMAIN h, h)
              = [winners |-> win, times |-> Cardinality(DOMAIN h \ win)]
    BY DEF RockPaperScissorsWinners
  <1>2. IsFiniteSet(kinds) /\ kinds \in SUBSET RockPaperScissors
    <2>1. kinds \in SUBSET RockPaperScissors
      BY DEF IsHash
    <2>2. 0 \in Int /\ 2 \in Int
      OBVIOUS
    <2>3. IsFiniteSet(0..2)
      BY <2>2, FS_Interval
    <2>4. RockPaperScissors \in SUBSET (0..2)
      BY DEF RockPaperScissors, Rock, Scissors, Paper
    <2> HIDE DEF kinds
    <2> QED
      BY <2>1, <2>3, <2>4, FS_Subset
  <1>3. PICK a \in kinds, b \in kinds : a # b /\ kinds = {a, b}
    <2> HIDE DEF kinds
    <2> QED
      BY <1>1, <1>2, TwoMembers
  <1>4. \E x, y \in kinds : /\ kinds = {x, y}
                            /\ ~RpsGreater(y, x) /\ ~RpsGreater(y, y)
    <2>1. a \in RockPaperScissors /\ b \in RockPaperScissors /\ {a, b} = {b, a}
      BY <1>2
    <2>2. /\ ~RpsGreater(a, a) /\ ~RpsGreater(b, b)
          /\ ~RpsGreater(b, a) \/ ~RpsGreater(a, b)
      BY <2>1 DEF RpsGreater, RockPaperScissors, Rock, Scissors, Paper
    <2> HIDE DEF kinds
    <2> QED
      BY <1>3, <2>1, <2>2
  <1>5. PICK x \in kinds, y \in kinds : /\ kinds = {x, y}
                                       /\ ~RpsGreater(y, x) /\ ~RpsGreater(y, y)
    BY <1>4
  <1>6. PICK p \in DOMAIN h : h[p] = y
    OBVIOUS
  <1>7. p \notin win
    BY <1>5, <1>6
  <1> QED
    BY <1>1, <1>7

\* No room has more orders than Order: the product of the winners and the losers
\* is at most a quarter of the square of their sum.
LEMMA ThrownOrders ==
    ASSUME NEW l, IsLogicP(l), Thrown(l)
    PROVE  /\ OrderCount(l.rpsForActionWinners) \in 0..MaxOrders
           /\ Orders(l) \subseteq Order
           /\ l.rpsForActionWinners.times \in Nat \ {0}
           /\ l.rpsForActionWinners.winners \subseteq Name
           /\ IsFiniteSet(AlivePlayers(l.room))
           /\ Cardinality(AlivePlayers(l.room)) >= 2
           /\ ~IsRoundOver(l.room)
  <1> DEFINE W == l.rpsForActionWinners.winners
             A == AlivePlayers(l.room)
             w == Cardinality(W)
             t == Cardinality(A \ W)
  <1>1. A \subseteq Name /\ W \subseteq A /\ W # A /\ W # {}
    BY DEF Thrown, IsLogicP, Typed, IsHash, AlivePlayers
  <1> HIDE DEF W, A
  <1>2. /\ IsFiniteSet(A) /\ IsFiniteSet(W) /\ IsFiniteSet(A \ W)
        /\ Cardinality(A) \in Nat /\ w \in Nat /\ t \in Nat
    BY <1>1, Finiteness, FS_Subset, FS_CardinalityType
  <1>3. W \cup (A \ W) = A /\ W \cap (A \ W) = {}
    BY <1>1
  <1>4. Cardinality(W \cup (A \ W)) = w + t - Cardinality({})
    BY <1>2, <1>3, FS_Union
  <1>5. w # 0 /\ t # 0
    BY <1>1, <1>2, FS_EmptySet
  <1>6. Cardinality(Name) = MaxPlayers /\ MaxPlayers \in Nat
    BY RulesAssumption, FS_Interval DEF Name
  <1>7. Cardinality(A) <= MaxPlayers
    BY <1>1, <1>6, Finiteness, FS_Subset
  <1> HIDE DEF w, t
  <1>8. w + t = Cardinality(A)
    <2>1. Cardinality({}) = 0 /\ Cardinality(W \cup (A \ W)) = Cardinality(A)
      BY <1>3, FS_EmptySet
    <2>2. w \in Nat /\ t \in Nat
      BY <1>2 DEF w, t
    <2>3. Cardinality(W \cup (A \ W)) = w + t - Cardinality({})
      BY <1>4 DEF w, t
    <2> QED
      BY <2>1, <2>2, <2>3
  <1>9. w * t \in Nat /\ w * t <= MaxOrders
    <2>0. w \in Nat /\ t \in Nat /\ MaxPlayers \in Nat /\ w + t <= MaxPlayers
      BY <1>2, <1>6, <1>7, <1>8
    <2>1. (w + t) * (w + t) <= MaxPlayers * MaxPlayers
      BY <2>0
    <2>2. 0 <= (w - t) * (w - t)
      BY <2>0
    <2>3. (w + t) * (w + t) = (w - t) * (w - t) + 4 * (w * t)
      BY <2>0
    <2>4. w * t \in Nat /\ MaxPlayers * MaxPlayers \in Nat
          /\ (w - t) * (w - t) \in Int
      BY <2>0
    <2>5. 4 * (w * t) <= MaxPlayers * MaxPlayers
      BY <2>1, <2>2, <2>3, <2>4
    <2> DEFINE x == w * t
               y == MaxPlayers * MaxPlayers
    <2>6. x \in Nat /\ y \in Nat /\ 4 * x <= y
      BY <2>4, <2>5
    <2> HIDE DEF x, y
    <2>7. x <= y \div 4
      BY <2>6
    <2> QED
      BY <2>6, <2>7 DEF x, y, MaxOrders
  <1>10. OrderCount(l.rpsForActionWinners) = w * t
         /\ l.rpsForActionWinners.times = t
    BY DEF OrderCount, Thrown, W, A, w, t
  <1>11. Cardinality(A) >= 2
    BY <1>2, <1>5, <1>8
  <1>12. MaxOrders \in Nat
    BY Finiteness
  <1>13. OrderCount(l.rpsForActionWinners) \in 0..MaxOrders
    BY <1>9, <1>10, <1>12
  <1>14. Orders(l) \subseteq Order
    BY <1>12, <1>13 DEF Orders, Order
  <1>15. ~IsRoundOver(l.room)
    BY <1>2, <1>11 DEF IsRoundOver, A
  <1> QED
    BY <1>1, <1>2, <1>5, <1>10, <1>11, <1>13, <1>14, <1>15 DEF W, A

-----------------------------------------------------------------------------
(* What each private function changes. *)

\* The fields that a call leaves alone.
Alike(l, m, changed) == \A f \in Fields \ changed : m[f] = l[f]

\* A new throw: everybody alive is asked.
LEMMA NewThrow ==
    ASSUME NEW l, IsLogicP(l)
    PROVE  LET m == StartRpsForAction(l)
           IN  /\ Alike(l, m, {"rpsForActionReplies", "rpsForActionWinners",
                               "state", "asked"})
               /\ m.state = "RpsForAction"
               /\ m.rpsForActionReplies = EmptyHash
               /\ m.asked = l.asked \cup AlivePlayers(l.room)
  BY DEF IsLogicP, HasFields, Fields, StartRpsForAction, Alike

\* The upgrades: everybody with points is asked, and if nobody has any the state
\* stays.
LEMMA NewUpgrades ==
    ASSUME NEW l, IsLogicP(l)
    PROVE  LET m == StartUpgrade(l)
           IN  /\ Alike(l, m, {"state", "upgrades", "asked"})
               /\ m.upgrades = EmptyHash
               /\ m.state = IF Earners(l) = {} THEN l.state ELSE "Upgrade"
               /\ m.asked = l.asked \cup Earners(l)
  BY DEF IsLogicP, HasFields, Fields, StartUpgrade, Earners, Alike

\* The next turn: the least order to come, a new throw when there is none, or the
\* upgrades when the round is over.
LEMMA NextTurn ==
    ASSUME NEW l, IsLogicP(l), InRound(l)
    PROVE  LET m == StartAction(l)
           IN  /\ Alike(l, m, {"rpsForActionReplies", "rpsForActionWinners", "state",
                               "asked", "currentActionOrder", "upgrades", "signals"})
               /\ m.signals \subseteq l.signals \cup {"roundOver"}
               /\ IsRoundOver(l.room) =>
                     /\ m.upgrades = EmptyHash
                     /\ m.state = IF Earners(l) = {} THEN l.state ELSE "Upgrade"
                     /\ m.asked = l.asked \cup Earners(l)
                     /\ m.rpsForActionWinners = l.rpsForActionWinners
               /\ ~IsRoundOver(l.room) /\ OrdersToCome(l) = {} =>
                     /\ m.state = "RpsForAction"
                     /\ m.rpsForActionReplies = EmptyHash
                     /\ m.asked = l.asked \cup AlivePlayers(l.room)
               /\ ~IsRoundOver(l.room) /\ OrdersToCome(l) # {} =>
                     /\ m.state = "Action"
                     /\ m.currentActionOrder \in OrdersToCome(l)
                     /\ \A o \in OrdersToCome(l) : m.currentActionOrder <= o
                     /\ m.asked =
                           l.asked \cup {l.confirmedActionOrders[m.currentActionOrder]}
                     /\ m.rpsForActionWinners = l.rpsForActionWinners
  <1> DEFINE m == StartAction(l)
  <1>1. CASE IsRoundOver(l.room)
    <2> DEFINE e == Emitted(l, "roundOver")
    <2>1. IsLogicP(e) /\ Alike(l, e, {"signals"})
      BY EmittedRuns DEF ResultSignals, Alike
    <2>2. e.signals = l.signals \cup {"roundOver"}
      BY DEF IsLogicP, HasFields, Fields, Emitted
    <2>3. m = StartUpgrade(e)
      BY <1>1 DEF StartAction
    <2> HIDE DEF e, m
    <2>4. Earners(e) = Earners(l)
      BY <2>1 DEF Earners, Alike, Fields
    <2>5. /\ Alike(e, m, {"state", "upgrades", "asked"})
          /\ m.upgrades = EmptyHash
          /\ m.state = IF Earners(e) = {} THEN e.state ELSE "Upgrade"
          /\ m.asked = e.asked \cup Earners(e)
      BY <2>1, <2>3, NewUpgrades
    <2> QED
      BY <1>1, <2>1, <2>2, <2>4, <2>5 DEF Alike, Fields, m
  <1>2. CASE ~IsRoundOver(l.room) /\ OrdersToCome(l) = {}
    <2> DEFINE past == OrderCount(l.rpsForActionWinners) + 1
               e == [l EXCEPT !.currentActionOrder = past]
    <2>1. past \in Nat
      BY OrderCountIsNat DEF IsLogicP
    <2>2. m = StartRpsForAction(e)
      BY <1>2 DEF StartAction
    <2> HIDE DEF m, past
    <2>3. HasFields(e) /\ Alike(l, e, {"currentActionOrder"})
          /\ e.currentActionOrder = past
      BY DEF IsLogicP, HasFields, Fields, Alike
    <2> HIDE DEF e
    <2>4. IsLogicP(e)
      BY <2>1, <2>3 DEF IsLogicP, Typed, Alike, Fields
    <2>5. /\ Alike(e, m, {"rpsForActionReplies", "rpsForActionWinners",
                          "state", "asked"})
          /\ m.state = "RpsForAction" /\ m.rpsForActionReplies = EmptyHash
          /\ m.asked = e.asked \cup AlivePlayers(e.room)
      BY <2>2, <2>4, NewThrow
    <2> QED
      BY <1>2, <2>3, <2>5 DEF Alike, Fields, m
  <1>3. CASE ~IsRoundOver(l.room) /\ OrdersToCome(l) # {}
    <2> DEFINE next == CHOOSE o \in OrdersToCome(l) :
                          \A x \in OrdersToCome(l) : o <= x
               C == l.confirmedActionOrders
    <2>1. m = [l EXCEPT !.currentActionOrder = next, !.state = "Action",
                        !.asked = @ \cup {C[next]}]
      BY <1>3 DEF StartAction
    <2>2. next \in OrdersToCome(l) /\ \A x \in OrdersToCome(l) : next <= x
      <3>1. OrdersToCome(l) \in SUBSET Nat
        BY DEF OrdersToCome, IsHash, Order, IsLogicP, Typed
      <3>2. \E o \in OrdersToCome(l) : \A x \in OrdersToCome(l) : o <= x
        BY <1>3, <3>1, LeastNat
      <3> QED
        BY <3>2
    <2> HIDE DEF m, next
    <2>3. /\ Alike(l, m, {"currentActionOrder", "state", "asked"})
          /\ m.currentActionOrder = next /\ m.state = "Action"
          /\ m.asked = l.asked \cup {C[next]}
      BY <2>1 DEF IsLogicP, HasFields, Fields, Alike
    <2> QED
      BY <1>3, <2>2, <2>3 DEF Alike, Fields, m
  <1> QED
    BY <1>1, <1>2, <1>3

Striving(l) == {p \in Name : StrivingActionCount(l, p) > 0}

\* Whether the leftover orders are dealt out, or selections are asked for.
NothingToChoose(l) ==
    Cardinality(l.rpsForActionWinners.winners) = 1 \/ Striving(l) = {}

\* Selections are asked for, or the leftover orders are dealt and turns begin.
LEMMA NewSelections ==
    ASSUME NEW l, IsLogicP(l), InRound(l)
    PROVE  /\ ~NothingToChoose(l) =>
                 LET m == StartActionOrder(l)
                 IN  /\ Alike(l, m, {"desiredActionOrders", "state", "asked",
                                     "actionOrderRemainingSelections"})
                     /\ m.desiredActionOrders = {}
                     /\ m.actionOrderRemainingSelections =
                           [p \in Striving(l) |-> StrivingActionCount(l, p)]
                     /\ m.state = "ActionOrder"
                     /\ m.asked = l.asked \cup Striving(l)
           /\ NothingToChoose(l) =>
                 \E e : /\ IsLogicP(e)
                        /\ Alike(l, e, {"confirmedActionOrders", "signals",
                                        "currentActionOrder"})
                        /\ e.confirmedActionOrders = HandedOut(l)
                        /\ e.currentActionOrder = 0
                        /\ e.signals = l.signals \cup {"actionOrderResult"}
                        /\ StartActionOrder(l) = StartAction(e)
  <1>1. CASE ~NothingToChoose(l)
    <2> DEFINE m == StartActionOrder(l)
               striving == Striving(l)
               counts == [p \in striving |-> StrivingActionCount(l, p)]
    <2>1. m = [l EXCEPT !.desiredActionOrders = {},
                        !.actionOrderRemainingSelections = counts,
                        !.state = "ActionOrder",
                        !.asked = @ \cup striving]
      BY <1>1 DEF StartActionOrder, NothingToChoose, Striving
    <2> HIDE DEF m, counts, striving
    <2>2. /\ Alike(l, m, {"desiredActionOrders", "state", "asked",
                          "actionOrderRemainingSelections"})
          /\ m.desiredActionOrders = {}
          /\ m.actionOrderRemainingSelections = counts
          /\ m.state = "ActionOrder"
          /\ m.asked = l.asked \cup striving
      BY <2>1 DEF IsLogicP, HasFields, Fields, Alike
    <2> QED
      BY <1>1, <2>2 DEF m, counts, striving
  <1>2. CASE NothingToChoose(l)
    <2> DEFINE dealt == HandedOut(l)
               settled == [l EXCEPT !.confirmedActionOrders = dealt]
               granted == Emitted(settled, "actionOrderResult")
               e == [granted EXCEPT !.currentActionOrder = 0]
    <2>1. StartActionOrder(l) = StartAction(e)
      BY <1>2 DEF StartActionOrder, NothingToChoose, Striving
    <2>2. IsHash(dealt, Order, Name)
      BY HandedOutType DEF IsLogicP, Typed
    <2> HIDE DEF dealt
    <2>3. /\ HasFields(settled)
          /\ Alike(l, settled, {"confirmedActionOrders"})
          /\ settled.confirmedActionOrders = dealt
      BY DEF IsLogicP, HasFields, Fields, Alike
    <2> HIDE DEF settled
    <2>4. IsLogicP(settled)
      BY <2>2, <2>3 DEF IsLogicP, Typed, Fields, Alike
    <2>5. /\ IsLogicP(granted) /\ Alike(settled, granted, {"signals"})
          /\ granted.signals = settled.signals \cup {"actionOrderResult"}
      <3>1. IsLogicP(granted) /\ Alike(settled, granted, {"signals"})
        BY <2>4, EmittedRuns DEF ResultSignals, Alike
      <3>2. granted.signals = settled.signals \cup {"actionOrderResult"}
        BY <2>4 DEF IsLogicP, HasFields, Fields, Emitted
      <3> QED
        BY <3>1, <3>2
    <2> HIDE DEF granted
    <2>6. /\ HasFields(e) /\ Alike(granted, e, {"currentActionOrder"})
          /\ e.currentActionOrder = 0
      BY <2>5 DEF IsLogicP, HasFields, Fields, Alike
    <2> HIDE DEF e
    <2>7. IsLogicP(e)
      BY <2>5, <2>6 DEF IsLogicP, Typed, Fields, Alike
    <2>8. /\ Alike(l, e, {"confirmedActionOrders", "signals", "currentActionOrder"})
          /\ e.confirmedActionOrders = dealt
          /\ e.signals = l.signals \cup {"actionOrderResult"}
      BY <2>3, <2>5, <2>6 DEF Fields, Alike
    <2> QED
      BY <1>2, <2>1, <2>6, <2>7, <2>8 DEF dealt
  <1> QED
    BY <1>1, <1>2

\* The orders one player alone desires, and the hash once they are granted.
Alone(l) == {o \in Order : Cardinality(Desirers(l.desiredActionOrders, o)) = 1}

AloneGranted(l) ==
    [o \in DOMAIN l.confirmedActionOrders \cup Alone(l) |->
        IF o \in Alone(l)
        THEN CHOOSE p \in Name : p \in Desirers(l.desiredActionOrders, o)
        ELSE l.confirmedActionOrders[o]]

\* Granting the uncontested orders, then the lowest contest or new selections.
LEMMA NewContest ==
    ASSUME NEW l, IsLogicP(l), InRound(l)
    PROVE  \E g :
             /\ IsLogicP(g)
             /\ Alike(l, g, {"confirmedActionOrders", "desiredActionOrders"})
             /\ g.confirmedActionOrders = AloneGranted(l)
             /\ g.desiredActionOrders =
                   {d \in l.desiredActionOrders : d[1] \notin Alone(l)}
             /\ g.desiredActionOrders = {} =>
                   StartRpsForActionOrder(l) = StartActionOrder(g)
             /\ g.desiredActionOrders # {} =>
                   LET m == StartRpsForActionOrder(l)
                   IN  /\ Alike(g, m, {"currentStrivingActionOrder", "state",
                                       "rpsForActionOrderReplies", "asked"})
                       /\ m.state = "RpsForActionOrder"
                       /\ m.rpsForActionOrderReplies = EmptyHash
                       /\ m.currentStrivingActionOrder
                             \in {d[1] : d \in g.desiredActionOrders}
                       /\ m.asked = g.asked \cup
                             Desirers(g.desiredActionOrders,
                                      m.currentStrivingActionOrder)
  <1> DEFINE conf == AloneGranted(l)
             left == {d \in l.desiredActionOrders : d[1] \notin Alone(l)}
             g == [l EXCEPT !.confirmedActionOrders = conf,
                            !.desiredActionOrders = left]
             contested == {d[1] : d \in left}
             lowest == CHOOSE o \in contested : \A x \in contested : o <= x
             m == [g EXCEPT !.currentStrivingActionOrder = lowest,
                            !.rpsForActionOrderReplies = EmptyHash,
                            !.state = "RpsForActionOrder",
                            !.asked = @ \cup Desirers(left, lowest)]
  <1>1. IsHash(conf, Order, Name)
    <2>1. \A o \in Alone(l) :
             (CHOOSE p \in Name : p \in Desirers(l.desiredActionOrders, o)) \in Name
      BY AloneDesires DEF Alone
    <2>2. IsHash(l.confirmedActionOrders, Order, Name)
      BY DEF IsLogicP, Typed
    <2>3. Alone(l) \subseteq Order
      BY DEF Alone
    <2> QED
      BY <2>1, <2>2, <2>3 DEF IsHash, AloneGranted
  <1>2. left \subseteq Order \X Name
    BY DEF IsLogicP, Typed
  <1>3. g.desiredActionOrders = left
    <2> HIDE DEF conf, left
    <2> QED
      BY DEF IsLogicP, HasFields, Fields
  <1>4. IF contested = {} THEN StartRpsForActionOrder(l) = StartActionOrder(g)
                          ELSE StartRpsForActionOrder(l) = m
    BY <1>3 DEF StartRpsForActionOrder, AloneGranted, Alone
  <1>5. contested = {} <=> left = {}
    OBVIOUS
  <1> HIDE DEF conf, left
  <1>6. /\ HasFields(g)
        /\ Alike(l, g, {"confirmedActionOrders", "desiredActionOrders"})
        /\ g.confirmedActionOrders = conf
    BY DEF IsLogicP, HasFields, Fields, Alike
  <1> HIDE DEF g
  <1>7. IsLogicP(g)
    BY <1>1, <1>2, <1>3, <1>6 DEF IsLogicP, Typed, Fields, Alike
  <1>8. ASSUME left # {}
        PROVE  /\ Alike(g, m, {"currentStrivingActionOrder", "state",
                               "rpsForActionOrderReplies", "asked"})
               /\ m.state = "RpsForActionOrder"
               /\ m.rpsForActionOrderReplies = EmptyHash
               /\ m.currentStrivingActionOrder \in contested
               /\ m.asked = g.asked \cup Desirers(left, m.currentStrivingActionOrder)
    <2>1. contested \in SUBSET Nat /\ contested # {}
      BY <1>2, <1>5, <1>8 DEF Order
    <2> HIDE DEF contested
    <2>2. \E o \in contested : \A x \in contested : o <= x
      BY <2>1, LeastNat
    <2>3. lowest \in contested
      BY <2>2
    <2> HIDE DEF lowest
    <2>4. /\ Alike(g, m, {"currentStrivingActionOrder", "state",
                          "rpsForActionOrderReplies", "asked"})
          /\ m.state = "RpsForActionOrder"
          /\ m.rpsForActionOrderReplies = EmptyHash
          /\ m.currentStrivingActionOrder = lowest
          /\ m.asked = g.asked \cup Desirers(left, lowest)
      BY <1>7 DEF IsLogicP, HasFields, Fields, Alike
    <2> QED
      BY <2>3, <2>4
  <1> HIDE DEF m
  <1> QED
    BY <1>3, <1>4, <1>5, <1>6, <1>7, <1>8 DEF conf, left

-----------------------------------------------------------------------------
(* Each private function leaves LogicP in step. *)

\* A new throw is in step: everybody alive is asked and nobody has answered.
LEMMA NewThrowInStep ==
    ASSUME NEW l, IsLogicP(l), l.asked = {}
    PROVE  InStep(StartRpsForAction(l))
  <1> DEFINE m == StartRpsForAction(l)
  <1>1. /\ m.state = "RpsForAction" /\ m.rpsForActionReplies = EmptyHash
        /\ m.asked = AlivePlayers(l.room) /\ m.room = l.room
    BY NewThrow DEF Alike, Fields
  <1> HIDE DEF m
  <1>2. Throwing(m)
    BY <1>1 DEF Throwing, EmptyHash
  <1> QED
    BY <1>1, <1>2 DEF InStep, m

\* From settled orders: the next turn, the upgrades or a new throw.
LEMMA NextTurnInStep ==
    ASSUME NEW l, IsLogicP(l), InRound(l), Settled(l), l.asked = {},
           l.state = "Action" \/ ~IsRoundOver(l.room)
    PROVE  InStep(StartAction(l))
  <1> DEFINE m == StartAction(l)
  <1>0. /\ m.room = l.room
        /\ m.confirmedActionOrders = l.confirmedActionOrders
    BY NextTurn DEF Alike, Fields
  <1>1. CASE IsRoundOver(l.room)
    <2>1. /\ m.upgrades = EmptyHash
          /\ m.state = IF Earners(l) = {} THEN "Action" ELSE "Upgrade"
          /\ m.asked = Earners(l)
          /\ m.rpsForActionWinners = l.rpsForActionWinners
      BY <1>1, NextTurn
    <2> HIDE DEF m
    <2>2. Earners(m) = Earners(l)
      BY <1>0 DEF Earners
    <2>3. Settled(m)
      BY <1>0, <2>1 DEF Settled, Orders, Held, Won
    <2>4. CASE Earners(l) = {}
      BY <2>1, <2>3, <2>4 DEF InStep, Acting, m
    <2>5. CASE Earners(l) # {}
      BY <1>0, <1>1, <2>1, <2>2, <2>5 DEF InStep, Upgrading, EmptyHash, m
    <2> QED
      BY <2>4, <2>5
  <1>2. CASE ~IsRoundOver(l.room) /\ OrdersToCome(l) = {}
    <2>1. /\ m.state = "RpsForAction" /\ m.rpsForActionReplies = EmptyHash
          /\ m.asked = AlivePlayers(l.room)
      BY <1>2, NextTurn
    <2> HIDE DEF m
    <2> QED
      BY <1>0, <2>1 DEF InStep, Throwing, EmptyHash, m
  <1>3. CASE ~IsRoundOver(l.room) /\ OrdersToCome(l) # {}
    <2> DEFINE next == m.currentActionOrder
    <2>1. /\ m.state = "Action" /\ next \in OrdersToCome(l)
          /\ m.asked = {l.confirmedActionOrders[next]}
          /\ m.rpsForActionWinners = l.rpsForActionWinners
      BY <1>3, NextTurn
    <2> HIDE DEF m
    <2>2. /\ next \in DOMAIN l.confirmedActionOrders
          /\ l.confirmedActionOrders[next] \in AlivePlayers(l.room)
      BY <2>1 DEF OrdersToCome
    <2>3. Settled(m)
      BY <1>0, <2>1 DEF Settled, Orders, Held, Won
    <2> QED
      BY <1>0, <2>1, <2>2, <2>3 DEF InStep, Acting, m
  <1> QED
    BY <1>1, <1>2, <1>3

\* When no winner has more orders and yields than losers to its name, the deal is
\* in step and so is the question for more selections.
LEMMA NewSelectionsInStep ==
    ASSUME NEW l, IsLogicP(l), InRound(l), Granted(l), l.asked = {},
           \A p \in l.rpsForActionWinners.winners :
              Cardinality(Held(l, p)) + l.actionOrderYields[p]
                 <= l.rpsForActionWinners.times
    PROVE  InStep(StartActionOrder(l))
  <1> DEFINE W == l.rpsForActionWinners.winners
             T == l.rpsForActionWinners.times
             Y == l.actionOrderYields
  <1>1. /\ OrderCount(l.rpsForActionWinners) \in 0..MaxOrders
        /\ T \in Nat \ {0} /\ W \subseteq Name /\ ~IsRoundOver(l.room)
    BY ThrownOrders DEF Granted
  <1>2. IsHash(l.confirmedActionOrders, Order, Name)
    BY DEF IsLogicP, Typed
  <1>3. \A p \in Name : Cardinality(Held(l, p)) \in Nat /\ Y[p] \in Nat
    BY <1>2, HeldType DEF Granted
  <1>4. CASE NothingToChoose(l)
    <2>1. MaxOrders \in Nat
      BY Finiteness
    <2>2. \A p \in W : Cardinality(Held(l, p)) <= T
      BY <1>1, <1>3
    <2>3. Dealable(l)
      BY <1>1, <1>2, <2>1, <2>2 DEF Dealable, Granted
    <2>4. PICK e :
             /\ IsLogicP(e)
             /\ Alike(l, e, {"confirmedActionOrders", "signals",
                             "currentActionOrder"})
             /\ e.confirmedActionOrders = HandedOut(l)
             /\ StartActionOrder(l) = StartAction(e)
      BY <1>4, NewSelections
    <2>5. /\ e.room = l.room /\ e.state = l.state /\ e.asked = {}
          /\ e.rpsForActionWinners = l.rpsForActionWinners
      BY <2>4 DEF Alike, Fields
    <2>6. Settled(e)
      BY <2>3, <2>4, <2>5, HandedOutSettles DEF Settled, Orders, Held, Won
    <2> QED
      BY <1>1, <2>4, <2>5, <2>6, NextTurnInStep DEF InRound
  <1>5. CASE ~NothingToChoose(l)
    <2> DEFINE m == StartActionOrder(l)
               S == m.actionOrderRemainingSelections
    <2>1. /\ Alike(l, m, {"desiredActionOrders", "state", "asked",
                          "actionOrderRemainingSelections"})
          /\ m.desiredActionOrders = {}
          /\ S = [p \in Striving(l) |-> StrivingActionCount(l, p)]
          /\ m.state = "ActionOrder" /\ m.asked = Striving(l)
          /\ Striving(l) # {}
      <3>1. Striving(l) # {} /\ l.asked \cup Striving(l) = Striving(l)
        BY <1>5 DEF NothingToChoose
      <3> HIDE DEF m
      <3> QED
        BY <1>5, <3>1, NewSelections DEF m
    <2> HIDE DEF m
    <2>2. /\ m.room = l.room /\ m.rpsForActionWinners = l.rpsForActionWinners
          /\ m.confirmedActionOrders = l.confirmedActionOrders
          /\ m.actionOrderYields = l.actionOrderYields
      BY <2>1 DEF Alike, Fields
    <2>3. Granted(m)
      BY <2>2 DEF Granted, Thrown, Orders
    <2>4. \A p : Held(m, p) = Held(l, p)
      BY <2>2 DEF Held
    <2>5. \A p : Wanted(m, p) = {} /\ Cardinality(Wanted(m, p)) = 0
      BY <2>1, FS_EmptySet DEF Wanted
    <2>6. \A p \in Name : StrivingActionCount(l, p)
                             = Won(l, p) - Cardinality(Held(l, p)) - Y[p]
      BY DEF StrivingActionCount, RemainingActionCount, Held, Won
    <2>7. Striving(l) \subseteq W
      <3> SUFFICES ASSUME NEW p \in Name, p \notin W
                   PROVE  ~(StrivingActionCount(l, p) > 0)
        BY DEF Striving
      <3>1. Won(l, p) = 0 /\ Y[p] = 0
        BY DEF Won, Granted
      <3> QED
        BY <1>3, <2>6, <3>1
    <2>8. \A p \in W : Spent(m, p) = Cardinality(Held(l, p)) + Y[p]
      BY <1>1, <1>3, <2>2, <2>4, <2>5 DEF Spent
    <2>9. Bidding(m)
      BY <2>1, <2>2, <2>3, <2>8 DEF Bidding
    <2>10. \A p \in Striving(l) : S[p] \in Nat
      BY <1>1, <1>3, <2>1, <2>6, <2>7 DEF Striving, Won
    <2>11. \A p \in W : Spent(m, p) + Selected(m, p) = T
      <3> SUFFICES ASSUME NEW p \in W PROVE Spent(m, p) + Selected(m, p) = T
        OBVIOUS
      <3> DEFINE h == Cardinality(Held(l, p))
      <3>1. /\ h \in Nat /\ Y[p] \in Nat /\ T \in Nat /\ h + Y[p] <= T
            /\ StrivingActionCount(l, p) = T - h - Y[p]
            /\ Spent(m, p) = h + Y[p] /\ p \in Name
        BY <1>1, <1>3, <2>6, <2>8 DEF Won
      <3>2. Selected(m, p) = IF StrivingActionCount(l, p) > 0
                             THEN StrivingActionCount(l, p) ELSE 0
        BY <2>1, <3>1 DEF Selected, Striving
      <3> HIDE DEF h
      <3> QED
        BY <3>1, <3>2
    <2>12. Choosing(m)
      <3>1. DOMAIN S = Striving(l)
        BY <2>1
      <3> QED
        BY <2>1, <2>2, <2>5, <2>7, <2>9, <2>10, <2>11, <3>1 DEF Choosing
    <2> QED
      BY <2>1, <2>12 DEF InStep, m
  <1> QED
    BY <1>4, <1>5

\* A player who alone desires an order is the one it is granted to.
LEMMA AloneDesirer ==
    ASSUME NEW l, NEW o \in Alone(l)
    PROVE  /\ AloneGranted(l)[o] \in Name
           /\ Desirers(l.desiredActionOrders, o) = {AloneGranted(l)[o]}
  <1> DEFINE d == Desirers(l.desiredActionOrders, o)
  <1>1. d \in SUBSET Name /\ Cardinality(d) = 1
    BY DEF Desirers, Alone
  <1> HIDE DEF d
  <1>2. IsFiniteSet(d)
    BY <1>1, Finiteness, FS_Subset
  <1>3. PICK a : d = {a}
    BY <1>1, <1>2, TwoMembers
  <1>4. (CHOOSE p \in Name : p \in d) = a
    BY <1>1, <1>3
  <1>5. AloneGranted(l)[o] = CHOOSE p \in Name : p \in d
    BY DEF AloneGranted, d
  <1> QED
    BY <1>1, <1>3, <1>4, <1>5 DEF d

\* Granting an order moves it from the orders its desirer wants to those it holds.
LEMMA GrantKeepsSpent ==
    ASSUME NEW l, IsLogicP(l), Bidding(l), NEW g, IsLogicP(g),
           Alike(l, g, {"confirmedActionOrders", "desiredActionOrders"}),
           g.confirmedActionOrders = AloneGranted(l),
           g.desiredActionOrders =
              {d \in l.desiredActionOrders : d[1] \notin Alone(l)}
    PROVE  Bidding(g) /\ \A p \in Name : Spent(g, p) = Spent(l, p)
  <1> DEFINE W == l.rpsForActionWinners.winners
             C == l.confirmedActionOrders
             D == l.desiredActionOrders
  <1>1. /\ g.room = l.room /\ g.rpsForActionWinners = l.rpsForActionWinners
        /\ g.actionOrderYields = l.actionOrderYields
    BY DEF Alike, Fields
  <1>2. D \subseteq (Orders(l) \ DOMAIN C) \X W /\ W \subseteq Name
        /\ Orders(l) \subseteq Order
    BY ThrownOrders DEF Bidding, Granted
  <1>3. ASSUME NEW o \in Alone(l)
        PROVE  /\ o \in Orders(l) /\ o \notin DOMAIN C /\ o \in Order
               /\ AloneGranted(l)[o] \in W
               /\ \A p \in Name : AloneGranted(l)[o] = p <=> <<o, p>> \in D
    <2>1. Desirers(D, o) = {AloneGranted(l)[o]} /\ AloneGranted(l)[o] \in Name
      BY AloneDesirer
    <2>2. \A p \in Name : AloneGranted(l)[o] = p <=> <<o, p>> \in D
      BY <2>1 DEF Desirers
    <2> QED
      BY <1>2, <2>1, <2>2 DEF Alone
  <1>4. DOMAIN AloneGranted(l) = DOMAIN C \cup Alone(l)
        /\ \A o \in DOMAIN C : AloneGranted(l)[o] = C[o]
    BY <1>3 DEF AloneGranted
  <1>5. ASSUME NEW p \in Name PROVE Spent(g, p) = Spent(l, p)
    <2> DEFINE moved == Wanted(l, p) \cap Alone(l)
    <2>1. Held(g, p) = Held(l, p) \cup moved
      BY <1>3, <1>4 DEF Held, Wanted
    <2>2. Wanted(g, p) = Wanted(l, p) \ moved
      BY DEF Wanted
    <2>3. Held(l, p) \cap moved = {} /\ Wanted(l, p) \cap moved = moved
      BY <1>3 DEF Held
    <2>4. IsFiniteSet(Held(l, p)) /\ Cardinality(Held(l, p)) \in Nat
      BY HeldType DEF IsLogicP, Typed
    <2>5. Wanted(l, p) \in SUBSET Order
      BY DEF Wanted
    <2>6. /\ IsFiniteSet(Wanted(l, p)) /\ Cardinality(Wanted(l, p)) \in Nat
          /\ IsFiniteSet(moved) /\ Cardinality(moved) \in Nat
      BY <2>5, Finiteness, FS_Subset, FS_CardinalityType
    <2> HIDE DEF moved
    <2>7. Cardinality(Held(l, p) \cup moved)
             = Cardinality(Held(l, p)) + Cardinality(moved) - Cardinality({})
      BY <2>3, <2>4, <2>6, FS_Union
    <2>8. Cardinality(Wanted(l, p) \ moved)
             = Cardinality(Wanted(l, p)) - Cardinality(moved)
      BY <2>3, <2>6, FS_Difference
    <2>9. l.actionOrderYields[p] \in Int /\ Cardinality({}) = 0
      BY FS_EmptySet DEF IsLogicP, Typed
    <2> QED
      BY <1>1, <2>1, <2>2, <2>4, <2>6, <2>7, <2>8, <2>9 DEF Spent
  <1>6. Granted(g)
    BY <1>1, <1>3, <1>4 DEF Granted, Bidding, Thrown, Orders
  <1>7. g.desiredActionOrders
           \subseteq (Orders(g) \ DOMAIN g.confirmedActionOrders)
                        \X g.rpsForActionWinners.winners
    <2>1. Orders(g) = Orders(l)
      BY <1>1 DEF Orders
    <2> QED
      BY <1>1, <1>2, <1>4, <2>1
  <1>8. \A p \in g.rpsForActionWinners.winners :
           Spent(g, p) <= g.rpsForActionWinners.times
    BY <1>1, <1>2, <1>5 DEF Bidding
  <1> QED
    BY <1>5, <1>6, <1>7, <1>8 DEF Bidding

\* Once every list of orders is in: grants, and a contest or new selections.
LEMMA NewContestInStep ==
    ASSUME NEW l, IsLogicP(l), InRound(l), Bidding(l), l.asked = {},
           DOMAIN l.actionOrderRemainingSelections = {}
    PROVE  InStep(StartRpsForActionOrder(l))
  <1>1. PICK g :
          /\ IsLogicP(g)
          /\ Alike(l, g, {"confirmedActionOrders", "desiredActionOrders"})
          /\ g.confirmedActionOrders = AloneGranted(l)
          /\ g.desiredActionOrders =
                {d \in l.desiredActionOrders : d[1] \notin Alone(l)}
          /\ g.desiredActionOrders = {} =>
                StartRpsForActionOrder(l) = StartActionOrder(g)
          /\ g.desiredActionOrders # {} =>
                LET m == StartRpsForActionOrder(l)
                IN  /\ Alike(g, m, {"currentStrivingActionOrder", "state",
                                    "rpsForActionOrderReplies", "asked"})
                    /\ m.state = "RpsForActionOrder"
                    /\ m.rpsForActionOrderReplies = EmptyHash
                    /\ m.currentStrivingActionOrder
                          \in {d[1] : d \in g.desiredActionOrders}
                    /\ m.asked = g.asked \cup
                          Desirers(g.desiredActionOrders,
                                   m.currentStrivingActionOrder)
    BY NewContest
  <1>2. Bidding(g) /\ \A p \in Name : Spent(g, p) = Spent(l, p)
    BY <1>1, GrantKeepsSpent
  <1>3. /\ g.room = l.room /\ g.state = l.state /\ g.asked = {}
        /\ DOMAIN g.actionOrderRemainingSelections = {}
    BY <1>1 DEF Alike, Fields
  <1>4. CASE g.desiredActionOrders = {}
    <2>1. \A p : Wanted(g, p) = {} /\ Cardinality(Wanted(g, p)) = 0
      BY <1>4, FS_EmptySet DEF Wanted
    <2>2. ASSUME NEW p \in g.rpsForActionWinners.winners
          PROVE  Cardinality(Held(g, p)) + g.actionOrderYields[p]
                    <= g.rpsForActionWinners.times
      <3>1. p \in Name /\ Spent(g, p) <= g.rpsForActionWinners.times
        BY <1>1, <1>2 DEF Bidding, IsLogicP, Typed
      <3>2. Cardinality(Held(g, p)) \in Nat /\ g.actionOrderYields[p] \in Nat
        BY <1>1, <1>2, <3>1, HeldType DEF IsLogicP, Typed, Bidding, Granted
      <3> QED
        BY <2>1, <3>1, <3>2 DEF Spent
    <2>3. Granted(g)
      BY <1>2 DEF Bidding
    <2> QED
      BY <1>1, <1>3, <1>4, <2>2, <2>3, NewSelectionsInStep DEF InRound
  <1>5. CASE g.desiredActionOrders # {}
    <2> DEFINE m == StartRpsForActionOrder(l)
               order == m.currentStrivingActionOrder
               striving == Desirers(g.desiredActionOrders, order)
    <2>1. /\ Alike(g, m, {"currentStrivingActionOrder", "state",
                          "rpsForActionOrderReplies", "asked"})
          /\ m.state = "RpsForActionOrder"
          /\ m.rpsForActionOrderReplies = EmptyHash
          /\ order \in {d[1] : d \in g.desiredActionOrders}
          /\ m.asked = g.asked \cup striving
      BY <1>1, <1>5
    <2> HIDE DEF m
    <2>2. /\ m.room = g.room /\ m.rpsForActionWinners = g.rpsForActionWinners
          /\ m.confirmedActionOrders = g.confirmedActionOrders
          /\ m.desiredActionOrders = g.desiredActionOrders
          /\ m.actionOrderYields = g.actionOrderYields
          /\ DOMAIN m.actionOrderRemainingSelections = {}
      BY <1>3, <2>1 DEF Alike, Fields
    <2>3. Bidding(m)
      BY <1>2, <2>2
        DEF Bidding, Granted, Thrown, Orders, Spent, Held, Wanted
    <2>4. PICK d \in g.desiredActionOrders : order = d[1]
      BY <2>1
    <2>5. /\ order \in Order /\ order \notin Alone(l)
          /\ d[2] \in striving /\ striving \in SUBSET Name
          /\ striving = Desirers(l.desiredActionOrders, order)
      BY <1>1, <2>4 DEF IsLogicP, Typed, Desirers
    <2> HIDE DEF order, striving
    <2>6. IsFiniteSet(striving) /\ Cardinality(striving) \in Nat
      BY <2>5, Finiteness, FS_Subset, FS_CardinalityType
    <2>7. Cardinality(striving) # 1 /\ Cardinality(striving) # 0
      BY <2>5, <2>6, FS_EmptySet DEF Alone
    <2>8. Cardinality(striving) >= 2
      BY <2>6, <2>7
    <2>9. Contesting(m)
      BY <1>3, <2>1, <2>2, <2>3, <2>5, <2>8
        DEF Contesting, EmptyHash, order, striving
    <2> QED
      BY <2>1, <2>9 DEF InStep, m
  <1> QED
    BY <1>4, <1>5

\* A reply that leaves others to be waited for, and the last one.
LEMMA AllReplied ==
    ASSUME NEW D, NEW A, IsFiniteSet(A), D \subseteq A,
           Cardinality(D) = Cardinality(A)
    PROVE  D = A
  BY FS_Subset

\* Evaluating the throw: nobody wins and there is a new one, or the winners have
\* nothing confirmed and nothing yielded yet.
LEMMA ThrowEvaluated ==
    ASSUME NEW l, IsLogicP(l), l.state = "RpsForAction", Throwing(l)
    PROVE  \/ RpsForAction(l) = l /\ l.asked # {}
           \/ /\ l.asked = {}
              /\ DOMAIN l.rpsForActionReplies = AlivePlayers(l.room)
              /\ \E e : /\ IsLogicP(e)
                        /\ Alike(l, e, {"rpsForActionWinners", "signals"})
                        /\ e.signals = l.signals \cup {"rpsResult"}
                        /\ RpsForAction(l) = StartRpsForAction(e)
           \/ /\ l.asked = {}
              /\ DOMAIN l.rpsForActionReplies = AlivePlayers(l.room)
              /\ \E e : /\ IsLogicP(e)
                        /\ Alike(l, e, {"rpsForActionWinners", "signals",
                                        "confirmedActionOrders", "actionOrderYields"})
                        /\ Granted(e)
                        /\ e.confirmedActionOrders = EmptyHash
                        /\ e.actionOrderYields = [p \in Name |-> 0]
                        /\ e.signals = l.signals \cup {"rpsResult"}
                        /\ RpsForAction(l) = StartActionOrder(e)
  <1> DEFINE replies == l.rpsForActionReplies
             A == AlivePlayers(l.room)
             outcome == RockPaperScissorsWinners(DOMAIN replies, replies)
             t == Emitted(l, "rpsResult")
             told == [t EXCEPT !.rpsForActionWinners = outcome]
             none == [p \in Name |-> 0]
             m == [told EXCEPT !.confirmedActionOrders = EmptyHash,
                               !.actionOrderYields = none]
  <1>1. /\ IsHash(replies, Name, RockPaperScissors)
        /\ DOMAIN replies \subseteq A /\ A \in SUBSET Name
        /\ l.asked = A \ DOMAIN replies
    BY DEF IsLogicP, Typed, Throwing, AlivePlayers, IsHash
  <1>2. IsFiniteSet(A)
    BY <1>1, Finiteness, FS_Subset
  <1>3. /\ outcome \in [winners: SUBSET Name, times: Nat]
        /\ outcome.winners # {} =>
              /\ outcome.winners \subseteq DOMAIN replies
              /\ outcome.winners # DOMAIN replies
              /\ outcome.times = Cardinality(DOMAIN replies \ outcome.winners)
    BY <1>1, WinnersType, WinnersAndLosers
  <1>4. RpsForAction(l) =
           IF Cardinality(DOMAIN replies) # Cardinality(A) THEN l
           ELSE IF outcome.winners = {} THEN StartRpsForAction(told)
           ELSE StartActionOrder(m)
    BY DEF RpsForAction
  <1> HIDE DEF outcome, t, A, replies
  <1>5. IsLogicP(t) /\ Alike(l, t, {"signals"})
        /\ t.signals = l.signals \cup {"rpsResult"}
    <2>1. IsLogicP(t) /\ Alike(l, t, {"signals"})
      BY EmittedRuns DEF ResultSignals, Alike, t
    <2>2. t.signals = l.signals \cup {"rpsResult"}
      BY DEF IsLogicP, HasFields, Fields, Emitted, t
    <2> QED
      BY <2>1, <2>2
  <1>6. HasFields(told) /\ Alike(t, told, {"rpsForActionWinners"})
        /\ told.rpsForActionWinners = outcome
    BY <1>5 DEF IsLogicP, HasFields, Fields, Alike
  <1> HIDE DEF told
  <1>7. IsLogicP(told) /\ Alike(l, told, {"rpsForActionWinners", "signals"})
        /\ told.signals = l.signals \cup {"rpsResult"}
    BY <1>3, <1>5, <1>6 DEF IsLogicP, Typed, Fields, Alike
  <1>8. none \in [Name -> Int] /\ \A p \in Name : none[p] = 0
    OBVIOUS
  <1> HIDE DEF none
  <1>9. HasFields(m)
        /\ Alike(told, m, {"confirmedActionOrders", "actionOrderYields"})
        /\ m.confirmedActionOrders = EmptyHash /\ m.actionOrderYields = none
    BY <1>7 DEF IsLogicP, HasFields, Fields, Alike
  <1> HIDE DEF m
  <1>10. IsLogicP(m)
         /\ Alike(l, m, {"rpsForActionWinners", "signals",
                         "confirmedActionOrders", "actionOrderYields"})
         /\ m.signals = l.signals \cup {"rpsResult"}
    BY <1>7, <1>8, <1>9, EmptyTyped DEF IsLogicP, Typed, Fields, Alike
  <1>11. CASE Cardinality(DOMAIN replies) # Cardinality(A)
    <2>1. l.asked # {}
      BY <1>1, <1>11
    <2> QED
      BY <1>4, <1>11, <2>1
  <1>12. ASSUME Cardinality(DOMAIN replies) = Cardinality(A)
         PROVE  DOMAIN replies = A /\ l.asked = {}
    <2>1. DOMAIN replies = A
      BY <1>1, <1>2, <1>12, AllReplied
    <2> QED
      BY <1>1, <2>1
  <1>13. CASE Cardinality(DOMAIN replies) = Cardinality(A)
              /\ outcome.winners = {}
    BY <1>4, <1>7, <1>12, <1>13 DEF A, replies
  <1>14. CASE Cardinality(DOMAIN replies) = Cardinality(A)
              /\ outcome.winners # {}
    <2>1. m.rpsForActionWinners = outcome /\ m.room = l.room
      BY <1>6, <1>9, <1>10 DEF Alike, Fields
    <2>2. DOMAIN replies = A
      BY <1>12, <1>14
    <2>3. Thrown(m)
      BY <1>3, <1>14, <2>1, <2>2 DEF Thrown, A
    <2>4. Granted(m)
      BY <1>8, <1>9, <2>3 DEF Granted, EmptyHash
    <2> QED
      BY <1>4, <1>9, <1>10, <1>12, <1>14, <2>4 DEF A, replies, none
  <1> QED
    BY <1>11, <1>13, <1>14

\* The throw for actions leaves LogicP in step.
LEMMA RpsForActionInStep ==
    ASSUME NEW l, IsLogicP(l), l.state = "RpsForAction", Throwing(l)
    PROVE  InStep(RpsForAction(l))
  <1>1. CASE RpsForAction(l) = l
    BY <1>1 DEF InStep
  <1>2. CASE /\ l.asked = {}
             /\ \E e : /\ IsLogicP(e)
                       /\ Alike(l, e, {"rpsForActionWinners", "signals"})
                       /\ RpsForAction(l) = StartRpsForAction(e)
    <2>1. PICK e : /\ IsLogicP(e)
                   /\ Alike(l, e, {"rpsForActionWinners", "signals"})
                   /\ RpsForAction(l) = StartRpsForAction(e)
      BY <1>2
    <2>2. e.asked = {}
      BY <1>2, <2>1 DEF Alike, Fields
    <2> QED
      BY <2>1, <2>2, NewThrowInStep
  <1>3. CASE /\ l.asked = {}
             /\ \E e : /\ IsLogicP(e)
                       /\ Alike(l, e, {"rpsForActionWinners", "signals",
                                       "confirmedActionOrders", "actionOrderYields"})
                       /\ Granted(e)
                       /\ e.confirmedActionOrders = EmptyHash
                       /\ e.actionOrderYields = [p \in Name |-> 0]
                       /\ RpsForAction(l) = StartActionOrder(e)
    <2>1. PICK e : /\ IsLogicP(e)
                   /\ Alike(l, e, {"rpsForActionWinners", "signals",
                                   "confirmedActionOrders", "actionOrderYields"})
                   /\ Granted(e)
                   /\ e.confirmedActionOrders = EmptyHash
                   /\ e.actionOrderYields = [p \in Name |-> 0]
                   /\ RpsForAction(l) = StartActionOrder(e)
      BY <1>3
    <2>2. e.asked = {} /\ e.state = "RpsForAction"
      BY <1>3, <2>1 DEF Alike, Fields
    <2>3. \A p : Held(e, p) = {} /\ Cardinality(Held(e, p)) = 0
      BY <2>1, FS_EmptySet DEF Held, EmptyHash
    <2>4. /\ e.rpsForActionWinners.winners \subseteq Name
          /\ e.rpsForActionWinners.times \in Nat
      BY <2>1 DEF IsLogicP, Typed
    <2>5. \A p \in e.rpsForActionWinners.winners :
             Cardinality(Held(e, p)) + e.actionOrderYields[p]
                <= e.rpsForActionWinners.times
      BY <2>1, <2>3, <2>4
    <2> QED
      BY <2>1, <2>2, <2>5, NewSelectionsInStep DEF InRound
  <1> QED
    BY <1>1, <1>2, <1>3, ThrowEvaluated

\* Evaluating a contest: those who lose it no longer desire the order.
LEMMA ContestEvaluated ==
    ASSUME NEW l, IsLogicP(l), l.state = "RpsForActionOrder", Contesting(l)
    PROVE  \/ RpsForActionOrder(l) = l /\ l.asked # {}
           \/ /\ l.asked = {}
              /\ \E e : /\ IsLogicP(e)
                        /\ Alike(l, e, {"desiredActionOrders", "signals"})
                        /\ e.desiredActionOrders \subseteq l.desiredActionOrders
                        /\ e.desiredActionOrders # {}
                        /\ e.signals = l.signals \cup {"rpsResult"}
                        /\ RpsForActionOrder(l) = StartRpsForActionOrder(e)
  <1> DEFINE replies == l.rpsForActionOrderReplies
             order == l.currentStrivingActionOrder
             striving == Desirers(l.desiredActionOrders, order)
             winners == RockPaperScissorsWinners(DOMAIN replies, replies).winners
             losers == IF winners = {} THEN {} ELSE striving \ winners
             lost == {order} \X losers
             t == Emitted(l, "rpsResult")
             m == [t EXCEPT !.desiredActionOrders = @ \ lost]
  <1>1. /\ striving \in SUBSET Name /\ Cardinality(striving) >= 2
        /\ DOMAIN replies \subseteq striving
        /\ l.asked = striving \ DOMAIN replies
        /\ IsHash(replies, Name, RockPaperScissors)
    BY DEF Contesting, Desirers, IsLogicP, Typed
  <1>2. IsFiniteSet(striving)
    BY <1>1, Finiteness, FS_Subset
  <1>3. RpsForActionOrder(l) =
           IF Cardinality(DOMAIN replies) # Cardinality(striving) THEN l
           ELSE StartRpsForActionOrder(m)
    BY DEF RpsForActionOrder
  <1>4. winners # {} => winners \subseteq DOMAIN replies
    BY <1>1, WinnersAndLosers
  <1>5. \A p \in striving : <<order, p>> \in l.desiredActionOrders
    BY DEF Desirers
  <1> HIDE DEF winners, striving, replies, order
  <1>6. l.desiredActionOrders \ lost # {}
    <2>1. striving \ losers # {}
      <3>1. striving # {}
        BY <1>1, FS_EmptySet
      <3>2. CASE winners = {}
        BY <3>1, <3>2
      <3>3. CASE winners # {}
        BY <1>1, <1>4, <3>3
      <3> QED
        BY <3>2, <3>3
    <2> HIDE DEF losers
    <2>2. PICK p \in striving : p \notin losers
      BY <2>1
    <2>3. <<order, p>> \in l.desiredActionOrders /\ <<order, p>> \notin lost
      BY <1>5, <2>2
    <2> QED
      BY <2>3
  <1> HIDE DEF lost, t
  <1>7. IsLogicP(t) /\ Alike(l, t, {"signals"})
        /\ t.signals = l.signals \cup {"rpsResult"}
    <2>1. IsLogicP(t) /\ Alike(l, t, {"signals"})
      BY EmittedRuns DEF ResultSignals, Alike, t
    <2>2. t.signals = l.signals \cup {"rpsResult"}
      BY DEF IsLogicP, HasFields, Fields, Emitted, t
    <2> QED
      BY <2>1, <2>2
  <1>8. HasFields(m) /\ Alike(t, m, {"desiredActionOrders"})
        /\ m.desiredActionOrders = t.desiredActionOrders \ lost
    BY <1>7 DEF IsLogicP, HasFields, Fields, Alike
  <1> HIDE DEF m
  <1>9. /\ IsLogicP(m)
        /\ Alike(l, m, {"desiredActionOrders", "signals"})
        /\ m.desiredActionOrders = l.desiredActionOrders \ lost
        /\ m.signals = l.signals \cup {"rpsResult"}
    BY <1>7, <1>8 DEF IsLogicP, Typed, Fields, Alike
  <1>10. CASE Cardinality(DOMAIN replies) # Cardinality(striving)
    <2>1. l.asked # {}
      BY <1>1, <1>10
    <2> QED
      BY <1>3, <1>10, <2>1
  <1>11. CASE Cardinality(DOMAIN replies) = Cardinality(striving)
    <2>1. DOMAIN replies = striving
      BY <1>1, <1>2, <1>11, AllReplied
    <2>2. l.asked = {}
      BY <1>1, <2>1
    <2> QED
      BY <1>3, <1>6, <1>9, <1>11, <2>2
  <1> QED
    BY <1>10, <1>11

\* With fewer orders desired, no winner has made more selections.
LEMMA FewerDesired ==
    ASSUME NEW l, IsLogicP(l), Bidding(l), NEW e, IsLogicP(e),
           Alike(l, e, {"desiredActionOrders", "signals"}),
           e.desiredActionOrders \subseteq l.desiredActionOrders
    PROVE  Bidding(e)
  <1>1. /\ e.room = l.room /\ e.rpsForActionWinners = l.rpsForActionWinners
        /\ e.confirmedActionOrders = l.confirmedActionOrders
        /\ e.actionOrderYields = l.actionOrderYields
    BY DEF Alike, Fields
  <1>2. Granted(e)
    BY <1>1 DEF Bidding, Granted, Thrown, Orders
  <1>3. ASSUME NEW p \in l.rpsForActionWinners.winners
        PROVE  Spent(e, p) <= l.rpsForActionWinners.times
    <2>1. Wanted(e, p) \in SUBSET Wanted(l, p) /\ Wanted(l, p) \in SUBSET Order
      BY DEF Wanted
    <2>2. /\ Cardinality(Wanted(e, p)) <= Cardinality(Wanted(l, p))
          /\ Cardinality(Wanted(e, p)) \in Nat /\ Cardinality(Wanted(l, p)) \in Nat
      BY <2>1, Finiteness, FS_Subset, FS_CardinalityType
    <2>3. Held(e, p) = Held(l, p) /\ Cardinality(Held(l, p)) \in Nat
      <3>1. Held(e, p) = Held(l, p)
        BY <1>1 DEF Held
      <3>2. IsHash(l.confirmedActionOrders, Order, Name)
        BY DEF IsLogicP, Typed
      <3> QED
        BY <3>1, <3>2, HeldType
    <2>4. /\ l.actionOrderYields[p] \in Int /\ l.rpsForActionWinners.times \in Nat
          /\ Spent(l, p) <= l.rpsForActionWinners.times
      BY DEF IsLogicP, Typed, Bidding
    <2> QED
      BY <1>1, <2>2, <2>3, <2>4 DEF Spent
  <1>4. e.desiredActionOrders \subseteq
           (Orders(e) \ DOMAIN e.confirmedActionOrders)
               \X e.rpsForActionWinners.winners
    <2>1. Orders(e) = Orders(l)
      BY <1>1 DEF Orders
    <2> QED
      BY <1>1, <2>1 DEF Bidding
  <1> QED
    BY <1>1, <1>2, <1>3, <1>4 DEF Bidding

\* The throw for an order leaves LogicP in step.
LEMMA RpsForActionOrderInStep ==
    ASSUME NEW l, IsLogicP(l), l.state = "RpsForActionOrder", Contesting(l)
    PROVE  InStep(RpsForActionOrder(l))
  <1>1. CASE RpsForActionOrder(l) = l
    BY <1>1 DEF InStep
  <1>2. CASE /\ l.asked = {}
             /\ \E e : /\ IsLogicP(e)
                       /\ Alike(l, e, {"desiredActionOrders", "signals"})
                       /\ e.desiredActionOrders \subseteq l.desiredActionOrders
                       /\ RpsForActionOrder(l) = StartRpsForActionOrder(e)
    <2>1. PICK e : /\ IsLogicP(e)
                   /\ Alike(l, e, {"desiredActionOrders", "signals"})
                   /\ e.desiredActionOrders \subseteq l.desiredActionOrders
                   /\ RpsForActionOrder(l) = StartRpsForActionOrder(e)
      BY <1>2
    <2>2. /\ e.asked = {} /\ e.state = "RpsForActionOrder"
          /\ DOMAIN e.actionOrderRemainingSelections = {}
      BY <1>2, <2>1 DEF Alike, Fields, Contesting
    <2>3. Bidding(e)
      BY <2>1, FewerDesired DEF Contesting
    <2> QED
      BY <2>1, <2>2, <2>3, NewContestInStep DEF InRound
  <1> QED
    BY <1>1, <1>2, ContestEvaluated

\* Applying the upgrades: all who have points have replied, and the room goes
\* back to waiting, reset if somebody has bought everything.
LEMMA UpgradesEvaluated ==
    ASSUME NEW l, IsLogicP(l), l.state = "Upgrade", Upgrading(l)
    PROVE  LET m == Upgrade(l)
               room == [p \in DOMAIN l.room |->
                           IF p \in DOMAIN l.upgrades
                           THEN Upgraded(l.room[p], l.upgrades[p]) ELSE l.room[p]]
           IN  \/ m = l /\ l.asked # {}
               \/ /\ l.asked = {} /\ DOMAIN l.upgrades = Earners(l)
                  /\ Alike(l, m, {"room", "state", "signals"})
                  /\ m.state = "BeforeRoundStart"
                  /\ \/ /\ GameWinners(room) = {} /\ m.room = room
                        /\ m.signals = l.signals \cup {"upgradeResult"}
                     \/ /\ GameWinners(room) # {} /\ m.room = ResetUpgrades(room)
                        /\ m.signals = l.signals \cup {"gameOver"}
  <1> DEFINE E == Earners(l)
             room == [p \in DOMAIN l.room |->
                         IF p \in DOMAIN l.upgrades
                         THEN Upgraded(l.room[p], l.upgrades[p]) ELSE l.room[p]]
             reset == ResetUpgrades(room)
             done == [l EXCEPT !.room = room, !.state = "BeforeRoundStart"]
             over == [done EXCEPT !.room = reset]
  <1>1. Upgrade(l) =
           IF ~IsRoundOver(l.room)
                 \/ Cardinality(DOMAIN l.upgrades) # Cardinality(E)
           THEN l
           ELSE IF GameWinners(room) = {} THEN Emitted(done, "upgradeResult")
           ELSE Emitted(over, "gameOver")
    BY DEF Upgrade, Earners
  <1>2. E \in SUBSET Name /\ DOMAIN l.upgrades \subseteq E
    BY DEF Earners, IsLogicP, Typed, IsHash, Upgrading
  <1>3. IsFiniteSet(E)
    BY <1>2, Finiteness, FS_Subset
  <1> HIDE DEF room, reset, E
  <1>4. /\ HasFields(done) /\ Alike(l, done, {"room", "state"})
        /\ done.room = room /\ done.state = "BeforeRoundStart"
    BY DEF IsLogicP, HasFields, Fields, Alike
  <1> HIDE DEF done
  <1>5. /\ HasFields(over) /\ Alike(done, over, {"room"}) /\ over.room = reset
    BY <1>4 DEF HasFields, Fields, Alike
  <1> HIDE DEF over
  <1>6. ASSUME NEW d, HasFields(d), NEW s
        PROVE  /\ Alike(d, Emitted(d, s), {"signals"})
               /\ Emitted(d, s).signals = d.signals \cup {s}
    BY <1>6 DEF HasFields, Fields, Alike, Emitted
  <1>7. CASE ~IsRoundOver(l.room)
                \/ Cardinality(DOMAIN l.upgrades) # Cardinality(E)
    <2>1. l.asked # {}
      BY <1>2, <1>7 DEF Upgrading, E
    <2> QED
      BY <1>1, <1>7, <2>1
  <1>8. CASE /\ IsRoundOver(l.room)
             /\ Cardinality(DOMAIN l.upgrades) = Cardinality(E)
    <2>1. DOMAIN l.upgrades = E
      BY <1>2, <1>3, <1>8, AllReplied
    <2>2. l.asked = {}
      BY <2>1 DEF Upgrading, E
    <2>3. CASE GameWinners(room) = {}
      <3>1. Upgrade(l) = Emitted(done, "upgradeResult")
        BY <1>1, <1>8, <2>3
      <3>2. /\ Alike(done, Upgrade(l), {"signals"})
            /\ Upgrade(l).signals = done.signals \cup {"upgradeResult"}
        BY <1>4, <1>6, <3>1
      <3>3. /\ Alike(l, Upgrade(l), {"room", "state", "signals"})
            /\ Upgrade(l).room = room /\ Upgrade(l).state = "BeforeRoundStart"
            /\ Upgrade(l).signals = l.signals \cup {"upgradeResult"}
        BY <1>4, <3>2 DEF Alike, Fields
      <3> QED
        BY <2>1, <2>2, <2>3, <3>3 DEF room, E
    <2>4. CASE GameWinners(room) # {}
      <3>1. Upgrade(l) = Emitted(over, "gameOver")
        BY <1>1, <1>8, <2>4
      <3>2. /\ Alike(over, Upgrade(l), {"signals"})
            /\ Upgrade(l).signals = over.signals \cup {"gameOver"}
        BY <1>5, <1>6, <3>1
      <3>3. /\ Alike(l, Upgrade(l), {"room", "state", "signals"})
            /\ Upgrade(l).room = reset /\ Upgrade(l).state = "BeforeRoundStart"
            /\ Upgrade(l).signals = l.signals \cup {"gameOver"}
        BY <1>4, <1>5, <3>2 DEF Alike, Fields
      <3> QED
        BY <2>1, <2>2, <2>4, <3>3 DEF room, reset, E
    <2> QED
      BY <2>3, <2>4
  <1> QED
    BY <1>7, <1>8

\* Applying the upgrades leaves LogicP in step.
LEMMA UpgradeInStep ==
    ASSUME NEW l, IsLogicP(l), l.state = "Upgrade", Upgrading(l)
    PROVE  InStep(Upgrade(l))
  <1> DEFINE m == Upgrade(l)
  <1>1. \/ m = l
        \/ /\ l.asked = {} /\ Alike(l, m, {"room", "state", "signals"})
           /\ m.state = "BeforeRoundStart"
    BY UpgradesEvaluated
  <1> HIDE DEF m
  <1>2. m = l \/ (m.asked = {} /\ m.state = "BeforeRoundStart")
    BY <1>1 DEF Alike, Fields
  <1> QED
    BY <1>2 DEF InStep, m

-----------------------------------------------------------------------------
(* Each slot records its reply and runs on. *)

\* Changing one field of a record that has LogicP's fields.
LEMMA OneField ==
    ASSUME NEW a, HasFields(a), NEW v
    PROVE  /\ LET m == [a EXCEPT !.rpsForActionReplies = v]
              IN  /\ HasFields(m) /\ m.rpsForActionReplies = v
                  /\ Alike(a, m, {"rpsForActionReplies"})
           /\ LET m == [a EXCEPT !.rpsForActionOrderReplies = v]
              IN  /\ HasFields(m) /\ m.rpsForActionOrderReplies = v
                  /\ Alike(a, m, {"rpsForActionOrderReplies"})
           /\ LET m == [a EXCEPT !.upgrades = v]
              IN  /\ HasFields(m) /\ m.upgrades = v
                  /\ Alike(a, m, {"upgrades"})
           /\ LET m == [a EXCEPT !.room = v]
              IN  /\ HasFields(m) /\ m.room = v
                  /\ Alike(a, m, {"room"})
           /\ LET m == [a EXCEPT !.asked = v]
              IN  /\ HasFields(m) /\ m.asked = v
                  /\ Alike(a, m, {"asked"})
  BY DEF HasFields, Fields, Alike

\* The reply is to a request that is no longer out, and nothing is emitted yet.
LEMMA CallBegun ==
    ASSUME IsLogicP(logic), NEW p
    PROVE  /\ IsLogicP(NewCall) /\ Alike(logic, NewCall, {"signals"})
           /\ NewCall.signals = {}
           /\ IsLogicP(Answered(p)) /\ Alike(logic, Answered(p), {"signals", "asked"})
           /\ Answered(p).signals = {}
           /\ Answered(p).asked = logic.asked \ {p}
  <1>1. /\ IsLogicP(NewCall) /\ Alike(logic, NewCall, {"signals"})
        /\ IsLogicP(Answered(p)) /\ Alike(logic, Answered(p), {"signals", "asked"})
    BY AnsweredType DEF Alike
  <1>2. HasFields(NewCall) /\ NewCall.signals = {}
    BY DEF IsLogicP, HasFields, Fields, NewCall
  <1> DEFINE n == NewCall
             rest == n.asked \ {p}
  <1>3. Answered(p) = [n EXCEPT !.asked = rest]
    BY DEF Answered
  <1> HIDE DEF n, rest
  <1>4. Answered(p).signals = n.signals /\ Answered(p).asked = rest
    BY <1>2, <1>3, OneField DEF Alike, Fields, n
  <1> QED
    BY <1>1, <1>2, <1>4 DEF n, rest, Alike, Fields

\* A throw for actions, recorded.
LEMMA ThrowTaken ==
    ASSUME Sound(logic), InStep(logic), NEW p \in logic.asked, NEW rps \in Throws,
           RpsReplyForAction(p, rps)
    PROVE  \E m : /\ IsLogicP(m) /\ Throwing(m)
                  /\ Alike(logic, m, {"rpsForActionReplies", "asked", "signals"})
                  /\ m.state = "RpsForAction" /\ m.signals = {}
                  /\ m.asked = logic.asked \ {p}
                  /\ logic' = RpsForAction(m)
  <1> DEFINE a == Answered(p)
             v == Insert(a.rpsForActionReplies, p, rps)
             m == [a EXCEPT !.rpsForActionReplies = v]
  <1>1. /\ IsLogicP(a) /\ Alike(logic, a, {"signals", "asked"})
        /\ a.signals = {} /\ a.asked = logic.asked \ {p}
    BY CallBegun DEF Sound
  <1>2. logic' = RpsForAction(m) /\ logic.state = "RpsForAction"
    BY DEF RpsReplyForAction
  <1>3. p \in Name /\ rps \in RockPaperScissors
    BY RepliesAssumption DEF Sound, IsLogicP, Typed
  <1>4. IsHash(v, Name, RockPaperScissors)
        /\ DOMAIN v = DOMAIN a.rpsForActionReplies \cup {p}
    <2>1. IsHash(a.rpsForActionReplies, Name, RockPaperScissors)
      BY <1>1 DEF IsLogicP, Typed
    <2> QED
      BY <1>3, <2>1, InsertType DEF Insert
  <1> HIDE DEF a, v
  <1>5. HasFields(m) /\ m.rpsForActionReplies = v
        /\ Alike(a, m, {"rpsForActionReplies"})
    BY <1>1, OneField DEF IsLogicP
  <1> HIDE DEF m
  <1>6. IsLogicP(m)
    BY <1>1, <1>4, <1>5 DEF IsLogicP, Typed, Fields, Alike
  <1>7. /\ Alike(logic, m, {"rpsForActionReplies", "asked", "signals"})
        /\ m.state = "RpsForAction" /\ m.signals = {}
        /\ m.asked = logic.asked \ {p}
        /\ a.rpsForActionReplies = logic.rpsForActionReplies
        /\ m.room = logic.room
    BY <1>1, <1>2, <1>5 DEF Fields, Alike
  <1>8. Throwing(logic)
    BY <1>2 DEF InStep
  <1>9. Throwing(m)
    BY <1>4, <1>5, <1>7, <1>8 DEF Throwing
  <1> QED
    BY <1>2, <1>6, <1>7, <1>9

\* A throw for an order, recorded.
LEMMA ContestThrowTaken ==
    ASSUME Sound(logic), InStep(logic), NEW p \in logic.asked, NEW rps \in Throws,
           RpsReplyForActionOrder(p, rps)
    PROVE  \E m : /\ IsLogicP(m) /\ Contesting(m)
                  /\ Alike(logic, m, {"rpsForActionOrderReplies", "asked", "signals"})
                  /\ m.state = "RpsForActionOrder" /\ m.signals = {}
                  /\ m.asked = logic.asked \ {p}
                  /\ logic' = RpsForActionOrder(m)
  <1> DEFINE a == Answered(p)
             v == Insert(a.rpsForActionOrderReplies, p, rps)
             m == [a EXCEPT !.rpsForActionOrderReplies = v]
  <1>1. /\ IsLogicP(a) /\ Alike(logic, a, {"signals", "asked"})
        /\ a.signals = {} /\ a.asked = logic.asked \ {p}
    BY CallBegun DEF Sound
  <1>2. logic' = RpsForActionOrder(m) /\ logic.state = "RpsForActionOrder"
    BY DEF RpsReplyForActionOrder
  <1>3. p \in Name /\ rps \in RockPaperScissors
    BY RepliesAssumption DEF Sound, IsLogicP, Typed
  <1>4. IsHash(v, Name, RockPaperScissors)
        /\ DOMAIN v = DOMAIN a.rpsForActionOrderReplies \cup {p}
    <2>1. IsHash(a.rpsForActionOrderReplies, Name, RockPaperScissors)
      BY <1>1 DEF IsLogicP, Typed
    <2> QED
      BY <1>3, <2>1, InsertType DEF Insert
  <1> HIDE DEF a, v
  <1>5. HasFields(m) /\ m.rpsForActionOrderReplies = v
        /\ Alike(a, m, {"rpsForActionOrderReplies"})
    BY <1>1, OneField DEF IsLogicP
  <1> HIDE DEF m
  <1>6. IsLogicP(m)
    BY <1>1, <1>4, <1>5 DEF IsLogicP, Typed, Fields, Alike
  <1>7. /\ Alike(logic, m, {"rpsForActionOrderReplies", "asked", "signals"})
        /\ m.state = "RpsForActionOrder" /\ m.signals = {}
        /\ m.asked = logic.asked \ {p}
        /\ a.rpsForActionOrderReplies = logic.rpsForActionOrderReplies
        /\ m.room = logic.room
        /\ m.rpsForActionWinners = logic.rpsForActionWinners
        /\ m.confirmedActionOrders = logic.confirmedActionOrders
        /\ m.desiredActionOrders = logic.desiredActionOrders
        /\ m.actionOrderYields = logic.actionOrderYields
        /\ m.currentStrivingActionOrder = logic.currentStrivingActionOrder
        /\ m.actionOrderRemainingSelections = logic.actionOrderRemainingSelections
    BY <1>1, <1>2, <1>5 DEF Fields, Alike
  <1>8. Contesting(logic)
    BY <1>2 DEF InStep
  <1>9. Bidding(m)
    BY <1>7, <1>8
      DEF Contesting, Bidding, Granted, Thrown, Orders, Spent, Held, Wanted
  <1>10. Contesting(m)
    BY <1>4, <1>5, <1>7, <1>8, <1>9 DEF Contesting
  <1> QED
    BY <1>2, <1>6, <1>7, <1>10

\* The orders that a reply asks for: distinct, free, and no more of them than
\* there are selections; a list that is not accepted asks for none.
ChosenOrders(p, list) ==
    IF OrderListAccepted(p, list)
    THEN {o \in Order : \E i \in DOMAIN list : list[i] = o} ELSE {}

LEMMA ChosenRange ==
    ASSUME Sound(logic), InStep(logic), logic.state = "ActionOrder",
           NEW p \in DOMAIN logic.actionOrderRemainingSelections,
           NEW list \in OrderReplies
    PROVE  /\ ChosenOrders(p, list)
                 \subseteq Orders(logic) \ DOMAIN logic.confirmedActionOrders
           /\ ChosenOrders(p, list) \subseteq Order
           /\ IsFiniteSet(ChosenOrders(p, list))
           /\ Cardinality(ChosenOrders(p, list)) \in Nat
           /\ Cardinality(ChosenOrders(p, list))
                 <= logic.actionOrderRemainingSelections[p]
           /\ logic.actionOrderRemainingSelections[p] \in Nat
  <1> DEFINE chosen == ChosenOrders(p, list)
             n == logic.actionOrderRemainingSelections[p]
  <1>1. n \in Nat
    BY DEF InStep, Choosing
  <1>2. list \in Seq(Nat)
    BY RepliesAssumption
  <1>3. CASE ~OrderListAccepted(p, list)
    <2>1. chosen = {}
      BY <1>3 DEF ChosenOrders
    <2>2. IsFiniteSet(chosen) /\ Cardinality(chosen) = 0
      BY <2>1, FS_EmptySet
    <2> QED
      BY <1>1, <2>1, <2>2
  <1>4. CASE OrderListAccepted(p, list)
    <2>1. chosen = {o \in Order : \E i \in DOMAIN list : list[i] = o}
      BY <1>4 DEF ChosenOrders
    <2>2. DOMAIN list = 1..Len(list) /\ Len(list) = n /\ Len(list) \in Nat
      BY <1>2, <1>4 DEF OrderListAccepted
    <2>3. chosen \subseteq Orders(logic) \ DOMAIN logic.confirmedActionOrders
      <3> SUFFICES ASSUME NEW o \in chosen
                   PROVE  o \in Orders(logic) \ DOMAIN logic.confirmedActionOrders
        OBVIOUS
      <3>1. PICK i \in DOMAIN list : list[i] = o
        BY <2>1
      <3>2. o # 0
        BY <2>1, Finiteness DEF Order
      <3> QED
        BY <1>4, <3>1, <3>2 DEF OrderListAccepted, Orders
    <2> DEFINE used == {i \in DOMAIN list : list[i] \in chosen}
               f == [i \in used |-> list[i]]
    <2>4. f \in Surjection(used, chosen)
      <3>1. f \in [used -> chosen]
        OBVIOUS
      <3>2. \A o \in chosen : \E i \in used : f[i] = o
        BY <2>1
      <3> QED
        BY <3>1, <3>2 DEF Surjection
    <2>5. used \in SUBSET (1..n)
      BY <2>2
    <2> HIDE DEF used, f, chosen, n
    <2>6. 1 \in Int /\ n \in Int
      BY <1>1
    <2>7. IsFiniteSet(1..n) /\ Cardinality(1..n) = n
      BY <1>1, <2>6, FS_Interval
    <2>8. IsFiniteSet(used) /\ Cardinality(used) <= n /\ Cardinality(used) \in Nat
      BY <2>5, <2>7, FS_Subset, FS_CardinalityType
    <2>9. IsFiniteSet(chosen) /\ Cardinality(chosen) <= Cardinality(used)
          /\ Cardinality(chosen) \in Nat
      BY <2>4, <2>8, FS_Surjection, FS_CardinalityType
    <2>10. Cardinality(chosen) <= n
      BY <1>1, <2>8, <2>9
    <2>11. chosen \subseteq Order
      BY <2>1
    <2> QED
      BY <1>1, <2>3, <2>9, <2>10, <2>11 DEF chosen, n
  <1> QED
    BY <1>3, <1>4

\* A list of orders, recorded: what it does not ask for is yielded.
LEMMA ListTaken ==
    ASSUME Sound(logic), InStep(logic), NEW p \in logic.asked,
           NEW list \in OrderReplies, ActionOrderReply(p, list)
    PROVE  \E m : /\ IsLogicP(m) /\ Bidding(m)
                  /\ Alike(logic, m, {"desiredActionOrders", "actionOrderYields",
                                      "actionOrderRemainingSelections",
                                      "asked", "signals"})
                  /\ m.state = "ActionOrder" /\ m.signals = {}
                  /\ m.asked = logic.asked \ {p}
                  /\ m.asked = DOMAIN m.actionOrderRemainingSelections
                  /\ m.asked # {} => Choosing(m)
                  /\ \A q \in m.rpsForActionWinners.winners :
                        Spent(m, q) + Selected(m, q) = m.rpsForActionWinners.times
                  /\ logic' = ActionOrder(m)
  <1> DEFINE a == Answered(p)
             S == logic.actionOrderRemainingSelections
             Y == logic.actionOrderYields
             D == logic.desiredActionOrders
             W == logic.rpsForActionWinners.winners
             T == logic.rpsForActionWinners.times
             chosen == ChosenOrders(p, list)
             yields == S[p] - Cardinality(chosen)
             desired == D \cup (chosen \X {p})
             yielded == [Y EXCEPT ![p] = @ + yields]
             rest == [q \in DOMAIN S \ {p} |-> S[q]]
             m == [a EXCEPT !.desiredActionOrders = desired,
                            !.actionOrderYields = yielded,
                            !.actionOrderRemainingSelections = rest]
  <1>1. /\ IsLogicP(a) /\ Alike(logic, a, {"signals", "asked"})
        /\ a.signals = {} /\ a.asked = logic.asked \ {p}
    BY CallBegun DEF Sound
  <1>2. logic.state = "ActionOrder" /\ p \in DOMAIN S
    BY DEF ActionOrderReply
  <1>3. Choosing(logic) /\ Bidding(logic) /\ IsLogicP(logic)
    BY <1>2 DEF InStep, Choosing, Sound
  <1>4. /\ chosen \subseteq Orders(logic) \ DOMAIN logic.confirmedActionOrders
        /\ chosen \subseteq Order
        /\ Cardinality(chosen) \in Nat /\ Cardinality(chosen) <= S[p]
        /\ S[p] \in Nat
    BY <1>2, ChosenRange
  <1>5. logic' = ActionOrder(m)
    <2>1. logic' = ActionOrder([a EXCEPT
             !.desiredActionOrders = @ \cup (chosen \X {p}),
             !.actionOrderYields[p] = @ + yields,
             !.actionOrderRemainingSelections = [q \in DOMAIN @ \ {p} |-> @[q]]])
      BY DEF ActionOrderReply, ChosenOrders
    <2>2. /\ a.desiredActionOrders = D /\ a.actionOrderYields = Y
          /\ a.actionOrderRemainingSelections = S
      BY <1>1 DEF Alike, Fields
    <2> HIDE DEF a, chosen, yields, D, Y, S
    <2>3. m = [a EXCEPT
             !.desiredActionOrders = @ \cup (chosen \X {p}),
             !.actionOrderYields[p] = @ + yields,
             !.actionOrderRemainingSelections = [q \in DOMAIN @ \ {p} |-> @[q]]]
      BY <1>1, <2>2 DEF IsLogicP, HasFields, Fields
    <2> QED
      BY <2>1, <2>3
  <1>6. p \in W /\ p \in Name /\ W \subseteq Name /\ T \in Nat
        /\ Y \in [Name -> Int] /\ Y[p] \in Nat
    BY <1>2, <1>3 DEF Choosing, IsLogicP, Typed, Bidding, Granted
  <1>7. yields \in Nat
    BY <1>4
  <1>8. desired \subseteq (Orders(logic) \ DOMAIN logic.confirmedActionOrders) \X W
        /\ desired \subseteq Order \X Name
    BY <1>3, <1>4, <1>6 DEF Bidding, IsLogicP, Typed
  <1>9. /\ yielded \in [Name -> Int] /\ yielded[p] = Y[p] + yields
        /\ \A q \in Name \ {p} : yielded[q] = Y[q]
    BY <1>6, <1>7
  <1>10. IsHash(rest, Name, Int) /\ DOMAIN rest = DOMAIN S \ {p}
         /\ \A q \in DOMAIN rest : rest[q] = S[q]
    BY <1>3 DEF IsLogicP, Typed, IsHash
  <1> HIDE DEF a, desired, yielded, rest
  <1>11. /\ HasFields(m)
         /\ Alike(a, m, {"desiredActionOrders", "actionOrderYields",
                         "actionOrderRemainingSelections"})
         /\ m.desiredActionOrders = desired /\ m.actionOrderYields = yielded
         /\ m.actionOrderRemainingSelections = rest
    BY <1>1 DEF IsLogicP, HasFields, Fields, Alike
  <1> HIDE DEF m
  <1>12. IsLogicP(m)
    BY <1>1, <1>8, <1>9, <1>10, <1>11 DEF IsLogicP, Typed, Fields, Alike
  <1>13. /\ Alike(logic, m, {"desiredActionOrders", "actionOrderYields",
                             "actionOrderRemainingSelections", "asked", "signals"})
         /\ m.state = "ActionOrder" /\ m.signals = {}
         /\ m.asked = logic.asked \ {p} /\ m.room = logic.room
         /\ m.rpsForActionWinners = logic.rpsForActionWinners
         /\ m.confirmedActionOrders = logic.confirmedActionOrders
    BY <1>1, <1>2, <1>11 DEF Fields, Alike
  <1>14. Granted(m)
    <2>1. \A q \in Name : m.actionOrderYields[q] \in Nat
      BY <1>3, <1>6, <1>7, <1>9, <1>11 DEF Bidding, Granted
    <2>2. \A q \in Name : q \notin W => m.actionOrderYields[q] = 0
      BY <1>3, <1>6, <1>9, <1>11 DEF Bidding, Granted
    <2>3. Thrown(m)
      BY <1>3, <1>13 DEF Bidding, Granted, Thrown
    <2> QED
      BY <1>3, <1>13, <2>1, <2>2, <2>3 DEF Bidding, Granted, Orders
  <1>15. Wanted(m, p) = chosen /\ \A q \in Name \ {p} : Wanted(m, q) = Wanted(logic, q)
    <2>1. Wanted(logic, p) = {}
      BY <1>2, <1>3 DEF Choosing
    <2>2. \A o \in Order : <<o, p>> \notin D
      BY <2>1 DEF Wanted
    <2>3. \A o \in Order : <<o, p>> \in desired <=> o \in chosen
      BY <2>2 DEF desired
    <2>4. \A o \in Order : \A q \in Name \ {p} : <<o, q>> \in desired <=> <<o, q>> \in D
      BY DEF desired
    <2> HIDE DEF chosen, D
    <2> QED
      BY <1>4, <1>11, <2>3, <2>4 DEF Wanted, D
  <1>16. \A q : Held(m, q) = Held(logic, q)
    BY <1>13 DEF Held
  <1>17. /\ Spent(m, p) = T /\ Selected(m, p) = 0
         /\ \A q \in W \ {p} : /\ Spent(m, q) = Spent(logic, q)
                               /\ Selected(m, q) = Selected(logic, q)
    <2> DEFINE h == Cardinality(Held(logic, p))
               c == Cardinality(chosen)
    <2>1. /\ h \in Nat /\ c \in Nat /\ S[p] \in Nat /\ Y[p] \in Nat
      BY <1>3, <1>4, <1>6, HeldType DEF IsLogicP, Typed
    <2>2. h + Y[p] + S[p] = T
      <3>1. Spent(logic, p) + Selected(logic, p) = T
        BY <1>3, <1>6 DEF Choosing
      <3>2. Wanted(logic, p) = {} /\ Selected(logic, p) = S[p]
        BY <1>2, <1>3 DEF Choosing, Selected
      <3>3. Spent(logic, p) = h + Y[p] + 0
        BY <3>2, FS_EmptySet DEF Spent
      <3> QED
        BY <2>1, <3>1, <3>2, <3>3
    <2>3. Spent(m, p) = h + (Y[p] + (S[p] - c)) + c
      BY <1>9, <1>11, <1>15, <1>16 DEF Spent
    <2>4. Spent(m, p) = T
      BY <2>1, <2>2, <2>3
    <2>5. Selected(m, p) = 0
      BY <1>10, <1>11 DEF Selected
    <2>6. ASSUME NEW q \in W \ {p}
          PROVE  /\ Spent(m, q) = Spent(logic, q)
                 /\ Selected(m, q) = Selected(logic, q)
      <3>1. q \in Name \ {p}
        BY <1>6
      <3>2. Spent(m, q) = Spent(logic, q)
        BY <1>9, <1>11, <1>15, <1>16, <3>1 DEF Spent
      <3>3. Selected(m, q) = Selected(logic, q)
        BY <1>10, <1>11 DEF Selected
      <3> QED
        BY <3>2, <3>3
    <2> QED
      BY <2>4, <2>5, <2>6
  <1>18. \A q \in W : Spent(m, q) + Selected(m, q) = T
    BY <1>3, <1>6, <1>17 DEF Choosing
  <1>19. Bidding(m)
    <2>1. \A q \in W : Spent(m, q) <= T
      BY <1>3, <1>6, <1>17 DEF Bidding
    <2> QED
      BY <1>8, <1>11, <1>13, <1>14, <2>1 DEF Bidding, Orders
  <1>20. m.asked = DOMAIN m.actionOrderRemainingSelections
    BY <1>3, <1>10, <1>11, <1>13 DEF Choosing
  <1>21. ASSUME m.asked # {} PROVE Choosing(m)
    <2>1. \A q \in DOMAIN rest : /\ m.actionOrderRemainingSelections[q] \in Nat
                                 /\ Wanted(m, q) = {}
      <3> SUFFICES ASSUME NEW q \in DOMAIN rest
                   PROVE  /\ m.actionOrderRemainingSelections[q] \in Nat
                          /\ Wanted(m, q) = {}
        OBVIOUS
      <3>1. q \in DOMAIN S /\ q # p /\ q \in Name
        BY <1>3, <1>6, <1>10 DEF Choosing
      <3> QED
        BY <1>3, <1>10, <1>11, <1>15, <3>1 DEF Choosing
    <2>2. DOMAIN rest \subseteq W
      BY <1>3, <1>10 DEF Choosing
    <2> QED
      BY <1>11, <1>13, <1>18, <1>19, <1>20, <1>21, <2>1, <2>2 DEF Choosing
  <1> QED
    BY <1>5, <1>12, <1>13, <1>18, <1>19, <1>20, <1>21

\* An action, carried out or not, with the orders as they were.
LEMMA TurnTaken ==
    ASSUME Sound(logic), InStep(logic), NEW p \in logic.asked,
           NEW reply \in ActionReplies, ActionReply(p, reply)
    PROVE  \E m : /\ IsLogicP(m) /\ Settled(m)
                  /\ Alike(logic, m, {"room", "asked", "signals"})
                  /\ m.state = "Action" /\ m.signals = {"actionResult"}
                  /\ m.asked = {}
                  /\ m.room = IF ActionFeasible(logic.room, p, reply)
                              THEN ApplyAction(logic.room, p, reply)
                              ELSE logic.room
                  /\ RoomKept(logic.room, m.room)
                  /\ logic' = StartAction(m)
  <1> DEFINE a == Answered(p)
             e == Emitted(a, "actionResult")
             room == IF ActionFeasible(logic.room, p, reply)
                     THEN ApplyAction(logic.room, p, reply) ELSE logic.room
             m == [e EXCEPT !.room = room]
  <1>1. /\ IsLogicP(a) /\ Alike(logic, a, {"signals", "asked"})
        /\ a.signals = {} /\ a.asked = logic.asked \ {p}
    BY CallBegun DEF Sound
  <1>2. logic.state = "Action" /\ p \in DOMAIN logic.room
    BY DEF ActionReply
  <1>3. Acting(logic) /\ logic.asked \ {p} = {}
    BY <1>2 DEF InStep, Acting
  <1>4. RoomKept(logic.room, room)
    <2>1. IsRoom(logic.room)
      BY RoomIsRoom DEF Sound
    <2>2. reply.toPlace \in Int
      BY RepliesAssumption
    <2>3. CASE ActionFeasible(logic.room, p, reply)
      <3>1. \A q \in DOMAIN logic.room :
               StatsInBounds(logic.room[q]) /\ Spendable(logic.room[q])
        BY <1>2 DEF Sound, SpendableRoom
      <3> QED
        BY <1>2, <2>1, <2>2, <2>3, <3>1, ActionsKeepStats
    <2>4. CASE ~ActionFeasible(logic.room, p, reply)
      BY <2>1, <2>4, RoomKeptSelf
    <2> QED
      BY <2>3, <2>4
  <1>5. logic' = StartAction(m)
    <2>1. e.room = logic.room
      <3> HIDE DEF a
      <3>1. e.room = a.room
        BY <1>1, EmittedRuns DEF ResultSignals, Fields
      <3> QED
        BY <1>1, <3>1 DEF Alike, Fields
    <2> QED
      BY <2>1 DEF ActionReply
  <1> HIDE DEF a, room
  <1>6. /\ IsLogicP(e) /\ Alike(a, e, {"signals"})
        /\ e.signals = a.signals \cup {"actionResult"}
    <2>1. IsLogicP(e) /\ Alike(a, e, {"signals"})
      BY <1>1, EmittedRuns DEF ResultSignals, Alike
    <2>2. e.signals = a.signals \cup {"actionResult"}
      BY <1>1 DEF IsLogicP, HasFields, Fields, Emitted
    <2> QED
      BY <2>1, <2>2
  <1> HIDE DEF e
  <1>7. HasFields(m) /\ m.room = room /\ Alike(e, m, {"room"})
    BY <1>6, OneField DEF IsLogicP
  <1> HIDE DEF m
  <1>8. IsLogicP(m)
    <2>1. IsHash(room, Name, PlayerFields)
      BY <1>4 DEF RoomKept, IsRoom, IsHash
    <2> QED
      BY <1>6, <1>7, <2>1 DEF IsLogicP, Typed, Fields, Alike
  <1>9. /\ Alike(logic, m, {"room", "asked", "signals"})
        /\ m.state = "Action" /\ m.signals = {"actionResult"} /\ m.asked = {}
        /\ m.rpsForActionWinners = logic.rpsForActionWinners
        /\ m.confirmedActionOrders = logic.confirmedActionOrders
    BY <1>1, <1>2, <1>3, <1>6, <1>7 DEF Alike, Fields
  <1>10. Settled(m)
    <2>1. /\ Orders(m) = Orders(logic)
          /\ \A q : Held(m, q) = Held(logic, q) /\ Won(m, q) = Won(logic, q)
      BY <1>9 DEF Orders, Held, Won
    <2> QED
      BY <1>3, <1>9, <2>1 DEF Acting, Settled
  <1> QED
    BY <1>4, <1>5, <1>7, <1>8, <1>9, <1>10 DEF room

\* A list of upgrades, recorded.
LEMMA ItemsTaken ==
    ASSUME Sound(logic), InStep(logic), NEW p \in logic.asked,
           NEW items \in UpgradeReplies, UpgradeReply(p, items)
    PROVE  \E m : /\ IsLogicP(m) /\ Upgrading(m) /\ UpgradesInHand(m)
                  /\ Alike(logic, m, {"upgrades", "asked", "signals"})
                  /\ m.state = "Upgrade" /\ m.signals = {}
                  /\ m.asked = logic.asked \ {p}
                  /\ logic' = Upgrade(m)
  <1> DEFINE a == Answered(p)
             player == logic.room[p]
             chosen == IF UpgradeFeasible(player, items)
                       THEN items ELSE DefaultUpgrade(player)
             v == Insert(a.upgrades, p, chosen)
             m == [a EXCEPT !.upgrades = v]
  <1>1. /\ IsLogicP(a) /\ Alike(logic, a, {"signals", "asked"})
        /\ a.signals = {} /\ a.asked = logic.asked \ {p}
    BY CallBegun DEF Sound
  <1>2. /\ logic' = Upgrade(m) /\ logic.state = "Upgrade"
        /\ p \in DOMAIN logic.room /\ p \in Name
    BY DEF UpgradeReply, Sound, IsLogicP, Typed
  <1>3. a.upgrades = logic.upgrades
    BY <1>1 DEF Alike, Fields
  <1>4. /\ player \in PlayerFields /\ StatsInBounds(player) /\ Spendable(player)
    BY <1>2, RoomIsRoom DEF Sound, IsRoom, SpendableRoom
  <1>5. chosen \in ItemCounts /\ UpgradeFeasible(player, chosen)
    <2>1. items \in ItemCounts
      BY RepliesAssumption DEF ItemCounts
    <2> QED
      BY <1>4, <2>1, DefaultUpgradeFeasible
  <1>6. chosen \in UpgradeItems
    BY <1>5 DEF ItemCounts, UpgradeItems
  <1> HIDE DEF chosen
  <1>7. IsHash(v, Name, UpgradeItems) /\ DOMAIN v = DOMAIN logic.upgrades \cup {p}
    <2>1. IsHash(logic.upgrades, Name, UpgradeItems)
      BY DEF Sound, IsLogicP, Typed
    <2> QED
      BY <1>2, <1>3, <1>6, <2>1, InsertType DEF Insert
  <1>8. \A q \in DOMAIN v : /\ q \in DOMAIN logic.room
                            /\ v[q] \in ItemCounts
                            /\ UpgradeFeasible(logic.room[q], v[q])
    BY <1>2, <1>3, <1>5 DEF Insert, Sound, UpgradesInHand
  <1> HIDE DEF a, v
  <1>9. HasFields(m) /\ m.upgrades = v /\ Alike(a, m, {"upgrades"})
    BY <1>1, OneField DEF IsLogicP
  <1> HIDE DEF m
  <1>10. IsLogicP(m)
    BY <1>1, <1>7, <1>9 DEF IsLogicP, Typed, Fields, Alike
  <1>11. /\ Alike(logic, m, {"upgrades", "asked", "signals"})
         /\ m.state = "Upgrade" /\ m.signals = {}
         /\ m.asked = logic.asked \ {p} /\ m.room = logic.room
    BY <1>1, <1>2, <1>9 DEF Alike, Fields
  <1>12. Upgrading(logic) /\ Earners(m) = Earners(logic)
    BY <1>2, <1>11 DEF InStep, Earners
  <1>13. Upgrading(m)
    BY <1>7, <1>9, <1>11, <1>12 DEF Upgrading
  <1>14. UpgradesInHand(m)
    BY <1>8, <1>9, <1>11 DEF UpgradesInHand
  <1> QED
    BY <1>2, <1>10, <1>11, <1>13, <1>14

\* The seats of a round change no stats: a prepared room is a room.
LEMMA PreparedRoom ==
    ASSUME Sound(logic)
    PROVE  LET room == PrepareForRoundStart(logic.room)
           IN  /\ IsRoom(room) /\ DOMAIN room = DOMAIN logic.room
               /\ \A p \in DOMAIN room :
                     \E seat \in Int :
                        room[p] = PreparedForRoundStart(logic.room[p], seat)
  <1> DEFINE room == PrepareForRoundStart(logic.room)
  <1>1. IsRoom(logic.room)
    BY RoomIsRoom DEF Sound
  <1>2. DOMAIN room = DOMAIN logic.room /\ room = [p \in DOMAIN room |-> room[p]]
    BY DEF PrepareForRoundStart
  <1>3. ASSUME NEW p \in DOMAIN logic.room
        PROVE  /\ room[p] \in PlayerFields
               /\ \E seat \in Int :
                     room[p] = PreparedForRoundStart(logic.room[p], seat)
    <2> DEFINE seat == Cardinality({q \in DOMAIN logic.room : q <= p})
    <2>1. seat \in Int
      BY <1>1, Finiteness, FS_Subset, FS_CardinalityType DEF IsRoom
    <2>2. room[p] = PreparedForRoundStart(logic.room[p], seat)
      BY DEF PrepareForRoundStart
    <2> HIDE DEF seat
    <2>3. logic.room[p] \in PlayerFields /\ StatsInBounds(logic.room[p])
      BY <1>1 DEF IsRoom, Sound
    <2> QED
      BY <2>1, <2>2, <2>3, PreparedSpendable
  <1> HIDE DEF room
  <1> QED
    BY <1>1, <1>2, <1>3 DEF IsRoom, room

\* Between rounds nobody is asked for anything.
LEMMA RoomChangeInStep ==
    ASSUME Sound(logic), InStep(logic), NEW p \in Name,
           AddPlayer(p) \/ RemovePlayer(p)
    PROVE  /\ InStep(logic') /\ logic'.state = "BeforeRoundStart"
           /\ logic'.asked = {}
  <1>1. /\ HasFields(NewCall) /\ NewCall.state = "BeforeRoundStart"
        /\ NewCall.asked = {}
    <2>1. logic.state = "BeforeRoundStart" /\ logic.asked = {}
      BY DEF AddPlayer, RemovePlayer, InStep
    <2> QED
      BY <2>1, CallBegun DEF Sound, IsLogicP, Alike, Fields
  <1> DEFINE n == NewCall
             in == ResetUpgrades(Insert(n.room, p, NewPlayer))
             rest == [q \in DOMAIN n.room \ {p} |-> n.room[q]]
             out == ResetUpgrades(rest)
  <1>2. logic' = [n EXCEPT !.room = in] \/ logic' = [n EXCEPT !.room = out]
    BY DEF AddPlayer, RemovePlayer
  <1> HIDE DEF in, out
  <1>3. logic'.state = "BeforeRoundStart" /\ logic'.asked = {}
    <2>1. HasFields(n) /\ n.state = "BeforeRoundStart" /\ n.asked = {}
      BY <1>1
    <2> HIDE DEF n
    <2>2. PICK v : logic' = [n EXCEPT !.room = v]
      BY <1>2
    <2> QED
      BY <2>1, <2>2 DEF HasFields, Fields
  <1> QED
    BY <1>3 DEF InStep

\* The start of a round, with the room prepared for it.
LEMMA RoundBegun ==
    ASSUME Sound(logic), InStep(logic), RoundStart
    PROVE  \E m : /\ IsLogicP(m) /\ Alike(logic, m, {"room", "signals"})
                  /\ m.room = PrepareForRoundStart(logic.room)
                  /\ m.asked = {} /\ m.signals = {}
                  /\ Cardinality(DOMAIN logic.room) >= 2
                  /\ logic.state = "BeforeRoundStart"
                  /\ logic' = StartRpsForAction(m)
  <1> DEFINE n == NewCall
             room == PrepareForRoundStart(logic.room)
             m == [n EXCEPT !.room = room]
  <1>1. /\ IsLogicP(n) /\ Alike(logic, n, {"signals"}) /\ n.signals = {}
    BY CallBegun DEF Sound
  <1>2. logic.state = "BeforeRoundStart" /\ logic.asked = {}
        /\ Cardinality(DOMAIN logic.room) >= 2
    BY DEF RoundStart, InStep
  <1>3. IsRoom(room)
    BY PreparedRoom
  <1>4. logic' = StartRpsForAction(m)
    <2>1. n.room = logic.room
      BY <1>1 DEF Alike, Fields
    <2> QED
      BY <2>1 DEF RoundStart
  <1> HIDE DEF n, room
  <1>5. HasFields(m) /\ m.room = room /\ Alike(n, m, {"room"})
    BY <1>1, OneField DEF IsLogicP
  <1>6. IsLogicP(m)
    BY <1>1, <1>3, <1>5 DEF IsLogicP, Typed, Fields, Alike, IsRoom, IsHash
  <1> HIDE DEF m
  <1>7. Alike(logic, m, {"room", "signals"}) /\ m.asked = {} /\ m.signals = {}
    BY <1>1, <1>2, <1>5 DEF Fields, Alike
  <1> QED
    BY <1>2, <1>4, <1>5, <1>6, <1>7 DEF room

\* Every call of a slot leaves LogicP in step.
LEMMA NextInStep ==
    ASSUME Sound(logic), InStep(logic), [Next]_logic
    PROVE  InStep(logic')
  <1>1. ASSUME NEW p \in Name, AddPlayer(p) \/ RemovePlayer(p)
        PROVE  InStep(logic')
    BY <1>1, RoomChangeInStep
  <1>2. ASSUME RoundStart PROVE InStep(logic')
    BY <1>2, RoundBegun, NewThrowInStep
  <1>3. ASSUME NEW p \in logic.asked, NEW rps \in Throws, RpsReply(p, rps)
        PROVE  InStep(logic')
    <2>1. CASE RpsReplyForAction(p, rps)
      BY <2>1, ThrowTaken, RpsForActionInStep
    <2>2. CASE RpsReplyForActionOrder(p, rps)
      BY <2>2, ContestThrowTaken, RpsForActionOrderInStep
    <2> QED
      BY <1>3, <2>1, <2>2 DEF RpsReply
  <1>4. ASSUME NEW p \in logic.asked, NEW list \in OrderReplies,
               ActionOrderReply(p, list)
        PROVE  InStep(logic')
    <2>1. PICK m : /\ IsLogicP(m) /\ Bidding(m) /\ m.state = "ActionOrder"
                   /\ m.asked = DOMAIN m.actionOrderRemainingSelections
                   /\ m.asked # {} => Choosing(m)
                   /\ logic' = ActionOrder(m)
      BY <1>4, ListTaken
    <2>2. CASE m.asked # {}
      <3>1. logic' = m
        BY <2>1, <2>2 DEF ActionOrder
      <3> QED
        BY <2>1, <2>2, <3>1 DEF InStep
    <2>3. CASE m.asked = {}
      <3>1. logic' = StartRpsForActionOrder(m)
        BY <2>1, <2>3 DEF ActionOrder
      <3> QED
        BY <2>1, <2>3, <3>1, NewContestInStep DEF InRound
    <2> QED
      BY <2>2, <2>3
  <1>5. ASSUME NEW p \in logic.asked, NEW a \in ActionReplies, ActionReply(p, a)
        PROVE  InStep(logic')
    BY <1>5, TurnTaken, NextTurnInStep DEF InRound
  <1>6. ASSUME NEW p \in logic.asked, NEW items \in UpgradeReplies,
               UpgradeReply(p, items)
        PROVE  InStep(logic')
    BY <1>6, ItemsTaken, UpgradeInStep
  <1>7. CASE UNCHANGED logic
    BY <1>7
  <1> QED
    BY <1>1, <1>2, <1>3, <1>4, <1>5, <1>6, <1>7 DEF Next, Reply

\* LogicP is always in step: the inductive invariant of the negotiation.
LEMMA AlwaysInStep == Spec => [](Sound(logic) /\ InStep(logic))
  <1>1. Init => Sound(logic) /\ InStep(logic)
    <2>1. Init => InStep(logic)
      BY DEF Init, InStep
    <2> QED
      BY <2>1, InitSound
  <1>2. Sound(logic) /\ InStep(logic) /\ [Next]_logic
           => (Sound(logic) /\ InStep(logic))'
    BY NextSound, NextInStep
  <1> QED
    BY <1>1, <1>2, PTL DEF Spec

-----------------------------------------------------------------------------
(* The invariants of the negotiation. *)

\* The counts of Logic are those of this module.
LEMMA Counts ==
    /\ \A p : Holding(p) = Cardinality(Held(logic, p))
    /\ \A p : Desiring(p) = Cardinality(Wanted(logic, p))
    /\ \A p : Selecting(p) = Selected(logic, p)
  BY DEF Holding, Held, Desiring, Wanted, Selecting, Selected

\* However the orders are contested, a winner's selections add up: none is lost
\* and none is counted twice, in any room and for any lists of orders.
THEOREM LogicSelectionsAddUp == Spec => []SelectionsAddUp
  <1>1. Sound(logic) /\ InStep(logic) => SelectionsAddUp
    <2> SUFFICES ASSUME Sound(logic), InStep(logic),
                        logic.state \in {"ActionOrder", "RpsForActionOrder"},
                        NEW p \in logic.rpsForActionWinners.winners
                 PROVE  LET used == Holding(p) + logic.actionOrderYields[p]
                                       + Desiring(p) + Selecting(p)
                        IN  /\ used <= logic.rpsForActionWinners.times
                            /\ logic.state = "ActionOrder"
                                  => used = logic.rpsForActionWinners.times
      BY DEF SelectionsAddUp
    <2> DEFINE t == logic.rpsForActionWinners.times
    <2>1. Holding(p) + logic.actionOrderYields[p] + Desiring(p) = Spent(logic, p)
          /\ Selecting(p) = Selected(logic, p)
      BY Counts DEF Spent
    <2>2. t \in Nat
      BY DEF Sound, IsLogicP, Typed
    <2>3. CASE logic.state = "ActionOrder"
      <3>1. Spent(logic, p) + Selected(logic, p) = t
        BY <2>3 DEF InStep, Choosing
      <3> QED
        BY <2>1, <2>2, <3>1
    <2>4. CASE logic.state = "RpsForActionOrder"
      <3>1. Spent(logic, p) <= t /\ Selected(logic, p) = 0
        BY <2>4 DEF InStep, Contesting, Bidding, Selected
      <3>2. /\ Cardinality(Held(logic, p)) \in Nat
            /\ Cardinality(Wanted(logic, p)) \in Nat
            /\ logic.actionOrderYields[p] \in Int
        <4>1. IsHash(logic.confirmedActionOrders, Order, Name)
              /\ logic.actionOrderYields[p] \in Int
          BY DEF Sound, IsLogicP, Typed
        <4>2. Wanted(logic, p) \in SUBSET Order
          BY DEF Wanted
        <4> QED
          BY <4>1, <4>2, HeldType, Finiteness, FS_Subset, FS_CardinalityType
      <3>3. Spent(logic, p) \in Int
        BY <3>2 DEF Spent
      <3> QED
        BY <2>1, <2>2, <2>4, <3>1, <3>3
    <2> QED
      BY <2>3, <2>4
  <1> QED
    BY <1>1, AlwaysInStep, PTL

\* Nobody is asked to throw for an order that is held or that nobody contests.
THEOREM LogicContestsAreReal == Spec => []ContestsAreReal
  <1>1. Sound(logic) /\ InStep(logic) => ContestsAreReal
    <2> SUFFICES ASSUME Sound(logic), InStep(logic),
                        logic.state = "RpsForActionOrder"
                 PROVE  ContestsAreReal
      BY DEF ContestsAreReal
    <2> DEFINE order == logic.currentStrivingActionOrder
               striving == Desirers(logic.desiredActionOrders, order)
    <2>1. /\ Bidding(logic) /\ order \in Order /\ Cardinality(striving) >= 2
      BY DEF InStep, Contesting
    <2>2. striving # {}
      BY <2>1, FS_EmptySet
    <2>3. PICK p \in striving : TRUE
      BY <2>2
    <2>4. <<order, p>> \in logic.desiredActionOrders
      BY DEF Desirers
    <2>5. order \notin DOMAIN logic.confirmedActionOrders
      BY <2>1, <2>4 DEF Bidding
    <2> QED
      BY <2>1, <2>5 DEF ContestsAreReal
  <1> QED
    BY <1>1, AlwaysInStep, PTL

\* When turns begin no order is without a holder, and everybody holds as many as
\* the throw gave, whatever was contested, yielded and dealt out.
THEOREM LogicOrdersSettled == Spec => []OrdersSettled
  <1>1. Sound(logic) /\ InStep(logic) => OrdersSettled
    BY Counts DEF InStep, Acting, Settled, OrdersSettled, Orders, Won
  <1> QED
    BY <1>1, AlwaysInStep, PTL

=============================================================================

---------------------------- MODULE TxPoolProofs ----------------------------
(***************************************************************************)
(* Proofs about the transaction pool, for any transactions, blocks and     *)
(* limits.  First what the recursions over sets and sequences compute, and *)
(* what each operation does to the table and its indexes; then the         *)
(* inductive invariant PoolInv, one lemma per action; then the theorems.   *)
(***************************************************************************)
EXTENDS TxPool, FiniteSetTheorems, WellFoundedInduction, TLAPS
-----------------------------------------------------------------------------
(* Induction and recursion.                                                *)

(* Induction over the natural numbers, of a set.                           *)
LEMMA SetInduction ==
  ASSUME NEW S, 0 \in S, \A n \in Nat : n \in S => n + 1 \in S
  PROVE  Nat \subseteq S
<1> SUFFICES ASSUME Nat \ S # {} PROVE FALSE
  OBVIOUS
<1> DEFINE T == Nat \ S
<1>1. PICK x \in T : \A y \in T : ~ (<<y, x>> \in OpToRel(<, Nat))
  BY Zenon, NatLessThanWellFounded, WFMin
<1>2. \A y \in T : ~ (y < x)
  BY Zenon, <1>1 DEF OpToRel
<1>3. x \in Nat /\ x \notin S /\ x # 0
  OBVIOUS
<1>4. x - 1 \in Nat /\ x - 1 < x /\ (x - 1) + 1 = x
  BY <1>3
<1>5. x - 1 \in S
  BY Zenon, <1>2, <1>4
<1> QED BY Zenon, <1>3, <1>4, <1>5

(* The same up to a bound.                                                 *)
LEMMA Climb ==
  ASSUME NEW L \in Nat, NEW S, 0 \in S,
         \A n \in Nat : n + 1 <= L /\ n \in S => n + 1 \in S
  PROVE  L \in S
<1> DEFINE I == {n \in Nat : n <= L => n \in S}
<1>1. 0 \in I
  OBVIOUS
<1>2. ASSUME NEW n \in Nat, n \in I PROVE n + 1 \in I
  <2>1. n + 1 \in Nat /\ (n + 1 <= L => n <= L)
    OBVIOUS
  <2> QED BY Zenon, <1>2, <2>1
<1>3. Nat \subseteq I
  <2> HIDE DEF I
  <2> QED BY Zenon, <1>1, <1>2, SetInduction
<1>4. L \in I /\ L <= L
  BY <1>3
<1> QED BY Zenon, <1>4

(* A nonempty set of natural numbers has a least element, Min.             *)
LEMMA LeastOf ==
  ASSUME NEW S, S \subseteq Nat, S # {}
  PROVE  Min(S) \in S /\ \A m \in S : Min(S) <= m
<1>1. PICK x \in S : \A y \in S : ~ (<<y, x>> \in OpToRel(<, Nat))
  BY Zenon, NatLessThanWellFounded, WFMin
<1>2. \A y \in S : ~ (y < x)
  BY Zenon, <1>1 DEF OpToRel
<1>3. \A y \in S : x <= y
  BY <1>2
<1> QED BY Zenon, <1>3 DEF Min

(* k solves the recursion that starts at b and goes on by F.               *)
Unrolled(k, b, L, F) == k[0] = b /\ \A n \in 1 .. L : k[n] = F[k[n - 1]][n]

(* A recursion over 0 .. L whose steps stay in a set V has a solution.     *)
LEMMA Unrolls ==
  ASSUME NEW V, NEW b \in V, NEW L \in Nat, NEW F \in [V -> [1 .. L -> V]]
  PROVE  \E k \in [0 .. L -> V] : Unrolled(k, b, L, F)
<1> DEFINE Up(m, k) == k[0] = b /\ \A n \in 1 .. m : k[n] = F[k[n - 1]][n]
           I == {m \in Nat : \E k \in [0 .. m -> V] : Up(m, k)}
<1>1. 0 \in I
  <2> DEFINE k == [n \in 0 .. 0 |-> b]
  <2>1. k \in [0 .. 0 -> V] /\ Up(0, k)
    OBVIOUS
  <2> QED BY Zenon, <2>1
<1>2. ASSUME NEW m \in Nat, m + 1 <= L, m \in I PROVE m + 1 \in I
  <2>1. PICK k \in [0 .. m -> V] : Up(m, k)
    BY Zenon, <1>2
  <2> DEFINE v == F[k[m]][m + 1]
             g == [n \in 0 .. m + 1 |-> IF n = m + 1 THEN v ELSE k[n]]
  <2>2. v \in V
    <3>1. m \in 0 .. m /\ m + 1 \in 1 .. L
      BY <1>2
    <3> QED BY Zenon, <3>1
  <2> HIDE DEF v
  <2>3. g \in [0 .. m + 1 -> V]
    BY <2>2
  <2>4. /\ g[m + 1] = v /\ g[0] = k[0] /\ g[(m + 1) - 1] = k[m]
        /\ \A n \in 1 .. m : g[n] = k[n] /\ g[n - 1] = k[n - 1]
    OBVIOUS
  <2> HIDE DEF g
  <2>5. ASSUME NEW n \in 1 .. m + 1 PROVE g[n] = F[g[n - 1]][n]
    <3>1. n = m + 1 \/ n \in 1 .. m
      OBVIOUS
    <3> QED BY Zenon, <2>1, <2>4, <3>1 DEF v
  <2>6. Up(m + 1, g)
    BY Zenon, <2>1, <2>4, <2>5
  <2>7. m + 1 \in Nat
    OBVIOUS
  <2> HIDE DEF Up
  <2> QED BY Zenon, <2>3, <2>6, <2>7
<1>3. L \in I
  <2> HIDE DEF I
  <2> QED BY Zenon, <1>1, <1>2, Climb
<1> QED BY Zenon, <1>3 DEF Unrolled

(* A finite set has a listing, and SetToSeq is one.                        *)
LEMMA Listing ==
  ASSUME NEW S, IsFiniteSet(S)
  PROVE  /\ SetToSeq(S) \in Seq(S)
         /\ \A i, j \in 1 .. Len(SetToSeq(S)) : SetToSeq(S)[i] = SetToSeq(S)[j] => i = j
         /\ \A x \in S : \E i \in 1 .. Len(SetToSeq(S)) : SetToSeq(S)[i] = x
<1> DEFINE n == Cardinality(S)
           D == 1 .. n
           f == SetToSeq(S)
<1>1. n \in Nat /\ ExistsBijection(D, S)
  BY FS_CardinalityType
<1>2. PICK g \in [D -> S] : IsInjective(g)
  BY Zenon, <1>1 DEF ExistsBijection, Bijection, Injection
<1>3. f \in [D -> S] /\ IsInjective(f)
  BY Zenon, <1>2 DEF SetToSeq
<1>4. f \in Injection(D, S)
  BY Zenon, <1>3 DEF Injection
<1>5. Cardinality(D) = n /\ IsFiniteSet(D)
  BY <1>1, FS_Interval
<1>6. f \in Surjection(D, S)
  BY Zenon, <1>4, <1>5, FS_Injection
<1>7. \A x \in S : \E i \in D : f[i] = x
  BY Zenon, <1>6 DEF Surjection
<1>8. \A i, j \in D : f[i] = f[j] => i = j
  BY Zenon, <1>3 DEF IsInjective
<1> HIDE DEF f
<1>9. f \in Seq(S) /\ Len(f) = n
  BY <1>1, <1>3
<1> QED BY Zenon, <1>7, <1>8, <1>9 DEF f
-----------------------------------------------------------------------------
(* The weight of a set of transactions.                                    *)

(* g gives every subset of U its weight, whichever element is taken first. *)
Additive(g, U) ==
  /\ g \in [SUBSET U -> Nat] /\ g[{}] = 0
  /\ \A T \in SUBSET U : \A x \in T : g[T] = Weight[x] + g[T \ {x}]

(* Such a function extends to one more transaction.                        *)
LEMMA AdditiveGrows ==
  ASSUME NEW U \in SUBSET Tx, NEW u \in Tx, u \notin U, NEW g, Additive(g, U)
  PROVE  \E h : Additive(h, U \cup {u})
<1> DEFINE V == U \cup {u}
           h == [T \in SUBSET V |-> IF u \in T THEN Weight[u] + g[T \ {u}] ELSE g[T]]
<1>0. /\ g \in [SUBSET U -> Nat] /\ g[{}] = 0
      /\ \A T \in SUBSET U : \A x \in T : g[T] = Weight[x] + g[T \ {x}]
  BY Zenon DEF Additive
<1>1. \A t \in Tx : Weight[t] \in Nat
  BY TxAssumption
<1>2. \A T \in SUBSET V : T \ {u} \in SUBSET U /\ (u \notin T => T \in SUBSET U)
  OBVIOUS
<1>3. h \in [SUBSET V -> Nat]
  BY <1>0, <1>1, <1>2
<1>4. h[{}] = 0
  BY Zenon, <1>0
<1>5. ASSUME NEW T \in SUBSET V, NEW x \in T PROVE h[T] = Weight[x] + h[T \ {x}]
  <2> DEFINE R == T \ {x}
  <2>1. R \in SUBSET V
    OBVIOUS
  <2>2. CASE x = u
    <3>1. u \in T /\ u \notin R /\ R = T \ {u}
      BY Zenon, <2>2
    <3>2. h[T] = Weight[u] + g[T \ {u}] /\ h[R] = g[R]
      BY Zenon, <2>1, <3>1
    <3> QED BY Zenon, <2>2, <3>1, <3>2
  <2>3. CASE x # u /\ u \notin T
    <3>1. u \notin R /\ T \in SUBSET U
      BY Zenon, <1>2, <2>3
    <3>2. h[T] = g[T] /\ h[R] = g[R]
      BY Zenon, <2>1, <2>3, <3>1
    <3>3. g[T] = Weight[x] + g[R]
      BY Zenon, <1>0, <3>1
    <3> QED BY Zenon, <3>2, <3>3
  <2>4. CASE x # u /\ u \in T
    <3> DEFINE S == T \ {u}
               Q == S \ {x}
    <3>1. u \in R /\ S \in SUBSET U /\ x \in S /\ Q \in SUBSET U
      BY Zenon, <1>2, <2>4
    <3>2. R \ {u} = Q
      OBVIOUS
    <3>3. h[T] = Weight[u] + g[S] /\ h[R] = Weight[u] + g[Q]
      BY Zenon, <2>1, <2>4, <3>1, <3>2
    <3>4. g[S] = Weight[x] + g[Q]
      BY Zenon, <1>0, <3>1
    <3>5. g[Q] \in Nat /\ Weight[x] \in Nat /\ Weight[u] \in Nat
      <4>1. x \in Tx
        OBVIOUS
      <4> QED BY Zenon, <1>0, <1>1, <3>1, <4>1
    <3> HIDE DEF h, S, Q, R
    <3>6. Weight[u] + (Weight[x] + g[Q]) = Weight[x] + (Weight[u] + g[Q])
      BY <3>5
    <3>7. h[T] = Weight[x] + h[R]
      BY ONLY Zenon, <3>3, <3>4, <3>6
    <3> QED BY ONLY Zenon, <3>7 DEF R
  <2> QED BY Zenon, <2>2, <2>3, <2>4
<1> HIDE DEF h, V
<1>6. Additive(h, V)
  BY Zenon, <1>3, <1>4, <1>5 DEF Additive
<1> QED BY Zenon, <1>6 DEF V

(* Every set of transactions has such a function.                          *)
LEMMA AdditiveExists == \E g : Additive(g, Tx)
<1> DEFINE I == {n \in Nat : \A U \in SUBSET Tx :
                   Cardinality(U) = n => \E g : Additive(g, U)}
<1>0. IsFiniteSet(Tx) /\ \A U \in SUBSET Tx : IsFiniteSet(U)
  BY Zenon, WeightAssumption, FS_Subset
<1>1. 0 \in I
  <2> SUFFICES ASSUME NEW U \in SUBSET Tx, Cardinality(U) = 0
               PROVE  \E g : Additive(g, U)
    OBVIOUS
  <2>1. U = {}
    BY Zenon, <1>0, FS_EmptySet
  <2> DEFINE g == [T \in SUBSET {} |-> 0]
  <2>2. Additive(g, {})
    BY DEF Additive
  <2> QED BY Zenon, <2>1, <2>2
<1>2. ASSUME NEW n \in Nat, n \in I PROVE n + 1 \in I
  <2> SUFFICES ASSUME NEW U \in SUBSET Tx, Cardinality(U) = n + 1
               PROVE  \E g : Additive(g, U)
    OBVIOUS
  <2>1. U # {}
    <3>1. n + 1 # 0
      OBVIOUS
    <3> QED BY Zenon, <3>1, FS_EmptySet
  <2>2. PICK u \in U : TRUE
    BY Zenon, <2>1
  <2> DEFINE R == U \ {u}
  <2>3. R \in SUBSET Tx /\ u \in Tx /\ u \notin R /\ U = R \cup {u}
    OBVIOUS
  <2>4. Cardinality(R) = n
    <3>1. Cardinality(R) = Cardinality(U) - 1
      BY Zenon, <1>0, FS_RemoveElement
    <3> QED BY <3>1
  <2> HIDE DEF R
  <2>5. PICK g : Additive(g, R)
    BY Zenon, <1>2, <2>3, <2>4
  <2> QED BY Zenon, <2>3, <2>5, AdditiveGrows
<1>3. Nat \subseteq I
  <2> HIDE DEF I
  <2> QED BY Zenon, <1>1, <1>2, SetInduction
<1>4. Cardinality(Tx) \in Nat
  BY Zenon, <1>0, FS_CardinalityType
<1> QED BY Zenon, <1>3, <1>4

(* TotalWeight is such a function.                                         *)
LEMMA TotalIs ==
  ASSUME NEW g, Additive(g, Tx), NEW S \in SUBSET Tx
  PROVE  TotalWeight(S) = g[S]
<1> DEFINE c(T) == CHOOSE u \in T : TRUE
           Body(k) == [T \in SUBSET S |-> IF T = {} THEN 0
                                          ELSE Weight[c(T)] + k[T \ {c(T)}]]
           F == CHOOSE k : k = Body(k)
           k == [T \in SUBSET S |-> g[T]]
<1>0. /\ g \in [SUBSET Tx -> Nat] /\ g[{}] = 0
      /\ \A T \in SUBSET Tx : \A x \in T : g[T] = Weight[x] + g[T \ {x}]
  BY Zenon DEF Additive
<1>1. TotalWeight(S) = F[S]
  BY Zenon DEF TotalWeight
<1>2. \A T \in SUBSET S : T # {} => c(T) \in T /\ T \ {c(T)} \in SUBSET S
  OBVIOUS
<1> HIDE DEF c
<1>3. k = Body(k)
  <2>1. ASSUME NEW T \in SUBSET S
        PROVE  k[T] = IF T = {} THEN 0 ELSE Weight[c(T)] + k[T \ {c(T)}]
    <3>1. T \in SUBSET Tx /\ k[T] = g[T]
      OBVIOUS
    <3>2. CASE T = {}
      BY Zenon, <1>0, <3>1, <3>2
    <3>3. CASE T # {}
      <4>1. c(T) \in T /\ T \ {c(T)} \in SUBSET S
        BY Zenon, <1>2, <3>3
      <4>2. k[T \ {c(T)}] = g[T \ {c(T)}]
        BY Zenon, <4>1
      <4> QED BY Zenon, <1>0, <3>1, <3>3, <4>1, <4>2
    <3> QED BY Zenon, <3>2, <3>3
  <2>2. k = [T \in SUBSET S |-> k[T]]
    OBVIOUS
  <2> HIDE DEF k
  <2> QED BY Zenon, <2>1, <2>2
<1>4. F = Body(F)
  <2> HIDE DEF Body, k
  <2> QED BY Zenon, <1>3
<1> HIDE DEF F
<1>5. \A T \in SUBSET S : F[T] = IF T = {} THEN 0 ELSE Weight[c(T)] + F[T \ {c(T)}]
  BY Zenon, <1>4
<1> DEFINE I == {n \in Nat : \A T \in SUBSET S : Cardinality(T) = n => F[T] = g[T]}
<1>6. \A T \in SUBSET S : IsFiniteSet(T) /\ Cardinality(T) \in Nat /\ T \in SUBSET Tx
  <2>1. \A T \in SUBSET S : T \in SUBSET Tx
    OBVIOUS
  <2> QED BY Zenon, <2>1, WeightAssumption, FS_Subset, FS_CardinalityType
<1>7. 0 \in I
  <2>1. ASSUME NEW T \in SUBSET S, Cardinality(T) = 0 PROVE F[T] = g[T]
    <3>1. T = {}
      BY Zenon, <1>6, <2>1, FS_EmptySet
    <3> QED BY Zenon, <1>0, <1>5, <3>1
  <2> QED BY <2>1
<1>8. ASSUME NEW n \in Nat, n \in I PROVE n + 1 \in I
  <2>1. ASSUME NEW T \in SUBSET S, Cardinality(T) = n + 1 PROVE F[T] = g[T]
    <3>0. n + 1 # 0
      OBVIOUS
    <3>1. T # {}
      BY Zenon, <2>1, <3>0, FS_EmptySet
    <3> DEFINE R == T \ {c(T)}
    <3>2. c(T) \in T /\ R \in SUBSET S
      BY Zenon, <1>2, <3>1
    <3>3. Cardinality(R) = n
      <4>1. IsFiniteSet(T)
        BY Zenon, <1>6
      <4>2. Cardinality(R) = Cardinality(T) - 1
        BY ONLY Zenon, <3>2, <4>1, FS_RemoveElement DEF R
      <4> QED BY <2>1, <4>2
    <3> HIDE DEF R
    <3>4. F[R] = g[R]
      BY Zenon, <1>8, <3>2, <3>3
    <3>5. F[T] = Weight[c(T)] + F[R]
      BY Zenon, <1>5, <3>1 DEF R
    <3>6. g[T] = Weight[c(T)] + g[R]
      BY Zenon, <1>0, <1>6, <3>2 DEF R
    <3> QED BY Zenon, <3>4, <3>5, <3>6
  <2>2. n + 1 \in Nat
    OBVIOUS
  <2> QED BY Zenon, <2>1, <2>2
<1>9. Nat \subseteq I
  <2> HIDE DEF I
  <2> QED BY Zenon, <1>7, <1>8, SetInduction
<1>10. S \in SUBSET S
  OBVIOUS
<1> QED BY Zenon, <1>1, <1>6, <1>9, <1>10

(* What the proofs use of it: the empty set, one transaction more or less, *)
(* and that no set is heavier than all of Tx.                              *)
LEMMA Totals ==
  /\ TotalWeight({}) = 0
  /\ \A S \in SUBSET Tx : TotalWeight(S) \in 0 .. MaxCounted
  /\ \A S \in SUBSET Tx : \A x \in S :
       TotalWeight(S) = Weight[x] + TotalWeight(S \ {x})
<1>1. PICK g : Additive(g, Tx)
  BY Zenon, AdditiveExists
<1>0. /\ g \in [SUBSET Tx -> Nat] /\ g[{}] = 0
      /\ \A T \in SUBSET Tx : \A x \in T : g[T] = Weight[x] + g[T \ {x}]
  BY Zenon, <1>1 DEF Additive
<1>2. \A S \in SUBSET Tx : TotalWeight(S) = g[S]
  BY Zenon, <1>1, TotalIs
<1>3. \A S \in SUBSET Tx : \A x \in S : S \ {x} \in SUBSET Tx
  OBVIOUS
<1>4. \A S \in SUBSET Tx : \A x \in S :
        TotalWeight(S) = Weight[x] + TotalWeight(S \ {x})
  BY Zenon, <1>0, <1>2, <1>3
<1>5. {} \in SUBSET Tx /\ Tx \in SUBSET Tx
  OBVIOUS
<1> DEFINE I == {n \in Nat : \A S \in SUBSET Tx :
                   Cardinality(Tx \ S) = n => TotalWeight(S) <= TotalWeight(Tx)}
<1>6. \A S \in SUBSET Tx : TotalWeight(S) \in Nat
  BY Zenon, <1>0, <1>2
<1>7. \A S \in SUBSET Tx : IsFiniteSet(Tx \ S) /\ Cardinality(Tx \ S) \in Nat
  BY Zenon, WeightAssumption, FS_Difference, FS_CardinalityType
<1>8. 0 \in I
  <2>1. ASSUME NEW S \in SUBSET Tx, Cardinality(Tx \ S) = 0
        PROVE  TotalWeight(S) <= TotalWeight(Tx)
    <3>1. Tx \ S = {}
      BY Zenon, <1>7, <2>1, FS_EmptySet
    <3>2. S = Tx
      BY Zenon, <3>1
    <3>3. TotalWeight(Tx) \in Nat
      BY Zenon, <1>5, <1>6
    <3>4. TotalWeight(Tx) <= TotalWeight(Tx)
      BY <3>3
    <3> QED BY Zenon, <3>2, <3>4
  <2> QED BY <2>1
<1>9. ASSUME NEW n \in Nat, n \in I PROVE n + 1 \in I
  <2>1. ASSUME NEW S \in SUBSET Tx, Cardinality(Tx \ S) = n + 1
        PROVE  TotalWeight(S) <= TotalWeight(Tx)
    <3>0. n + 1 # 0
      OBVIOUS
    <3>1. Tx \ S # {}
      BY Zenon, <2>1, <3>0, FS_EmptySet
    <3>2. PICK x \in Tx \ S : TRUE
      BY Zenon, <3>1
    <3> DEFINE U == S \cup {x}
    <3>3. U \in SUBSET Tx /\ x \in U /\ U \ {x} = S /\ Tx \ U = (Tx \ S) \ {x}
      OBVIOUS
    <3>4. Cardinality(Tx \ U) = n
      <4>1. Cardinality((Tx \ S) \ {x}) = Cardinality(Tx \ S) - 1
        BY Zenon, <1>7, <3>2, FS_RemoveElement
      <4> QED BY <2>1, <3>3, <4>1
    <3> HIDE DEF U
    <3>5. TotalWeight(U) <= TotalWeight(Tx)
      BY Zenon, <1>9, <3>3, <3>4
    <3>6. TotalWeight(U) = Weight[x] + TotalWeight(S)
      BY Zenon, <1>4, <3>3
    <3>7. Weight[x] \in Nat /\ TotalWeight(S) \in Nat /\ TotalWeight(Tx) \in Nat
      BY <1>5, <1>6, TxAssumption
    <3> QED BY <3>5, <3>6, <3>7
  <2>2. n + 1 \in Nat
    OBVIOUS
  <2> QED BY Zenon, <2>1, <2>2
<1>10. Nat \subseteq I
  <2> HIDE DEF I
  <2> QED BY Zenon, <1>8, <1>9, SetInduction
<1>11. ASSUME NEW S \in SUBSET Tx PROVE TotalWeight(S) \in 0 .. MaxCounted
  <2>1. TotalWeight(S) <= TotalWeight(Tx)
    BY Zenon, <1>7, <1>10
  <2>2. TotalWeight(S) \in Nat /\ TotalWeight(Tx) \in Nat /\ MaxCounted \in Nat
    BY <1>5, <1>6, BoundAssumption
  <2> QED BY <2>1, <2>2, WeightAssumption
<1> QED BY Zenon, <1>0, <1>2, <1>4, <1>5, <1>11
-----------------------------------------------------------------------------
(* The sorted container.                                                   *)

(* RemoveAt loses the entry at i and no other.                             *)
LEMMA RemoveAtKeeps ==
  ASSUME NEW E, NEW so \in Seq(E), NEW i \in 1 .. Len(so)
  PROVE  /\ RemoveAt(so, i) \in Seq(E) /\ Len(RemoveAt(so, i)) = Len(so) - 1
         /\ \A j \in 1 .. Len(so) : j # i =>
              \E m \in 1 .. Len(RemoveAt(so, i)) : RemoveAt(so, i)[m] = so[j]
<1> DEFINE L == Len(so)
           u == SubSeq(so, 1, i - 1)
           v == SubSeq(so, i + 1, L)
           r == u \o v
<1>0. RemoveAt(so, i) = r
  BY Zenon DEF RemoveAt
<1>1. L \in Nat /\ i \in Nat /\ 1 <= i /\ i <= L /\ \A j \in 1 .. L : so[j] \in E
  OBVIOUS
<1> HIDE DEF L
<1>2. /\ u \in Seq(E) /\ Len(u) = i - 1
      /\ \A m \in 1 .. i - 1 : u[m] = so[m]
  <2>1. \A j \in 1 .. i - 1 : so[j] \in E
    BY <1>1
  <2>2. /\ SubSeq(so, 1, i - 1) \in Seq(E)
        /\ Len(SubSeq(so, 1, i - 1)) = IF 1 <= i - 1 THEN (i - 1) - 1 + 1 ELSE 0
        /\ \A m \in 1 .. (i - 1) - 1 + 1 : SubSeq(so, 1, i - 1)[m] = so[1 + m - 1]
    BY <1>1, <2>1
  <2> HIDE DEF u
  <2> QED BY <1>1, <2>2 DEF u
<1>3. /\ v \in Seq(E) /\ Len(v) = L - i
      /\ \A m \in 1 .. L - i : v[m] = so[i + m]
  <2>1. \A j \in i + 1 .. L : so[j] \in E
    BY <1>1
  <2>2. /\ SubSeq(so, i + 1, L) \in Seq(E)
        /\ Len(SubSeq(so, i + 1, L)) = IF i + 1 <= L THEN L - (i + 1) + 1 ELSE 0
        /\ \A m \in 1 .. L - (i + 1) + 1 : SubSeq(so, i + 1, L)[m] = so[(i + 1) + m - 1]
    BY <1>1, <2>1
  <2> HIDE DEF v
  <2> QED BY <1>1, <2>2 DEF v
<1> HIDE DEF u, v
<1>4. /\ r \in Seq(E) /\ Len(r) = Len(u) + Len(v)
      /\ \A m \in 1 .. Len(u) + Len(v) :
           r[m] = IF m <= Len(u) THEN u[m] ELSE v[m - Len(u)]
  <2>1. u \in Seq(E) /\ v \in Seq(E)
    BY Zenon, <1>2, <1>3
  <2> QED BY <2>1
<1> HIDE DEF r
<1>5. Len(r) = L - 1
  BY <1>1, <1>2, <1>3, <1>4
<1>6. ASSUME NEW j \in 1 .. L, j # i PROVE \E m \in 1 .. Len(r) : r[m] = so[j]
  <2>1. CASE j < i
    <3>1. j \in 1 .. i - 1 /\ j \in 1 .. Len(u) + Len(v) /\ j <= Len(u) /\ j \in 1 .. Len(r)
      BY <1>1, <1>2, <1>3, <1>5, <2>1
    <3>2. r[j] = so[j]
      BY Zenon, <1>2, <1>4, <3>1
    <3> QED BY Zenon, <3>1, <3>2
  <2>2. CASE j > i
    <3> DEFINE m == j - 1
    <3>1. /\ m \in 1 .. Len(u) + Len(v) /\ ~(m <= Len(u)) /\ m \in 1 .. Len(r)
          /\ m - Len(u) \in 1 .. L - i /\ i + (m - Len(u)) = j
      BY <1>1, <1>2, <1>3, <1>5, <2>2
    <3> HIDE DEF m
    <3>2. r[m] = v[m - Len(u)]
      BY Zenon, <1>4, <3>1
    <3>3. v[m - Len(u)] = so[i + (m - Len(u))]
      BY Zenon, <1>3, <3>1
    <3> QED BY Zenon, <3>1, <3>2, <3>3
  <2> QED BY <1>1, <1>6, <2>1, <2>2
<1> QED BY Zenon, <1>0, <1>4, <1>5, <1>6 DEF L

(* r has the entry e and those of so.                                      *)
Gains(r, E, so, e) ==
  /\ r \in Seq(E) /\ \E m \in 1 .. Len(r) : r[m] = e
  /\ \A j \in 1 .. Len(so) : \E m \in 1 .. Len(r) : r[m] = so[j]

(* InsertAt gains the entry e and keeps the others.                        *)
LEMMA InsertAtKeeps ==
  ASSUME NEW E, NEW so \in Seq(E), NEW e \in E, NEW i \in 1 .. Len(so) + 1
  PROVE  Gains(InsertAt(so, i, e), E, so, e)
<1> DEFINE L == Len(so)
           u == SubSeq(so, 1, i - 1)
           w == <<e>>
           v == SubSeq(so, i, L)
           q == u \o w
           r == q \o v
<1>0. InsertAt(so, i, e) = r
  BY Zenon DEF InsertAt
<1>1. L \in Nat /\ i \in Nat /\ 1 <= i /\ i <= L + 1 /\ \A j \in 1 .. L : so[j] \in E
  OBVIOUS
<1> HIDE DEF L
<1>2. /\ u \in Seq(E) /\ Len(u) = i - 1
      /\ \A m \in 1 .. i - 1 : u[m] = so[m]
  <2>1. \A j \in 1 .. i - 1 : so[j] \in E
    BY <1>1
  <2>2. /\ SubSeq(so, 1, i - 1) \in Seq(E)
        /\ Len(SubSeq(so, 1, i - 1)) = IF 1 <= i - 1 THEN (i - 1) - 1 + 1 ELSE 0
        /\ \A m \in 1 .. (i - 1) - 1 + 1 : SubSeq(so, 1, i - 1)[m] = so[1 + m - 1]
    BY <1>1, <2>1
  <2> HIDE DEF u
  <2> QED BY <1>1, <2>2 DEF u
<1>3. /\ v \in Seq(E) /\ Len(v) = L + 1 - i
      /\ \A m \in 1 .. L + 1 - i : v[m] = so[i + m - 1]
  <2>1. \A j \in i .. L : so[j] \in E
    BY <1>1
  <2>2. /\ SubSeq(so, i, L) \in Seq(E)
        /\ Len(SubSeq(so, i, L)) = IF i <= L THEN L - i + 1 ELSE 0
        /\ \A m \in 1 .. L - i + 1 : SubSeq(so, i, L)[m] = so[i + m - 1]
    BY <1>1, <2>1
  <2> HIDE DEF v
  <2> QED BY <1>1, <2>2 DEF v
<1>4. w \in Seq(E) /\ Len(w) = 1 /\ w[1] = e
  OBVIOUS
<1> HIDE DEF u, v, w
<1>5. /\ q \in Seq(E) /\ Len(q) = Len(u) + Len(w)
      /\ \A m \in 1 .. Len(u) + Len(w) :
           q[m] = IF m <= Len(u) THEN u[m] ELSE w[m - Len(u)]
  <2>1. u \in Seq(E) /\ w \in Seq(E)
    BY Zenon, <1>2, <1>4
  <2> QED BY <2>1
<1> HIDE DEF q
<1>6. /\ r \in Seq(E) /\ Len(r) = Len(q) + Len(v)
      /\ \A m \in 1 .. Len(q) + Len(v) :
           r[m] = IF m <= Len(q) THEN q[m] ELSE v[m - Len(q)]
  <2>1. q \in Seq(E) /\ v \in Seq(E)
    BY Zenon, <1>3, <1>5
  <2> QED BY <2>1
<1> HIDE DEF r
<1>7. Len(q) = i /\ Len(r) = L + 1
  <2>1. Len(u) = i - 1 /\ Len(w) = 1 /\ Len(v) = L + 1 - i
    BY Zenon, <1>2, <1>3, <1>4
  <2>2. Len(q) = Len(u) + Len(w) /\ Len(r) = Len(q) + Len(v)
    BY Zenon, <1>5, <1>6
  <2> QED BY <1>1, <2>1, <2>2
<1>8. ASSUME NEW j \in 1 .. L PROVE \E m \in 1 .. Len(r) : r[m] = so[j]
  <2>1. CASE j < i
    <3>1. /\ j \in 1 .. i - 1 /\ j \in 1 .. Len(u) + Len(w) /\ j <= Len(u)
          /\ j \in 1 .. Len(q) + Len(v) /\ j <= Len(q) /\ j \in 1 .. Len(r)
      BY <1>1, <1>2, <1>3, <1>4, <1>7, <2>1
    <3>2. r[j] = q[j] /\ q[j] = u[j] /\ u[j] = so[j]
      BY Zenon, <1>2, <1>5, <1>6, <3>1
    <3> QED BY Zenon, <3>1, <3>2
  <2>2. CASE j >= i
    <3> DEFINE m == j + 1
    <3>1. /\ m \in 1 .. Len(q) + Len(v) /\ ~(m <= Len(q)) /\ m \in 1 .. Len(r)
          /\ m - Len(q) \in 1 .. L + 1 - i /\ i + (m - Len(q)) - 1 = j
      BY <1>1, <1>3, <1>7, <2>2
    <3> HIDE DEF m
    <3>2. r[m] = v[m - Len(q)]
      BY Zenon, <1>6, <3>1
    <3>3. v[m - Len(q)] = so[i + (m - Len(q)) - 1]
      BY Zenon, <1>3, <3>1
    <3> QED BY Zenon, <3>1, <3>2, <3>3
  <2> QED BY <1>1, <2>1, <2>2
<1>9. \E m \in 1 .. Len(r) : r[m] = e
  <2>1. /\ i \in 1 .. Len(u) + Len(w) /\ ~(i <= Len(u)) /\ i - Len(u) = 1
        /\ i \in 1 .. Len(q) + Len(v) /\ i <= Len(q) /\ i \in 1 .. Len(r)
    BY <1>1, <1>2, <1>3, <1>4, <1>7
  <2>2. r[i] = q[i] /\ q[i] = w[1] /\ w[1] = e
    BY Zenon, <1>4, <1>5, <1>6, <2>1
  <2> QED BY Zenon, <2>1, <2>2
<1> QED BY Zenon, <1>0, <1>6, <1>8, <1>9 DEF L, Gains

(* emplace leaves the entries there are, and e is one.                     *)
LEMMA EmplaceKeeps ==
  ASSUME NEW E, NEW so \in Seq(E), NEW e \in E
  PROVE  Gains(Emplace(so, e), E, so, e)
<1>0. DOMAIN so = 1 .. Len(so) /\ Len(so) \in Nat
  OBVIOUS
<1>1. CASE e \in Range(so)
  <2>1. Emplace(so, e) = so
    BY Zenon, <1>1 DEF Emplace
  <2>2. \E j \in 1 .. Len(so) : so[j] = e
    BY Zenon, <1>0, <1>1 DEF Range
  <2> QED BY Zenon, <2>1, <2>2 DEF Gains
<1>2. CASE e \notin Range(so)
  <2> DEFINE B == {i \in DOMAIN so : \/ so[i].rate > e.rate
                                     \/ so[i].rate = e.rate /\ so[i].recv < e.recv}
             n == Cardinality(B)
  <2>1. Emplace(so, e) = InsertAt(so, n + 1, e)
    BY Zenon, <1>2 DEF Emplace
  <2>2. B \in SUBSET (1 .. Len(so))
    BY Zenon, <1>0
  <2> HIDE DEF B
  <2>3. IsFiniteSet(1 .. Len(so)) /\ Cardinality(1 .. Len(so)) = Len(so)
    <3> DEFINE k == Len(so)
               K == Cardinality(1 .. k)
    <3>1. k \in Nat /\ 1 \in Int /\ k \in Int
      BY <1>0
    <3> HIDE DEF k
    <3>2. IsFiniteSet(1 .. k) /\ K = IF 1 > k THEN 0 ELSE k - 1 + 1
      BY ONLY Zenon, <3>1, FS_Interval
    <3> HIDE DEF K
    <3>3. K = k
      BY ONLY <3>1, <3>2
    <3> QED BY Zenon, <3>2, <3>3 DEF k, K
  <2>4. IsFiniteSet(B) /\ n <= Cardinality(1 .. Len(so))
    BY Zenon, <2>2, <2>3, FS_Subset
  <2>5. n \in Nat
    BY Zenon, <2>4, FS_CardinalityType
  <2>6. n + 1 \in 1 .. Len(so) + 1
    BY <1>0, <2>3, <2>4, <2>5
  <2> DEFINE p == n + 1
  <2>9. p \in 1 .. Len(so) + 1
    BY Zenon, <2>6
  <2> HIDE DEF p
  <2>7. Gains(InsertAt(so, p, e), E, so, e)
    BY Zenon, <2>9, InsertAtKeeps
  <2>8. Emplace(so, e) = InsertAt(so, p, e)
    BY Zenon, <2>1 DEF p
  <2> QED BY Zenon, <2>7, <2>8
<1> QED BY Zenon, <1>1, <1>2

(* r has the entries of so, but for t's.                                   *)
Lacks(r, E, so, t) ==
  /\ r \in Seq(E)
  /\ \A j \in 1 .. Len(so) : so[j].tx # t => \E m \in 1 .. Len(r) : r[m] = so[j]

(* Erasing an entry of t leaves those of the other transactions.           *)
LEMMA EraseKeeps ==
  ASSUME NEW E, NEW so \in Seq(E), NEW t
  PROVE  Lacks(EraseFirst(so, t), E, so, t)
<1> DEFINE A == {i \in DOMAIN so : so[i].tx = t}
           i == Min(A)
<1>0. DOMAIN so = 1 .. Len(so) /\ Len(so) \in Nat
  OBVIOUS
<1>1. CASE A = {}
  BY Zenon, <1>1 DEF EraseFirst, Lacks
<1>2. CASE A # {}
  <2>1. EraseFirst(so, t) = RemoveAt(so, i)
    BY Zenon, <1>2 DEF EraseFirst
  <2>2. A \subseteq Nat
    BY <1>0
  <2>3. i \in A
    <3> HIDE DEF A
    <3> QED BY Zenon, <1>2, <2>2, LeastOf
  <2>4. i \in 1 .. Len(so) /\ so[i].tx = t
    BY Zenon, <1>0, <2>3
  <2> HIDE DEF i
  <2>5. /\ RemoveAt(so, i) \in Seq(E)
        /\ \A j \in 1 .. Len(so) : j # i =>
             \E m \in 1 .. Len(RemoveAt(so, i)) : RemoveAt(so, i)[m] = so[j]
    BY Zenon, <2>4, RemoveAtKeeps
  <2> QED BY Zenon, <2>1, <2>4, <2>5 DEF Lacks
<1> QED BY Zenon, <1>1, <1>2
-----------------------------------------------------------------------------
(* The table and its indexes.                                              *)

Entry == [rate : Nat, recv : Nat, tx : Tx]
Table == UNION {[D -> Meta] : D \in SUBSET Tx}
State == [pool : Table, images : [KeyImage -> SUBSET Tx], sorted : Seq(Entry),
          weight : 0 .. MaxCounted]

(* The indexes agree with the table.                                       *)
Indexed(s) ==
  \A k \in KeyImage : s.images[k] = {t \in DOMAIN s.pool : Image[t] = k}
Covered(s) == \A t \in DOMAIN s.pool : \E i \in 1 .. Len(s.sorted) : s.sorted[i].tx = t
Weighed(s) == s.weight >= TotalWeight(DOMAIN s.pool)
Exact(s) == Indexed(s) /\ Loads(s.pool) /\ Covered(s) /\ Weighed(s)

(* The counter's arithmetic stays in its range, and is exact within it.    *)
LEMMA Counting ==
  ASSUME NEW w \in 0 .. MaxCounted, NEW x \in Nat
  PROVE  /\ Plus(w, x) \in 0 .. MaxCounted /\ Minus(w, x) \in 0 .. MaxCounted
         /\ w + x <= MaxCounted => Plus(w, x) = w + x
         /\ x <= w => Minus(w, x) = w - x
<1>0. MaxCounted \in Nat
  BY BoundAssumption
<1> DEFINE M == MaxCounted + 1
<1>1. M \in Nat \ {0} /\ w + x \in Int /\ w - x \in Int
  BY <1>0
<1>2. \A i \in Int : i % M \in 0 .. M - 1
  BY <1>1
<1>3. \A i \in 0 .. M - 1 : i % M = i
  BY <1>1
<1>4. M - 1 = MaxCounted
  BY <1>0
<1> HIDE DEF M
<1>5. w + x <= MaxCounted => w + x \in 0 .. MaxCounted
  BY <1>0
<1>6. x <= w => w - x \in 0 .. MaxCounted
  BY <1>0
<1>7. Plus(w, x) = (w + x) % M /\ Minus(w, x) = (w - x) % M
  BY Zenon DEF Plus, Minus, M
<1> QED BY Zenon, <1>1, <1>2, <1>3, <1>4, <1>5, <1>6, <1>7

(* What a table is.                                                        *)
LEMMA TableIs ==
  ASSUME NEW p
  PROVE  /\ p \in Table => p \in [DOMAIN p -> Meta] /\ DOMAIN p \in SUBSET Tx
         /\ \A D \in SUBSET Tx : p \in [D -> Meta] => p \in Table
<1>1. ASSUME p \in Table PROVE p \in [DOMAIN p -> Meta] /\ DOMAIN p \in SUBSET Tx
  <2>1. PICK D \in SUBSET Tx : p \in [D -> Meta]
    BY Zenon, <1>1 DEF Table
  <2>2. DOMAIN p = D
    BY Zenon, <2>1
  <2> QED BY Zenon, <2>1, <2>2
<1>2. ASSUME NEW D \in SUBSET Tx, p \in [D -> Meta] PROVE p \in Table
  BY Zenon, <1>2 DEF Table
<1> QED BY Zenon, <1>1, <1>2

(* A table with t put in, and without the transactions outside D.          *)
LEMMA TableWith ==
  ASSUME NEW p \in Table, NEW t \in Tx, NEW m \in Meta
  PROVE  /\ With(p, t, m) \in Table /\ DOMAIN With(p, t, m) = DOMAIN p \cup {t}
         /\ With(p, t, m)[t] = m
         /\ \A u \in DOMAIN p : u # t => With(p, t, m)[u] = p[u]
<1> DEFINE D == DOMAIN p \cup {t}
           q == With(p, t, m)
<1>1. p \in [DOMAIN p -> Meta] /\ DOMAIN p \in SUBSET Tx
  BY Zenon, TableIs
<1>2. q = [y \in D |-> IF y = t THEN m ELSE p[y]]
  BY Zenon DEF With
<1>3. D \in SUBSET Tx
  BY Zenon, <1>1
<1>4. q \in [D -> Meta] /\ DOMAIN q = D
  BY <1>1, <1>2
<1>5. q \in Table
  <2> HIDE DEF q, D
  <2> QED BY Zenon, <1>3, <1>4, TableIs
<1>6. t \in D /\ \A u \in DOMAIN p : u \in D
  OBVIOUS
<1>7. q[t] = m /\ \A u \in DOMAIN p : u # t => q[u] = p[u]
  BY Zenon, <1>2, <1>6
<1> QED BY Zenon, <1>4, <1>5, <1>7

(* The part of a table.                                                    *)
LEMMA TableRestrict ==
  ASSUME NEW p \in Table, NEW D \in SUBSET DOMAIN p
  PROVE  /\ Restrict(p, D) \in Table /\ DOMAIN Restrict(p, D) = D
         /\ \A u \in D : Restrict(p, D)[u] = p[u]
<1> DEFINE q == Restrict(p, D)
<1>1. p \in [DOMAIN p -> Meta] /\ DOMAIN p \in SUBSET Tx
  BY Zenon, TableIs
<1>2. q = [u \in D |-> p[u]]
  BY Zenon DEF Restrict
<1>3. q \in [D -> Meta] /\ DOMAIN q = D /\ \A u \in D : q[u] = p[u]
  BY <1>1, <1>2
<1>4. D \in SUBSET Tx
  BY Zenon, <1>1
<1>5. q \in Table
  <2> HIDE DEF q
  <2> QED BY Zenon, <1>3, <1>4, TableIs
<1> QED BY Zenon, <1>3, <1>5

(* A table with another record for t.                                      *)
LEMMA TableExcept ==
  ASSUME NEW p \in Table, NEW t \in DOMAIN p, NEW m \in Meta
  PROVE  /\ [p EXCEPT ![t] = m] \in Table /\ DOMAIN [p EXCEPT ![t] = m] = DOMAIN p
         /\ [p EXCEPT ![t] = m][t] = m
         /\ \A u \in DOMAIN p : u # t => [p EXCEPT ![t] = m][u] = p[u]
<1> DEFINE q == [p EXCEPT ![t] = m]
           D == DOMAIN p
<1>1. p \in [D -> Meta] /\ D \in SUBSET Tx
  BY Zenon, TableIs
<1> HIDE DEF D
<1>2. q \in [D -> Meta] /\ DOMAIN q = D /\ q[t] = m /\ \A u \in D : u # t => q[u] = p[u]
  BY <1>1 DEF D
<1> HIDE DEF q
<1>3. q \in Table
  BY Zenon, <1>1, <1>2, TableIs
<1> QED BY Zenon, <1>2, <1>3 DEF q, D
-----------------------------------------------------------------------------
(* Taking transactions out.                                                *)

(* The key image of a transaction.                                         *)
LEMMA ImageIn == \A t \in Tx : Image[t] \in KeyImage
BY Zenon DEF KeyImage

(* What Removed does to each part.                                         *)
LEMMA RemovedIs ==
  ASSUME NEW s \in State, NEW t \in Tx
  PROVE  /\ Removed(s, t) \in State
         /\ DOMAIN Removed(s, t).pool = DOMAIN s.pool \ {t}
         /\ \A u \in DOMAIN s.pool \ {t} : Removed(s, t).pool[u] = s.pool[u]
         /\ Removed(s, t).weight = Minus(s.weight, Weight[t])
         /\ Removed(s, t).images = [s.images EXCEPT ![Image[t]] = @ \ {t}]
         /\ Removed(s, t).sorted = s.sorted
<1> DEFINE r == Removed(s, t)
           p == Restrict(s.pool, DOMAIN s.pool \ {t})
           w == Minus(s.weight, Weight[t])
           g == [s.images EXCEPT ![Image[t]] = @ \ {t}]
<1>1. s.pool \in Table /\ s.images \in [KeyImage -> SUBSET Tx] /\ s.weight \in 0 .. MaxCounted
  BY DEF State
<1>2. DOMAIN s.pool \ {t} \in SUBSET DOMAIN s.pool
  OBVIOUS
<1>3. /\ p \in Table /\ DOMAIN p = DOMAIN s.pool \ {t}
      /\ \A u \in DOMAIN s.pool \ {t} : p[u] = s.pool[u]
  BY Zenon, <1>1, <1>2, TableRestrict
<1>4. Weight[t] \in Nat
  BY TxAssumption
<1>5. w \in 0 .. MaxCounted
  BY Zenon, <1>1, <1>4, Counting
<1>6. g \in [KeyImage -> SUBSET Tx]
  BY <1>1, ImageIn
<1>7. r = [s EXCEPT !.pool = p, !.weight = w, !.images = g]
  BY DEF Removed, State
<1> HIDE DEF p, w, g, r
<1>8. r \in State /\ r.pool = p /\ r.weight = w /\ r.images = g /\ r.sorted = s.sorted
  BY Zenon, <1>3, <1>5, <1>6, <1>7 DEF State
<1> QED BY Zenon, <1>3, <1>8 DEF p, w, g, r

(* Removing a transaction of the table keeps the indexes exact, but for    *)
(* the sorted container.                                                   *)
LEMMA RemovedExact ==
  ASSUME NEW s \in State, NEW t \in DOMAIN s.pool, Indexed(s), Loads(s.pool), Weighed(s)
  PROVE  /\ Indexed(Removed(s, t)) /\ Loads(Removed(s, t).pool)
         /\ Weighed(Removed(s, t))
         /\ Removed(s, t).weight + Weight[t] = s.weight
<1> DEFINE r == Removed(s, t)
           D == DOMAIN s.pool
<1>0. s.pool \in Table /\ s.images \in [KeyImage -> SUBSET Tx] /\ s.weight \in 0 .. MaxCounted
  BY DEF State
<1>1. D \in SUBSET Tx /\ t \in Tx /\ t \in D
  BY Zenon, <1>0, TableIs
<1>2. /\ DOMAIN r.pool = D \ {t} /\ \A u \in D \ {t} : r.pool[u] = s.pool[u]
      /\ r.weight = Minus(s.weight, Weight[t])
      /\ r.images = [s.images EXCEPT ![Image[t]] = @ \ {t}]
  BY Zenon, <1>1, RemovedIs
<1> HIDE DEF r, D
<1>3. Indexed(r)
  <2> SUFFICES ASSUME NEW k \in KeyImage
               PROVE  r.images[k] = {u \in DOMAIN r.pool : Image[u] = k}
    BY Zenon DEF Indexed
  <2>1. s.images[k] = {u \in D : Image[u] = k}
    BY Zenon DEF Indexed, D
  <2>2. r.images[k] = IF k = Image[t] THEN s.images[k] \ {t} ELSE s.images[k]
    BY <1>0, <1>2
  <2> QED BY <1>2, <2>1, <2>2
<1>4. Loads(r.pool)
  <2>1. ASSUME NEW u \in DOMAIN r.pool \ Kept(r.pool)
        PROVE  u \in D \ Kept(s.pool)
    BY Zenon, <1>2, <2>1 DEF Kept, D
  <2> QED BY Zenon, <2>1 DEF Loads, D
<1>5. Weighed(r) /\ r.weight + Weight[t] = s.weight
  <2>1. TotalWeight(D) = Weight[t] + TotalWeight(D \ {t})
    BY Zenon, <1>1, Totals
  <2>2. TotalWeight(D \ {t}) \in Nat
    <3>1. D \ {t} \in SUBSET Tx
      BY Zenon, <1>1
    <3>2. TotalWeight(D \ {t}) \in 0 .. MaxCounted
      BY Zenon, <3>1, Totals
    <3> QED BY <3>2, BoundAssumption
  <2>3. Weight[t] \in Nat /\ s.weight \in Nat
    BY <1>0, <1>1, TxAssumption, BoundAssumption
  <2>4. s.weight >= TotalWeight(D)
    BY Zenon DEF Weighed, D
  <2>5. Weight[t] <= s.weight
    BY <2>1, <2>2, <2>3, <2>4
  <2>6. r.weight = s.weight - Weight[t]
    BY Zenon, <1>0, <1>2, <2>3, <2>5, Counting
  <2>7. r.weight >= TotalWeight(D \ {t}) /\ r.weight + Weight[t] = s.weight
    BY <2>1, <2>2, <2>3, <2>4, <2>6
  <2> QED BY Zenon, <1>2, <2>7 DEF Weighed
<1> QED BY Zenon, <1>3, <1>4, <1>5 DEF r

(* take_tx is a step from state to state, and takes t out of the table.    *)
LEMMA TakeType ==
  ASSUME NEW s \in State, NEW t \in Tx
  PROVE  /\ take_tx(s, t) \in State
         /\ DOMAIN take_tx(s, t).pool = DOMAIN s.pool \ {t}
         /\ \A u \in DOMAIN s.pool \ {t} : take_tx(s, t).pool[u] = s.pool[u]
<1> DEFINE r == Removed(s, t)
           so == EraseFirst(r.sorted, t)
<1>1. /\ r \in State /\ DOMAIN r.pool = DOMAIN s.pool \ {t}
      /\ \A u \in DOMAIN s.pool \ {t} : r.pool[u] = s.pool[u]
  BY Zenon, RemovedIs
<1>2. take_tx(s, t) = [r EXCEPT !.sorted = so]
  BY Zenon DEF take_tx
<1> HIDE DEF r
<1>3. r.sorted \in Seq(Entry)
  BY <1>1 DEF State
<1>4. so \in Seq(Entry)
  BY Zenon, <1>3, EraseKeeps DEF Lacks
<1> HIDE DEF so
<1> DEFINE x == [r EXCEPT !.sorted = so]
<1>5. x \in State /\ x.pool = r.pool
  BY Zenon, <1>1, <1>4 DEF State
<1> HIDE DEF x
<1> QED BY Zenon, <1>1, <1>2, <1>5 DEF x

(* take_tx of a transaction of the table keeps the indexes exact.          *)
LEMMA TakeExact ==
  ASSUME NEW s \in State, NEW t \in DOMAIN s.pool, Exact(s)
  PROVE  Exact(take_tx(s, t)) /\ take_tx(s, t).weight + Weight[t] = s.weight
<1> DEFINE r == Removed(s, t)
           so == EraseFirst(r.sorted, t)
           x == [r EXCEPT !.sorted = so]
<1>0. t \in Tx
  <2>1. s.pool \in Table
    BY DEF State
  <2> QED BY Zenon, <2>1, TableIs
<1>1. /\ r \in State /\ DOMAIN r.pool = DOMAIN s.pool \ {t} /\ r.sorted = s.sorted
  BY Zenon, <1>0, RemovedIs
<1>2. /\ Indexed(r) /\ Loads(r.pool) /\ Weighed(r) /\ r.weight + Weight[t] = s.weight
  BY Zenon, RemovedExact DEF Exact
<1>3. take_tx(s, t) = x
  BY Zenon DEF take_tx
<1> HIDE DEF r
<1>4. s.sorted \in Seq(Entry)
  BY DEF State
<1>5. \A j \in 1 .. Len(s.sorted) : s.sorted[j].tx # t =>
        \E m \in 1 .. Len(so) : so[m] = s.sorted[j]
  <2> DEFINE o == s.sorted
  <2>1. o \in Seq(Entry) /\ r.sorted = o
    BY Zenon, <1>1, <1>4
  <2> HIDE DEF o
  <2>2. Lacks(EraseFirst(o, t), Entry, o, t)
    BY Zenon, <2>1, EraseKeeps
  <2>3. so = EraseFirst(o, t)
    BY Zenon, <2>1
  <2> HIDE DEF so
  <2> QED BY Zenon, <2>2, <2>3 DEF o, Lacks
<1> HIDE DEF so
<1>6. /\ x.pool = r.pool /\ x.images = r.images /\ x.weight = r.weight /\ x.sorted = so
  BY <1>1 DEF State
<1> HIDE DEF x
<1>7. Covered(x)
  <2> SUFFICES ASSUME NEW u \in DOMAIN x.pool
               PROVE  \E m \in 1 .. Len(so) : so[m].tx = u
    BY Zenon, <1>6 DEF Covered
  <2>1. u \in DOMAIN s.pool /\ u # t
    BY Zenon, <1>1, <1>6
  <2>2. PICK j \in 1 .. Len(s.sorted) : s.sorted[j].tx = u
    BY Zenon, <2>1 DEF Exact, Covered
  <2>3. PICK m \in 1 .. Len(so) : so[m] = s.sorted[j]
    BY Zenon, <1>5, <2>1, <2>2
  <2> QED BY Zenon, <2>2, <2>3
<1>8. Indexed(x) /\ Loads(x.pool) /\ Weighed(x)
  BY Zenon, <1>2, <1>6 DEF Indexed, Weighed
<1> QED BY Zenon, <1>2, <1>3, <1>6, <1>7, <1>8 DEF Exact

(* TakeAll of transactions of the table, in whatever order.                *)
LEMMA TakeAllKeeps ==
  ASSUME NEW s \in State, NEW T \in SUBSET DOMAIN s.pool
  PROVE  /\ TakeAll(s, T) \in State
         /\ DOMAIN TakeAll(s, T).pool = DOMAIN s.pool \ T
         /\ \A u \in DOMAIN s.pool \ T : TakeAll(s, T).pool[u] = s.pool[u]
         /\ Exact(s) => Exact(TakeAll(s, T))
<1> DEFINE order == SetToSeq(T)
           L == Len(order)
           D == DOMAIN s.pool
           Body(k) == [n \in 0 .. L |->
                         IF n = 0 THEN s ELSE take_tx(k[n - 1], order[n])]
           F == CHOOSE k : k = Body(k)
           step == [x \in State |-> [n \in 1 .. L |-> take_tx(x, order[n])]]
<1>0. D \in SUBSET Tx /\ T \in SUBSET Tx
  <2>1. s.pool \in Table
    BY DEF State
  <2>2. D \in SUBSET Tx
    BY Zenon, <2>1, TableIs
  <2> QED BY Zenon, <2>2
<1>1. /\ order \in Seq(T) /\ \A i, j \in 1 .. L : order[i] = order[j] => i = j
      /\ \A x \in T : \E i \in 1 .. L : order[i] = x
  <2>1. IsFiniteSet(T)
    BY Zenon, <1>0, WeightAssumption, FS_Subset
  <2> QED BY Zenon, <2>1, Listing
<1>2. TakeAll(s, T) = F[L]
  BY Zenon DEF TakeAll
<1> HIDE DEF order
<1>3. L \in Nat /\ \A n \in 1 .. L : order[n] \in T /\ order[n] \in Tx
  BY <1>0, <1>1
<1> HIDE DEF L
<1>4. step \in [State -> [1 .. L -> State]]
  <2>1. \A x \in State : \A n \in 1 .. L : take_tx(x, order[n]) \in State
    BY Zenon, <1>3, TakeType
  <2> QED BY Zenon, <2>1
<1>5. PICK k \in [0 .. L -> State] :
        k[0] = s /\ \A n \in 1 .. L : k[n] = step[k[n - 1]][n]
  <2> HIDE DEF step
  <2>1. \E k \in [0 .. L -> State] : Unrolled(k, s, L, step)
    BY Zenon, <1>3, <1>4, Unrolls
  <2> QED BY Zenon, <2>1 DEF Unrolled
<1>6. k = Body(k)
  <2>1. ASSUME NEW n \in 0 .. L
        PROVE  k[n] = IF n = 0 THEN s ELSE take_tx(k[n - 1], order[n])
    <3>1. CASE n = 0
      BY Zenon, <1>5, <3>1
    <3>2. CASE n # 0
      <4>1. n \in 1 .. L /\ n - 1 \in 0 .. L
        BY <1>3, <3>2
      <4>2. k[n - 1] \in State
        BY Zenon, <4>1
      <4>3. step[k[n - 1]][n] = take_tx(k[n - 1], order[n])
        BY Zenon, <4>1, <4>2
      <4> QED BY Zenon, <1>5, <3>2, <4>1, <4>3
    <3> QED BY Zenon, <3>1, <3>2
  <2>2. k = [n \in 0 .. L |-> k[n]]
    OBVIOUS
  <2> QED BY Zenon, <2>1, <2>2
<1>7. F = Body(F)
  <2> HIDE DEF Body
  <2> QED BY Zenon, <1>6
<1> HIDE DEF F
<1>8. /\ F[0] = s
      /\ \A n \in Nat : n + 1 <= L => F[n + 1] = take_tx(F[n], order[n + 1])
  <2>1. \A n \in 0 .. L : F[n] = IF n = 0 THEN s ELSE take_tx(F[n - 1], order[n])
    BY Zenon, <1>7
  <2>2. 0 \in 0 .. L
    BY <1>3
  <2>3. ASSUME NEW n \in Nat, n + 1 <= L PROVE F[n + 1] = take_tx(F[n], order[n + 1])
    <3>1. n + 1 \in 0 .. L /\ n + 1 # 0 /\ (n + 1) - 1 = n
      BY <1>3, <2>3
    <3> QED BY Zenon, <2>1, <3>1
  <2> QED BY Zenon, <2>1, <2>2, <2>3
<1> DEFINE Gone(n) == {order[i] : i \in 1 .. n}
           Good(n) == /\ F[n] \in State /\ DOMAIN F[n].pool = D \ Gone(n)
                      /\ \A u \in D \ Gone(n) : F[n].pool[u] = s.pool[u]
                      /\ Exact(s) => Exact(F[n])
           I == {n \in Nat : Good(n)}
<1>9. 0 \in I
  <2>1. Gone(0) = {}
    OBVIOUS
  <2> HIDE DEF Gone
  <2>2. Good(0)
    BY Zenon, <1>8, <2>1
  <2> QED BY <2>2
<1>10. ASSUME NEW n \in Nat, n + 1 <= L, n \in I PROVE n + 1 \in I
  <2> DEFINE t == order[n + 1]
             x == F[n]
  <2>1. n + 1 \in 1 .. L /\ \A i \in 1 .. n : i \in 1 .. L /\ i # n + 1
    BY <1>3, <1>10
  <2>2. t \in D /\ t \in Tx /\ t \notin Gone(n)
    BY Zenon, <1>1, <1>3, <2>1
  <2>3. Gone(n + 1) = Gone(n) \cup {t}
    <3>1. 1 .. n + 1 = (1 .. n) \cup {n + 1}
      OBVIOUS
    <3> QED BY Zenon, <3>1
  <2>4. Good(n)
    BY Zenon, <1>10
  <2> HIDE DEF Gone, t
  <2>5. t \in DOMAIN x.pool /\ x \in State
    BY Zenon, <2>2, <2>4
  <2>6. F[n + 1] = take_tx(x, t)
    BY Zenon, <1>8, <1>10 DEF t
  <2>7. /\ take_tx(x, t) \in State
        /\ DOMAIN take_tx(x, t).pool = DOMAIN x.pool \ {t}
        /\ \A u \in DOMAIN x.pool \ {t} : take_tx(x, t).pool[u] = x.pool[u]
    BY Zenon, <2>2, <2>5, TakeType
  <2>8. Exact(x) => Exact(take_tx(x, t))
    BY Zenon, <2>5, TakeExact
  <2>9. DOMAIN x.pool \ {t} = D \ Gone(n + 1)
    BY Zenon, <2>3, <2>4
  <2>10. \A u \in D \ Gone(n + 1) : take_tx(x, t).pool[u] = s.pool[u]
    BY Zenon, <2>3, <2>4, <2>7, <2>9
  <2>11. Good(n + 1)
    BY Zenon, <2>4, <2>6, <2>7, <2>8, <2>9, <2>10
  <2>12. n + 1 \in Nat
    OBVIOUS
  <2> HIDE DEF Good
  <2> QED BY Zenon, <2>11, <2>12
<1>11. L \in I
  <2> HIDE DEF I
  <2> QED BY Zenon, <1>3, <1>9, <1>10, Climb
<1>12. Gone(L) = T
  <2>1. \A x \in T : x \in Gone(L)
    BY Zenon, <1>1
  <2>2. \A x \in Gone(L) : x \in T
    BY Zenon, <1>3
  <2> HIDE DEF Gone
  <2> QED BY Zenon, <2>1, <2>2
<1> HIDE DEF Gone
<1>13. Good(L)
  BY Zenon, <1>11
<1> QED BY Zenon, <1>2, <1>12, <1>13
-----------------------------------------------------------------------------
(* Putting a transaction in.                                               *)

(* What Put does to each part.                                             *)
LEMMA PutIs ==
  ASSUME NEW s \in State, NEW t \in Tx, NEW m \in Meta
  PROVE  /\ Put(s, t, m) \in State
         /\ Put(s, t, m).pool = With(s.pool, t, m)
         /\ Put(s, t, m).images = [s.images EXCEPT ![Image[t]] = @ \cup {t}]
         /\ Put(s, t, m).weight = s.weight
         /\ Gains(Put(s, t, m).sorted, Entry, s.sorted,
                  [rate |-> Priority(t), recv |-> m.recv, tx |-> t])
<1> DEFINE e == [rate |-> Priority(t), recv |-> m.recv, tx |-> t]
           g == [s.images EXCEPT ![Image[t]] = @ \cup {t}]
           p == With(s.pool, t, m)
           so == Emplace(s.sorted, e)
           r == Put(s, t, m)
<1>1. /\ s.pool \in Table /\ s.images \in [KeyImage -> SUBSET Tx]
      /\ s.sorted \in Seq(Entry)
  BY DEF State
<1>2. e \in Entry
  <2>1. Priority(t) \in Nat
    BY TxAssumption, BoundAssumption DEF Priority
  <2>2. m.recv \in Nat
    BY DEF Meta
  <2> QED BY <2>1, <2>2 DEF Entry
<1>3. r = [s EXCEPT !.images = g, !.pool = p, !.sorted = so]
  BY DEF Put, WithImage, State
<1>4. g \in [KeyImage -> SUBSET Tx]
  BY <1>1, ImageIn
<1>5. p \in Table
  BY Zenon, <1>1, TableWith
<1> HIDE DEF e, g, p
<1>6. Gains(so, Entry, s.sorted, e)
  BY Zenon, <1>1, <1>2, EmplaceKeeps
<1>7. so \in Seq(Entry)
  BY Zenon, <1>6 DEF Gains
<1> HIDE DEF so, r
<1>8. r \in State /\ r.pool = p /\ r.images = g /\ r.sorted = so /\ r.weight = s.weight
  <2> DEFINE T == [KeyImage -> SUBSET Tx]
             Q == Seq(Entry)
             W == 0 .. MaxCounted
  <2>1. s \in [pool : Table, images : T, sorted : Q, weight : W]
    BY Zenon DEF State
  <2>2. g \in T /\ so \in Q
    BY Zenon, <1>4, <1>7
  <2> HIDE DEF T, Q, W
  <2>3. /\ r \in [pool : Table, images : T, sorted : Q, weight : W]
        /\ r.pool = p /\ r.images = g /\ r.sorted = so /\ r.weight = s.weight
    BY ONLY Zenon, <1>3, <1>5, <2>1, <2>2
  <2> QED BY Zenon, <2>3 DEF State, T, Q, W
<1> QED BY Zenon, <1>6, <1>8 DEF e, g, p, r

(* Put keeps the indexes exact, unless it brings a second transaction of   *)
(* the key image that no block has brought.                                *)
LEMMA PutExact ==
  ASSUME NEW s \in State, NEW t \in Tx, NEW m \in Meta,
         Indexed(s), Loads(s.pool), Covered(s),
         m.relay = "block" \/ s.images[Image[t]] \subseteq {t}
  PROVE  Indexed(Put(s, t, m)) /\ Loads(Put(s, t, m).pool) /\ Covered(Put(s, t, m))
<1> DEFINE r == Put(s, t, m)
           D == DOMAIN s.pool
           e == [rate |-> Priority(t), recv |-> m.recv, tx |-> t]
           p == With(s.pool, t, m)
<1>0. s.pool \in Table /\ s.images \in [KeyImage -> SUBSET Tx]
  BY DEF State
<1>1. /\ r.pool = p /\ r.images = [s.images EXCEPT ![Image[t]] = @ \cup {t}]
      /\ Gains(r.sorted, Entry, s.sorted, e)
  BY ZenonT(30), PutIs
<1>2. /\ DOMAIN p = D \cup {t} /\ p[t] = m
      /\ \A u \in D : u # t => p[u] = s.pool[u]
  <2> DEFINE o == s.pool
  <2>1. o \in Table /\ t \in Tx /\ m \in Meta
    BY Zenon, <1>0
  <2> HIDE DEF o
  <2>2. /\ With(o, t, m) \in Table /\ DOMAIN With(o, t, m) = DOMAIN o \cup {t}
        /\ With(o, t, m)[t] = m
        /\ \A u \in DOMAIN o : u # t => With(o, t, m)[u] = o[u]
    BY ONLY ZenonT(30), <2>1, TableWith
  <2> QED BY Zenon, <2>2 DEF o
<1>3. e.tx = t
  OBVIOUS
<1> HIDE DEF r, e, p, D
<1>4. Indexed(r)
  <2> SUFFICES ASSUME NEW k \in KeyImage
               PROVE  r.images[k] = {u \in DOMAIN r.pool : Image[u] = k}
    BY Zenon DEF Indexed
  <2>1. s.images[k] = {u \in D : Image[u] = k}
    BY Zenon DEF Indexed, D
  <2>2. r.images[k] = IF k = Image[t] THEN s.images[k] \cup {t} ELSE s.images[k]
    BY <1>0, <1>1
  <2> QED BY <1>1, <1>2, <2>1, <2>2
<1>5. Loads(p)
  <2> SUFFICES ASSUME NEW u \in DOMAIN p, NEW v \in DOMAIN p,
                      p[u].relay # "block", p[v].relay # "block",
                      Image[u] = Image[v], u # v
               PROVE  FALSE
    BY Zenon DEF Loads, Kept
  <2>1. ASSUME NEW x \in D, NEW y \in D, s.pool[x].relay # "block",
               s.pool[y].relay # "block", Image[x] = Image[y]
        PROVE  x = y
    <3>1. x \in DOMAIN s.pool \ Kept(s.pool) /\ y \in DOMAIN s.pool \ Kept(s.pool)
      BY Zenon, <2>1 DEF Kept, D
    <3> QED BY Zenon, <2>1, <3>1 DEF Loads
  <2>2. ASSUME NEW x \in D, x # t, Image[x] = Image[t], p[t].relay # "block"
        PROVE  FALSE
    <3>1. s.images[Image[t]] \subseteq {t}
      BY Zenon, <1>2, <2>2
    <3>2. x \in s.images[Image[t]]
      BY Zenon, <2>2, ImageIn DEF Indexed, D
    <3> QED BY Zenon, <2>2, <3>1, <3>2
  <2>3. CASE u = t
    BY Zenon, <1>2, <2>2, <2>3
  <2>4. CASE v = t
    BY Zenon, <1>2, <2>2, <2>4
  <2>5. CASE u # t /\ v # t
    BY Zenon, <1>2, <2>1, <2>5
  <2> QED BY Zenon, <2>3, <2>4, <2>5
<1>6. Covered(r)
  <2> SUFFICES ASSUME NEW u \in DOMAIN p
               PROVE  \E i \in 1 .. Len(r.sorted) : r.sorted[i].tx = u
    BY Zenon, <1>1 DEF Covered
  <2>1. CASE u = t
    BY Zenon, <1>1, <1>3, <2>1 DEF Gains
  <2>2. CASE u # t
    <3>1. u \in DOMAIN s.pool
      BY Zenon, <1>2, <2>2 DEF D
    <3>2. PICK j \in 1 .. Len(s.sorted) : s.sorted[j].tx = u
      BY Zenon, <3>1 DEF Covered
    <3>3. PICK i \in 1 .. Len(r.sorted) : r.sorted[i] = s.sorted[j]
      BY Zenon, <1>1 DEF Gains
    <3> QED BY Zenon, <3>2, <3>3
  <2> QED BY Zenon, <2>1, <2>2
<1> QED BY Zenon, <1>1, <1>4, <1>5, <1>6 DEF r

(* Counting a transaction.                                                 *)
Count(s, t) == [s EXCEPT !.weight = Plus(@, Weight[t])]

(* The four things add_tx may do to the table and its indexes.             *)
Outcome(r, s, t) ==
  /\ r.added \in BOOLEAN
  /\ \/ r.s = s
     \/ t \in DOMAIN s.pool /\ r.s = WithImage(s, t)
     \/ t \in DOMAIN s.pool /\ r.s = Count(s, t)
     \/ \E a \in Method, o \in BOOLEAN :
          /\ a = "block" \/ s.images[Image[t]] \subseteq {t}
          /\ r.s = Count(Put(s, t, NewMeta(a, o)), t)

(* add_tx does one of them.                                                *)
LEMMA AddIs ==
  ASSUME NEW s \in State, NEW t \in Tx, NEW m \in Method, NEW ok \in BOOLEAN
  PROVE  Outcome(add_tx(s, t, m, ok), s, t)
<1> DEFINE known == t \in DOMAIN s.pool
           as == IF m = "stem" /\ known /\ s.pool[t].relay = "stem" THEN "fluff" ELSE m
           r == add_tx(s, t, m, ok)
           E(a, o) == Count(Put(s, t, NewMeta(a, o)), t)
           Fine(a) == a = "block" \/ s.images[Image[t]] \subseteq {t}
<1>1. as \in Method
  BY DEF Method
<1>2. r = IF ~ok
          THEN IF ~insert_key_images(s, t, m) THEN Result(FALSE, s)
               ELSE IF known THEN Result(FALSE, WithImage(s, t))
               ELSE Counted(Put(s, t, NewMeta(m, FALSE)), t)
          ELSE IF known /\ Rank[s.pool[t].relay] >= Rank[as] THEN Counted(s, t)
          ELSE IF ~insert_key_images(s, t, as) THEN Result(FALSE, s)
          ELSE Counted(Put(s, t, NewMeta(as, TRUE)), t)
  BY Zenon DEF add_tx
<1>3. \A x : Counted(x, t) = Result(TRUE, Count(x, t))
  BY Zenon DEF Counted, Count
<1>4. \A a : insert_key_images(s, t, a) => Fine(a)
  BY Zenon DEF insert_key_images
<1>5. \A b, x : Result(b, x).added = b /\ Result(b, x).s = x
  BY DEF Result
<1> HIDE DEF as, r, Fine, E
<1>6. \/ r = Result(FALSE, s)
      \/ known /\ r = Result(FALSE, WithImage(s, t))
      \/ known /\ r = Result(TRUE, Count(s, t))
      \/ \E a \in Method, o \in BOOLEAN : Fine(a) /\ r = Result(TRUE, E(a, o))
  <2>1. CASE ~ok
    <3>1. CASE ~insert_key_images(s, t, m)
      BY Zenon, <1>2, <2>1, <3>1
    <3>2. CASE insert_key_images(s, t, m) /\ known
      BY Zenon, <1>2, <2>1, <3>2
    <3>3. CASE insert_key_images(s, t, m) /\ ~known
      <4>1. r = Result(TRUE, E(m, FALSE))
        BY Zenon, <1>2, <1>3, <2>1, <3>3 DEF E
      <4>2. Fine(m)
        BY Zenon, <1>4, <3>3
      <4> QED BY Zenon, <4>1, <4>2
    <3> QED BY Zenon, <3>1, <3>2, <3>3
  <2>2. CASE ok
    <3> DEFINE stays == known /\ Rank[s.pool[t].relay] >= Rank[as]
    <3>1. CASE stays
      BY Zenon, <1>2, <1>3, <2>2, <3>1
    <3>2. CASE ~stays /\ ~insert_key_images(s, t, as)
      BY Zenon, <1>2, <2>2, <3>2
    <3>3. CASE ~stays /\ insert_key_images(s, t, as)
      <4>1. r = Result(TRUE, E(as, TRUE))
        BY Zenon, <1>2, <1>3, <2>2, <3>3 DEF E
      <4>2. Fine(as)
        <5>1. insert_key_images(s, t, as)
          BY Zenon, <3>3
        <5> QED BY Zenon, <1>4, <5>1
      <4> QED BY Zenon, <1>1, <4>1, <4>2
    <3> QED BY Zenon, <3>1, <3>2, <3>3
  <2> QED BY Zenon, <2>1, <2>2
<1>7. /\ r.added \in BOOLEAN
      /\ \/ r.s = s
         \/ known /\ r.s = WithImage(s, t)
         \/ known /\ r.s = Count(s, t)
         \/ \E a \in Method, o \in BOOLEAN : Fine(a) /\ r.s = E(a, o)
  <2>1. CASE r = Result(FALSE, s)
    BY Zenon, <1>5, <2>1
  <2>2. CASE known /\ r = Result(FALSE, WithImage(s, t))
    BY Zenon, <1>5, <2>2
  <2>3. CASE known /\ r = Result(TRUE, Count(s, t))
    BY Zenon, <1>5, <2>3
  <2>4. ASSUME NEW a \in Method, NEW o \in BOOLEAN, Fine(a), r = Result(TRUE, E(a, o))
        PROVE  r.added \in BOOLEAN /\ Fine(a) /\ r.s = E(a, o)
    BY Zenon, <1>5, <2>4
  <2> QED BY Zenon, <1>6, <2>1, <2>2, <2>3, <2>4
<1> QED BY Zenon, <1>7 DEF r, Fine, E, Outcome

(* Counting changes the counter alone.                                     *)
LEMMA CountIs ==
  ASSUME NEW s \in State, NEW t \in Tx
  PROVE  /\ Count(s, t) \in State
         /\ Count(s, t).pool = s.pool /\ Count(s, t).images = s.images
         /\ Count(s, t).sorted = s.sorted
         /\ s.weight + Weight[t] <= MaxCounted =>
              Count(s, t).weight = s.weight + Weight[t]
<1> DEFINE w == Plus(s.weight, Weight[t])
           x == [s EXCEPT !.weight = w]
<1>0. s.weight \in 0 .. MaxCounted
  BY DEF State
<1>1. Weight[t] \in Nat
  BY TxAssumption
<1>2. /\ w \in 0 .. MaxCounted
      /\ s.weight + Weight[t] <= MaxCounted => w = s.weight + Weight[t]
  BY Zenon, <1>0, <1>1, Counting
<1>3. Count(s, t) = x
  BY Zenon DEF Count
<1> HIDE DEF w
<1>4. /\ x \in State /\ x.pool = s.pool /\ x.images = s.images /\ x.sorted = s.sorted
      /\ x.weight = w
  BY <1>2 DEF State
<1> HIDE DEF x
<1> QED BY Zenon, <1>2, <1>3, <1>4

(* Counting t keeps the indexes exact, also when t is new in the table.    *)
LEMMA CountExact ==
  ASSUME NEW s \in State, NEW t \in Tx, NEW S \in SUBSET Tx, NEW w \in Nat,
         Indexed(s), Loads(s.pool), Covered(s),
         s.weight = w, w >= TotalWeight(S), w + Weight[t] <= MaxCounted,
         DOMAIN s.pool = S \/ DOMAIN s.pool = S \cup {t}
  PROVE  Exact(Count(s, t))
<1> DEFINE x == Count(s, t)
           U == S \cup {t}
<1>1. /\ x.pool = s.pool /\ x.images = s.images /\ x.sorted = s.sorted
      /\ x.weight = w + Weight[t]
  BY Zenon, CountIs
<1>2. Indexed(x) /\ Loads(x.pool) /\ Covered(x)
  <2> HIDE DEF x
  <2> QED BY Zenon, <1>1 DEF Indexed, Covered
<1>3. TotalWeight(S) \in Nat /\ Weight[t] \in Nat
  <2>1. TotalWeight(S) \in 0 .. MaxCounted
    BY Zenon, Totals
  <2> QED BY <2>1, TxAssumption, BoundAssumption
<1>4. TotalWeight(U) <= TotalWeight(S) + Weight[t]
  <2>1. CASE t \in S
    <3>1. U = S
      BY Zenon, <2>1
    <3>2. TotalWeight(S) <= TotalWeight(S) + Weight[t]
      BY <1>3
    <3> QED BY Zenon, <3>1, <3>2
  <2>2. CASE t \notin S
    <3>1. U \ {t} = S /\ U \in SUBSET Tx /\ t \in U
      BY Zenon, <2>2
    <3> HIDE DEF U
    <3>2. TotalWeight(U) = Weight[t] + TotalWeight(S)
      BY Zenon, <3>1, Totals
    <3> QED BY <1>3, <3>2
  <2> QED BY Zenon, <2>1, <2>2
<1>5. TotalWeight(U) \in Nat
  <2>1. U \in SUBSET Tx
    OBVIOUS
  <2>2. TotalWeight(U) \in 0 .. MaxCounted
    BY Zenon, <2>1, Totals
  <2> QED BY <2>2, BoundAssumption
<1>6. w + Weight[t] >= TotalWeight(U) /\ w + Weight[t] >= TotalWeight(S)
  <2> HIDE DEF U
  <2> QED BY <1>3, <1>4, <1>5
<1> HIDE DEF x
<1>7. Weighed(x)
  BY Zenon, <1>1, <1>6 DEF Weighed
<1> QED BY Zenon, <1>2, <1>7 DEF Exact, x

(* add_tx is a step from state to state, and keeps the indexes exact.      *)
LEMMA AddKeeps ==
  ASSUME NEW s \in State, NEW t \in Tx, NEW m \in Method, NEW ok \in BOOLEAN,
         clock \in Nat
  PROVE  /\ add_tx(s, t, m, ok).s \in State /\ add_tx(s, t, m, ok).added \in BOOLEAN
         /\ Exact(s) /\ s.weight + Weight[t] <= MaxCounted =>
              Exact(add_tx(s, t, m, ok).s)
<1> DEFINE r == add_tx(s, t, m, ok)
           D == DOMAIN s.pool
<1>0. /\ s.pool \in Table /\ s.images \in [KeyImage -> SUBSET Tx]
      /\ s.weight \in 0 .. MaxCounted
  BY DEF State
<1>1. D \in SUBSET Tx
  BY Zenon, <1>0, TableIs
<1>2. s.weight \in Nat
  BY <1>0, BoundAssumption
<1>3. /\ r.added \in BOOLEAN
      /\ \/ r.s = s
         \/ t \in D /\ r.s = WithImage(s, t)
         \/ t \in D /\ r.s = Count(s, t)
         \/ \E a \in Method, o \in BOOLEAN :
              /\ a = "block" \/ s.images[Image[t]] \subseteq {t}
              /\ r.s = Count(Put(s, t, NewMeta(a, o)), t)
  <2>1. Outcome(r, s, t)
    BY Zenon, AddIs
  <2> HIDE DEF r
  <2> QED BY Zenon, <2>1 DEF Outcome
<1> HIDE DEF r, D
<1> DEFINE Keeps(x) == /\ x \in State
                       /\ Exact(s) /\ s.weight + Weight[t] <= MaxCounted => Exact(x)
<1>4. Keeps(s)
  BY Zenon
<1>5. ASSUME t \in D PROVE Keeps(WithImage(s, t))
  <2> DEFINE g == [s.images EXCEPT ![Image[t]] = @ \cup {t}]
             x == WithImage(s, t)
  <2>1. x = [s EXCEPT !.images = g]
    BY DEF WithImage, State
  <2>2. g \in [KeyImage -> SUBSET Tx]
    BY <1>0, ImageIn
  <2>3. \A k \in KeyImage : g[k] = IF k = Image[t] THEN s.images[k] \cup {t} ELSE s.images[k]
    BY Zenon, <1>0
  <2> HIDE DEF g, x
  <2>4. /\ x \in State /\ x.pool = s.pool /\ x.images = g /\ x.sorted = s.sorted
        /\ x.weight = s.weight
    BY SMTT(20), <2>1, <2>2 DEF State
  <2>5. ASSUME Indexed(s) PROVE Indexed(x)
    <3> SUFFICES ASSUME NEW k \in KeyImage PROVE g[k] = {u \in D : Image[u] = k}
      BY Zenon, <2>4 DEF Indexed, D
    <3>1. s.images[k] = {u \in D : Image[u] = k}
      BY Zenon, <2>5 DEF Indexed, D
    <3> QED BY Zenon, <1>5, <2>3, <3>1
  <2>6. ASSUME Exact(s) PROVE Exact(x)
    BY Zenon, <2>4, <2>5, <2>6 DEF Exact, Covered, Weighed
  <2> QED BY Zenon, <2>4, <2>6 DEF x
<1>6. Keeps(Count(s, t))
  <2>1. Count(s, t) \in State
    BY Zenon, CountIs
  <2>2. ASSUME Exact(s), s.weight + Weight[t] <= MaxCounted PROVE Exact(Count(s, t))
    BY Zenon, <1>1, <1>2, <2>2, CountExact DEF Exact, Weighed, D
  <2> QED BY Zenon, <2>1, <2>2
<1>7. ASSUME NEW a \in Method, NEW o \in BOOLEAN,
             a = "block" \/ s.images[Image[t]] \subseteq {t}
      PROVE  Keeps(Count(Put(s, t, NewMeta(a, o)), t))
  <2> DEFINE e == NewMeta(a, o)
             x == Put(s, t, e)
  <2>1. e \in Meta /\ e.relay = a
    BY DEF NewMeta, NoFail, Meta
  <2> HIDE DEF e
  <2>2. x \in State /\ x.pool = With(s.pool, t, e) /\ x.weight = s.weight
    BY Zenon, <2>1, PutIs
  <2>3. DOMAIN With(s.pool, t, e) = D \cup {t}
    BY Zenon, <1>0, <2>1, TableWith DEF D
  <2>4. ASSUME Indexed(s), Loads(s.pool), Covered(s)
        PROVE  Indexed(x) /\ Loads(x.pool) /\ Covered(x)
    BY Zenon, <1>7, <2>1, <2>4, PutExact
  <2> HIDE DEF x
  <2>5. Count(x, t) \in State
    BY Zenon, <2>2, CountIs
  <2>6. ASSUME Exact(s), s.weight + Weight[t] <= MaxCounted PROVE Exact(Count(x, t))
    <3>1. Indexed(x) /\ Loads(x.pool) /\ Covered(x)
      BY Zenon, <2>4, <2>6 DEF Exact
    <3>2. s.weight >= TotalWeight(D)
      BY Zenon, <2>6 DEF Exact, Weighed, D
    <3>3. DOMAIN x.pool = D \cup {t}
      BY Zenon, <2>2, <2>3
    <3> QED BY Zenon, <1>1, <1>2, <2>2, <2>6, <3>1, <3>2, <3>3, CountExact
  <2> QED BY Zenon, <2>5, <2>6 DEF x, e
<1> HIDE DEF Keeps
<1>8. Keeps(r.s)
  BY Zenon, <1>3, <1>4, <1>5, <1>6, <1>7
<1> QED BY Zenon, <1>3, <1>8 DEF r, Keeps
-----------------------------------------------------------------------------
(* Starting: init and validate.                                            *)

(* Every transaction listed gets an entry.                                 *)
LEMMA SortedByKeeps ==
  ASSUME NEW p \in Table, NEW order \in Seq(DOMAIN p)
  PROVE  /\ SortedBy(p, order) \in Seq(Entry)
         /\ \A j \in 1 .. Len(order) :
              \E i \in 1 .. Len(SortedBy(p, order)) : SortedBy(p, order)[i].tx = order[j]
<1> DEFINE L == Len(order)
           V == Seq(Entry)
           e(n) == [rate |-> Rate[order[n]], recv |-> p[order[n]].recv, tx |-> order[n]]
           Body(k) == [n \in 0 .. L |->
                         IF n = 0 THEN <<>> ELSE Emplace(k[n - 1], e(n))]
           F == CHOOSE k : k = Body(k)
           step == [x \in V |-> [n \in 1 .. L |-> Emplace(x, e(n))]]
<1>0. p \in [DOMAIN p -> Meta] /\ DOMAIN p \in SUBSET Tx
  BY Zenon, TableIs
<1>1. L \in Nat /\ \A n \in 1 .. L : order[n] \in DOMAIN p
  OBVIOUS
<1>2. SortedBy(p, order) = F[L]
  BY Zenon DEF SortedBy
<1> HIDE DEF L
<1>3. \A n \in 1 .. L : e(n) \in Entry /\ e(n).tx = order[n]
  <2> SUFFICES ASSUME NEW n \in 1 .. L PROVE e(n) \in Entry /\ e(n).tx = order[n]
    OBVIOUS
  <2> DEFINE t == order[n]
  <2>1. t \in Tx /\ p[t] \in Meta
    BY Zenon, <1>0, <1>1
  <2> HIDE DEF t
  <2>2. Rate[t] \in Nat /\ p[t].recv \in Nat
    BY <2>1, TxAssumption DEF Meta
  <2>3. e(n) = [rate |-> Rate[t], recv |-> p[t].recv, tx |-> t]
    BY Zenon DEF t
  <2> HIDE DEF e
  <2>4. e(n) \in Entry /\ e(n).tx = t
    BY <2>1, <2>2, <2>3 DEF Entry
  <2> QED BY Zenon, <2>4 DEF t
<1> HIDE DEF e
<1>4. \A x \in V : \A n \in 1 .. L : Gains(Emplace(x, e(n)), Entry, x, e(n))
  BY Zenon, <1>3, EmplaceKeeps
<1>5. step \in [V -> [1 .. L -> V]]
  <2>1. \A x \in V : \A n \in 1 .. L : Emplace(x, e(n)) \in V
    BY Zenon, <1>4 DEF Gains
  <2> HIDE DEF V
  <2> QED BY Zenon, <2>1
<1>6. <<>> \in V
  OBVIOUS
<1> HIDE DEF V
<1>7. PICK k \in [0 .. L -> V] :
        k[0] = <<>> /\ \A n \in 1 .. L : k[n] = step[k[n - 1]][n]
  <2> HIDE DEF step
  <2>1. \E k \in [0 .. L -> V] : Unrolled(k, <<>>, L, step)
    BY Zenon, <1>1, <1>5, <1>6, Unrolls
  <2> QED BY Zenon, <2>1 DEF Unrolled
<1>8. k = Body(k)
  <2>1. ASSUME NEW n \in 0 .. L
        PROVE  k[n] = IF n = 0 THEN <<>> ELSE Emplace(k[n - 1], e(n))
    <3>1. CASE n = 0
      BY Zenon, <1>7, <3>1
    <3>2. CASE n # 0
      <4>1. n \in 1 .. L /\ n - 1 \in 0 .. L
        BY <1>1, <3>2
      <4>2. k[n - 1] \in V
        BY Zenon, <4>1
      <4>3. step[k[n - 1]][n] = Emplace(k[n - 1], e(n))
        BY Zenon, <4>1, <4>2
      <4> QED BY Zenon, <1>7, <3>2, <4>1, <4>3
    <3> QED BY Zenon, <3>1, <3>2
  <2>2. k = [n \in 0 .. L |-> k[n]]
    OBVIOUS
  <2> QED BY Zenon, <2>1, <2>2
<1>9. F = Body(F)
  <2> HIDE DEF Body
  <2> QED BY Zenon, <1>8
<1> HIDE DEF F
<1>10. /\ F[0] = <<>>
       /\ \A n \in Nat : n + 1 <= L => F[n + 1] = Emplace(F[n], e(n + 1))
  <2>1. \A n \in 0 .. L : F[n] = IF n = 0 THEN <<>> ELSE Emplace(F[n - 1], e(n))
    BY Zenon, <1>9
  <2>2. 0 \in 0 .. L
    BY <1>1
  <2>3. ASSUME NEW n \in Nat, n + 1 <= L PROVE F[n + 1] = Emplace(F[n], e(n + 1))
    <3>1. n + 1 \in 0 .. L /\ n + 1 # 0 /\ (n + 1) - 1 = n
      BY <1>1, <2>3
    <3> QED BY Zenon, <2>1, <3>1
  <2> QED BY Zenon, <2>1, <2>2, <2>3
<1> DEFINE Has(so, t) == \E i \in 1 .. Len(so) : so[i].tx = t
           I == {n \in Nat : F[n] \in V /\ \A j \in 1 .. n : Has(F[n], order[j])}
<1>11. 0 \in I
  <2>1. F[0] \in V
    BY Zenon, <1>6, <1>10
  <2> HIDE DEF Has
  <2> QED BY <2>1
<1>12. ASSUME NEW n \in Nat, n + 1 <= L, n \in I PROVE n + 1 \in I
  <2> DEFINE x == F[n]
             y == F[n + 1]
  <2>0. n + 1 \in 1 .. L /\ n + 1 <= L
    BY <1>1, <1>12
  <2>1. x \in V /\ \A j \in 1 .. n : Has(x, order[j])
    BY Zenon, <1>12
  <2>2. y = Emplace(x, e(n + 1))
    BY Zenon, <1>10, <2>0
  <2>3. Gains(y, Entry, x, e(n + 1))
    BY Zenon, <1>4, <2>0, <2>1, <2>2
  <2> HIDE DEF x, y
  <2>4. y \in V
    BY Zenon, <2>3 DEF Gains, V
  <2>5. Has(y, order[n + 1])
    <3>1. e(n + 1).tx = order[n + 1]
      BY Zenon, <1>3, <2>0
    <3>2. \E m \in 1 .. Len(y) : y[m] = e(n + 1)
      BY Zenon, <2>3 DEF Gains
    <3> QED BY Zenon, <3>1, <3>2
  <2>6. \A t : Has(x, t) => Has(y, t)
    BY Zenon, <2>3 DEF Gains
  <2> HIDE DEF Has
  <2>7. ASSUME NEW j \in 1 .. n + 1 PROVE Has(y, order[j])
    <3>1. j = n + 1 \/ j \in 1 .. n
      OBVIOUS
    <3> QED BY Zenon, <2>1, <2>5, <2>6, <3>1
  <2>8. n + 1 \in Nat
    OBVIOUS
  <2> QED BY Zenon, <2>4, <2>7, <2>8 DEF y
<1>13. L \in I
  <2> HIDE DEF I
  <2> QED BY Zenon, <1>1, <1>11, <1>12, Climb
<1> QED BY Zenon, <1>2, <1>13 DEF L, V

(* init builds exact indexes for a table it accepts.                       *)
LEMMA LoadedExact ==
  ASSUME NEW p \in Table, Loads(p)
  PROVE  Loaded(p) \in State /\ Exact(Loaded(p)) /\ Loaded(p).pool = p
<1> DEFINE A == DOMAIN p \ Kept(p)
           B == Kept(p)
           u == SetToSeq(A)
           v == SetToSeq(B)
           order == u \o v
           so == SortedBy(p, order)
           g == [k \in KeyImage |-> {t \in DOMAIN p : Image[t] = k}]
           w == TotalWeight(DOMAIN p)
           r == Loaded(p)
           P == DOMAIN p
<1>0. P \in SUBSET Tx
  BY Zenon, TableIs
<1>1. r = [pool |-> p, images |-> g, sorted |-> so, weight |-> w]
  BY Zenon DEF Loaded
<1>2. A \subseteq P /\ B \subseteq P /\ P \subseteq A \cup B
  BY Zenon DEF Kept
<1>3. IsFiniteSet(A) /\ IsFiniteSet(B)
  <2>1. A \in SUBSET Tx /\ B \in SUBSET Tx
    BY Zenon, <1>0, <1>2
  <2> QED BY Zenon, <2>1, WeightAssumption, FS_Subset
<1> HIDE DEF A, B
<1>4. /\ u \in Seq(A) /\ \A x \in A : \E i \in 1 .. Len(u) : u[i] = x
      /\ v \in Seq(B) /\ \A x \in B : \E i \in 1 .. Len(v) : v[i] = x
  BY Zenon, <1>3, Listing
<1> HIDE DEF u, v
<1>5. u \in Seq(P) /\ v \in Seq(P)
  BY <1>2, <1>4
<1> HIDE DEF P
<1>6. /\ order \in Seq(P) /\ Len(order) = Len(u) + Len(v)
      /\ \A i \in 1 .. Len(u) + Len(v) :
           order[i] = IF i <= Len(u) THEN u[i] ELSE v[i - Len(u)]
  BY <1>5
<1> HIDE DEF order
<1>7. Len(u) \in Nat /\ Len(v) \in Nat
  BY <1>5
<1>8. ASSUME NEW x \in P PROVE \E j \in 1 .. Len(order) : order[j] = x
  <2>1. CASE x \in A
    <3>1. PICK i \in 1 .. Len(u) : u[i] = x
      BY Zenon, <1>4, <2>1
    <3>2. i \in 1 .. Len(u) + Len(v) /\ i <= Len(u) /\ i \in 1 .. Len(order)
      BY <1>6, <1>7
    <3> QED BY Zenon, <1>6, <3>1, <3>2
  <2>2. CASE x \in B
    <3>1. PICK i \in 1 .. Len(v) : v[i] = x
      BY Zenon, <1>4, <2>2
    <3> DEFINE j == Len(u) + i
    <3>2. /\ j \in 1 .. Len(u) + Len(v) /\ ~(j <= Len(u)) /\ j - Len(u) = i
          /\ j \in 1 .. Len(order)
      BY <1>6, <1>7
    <3> HIDE DEF j
    <3> QED BY Zenon, <1>6, <3>1, <3>2
  <2> QED BY Zenon, <1>2, <2>1, <2>2
<1>9. /\ so \in Seq(Entry)
      /\ \A j \in 1 .. Len(order) : \E i \in 1 .. Len(so) : so[i].tx = order[j]
  <2>1. order \in Seq(DOMAIN p)
    BY Zenon, <1>6 DEF P
  <2> QED BY Zenon, <2>1, SortedByKeeps
<1> HIDE DEF so
<1>10. g \in [KeyImage -> SUBSET Tx] /\ \A k \in KeyImage : g[k] = {t \in P : Image[t] = k}
  <2>1. g = [k \in KeyImage |-> {t \in P : Image[t] = k}]
    BY Zenon DEF P
  <2> QED BY <1>0, <2>1
<1>11. w \in 0 .. MaxCounted
  BY Zenon, <1>0, Totals DEF P
<1>12. w >= TotalWeight(P)
  <2>1. w = TotalWeight(P)
    BY Zenon DEF P
  <2> HIDE DEF w
  <2> QED BY <1>11, <2>1, BoundAssumption
<1> HIDE DEF g, w, r
<1>13. r \in State /\ r.pool = p /\ r.images = g /\ r.sorted = so /\ r.weight = w
  BY <1>1, <1>9, <1>10, <1>11 DEF State
<1>14. Indexed(r)
  BY Zenon, <1>10, <1>13 DEF Indexed, P
<1>15. Covered(r)
  <2> SUFFICES ASSUME NEW t \in P PROVE \E i \in 1 .. Len(so) : so[i].tx = t
    BY Zenon, <1>13 DEF Covered, P
  <2>1. PICK j \in 1 .. Len(order) : order[j] = t
    BY Zenon, <1>8
  <2> QED BY Zenon, <1>9, <2>1
<1>16. Weighed(r)
  BY Zenon, <1>12, <1>13 DEF Weighed, P
<1> QED BY Zenon, <1>13, <1>14, <1>15, <1>16 DEF Exact, r
-----------------------------------------------------------------------------
(* fill_block_template.                                                    *)

Verdicts == UNION {[D -> BOOLEAN] : D \in SUBSET Tx}
Fill == [txs : Seq(Tx), total : Nat, cache : Verdicts, pool : Table]

(* g is f with v at x.                                                     *)
Updated(g, f, x, v) ==
  /\ DOMAIN g = DOMAIN f \cup {x} /\ g[x] = v
  /\ \A y \in DOMAIN f : y # x => g[y] = f[y]

(* That is what With gives.                                                *)
LEMMA WithIs ==
  ASSUME NEW f, NEW x, NEW v
  PROVE  Updated(With(f, x, v), f, x, v)
<1> DEFINE D == DOMAIN f \cup {x}
           g == With(f, x, v)
<1>1. g = [y \in D |-> IF y = x THEN v ELSE f[y]]
  BY Zenon DEF With
<1>2. x \in D /\ \A y \in DOMAIN f : y \in D
  OBVIOUS
<1>3. DOMAIN g = D /\ g[x] = v /\ \A y \in DOMAIN f : y # x => g[y] = f[y]
  BY Zenon, <1>1, <1>2
<1> QED BY Zenon, <1>3 DEF Updated

(* Cached verdicts with one more.                                          *)
LEMMA VerdictsWith ==
  ASSUME NEW c \in Verdicts, NEW t \in Tx, NEW v \in BOOLEAN
  PROVE  With(c, t, v) \in Verdicts
<1> DEFINE D == DOMAIN c \cup {t}
           q == With(c, t, v)
<1>1. PICK C \in SUBSET Tx : c \in [C -> BOOLEAN]
  BY Zenon DEF Verdicts
<1>2. DOMAIN c = C
  BY Zenon, <1>1
<1>3. q = [y \in D |-> IF y = t THEN v ELSE c[y]]
  BY Zenon DEF With
<1>4. D \in SUBSET Tx
  BY Zenon, <1>2
<1>5. \A y \in D : (IF y = t THEN v ELSE c[y]) \in BOOLEAN
  BY Zenon, <1>1, <1>2
<1>6. q \in [D -> BOOLEAN]
  BY Zenon, <1>3, <1>5
<1> HIDE DEF q, D
<1>7. q \in Verdicts
  BY Zenon, <1>4, <1>6 DEF Verdicts
<1> QED BY Zenon, <1>7 DEF q

(* A verdict is a Boolean, and a fresh one where the cache is fresh.       *)
LEMMA VerdictIs ==
  ASSUME NEW c \in Verdicts, NEW t \in Tx
  PROVE  /\ Verdict(chain, c, t) \in BOOLEAN
         /\ (\A u \in DOMAIN c : c[u] = InputsOk(chain, u)) =>
              Verdict(chain, c, t) = InputsOk(chain, t)
<1>1. InputsOk(chain, t) \in BOOLEAN
  BY Zenon DEF InputsOk
<1>2. PICK C \in SUBSET Tx : c \in [C -> BOOLEAN]
  BY Zenon DEF Verdicts
<1>3. DOMAIN c = C
  BY Zenon, <1>2
<1>4. t \in DOMAIN c => c[t] \in BOOLEAN
  BY Zenon, <1>2, <1>3
<1> QED BY Zenon, <1>1, <1>4 DEF Verdict

(* The records of a table as the template changes them.                    *)
LEMMA MetaExcept ==
  ASSUME NEW m \in Meta, NEW f \in [h : Nat, b : Blk \cup {NoBlk}], NEW x \in Method
  PROVE  /\ [m EXCEPT !.used = TRUE] \in Meta /\ [m EXCEPT !.used = TRUE].relay = m.relay
         /\ [m EXCEPT !.fail = f] \in Meta /\ [m EXCEPT !.fail = f].relay = m.relay
         /\ [m EXCEPT !.relay = x] \in Meta /\ [m EXCEPT !.relay = x].relay = x
BY Zenon DEF Meta

(* What one entry adds to the template.                                    *)
Chosen(f, t) ==
  /\ Verdict(chain, f.cache, t) /\ Image[t] \notin Spent(chain)
  /\ Image[t] \notin {Image[f.txs[i]] : i \in DOMAIN f.txs}

(* r is f after the entry of t: the table keeps its keys and relay         *)
(* methods, the cache gains t's verdict, and t is in if it was chosen.     *)
Considered(r, f, t) ==
  /\ r \in Fill
  /\ \/ r = f
     \/ /\ IsLegacy(f, t) /\ t \notin Msg /\ f.total + Weight[t] <= MAX_TOTAL
        /\ DOMAIN r.pool = DOMAIN f.pool
        /\ \A u \in DOMAIN f.pool : r.pool[u].relay = f.pool[u].relay
        /\ r.cache = With(f.cache, t, Verdict(chain, f.cache, t))
        /\ r.txs = IF Chosen(f, t) THEN Append(f.txs, t) ELSE f.txs
        /\ r.total = f.total + IF Chosen(f, t) THEN Weight[t] ELSE 0

(* Consider does that.                                                     *)
LEMMA ConsiderIs ==
  ASSUME NEW f \in Fill, NEW e \in Entry, chain \in Seq(Blk), Len(chain) >= 1
  PROVE  Considered(Consider(f, e), f, e.tx)
<1> DEFINE t == e.tx
           ok == Verdict(chain, f.cache, t)
           in == Chosen(f, t)
           out == \/ t \notin DOMAIN f.pool \/ ~IsLegacy(f, t) \/ t \in Msg
                  \/ f.total + Weight[t] > MAX_TOTAL \/ Skipped(f.pool, t)
           fl == [h |-> Len(chain) - 1, b |-> Last(chain)]
           m == f.pool[t]
           a == [m EXCEPT !.used = TRUE]
           b == [m EXCEPT !.fail = fl]
           p == IF ok THEN [f.pool EXCEPT ![t] = a] ELSE [f.pool EXCEPT ![t] = b]
           c == With(f.cache, t, ok)
           txs == IF in THEN Append(f.txs, t) ELSE f.txs
           total == f.total + IF in THEN Weight[t] ELSE 0
           r == [txs |-> txs, total |-> total, cache |-> c, pool |-> p]
<1>1. /\ t \in Tx /\ f.txs \in Seq(Tx) /\ f.total \in Nat /\ f.cache \in Verdicts
      /\ f.pool \in Table
  BY DEF Entry, Fill
<1>2. Consider(f, e) = IF out THEN f ELSE r
  BY DEF Consider, Chosen
<1>3. CASE out
  BY Zenon, <1>2, <1>3 DEF Considered
<1>4. CASE ~out
  <2>1. /\ t \in DOMAIN f.pool /\ IsLegacy(f, t) /\ t \notin Msg
        /\ ~(f.total + Weight[t] > MAX_TOTAL)
    BY Zenon, <1>4
  <2> HIDE DEF out, t
  <2>2. Weight[t] \in Nat /\ MAX_TOTAL \in Nat
    BY <1>1, TxAssumption, BoundAssumption
  <2>3. f.total + Weight[t] <= MAX_TOTAL
    BY <1>1, <2>1, <2>2
  <2>4. ok \in BOOLEAN
    BY Zenon, <1>1, VerdictIs
  <2>5. m \in Meta
    BY Zenon, <1>1, <2>1, TableIs
  <2>6. fl \in [h : Nat, b : Blk \cup {NoBlk}]
    BY DEF Last
  <2> HIDE DEF fl
  <2>7. a \in Meta /\ a.relay = m.relay /\ b \in Meta /\ b.relay = m.relay
    <3> HIDE DEF m
    <3>1. "none" \in Method
      BY DEF Method
    <3>2. a \in Meta /\ a.relay = m.relay
      BY Zenon, <2>5, <2>6, <3>1, MetaExcept
    <3>3. b \in Meta /\ b.relay = m.relay
      BY Zenon, <2>5, <2>6, <3>1, MetaExcept
    <3> QED BY Zenon, <3>2, <3>3
  <2>8. c \in Verdicts
    BY Zenon, <1>1, <2>4, VerdictsWith
  <2> HIDE DEF a, b
  <2>9. ASSUME NEW x \in Meta, x.relay = m.relay
        PROVE  /\ [f.pool EXCEPT ![t] = x] \in Table
               /\ DOMAIN [f.pool EXCEPT ![t] = x] = DOMAIN f.pool
               /\ \A u \in DOMAIN f.pool : [f.pool EXCEPT ![t] = x][u].relay = f.pool[u].relay
    <3> DEFINE q == [f.pool EXCEPT ![t] = x]
    <3>1. /\ q \in Table /\ DOMAIN q = DOMAIN f.pool /\ q[t] = x
          /\ \A u \in DOMAIN f.pool : u # t => q[u] = f.pool[u]
      BY Zenon, <1>1, <2>1, TableExcept
    <3> HIDE DEF q
    <3> QED BY Zenon, <2>9, <3>1 DEF q
  <2>10. /\ p \in Table /\ DOMAIN p = DOMAIN f.pool
         /\ \A u \in DOMAIN f.pool : p[u].relay = f.pool[u].relay
    BY Zenon, <2>4, <2>7, <2>9
  <2> HIDE DEF ok, in, p, c
  <2>11. txs \in Seq(Tx) /\ total \in Nat
    BY <1>1, <2>2
  <2> HIDE DEF txs, total
  <2>12. /\ r \in Fill /\ r.pool = p /\ r.cache = c /\ r.txs = txs /\ r.total = total
    BY <2>8, <2>10, <2>11 DEF Fill
  <2> HIDE DEF r
  <2>13. Considered(r, f, t)
    BY Zenon, <2>1, <2>3, <2>10, <2>12 DEF Considered, ok, in, c, txs, total
  <2>14. Consider(f, e) = r
    BY Zenon, <1>2, <1>4 DEF out
  <2> QED BY Zenon, <2>13, <2>14 DEF t
<1> QED BY Zenon, <1>3, <1>4

(* The template so far can be added to the chain.                          *)
SameTable(f) ==
  /\ DOMAIN f.pool = DOMAIN pool
  /\ \A u \in DOMAIN pool : f.pool[u].relay = pool[u].relay
Fresh(c) == \A u \in DOMAIN c : c[u] = InputsOk(chain, u)
Addable(t) == IsLegacy(Now, t) /\ t \notin Msg /\ InputsOk(chain, t)
SoundFill(f) ==
  /\ SameTable(f) /\ Fresh(f.cache)
  /\ \A i \in 1 .. Len(f.txs) : Addable(f.txs[i])
  /\ \A i, j \in 1 .. Len(f.txs) : Image[f.txs[i]] = Image[f.txs[j]] => i = j
  /\ f.total <= MAX_TOTAL

(* It stays so with every entry.                                           *)
LEMMA FillStaysSound ==
  ASSUME NEW f \in Fill, NEW t \in Tx, NEW r, Considered(r, f, t), SoundFill(f)
  PROVE  SoundFill(r)
<1>0. CASE r = f
  BY Zenon, <1>0
<1> SUFFICES ASSUME r # f PROVE SoundFill(r)
  BY Zenon, <1>0
<1> DEFINE v == Verdict(chain, f.cache, t)
           in == Chosen(f, t)
           L == Len(f.txs)
<1>1. /\ IsLegacy(f, t) /\ t \notin Msg /\ f.total + Weight[t] <= MAX_TOTAL
      /\ DOMAIN r.pool = DOMAIN f.pool
      /\ \A u \in DOMAIN f.pool : r.pool[u].relay = f.pool[u].relay
      /\ r.cache = With(f.cache, t, v)
      /\ r.txs = IF in THEN Append(f.txs, t) ELSE f.txs
      /\ r.total = f.total + IF in THEN Weight[t] ELSE 0
  BY Zenon DEF Considered
<1>2. f.txs \in Seq(Tx) /\ f.total \in Nat /\ f.cache \in Verdicts
  BY DEF Fill
<1>3. /\ SameTable(f) /\ Fresh(f.cache) /\ f.total <= MAX_TOTAL
      /\ \A i \in 1 .. L : Addable(f.txs[i])
      /\ \A i, j \in 1 .. L : Image[f.txs[i]] = Image[f.txs[j]] => i = j
  BY Zenon DEF SoundFill
<1>4. v \in BOOLEAN /\ v = InputsOk(chain, t)
  BY Zenon, <1>2, <1>3, VerdictIs DEF Fresh
<1>5. in => v /\ \A i \in 1 .. L : Image[f.txs[i]] # Image[t]
  <2>1. DOMAIN f.txs = 1 .. L
    BY <1>2
  <2> QED BY Zenon, <2>1 DEF Chosen
<1> HIDE DEF v, in
<1>6. SameTable(r)
  BY Zenon, <1>1, <1>3 DEF SameTable
<1>7. Fresh(r.cache)
  <2> DEFINE c == With(f.cache, t, v)
  <2>1. /\ DOMAIN c = DOMAIN f.cache \cup {t} /\ c[t] = v
        /\ \A u \in DOMAIN f.cache : u # t => c[u] = f.cache[u]
    <3>1. Updated(c, f.cache, t, v)
      BY Zenon, WithIs
    <3> HIDE DEF c
    <3> QED BY Zenon, <3>1 DEF Updated
  <2> HIDE DEF c
  <2>2. Fresh(c)
    <3> SUFFICES ASSUME NEW u \in DOMAIN c PROVE c[u] = InputsOk(chain, u)
      BY Zenon DEF Fresh
    <3>1. CASE u = t
      BY Zenon, <1>4, <2>1, <3>1
    <3>2. CASE u # t
      BY Zenon, <1>3, <2>1, <3>2 DEF Fresh
    <3> QED BY Zenon, <3>1, <3>2
  <2> QED BY Zenon, <1>1, <2>2 DEF c
<1>8. Addable(t) \/ ~in
  <2>1. IsLegacy(Now, t)
    <3>1. Now.pool = pool
      BY DEF Now
    <3> QED BY Zenon, <1>1, <1>3, <3>1 DEF IsLegacy, SameTable
  <2> QED BY Zenon, <1>1, <1>4, <1>5, <2>1 DEF Addable
<1>9. CASE ~in
  <2>1. r.txs = f.txs /\ r.total = f.total
    BY <1>1, <1>2, <1>9
  <2> QED BY Zenon, <1>3, <1>6, <1>7, <2>1 DEF SoundFill
<1>10. CASE in
  <2> DEFINE y == Append(f.txs, t)
  <2>1. r.txs = y /\ r.total = f.total + Weight[t]
    BY Zenon, <1>1, <1>10
  <2>2. L \in Nat
    BY <1>2
  <2>3. Len(y) = L + 1 /\ (\A i \in 1 .. L : y[i] = f.txs[i]) /\ y[L + 1] = t
    <3> DEFINE x == f.txs
    <3>1. x \in Seq(Tx)
      BY Zenon, <1>2
    <3> HIDE DEF x
    <3>2. /\ Append(x, t) \in Seq(Tx) /\ Append(x, t) # <<>>
          /\ Len(Append(x, t)) = Len(x) + 1
          /\ \A i \in 1 .. Len(x) : Append(x, t)[i] = x[i]
          /\ Append(x, t)[Len(x) + 1] = t
      BY <3>1
    <3> QED BY Zenon, <3>2 DEF x
  <2> HIDE DEF y, L
  <2>4. \A i \in 1 .. L + 1 : i = L + 1 \/ i \in 1 .. L
    BY <2>2
  <2>5. ASSUME NEW i \in 1 .. L + 1 PROVE Addable(y[i])
    <3> HIDE DEF in
    <3> QED BY Zenon, <1>3, <1>8, <1>10, <2>3, <2>4
  <2>6. ASSUME NEW i \in 1 .. L + 1, NEW j \in 1 .. L + 1, Image[y[i]] = Image[y[j]]
        PROVE  i = j
    <3>1. CASE i = L + 1 /\ j = L + 1
      BY Zenon, <3>1
    <3>2. CASE i = L + 1 /\ j \in 1 .. L
      <4>1. Image[f.txs[j]] # Image[t]
        BY Zenon, <1>5, <1>10, <3>2
      <4>2. y[i] = t /\ y[j] = f.txs[j]
        BY Zenon, <2>3, <3>2
      <4> QED BY Zenon, <2>6, <4>1, <4>2
    <3>3. CASE i \in 1 .. L /\ j = L + 1
      <4>1. Image[f.txs[i]] # Image[t]
        BY Zenon, <1>5, <1>10, <3>3
      <4>2. y[j] = t /\ y[i] = f.txs[i]
        BY Zenon, <2>3, <3>3
      <4> QED BY Zenon, <2>6, <4>1, <4>2
    <3>4. CASE i \in 1 .. L /\ j \in 1 .. L
      <4>1. y[i] = f.txs[i] /\ y[j] = f.txs[j]
        BY Zenon, <2>3, <3>4
      <4> QED BY Zenon, <1>3, <2>6, <3>4, <4>1
    <3> QED BY Zenon, <2>4, <3>1, <3>2, <3>3, <3>4
  <2> QED BY Zenon, <1>1, <1>6, <1>7, <2>1, <2>3, <2>5, <2>6 DEF SoundFill
<1> QED BY Zenon, <1>9, <1>10

(* The template of a pool with a fresh cache is sound.                     *)
LEMMA TemplateKeeps ==
  ASSUME pool \in Table, cache \in Verdicts, Fresh(cache), sorted \in Seq(Entry),
         chain \in Seq(Blk), Len(chain) >= 1
  PROVE  Template \in Fill /\ SoundFill(Template)
<1> DEFINE L == Len(sorted)
           b == [txs |-> <<>>, total |-> 0, cache |-> cache, pool |-> pool]
           Body(k) == [n \in 0 .. L |-> IF n = 0 THEN b ELSE Consider(k[n - 1], sorted[n])]
           F == CHOOSE k : k = Body(k)
           step == [x \in Fill |-> [n \in 1 .. L |-> Consider(x, sorted[n])]]
<1>1. L \in Nat /\ \A n \in 1 .. L : sorted[n] \in Entry
  OBVIOUS
<1>2. Template = F[L]
  BY Zenon DEF Template
<1> HIDE DEF L
<1>3. b \in Fill
  BY DEF Fill
<1>4. \A x \in Fill : \A n \in 1 .. L : Considered(Consider(x, sorted[n]), x, sorted[n].tx)
  BY Zenon, <1>1, ConsiderIs
<1>5. step \in [Fill -> [1 .. L -> Fill]]
  <2>1. \A x \in Fill : \A n \in 1 .. L : Consider(x, sorted[n]) \in Fill
    BY Zenon, <1>4 DEF Considered
  <2> QED BY Zenon, <2>1
<1>6. SoundFill(b)
  <2>1. b.pool = pool /\ b.cache = cache /\ b.txs = <<>> /\ b.total = 0
    OBVIOUS
  <2> HIDE DEF b
  <2>2. SameTable(b) /\ Fresh(b.cache)
    BY Zenon, <2>1 DEF SameTable
  <2>3. 0 <= MAX_TOTAL
    BY BoundAssumption
  <2>4. Len(b.txs) = 0
    BY <2>1
  <2>5. 1 .. 0 = {}
    OBVIOUS
  <2> QED BY Zenon, <2>1, <2>2, <2>3, <2>4, <2>5 DEF SoundFill
<1> HIDE DEF b
<1>7. PICK k \in [0 .. L -> Fill] :
        k[0] = b /\ \A n \in 1 .. L : k[n] = step[k[n - 1]][n]
  <2> HIDE DEF step
  <2>1. \E k \in [0 .. L -> Fill] : Unrolled(k, b, L, step)
    BY Zenon, <1>1, <1>3, <1>5, Unrolls
  <2> QED BY Zenon, <2>1 DEF Unrolled
<1>8. k = Body(k)
  <2>1. ASSUME NEW n \in 0 .. L
        PROVE  k[n] = IF n = 0 THEN b ELSE Consider(k[n - 1], sorted[n])
    <3>1. CASE n = 0
      BY Zenon, <1>7, <3>1
    <3>2. CASE n # 0
      <4>1. n \in 1 .. L /\ n - 1 \in 0 .. L
        BY <1>1, <3>2
      <4>2. k[n - 1] \in Fill
        BY Zenon, <4>1
      <4>3. step[k[n - 1]][n] = Consider(k[n - 1], sorted[n])
        BY Zenon, <4>1, <4>2
      <4> QED BY Zenon, <1>7, <3>2, <4>1, <4>3
    <3> QED BY Zenon, <3>1, <3>2
  <2>2. k = [n \in 0 .. L |-> k[n]]
    OBVIOUS
  <2> QED BY Zenon, <2>1, <2>2
<1>9. F = Body(F)
  <2> HIDE DEF Body
  <2> QED BY Zenon, <1>8
<1> HIDE DEF F
<1>10. /\ F[0] = b
       /\ \A n \in Nat : n + 1 <= L => F[n + 1] = Consider(F[n], sorted[n + 1])
  <2>1. \A n \in 0 .. L : F[n] = IF n = 0 THEN b ELSE Consider(F[n - 1], sorted[n])
    BY Zenon, <1>9
  <2>2. 0 \in 0 .. L
    BY <1>1
  <2>3. ASSUME NEW n \in Nat, n + 1 <= L PROVE F[n + 1] = Consider(F[n], sorted[n + 1])
    <3>1. n + 1 \in 0 .. L /\ n + 1 # 0 /\ (n + 1) - 1 = n
      BY <1>1, <2>3
    <3> QED BY Zenon, <2>1, <3>1
  <2> QED BY Zenon, <2>1, <2>2, <2>3
<1> DEFINE I == {n \in Nat : F[n] \in Fill /\ SoundFill(F[n])}
<1>11. 0 \in I
  BY Zenon, <1>3, <1>6, <1>10
<1>12. ASSUME NEW n \in Nat, n + 1 <= L, n \in I PROVE n + 1 \in I
  <2> DEFINE x == F[n]
             y == F[n + 1]
             t == sorted[n + 1].tx
  <2>0. n + 1 \in 1 .. L /\ n + 1 \in Nat /\ n + 1 <= L
    BY <1>1, <1>12
  <2>1. x \in Fill /\ SoundFill(x)
    BY Zenon, <1>12
  <2>2. y = Consider(x, sorted[n + 1])
    BY Zenon, <1>10, <2>0
  <2>3. Considered(y, x, t)
    BY Zenon, <1>4, <2>0, <2>1, <2>2
  <2>4. t \in Tx
    BY <1>1, <2>0 DEF Entry
  <2> HIDE DEF x, y, t
  <2>5. SoundFill(y)
    BY Zenon, <2>1, <2>3, <2>4, FillStaysSound
  <2>6. y \in Fill
    BY Zenon, <2>3 DEF Considered
  <2> QED BY Zenon, <2>0, <2>5, <2>6 DEF y
<1>13. L \in I
  <2> HIDE DEF I
  <2> QED BY Zenon, <1>1, <1>11, <1>12, Climb
<1> QED BY Zenon, <1>2, <1>13
-----------------------------------------------------------------------------
(* The inductive invariant.                                                *)

(* The variables have their types; the table is a function, the chain is   *)
(* never empty.                                                            *)
TypeInv ==
  /\ Now \in State
  /\ saved \in [pool : Table, chain : Seq(Blk)] /\ Len(saved.chain) >= 1
  /\ chain \in Seq(Blk) /\ Len(chain) >= 1
  /\ batch \in BOOLEAN /\ batchOk \in BOOLEAN /\ up \in BOOLEAN /\ torn \in BOOLEAN
  /\ timedOut \subseteq Tx /\ cache \in Verdicts
  /\ it \in 0 .. Len(sorted) /\ clock \in 0 .. MaxClock

(* The cache is fresh, and stays so when the chain goes back to the one    *)
(* last committed: a batch that has changed the chain has an empty cache.  *)
CacheInv ==
  up => Fresh(cache) /\ (chain = saved.chain \/ (batch /\ DOMAIN cache = {}))

(* The indexes are exact, and the committed table loads.                   *)
ExactInv == up /\ ~torn => Exact(Now) /\ Loads(saved.pool)

PoolInv == TypeInv /\ CacheInv /\ ExactInv

(* The parts of Now.                                                       *)
LEMMA NowIs ==
  /\ Now.pool = pool /\ Now.images = images /\ Now.sorted = sorted /\ Now.weight = weight
  /\ Now \in State <=> /\ pool \in Table /\ images \in [KeyImage -> SUBSET Tx]
                       /\ sorted \in Seq(Entry) /\ weight \in 0 .. MaxCounted
BY DEF Now, State

(* The parts of Now after a step.                                          *)
LEMMA NowNext ==
  /\ Now'.pool = pool' /\ Now'.images = images' /\ Now'.sorted = sorted'
  /\ Now'.weight = weight'
  /\ Now' \in State <=> /\ pool' \in Table /\ images' \in [KeyImage -> SUBSET Tx]
                        /\ sorted' \in Seq(Entry) /\ weight' \in 0 .. MaxCounted
BY DEF Now, State

(* A step to the state s.                                                  *)
LEMMA Becomes ==
  ASSUME NEW s \in State, Become(s)
  PROVE  Now' \in State /\ (Exact(s) => Exact(Now')) /\ pool' = s.pool /\ sorted' = s.sorted
<1>1. /\ pool' = s.pool /\ images' = s.images /\ sorted' = s.sorted /\ weight' = s.weight
  BY Zenon DEF Become
<1>2. /\ s.pool \in Table /\ s.images \in [KeyImage -> SUBSET Tx]
      /\ s.sorted \in Seq(Entry) /\ s.weight \in 0 .. MaxCounted
  BY DEF State
<1>3. Now' \in State
  BY Zenon, <1>1, <1>2, NowNext
<1>4. Exact(s) => Exact(Now')
  BY Zenon, <1>1, NowNext DEF Exact, Indexed, Covered, Weighed
<1> QED BY Zenon, <1>1, <1>3, <1>4

(* The indexes stay exact when the records of the table change and the     *)
(* transactions that blocks brought stay marked so.                        *)
LEMMA TableSwap ==
  ASSUME Exact(Now), pool' \in Table, DOMAIN pool' = DOMAIN pool, UNCHANGED mem,
         \A u \in DOMAIN pool : pool[u].relay = "block" => pool'[u].relay = "block"
  PROVE  Exact(Now') /\ Loads(pool')
<1>1. images' = images /\ sorted' = sorted /\ weight' = weight
  BY DEF mem
<1>2. Indexed(Now) /\ Loads(pool) /\ Covered(Now) /\ Weighed(Now)
  BY Zenon, NowIs DEF Exact
<1>3. Indexed(Now')
  BY Zenon, <1>1, <1>2, NowIs, NowNext DEF Indexed
<1>4. Covered(Now')
  BY Zenon, <1>1, <1>2, NowIs, NowNext DEF Covered
<1>5. Weighed(Now')
  BY Zenon, <1>1, <1>2, NowIs, NowNext DEF Weighed
<1>6. Loads(pool')
  <2>1. \A u \in DOMAIN pool' \ Kept(pool') : u \in DOMAIN pool \ Kept(pool)
    BY Zenon DEF Kept
  <2> QED BY Zenon, <1>2, <2>1 DEF Loads
<1> QED BY Zenon, <1>3, <1>4, <1>5, <1>6, NowNext DEF Exact

(* A step that leaves the chain and the cache.                             *)
LEMMA CacheStays ==
  ASSUME CacheInv, chain' = chain, cache' = cache, up' => up,
         \/ saved'.chain = chain
         \/ saved'.chain = saved.chain /\ (batch => batch')
  PROVE  CacheInv'
<1> SUFFICES ASSUME up'
             PROVE  Fresh(cache)' /\ (chain' = saved'.chain \/ (batch' /\ DOMAIN cache' = {}))
  BY Zenon DEF CacheInv
<1>1. Fresh(cache) /\ (chain = saved.chain \/ (batch /\ DOMAIN cache = {}))
  BY Zenon DEF CacheInv
<1>2. Fresh(cache)'
  BY Zenon, <1>1 DEF Fresh
<1> QED BY Zenon, <1>1, <1>2

(* A step that empties the cache.                                          *)
LEMMA CacheCleared ==
  ASSUME cache' = <<>>, up' => batch' \/ chain' = saved'.chain
  PROVE  CacheInv' /\ cache' \in Verdicts
<1>1. DOMAIN cache' = {} /\ cache' \in [{} -> BOOLEAN]
  OBVIOUS
<1>2. cache' \in Verdicts
  BY Zenon, <1>1 DEF Verdicts
<1>3. CacheInv'
  BY Zenon, <1>1 DEF CacheInv, Fresh
<1> QED BY Zenon, <1>2, <1>3

(* It holds initially.                                                     *)
LEMMA PoolInit == ASSUME Init PROVE PoolInv
<1>1. /\ pool = <<>> /\ chain = <<Genesis>> /\ saved = [pool |-> pool, chain |-> chain]
      /\ batch = FALSE /\ batchOk = TRUE
      /\ images = [k \in KeyImage |-> {}] /\ sorted = <<>> /\ weight = 0
      /\ timedOut = {} /\ cache = <<>> /\ it = 0 /\ clock = 0 /\ up = TRUE /\ torn = FALSE
  BY Zenon DEF Init
<1>2. DOMAIN pool = {} /\ pool \in [{} -> Meta]
  BY <1>1
<1>3. pool \in Table
  BY Zenon, <1>2, TableIs
<1>4. images \in [KeyImage -> SUBSET Tx] /\ \A k \in KeyImage : images[k] = {}
  BY <1>1
<1>5. sorted \in Seq(Entry) /\ Len(sorted) = 0
  BY <1>1
<1>6. weight \in 0 .. MaxCounted /\ clock \in 0 .. MaxClock /\ it \in 0 .. Len(sorted)
  BY <1>1, <1>5, BoundAssumption
<1>7. chain \in Seq(Blk) /\ Len(chain) >= 1
  BY <1>1, ChainAssumption
<1>8. saved \in [pool : Table, chain : Seq(Blk)] /\ saved.chain = chain /\ saved.pool = pool
  BY <1>1, <1>3, <1>7
<1>9. DOMAIN cache = {} /\ cache \in [{} -> BOOLEAN]
  BY <1>1
<1>10. cache \in Verdicts
  BY Zenon, <1>9 DEF Verdicts
<1>11. TypeInv
  <2>1. Now \in State
    BY Zenon, <1>3, <1>4, <1>5, <1>6, NowIs
  <2>2. /\ batch \in BOOLEAN /\ batchOk \in BOOLEAN /\ up \in BOOLEAN /\ torn \in BOOLEAN
        /\ timedOut \subseteq Tx
    BY Zenon, <1>1
  <2> QED BY Zenon, <1>6, <1>7, <1>8, <1>10, <2>1, <2>2 DEF TypeInv
<1>12. CacheInv
  BY Zenon, <1>8, <1>9 DEF CacheInv, Fresh
<1>13. Loads(pool)
  BY Zenon, <1>2 DEF Loads
<1>14. Indexed(Now) /\ Covered(Now)
  BY Zenon, <1>2, <1>4, NowIs DEF Indexed, Covered
<1>15. Weighed(Now)
  <2>1. weight >= 0 /\ TotalWeight({}) = 0
    BY <1>1, Totals
  <2> QED BY Zenon, <1>2, <2>1, NowIs DEF Weighed
<1>16. ExactInv
  BY Zenon, <1>8, <1>13, <1>14, <1>15, NowIs DEF ExactInv, Exact
<1> QED BY Zenon, <1>11, <1>12, <1>16 DEF PoolInv
-----------------------------------------------------------------------------
(* Every step keeps it.                                                    *)

(* What the invariant says of each variable.                               *)
LEMMA Typed ==
  ASSUME TypeInv
  PROVE  /\ Now \in State /\ pool \in Table /\ images \in [KeyImage -> SUBSET Tx]
         /\ sorted \in Seq(Entry) /\ weight \in 0 .. MaxCounted /\ weight \in Nat
         /\ DOMAIN pool \in SUBSET Tx
         /\ saved \in [pool : Table, chain : Seq(Blk)]
         /\ saved.pool \in Table /\ saved.chain \in Seq(Blk) /\ Len(saved.chain) >= 1
         /\ clock \in Nat
<1>1. Now \in State /\ saved \in [pool : Table, chain : Seq(Blk)] /\ Len(saved.chain) >= 1
      /\ clock \in 0 .. MaxClock
  BY Zenon DEF TypeInv
<1>2. /\ pool \in Table /\ images \in [KeyImage -> SUBSET Tx]
      /\ sorted \in Seq(Entry) /\ weight \in 0 .. MaxCounted
  BY Zenon, <1>1, NowIs
<1>3. DOMAIN pool \in SUBSET Tx
  BY Zenon, <1>2, TableIs
<1>4. weight \in Nat /\ clock \in Nat
  BY <1>1, <1>2, BoundAssumption
<1>5. saved.pool \in Table /\ saved.chain \in Seq(Blk)
  BY <1>1
<1> QED BY Zenon, <1>1, <1>2, <1>3, <1>4, <1>5

(* The committed state after a commit.                                     *)
LEMMA Commits ==
  ASSUME Commit, pool' \in Table, chain' \in Seq(Blk), Len(chain') >= 1
  PROVE  /\ saved' \in [pool : Table, chain : Seq(Blk)] /\ Len(saved'.chain) >= 1
         /\ saved'.pool = pool' /\ saved'.chain = chain'
<1>1. saved' = [pool |-> pool', chain |-> chain']
  BY Zenon DEF Commit
<1> QED BY <1>1

(* A step that ends with Added(add_tx(...)).                               *)
LEMMA AddedOk ==
  ASSUME NEW s \in State, NEW t \in Tx, NEW m \in Method, NEW ok \in BOOLEAN,
         clock \in Nat, Added(add_tx(s, t, m, ok))
  PROVE  /\ Now' \in State /\ it' \in 0 .. Len(sorted') /\ pool' \in Table
         /\ Exact(s) /\ s.weight + Weight[t] <= MaxCounted => Exact(Now') /\ Loads(pool')
<1> DEFINE r == add_tx(s, t, m, ok)
           x == r.s
<1>1. /\ x \in State
      /\ Exact(s) /\ s.weight + Weight[t] <= MaxCounted => Exact(x)
  BY Zenon, AddKeeps
<1>2. Become(x) /\ it' = IF r.added /\ x.weight > MAX_WEIGHT THEN Len(x.sorted) ELSE 0
  BY Zenon DEF Added
<1> HIDE DEF r, x
<1>3. Now' \in State /\ (Exact(x) => Exact(Now')) /\ sorted' = x.sorted
  BY Zenon, <1>1, <1>2, Becomes
<1>4. Len(sorted') \in Nat /\ pool' \in Table
  <2>1. sorted' \in Seq(Entry) /\ pool' \in Table
    BY Zenon, <1>3, NowNext
  <2> QED BY <2>1
<1>5. it' = Len(sorted') \/ it' = 0
  BY Zenon, <1>2, <1>3
<1>6. it' \in 0 .. Len(sorted')
  BY <1>4, <1>5
<1>7. Exact(Now') => Loads(pool')
  BY Zenon, NowNext DEF Exact
<1> QED BY Zenon, <1>1, <1>3, <1>4, <1>6, <1>7

(* core::add_new_tx.                                                       *)
LEMMA IncomingTxOk ==
  ASSUME PoolInv, NEW t \in Tx, NEW m \in Offered, IncomingTx(t, m)
  PROVE  PoolInv'
<1> DEFINE ok == Verdict(chain, cache, t)
<1>0. TypeInv /\ CacheInv /\ ExactInv
  BY Zenon DEF PoolInv
<1>1. /\ up /\ ~batch /\ it = 0 /\ weight + Weight[t] <= MaxCounted
      /\ cache' = With(cache, t, ok)
      /\ IF ok THEN Added(add_tx(Now, t, m, TRUE)) ELSE UNCHANGED <<pool, mem, it>>
      /\ chain' = chain /\ batch' = batch /\ batchOk' = batchOk /\ timedOut' = timedOut
      /\ clock' = clock /\ up' = up /\ torn' = torn /\ Commit
  BY Zenon DEF IncomingTx, Free, Fits
<1>2. m \in Method
  BY BoundAssumption DEF Method
<1>3. /\ Now \in State /\ pool \in Table /\ clock \in Nat /\ cache \in Verdicts
      /\ chain \in Seq(Blk) /\ Len(chain) >= 1 /\ it \in 0 .. Len(sorted)
  BY Zenon, <1>0, Typed DEF TypeInv
<1>4. Fresh(cache)
  BY Zenon, <1>0, <1>1 DEF CacheInv
<1>5. ok \in BOOLEAN /\ ok = InputsOk(chain, t)
  BY Zenon, <1>3, <1>4, VerdictIs DEF Fresh
<1> HIDE DEF ok
<1>6. /\ Now' \in State /\ it' \in 0 .. Len(sorted') /\ pool' \in Table
      /\ Exact(Now) => Exact(Now') /\ Loads(pool')
  <2>1. CASE ok
    <3>1. Added(add_tx(Now, t, m, TRUE))
      BY Zenon, <1>1, <2>1
    <3>2. Now.weight = weight
      BY Zenon, NowIs
    <3> QED BY Zenon, <1>1, <1>2, <1>3, <3>1, <3>2, AddedOk
  <2>2. CASE ~ok
    <3>1. pool' = pool /\ images' = images /\ sorted' = sorted /\ weight' = weight /\ it' = it
      BY <1>1, <2>2 DEF mem
    <3>2. Now' = Now
      BY Zenon, <3>1 DEF Now
    <3> QED BY Zenon, <1>3, <3>1, <3>2, NowIs DEF Exact
  <2> QED BY Zenon, <1>5, <2>1, <2>2
<1>7. /\ saved' \in [pool : Table, chain : Seq(Blk)] /\ Len(saved'.chain) >= 1
      /\ saved'.pool = pool' /\ saved'.chain = chain'
  BY Zenon, <1>1, <1>3, <1>6, Commits
<1>8. cache' \in Verdicts
  BY Zenon, <1>1, <1>3, <1>5, VerdictsWith
<1>9. TypeInv'
  BY Zenon, <1>0, <1>1, <1>6, <1>7, <1>8 DEF TypeInv
<1>10. Fresh(cache)'
  <2>1. Updated(cache', cache, t, ok)
    BY Zenon, <1>1, WithIs
  <2> SUFFICES ASSUME NEW u \in DOMAIN cache' PROVE cache'[u] = InputsOk(chain, u)
    BY Zenon, <1>1 DEF Fresh
  <2>2. CASE u = t
    BY Zenon, <1>5, <2>1, <2>2 DEF Updated
  <2>3. CASE u # t
    BY Zenon, <1>4, <2>1, <2>3 DEF Updated, Fresh
  <2> QED BY Zenon, <2>2, <2>3
<1>11. CacheInv'
  <2> SUFFICES Fresh(cache)' /\ (chain' = saved'.chain \/ (batch' /\ DOMAIN cache' = {}))
    BY Zenon DEF CacheInv
  <2>1. chain' = saved'.chain
    BY Zenon, <1>7
  <2> QED BY Zenon, <1>10, <2>1
<1>12. ExactInv'
  BY Zenon, <1>0, <1>1, <1>6, <1>7 DEF ExactInv
<1> QED BY Zenon, <1>9, <1>11, <1>12 DEF PoolInv

(* set_relayed.                                                            *)
LEMMA SetRelayedOk ==
  ASSUME PoolInv, NEW t \in Tx, NEW m \in {"local", "stem", "fluff"}, SetRelayed(t, m)
  PROVE  PoolInv'
<1>0. TypeInv /\ CacheInv /\ ExactInv
  BY Zenon DEF PoolInv
<1>1. /\ up /\ t \in DOMAIN pool /\ Rank[pool[t].relay] < Rank[m]
      /\ pool' = [pool EXCEPT ![t].relay = m]
      /\ chain' = chain /\ batch' = batch /\ batchOk' = batchOk /\ timedOut' = timedOut
      /\ cache' = cache /\ it' = it /\ clock' = clock /\ up' = up /\ torn' = torn
      /\ UNCHANGED mem /\ Commit
  BY Zenon DEF SetRelayed, Free
<1>2. images' = images /\ sorted' = sorted /\ weight' = weight
  BY <1>1 DEF mem
<1>3. /\ pool \in Table /\ images \in [KeyImage -> SUBSET Tx] /\ sorted \in Seq(Entry)
      /\ weight \in 0 .. MaxCounted /\ chain \in Seq(Blk) /\ Len(chain) >= 1
  BY Zenon, <1>0, Typed DEF TypeInv
<1> DEFINE x == [pool[t] EXCEPT !.relay = m]
<1>4. pool[t] \in Meta
  BY Zenon, <1>1, <1>3, TableIs
<1>5. x \in Meta
  BY <1>4 DEF Meta, Method
<1>6. pool' = [pool EXCEPT ![t] = x]
  BY <1>1
<1> HIDE DEF x
<1>7. /\ pool' \in Table /\ DOMAIN pool' = DOMAIN pool
      /\ \A u \in DOMAIN pool : u # t => pool'[u] = pool[u]
  <2>1. t \in DOMAIN pool /\ pool \in Table
    BY Zenon, <1>1, <1>3
  <2> QED BY Zenon, <1>5, <1>6, <2>1, TableExcept
<1>8. pool[t].relay # "block"
  BY <1>1, <1>4 DEF Meta, Method, Rank
<1>9. \A u \in DOMAIN pool : pool[u].relay = "block" => pool'[u].relay = "block"
  BY Zenon, <1>7, <1>8
<1>10. Now' \in State
  BY Zenon, <1>2, <1>3, <1>7, NowNext
<1>11. /\ saved' \in [pool : Table, chain : Seq(Blk)] /\ Len(saved'.chain) >= 1
       /\ saved'.pool = pool' /\ saved'.chain = chain'
  BY Zenon, <1>1, <1>3, <1>7, Commits
<1>12. TypeInv'
  BY Zenon, <1>0, <1>1, <1>2, <1>10, <1>11 DEF TypeInv
<1>13. CacheInv'
  BY Zenon, <1>0, <1>1, <1>11, CacheStays
<1>14. Exact(Now) => Exact(Now') /\ Loads(pool')
  BY Zenon, <1>1, <1>7, <1>9, TableSwap
<1>15. ExactInv'
  BY Zenon, <1>0, <1>1, <1>11, <1>14 DEF ExactInv
<1> QED BY Zenon, <1>12, <1>13, <1>15 DEF PoolInv

(* A call that goes to the state s and commits it.                         *)
LEMMA CommitsTo ==
  ASSUME PoolInv, NEW s \in State, Become(s), Exact(Now) => Exact(s), timedOut' \subseteq Tx,
         up, it = 0, it' = it, chain' = chain, batch' = batch, batchOk' = batchOk,
         cache' = cache, clock' = clock, up' = up, torn' = torn, Commit
  PROVE  PoolInv'
<1>0. TypeInv /\ CacheInv /\ ExactInv
  BY Zenon DEF PoolInv
<1>1. chain \in Seq(Blk) /\ Len(chain) >= 1
  BY Zenon, <1>0 DEF TypeInv
<1>2. Now' \in State /\ (Exact(s) => Exact(Now'))
  BY Zenon, Becomes
<1>3. pool' \in Table /\ sorted' \in Seq(Entry)
  BY Zenon, <1>2, NowNext
<1>4. it' \in 0 .. Len(sorted')
  BY <1>3
<1>5. /\ saved' \in [pool : Table, chain : Seq(Blk)] /\ Len(saved'.chain) >= 1
      /\ saved'.pool = pool' /\ saved'.chain = chain'
  BY Zenon, <1>1, <1>3, Commits
<1>6. TypeInv'
  BY Zenon, <1>0, <1>2, <1>4, <1>5 DEF TypeInv
<1>7. CacheInv'
  BY Zenon, <1>0, <1>5, CacheStays
<1>8. Exact(Now') => Loads(pool')
  BY Zenon, NowNext DEF Exact
<1>9. ExactInv'
  BY Zenon, <1>0, <1>2, <1>5, <1>8 DEF ExactInv
<1> QED BY Zenon, <1>6, <1>7, <1>9 DEF PoolInv

(* flush_txes_from_pool.                                                   *)
LEMMA FlushTxOk ==
  ASSUME PoolInv, NEW t \in Tx, FlushTx(t)
  PROVE  PoolInv'
<1>1. /\ up /\ it = 0 /\ t \in DOMAIN pool /\ Become(take_tx(Now, t))
      /\ chain' = chain /\ batch' = batch /\ batchOk' = batchOk /\ timedOut' = timedOut
      /\ cache' = cache /\ it' = it /\ clock' = clock /\ up' = up /\ torn' = torn
      /\ Commit
  BY Zenon DEF FlushTx, Free
<1>2. Now \in State /\ timedOut' \subseteq Tx
  BY Zenon, <1>1 DEF PoolInv, TypeInv
<1>3. t \in DOMAIN Now.pool
  BY Zenon, <1>1, NowIs
<1> DEFINE s == take_tx(Now, t)
<1>4. s \in State
  BY Zenon, <1>2, TakeType
<1>5. Exact(Now) => Exact(s)
  BY Zenon, <1>2, <1>3, TakeExact
<1>6. Become(s)
  BY Zenon, <1>1
<1> HIDE DEF s
<1> QED BY Zenon, <1>1, <1>2, <1>4, <1>5, <1>6, CommitsTo

(* remove_stuck_transactions.                                              *)
LEMMA RemoveStuckOk ==
  ASSUME PoolInv, remove_stuck_transactions
  PROVE  PoolInv'
<1> DEFINE old == {t \in DOMAIN pool : Expired(t)}
           s == TakeAll(Now, old)
<1>1. /\ up /\ it = 0 /\ Become(s) /\ timedOut' = timedOut \cup old
      /\ chain' = chain /\ batch' = batch /\ batchOk' = batchOk
      /\ cache' = cache /\ it' = it /\ clock' = clock /\ up' = up /\ torn' = torn
      /\ Commit
  BY Zenon DEF remove_stuck_transactions, Free
<1>2. Now \in State /\ timedOut \subseteq Tx /\ DOMAIN pool \in SUBSET Tx
  BY Zenon, Typed DEF PoolInv, TypeInv
<1>3. old \in SUBSET DOMAIN Now.pool /\ old \subseteq Tx
  BY Zenon, <1>2, NowIs
<1> HIDE DEF old
<1>4. s \in State /\ (Exact(Now) => Exact(s))
  BY Zenon, <1>2, <1>3, TakeAllKeeps
<1>5. timedOut' \subseteq Tx
  BY Zenon, <1>1, <1>2, <1>3
<1> HIDE DEF s
<1> QED BY Zenon, <1>1, <1>4, <1>5, CommitsTo

(* A block's transaction arrives.                                          *)
LEMMA IncomingBlockTxOk ==
  ASSUME PoolInv, NEW t \in Tx, IncomingBlockTx(t)
  PROVE  PoolInv'
<1>0. TypeInv /\ CacheInv /\ ExactInv
  BY Zenon DEF PoolInv
<1> DEFINE ok == InputsOk(chain, t)
<1>1. /\ weight + Weight[t] <= MaxCounted /\ Added(add_tx(Now, t, "block", ok))
      /\ chain' = chain /\ saved' = saved /\ batch' = batch /\ batchOk' = batchOk
      /\ timedOut' = timedOut /\ cache' = cache /\ clock' = clock /\ up' = up
      /\ torn' = torn
  BY Zenon DEF IncomingBlockTx, Fits
<1>2. ok \in BOOLEAN /\ "block" \in Method
  BY Zenon DEF InputsOk, Method
<1> HIDE DEF ok
<1>3. Now \in State /\ clock \in Nat /\ Now.weight = weight
  BY Zenon, <1>0, Typed, NowIs
<1>4. /\ Now' \in State /\ it' \in 0 .. Len(sorted')
      /\ Exact(Now) => Exact(Now')
  <2>1. Added(add_tx(Now, t, "block", ok))
    BY Zenon, <1>1
  <2> QED BY Zenon, <1>1, <1>2, <1>3, <2>1, AddedOk
<1>5. TypeInv'
  BY Zenon, <1>0, <1>1, <1>4 DEF TypeInv
<1>6. CacheInv'
  BY Zenon, <1>0, <1>1, CacheStays
<1>7. ExactInv'
  BY Zenon, <1>0, <1>1, <1>4 DEF ExactInv
<1> QED BY Zenon, <1>5, <1>6, <1>7 DEF PoolInv

(* What prune leaves after it has erased the entry at i.                   *)
Pruned(s, i) ==
  [Removed(s, s.sorted[i].tx) EXCEPT !.sorted = RemoveAt(@, i)]

(* The entry and its transaction go together.                              *)
LEMMA PrunedKeeps ==
  ASSUME NEW s \in State, NEW i \in 1 .. Len(s.sorted), s.sorted[i].tx \in DOMAIN s.pool
  PROVE  /\ Pruned(s, i) \in State /\ Len(Pruned(s, i).sorted) = Len(s.sorted) - 1
         /\ Exact(s) => Exact(Pruned(s, i))
<1> DEFINE t == s.sorted[i].tx
           r == Removed(s, t)
           so == RemoveAt(r.sorted, i)
           x == [r EXCEPT !.sorted = so]
           o == s.sorted
<1>0. x = Pruned(s, i)
  BY Zenon DEF Pruned
<1>1. s.pool \in Table /\ s.sorted \in Seq(Entry)
  BY DEF State
<1>2. t \in Tx /\ t \in DOMAIN s.pool
  BY Zenon, <1>1, TableIs
<1>3. /\ r \in State /\ DOMAIN r.pool = DOMAIN s.pool \ {t} /\ r.sorted = s.sorted
  <2> HIDE DEF t
  <2> QED BY Zenon, <1>2, RemovedIs
<1>4. Exact(s) => Indexed(r) /\ Loads(r.pool) /\ Weighed(r)
  BY Zenon, <1>2, RemovedExact DEF Exact
<1>5. o[i].tx = t /\ o \in Seq(Entry) /\ r.sorted = o /\ i \in 1 .. Len(o)
  BY Zenon, <1>1, <1>3
<1> HIDE DEF t, r, o
<1>6. /\ RemoveAt(o, i) \in Seq(Entry) /\ Len(RemoveAt(o, i)) = Len(o) - 1
      /\ \A j \in 1 .. Len(o) : j # i =>
           \E m \in 1 .. Len(RemoveAt(o, i)) : RemoveAt(o, i)[m] = o[j]
  BY Zenon, <1>5, RemoveAtKeeps
<1>7. so = RemoveAt(o, i)
  BY Zenon, <1>5
<1> HIDE DEF so
<1>8. /\ so \in Seq(Entry) /\ Len(so) = Len(o) - 1
      /\ \A j \in 1 .. Len(o) : j # i => \E m \in 1 .. Len(so) : so[m] = o[j]
  BY Zenon, <1>6, <1>7
<1>9. /\ x.pool = r.pool /\ x.images = r.images /\ x.weight = r.weight /\ x.sorted = so
      /\ x \in State
  BY Zenon, <1>3, <1>8 DEF State
<1> HIDE DEF x
<1>10. ASSUME Exact(s) PROVE Exact(x)
  <2>1. Indexed(x) /\ Loads(x.pool) /\ Weighed(x)
    BY Zenon, <1>4, <1>9, <1>10 DEF Indexed, Weighed
  <2>2. ASSUME NEW u \in DOMAIN x.pool PROVE \E m \in 1 .. Len(so) : so[m].tx = u
    <3>1. u \in DOMAIN s.pool /\ u # t
      BY Zenon, <1>3, <1>9, <2>2
    <3>2. PICK j \in 1 .. Len(o) : o[j].tx = u
      BY Zenon, <1>10, <3>1 DEF Exact, Covered, o
    <3>3. j # i
      BY Zenon, <1>5, <3>1, <3>2
    <3>4. PICK m \in 1 .. Len(so) : so[m] = o[j]
      BY Zenon, <1>8, <3>3
    <3> QED BY Zenon, <3>2, <3>4
  <2>3. Covered(x)
    BY Zenon, <1>9, <2>2 DEF Covered
  <2> QED BY Zenon, <2>1, <2>3 DEF Exact
<1> QED BY Zenon, <1>0, <1>8, <1>9, <1>10 DEF o

(* prune erases the entry at its iterator, or passes it by.                *)
LEMMA PruneStepOk ==
  ASSUME PoolInv, PruneStep
  PROVE  PoolInv'
<1>0. TypeInv /\ CacheInv /\ ExactInv
  BY Zenon DEF PoolInv
<1>1. /\ it > 1 /\ sorted[it].tx \in DOMAIN pool /\ it' = it - 1
      /\ \/ UNCHANGED <<pool, mem>>
         \/ Become([Removed(Now, sorted[it].tx) EXCEPT !.sorted = RemoveAt(@, it)])
      /\ chain' = chain /\ saved' = saved /\ batch' = batch /\ batchOk' = batchOk
      /\ timedOut' = timedOut /\ cache' = cache /\ clock' = clock /\ up' = up
      /\ torn' = torn
  BY Zenon DEF PruneStep
<1>2. /\ Now \in State /\ it \in 0 .. Len(sorted) /\ sorted \in Seq(Entry)
      /\ Now.pool = pool /\ Now.sorted = sorted
  BY Zenon, <1>0, Typed, NowIs DEF TypeInv
<1>3. it \in 1 .. Len(sorted) /\ it - 1 \in 0 .. Len(sorted) - 1 /\ it - 1 \in 0 .. Len(sorted)
  <2>1. Len(sorted) \in Nat
    BY <1>2
  <2>2. it > 1 /\ it \in 0 .. Len(sorted)
    BY Zenon, <1>1, <1>2
  <2> QED BY <2>1, <2>2
<1>4. Now' \in State /\ (Exact(Now) => Exact(Now')) /\ it' \in 0 .. Len(sorted')
  <2>1. CASE UNCHANGED <<pool, mem>>
    <3>1. pool' = pool /\ images' = images /\ sorted' = sorted /\ weight' = weight
      BY <2>1 DEF mem
    <3>2. Now' = Now
      BY Zenon, <3>1 DEF Now
    <3> QED BY Zenon, <1>1, <1>2, <1>3, <3>1, <3>2
  <2>2. CASE Become([Removed(Now, sorted[it].tx) EXCEPT !.sorted = RemoveAt(@, it)])
    <3> DEFINE x == Pruned(Now, it)
    <3>1. Become(x)
      BY Zenon, <1>2, <2>2 DEF Pruned
    <3>2. x \in State /\ Len(x.sorted) = Len(sorted) - 1 /\ (Exact(Now) => Exact(x))
      BY Zenon, <1>1, <1>2, <1>3, PrunedKeeps
    <3> HIDE DEF x
    <3>3. Now' \in State /\ (Exact(x) => Exact(Now')) /\ sorted' = x.sorted
      BY Zenon, <3>1, <3>2, Becomes
    <3> QED BY Zenon, <1>1, <1>3, <3>2, <3>3
  <2> QED BY Zenon, <1>1, <2>1, <2>2
<1>5. TypeInv'
  BY Zenon, <1>0, <1>1, <1>4 DEF TypeInv
<1>6. CacheInv'
  BY Zenon, <1>0, <1>1, CacheStays
<1>7. ExactInv'
  BY Zenon, <1>0, <1>1, <1>4 DEF ExactInv
<1> QED BY Zenon, <1>5, <1>6, <1>7 DEF PoolInv

(* A step that leaves the table and the indexes.                           *)
LEMMA NowStays ==
  ASSUME UNCHANGED <<pool, mem>>
  PROVE  Now' = Now /\ pool' = pool /\ sorted' = sorted
<1>1. pool' = pool /\ images' = images /\ sorted' = sorted /\ weight' = weight
  BY DEF mem
<1> QED BY Zenon, <1>1 DEF Now

(* prune ends, and commits outside of a batch.                             *)
LEMMA PruneDoneOk ==
  ASSUME PoolInv, PruneDone
  PROVE  PoolInv'
<1>0. TypeInv /\ CacheInv /\ ExactInv
  BY Zenon DEF PoolInv
<1>1. /\ it' = 0 /\ saved' = IF batch THEN saved ELSE [pool |-> pool, chain |-> chain]
      /\ pool' = pool /\ UNCHANGED mem
      /\ chain' = chain /\ batch' = batch /\ batchOk' = batchOk
      /\ timedOut' = timedOut /\ cache' = cache /\ clock' = clock /\ up' = up
      /\ torn' = torn
  BY Zenon DEF PruneDone
<1>2. Now' = Now /\ sorted' = sorted
  BY Zenon, <1>1, NowStays
<1>3. /\ sorted \in Seq(Entry) /\ pool \in Table /\ chain \in Seq(Blk) /\ Len(chain) >= 1
  BY Zenon, <1>0, Typed DEF TypeInv
<1>4. it' \in 0 .. Len(sorted')
  BY <1>1, <1>2, <1>3
<1>5. \/ saved' = saved
      \/ /\ saved' \in [pool : Table, chain : Seq(Blk)] /\ Len(saved'.chain) >= 1
         /\ saved'.pool = pool /\ saved'.chain = chain
  <2>1. CASE batch
    BY Zenon, <1>1, <2>1
  <2>2. CASE ~batch
    <3>1. saved' = [pool |-> pool, chain |-> chain]
      BY Zenon, <1>1, <2>2
    <3> QED BY <1>3, <3>1
  <2> QED BY Zenon, <2>1, <2>2
<1>6. TypeInv'
  BY Zenon, <1>0, <1>1, <1>2, <1>4, <1>5 DEF TypeInv
<1>7. CacheInv'
  BY Zenon, <1>0, <1>1, <1>5, CacheStays
<1>8. Exact(Now) => Loads(pool)
  BY Zenon, NowIs DEF Exact
<1>9. ExactInv'
  BY Zenon, <1>0, <1>1, <1>2, <1>5, <1>8 DEF ExactInv
<1> QED BY Zenon, <1>6, <1>7, <1>9 DEF PoolInv

(* prune gives up: outside of a batch the table is rolled back.            *)
LEMMA PruneGivesUpOk ==
  ASSUME PoolInv, PruneGivesUp
  PROVE  PoolInv'
<1>0. TypeInv /\ CacheInv /\ ExactInv
  BY Zenon DEF PoolInv
<1>1. /\ it' = 0 /\ UNCHANGED mem
      /\ \/ pool' = pool /\ torn' = torn
         \/ pool' = saved.pool /\ torn' = (torn \/ pool # saved.pool)
      /\ chain' = chain /\ saved' = saved /\ batch' = batch /\ batchOk' = batchOk
      /\ timedOut' = timedOut /\ cache' = cache /\ clock' = clock /\ up' = up
  BY Zenon DEF PruneGivesUp
<1>2. images' = images /\ sorted' = sorted /\ weight' = weight
  BY <1>1 DEF mem
<1>3. /\ pool \in Table /\ saved.pool \in Table /\ images \in [KeyImage -> SUBSET Tx]
      /\ sorted \in Seq(Entry) /\ weight \in 0 .. MaxCounted
  BY Zenon, <1>0, Typed
<1>4. it' \in 0 .. Len(sorted')
  BY <1>1, <1>2, <1>3
<1>5. torn' \in BOOLEAN
  BY Zenon, <1>0, <1>1 DEF TypeInv
<1>6. pool' \in Table
  BY Zenon, <1>1, <1>3
<1>7. Now' \in State
  BY Zenon, <1>2, <1>3, <1>6, NowNext
<1>8. ~torn' => ~torn /\ Now' = Now
  BY Zenon, <1>1, <1>2 DEF Now
<1>9. TypeInv'
  BY Zenon, <1>0, <1>1, <1>4, <1>5, <1>7 DEF TypeInv
<1>10. CacheInv'
  BY Zenon, <1>0, <1>1, CacheStays
<1>11. ExactInv'
  BY Zenon, <1>0, <1>1, <1>8 DEF ExactInv
<1> QED BY Zenon, <1>9, <1>10, <1>11 DEF PoolInv

(* The block handler opens its batch.                                      *)
LEMMA PrepareOk ==
  ASSUME PoolInv, prepare_handle_incoming_blocks
  PROVE  PoolInv'
<1>0. TypeInv /\ CacheInv /\ ExactInv
  BY Zenon DEF PoolInv
<1>1. /\ batch' = TRUE /\ batchOk' = TRUE /\ pool' = pool /\ UNCHANGED mem
      /\ chain' = chain /\ saved' = saved /\ it' = it
      /\ timedOut' = timedOut /\ cache' = cache /\ clock' = clock /\ up' = up
      /\ torn' = torn
  BY Zenon DEF prepare_handle_incoming_blocks
<1>2. Now' = Now /\ sorted' = sorted
  BY Zenon, <1>1, NowStays
<1>3. TypeInv'
  BY Zenon, <1>0, <1>1, <1>2 DEF TypeInv
<1>4. CacheInv'
  BY Zenon, <1>0, <1>1, CacheStays
<1>5. ExactInv'
  BY Zenon, <1>0, <1>1, <1>2 DEF ExactInv
<1> QED BY Zenon, <1>3, <1>4, <1>5 DEF PoolInv

(* The clock.                                                              *)
LEMMA TickOk ==
  ASSUME PoolInv, Tick
  PROVE  PoolInv'
<1>0. TypeInv /\ CacheInv /\ ExactInv
  BY Zenon DEF PoolInv
<1>1. /\ clock < MaxClock /\ clock' = clock + 1 /\ pool' = pool /\ UNCHANGED mem
      /\ chain' = chain /\ saved' = saved /\ batch' = batch /\ batchOk' = batchOk
      /\ it' = it /\ timedOut' = timedOut /\ cache' = cache /\ up' = up
      /\ torn' = torn
  BY Zenon DEF Tick
<1>2. Now' = Now /\ sorted' = sorted
  BY Zenon, <1>1, NowStays
<1>3. clock' \in 0 .. MaxClock
  <2>1. clock \in 0 .. MaxClock /\ MaxClock \in Nat
    BY <1>0, BoundAssumption DEF TypeInv
  <2>2. clock < MaxClock /\ clock' = clock + 1
    BY Zenon, <1>1
  <2> QED BY <2>1, <2>2
<1>4. TypeInv'
  BY Zenon, <1>0, <1>1, <1>2, <1>3 DEF TypeInv
<1>5. CacheInv'
  BY Zenon, <1>0, <1>1, CacheStays
<1>6. ExactInv'
  BY Zenon, <1>0, <1>1, <1>2 DEF ExactInv
<1> QED BY Zenon, <1>4, <1>5, <1>6 DEF PoolInv

(* The batch is committed, or aborted.                                     *)
LEMMA CleanupOk ==
  ASSUME PoolInv, cleanup_handle_incoming_blocks
  PROVE  PoolInv'
<1>0. TypeInv /\ CacheInv /\ ExactInv
  BY Zenon DEF PoolInv
<1>1. /\ up /\ batch' = FALSE /\ batchOk' = TRUE /\ UNCHANGED mem /\ Commit
      /\ \/ pool' = pool /\ chain' = chain /\ torn' = torn
         \/ /\ pool' = saved.pool /\ chain' = saved.chain
            /\ torn' = (torn \/ pool # saved.pool)
      /\ timedOut' = timedOut /\ cache' = cache /\ it' = it /\ clock' = clock /\ up' = up
  BY Zenon DEF cleanup_handle_incoming_blocks, InBatch
<1>2. images' = images /\ sorted' = sorted /\ weight' = weight
  BY <1>1 DEF mem
<1>3. /\ pool \in Table /\ saved.pool \in Table /\ images \in [KeyImage -> SUBSET Tx]
      /\ sorted \in Seq(Entry) /\ weight \in 0 .. MaxCounted
      /\ saved.chain \in Seq(Blk) /\ Len(saved.chain) >= 1
      /\ chain \in Seq(Blk) /\ Len(chain) >= 1
  BY Zenon, <1>0, Typed DEF TypeInv
<1>4. torn' \in BOOLEAN
  BY Zenon, <1>0, <1>1 DEF TypeInv
<1>5. pool' \in Table /\ chain' \in Seq(Blk) /\ Len(chain') >= 1
  BY Zenon, <1>1, <1>3
<1>6. Now' \in State
  BY Zenon, <1>2, <1>3, <1>5, NowNext
<1>7. ~torn' => ~torn /\ Now' = Now /\ pool' = pool
  BY Zenon, <1>1, <1>2 DEF Now
<1>8. /\ saved' \in [pool : Table, chain : Seq(Blk)] /\ Len(saved'.chain) >= 1
      /\ saved'.pool = pool' /\ saved'.chain = chain'
  BY Zenon, <1>1, <1>5, Commits
<1>9. TypeInv'
  BY Zenon, <1>0, <1>1, <1>2, <1>4, <1>5, <1>6, <1>8 DEF TypeInv
<1>10. CacheInv'
  <2>1. saved'.chain = chain' /\ cache' = cache
    BY Zenon, <1>1, <1>8
  <2>2. chain' = chain \/ DOMAIN cache = {}
    BY Zenon, <1>0, <1>1 DEF CacheInv
  <2>3. Fresh(cache)
    BY Zenon, <1>0, <1>1 DEF CacheInv
  <2>4. Fresh(cache)'
    BY Zenon, <2>1, <2>2, <2>3 DEF Fresh
  <2> QED BY Zenon, <2>1, <2>4 DEF CacheInv
<1>11. Exact(Now) => Loads(pool)
  BY Zenon, NowIs DEF Exact
<1>12. ExactInv'
  BY Zenon, <1>0, <1>1, <1>7, <1>8, <1>11 DEF ExactInv
<1> QED BY Zenon, <1>9, <1>10, <1>12 DEF PoolInv

(* A step in the batch that leaves the cache empty.                        *)
LEMMA InBatchTo ==
  ASSUME PoolInv, Now' \in State, Exact(Now) => Exact(Now'), it' \in 0 .. Len(sorted'),
         chain' \in Seq(Blk), Len(chain') >= 1, cache' = <<>>, batch,
         saved' = saved, batch' = batch, batchOk' = batchOk, timedOut' = timedOut,
         clock' = clock, up' = up, torn' = torn
  PROVE  PoolInv'
<1>0. TypeInv /\ CacheInv /\ ExactInv
  BY Zenon DEF PoolInv
<1>1. CacheInv' /\ cache' \in Verdicts
  BY Zenon, CacheCleared
<1>2. TypeInv'
  BY Zenon, <1>0, <1>1 DEF TypeInv
<1>3. ExactInv'
  BY Zenon, <1>0 DEF ExactInv
<1> QED BY Zenon, <1>1, <1>2, <1>3 DEF PoolInv

(* A block is added.                                                       *)
LEMMA BlockAddedOk ==
  ASSUME PoolInv, NEW b \in Blk, BlockAdded(b)
  PROVE  PoolInv'
<1>0. TypeInv
  BY Zenon DEF PoolInv
<1> DEFINE t == BlkTx[b]
<1>1. /\ batch /\ it = 0
      /\ \/ UNCHANGED <<pool, mem>>
         \/ t \in DOMAIN pool /\ Become(take_tx(Now, t))
      /\ chain' = Append(chain, b) /\ cache' = <<>>
      /\ saved' = saved /\ batch' = batch /\ batchOk' = batchOk
      /\ timedOut' = timedOut /\ it' = it /\ clock' = clock /\ up' = up /\ torn' = torn
  BY Zenon DEF BlockAdded, InBatch
<1>2. Now \in State /\ DOMAIN pool \in SUBSET Tx /\ chain \in Seq(Blk)
  BY Zenon, <1>0, Typed DEF TypeInv
<1> HIDE DEF t
<1>3. Now' \in State /\ (Exact(Now) => Exact(Now'))
  <2>1. CASE UNCHANGED <<pool, mem>>
    BY Zenon, <1>2, <2>1, NowStays
  <2>2. CASE t \in DOMAIN pool /\ Become(take_tx(Now, t))
    <3> DEFINE s == take_tx(Now, t)
    <3>1. t \in Tx /\ t \in DOMAIN Now.pool
      BY Zenon, <1>2, <2>2, NowIs
    <3>2. s \in State
      BY Zenon, <1>2, <3>1, TakeType
    <3>3. Exact(Now) => Exact(s)
      BY Zenon, <1>2, <3>1, TakeExact
    <3>4. Become(s)
      BY Zenon, <2>2
    <3> HIDE DEF s
    <3> QED BY Zenon, <3>2, <3>3, <3>4, Becomes
  <2> QED BY Zenon, <1>1, <2>1, <2>2
<1>4. it' \in 0 .. Len(sorted')
  <2>1. sorted' \in Seq(Entry)
    BY Zenon, <1>3, NowNext
  <2>2. it' = 0
    BY Zenon, <1>1
  <2> QED BY <2>1, <2>2
<1>5. chain' \in Seq(Blk) /\ Len(chain') >= 1
  <2>1. chain' = Append(chain, b)
    BY Zenon, <1>1
  <2> QED BY <1>2, <2>1
<1> QED BY Zenon, <1>1, <1>3, <1>4, <1>5, InBatchTo

(* A block is refused: its transaction goes back to the pool, or is lost.  *)
LEMMA BlockRefusedOk ==
  ASSUME PoolInv, NEW b \in Blk, BlockRefused(b)
  PROVE  PoolInv'
<1>0. TypeInv /\ CacheInv /\ ExactInv
  BY Zenon DEF PoolInv
<1> DEFINE t == BlkTx[b]
           r == take_tx(Now, t)
           ok == InputsOk(chain, t)
<1>1. /\ it = 0 /\ t \in DOMAIN pool
      /\ \/ Become(r) /\ it' = it
         \/ Added(add_tx(r, t, "block", ok))
      /\ batchOk' \in BOOLEAN
      /\ chain' = chain /\ saved' = saved /\ batch' = batch /\ timedOut' = timedOut
      /\ cache' = cache /\ clock' = clock /\ up' = up /\ torn' = torn
  BY Zenon DEF BlockRefused, InBatch
<1>2. Now \in State /\ DOMAIN pool \in SUBSET Tx /\ clock \in Nat
  BY Zenon, <1>0, Typed
<1>3. ok \in BOOLEAN /\ "block" \in Method
  BY Zenon DEF InputsOk, Method
<1> HIDE DEF t, ok
<1>4. t \in Tx /\ t \in DOMAIN Now.pool
  BY Zenon, <1>1, <1>2, NowIs
<1>5. r \in State
  BY Zenon, <1>2, <1>4, TakeType
<1>6. Exact(Now) => Exact(r) /\ r.weight + Weight[t] = Now.weight
  BY Zenon, <1>2, <1>4, TakeExact
<1> HIDE DEF r
<1>7. Exact(Now) => Exact(r) /\ r.weight + Weight[t] <= MaxCounted
  <2>1. Now.weight \in 0 .. MaxCounted
    BY Zenon, <1>2, NowIs
  <2>2. Now.weight <= MaxCounted
    BY <2>1
  <2> QED BY Zenon, <1>6, <2>2
<1>8. Now' \in State /\ (Exact(Now) => Exact(Now')) /\ it' \in 0 .. Len(sorted')
  <2>1. CASE Become(r) /\ it' = it
    <3>1. Now' \in State /\ (Exact(r) => Exact(Now'))
      BY Zenon, <1>5, <2>1, Becomes
    <3>2. sorted' \in Seq(Entry)
      BY Zenon, <3>1, NowNext
    <3>3. it' = 0
      BY Zenon, <1>1, <2>1
    <3>4. it' \in 0 .. Len(sorted')
      BY <3>2, <3>3
    <3> QED BY Zenon, <1>7, <3>1, <3>4
  <2>2. CASE Added(add_tx(r, t, "block", ok))
    BY Zenon, <1>2, <1>3, <1>4, <1>5, <1>7, <2>2, AddedOk
  <2> QED BY Zenon, <1>1, <2>1, <2>2
<1>9. TypeInv'
  BY Zenon, <1>0, <1>1, <1>8 DEF TypeInv
<1>10. CacheInv'
  BY Zenon, <1>0, <1>1, CacheStays
<1>11. ExactInv'
  BY Zenon, <1>0, <1>1, <1>8 DEF ExactInv
<1> QED BY Zenon, <1>9, <1>10, <1>11 DEF PoolInv

(* The last block is popped, and its transaction goes back to the pool.    *)
LEMMA BlockPoppedOk ==
  ASSUME PoolInv, BlockPopped
  PROVE  PoolInv'
<1>0. TypeInv
  BY Zenon DEF PoolInv
<1> DEFINE t == BlkTx[Last(chain)]
           ok == InputsOk(chain', t)
<1>1. /\ batch /\ it = 0 /\ Len(chain) > 1 /\ chain' = Front(chain) /\ cache' = <<>>
      /\ IF t = NoTx THEN UNCHANGED <<pool, mem, it>>
         ELSE weight + Weight[t] <= MaxCounted /\ Added(add_tx(Now, t, "block", ok))
      /\ saved' = saved /\ batch' = batch /\ batchOk' = batchOk
      /\ timedOut' = timedOut /\ clock' = clock /\ up' = up /\ torn' = torn
  BY Zenon DEF BlockPopped, InBatch, Fits
<1>2. /\ Now \in State /\ DOMAIN pool \in SUBSET Tx /\ chain \in Seq(Blk) /\ clock \in Nat
      /\ it \in 0 .. Len(sorted) /\ Now.weight = weight
  BY Zenon, <1>0, Typed, NowIs DEF TypeInv
<1>3. ok \in BOOLEAN /\ "block" \in Method
  BY Zenon DEF InputsOk, Method
<1>4. t \in Tx \cup {NoTx}
  <2>1. Last(chain) \in Blk
    BY <1>1, <1>2 DEF Last
  <2> QED BY Zenon, <2>1, ChainAssumption
<1> HIDE DEF t, ok
<1>5. Now' \in State /\ (Exact(Now) => Exact(Now')) /\ it' \in 0 .. Len(sorted')
  <2>1. CASE t = NoTx
    <3>1. pool' = pool /\ UNCHANGED mem /\ it' = it
      BY Zenon, <1>1, <2>1
    <3>2. Now' = Now /\ sorted' = sorted
      BY Zenon, <3>1, NowStays
    <3> QED BY Zenon, <1>2, <3>1, <3>2
  <2>2. CASE t # NoTx
    <3>1. t \in Tx
      BY Zenon, <1>4, <2>2
    <3>2. Added(add_tx(Now, t, "block", ok)) /\ weight + Weight[t] <= MaxCounted
      BY Zenon, <1>1, <2>2
    <3> QED BY Zenon, <1>2, <1>3, <3>1, <3>2, AddedOk
  <2> QED BY Zenon, <2>1, <2>2
<1>6. chain' \in Seq(Blk) /\ Len(chain') >= 1
  <2>1. Len(chain) > 1 /\ chain' = SubSeq(chain, 1, Len(chain) - 1)
    BY Zenon, <1>1 DEF Front
  <2> QED BY <1>2, <2>1
<1> QED BY Zenon, <1>1, <1>5, <1>6, InBatchTo

(* A template is filled: the verdicts on the way are cached.               *)
LEMMA FillOk ==
  ASSUME PoolInv, fill_block_template
  PROVE  PoolInv'
<1>0. TypeInv /\ CacheInv /\ ExactInv
  BY Zenon DEF PoolInv
<1>1. /\ up /\ pool' = Template.pool /\ cache' = Template.cache /\ UNCHANGED mem /\ Commit
      /\ chain' = chain /\ batch' = batch /\ batchOk' = batchOk /\ timedOut' = timedOut
      /\ it' = it /\ clock' = clock /\ up' = up /\ torn' = torn
  BY Zenon DEF fill_block_template, Free
<1>2. images' = images /\ sorted' = sorted /\ weight' = weight
  BY <1>1 DEF mem
<1>3. /\ pool \in Table /\ images \in [KeyImage -> SUBSET Tx]
      /\ sorted \in Seq(Entry) /\ weight \in 0 .. MaxCounted
      /\ chain \in Seq(Blk) /\ Len(chain) >= 1 /\ cache \in Verdicts
  BY Zenon, <1>0, Typed DEF TypeInv
<1>4. Fresh(cache)
  BY Zenon, <1>0, <1>1 DEF CacheInv
<1> DEFINE f == Template
<1>5. f \in Fill /\ SoundFill(f)
  BY Zenon, <1>3, <1>4, TemplateKeeps
<1>6. pool' = f.pool /\ cache' = f.cache
  BY Zenon, <1>1
<1> HIDE DEF f
<1>7. f.pool \in Table /\ f.cache \in Verdicts
  BY <1>5 DEF Fill
<1>8. /\ pool' \in Table /\ cache' \in Verdicts /\ DOMAIN pool' = DOMAIN pool
      /\ \A u \in DOMAIN pool : pool'[u].relay = pool[u].relay
      /\ \A u \in DOMAIN cache' : cache'[u] = InputsOk(chain, u)
  BY Zenon, <1>5, <1>6, <1>7 DEF SoundFill, SameTable, Fresh
<1>9. Now' \in State
  BY Zenon, <1>2, <1>3, <1>8, NowNext
<1>10. /\ saved' \in [pool : Table, chain : Seq(Blk)] /\ Len(saved'.chain) >= 1
       /\ saved'.pool = pool' /\ saved'.chain = chain'
  BY Zenon, <1>1, <1>3, <1>8, Commits
<1>11. TypeInv'
  BY Zenon, <1>0, <1>1, <1>2, <1>8, <1>9, <1>10 DEF TypeInv
<1>12. CacheInv'
  <2>1. chain' = saved'.chain /\ chain' = chain
    BY Zenon, <1>1, <1>10
  <2>2. Fresh(cache)'
    BY Zenon, <1>8, <2>1 DEF Fresh
  <2> QED BY Zenon, <2>1, <2>2 DEF CacheInv
<1>13. Exact(Now) => Exact(Now') /\ Loads(pool')
  <2>1. \A u \in DOMAIN pool : pool[u].relay = "block" => pool'[u].relay = "block"
    BY Zenon, <1>8
  <2> QED BY Zenon, <1>1, <1>8, <2>1, TableSwap
<1>14. ExactInv'
  BY Zenon, <1>0, <1>1, <1>10, <1>13 DEF ExactInv
<1> QED BY Zenon, <1>11, <1>12, <1>14 DEF PoolInv

(* A start: init and validate on the committed table.                      *)
LEMMA RestartOk ==
  ASSUME PoolInv, Restart
  PROVE  PoolInv'
<1>0. TypeInv
  BY Zenon DEF PoolInv
<1> DEFINE p == saved.pool
           s == Validated(Loaded(p))
<1>1. /\ chain' = saved.chain
      /\ IF Loads(p) THEN up' = TRUE /\ Become(s)
         ELSE up' = FALSE /\ pool' = p /\ UNCHANGED mem
      /\ batch' = FALSE /\ batchOk' = TRUE /\ timedOut' = {} /\ cache' = <<>>
      /\ it' = 0 /\ torn' = FALSE /\ clock' = clock /\ Commit
  BY Zenon DEF Restart
<1>2. /\ p \in Table /\ images \in [KeyImage -> SUBSET Tx]
      /\ sorted \in Seq(Entry) /\ weight \in 0 .. MaxCounted
      /\ saved.chain \in Seq(Blk) /\ Len(saved.chain) >= 1
  BY Zenon, <1>0, Typed
<1> HIDE DEF p
<1>3. Now' \in State /\ (up' => Exact(Now')) /\ up' \in BOOLEAN
  <2>1. CASE Loads(p)
    <3> DEFINE l == Loaded(p)
               T == DOMAIN l.pool \cap ChainTxs(saved.chain)
    <3>1. l \in State /\ Exact(l)
      BY Zenon, <1>2, <2>1, LoadedExact
    <3>2. s = TakeAll(l, T) /\ T \in SUBSET DOMAIN l.pool
      BY Zenon DEF Validated
    <3> HIDE DEF l, T
    <3>3. TakeAll(l, T) \in State /\ Exact(TakeAll(l, T))
      BY Zenon, <3>1, <3>2, TakeAllKeeps
    <3>4. s \in State /\ Exact(s)
      BY Zenon, <3>2, <3>3
    <3>5. Become(s) /\ up' = TRUE
      BY Zenon, <1>1, <2>1
    <3> HIDE DEF s
    <3> QED BY Zenon, <3>4, <3>5, Becomes
  <2>2. CASE ~Loads(p)
    <3>1. up' = FALSE /\ pool' = p /\ UNCHANGED mem
      BY Zenon, <1>1, <2>2
    <3>2. images' = images /\ sorted' = sorted /\ weight' = weight
      BY <3>1 DEF mem
    <3> QED BY Zenon, <1>2, <3>1, <3>2, NowNext
  <2> QED BY Zenon, <2>1, <2>2
<1>4. pool' \in Table /\ sorted' \in Seq(Entry)
  BY Zenon, <1>3, NowNext
<1>5. it' \in 0 .. Len(sorted')
  <2>1. it' = 0
    BY Zenon, <1>1
  <2> QED BY <1>4, <2>1
<1>6. chain' \in Seq(Blk) /\ Len(chain') >= 1
  BY Zenon, <1>1, <1>2
<1>7. /\ saved' \in [pool : Table, chain : Seq(Blk)] /\ Len(saved'.chain) >= 1
      /\ saved'.pool = pool' /\ saved'.chain = chain'
  BY Zenon, <1>1, <1>4, <1>6, Commits
<1>8. CacheInv' /\ cache' \in Verdicts
  <2>1. cache' = <<>> /\ chain' = saved'.chain
    BY Zenon, <1>1, <1>7
  <2> QED BY Zenon, <2>1, CacheCleared
<1>9. TypeInv'
  <2>1. timedOut' \subseteq Tx
    BY Zenon, <1>1
  <2> QED BY Zenon, <1>0, <1>1, <1>3, <1>5, <1>6, <1>7, <1>8, <2>1 DEF TypeInv
<1>10. Exact(Now') => Loads(pool')
  BY Zenon, NowNext DEF Exact
<1>11. ExactInv'
  BY Zenon, <1>3, <1>7, <1>10 DEF ExactInv
<1> QED BY Zenon, <1>8, <1>9, <1>11 DEF PoolInv

(* A step that changes nothing.                                            *)
LEMMA StutterOk ==
  ASSUME PoolInv, UNCHANGED vars
  PROVE  PoolInv'
<1>0. TypeInv /\ CacheInv /\ ExactInv
  BY Zenon DEF PoolInv
<1>1. /\ pool' = pool /\ UNCHANGED mem
      /\ chain' = chain /\ saved' = saved /\ batch' = batch /\ batchOk' = batchOk
      /\ timedOut' = timedOut /\ cache' = cache /\ it' = it /\ clock' = clock
      /\ up' = up /\ torn' = torn
  BY Zenon DEF vars
<1>2. Now' = Now /\ sorted' = sorted
  BY Zenon, <1>1, NowStays
<1>3. TypeInv'
  BY Zenon, <1>0, <1>1, <1>2 DEF TypeInv
<1>4. CacheInv'
  BY Zenon, <1>0, <1>1, CacheStays
<1>5. ExactInv'
  BY Zenon, <1>0, <1>1, <1>2 DEF ExactInv
<1> QED BY Zenon, <1>3, <1>4, <1>5 DEF PoolInv
-----------------------------------------------------------------------------
(* The inductive invariant holds always.                                   *)
THEOREM PoolAlways == Spec => []PoolInv
<1>1. Init => PoolInv
  BY Zenon, PoolInit
<1>2. ASSUME PoolInv, [Next]_vars PROVE PoolInv'
  <2>1. ASSUME NEW t \in Tx, NEW m \in Offered, IncomingTx(t, m) PROVE PoolInv'
    BY Zenon, <1>2, <2>1, IncomingTxOk
  <2>2. ASSUME NEW t \in Tx, NEW m \in {"local", "stem", "fluff"}, SetRelayed(t, m)
        PROVE  PoolInv'
    BY Zenon, <1>2, <2>2, SetRelayedOk
  <2>3. ASSUME NEW t \in Tx, FlushTx(t) PROVE PoolInv'
    BY Zenon, <1>2, <2>3, FlushTxOk
  <2>4. ASSUME NEW t \in Tx, IncomingBlockTx(t) PROVE PoolInv'
    BY Zenon, <1>2, <2>4, IncomingBlockTxOk
  <2>5. CASE remove_stuck_transactions
    BY Zenon, <1>2, <2>5, RemoveStuckOk
  <2>6. CASE prune
    BY Zenon, <1>2, <2>6, PruneDoneOk, PruneStepOk, PruneGivesUpOk DEF prune
  <2>7. CASE prepare_handle_incoming_blocks
    BY Zenon, <1>2, <2>7, PrepareOk
  <2>8. CASE cleanup_handle_incoming_blocks
    BY Zenon, <1>2, <2>8, CleanupOk
  <2>9. ASSUME NEW b \in Blk, BlockAdded(b) PROVE PoolInv'
    BY Zenon, <1>2, <2>9, BlockAddedOk
  <2>10. ASSUME NEW b \in Blk, BlockRefused(b) PROVE PoolInv'
    BY Zenon, <1>2, <2>10, BlockRefusedOk
  <2>11. CASE BlockPopped
    BY Zenon, <1>2, <2>11, BlockPoppedOk
  <2>12. CASE fill_block_template
    BY Zenon, <1>2, <2>12, FillOk
  <2>13. CASE Tick
    BY Zenon, <1>2, <2>13, TickOk
  <2>14. CASE Restart
    BY Zenon, <1>2, <2>14, RestartOk
  <2>15. CASE UNCHANGED vars
    BY Zenon, <1>2, <2>15, StutterOk
  <2> QED
    BY Zenon, <1>2, <2>1, <2>2, <2>3, <2>4, <2>5, <2>6, <2>7, <2>8, <2>9, <2>10, <2>11,
       <2>12, <2>13, <2>14, <2>15 DEF Next
<1> QED BY <1>1, <1>2, PTL DEF Spec

(* Every variable of the pool has its type.                                *)
THEOREM PoolTyped == Spec => []TypeOK
<1>1. PoolInv => TypeOK
  <2> SUFFICES ASSUME PoolInv PROVE TypeOK
    OBVIOUS
  <2>0. TypeInv
    BY Zenon DEF PoolInv
  <2>1. /\ pool \in Table /\ images \in [KeyImage -> SUBSET Tx]
        /\ sorted \in Seq([rate : Nat, recv : Nat, tx : Tx]) /\ weight \in 0 .. MaxCounted
        /\ saved.pool \in Table /\ saved.chain \in Seq(Blk)
    BY Zenon, <2>0, Typed DEF Entry
  <2>2. \A p \in Table : TableType(p)
    <3> SUFFICES ASSUME NEW p \in Table PROVE TableType(p)
      BY Zenon
    <3>1. p \in [DOMAIN p -> Meta] /\ DOMAIN p \in SUBSET Tx
      BY Zenon, TableIs
    <3> QED BY <3>1 DEF TableType
  <2>3. DOMAIN cache \subseteq Tx /\ \A t \in DOMAIN cache : cache[t] \in BOOLEAN
    <3>1. PICK D \in SUBSET Tx : cache \in [D -> BOOLEAN]
      BY Zenon, <2>0 DEF TypeInv, Verdicts
    <3> QED BY <3>1
  <2>4. {batch, batchOk, up, torn} \subseteq BOOLEAN
    BY Zenon, <2>0 DEF TypeInv
  <2>5. /\ chain \in Seq(Blk) /\ timedOut \subseteq Tx /\ it \in 0 .. Len(sorted)
        /\ clock \in 0 .. MaxClock
    BY Zenon, <2>0 DEF TypeInv
  <2> QED BY Zenon, <2>1, <2>2, <2>3, <2>4, <2>5 DEF TypeOK
<1> QED BY <1>1, PoolAlways, PTL

(* What the invariant says of the indexes.                                 *)
LEMMA ExactGives ==
  ASSUME PoolInv
  PROVE  ImagesExact /\ Loadable /\ SortedCovers /\ WeightCovers
<1> SUFFICES ASSUME up, ~torn
             PROVE  /\ \A k \in KeyImage : images[k] = {t \in DOMAIN pool : Image[t] = k}
                    /\ Loads(pool) /\ Loads(saved.pool)
                    /\ DOMAIN pool \subseteq {sorted[i].tx : i \in DOMAIN sorted}
                    /\ weight >= TotalWeight(DOMAIN pool)
  BY Zenon DEF ImagesExact, Loadable, SortedCovers, WeightCovers
<1>1. Exact(Now) /\ Loads(saved.pool)
  BY Zenon DEF PoolInv, ExactInv
<1>2. /\ \A k \in KeyImage : images[k] = {t \in DOMAIN pool : Image[t] = k}
      /\ Loads(pool) /\ weight >= TotalWeight(DOMAIN pool)
      /\ \A t \in DOMAIN pool : \E i \in 1 .. Len(sorted) : sorted[i].tx = t
  BY Zenon, <1>1, NowIs DEF Exact, Indexed, Weighed, Covered
<1>3. DOMAIN sorted = 1 .. Len(sorted)
  <2>1. sorted \in Seq(Entry)
    BY Zenon, Typed DEF PoolInv
  <2> QED BY <2>1
<1>4. DOMAIN pool \subseteq {sorted[i].tx : i \in DOMAIN sorted}
  BY Zenon, <1>2, <1>3
<1> QED BY Zenon, <1>1, <1>2, <1>4

(* m_spent_key_images maps every key image to exactly the transactions of  *)
(* the table that spend it, unless the table has been rolled back under    *)
(* it, for any number of transactions, blocks, crashes and restarts.       *)
THEOREM ImagesAlwaysExact == Spec => []ImagesExact
<1>1. PoolInv => ImagesExact
  BY Zenon, ExactGives
<1> QED BY <1>1, PoolAlways, PTL

(* At most one transaction that no block brought spends a key image, in    *)
(* the table and in the one a crash goes back to: init accepts both.       *)
THEOREM PoolAlwaysLoadable == Spec => []Loadable
<1>1. PoolInv => Loadable
  BY Zenon, ExactGives
<1> QED BY <1>1, PoolAlways, PTL

(* Every transaction of the table has an entry in the sorted container.    *)
THEOREM SortedAlwaysCovers == Spec => []SortedCovers
<1>1. PoolInv => SortedCovers
  BY Zenon, ExactGives
<1> QED BY <1>1, PoolAlways, PTL

(* m_txpool_weight is never less than the weight of the transactions in    *)
(* the table, so a subtraction from it never wraps.                        *)
THEOREM WeightAlwaysCovers == Spec => []WeightCovers
<1>1. PoolInv => WeightCovers
  BY Zenon, ExactGives
<1> QED BY <1>1, PoolAlways, PTL

(* A cached input check gives the verdict that a fresh one would give.     *)
THEOREM CacheAlwaysFresh == Spec => []CacheFresh
<1>1. PoolInv => CacheFresh
  BY Zenon DEF PoolInv, CacheInv, Fresh, CacheFresh
<1> QED BY <1>1, PoolAlways, PTL

(* A template filled at any time can be added to the chain: its            *)
(* transactions are in the table, public, no messages, have valid inputs,  *)
(* share no key image and fit.                                             *)
THEOREM TemplateAlwaysSound == Spec => []TemplateSound
<1>1. PoolInv => TemplateSound
  <2> SUFFICES ASSUME PoolInv, Free PROVE TemplateSound
    BY Zenon DEF TemplateSound
  <2> DEFINE f == Template
             txs == Template.txs
  <2>1. /\ pool \in Table /\ cache \in Verdicts /\ sorted \in Seq(Entry)
        /\ chain \in Seq(Blk) /\ Len(chain) >= 1
    BY Zenon, Typed DEF PoolInv, TypeInv
  <2>2. Fresh(cache)
    BY Zenon DEF PoolInv, CacheInv, Free
  <2>3. f \in Fill /\ SoundFill(f)
    BY Zenon, <2>1, <2>2, TemplateKeeps
  <2>4. txs = f.txs
    BY Zenon
  <2>5. TemplateSound <=>
          (Free =>
             /\ \A i \in DOMAIN txs :
                  /\ IsLegacy(Now, txs[i]) /\ txs[i] \notin Msg /\ InputsOk(chain, txs[i])
             /\ \A i, j \in DOMAIN txs : Image[txs[i]] = Image[txs[j]] => i = j
             /\ f.total <= MAX_TOTAL)
    BY Zenon DEF TemplateSound
  <2> HIDE DEF f, txs
  <2>6. DOMAIN txs = 1 .. Len(txs)
    <3>1. f.txs \in Seq(Tx)
      BY <2>3 DEF Fill
    <3> QED BY <2>4, <3>1
  <2>7. \A i \in DOMAIN txs :
          /\ IsLegacy(Now, txs[i]) /\ txs[i] \notin Msg /\ InputsOk(chain, txs[i])
    BY Zenon, <2>3, <2>4, <2>6 DEF SoundFill, Addable
  <2>8. \A i, j \in DOMAIN txs : Image[txs[i]] = Image[txs[j]] => i = j
    BY Zenon, <2>3, <2>4, <2>6 DEF SoundFill
  <2>9. f.total <= MAX_TOTAL
    BY Zenon, <2>3 DEF SoundFill
  <2> QED BY Zenon, <2>5, <2>7, <2>8, <2>9
<1> QED BY <1>1, PoolAlways, PTL
=============================================================================

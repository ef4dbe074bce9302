--------------------------- MODULE HardForkProofs ---------------------------
(***************************************************************************)
(* For every table of forks that happen on schedule, every window and      *)
(* every chain: the version in force is the one the table gives the next   *)
(* height, and the stored versions are those of the table.  The last part  *)
(* is about the window, for any votes: every operation of the hard fork    *)
(* object leaves the counters equal to it.                                 *)
(***************************************************************************)
EXTENDS HardFork, TLAPS, FiniteSetTheorems, NaturalsInduction, SequenceTheorems,
        WellFoundedInduction

IsMax(n, S) == n \in S /\ \A m \in S : m <= n

(* The forks among the first k of a table that are due at a height.        *)
Due(hs, k, h) == {n \in 1 .. k : n = 1 \/ h >= hs[n].height}

N == Len(heights)

(* What add_fork and the placeholder of init() make of the table.          *)
TableOk(hs) ==
  /\ hs \in Seq([version : Nat, height : Nat, threshold : Nat, time : Nat])
  /\ hs # <<>> => hs[1].version = 1
  /\ \A i, j \in 1 .. Len(hs) :
       i < j => /\ hs[i].version < hs[j].version
                /\ hs[i].height < hs[j].height
-----------------------------------------------------------------------------
(* The entries of the table have the fields add_fork was given.            *)
LEMMA EntryType ==
  ASSUME TableOk(heights)
  PROVE  /\ N \in Nat /\ DOMAIN heights = 1 .. N
         /\ heights # <<>> => N > 0
         /\ \A n \in 1 .. N :
              /\ heights[n].version \in Nat /\ heights[n].height \in Nat
              /\ heights[n] \in [version : Nat, height : Nat, threshold : Nat,
                                 time : Nat]
<1>1. /\ N \in Nat /\ DOMAIN heights = 1 .. N
      /\ heights # <<>> => N > 0
  BY DEF TableOk, N
<1> DEFINE E == [version : Nat, height : Nat, threshold : Nat, time : Nat]
<1>2. \A n \in 1 .. N : heights[n] \in E
  <2>1. heights \in Seq(E)
    BY DEF TableOk, N
  <2> HIDE DEF E
  <2> QED BY <2>1, <1>1
<1> QED BY <1>1, <1>2

(* A nonempty set of natural numbers below a bound has a greatest element, *)
(* and Max returns it.                                                     *)
LEMMA MaxOf ==
  ASSUME NEW S, NEW b \in Nat, S \subseteq 1 .. b, S # {}
  PROVE  IsMax(Max(S), S)
<1> DEFINE T == {b - n : n \in S}
<1>1. T \subseteq Nat /\ T # {}
  <2>1. \A n \in S : n \in 1 .. b /\ b - n \in Nat
    OBVIOUS
  <2>2. PICK n : n \in S
    OBVIOUS
  <2>3. b - n \in T
    BY Zenon, <2>2
  <2> QED BY Zenon, <2>1, <2>3
<1>2. PICK x \in T : \A y \in T : ~ (<<y, x>> \in OpToRel(<, Nat))
  BY Zenon, <1>1, NatLessThanWellFounded, WFMin
<1>3. \A y \in T : ~ (y < x)
  BY Zenon, <1>1, <1>2 DEF OpToRel
<1>4. PICK n \in S : x = b - n
  OBVIOUS
<1>5. \A m \in S : b - m \in T
  OBVIOUS
<1>6. \A m \in S : n >= m
  <2> SUFFICES ASSUME NEW m \in S PROVE n >= m
    OBVIOUS
  <2>1. ~ (b - m < b - n)
    BY Zenon, <1>3, <1>4, <1>5
  <2>2. n \in Nat /\ m \in Nat
    OBVIOUS
  <2> QED BY <2>1, <2>2
<1> QED BY Zenon, <1>6 DEF IsMax, Max

(* A nonempty set of natural numbers has a least element, and Min returns  *)
(* it.                                                                     *)
LEMMA MinOf ==
  ASSUME NEW S, S \subseteq Nat, S # {}
  PROVE  Min(S) \in S /\ \A m \in S : Min(S) <= m
<1>1. PICK x \in S : \A y \in S : ~ (<<y, x>> \in OpToRel(<, Nat))
  BY Zenon, NatLessThanWellFounded, WFMin
<1>2. \A y \in S : ~ (y < x)
  BY Zenon, <1>1 DEF OpToRel
<1>3. \A y \in S : x <= y
  BY <1>2
<1> QED BY Zenon, <1>3 DEF Min

(* The forks due at a height have a greatest one.                          *)
LEMMA DueMax ==
  ASSUME NEW k \in Nat \ {0}, NEW h
  PROVE  /\ IsMax(Max(Due(heights, k, h)), Due(heights, k, h))
         /\ Max(Due(heights, k, h)) \in 1 .. k
<1>1. Due(heights, k, h) \subseteq 1 .. k /\ 1 \in Due(heights, k, h)
  BY DEF Due
<1>2. IsMax(Max(Due(heights, k, h)), Due(heights, k, h))
  BY <1>1, MaxOf
<1> QED BY <1>1, <1>2 DEF IsMax

(* The greatest element of a set of forks is unique.                       *)
LEMMA MaxUnique ==
  ASSUME NEW S, S \subseteq Nat, NEW n, NEW m, IsMax(n, S), IsMax(m, S)
  PROVE  n = m
BY DEF IsMax

(* The accumulated votes are a natural number.                             *)
LEMMA VotesType ==
  ASSUME NEW f, NEW n \in Nat, N \in Nat
  PROVE  accumulated_votes(f, n) \in Nat
<1> DEFINE P == (n .. N) \X (1 .. window_size)
           Q == {p \in P : p[2] <= f.last_versions[heights[p[1]].version]}
<1>1. IsFiniteSet(n .. N) /\ IsFiniteSet(1 .. window_size)
  BY ForkAssumption, FS_Interval
<1>2. IsFiniteSet(P)
  BY Zenon, <1>1, FS_Product
<1>3. Q \in SUBSET P
  OBVIOUS
<1>4. IsFiniteSet(Q)
  BY Zenon, <1>2, <1>3, FS_Subset
<1>5. Cardinality(Q) \in Nat
  BY Zenon, <1>4, FS_CardinalityType
<1> QED BY Zenon, <1>5 DEF accumulated_votes, N

(* A later height has every fork due that an earlier one has.              *)
LEMMA DueGrows ==
  ASSUME TableOk(heights), NEW k \in 1 .. N, NEW g \in Nat, NEW h \in Nat, g <= h
  PROVE  Due(heights, k, g) \subseteq Due(heights, k, h)
<1>1. \A n \in 1 .. k : heights[n].height \in Nat
  BY EntryType
<1> QED BY <1>1 DEF Due

(* When no fork needs votes, the vote raises the index to the fork due at  *)
(* the height, provided it was not beyond it.                              *)
LEMMA RaisedTop ==
  ASSUME TableOk(heights), OnSchedule, heights # <<>>, NEW h \in Nat,
         NEW f, "index" \in DOMAIN f, NEW t, IsMax(t, Due(heights, N, h)),
         f.index \in 1 .. t
  PROVE  Raised(f, h).index = t /\ "index" \in DOMAIN Raised(f, h)
<1> DEFINE Enough == {n \in 1 .. N : /\ h >= heights[n].height
                                     /\ accumulated_votes(f, n) >= Threshold(n)}
           voted == get_voted_fork_index(f, h)
<1>0. N \in Nat \ {0} /\ t \in 1 .. N
  BY DEF TableOk, N, IsMax, Due
<1>1. ASSUME NEW n \in 1 .. N
      PROVE  accumulated_votes(f, n) >= Threshold(n)
  <2>1. accumulated_votes(f, n) \in Nat
    BY <1>0, VotesType
  <2>2. heights[n].threshold = 0
    BY <1>0, EntryType DEF OnSchedule
  <2>3. Threshold(n) = 0
    BY <2>2, ForkAssumption DEF Threshold
  <2> QED BY <2>1, <2>3
<1>2. Enough = {n \in 1 .. N : h >= heights[n].height}
  BY Zenon, <1>1
<1>3. voted = IF Enough = {} THEN f.index ELSE Max(Enough)
  BY Zenon DEF get_voted_fork_index, N
<1>4. voted = t
  <2>1. CASE Enough = {}
    <3>1. t = 1
      BY <1>0, <1>2, <2>1 DEF IsMax, Due
    <3> QED BY <1>3, <2>1, <3>1
  <2>2. CASE Enough # {}
    <3>1. IsMax(Max(Enough), Enough)
      BY Zenon, <1>0, <1>2, <2>2, MaxOf
    <3>2. Enough \subseteq Due(heights, N, h)
      BY <1>2 DEF Due
    <3>3. Max(Enough) <= t /\ Max(Enough) \in 1 .. N
      BY <3>1, <3>2 DEF IsMax
    <3>4. t = 1 \/ t \in Enough
      BY <1>0, <1>2 DEF IsMax, Due
    <3>5. t <= Max(Enough)
      BY <1>0, <3>1, <3>3, <3>4 DEF IsMax
    <3> QED BY <1>0, <1>3, <2>2, <3>3, <3>5
  <2> QED BY <2>1, <2>2
<1>5. Raised(f, h) = IF voted > f.index THEN [f EXCEPT !.index = voted] ELSE f
  BY Zenon DEF Raised
<1> QED BY <1>0, <1>4, <1>5

(* The database is typed, and the versions of its blocks and of the        *)
(* hf_versions table are those the first k forks give their heights.       *)
DbT(d) ==
  /\ d \in [chain : Seq(Block), hf_versions : Seq(Nat)]
  /\ Len(d.chain) <= Len(d.hf_versions)

AgreesAt(hs, b, v, k, h) ==
  \E n : /\ IsMax(n, Due(hs, k, h))
         /\ b.major = hs[n].version
         /\ get_block_vote(b) >= hs[n].version
         /\ v = hs[n].version

Agrees(hs, d, k) ==
  DbT(d) /\ \A i \in 1 .. Len(d.chain) :
              AgreesAt(hs, d.chain[i], d.hf_versions[i], k, i - 1)

(* HardFork::add on a block the check lets through: the index is that of   *)
(* the fork due at the next height.                                        *)
LEMMA AddTop ==
  ASSUME TableOk(heights), OnSchedule, heights # <<>>, NEW h \in Nat,
         NEW f, "index" \in DOMAIN f, IsMax(f.index, Due(heights, N, h)),
         NEW b, do_check(f, b)
  PROVE  /\ IsMax(add(f, b, h).index, Due(heights, N, h + 1))
         /\ "index" \in DOMAIN add(f, b, h)
<1> DEFINE g == Voted(f, get_effective_version(get_block_vote(b)))
           t == Max(Due(heights, N, h + 1))
<1>1. add(f, b, h) = Raised(g, h + 1)
  BY Zenon DEF add
<1>2. g.index = f.index /\ "index" \in DOMAIN g
  BY DEF Voted
<1>3. N \in Nat \ {0} /\ h + 1 \in Nat
  BY EntryType
<1>4. IsMax(t, Due(heights, N, h + 1))
  BY <1>3, DueMax
<1>5. f.index \in 1 .. t
  <2>1. Due(heights, N, h) \subseteq Due(heights, N, h + 1)
    BY <1>3, DueGrows
  <2> QED BY <1>3, <1>4, <2>1 DEF IsMax, Due
<1> HIDE DEF g, t
<1>6. Raised(g, h + 1).index = t /\ "index" \in DOMAIN Raised(g, h + 1)
  BY <1>2, <1>3, <1>4, <1>5, RaisedTop
<1> QED BY <1>1, <1>4, <1>6

(* The scan of reorganize_from_block_height, on a chain that agrees with   *)
(* the table, ends with the fork due above the last kept block.            *)
LEMMA ReorganizeTop ==
  ASSUME TableOk(heights), OnSchedule, heights # <<>>,
         NEW d, Agrees(heights, d, N), NEW h \in 0 .. Len(d.chain) - 1,
         NEW f, "index" \in DOMAIN f, f.index \in 1 .. N
  PROVE  /\ IsMax(reorganize(f, d, h).index, Due(heights, N, h + 1))
         /\ "index" \in DOMAIN reorganize(f, d, h)
<1> DEFINE from == IF h >= window_size - 1 THEN h - (window_size - 1) ELSE 0
           start == IF h = 0 THEN original_version ELSE d.hf_versions[h + 1]
           Stop == {n \in 1 .. f.index : n = 1 \/ heights[n].version <= start}
           g == [Scanned(f, d.chain, from, h) EXCEPT !.index = Max(Stop)]
           t == Max(Due(heights, N, h + 1))
<1>1. reorganize(f, d, h) = Raised(g, h + 1)
  BY Zenon DEF reorganize
<1>2. "index" \in DOMAIN g /\ g.index = Max(Stop)
  <2>1. "index" \in DOMAIN Scanned(f, d.chain, from, h)
    BY DEF Scanned
  <2> QED BY <2>1
<1> HIDE DEF from, start, Stop, g, t
<1>3. N \in Nat \ {0} /\ h \in Nat /\ h + 1 \in Nat /\ h + 1 \in 1 .. Len(d.chain)
  <2>1. Len(d.chain) \in Nat
    BY DEF Agrees, DbT
  <2>2. N \in Nat \ {0}
    BY EntryType
  <2> QED BY <2>1, <2>2
<1> USE DEF from, start, Stop, g, t
<1>4. IsMax(t, Due(heights, N, h + 1))
  BY <1>3, DueMax
<1>5. PICK m : IsMax(m, Due(heights, N, h)) /\ d.hf_versions[h + 1] = heights[m].version
  <2>1. AgreesAt(heights, d.chain[h + 1], d.hf_versions[h + 1], N, (h + 1) - 1)
    BY <1>3 DEF Agrees
  <2> QED BY <1>3, <2>1 DEF AgreesAt
<1>6. m \in 1 .. N /\ m <= t
  <2>1. Due(heights, N, h) \subseteq Due(heights, N, h + 1)
    BY <1>3, DueGrows
  <2> QED BY <1>3, <1>4, <1>5, <2>1 DEF IsMax, Due
<1>7. start <= heights[m].version /\ start \in Nat
  <2>1. heights[1].version = 1 /\ heights[m].version \in Nat
    BY Zenon, <1>3, <1>6, EntryType DEF TableOk, N
  <2>2. heights[m].version >= 1
    <3>1. CASE m = 1
      BY <2>1, <3>1
    <3>2. CASE m # 1
      <4>1. 1 \in 1 .. N /\ 1 < m
        BY <1>3, <1>6, <3>2
      <4>2. heights[1].version < heights[m].version
        BY <1>6, <4>1 DEF TableOk, N
      <4> QED BY <2>1, <4>2
    <3> QED BY <3>1, <3>2
  <2> QED BY <1>5, <2>1, <2>2 DEF original_version
<1> HIDE DEF start
<1>8. IsMax(Max(Stop), Stop)
  <2>1. Stop \subseteq 1 .. N /\ 1 \in Stop
    BY <1>3
  <2> QED BY SMTT(20), <1>3, <2>1, MaxOf
<1>9. Max(Stop) \in 1 .. m
  <2>1. Max(Stop) \in 1 .. N
    BY <1>3, <1>8 DEF IsMax
  <2>2. Max(Stop) = 1 \/ heights[Max(Stop)].version <= start
    BY <1>8 DEF IsMax
  <2>3. ASSUME Max(Stop) > m PROVE FALSE
    <3>1. heights[m].version < heights[Max(Stop)].version
      BY Zenon, <1>6, <2>1, <2>3 DEF TableOk, N
    <3>2. heights[m].version \in Nat /\ heights[Max(Stop)].version \in Nat
      BY Zenon, <1>6, <2>1, EntryType
    <3> QED BY <1>6, <1>7, <2>1, <2>2, <2>3, <3>1, <3>2
  <2> QED BY <1>6, <2>1, <2>3
<1> HIDE DEF Stop, t, g
<1>10. g.index \in 1 .. t
  BY <1>2, <1>4, <1>6, <1>9 DEF IsMax, Due
<1>11. Raised(g, h + 1).index = t /\ "index" \in DOMAIN Raised(g, h + 1)
  BY <1>2, <1>3, <1>4, <1>10, RaisedTop
<1> QED BY <1>1, <1>4, <1>11

(* on_block_popped leaves the fork due at the new height.                  *)
LEMMA PoppedTop ==
  ASSUME TableOk(heights), heights # <<>>, NEW f, NEW d
  PROVE  /\ IsMax(on_block_popped(f, d).index, Due(heights, N, Len(d.chain)))
         /\ "index" \in DOMAIN on_block_popped(f, d)
<1>1. N \in Nat \ {0}
  BY EntryType
<1>2. /\ on_block_popped(f, d).index = Max(Due(heights, N, Len(d.chain)))
      /\ "index" \in DOMAIN on_block_popped(f, d)
  BY DEF on_block_popped, Height, Due, N
<1> QED BY <1>1, <1>2, DueMax

(* Popping a block leaves a chain that agrees with the table.              *)
LEMMA PoppedAgrees ==
  ASSUME NEW d, NEW k, Agrees(heights, d, k), Len(d.chain) > 0
  PROVE  Agrees(heights, Popped(d), k) /\ Len(Popped(d).chain) = Len(d.chain) - 1
<1> DEFINE e == Popped(d)
<1>1. /\ d.chain \in Seq(Block) /\ d.hf_versions \in Seq(Nat)
      /\ Len(d.chain) <= Len(d.hf_versions) /\ Len(d.chain) \in Nat
  BY DEF Agrees, DbT
<1>2. /\ e.chain = SubSeq(d.chain, 1, Len(d.chain) - 1)
      /\ e.hf_versions = d.hf_versions
  BY DEF Popped, Agrees, DbT
<1>3. e.chain \in Seq(Block)
  BY <1>1, <1>2
<1>4. Len(e.chain) = Len(d.chain) - 1
  <2>1. ASSUME NEW n \in Nat, n < Len(d.chain)
        PROVE  Len(SubSeq(d.chain, 1, n)) = n
    BY <1>1
  <2>2. Len(d.chain) - 1 \in Nat /\ Len(d.chain) - 1 < Len(d.chain)
    BY <1>1
  <2> HIDE DEF e
  <2> QED BY Zenon, <1>2, <2>1, <2>2
<1>5. \A i \in 1 .. Len(e.chain) : e.chain[i] = d.chain[i]
  BY <1>1, <1>2, <1>4
<1>8. e \in [chain : Seq(Block), hf_versions : Seq(Nat)]
  BY Zenon, <1>1, <1>3 DEF Popped, Agrees, DbT
<1> HIDE DEF e
<1>6. \A i \in 1 .. Len(e.chain) : AgreesAt(heights, e.chain[i], e.hf_versions[i], k, i - 1)
  BY <1>1, <1>2, <1>4, <1>5 DEF Agrees
<1>7. DbT(e)
  BY <1>1, <1>2, <1>4, <1>8 DEF DbT
<1> QED BY <1>4, <1>6, <1>7 DEF Agrees, e

(* set_hard_fork_version writes one entry, at the end or in place.         *)
LEMMA StoredVersion ==
  ASSUME NEW T \in Seq(Nat), NEW h \in Nat, h <= Len(T), NEW v \in Nat
  PROVE  LET U == set_hard_fork_version(T, h, v)
         IN  /\ U \in Seq(Nat) /\ Len(U) >= Len(T) /\ Len(U) >= h + 1
             /\ U[h + 1] = v
             /\ \A i \in 1 .. Len(T) : i # h + 1 => U[i] = T[i]
<1>1. CASE h < Len(T)
  <2>1. set_hard_fork_version(T, h, v) = [T EXCEPT ![h + 1] = v]
    BY <1>1 DEF set_hard_fork_version
  <2>2. h + 1 \in 1 .. Len(T) /\ h + 1 <= Len(T)
    BY <1>1
  <2>3. [T EXCEPT ![h + 1] = v] \in Seq(Nat)
    BY <2>2
  <2>4. Len([T EXCEPT ![h + 1] = v]) = Len(T)
    BY <2>2
  <2> QED BY <2>1, <2>2, <2>3, <2>4
<1>2. CASE ~ (h < Len(T))
  <2>1. set_hard_fork_version(T, h, v) = Append(T, v)
    BY <1>2 DEF set_hard_fork_version
  <2>2. h = Len(T)
    BY <1>2
  <2> QED BY <2>1, <2>2
<1> QED BY <1>1, <1>2

(* A block the check lets through extends a chain that agrees with the     *)
(* table.                                                                  *)
LEMMA AddedAgrees ==
  ASSUME TableOk(heights), NEW d, Agrees(heights, d, N), NEW f, NEW b \in Block,
         IsMax(f.index, Due(heights, N, Len(d.chain))), do_check(f, b)
  PROVE  /\ Agrees(heights, Added(d, f, b), N)
         /\ Len(Added(d, f, b).chain) = Len(d.chain) + 1
<1> DEFINE L == Len(d.chain)
           v == heights[f.index].version
           U == set_hard_fork_version(d.hf_versions, L, v)
           e == Added(d, f, b)
<1>1. /\ d.chain \in Seq(Block) /\ d.hf_versions \in Seq(Nat)
      /\ L <= Len(d.hf_versions) /\ L \in Nat
  BY DEF Agrees, DbT
<1>2. e = [chain |-> Append(d.chain, b), hf_versions |-> U]
  BY DEF Added, add_version, Height
<1>3. v \in Nat
  BY EntryType DEF IsMax, Due
<1> HIDE DEF v
<1>4. /\ U \in Seq(Nat) /\ Len(U) >= L + 1 /\ U[L + 1] = v
      /\ \A i \in 1 .. L : U[i] = d.hf_versions[i]
  <2>1. /\ U \in Seq(Nat) /\ Len(U) >= L + 1 /\ U[L + 1] = v
        /\ \A i \in 1 .. Len(d.hf_versions) : i # L + 1 => U[i] = d.hf_versions[i]
    BY Zenon, <1>1, <1>3, StoredVersion
  <2>2. \A i \in 1 .. L : i \in 1 .. Len(d.hf_versions) /\ i # L + 1
    BY <1>1
  <2> QED BY Zenon, <2>1, <2>2
<1> HIDE DEF U
<1>5. e.chain = Append(d.chain, b) /\ e.hf_versions = U
  BY <1>2
<1>6. /\ e.chain \in Seq(Block) /\ Len(e.chain) = L + 1 /\ e.chain[L + 1] = b
      /\ \A i \in 1 .. L : e.chain[i] = d.chain[i]
  BY <1>1, <1>5
<1>7. DbT(e)
  BY <1>1, <1>2, <1>4, <1>5, <1>6 DEF DbT
<1> HIDE DEF e
<1>8. \A i \in 1 .. L : AgreesAt(heights, e.chain[i], e.hf_versions[i], N, i - 1)
  BY <1>4, <1>5, <1>6 DEF Agrees
<1>9. AgreesAt(heights, e.chain[L + 1], e.hf_versions[L + 1], N, (L + 1) - 1)
  <2>1. (L + 1) - 1 = L
    BY <1>1
  <2>2. AgreesAt(heights, b, v, N, L)
    BY DEF AgreesAt, do_check, v
  <2> QED BY <1>4, <1>5, <1>6, <2>1, <2>2
<1> HIDE DEF L
<1>10. \A i \in 1 .. Len(e.chain) : AgreesAt(heights, e.chain[i], e.hf_versions[i], N, i - 1)
  BY <1>1, <1>6, <1>8, <1>9
<1> QED BY <1>6, <1>7, <1>10 DEF Agrees, e, L

(* Forks beyond the first k that are not due at a chain's top height       *)
(* change nothing: a chain that agrees with k of them agrees with all.     *)
LEMMA LongerTable ==
  ASSUME TableOk(heights), NEW k \in 1 .. N, NEW d, Agrees(heights, d, k), Len(d.chain) > 0,
         NEW t \in 1 .. k, IsMax(t, Due(heights, N, Len(d.chain) - 1))
  PROVE  Agrees(heights, d, N)
<1>1. Len(d.chain) \in Nat /\ N \in Nat
  BY EntryType DEF Agrees, DbT
<1>2. ASSUME NEW i \in 1 .. Len(d.chain)
      PROVE  Due(heights, N, i - 1) = Due(heights, k, i - 1)
  <2>1. Due(heights, k, i - 1) \subseteq Due(heights, N, i - 1)
    BY <1>1 DEF Due
  <2>2. ASSUME NEW n \in Due(heights, N, i - 1)
        PROVE  n \in 1 .. k
    <3>1. Due(heights, N, i - 1) \subseteq Due(heights, N, Len(d.chain) - 1)
      <4>1. i - 1 \in Nat /\ Len(d.chain) - 1 \in Nat
            /\ i - 1 <= Len(d.chain) - 1 /\ N \in 1 .. N
        BY <1>1
      <4> QED BY <4>1, DueGrows
    <3>2. n <= t /\ n \in 1 .. N
      BY <3>1 DEF IsMax, Due
    <3> QED BY <1>1, <3>2
  <2> QED BY <2>1, <2>2 DEF Due
<1>3. \A i \in 1 .. Len(d.chain) : AgreesAt(heights, d.chain[i], d.hf_versions[i], N, i - 1)
  BY <1>2 DEF Agrees, AgreesAt
<1> QED BY <1>3 DEF Agrees

(* get_ideal_version gives the version of the fork due at a height.        *)
LEMMA IdealTop ==
  ASSUME TableOk(heights), heights # <<>>, NEW h, NEW t, IsMax(t, Due(heights, N, h))
  PROVE  get_ideal_version(h) = heights[t].version
<1> DEFINE D == {n \in 2 .. Len(heights) : h >= heights[n].height}
<1>0. N \in Nat \ {0} /\ N = Len(heights) /\ heights[1].version = 1
  BY EntryType DEF N, TableOk, N
<1>1. get_ideal_version(h) = IF D = {} THEN original_version
                                       ELSE heights[Max(D)].version
  BY Zenon DEF get_ideal_version
<1>2. \A n : n \in Due(heights, N, h) <=> n = 1 \/ n \in D
  BY <1>0 DEF Due
<1>3. CASE D = {}
  <2>1. t = 1
    BY <1>2, <1>3 DEF IsMax
  <2> QED BY <1>0, <1>1, <1>3, <2>1 DEF original_version
<1>4. CASE D # {}
  <2>1. D \subseteq 1 .. N
    BY <1>0
  <2>2. IsMax(Max(D), D)
    BY <1>0, <1>4, <2>1, MaxOf
  <2>3. \A n \in D : n >= 2 /\ n \in Nat
    BY <1>0
  <2> HIDE DEF D
  <2>4. IsMax(Max(D), Due(heights, N, h))
    BY <1>2, <2>2, <2>3 DEF IsMax
  <2>5. Due(heights, N, h) \subseteq Nat
    BY <1>0 DEF Due
  <2>6. t = Max(D)
    BY <2>4, <2>5, MaxUnique
  <2> QED BY <1>1, <1>4, <2>6
<1> QED BY <1>3, <1>4

(* init() on a database whose versions agree with a part of the table ends *)
(* with the fork due at its height.                                        *)
LEMMA InitTop ==
  ASSUME TableOk(heights), OnSchedule, heights # <<>>,
         NEW d, NEW k \in 1 .. N, Agrees(heights, d, k), Len(d.chain) > 0
  PROVE  /\ IsMax(init(d).index, Due(heights, N, Len(d.chain)))
         /\ "index" \in DOMAIN init(d)
<1> DEFINE L == Len(d.chain)
           from == IF L > window_size THEN L - window_size ELSE 0
           lastv == d.hf_versions[L]
           Stop == {n \in 1 .. N : n = N \/ heights[n].version = lastv}
           g == [Scanned(Cleared, d.chain, from, L - 1) EXCEPT !.index = Min(Stop)]
           t == Max(Due(heights, N, L))
<1>1. L \in Nat \ {0} /\ L - 1 \in Nat /\ N \in Nat \ {0} /\ k <= N
  BY EntryType DEF Agrees, DbT
<1>2. ~ (from >= L)
  BY <1>1, ForkAssumption
<1>3. init(d) = Raised(g, L)
  BY Zenon, <1>2 DEF init, rescan_from_block_height, Height, N
<1>4. "index" \in DOMAIN g /\ g.index = Min(Stop)
  <2>1. "index" \in DOMAIN Scanned(Cleared, d.chain, from, L - 1)
    BY DEF Scanned, Cleared
  <2> QED BY <2>1
<1>5. IsMax(t, Due(heights, N, L))
  BY <1>1, DueMax
<1>6. PICK m : IsMax(m, Due(heights, k, L - 1)) /\ lastv = heights[m].version
  <2>1. AgreesAt(heights, d.chain[L], d.hf_versions[L], k, L - 1)
    BY <1>1 DEF Agrees
  <2> QED BY <2>1 DEF AgreesAt
<1>7. m \in 1 .. N /\ m <= t
  <2>1. Due(heights, k, L - 1) \subseteq Due(heights, k, L)
    BY <1>1, DueGrows
  <2>2. m \in Due(heights, N, L)
    BY <1>1, <1>6, <2>1 DEF IsMax, Due
  <2> QED BY <1>5, <2>2 DEF IsMax, Due
<1>8. Min(Stop) \in 1 .. m
  <2>1. Stop \subseteq Nat /\ m \in Stop
    BY <1>6, <1>7
  <2>2. Min(Stop) \in Stop /\ Min(Stop) <= m
    BY Zenon, <2>1, MinOf
  <2> QED BY <1>7, <2>2
<1> HIDE DEF g, t, Stop
<1>9. g.index \in 1 .. t
  BY <1>4, <1>5, <1>7, <1>8 DEF IsMax, Due
<1>10. Raised(g, L).index = t /\ "index" \in DOMAIN Raised(g, L)
  BY <1>1, <1>4, <1>5, <1>9, RaisedTop
<1> QED BY <1>3, <1>5, <1>10
-----------------------------------------------------------------------------
ForkType == [version : Nat, height : Nat, threshold : Nat, time : Nat]

JobType == [at : Stage, split : Nat, old : Seq(Block), next : Nat, popped : BOOLEAN]

EmptyDb == [chain |-> <<>>, hf_versions |-> <<>>]

(* A database some older, shorter table made.                              *)
OlderDb(hs, d) == Len(d.chain) > 0 /\ \E k \in 1 .. Len(hs) : Agrees(hs, d, k)

(* A database this table made.                                             *)
CurrentDb(hs, d) == Len(d.chain) > 0 /\ Agrees(hs, d, Len(hs))

Switching == {"pop", "push", "rollback", "restore"}

(* What holds in each stage while forks happen on schedule: the index is   *)
(* that of the fork due at the next height, which during a replay is the   *)
(* next block to add again.                                                *)
SInv ==
  /\ TableOk(heights) /\ "index" \in DOMAIN hf /\ job \in JobType
  /\ job.at # "setup" => heights # <<>>
  /\ job.at \in {"setup", "init"} =>
       kept = db /\ (db = EmptyDb \/ OlderDb(heights, db))
  /\ job.at = "trim" =>
       /\ kept = db /\ OlderDb(heights, db) /\ hf.index \in 1 .. Len(heights)
       /\ ~job.popped =>
            IsMax(hf.index, Due(heights, Len(heights), Len(db.chain)))
  /\ job.at \in Switching \cup {"idle", "replay"} =>
       CurrentDb(heights, db) /\ CurrentDb(heights, kept)
  /\ job.at \in Switching \cup {"idle"} =>
       IsMax(hf.index, Due(heights, Len(heights), Len(db.chain)))
  /\ job.at = "replay" =>
       /\ job.next \in 1 .. Len(db.chain)
       /\ IsMax(hf.index, Due(heights, Len(heights), job.next))
  /\ job.at \in Switching => job.split \in 1 .. Len(db.chain)

HInv == /\ heights \in Seq(ForkType) /\ aborted \in BOOLEAN
        /\ OnSchedule => SInv

(* Once a fork needs votes or a batch was aborted, that stays so.          *)
LEMMA ScheduleStays ==
  ASSUME heights \in Seq(ForkType), aborted \in BOOLEAN, [Next]_vars
  PROVE  /\ heights' \in Seq(ForkType) /\ aborted' \in BOOLEAN
         /\ OnSchedule' => OnSchedule
<1>1. /\ \/ heights' = heights
         \/ \E e \in Fork : heights' = Append(heights, e)
         \/ /\ heights = <<>>
            /\ heights' = <<[version |-> original_version, height |-> 0,
                             threshold |-> 0, time |-> 0]>>
      /\ aborted' = aborted \/ aborted' = TRUE
  BY DEF Next, vars, add_fork, InitTable, InitRestore, TrimTop, AddBlock,
     BatchStop, BatchAbort, PopBlock, StartSwitch, SwitchPop, SwitchPush,
     SwitchDone, SwitchFail, RollbackPop, RollbackScan, RollbackPush,
     RollbackPanic, RollbackDone, Replay, ReplayDone, Restart
<1>5. aborted' \in BOOLEAN /\ (~aborted' => ~aborted)
  <2>1. CASE aborted' = aborted
    BY Zenon, <2>1
  <2>2. CASE aborted' = TRUE
    BY Zenon, <2>2
  <2> QED BY Zenon, <1>1, <2>1, <2>2
<1>2. CASE heights' = heights
  BY Zenon, <1>2, <1>5 DEF OnSchedule
<1>3. CASE \E e \in Fork : heights' = Append(heights, e)
  <2>1. PICK e \in Fork : heights' = Append(heights, e)
    BY <1>3
  <2>2. e \in ForkType
    BY ForkAssumption DEF ForkType
  <2>3. heights' \in Seq(ForkType) /\ DOMAIN heights \subseteq DOMAIN heights'
        /\ \A i \in DOMAIN heights : heights'[i] = heights[i]
    <3> HIDE DEF ForkType
    <3> QED BY <2>1, <2>2
  <2> QED BY Zenon, <1>5, <2>3 DEF OnSchedule
<1>4. CASE /\ heights = <<>>
           /\ heights' = <<[version |-> original_version, height |-> 0,
                            threshold |-> 0, time |-> 0]>>
  <2>1. [version |-> original_version, height |-> 0, threshold |-> 0,
         time |-> 0] \in ForkType
    BY DEF ForkType, original_version
  <2>2. heights' \in Seq(ForkType)
    BY <1>4, <2>1
  <2>3. DOMAIN heights = {}
    BY <1>4
  <2> QED BY Zenon, <1>5, <2>2, <2>3 DEF OnSchedule
<1> QED BY Zenon, <1>1, <1>2, <1>3, <1>4

(* A longer table leaves what an older one decided alone.                  *)
LEMMA OlderStays ==
  ASSUME NEW hs, NEW us, Len(hs) \in Nat, Len(us) \in Nat, Len(hs) <= Len(us),
         \A i \in 1 .. Len(hs) : us[i] = hs[i],
         NEW d, OlderDb(hs, d)
  PROVE  OlderDb(us, d)
<1>1. PICK k \in 1 .. Len(hs) : Agrees(hs, d, k)
  BY DEF OlderDb
<1>2. k \in 1 .. Len(us) /\ \A n \in 1 .. k : us[n] = hs[n]
  BY <1>1
<1>3. \A h : Due(us, k, h) = Due(hs, k, h)
  BY <1>2 DEF Due
<1>4. \A b, v, h : AgreesAt(hs, b, v, k, h) => AgreesAt(us, b, v, k, h)
  <2> SUFFICES ASSUME NEW b, NEW v, NEW h, AgreesAt(hs, b, v, k, h)
               PROVE  AgreesAt(us, b, v, k, h)
    OBVIOUS
  <2>1. PICK n : /\ IsMax(n, Due(hs, k, h)) /\ b.major = hs[n].version
                 /\ get_block_vote(b) >= hs[n].version /\ v = hs[n].version
    BY DEF AgreesAt
  <2>2. us[n] = hs[n]
    BY <1>2, <2>1 DEF IsMax, Due
  <2>3. IsMax(n, Due(us, k, h))
    BY <1>3, <2>1
  <2> QED BY <2>1, <2>2, <2>3 DEF AgreesAt
<1>5. Agrees(us, d, k)
  BY <1>1, <1>4 DEF Agrees
<1> QED BY <1>2, <1>5 DEF OlderDb

(* The table is in order after every add_fork.                             *)
LEMMA TableGrows ==
  ASSUME TableOk(heights), NEW e \in Fork, add_fork(e)
  PROVE  /\ TableOk(heights') /\ Len(heights) \in Nat /\ Len(heights') = Len(heights) + 1
         /\ heights' = Append(heights, e)
         /\ \A i \in 1 .. Len(heights) : heights'[i] = heights[i]
<1>0. heights \in Seq(ForkType) /\ Len(heights) \in Nat
  BY DEF TableOk, ForkType
<1>2. e \in ForkType /\ e.version \in Nat /\ e.height \in Nat
  BY ForkAssumption DEF ForkType
<1>3. /\ heights' = Append(heights, e) /\ heights' \in Seq(ForkType)
      /\ Len(heights') = Len(heights) + 1
      /\ \A i \in 1 .. Len(heights) : heights'[i] = heights[i]
      /\ heights'[Len(heights) + 1] = e
  <2> HIDE DEF ForkType
  <2>1. heights' = Append(heights, e)
    BY DEF add_fork
  <2> QED BY <1>0, <1>2, <2>1
<1>4. heights'[1].version = 1
  <2>1. CASE heights = <<>>
    BY <1>3, <2>1 DEF add_fork, original_version
  <2>2. CASE heights # <<>>
    <3>1. heights[1].version = 1 /\ 1 \in 1 .. Len(heights)
      BY <1>0, <2>2 DEF TableOk
    <3> QED BY <1>3, <3>1
  <2> QED BY <2>1, <2>2
<1>5. ASSUME NEW i \in 1 .. Len(heights'), NEW j \in 1 .. Len(heights'), i < j
      PROVE  /\ heights'[i].version < heights'[j].version
             /\ heights'[i].height < heights'[j].height
  <2>1. i \in 1 .. Len(heights)
    BY <1>0, <1>3, <1>5
  <2>2. CASE j \in 1 .. Len(heights)
    BY Zenon, <1>0, <1>3, <1>5, <2>1, <2>2 DEF TableOk
  <2>3. CASE j = Len(heights) + 1
    <3> DEFINE L == Len(heights)
    <3>1. heights # <<>> /\ L \in 1 .. L
      BY <1>0, <2>1
    <3>2. e.version > heights[L].version /\ e.height > heights[L].height
      BY <3>1 DEF add_fork, Last
    <3>3. i = L \/ /\ heights[i].version < heights[L].version
                   /\ heights[i].height < heights[L].height
      <4>1. ASSUME i # L PROVE i < L
        BY <1>0, <2>1, <4>1
      <4> QED BY Zenon, <1>0, <2>1, <3>1, <4>1 DEF TableOk
    <3>4. /\ heights[i].version \in Nat /\ heights[i].height \in Nat
          /\ heights[L].version \in Nat /\ heights[L].height \in Nat
      BY <1>0, <2>1, <3>1, EntryType DEF N
    <3> QED BY SMTT(20), <1>2, <1>3, <2>1, <2>3, <3>2, <3>3, <3>4
  <2> QED BY <1>0, <1>3, <2>2, <2>3
<1>6. TableOk(heights')
  BY Zenon, <1>3, <1>4, <1>5 DEF TableOk, ForkType
<1> QED BY <1>0, <1>3, <1>6

(* The placeholder of an empty table.                                      *)
LEMMA PlaceholderOk ==
  ASSUME TableOk(heights), InitTable
  PROVE  TableOk(heights') /\ heights' # <<>>
<1>1. CASE heights # <<>>
  BY <1>1 DEF InitTable
<1>2. CASE heights = <<>>
  <2>1. heights' = <<[version |-> 1, height |-> 0, threshold |-> 0, time |-> 0]>>
    BY <1>2 DEF InitTable, original_version
  <2> QED BY <2>1 DEF TableOk
<1> QED BY <1>1, <1>2

(* Setting up the table keeps what an older table decided.                 *)
LEMMA SetupInv ==
  ASSUME SInv, (\E e \in Fork : add_fork(e)) \/ InitTable
  PROVE  SInv'
<1>0. TableOk(heights) /\ job.at = "setup" /\ "index" \in DOMAIN hf /\ job \in JobType
      /\ kept = db /\ (db = EmptyDb \/ OlderDb(heights, db))
  BY DEF SInv, add_fork, InitTable
<1>1. CASE \E e \in Fork : add_fork(e)
  <2>1. PICK e \in Fork : add_fork(e)
    BY <1>1
  <2>3. /\ TableOk(heights') /\ Len(heights) \in Nat
        /\ Len(heights') = Len(heights) + 1
        /\ \A i \in 1 .. Len(heights) : heights'[i] = heights[i]
    BY Zenon, <1>0, <2>1, TableGrows
  <2>4. UNCHANGED <<db, hf, job, kept>>
    BY <2>1 DEF add_fork
  <2>6. db' = EmptyDb \/ OlderDb(heights', db')
    <3>1. CASE OlderDb(heights, db)
      <4>1. Len(heights') \in Nat /\ Len(heights) <= Len(heights')
        BY <2>3
      <4>2. OlderDb(heights', db)
        BY Zenon, <2>3, <3>1, <4>1, OlderStays
      <4> QED BY <2>4, <4>2
    <3> QED BY <1>0, <2>4, <3>1
  <2> QED BY <1>0, <2>3, <2>4, <2>6 DEF SInv, Switching
<1>2. CASE InitTable
  <2>1. job' = NoJob("init") /\ UNCHANGED <<db, hf, kept>>
    BY <1>2 DEF InitTable
  <2>2. job' \in JobType /\ job'.at = "init"
    BY <2>1 DEF NoJob, JobType, Stage
  <2>5. TableOk(heights') /\ heights' # <<>>
    BY Zenon, <1>0, <1>2, PlaceholderOk
  <2>3. CASE heights # <<>>
    <3>1. heights' = heights
      BY <1>2, <2>3 DEF InitTable
    <3> QED BY <1>0, <2>1, <2>2, <2>3, <3>1 DEF SInv, Switching
  <2>4. CASE heights = <<>>
    <3>3. db = EmptyDb
      BY <1>0, <2>4 DEF OlderDb
    <3> QED BY <1>0, <2>1, <2>2, <2>5, <3>3 DEF SInv, Switching
  <2> QED BY <2>3, <2>4
<1> QED BY <1>1, <1>2

(* No fork but the first is due at the genesis block.                      *)
LEMMA GenesisTop ==
  ASSUME TableOk(heights), heights # <<>>
  PROVE  IsMax(1, Due(heights, N, 0))
<1>1. N \in Nat \ {0} /\ 1 \in 1 .. N /\ heights[1].height \in Nat
  BY EntryType
<1>2. ASSUME NEW n \in Due(heights, N, 0), n # 1 PROVE FALSE
  <2>1. n \in 1 .. N /\ 0 >= heights[n].height /\ 1 < n
    BY <1>1, <1>2 DEF Due
  <2>2. heights[1].height < heights[n].height /\ heights[n].height \in Nat
    BY Zenon, <1>1, <2>1, EntryType DEF TableOk, N
  <2> QED BY <1>1, <2>1, <2>2
<1> QED BY <1>1, <1>2 DEF IsMax, Due

(* init() and, in a new database, the genesis block.                       *)
LEMMA InitRestoreInv ==
  ASSUME SInv, OnSchedule, InitRestore
  PROVE  SInv'
<1>0. /\ TableOk(heights) /\ job.at = "init" /\ heights # <<>> /\ heights' = heights
      /\ db = EmptyDb \/ OlderDb(heights, db)
      /\ job' = NoJob("trim") /\ kept' = db'
  BY DEF SInv, InitRestore
<1>1. job' \in JobType /\ job'.at = "trim"
  BY <1>0 DEF NoJob, JobType, Stage
<1>2. N \in Nat \ {0} /\ N = Len(heights) /\ N \in 1 .. N
  BY <1>0, EntryType DEF N
<1>3. /\ OlderDb(heights, db') /\ "index" \in DOMAIN hf'
      /\ IsMax(hf'.index, Due(heights, N, Len(db'.chain)))
  <2>1. CASE db = EmptyDb
    <3>1. Height(db) = 0 /\ Len(db.chain) = 0 /\ Agrees(heights, db, N)
      BY <2>1 DEF EmptyDb, Height, Agrees, DbT
    <3>2. init(db) = Cleared
      BY <3>1, ForkAssumption DEF init, rescan_from_block_height
    <3>3. Cleared.index = 1 /\ "index" \in DOMAIN Cleared
      BY DEF Cleared
    <3>4. GenesisBlock \in Block /\ GenesisBlock.major = 1
          /\ get_block_vote(GenesisBlock) = 1
      BY ForkAssumption DEF GenesisBlock, Block, Version, original_version,
         get_block_vote
    <3>5. do_check(Cleared, GenesisBlock)
      BY <1>0, <3>3, <3>4 DEF do_check, TableOk
    <3>6. IsMax(Cleared.index, Due(heights, N, 0))
      BY <1>0, <3>3, GenesisTop
    <3>7. db' = Added(db, Cleared, GenesisBlock) /\ hf' = add(Cleared, GenesisBlock, 0)
      BY <3>1, <3>2 DEF InitRestore
    <3> HIDE DEF Cleared, GenesisBlock
    <3>8. Agrees(heights, db', N) /\ Len(db'.chain) = 1
      <4>1. IsMax(Cleared.index, Due(heights, N, Len(db.chain)))
        BY Zenon, <3>1, <3>6
      <4>2. /\ Agrees(heights, Added(db, Cleared, GenesisBlock), N)
            /\ Len(Added(db, Cleared, GenesisBlock).chain) = Len(db.chain) + 1
        BY Zenon, <1>0, <3>1, <3>4, <3>5, <4>1, AddedAgrees
      <4> QED BY <3>1, <3>7, <4>2
    <3>9. /\ IsMax(hf'.index, Due(heights, N, 0 + 1)) /\ "index" \in DOMAIN hf'
      BY <1>0, <3>3, <3>5, <3>6, <3>7, AddTop
    <3> QED BY <1>2, <3>8, <3>9 DEF OlderDb
  <2>2. CASE OlderDb(heights, db)
    <3>1. PICK k \in 1 .. N : Agrees(heights, db, k) /\ Len(db.chain) > 0
      BY <1>2, <2>2 DEF OlderDb
    <3>2. Height(db) # 0
      BY <3>1 DEF Height
    <3>3. db' = db /\ hf' = init(db)
      BY <3>2 DEF InitRestore
    <3>4. /\ IsMax(init(db).index, Due(heights, N, Len(db.chain)))
          /\ "index" \in DOMAIN init(db)
      BY <1>0, <3>1, InitTop
    <3> QED BY <2>2, <3>3, <3>4
  <2> QED BY <1>0, <2>1, <2>2
<1>4. hf'.index \in 1 .. N
  BY <1>3 DEF IsMax, Due
<1> QED BY <1>0, <1>1, <1>2, <1>3, <1>4 DEF SInv, Switching

(* A height other than 0 is positive.                                      *)
LEMMA PositiveNat ==
  ASSUME NEW n \in Nat, n # 0
  PROVE  n > 0
OBVIOUS

(* Dropping the top blocks an older table made: what remains at the end    *)
(* agrees with the whole table, and so does the index.                     *)
LEMMA TrimInv ==
  ASSUME SInv, OnSchedule, TrimTop
  PROVE  SInv'
<1> DEFINE top == Len(db.chain) - 1
           t == Max(Due(heights, N, top))
           b == db.chain[Len(db.chain)]
<1>0. /\ TableOk(heights) /\ job.at = "trim" /\ heights # <<>> /\ heights' = heights
      /\ kept' = db' /\ job \in JobType /\ "index" \in DOMAIN hf
      /\ hf.index \in 1 .. N /\ Len(db.chain) > 0 /\ N = Len(heights)
      /\ ~job.popped => IsMax(hf.index, Due(heights, N, Len(db.chain)))
  BY DEF SInv, TrimTop, OlderDb, N
<1>1. PICK k \in 1 .. N : Agrees(heights, db, k)
  BY <1>0 DEF SInv, OlderDb
<1>2. /\ N \in Nat \ {0} /\ top \in Nat /\ Len(db.chain) \in Nat
      /\ Len(db.chain) \in 1 .. Len(db.chain)
  <2>1. N \in Nat \ {0}
    BY <1>0, EntryType
  <2>2. Len(db.chain) \in Nat
    BY <1>1 DEF Agrees, DbT
  <2> QED BY <1>0, <2>1, <2>2
<1>3. IsMax(t, Due(heights, N, top)) /\ t \in 1 .. N
  BY <1>2, DueMax
<1>4. get_ideal_version(top) = heights[t].version
  BY <1>0, <1>3, IdealTop
<1> HIDE DEF t
<1>5. CASE get_ideal_version(top) <= 1 \/ get_ideal_version(top) = b.major
  <2>1. /\ hf' = IF job.popped THEN reorganize(hf, db, top) ELSE hf
        /\ job' = NoJob("idle") /\ db' = db
    BY <1>5 DEF TrimTop, Height, Last
  <2>2. PICK m : IsMax(m, Due(heights, k, top)) /\ b.major = heights[m].version
    <3>1. AgreesAt(heights, b, db.hf_versions[Len(db.chain)], k, top)
      BY <1>1, <1>2 DEF Agrees
    <3> QED BY <3>1 DEF AgreesAt
  <2>3. m \in 1 .. k
    BY <2>2 DEF IsMax, Due
  <2>4. t \in 1 .. k
    <3>1. ASSUME t > m, t # 1 PROVE FALSE
      <4>0. m \in 1 .. N /\ 1 \in 1 .. N /\ m < t /\ 1 < t
        BY <1>2, <1>3, <2>3, <3>1
      <4>1. heights[m].version < heights[t].version /\ heights[1].version < heights[t].version
        BY Zenon, <1>0, <1>3, <4>0 DEF TableOk
      <4>2. heights[1].version = 1 /\ heights[t].version \in Nat
            /\ heights[m].version \in Nat
        BY Zenon, <1>0, <1>3, <4>0, EntryType DEF TableOk
      <4> QED BY <1>4, <1>5, <2>2, <4>1, <4>2
    <3> QED BY <1>2, <1>3, <2>3, <3>1
  <2>5. Agrees(heights, db, N)
    BY <1>0, <1>1, <1>3, <2>4, LongerTable
  <2>6. /\ IsMax(hf'.index, Due(heights, N, Len(db.chain))) /\ "index" \in DOMAIN hf'
    <3>1. CASE job.popped
      <4>1. top \in 0 .. Len(db.chain) - 1 /\ top + 1 = Len(db.chain)
        BY <1>2
      <4>2. /\ IsMax(reorganize(hf, db, top).index, Due(heights, N, top + 1))
            /\ "index" \in DOMAIN reorganize(hf, db, top)
        BY <1>0, <2>5, <4>1, ReorganizeTop
      <4> QED BY <2>1, <3>1, <4>1, <4>2
    <3>2. CASE ~job.popped
      BY <1>0, <2>1, <3>2
    <3> QED BY <3>1, <3>2
  <2>7. job' \in JobType /\ job'.at = "idle"
    BY <2>1 DEF NoJob, JobType, Stage
  <2>8. CurrentDb(heights, db') /\ kept' = db'
    BY <1>0, <2>1, <2>5 DEF CurrentDb
  <2> QED BY <1>0, <2>1, <2>6, <2>7, <2>8 DEF SInv, Switching
<1>6. CASE ~ (get_ideal_version(top) <= 1 \/ get_ideal_version(top) = b.major)
  <2>1. db' = Popped(db) /\ hf' = hf /\ job' = [job EXCEPT !.popped = TRUE]
    BY <1>6 DEF TrimTop, Height, Last
  <2>2. job' \in JobType /\ job'.at = "trim" /\ job'.popped
    BY Zenon, <1>0, <2>1 DEF JobType
  <2>3. Agrees(heights, db', k) /\ Len(db'.chain) = Len(db.chain) - 1
    BY Zenon, <1>0, <1>1, <2>1, PoppedAgrees
  <2>4. top # 0
    <3>1. ASSUME top = 0 PROVE FALSE
      <4>1. IsMax(1, Due(heights, N, top))
        BY Zenon, <1>0, <3>1, GenesisTop
      <4>2. get_ideal_version(top) = heights[1].version /\ heights[1].version = 1
        BY Zenon, <1>0, <4>1, IdealTop DEF TableOk
      <4> QED BY <1>6, <4>2
    <3> QED BY <3>1
  <2>5. OlderDb(heights, db')
    <3>1. Len(db'.chain) > 0
      BY Zenon, <1>2, <2>3, <2>4, PositiveNat
    <3>2. k \in 1 .. Len(heights)
      BY <1>0
    <3> QED BY Zenon, <2>3, <3>1, <3>2 DEF OlderDb
  <2> QED BY <1>0, <2>1, <2>2, <2>5 DEF SInv, Switching
<1> QED BY <1>5, <1>6
-----------------------------------------------------------------------------
(* The chain and the object after BlockchainDB::add_block.                 *)
LEMMA Grow ==
  ASSUME TableOk(heights), OnSchedule, heights # <<>>,
         NEW d, CurrentDb(heights, d), NEW f, "index" \in DOMAIN f,
         IsMax(f.index, Due(heights, N, Len(d.chain))),
         NEW b \in Block, do_check(f, b)
  PROVE  /\ CurrentDb(heights, Added(d, f, b))
         /\ Len(Added(d, f, b).chain) = Len(d.chain) + 1 /\ Len(d.chain) \in Nat
         /\ "index" \in DOMAIN add(f, b, Height(d))
         /\ IsMax(add(f, b, Height(d)).index,
                  Due(heights, N, Len(Added(d, f, b).chain)))
<1>1. Agrees(heights, d, N) /\ Len(d.chain) \in Nat /\ Height(d) = Len(d.chain)
      /\ N = Len(heights)
  BY DEF CurrentDb, N, Agrees, DbT, Height
<1>2. /\ Agrees(heights, Added(d, f, b), N)
      /\ Len(Added(d, f, b).chain) = Len(d.chain) + 1
  BY Zenon, <1>1, AddedAgrees
<1>3. /\ IsMax(add(f, b, Height(d)).index, Due(heights, N, Len(d.chain) + 1))
      /\ "index" \in DOMAIN add(f, b, Height(d))
  BY Zenon, <1>1, AddTop
<1>4. Len(Added(d, f, b).chain) > 0
  BY <1>1, <1>2
<1>5. CurrentDb(heights, Added(d, f, b))
  BY Zenon, <1>1, <1>2, <1>4 DEF CurrentDb
<1> QED BY Zenon, <1>1, <1>2, <1>3, <1>5

(* The chain and the object after pop_block_from_blockchain.               *)
LEMMA Shrink ==
  ASSUME TableOk(heights), heights # <<>>,
         NEW d, CurrentDb(heights, d), Len(d.chain) > 1, NEW f
  PROVE  LET p == Popped(d)
         IN  /\ CurrentDb(heights, p) /\ Len(p.chain) = Len(d.chain) - 1
             /\ Len(d.chain) \in Nat
             /\ "index" \in DOMAIN on_block_popped(f, p)
             /\ IsMax(on_block_popped(f, p).index, Due(heights, N, Len(p.chain)))
<1> DEFINE p == Popped(d)
<1>1. Agrees(heights, d, N) /\ Len(d.chain) \in Nat /\ N = Len(heights)
  BY DEF CurrentDb, N, Agrees, DbT
<1>2. Agrees(heights, p, N) /\ Len(p.chain) = Len(d.chain) - 1
  BY <1>1, PoppedAgrees
<1> HIDE DEF p
<1>3. CurrentDb(heights, p)
  BY <1>1, <1>2 DEF CurrentDb
<1>4. /\ IsMax(on_block_popped(f, p).index, Due(heights, N, Len(p.chain)))
      /\ "index" \in DOMAIN on_block_popped(f, p)
  BY Zenon, PoppedTop
<1> QED BY Zenon, <1>1, <1>2, <1>3, <1>4 DEF p

(* What SInv says between two steps of the thread that works on the chain. *)
LEMMA Working ==
  ASSUME SInv, job.at \in Switching \cup {"idle"}
  PROVE  /\ TableOk(heights) /\ heights # <<>> /\ job \in JobType
         /\ CurrentDb(heights, db) /\ CurrentDb(heights, kept)
         /\ "index" \in DOMAIN hf /\ N = Len(heights)
         /\ IsMax(hf.index, Due(heights, N, Len(db.chain)))
         /\ job.at \in Switching => job.split \in 1 .. Len(db.chain)
BY DEF SInv, Switching, N

(* The steps of an idle daemon, and a restart.                             *)
LEMMA IdleInv ==
  ASSUME SInv, OnSchedule,
         (\E b \in Block : AddBlock(b)) \/ BatchStop \/ PopBlock \/ StartSwitch
  PROVE  SInv'
<1>0. job.at = "idle" /\ heights' = heights
  BY DEF AddBlock, BatchStop, PopBlock, StartSwitch
<1>1. /\ TableOk(heights) /\ heights # <<>> /\ job \in JobType
      /\ CurrentDb(heights, db) /\ CurrentDb(heights, kept)
      /\ "index" \in DOMAIN hf /\ N = Len(heights)
      /\ IsMax(hf.index, Due(heights, N, Len(db.chain)))
  BY Zenon, <1>0, Working
<1>2. CASE \E b \in Block : AddBlock(b)
  <2>1. PICK b \in Block : AddBlock(b)
    BY <1>2
  <2>2. do_check(hf, b) /\ db' = Added(db, hf, b) /\ hf' = add(hf, b, Height(db))
        /\ job' = job /\ kept' = kept
    BY <2>1 DEF AddBlock
  <2>3. /\ CurrentDb(heights, db') /\ "index" \in DOMAIN hf'
        /\ IsMax(hf'.index, Due(heights, N, Len(db'.chain)))
    BY Zenon, <1>1, <2>2, Grow
  <2> QED BY <1>0, <1>1, <2>2, <2>3 DEF SInv, Switching
<1>3. CASE BatchStop
  BY <1>0, <1>1, <1>3 DEF SInv, Switching, BatchStop
<1>4. CASE PopBlock
  <2>1. db' = Popped(db) /\ hf' = on_block_popped(hf, db') /\ kept' = db'
        /\ job' = job /\ Len(db.chain) > 1
    BY <1>4 DEF PopBlock, Height
  <2>2. /\ CurrentDb(heights, db') /\ "index" \in DOMAIN hf'
        /\ IsMax(hf'.index, Due(heights, N, Len(db'.chain)))
    BY Zenon, <1>1, <2>1, Shrink
  <2> QED BY <1>0, <1>1, <2>1, <2>2 DEF SInv, Switching
<1>5. CASE StartSwitch
  <2>3. Len(db.chain) \in Nat
    BY <1>1 DEF CurrentDb, Agrees, DbT
  <2>1. PICK s \in 1 .. Len(db.chain) - 1 : job' = [NoJob("pop") EXCEPT !.split = s]
    BY <1>5 DEF StartSwitch, Height
  <2>2. job' \in JobType /\ job'.at = "pop" /\ job'.split = s
    <3>1. job' = [at |-> "pop", split |-> s, old |-> <<>>, next |-> 0,
                  popped |-> FALSE]
      BY Zenon, <2>1 DEF NoJob
    <3>2. s \in Nat
      BY <2>1, <2>3
    <3> QED BY <3>1, <3>2 DEF JobType, Stage
  <2>4. s \in 1 .. Len(db.chain)
    BY <2>1, <2>3
  <2>5. db' = db /\ hf' = hf /\ kept' = kept
    BY <1>5 DEF StartSwitch
  <2> QED BY <1>0, <1>1, <2>2, <2>4, <2>5 DEF SInv, Switching
<1> QED BY <1>2, <1>3, <1>4, <1>5

(* A restart finds a database this table, then an older one, made.         *)
LEMMA RestartInv ==
  ASSUME SInv, Restart
  PROVE  SInv'
<1>1. /\ heights' = heights /\ db' = kept /\ kept' = kept /\ hf' = Cleared
      /\ job' = NoJob("setup") /\ job.at # "setup"
  BY SMTT(30) DEF Restart
<1>2. job' \in JobType /\ job'.at = "setup" /\ "index" \in DOMAIN hf'
  BY SMTT(30), <1>1 DEF NoJob, JobType, Stage, Cleared
<1>3. TableOk(heights) /\ heights # <<>> /\ Len(heights) \in Nat \ {0}
  BY <1>1, EntryType DEF SInv, N
<1>4. kept = EmptyDb \/ OlderDb(heights, kept)
  <2>1. CASE job.at \in {"init", "trim"}
    BY <2>1 DEF SInv
  <2>2. CASE job.at \notin {"init", "trim"}
    <3>1. job.at \in Switching \cup {"idle", "replay"}
      BY <1>1, <2>2 DEF SInv, JobType, Stage, Switching
    <3>2. CurrentDb(heights, kept)
      BY <3>1 DEF SInv
    <3>3. Len(heights) \in 1 .. Len(heights)
      BY <1>3
    <3> QED BY Zenon, <3>2, <3>3 DEF CurrentDb, OlderDb
  <2> QED BY <2>1, <2>2
<1> QED BY <1>1, <1>2, <1>3, <1>4 DEF SInv, Switching

(* The blocks a switch or its rollback takes off and puts on.              *)
LEMMA SwitchInv ==
  ASSUME SInv, OnSchedule,
         \/ SwitchPop \/ (\E b \in Block : SwitchPush(b)) \/ SwitchFail
         \/ RollbackPop \/ RollbackPush \/ RollbackPanic
  PROVE  SInv'
<1>0. /\ job.at \in Switching /\ heights' = heights /\ kept' = kept
  BY DEF SwitchPop, SwitchPush, Pushing, SwitchFail, RollbackPop, RollbackPush,
     RollbackPanic, Switching
<1>1. /\ TableOk(heights) /\ heights # <<>> /\ job \in JobType
      /\ CurrentDb(heights, db) /\ CurrentDb(heights, kept)
      /\ "index" \in DOMAIN hf /\ N = Len(heights)
      /\ IsMax(hf.index, Due(heights, N, Len(db.chain)))
      /\ job.split \in 1 .. Len(db.chain)
  BY Zenon, <1>0, Working
<1>2. Len(db.chain) \in Nat /\ db.chain \in Seq(Block)
  BY <1>1 DEF CurrentDb, Agrees, DbT
<1>3. ASSUME CurrentDb(heights, db'), "index" \in DOMAIN hf', job' \in JobType,
             IsMax(hf'.index, Due(heights, N, Len(db'.chain))),
             \/ job'.at = "idle"
             \/ job'.at \in Switching /\ job'.split \in 1 .. Len(db'.chain)
      PROVE  SInv'
  BY <1>0, <1>1, <1>3 DEF SInv, Switching
<1>4. ASSUME db' = Popped(db), hf' = on_block_popped(hf, db'),
             Len(db.chain) > job.split
      PROVE  /\ CurrentDb(heights, db') /\ "index" \in DOMAIN hf'
             /\ IsMax(hf'.index, Due(heights, N, Len(db'.chain)))
             /\ job.split \in 1 .. Len(db'.chain)
  <2>1. Len(db.chain) > 1
    BY <1>1, <1>2, <1>4
  <2>2. /\ CurrentDb(heights, db') /\ "index" \in DOMAIN hf'
        /\ IsMax(hf'.index, Due(heights, N, Len(db'.chain)))
        /\ Len(db'.chain) = Len(db.chain) - 1
    BY Zenon, <1>1, <1>4, <2>1, Shrink
  <2>3. job.split \in 1 .. Len(db.chain) - 1
    BY <1>1, <1>2, <1>4
  <2> QED BY Zenon, <2>2, <2>3
<1>5. ASSUME NEW b \in Block, do_check(hf, b), db' = Added(db, hf, b),
             hf' = add(hf, b, Height(db))
      PROVE  /\ CurrentDb(heights, db') /\ "index" \in DOMAIN hf'
             /\ IsMax(hf'.index, Due(heights, N, Len(db'.chain)))
             /\ job.split \in 1 .. Len(db'.chain)
  <2>1. /\ CurrentDb(heights, db') /\ "index" \in DOMAIN hf'
        /\ IsMax(hf'.index, Due(heights, N, Len(db'.chain)))
        /\ Len(db'.chain) = Len(db.chain) + 1
    BY Zenon, <1>1, <1>5, Grow
  <2>2. job.split \in 1 .. Len(db.chain) + 1
    BY <1>1, <1>2
  <2> QED BY Zenon, <2>1, <2>2
<1>6. CASE SwitchPop
  <2>1. /\ db' = Popped(db) /\ hf' = on_block_popped(hf, db')
        /\ Len(db.chain) > job.split /\ job.at = "pop"
        /\ job' = [job EXCEPT !.old = <<db.chain[Len(db.chain)]>> \o @]
    BY <1>6 DEF SwitchPop, Height, Last
  <2>2. db.chain[Len(db.chain)] \in Block
    BY <1>1, <1>2 DEF CurrentDb
  <2>3. job' \in JobType /\ job'.at = "pop" /\ job'.split = job.split
    <3>1. <<db.chain[Len(db.chain)]>> \o job.old \in Seq(Block)
      BY <1>1, <2>2 DEF JobType
    <3> QED BY Zenon, <1>1, <2>1, <3>1 DEF JobType
  <2> QED BY <1>3, <1>4, <2>1, <2>3 DEF Switching
<1>7. CASE \E b \in Block : SwitchPush(b)
  <2>1. PICK b \in Block : SwitchPush(b)
    BY <1>7
  <2>2. /\ do_check(hf, b) /\ db' = Added(db, hf, b)
        /\ hf' = add(hf, b, Height(db)) /\ job' = [job EXCEPT !.at = "push"]
    BY <2>1 DEF SwitchPush
  <2>3. job' \in JobType /\ job'.at = "push" /\ job'.split = job.split
    BY <1>1, <2>2 DEF JobType, Stage
  <2>4. job'.at \in Switching
    BY <2>3 DEF Switching
  <2> QED BY Zenon, <1>3, <1>5, <2>2, <2>3, <2>4
<1>8. CASE SwitchFail
  <2>1. db' = db /\ hf' = hf /\ job' = [job EXCEPT !.at = "rollback"]
    BY <1>8 DEF SwitchFail
  <2>2. job' \in JobType /\ job'.at = "rollback" /\ job'.split = job.split
    BY <1>1, <2>1 DEF JobType, Stage
  <2>3. job'.at \in Switching
    BY <2>2 DEF Switching
  <2> QED BY Zenon, <1>1, <1>3, <2>1, <2>2, <2>3
<1>9. CASE RollbackPop
  <2>1. /\ db' = Popped(db) /\ hf' = on_block_popped(hf, db')
        /\ Len(db.chain) > job.split /\ job' = job
    BY <1>9 DEF RollbackPop, Height
  <2> QED BY Zenon, <1>0, <1>1, <1>3, <1>4, <2>1
<1>10. CASE RollbackPush
  <2>1. /\ job.old # <<>> /\ do_check(hf, Head(job.old))
        /\ db' = Added(db, hf, Head(job.old)) /\ hf' = add(hf, Head(job.old), Height(db))
        /\ job' = [job EXCEPT !.old = Tail(@)] /\ job.at = "restore"
    BY <1>10 DEF RollbackPush
  <2>2. Head(job.old) \in Block /\ Tail(job.old) \in Seq(Block)
    <3>1. job.old \in Seq(Block)
      BY <1>1 DEF JobType
    <3> HIDE DEF Block
    <3> QED BY <2>1, <3>1
  <2>3. job' \in JobType /\ job'.at = "restore" /\ job'.split = job.split
    BY Zenon, <1>1, <2>1, <2>2 DEF JobType
  <2>4. job'.at \in Switching
    BY <2>3 DEF Switching
  <2> QED BY Zenon, <1>3, <1>5, <2>1, <2>2, <2>3, <2>4
<1>11. CASE RollbackPanic
  <2>1. db' = db /\ hf' = hf /\ job' = NoJob("idle")
    BY <1>11 DEF RollbackPanic
  <2>2. job' \in JobType /\ job'.at = "idle"
    BY <2>1 DEF NoJob, JobType, Stage
  <2> QED BY Zenon, <1>1, <1>3, <2>1, <2>2
<1> QED BY <1>6, <1>7, <1>8, <1>9, <1>10, <1>11

(* The scans of reorganize_from_block_height at the fork point.            *)
LEMMA ScanInv ==
  ASSUME SInv, OnSchedule, SwitchDone \/ RollbackScan \/ RollbackDone
  PROVE  SInv'
<1>0. /\ job.at \in Switching /\ heights' = heights /\ kept' = kept /\ db' = db
      /\ hf' = reorganize(hf, db, job.split - 1)
  BY DEF SwitchDone, RollbackScan, RollbackDone, Switching
<1>1. /\ TableOk(heights) /\ heights # <<>> /\ job \in JobType
      /\ CurrentDb(heights, db) /\ CurrentDb(heights, kept)
      /\ "index" \in DOMAIN hf /\ N = Len(heights)
      /\ IsMax(hf.index, Due(heights, N, Len(db.chain)))
      /\ job.split \in 1 .. Len(db.chain)
  BY Zenon, <1>0, Working
<1>2. Len(db.chain) \in Nat /\ Agrees(heights, db, N)
  BY <1>1 DEF CurrentDb, Agrees, DbT
<1>3. job.split - 1 \in 0 .. Len(db.chain) - 1 /\ (job.split - 1) + 1 = job.split
  BY <1>1, <1>2
<1>4. hf.index \in 1 .. N
  BY <1>1 DEF IsMax, Due
<1>5. /\ IsMax(hf'.index, Due(heights, N, (job.split - 1) + 1))
      /\ "index" \in DOMAIN hf'
  BY Zenon, <1>0, <1>1, <1>2, <1>3, <1>4, ReorganizeTop
<1>6. IsMax(hf'.index, Due(heights, N, job.split))
  BY Zenon, <1>3, <1>5
<1>7. CASE SwitchDone \/ RollbackDone
  <2>1. job' \in JobType /\ job'.at = "replay" /\ job'.next = job.split
    <3>1. CASE SwitchDone
      <4>1. job' = [job EXCEPT !.at = "replay", !.old = <<>>, !.next = job.split]
        BY <3>1 DEF SwitchDone
      <4>2. job.split \in Nat /\ <<>> \in Seq(Block)
        BY <1>1 DEF JobType
      <4>3. job' \in JobType
        BY Zenon, <1>1, <4>1, <4>2 DEF JobType, Stage
      <4> QED BY <1>1, <4>1, <4>3 DEF JobType
    <3>2. CASE RollbackDone
      <4>1. job' = [job EXCEPT !.at = "replay", !.next = job.split]
        BY <3>2 DEF RollbackDone
      <4> QED BY Zenon, <1>1, <4>1 DEF JobType, Stage
    <3> QED BY <1>7, <3>1, <3>2
  <2> QED BY <1>0, <1>1, <1>5, <1>6, <2>1 DEF SInv, Switching
<1>8. CASE RollbackScan
  <2>1. job' \in JobType /\ job'.at = "restore" /\ job'.split = job.split
        /\ Len(db.chain) = job.split
    BY <1>1, <1>8 DEF RollbackScan, JobType, Stage, Height
  <2> QED BY <1>0, <1>1, <1>5, <1>6, <2>1 DEF SInv, Switching
<1> QED BY <1>7, <1>8

(* Adding the blocks above the fork point again: each passes the check and *)
(* its stored version is written a second time.                            *)
LEMMA ReplayInv ==
  ASSUME SInv, OnSchedule, Replay \/ ReplayDone
  PROVE  SInv'
<1>4. job.at = "replay" /\ heights' = heights /\ kept' = kept
  BY DEF Replay, ReplayDone
<1>0. /\ TableOk(heights) /\ heights # <<>> /\ job \in JobType /\ job.at = "replay"
      /\ CurrentDb(heights, db) /\ CurrentDb(heights, kept)
      /\ "index" \in DOMAIN hf /\ N = Len(heights) /\ job.next \in 1 .. Len(db.chain)
      /\ IsMax(hf.index, Due(heights, N, job.next))
      /\ heights' = heights /\ kept' = kept
  BY <1>4 DEF SInv, N, Switching
<1>1. Len(db.chain) \in Nat /\ Agrees(heights, db, N) /\ DbT(db) /\ N \in Nat
  BY <1>0, EntryType DEF CurrentDb, Agrees, DbT
<1>2. CASE Replay
  <2> DEFINE b == db.chain[job.next + 1]
             T == db.hf_versions
             v == heights[hf.index].version
  <2>1. /\ job.next < Len(db.chain) /\ hf' = add(hf, b, job.next)
        /\ db' = [db EXCEPT !.hf_versions = add_version(hf, @, b, job.next)]
        /\ job' = [job EXCEPT !.next = @ + 1]
    BY <1>2 DEF Replay, Height
  <2>2. /\ job.next \in Nat /\ job.next + 1 \in 1 .. Len(db.chain)
        /\ (job.next + 1) - 1 = job.next
    BY <1>0, <1>1, <2>1
  <2>3. AgreesAt(heights, b, T[job.next + 1], N, job.next)
    BY Zenon, <1>1, <2>2 DEF Agrees
  <2> HIDE DEF b
  <2>4. PICK n : /\ IsMax(n, Due(heights, N, job.next))
                 /\ b.major = heights[n].version
                 /\ get_block_vote(b) >= heights[n].version
                 /\ T[job.next + 1] = heights[n].version
    BY <2>3 DEF AgreesAt
  <2>5. n = hf.index
    <3>1. Due(heights, N, job.next) \subseteq Nat
      BY DEF Due
    <3> QED BY <1>0, <2>4, <3>1, MaxUnique
  <2>6. do_check(hf, b)
    BY <2>4, <2>5 DEF do_check
  <2>7. /\ IsMax(hf'.index, Due(heights, N, job.next + 1)) /\ "index" \in DOMAIN hf'
    BY Zenon, <1>0, <2>1, <2>2, <2>6, AddTop
  <2>8. add_version(hf, T, b, job.next) = T
    <3>1. T \in Seq(Nat) /\ job.next < Len(T) /\ v = T[job.next + 1]
      BY <1>1, <2>1, <2>2, <2>4, <2>5 DEF DbT
    <3>2. add_version(hf, T, b, job.next) = set_hard_fork_version(T, job.next, v)
      BY Zenon, <2>6 DEF add_version
    <3> HIDE DEF T, v
    <3>3. set_hard_fork_version(T, job.next, v) = [T EXCEPT ![job.next + 1] = v]
      BY <3>1 DEF set_hard_fork_version
    <3>4. [T EXCEPT ![job.next + 1] = v] = T
      BY <3>1
    <3> QED BY <3>2, <3>3, <3>4
  <2>9. db' = db
    <3>1. db' = [db EXCEPT !.hf_versions = T]
      BY <2>1, <2>8
    <3>2. db \in [chain : Seq(Block), hf_versions : Seq(Nat)]
      BY <1>1 DEF DbT
    <3> QED BY <3>1, <3>2
  <2>10. job' \in JobType /\ job'.at = "replay" /\ job'.next = job.next + 1
    BY <1>0, <2>1, <2>2 DEF JobType
  <2> QED BY <1>0, <2>2, <2>7, <2>9, <2>10 DEF SInv, Switching
<1>3. CASE ReplayDone
  <2>1. db' = db /\ hf' = hf /\ job' = NoJob("idle") /\ job.next = Len(db.chain)
    BY <1>3 DEF ReplayDone, Height
  <2>2. job' \in JobType /\ job'.at = "idle"
    BY <2>1 DEF NoJob, JobType, Stage
  <2> QED BY <1>0, <2>1, <2>2 DEF SInv, Switching
<1> QED BY <1>2, <1>3

(* The daemon starts with no table and an empty database.                  *)
LEMMA InitHolds ==
  ASSUME Init
  PROVE  HInv
<1>1. /\ heights = <<>> /\ db = EmptyDb /\ hf = Cleared /\ job = NoJob("setup")
      /\ kept = db /\ aborted = FALSE
  BY DEF Init, EmptyDb
<1>2. job \in JobType /\ job.at = "setup" /\ "index" \in DOMAIN hf
  BY <1>1 DEF NoJob, JobType, Stage, Cleared
<1>3. heights \in Seq(ForkType) /\ TableOk(heights)
  BY <1>1 DEF TableOk, ForkType
<1>4. aborted \in BOOLEAN
  BY Zenon, <1>1
<1> QED BY <1>1, <1>2, <1>3, <1>4 DEF HInv, SInv, Switching

(* Every step keeps the invariant; an aborted batch ends OnSchedule.       *)
LEMMA NextHolds ==
  ASSUME HInv, [Next]_vars
  PROVE  HInv'
<1>1. /\ heights' \in Seq(ForkType) /\ aborted' \in BOOLEAN
      /\ OnSchedule' => OnSchedule
  BY ScheduleStays DEF HInv
<1>2. ASSUME OnSchedule' PROVE SInv'
  <2>1. SInv /\ OnSchedule
    BY <1>1, <1>2 DEF HInv
  <2>2. CASE vars' = vars
    <3>1. heights' = heights /\ db' = db /\ hf' = hf /\ job' = job /\ kept' = kept
      BY <2>2 DEF vars
    <3> QED BY Zenon, <2>1, <3>1 DEF SInv
  <2>3. CASE BatchAbort
    BY <1>2, <2>3 DEF BatchAbort, OnSchedule
  <2> QED BY Zenon, <2>1, <2>2, <2>3, SetupInv, InitRestoreInv, TrimInv, IdleInv,
             RestartInv, SwitchInv, ScanInv, ReplayInv DEF Next
<1> QED BY <1>1, <1>2 DEF HInv

(* The inductive invariant of the hard fork object holds for every table,  *)
(* window size and chain.                                                  *)
THEOREM ForkInvariance == Spec => []HInv
<1>1. Init => HInv
  BY InitHolds
<1>2. HInv /\ [Next]_vars => HInv'
  BY NextHolds
<1> QED BY <1>1, <1>2, PTL DEF Spec

(* When forks happen on schedule, the version HardFork::check demands of   *)
(* the next block is the one get_ideal_version gives its height.           *)
THEOREM CurrentAlwaysIdeal == Spec => []CurrentIsIdeal
<1>1. HInv => CurrentIsIdeal
  <2> SUFFICES ASSUME HInv, job.at = "idle", OnSchedule
               PROVE  get_current_version(hf) = get_ideal_version(Height(db))
    BY DEF CurrentIsIdeal
  <2>1. /\ TableOk(heights) /\ heights # <<>>
        /\ IsMax(hf.index, Due(heights, N, Len(db.chain)))
    BY DEF HInv, SInv, N
  <2>2. get_ideal_version(Len(db.chain)) = heights[hf.index].version
    BY Zenon, <2>1, IdealTop
  <2> QED BY Zenon, <2>2 DEF get_current_version, Height
<1> QED BY <1>1, ForkInvariance, PTL

(* When forks happen on schedule, the blocks of the main chain and the     *)
(* hf_versions table have the versions the table of forks gives.           *)
THEOREM StoredAlwaysIdeal == Spec => []StoredIsIdeal
<1>1. HInv => StoredIsIdeal
  <2> SUFFICES ASSUME HInv, job.at = "idle", OnSchedule,
                      NEW h \in 0 .. Height(db) - 1
               PROVE  /\ db.chain[h + 1].major = get_ideal_version(h)
                      /\ db.hf_versions[h + 1] = get_ideal_version(h)
    BY DEF StoredIsIdeal
  <2>1. TableOk(heights) /\ heights # <<>> /\ Agrees(heights, db, N)
    BY DEF HInv, SInv, N, CurrentDb
  <2>2. h + 1 \in 1 .. Len(db.chain) /\ (h + 1) - 1 = h
    <3>1. Len(db.chain) \in Nat
      BY <2>1 DEF Agrees, DbT
    <3> QED BY <3>1 DEF Height
  <2>3. AgreesAt(heights, db.chain[h + 1], db.hf_versions[h + 1], N, h)
    BY Zenon, <2>1, <2>2 DEF Agrees
  <2>4. PICK n : /\ IsMax(n, Due(heights, N, h))
                 /\ db.chain[h + 1].major = heights[n].version
                 /\ db.hf_versions[h + 1] = heights[n].version
    BY <2>3 DEF AgreesAt
  <2>5. get_ideal_version(h) = heights[n].version
    BY Zenon, <2>1, <2>4, IdealTop
  <2> QED BY Zenon, <2>4, <2>5
<1> QED BY <1>1, ForkInvariance, PTL

-----------------------------------------------------------------------------
(* How often a version is in a window.                                     *)
Count(w, v) == Cardinality({i \in DOMAIN w : w[i] = v})

(* A hard fork object whose counters are those of its window.              *)
Counted(f) ==
  /\ f \in [versions : Seq(Version), last_versions : [Version -> Nat],
            index : Nat \ {0}]
  /\ Len(f.versions) <= window_size
  /\ \A v \in Version : f.last_versions[v] = Count(f.versions, v)

(* ... that is in use.                                                     *)
InUse(f) == Counted(f) /\ f.versions # <<>> /\ f.index \in 1 .. N

DbRecord(d) ==
  /\ d \in [chain : Seq(Block), hf_versions : Seq(Version)]
  /\ Len(d.chain) <= Len(d.hf_versions) /\ Len(d.chain) <= MaxHeight

-----------------------------------------------------------------------------
(* The places of a version in a stretch of a window.                       *)
Places(w, a, b, v) == {i \in a .. b : w[i] = v}

(* They are finitely many.                                                 *)
LEMMA PlacesFinite ==
  ASSUME NEW w, NEW n \in Nat, NEW v
  PROVE  LET P == Places(w, 1, n, v)
         IN  IsFiniteSet(P) /\ Cardinality(P) \in Nat /\ Cardinality(P) <= n
<1> DEFINE P == Places(w, 1, n, v)
<1>1. IsFiniteSet(1 .. n) /\ Cardinality(1 .. n) <= n
  BY FS_Interval
<1>2. P \in SUBSET (1 .. n)
  BY DEF Places
<1>3. IsFiniteSet(P) /\ Cardinality(P) <= Cardinality(1 .. n)
  BY Zenon, <1>1, <1>2, FS_Subset
<1>4. Cardinality(P) \in Nat /\ Cardinality(1 .. n) \in Nat
  BY Zenon, <1>1, <1>3, FS_CardinalityType
<1> HIDE DEF P
<1>5. Cardinality(P) <= n
  BY <1>1, <1>3, <1>4
<1> QED BY <1>3, <1>4, <1>5 DEF P

(* A window counts a version at most as often as it has places.            *)
LEMMA CountBound ==
  ASSUME NEW w \in Seq(Version), NEW v
  PROVE  Count(w, v) \in Nat /\ Count(w, v) <= Len(w)
<1>1. DOMAIN w = 1 .. Len(w) /\ Len(w) \in Nat
  OBVIOUS
<1> DEFINE n == Len(w)
<1>2. Count(w, v) = Cardinality(Places(w, 1, n, v))
  BY Zenon, <1>1 DEF Count, Places
<1>3. n \in Nat
  BY Zenon, <1>1
<1> HIDE DEF n
<1>4. Cardinality(Places(w, 1, n, v)) \in Nat /\ Cardinality(Places(w, 1, n, v)) <= n
  BY Zenon, <1>3, PlacesFinite
<1> QED BY Zenon, <1>2, <1>4 DEF n

(* A vote enters at the young end.                                         *)
LEMMA CountAppend ==
  ASSUME NEW w \in Seq(Version), NEW x \in Version, NEW v
  PROVE  Count(Append(w, x), v) = Count(w, v) + (IF x = v THEN 1 ELSE 0)
<1> DEFINE n == Len(w)
           u == Append(w, x)
           P == Places(w, 1, n, v)
           Q == Places(u, 1, n + 1, v)
<1>1. /\ n \in Nat /\ DOMAIN w = 1 .. n /\ DOMAIN u = 1 .. n + 1 /\ u[n + 1] = x
      /\ \A i \in 1 .. n : u[i] = w[i]
  OBVIOUS
<1>2. IsFiniteSet(P) /\ Cardinality(P) \in Nat
  BY Zenon, <1>1, PlacesFinite
<1> HIDE DEF n, u
<1>3. n + 1 \notin P
  BY <1>1 DEF Places
<1>4. Cardinality(P \cup {n + 1}) = Cardinality(P) + 1
  BY Zenon, <1>2, <1>3, FS_AddElement
<1>5. Q = IF x = v THEN P \cup {n + 1} ELSE P
  <2>1. \A i : i \in 1 .. n + 1 <=> i \in 1 .. n \/ i = n + 1
    BY <1>1
  <2> QED BY <1>1, <2>1 DEF Places
<1>6. Count(u, v) = Cardinality(Q) /\ Count(w, v) = Cardinality(P)
  BY Zenon, <1>1 DEF Count, Places
<1> HIDE DEF P, Q
<1> QED BY <1>2, <1>4, <1>5, <1>6 DEF u

(* Moving every place by one changes no count.                             *)
LEMMA ShiftCount ==
  ASSUME NEW n \in Nat, NEW w, NEW u, \A i \in 1 .. n : u[i + 1] = w[i], NEW v
  PROVE  /\ Cardinality(Places(u, 2, n + 1, v)) = Cardinality(Places(w, 1, n, v))
         /\ IsFiniteSet(Places(u, 2, n + 1, v))
<1> DEFINE P == Places(w, 1, n, v)
           Q == Places(u, 2, n + 1, v)
           f == [i \in P |-> i + 1]
<1>1. IsFiniteSet(P)
  BY Zenon, PlacesFinite
<1>2. f \in [P -> Q]
  <2>1. \A i \in P : i + 1 \in 2 .. n + 1 /\ u[i + 1] = v
    BY DEF Places
  <2> QED BY <2>1 DEF Places
<1>3. \A a, b \in P : f[a] = f[b] => a = b
  BY DEF Places
<1>4. \A j \in Q : \E i \in P : f[i] = j
  <2> SUFFICES ASSUME NEW j \in Q PROVE \E i \in P : f[i] = j
    OBVIOUS
  <2>1. j - 1 \in 1 .. n /\ (j - 1) + 1 = j /\ u[j] = v
    BY DEF Places
  <2>2. u[(j - 1) + 1] = w[j - 1]
    BY <2>1
  <2>3. j - 1 \in P
    BY <2>1, <2>2 DEF Places
  <2>4. f[j - 1] = j
    BY <2>1, <2>3 DEF Places
  <2> QED BY <2>3, <2>4
<1> HIDE DEF P, Q, f
<1>5. f \in Bijection(P, Q)
  BY <1>2, <1>3, <1>4 DEF Bijection, Injection, Surjection, IsInjective
<1>6. ExistsBijection(P, Q)
  BY <1>5 DEF ExistsBijection
<1> QED BY Zenon, <1>1, <1>6, FS_Bijection DEF P, Q

(* A version enters at the old end.                                        *)
LEMMA CountCons ==
  ASSUME NEW w \in Seq(Version), NEW x \in Version, NEW v
  PROVE  Count(<<x>> \o w, v) = Count(w, v) + (IF x = v THEN 1 ELSE 0)
<1> DEFINE n == Len(w)
           u == <<x>> \o w
           P == Places(w, 1, n, v)
           Q == Places(u, 2, n + 1, v)
           R == Places(u, 1, n + 1, v)
<1>1. /\ n \in Nat /\ DOMAIN w = 1 .. n /\ DOMAIN u = 1 .. n + 1 /\ u[1] = x
      /\ \A i \in 1 .. n : u[i + 1] = w[i]
  OBVIOUS
<1> HIDE DEF n, u
<1>2. Cardinality(Q) = Cardinality(P) /\ IsFiniteSet(Q)
  <2>1. n \in Nat /\ \A i \in 1 .. n : u[i + 1] = w[i]
    BY <1>1
  <2> QED BY Zenon, <2>1, ShiftCount
<1>3. Cardinality(P) \in Nat
  BY Zenon, <1>1, PlacesFinite
<1>4. 1 \notin Q
  BY <1>1 DEF Places
<1>5. Cardinality(Q \cup {1}) = Cardinality(Q) + 1
  BY Zenon, <1>2, <1>4, FS_AddElement
<1>6. R = IF x = v THEN Q \cup {1} ELSE Q
  <2>1. \A i : i \in 1 .. n + 1 <=> i \in 2 .. n + 1 \/ i = 1
    BY <1>1
  <2> QED BY <1>1, <2>1 DEF Places
<1>7. Count(u, v) = Cardinality(R) /\ Count(w, v) = Cardinality(P)
  BY Zenon, <1>1 DEF Count, Places
<1> HIDE DEF P, Q, R
<1> QED BY <1>2, <1>3, <1>5, <1>6, <1>7 DEF u

(* The oldest vote leaves.                                                 *)
LEMMA CountTail ==
  ASSUME NEW w \in Seq(Version), w # <<>>, NEW v
  PROVE  Count(Tail(w), v) = Count(w, v) - (IF Head(w) = v THEN 1 ELSE 0)
<1>1. w = <<Head(w)>> \o Tail(w) /\ Head(w) \in Version /\ Tail(w) \in Seq(Version)
  OBVIOUS
<1> DEFINE h == Head(w)
           t == Tail(w)
<1> HIDE DEF h, t
<1>2. Count(<<h>> \o t, v) = Count(t, v) + (IF h = v THEN 1 ELSE 0)
  BY ZenonT(30), <1>1, CountCons DEF h, t
<1>3. Count(t, v) \in Nat
  BY Zenon, <1>1, CountBound DEF t
<1>4. <<h>> \o t = w
  BY Zenon, <1>1 DEF h, t
<1> DEFINE a == Count(t, v)
           b == Count(w, v)
<1>6. b = a + (IF h = v THEN 1 ELSE 0) /\ a \in Nat
  BY Zenon, <1>2, <1>3, <1>4
<1> HIDE DEF a, b
<1>7. a = b - (IF h = v THEN 1 ELSE 0)
  BY <1>6
<1>5. Count(t, v) = Count(w, v) - (IF h = v THEN 1 ELSE 0)
  BY Zenon, <1>7 DEF a, b
<1> QED BY <1>5 DEF h, t

(* The youngest vote leaves.                                               *)
LEMMA CountFront ==
  ASSUME NEW w \in Seq(Version), w # <<>>, NEW v
  PROVE  LET u == SubSeq(w, 1, Len(w) - 1)
         IN  /\ u \in Seq(Version) /\ Len(u) = Len(w) - 1
             /\ Count(u, v) = Count(w, v) - (IF Last(w) = v THEN 1 ELSE 0)
<1> DEFINE u == SubSeq(w, 1, Len(w) - 1)
           x == Last(w)
<1>0. Len(w) \in Nat \ {0} /\ Len(w) - 1 \in Nat
  OBVIOUS
<1>1. u \in Seq(Version) /\ x \in Version /\ Len(w) \in Nat /\ Len(u) = Len(w) - 1
  <2>1. ASSUME NEW m \in Nat, m < Len(w)
        PROVE  Len(SubSeq(w, 1, m)) = m
    OBVIOUS
  <2>2. Len(w) - 1 < Len(w)
    BY <1>0
  <2>3. x \in Version
    BY <1>0 DEF Last
  <2>4. u \in Seq(Version)
    OBVIOUS
  <2> QED BY Zenon, <1>0, <2>1, <2>2, <2>3, <2>4
<1>2. w = Append(u, x)
  BY DEF Last
<1> HIDE DEF u, x
<1>3. Count(Append(u, x), v) = Count(u, v) + (IF x = v THEN 1 ELSE 0)
  BY Zenon, <1>1, CountAppend
<1>4. Count(u, v) \in Nat
  BY <1>1, CountBound
<1>5. Count(u, v) = Count(w, v) - (IF x = v THEN 1 ELSE 0)
  BY <1>2, <1>3, <1>4
<1> QED BY <1>1, <1>5 DEF u, x
-----------------------------------------------------------------------------
(* The versions votes and table entries stand for.                         *)
EntryVersions ==
  heights \in Seq([version : Version, height : Nat, threshold : Nat, time : Nat])

(* A version of the table.                                                 *)
LEMMA TableVersion ==
  ASSUME EntryVersions, NEW n \in 1 .. N
  PROVE  heights[n].version \in Version
<1> DEFINE E == [version : Version, height : Nat, threshold : Nat, time : Nat]
<1>1. heights[n] \in E
  <2> HIDE DEF E
  <2>1. heights \in Seq(E)
    BY DEF EntryVersions, E
  <2> QED BY <2>1 DEF N
<1> QED BY <1>1

(* What a block's vote counts for.                                         *)
LEMMA VoteVersion ==
  ASSUME EntryVersions, NEW b \in Block
  PROVE  get_effective_version(get_block_vote(b)) \in Version
<1>1. get_block_vote(b) \in Version
  BY DEF get_block_vote, Block, Version, original_version
<1>2. ASSUME heights # <<>> PROVE Last(heights).version \in Version
  <2>1. N \in 1 .. N
    BY <1>2 DEF EntryVersions, N
  <2> QED BY <2>1, TableVersion DEF Last, N
<1> QED BY <1>1, <1>2 DEF get_effective_version

(* The window slides and the vote enters.                                  *)
LEMMA VotedCounted ==
  ASSUME NEW f, Counted(f), NEW x \in Version
  PROVE  LET g == Voted(f, x)
         IN  Counted(g) /\ g.versions # <<>> /\ g.index = f.index
<1> DEFINE full == Len(f.versions) >= window_size
           old == Head(f.versions)
           kv == IF full THEN Tail(f.versions) ELSE f.versions
           kl == IF full THEN [f.last_versions EXCEPT ![old] = @ - 1]
                         ELSE f.last_versions
           nv == Append(kv, x)
           nl == [kl EXCEPT ![x] = @ + 1]
           g == Voted(f, x)
<1>1. /\ f \in [versions : Seq(Version), last_versions : [Version -> Nat],
                index : Nat \ {0}]
      /\ f.versions \in Seq(Version) /\ f.last_versions \in [Version -> Nat]
      /\ f.index \in Nat \ {0}
      /\ Len(f.versions) \in Nat /\ Len(f.versions) <= window_size
      /\ \A v \in Version : f.last_versions[v] = Count(f.versions, v)
      /\ window_size \in Nat \ {0}
  BY ForkAssumption DEF Counted
<1>2. /\ kv \in Seq(Version) /\ Len(kv) + 1 <= window_size
      /\ kl \in [Version -> Int] /\ \A v \in Version : kl[v] = Count(kv, v)
  <2>1. CASE ~full
    <3>1. kv = f.versions /\ kl = f.last_versions
      BY <2>1
    <3> QED BY <1>1, <2>1, <3>1
  <2>2. CASE full
    <3>1. f.versions # <<>>
      BY <1>1, <2>2
    <3>2. kv = Tail(f.versions) /\ kl = [f.last_versions EXCEPT ![old] = @ - 1]
      BY <2>2
    <3>3. kv \in Seq(Version) /\ Len(kv) + 1 <= window_size /\ old \in Version
      BY <1>1, <3>1, <3>2
    <3>4. \A v \in Version :
            Count(kv, v) = Count(f.versions, v) - (IF old = v THEN 1 ELSE 0)
      BY Zenon, <1>1, <3>1, <3>2, CountTail
    <3> HIDE DEF kv, kl, old
    <3>5. \A v \in Version : kl[v] = f.last_versions[v] - (IF old = v THEN 1 ELSE 0)
      BY <1>1, <3>2, <3>3
    <3>6. kl \in [Version -> Int]
      BY <1>1, <3>2, <3>3
    <3> QED BY Zenon, <1>1, <3>3, <3>4, <3>5, <3>6
  <2> QED BY <2>1, <2>2
<1>3. g = [f EXCEPT !.versions = nv, !.last_versions = nl]
  BY Zenon DEF Voted
<1> HIDE DEF kv, kl, full, old
<1>4. nv \in Seq(Version) /\ Len(nv) <= window_size /\ nv # <<>>
  <2>1. kv \in Seq(Version)
    BY <1>2
  <2>2. nv \in Seq(Version) /\ Len(nv) = Len(kv) + 1 /\ nv # <<>>
    BY Zenon, <2>1, AppendProperties
  <2> HIDE DEF nv
  <2> QED BY <1>2, <2>1, <2>2
<1>5. \A v \in Version : Count(nv, v) = Count(kv, v) + (IF x = v THEN 1 ELSE 0)
  BY ZenonT(30), <1>2, CountAppend
<1>6. \A v \in Version : Count(nv, v) \in Nat
  BY Zenon, <1>4, CountBound
<1>7. /\ nl \in [Version -> Int]
      /\ \A v \in Version : nl[v] = kl[v] + (IF x = v THEN 1 ELSE 0)
  BY <1>2
<1> HIDE DEF nv, nl
<1>8. \A v \in Version : nl[v] = Count(nv, v) /\ nl[v] \in Nat
  BY SMTT(20), <1>2, <1>5, <1>6, <1>7
<1>9. nl \in [Version -> Nat]
  BY <1>7, <1>8
<1>10. g.versions = nv /\ g.last_versions = nl /\ g.index = f.index
  BY <1>1, <1>3
<1>11. g \in [versions : Seq(Version), last_versions : [Version -> Nat],
              index : Nat \ {0}]
  BY Zenon, <1>1, <1>3, <1>4, <1>9
<1> HIDE DEF g
<1> QED BY <1>4, <1>8, <1>10, <1>11 DEF Counted, g

(* The object with another fork.                                           *)
LEMMA OtherFork ==
  ASSUME NEW f, Counted(f), NEW n \in Nat \ {0}
  PROVE  LET g == [f EXCEPT !.index = n]
         IN  Counted(g) /\ g.versions = f.versions /\ g.index = n
<1> DEFINE g == [f EXCEPT !.index = n]
<1>1. /\ g \in [versions : Seq(Version), last_versions : [Version -> Nat],
                index : Nat \ {0}]
      /\ g.versions = f.versions /\ g.last_versions = f.last_versions /\ g.index = n
  BY Zenon DEF Counted
<1> HIDE DEF g
<1> QED BY Zenon, <1>1 DEF Counted, g

(* A vote keeps the fork within the table.                                 *)
LEMMA RaisedInUse ==
  ASSUME TableOk(heights), NEW f, InUse(f), NEW h
  PROVE  InUse(Raised(f, h))
<1> DEFINE Enough == {n \in 1 .. N : /\ h >= heights[n].height
                                     /\ accumulated_votes(f, n) >= Threshold(n)}
           voted == get_voted_fork_index(f, h)
<1>1. N \in Nat
  BY EntryType
<1>2. voted = IF Enough = {} THEN f.index ELSE Max(Enough)
  BY Zenon DEF get_voted_fork_index, N
<1>3. voted \in 1 .. N
  <2>1. ASSUME Enough # {} PROVE Max(Enough) \in 1 .. N
    <3>1. Enough \subseteq 1 .. N
      OBVIOUS
    <3>2. IsMax(Max(Enough), Enough)
      BY Zenon, <1>1, <2>1, <3>1, MaxOf
    <3> QED BY Zenon, <3>1, <3>2 DEF IsMax
  <2>2. f.index \in 1 .. N
    BY DEF InUse
  <2> QED BY Zenon, <1>2, <2>1, <2>2
<1>4. Raised(f, h) = IF voted > f.index THEN [f EXCEPT !.index = voted] ELSE f
  BY Zenon DEF Raised
<1> HIDE DEF voted
<1>5. voted \in Nat \ {0}
  BY <1>1, <1>3
<1>6. InUse([f EXCEPT !.index = voted])
  <2> DEFINE g == [f EXCEPT !.index = voted]
  <2>1. Counted(g) /\ g.versions = f.versions /\ g.index = voted
    BY Zenon, <1>5, OtherFork DEF InUse
  <2> QED BY Zenon, <1>3, <2>1 DEF InUse
<1> QED BY Zenon, <1>4, <1>6

(* HardFork::add, whether or not the check lets the block through.         *)
LEMMA AddInUse ==
  ASSUME EntryVersions, TableOk(heights), NEW f, Counted(f), f.index \in 1 .. N,
         NEW b \in Block, f.versions # <<>> \/ do_check(f, b), NEW h
  PROVE  InUse(add(f, b, h))
<1> DEFINE x == get_effective_version(get_block_vote(b))
           g == Voted(f, x)
<1>1. x \in Version
  BY VoteVersion
<1> HIDE DEF x
<1>2. Counted(g) /\ g.versions # <<>> /\ g.index = f.index
  BY Zenon, <1>1, VotedCounted
<1> HIDE DEF g
<1>3. InUse(g)
  BY Zenon, <1>2 DEF InUse
<1>4. InUse(Raised(g, h + 1))
  BY Zenon, <1>3, RaisedInUse
<1>5. add(f, b, h) = IF ~do_check(f, b) THEN f ELSE Raised(g, h + 1)
  BY Zenon DEF add, g, x
<1> QED BY Zenon, <1>4, <1>5 DEF InUse
(* The object after a scan that ends with fork n.                          *)
Rescanned(f, chain, a, z, n) == [Scanned(f, chain, a, z) EXCEPT !.index = n]

(* The votes of a stretch of the chain no longer than the window.          *)
LEMMA ScannedCounted ==
  ASSUME EntryVersions, NEW f, Counted(f), NEW chain \in Seq(Block),
         NEW a \in Nat, NEW z \in Nat, a <= z, z < Len(chain), z - a < window_size,
         NEW n \in 1 .. N
  PROVE  LET g == Rescanned(f, chain, a, z, n)
         IN  Counted(g) /\ g.versions # <<>> /\ g.index = n
<1> DEFINE m == z - a + 1
           w == [i \in 1 .. m |-> get_effective_version(get_block_vote(chain[a + i]))]
           l == [v \in Version |-> Cardinality({i \in DOMAIN w : w[i] = v})]
           e == [f EXCEPT !.versions = w, !.last_versions = l]
           g == [e EXCEPT !.index = n]
<1>0. m \in Nat \ {0} /\ m <= window_size /\ window_size \in Nat /\ n \in Nat \ {0}
  BY ForkAssumption
<1>1. Scanned(f, chain, a, z) = e
  BY Zenon DEF Scanned
<1>2. \A i \in 1 .. m : get_effective_version(get_block_vote(chain[a + i])) \in Version
  <2> SUFFICES ASSUME NEW i \in 1 .. m
               PROVE  get_effective_version(get_block_vote(chain[a + i])) \in Version
    BY Zenon
  <2>1. a + i \in 1 .. Len(chain)
    OBVIOUS
  <2>2. chain[a + i] \in Block
    <3> HIDE DEF w, l, e, g
    <3> QED BY <2>1
  <2> QED BY Zenon, <2>2, VoteVersion
<1> HIDE DEF m
<1>3. w \in Seq(Version) /\ Len(w) = m /\ w # <<>>
  <2>1. w \in [1 .. m -> Version]
    BY Zenon, <1>2
  <2> HIDE DEF w
  <2> QED BY <1>0, <2>1
<1>4. \A v \in Version : l[v] = Count(w, v) /\ l[v] \in Nat
  <2>1. \A v \in Version : l[v] = Count(w, v)
    BY Zenon DEF Count
  <2>2. \A v \in Version : Count(w, v) \in Nat
    BY Zenon, <1>3, CountBound
  <2> QED BY Zenon, <2>1, <2>2
<1>5. l \in [Version -> Nat]
  <2>1. l = [v \in Version |-> l[v]]
    BY Zenon
  <2> HIDE DEF l
  <2> QED BY Zenon, <1>4, <2>1
<1> HIDE DEF w, l
<1>6. /\ e \in [versions : Seq(Version), last_versions : [Version -> Nat],
                index : Nat \ {0}]
      /\ e.versions = w /\ e.last_versions = l
  BY Zenon, <1>3, <1>5 DEF Counted
<1>7. Counted(e)
  <2> HIDE DEF e
  <2>1. m <= window_size
    BY <1>0
  <2> QED BY Zenon, <1>3, <1>4, <1>6, <2>1 DEF Counted
<1> HIDE DEF e
<1>8. Counted(g) /\ g.versions = e.versions /\ g.index = n
  BY Zenon, <1>0, <1>7, OtherFork
<1> QED BY Zenon, <1>1, <1>3, <1>6, <1>8 DEF Rescanned

(* The scan of reorganize_from_block_height.                               *)
LEMMA ReorganizeInUse ==
  ASSUME EntryVersions, TableOk(heights), NEW f, InUse(f), NEW d, DbRecord(d),
         NEW h \in 0 .. Len(d.chain) - 1
  PROVE  InUse(reorganize(f, d, h))
<1> DEFINE a == IF h >= window_size - 1 THEN h - (window_size - 1) ELSE 0
           start == IF h = 0 THEN original_version ELSE d.hf_versions[h + 1]
           Stop == {n \in 1 .. f.index : n = 1 \/ heights[n].version <= start}
           g == Rescanned(f, d.chain, a, h, Max(Stop))
<1>1. reorganize(f, d, h) = Raised(g, h + 1)
  BY Zenon DEF reorganize, Rescanned
<1>2. /\ d.chain \in Seq(Block) /\ Len(d.chain) \in Nat /\ h \in Nat /\ h < Len(d.chain)
      /\ N \in Nat /\ f.index \in 1 .. N /\ Counted(f)
  <2>1. d.chain \in Seq(Block) /\ Len(d.chain) \in Nat
    BY DEF DbRecord
  <2>2. N \in Nat /\ f.index \in 1 .. N /\ Counted(f)
    BY EntryType DEF InUse
  <2> QED BY <2>1, <2>2
<1>3. Max(Stop) \in 1 .. N
  <2>1. Stop \subseteq 1 .. N /\ 1 \in Stop
    <3> HIDE DEF start
    <3> QED BY <1>2
  <2> HIDE DEF Stop
  <2>2. IsMax(Max(Stop), Stop)
    BY Zenon, <1>2, <2>1, MaxOf
  <2> QED BY Zenon, <2>1, <2>2 DEF IsMax
<1>4. a \in Nat /\ a <= h /\ h - a < window_size
  BY <1>2, ForkAssumption
<1> HIDE DEF a, Stop
<1>5. Counted(g) /\ g.versions # <<>> /\ g.index = Max(Stop)
  <2> DEFINE n == Max(Stop)
  <2>1. n \in 1 .. N
    BY <1>3
  <2>2. h \in Nat /\ h < Len(d.chain) /\ d.chain \in Seq(Block) /\ Counted(f)
    BY <1>2
  <2> HIDE DEF n
  <2> QED BY Zenon, <1>4, <2>1, <2>2, ScannedCounted DEF n
<1> HIDE DEF g
<1>6. InUse(g)
  BY Zenon, <1>3, <1>5 DEF InUse
<1> QED BY Zenon, <1>1, <1>6, RaisedInUse

(* The object init() starts from counts nothing.                           *)
LEMMA ClearedCounted == Counted(Cleared) /\ Cleared.index = 1
<1> DEFINE z == [v \in Version |-> 0]
<1>1. /\ Cleared.versions = <<>> /\ Cleared.last_versions = z /\ Cleared.index = 1
      /\ Cleared \in [versions : Seq(Version), last_versions : [Version -> Nat],
                      index : Nat \ {0}]
  BY DEF Cleared
<1>2. ASSUME NEW v \in Version PROVE z[v] = Count(<<>>, v)
  <2>1. <<>> \in Seq(Version) /\ Len(<<>>) = 0
    OBVIOUS
  <2>2. Count(<<>>, v) \in Nat /\ Count(<<>>, v) <= 0
    BY Zenon, <2>1, CountBound
  <2> QED BY <2>2
<1>3. Len(<<>>) <= window_size
  BY ForkAssumption
<1> HIDE DEF z
<1> QED BY <1>1, <1>2, <1>3 DEF Counted

(* init() on a database with blocks.                                       *)
LEMMA InitInUse ==
  ASSUME EntryVersions, TableOk(heights), heights # <<>>, NEW d, DbRecord(d),
         Len(d.chain) > 0
  PROVE  InUse(init(d))
<1> DEFINE L == Len(d.chain)
           from == IF L > window_size THEN L - window_size ELSE 0
           Stop == {n \in 1 .. N : n = N \/ heights[n].version = d.hf_versions[L]}
           g == Rescanned(Cleared, d.chain, from, L - 1, Min(Stop))
<1>1. d.chain \in Seq(Block) /\ L \in Nat \ {0} /\ L - 1 \in Nat /\ N \in Nat \ {0}
  BY EntryType DEF DbRecord
<1>2. from \in Nat /\ from <= L - 1 /\ (L - 1) - from < window_size /\ ~(from >= L)
  <2> HIDE DEF L
  <2> QED BY <1>1, ForkAssumption
<1>3. init(d) = Raised(g, L)
  BY Zenon, <1>2 DEF init, rescan_from_block_height, Height, N, Rescanned
<1>4. Counted(Cleared)
  BY ClearedCounted
<1>5. Min(Stop) \in 1 .. N
  <2>1. Stop \subseteq Nat /\ N \in Stop /\ Stop \subseteq 1 .. N
    BY <1>1
  <2> HIDE DEF Stop
  <2>2. Min(Stop) \in Stop
    BY Zenon, <2>1, MinOf
  <2> QED BY Zenon, <2>1, <2>2
<1>6. L - 1 < Len(d.chain)
  BY <1>1
<1> HIDE DEF from, Stop
<1>7. Counted(g) /\ g.versions # <<>> /\ g.index = Min(Stop)
  <2> DEFINE z == L - 1
             m == Min(Stop)
  <2>1. /\ d.chain \in Seq(Block) /\ from \in Nat /\ z \in Nat /\ from <= z
        /\ z < Len(d.chain) /\ z - from < window_size /\ m \in 1 .. N
    BY Zenon, <1>1, <1>2, <1>5, <1>6
  <2> HIDE DEF z, m
  <2>2. /\ Counted(Rescanned(Cleared, d.chain, from, z, m))
        /\ Rescanned(Cleared, d.chain, from, z, m).versions # <<>>
        /\ Rescanned(Cleared, d.chain, from, z, m).index = m
    BY ZenonT(30), <1>4, <2>1, ScannedCounted
  <2> QED BY Zenon, <2>2 DEF z, m
<1> HIDE DEF g
<1>8. InUse(g)
  BY Zenon, <1>5, <1>7 DEF InUse
<1> QED BY Zenon, <1>3, <1>8, RaisedInUse

(* on_block_popped, on the database without the block.                     *)
LEMMA PoppedInUse ==
  ASSUME TableOk(heights), heights # <<>>, NEW f, InUse(f), NEW d, DbRecord(d),
         Len(d.chain) < Len(d.hf_versions)
  PROVE  InUse(on_block_popped(f, d))
<1> DEFINE w == f.versions
           back == Last(w)
           u == SubSeq(w, 1, Len(w) - 1)
           x == d.hf_versions[Len(d.chain) + 1]
           lv == [f.last_versions EXCEPT ![back] = @ - 1]
           nl == [lv EXCEPT ![x] = @ + 1]
           nv == <<x>> \o u
           at == Max(Due(heights, N, Len(d.chain)))
           g == on_block_popped(f, d)
<1>1. /\ w \in Seq(Version) /\ w # <<>> /\ Len(w) \in Nat /\ Len(w) <= window_size
      /\ f.last_versions \in [Version -> Nat] /\ window_size \in Nat
      /\ \A v \in Version : f.last_versions[v] = Count(w, v)
  BY ForkAssumption DEF InUse, Counted
<1>2. x \in Version
  <2>1. /\ d.hf_versions \in Seq(Version) /\ Len(d.chain) \in Nat
        /\ Len(d.hf_versions) \in Nat
    BY DEF DbRecord
  <2> QED BY <2>1
<1>3. g = [versions |-> nv, last_versions |-> nl, index |-> at]
  BY DEF on_block_popped, Height, Due, N
<1>4. at \in 1 .. N
  <2>1. N \in Nat \ {0}
    BY EntryType
  <2> QED BY Zenon, <2>1, DueMax
<1>5. back \in Version
  BY <1>1 DEF Last
<1>6. /\ u \in Seq(Version) /\ Len(u) = Len(w) - 1
      /\ \A v \in Version : Count(u, v) = Count(w, v) - (IF back = v THEN 1 ELSE 0)
  BY Zenon, <1>1, CountFront
<1> HIDE DEF x, u, back, w, at
<1>7. nv \in Seq(Version) /\ Len(nv) = Len(u) + 1 /\ nv # <<>>
  BY <1>2, <1>6
<1>8. \A v \in Version : Count(nv, v) = Count(u, v) + (IF x = v THEN 1 ELSE 0)
  <2>1. u \in Seq(Version)
    BY Zenon, <1>6
  <2>2. \A v \in Version : Count(<<x>> \o u, v) = Count(u, v) + (IF x = v THEN 1 ELSE 0)
    BY ONLY Zenon, <1>2, <2>1, CountCons
  <2> QED BY Zenon, <2>2
<1>9. \A v \in Version : Count(nv, v) \in Nat /\ Count(w, v) \in Nat /\ Count(u, v) \in Nat
  BY Zenon, <1>1, <1>6, <1>7, CountBound
<1>10. /\ lv \in [Version -> Int]
       /\ \A v \in Version : lv[v] = f.last_versions[v] - (IF back = v THEN 1 ELSE 0)
  BY <1>1, <1>5
<1> HIDE DEF lv
<1>11. /\ nl \in [Version -> Int]
       /\ \A v \in Version : nl[v] = lv[v] + (IF x = v THEN 1 ELSE 0)
  BY <1>2, <1>10
<1> HIDE DEF nl, nv
<1>12. \A v \in Version : nl[v] = Count(nv, v) /\ nl[v] \in Nat
  <2> SUFFICES ASSUME NEW v \in Version PROVE nl[v] = Count(nv, v) /\ nl[v] \in Nat
    BY Zenon
  <2> DEFINE cw == Count(w, v)
             cu == Count(u, v)
             cn == Count(nv, v)
  <2>1. /\ cw \in Nat /\ cn \in Nat /\ cu = cw - (IF back = v THEN 1 ELSE 0)
        /\ cn = cu + (IF x = v THEN 1 ELSE 0)
    BY Zenon, <1>6, <1>8, <1>9
  <2>2. /\ nl[v] = lv[v] + (IF x = v THEN 1 ELSE 0)
        /\ lv[v] = cw - (IF back = v THEN 1 ELSE 0)
    BY Zenon, <1>1, <1>10, <1>11
  <2> HIDE DEF cw, cu, cn
  <2>3. nl[v] = cn
    BY <2>1, <2>2
  <2> QED BY <2>1, <2>3 DEF cn
<1>13. nl \in [Version -> Nat]
  BY <1>11, <1>12
<1>14. Len(nv) <= window_size
  BY <1>1, <1>6, <1>7
<1>15. at \in Nat \ {0}
  BY <1>4, EntryType
<1>16. /\ g.versions = nv /\ g.last_versions = nl /\ g.index = at
       /\ g \in [versions : Seq(Version), last_versions : [Version -> Nat],
                 index : Nat \ {0}]
  BY <1>3, <1>7, <1>13, <1>15
<1> HIDE DEF g
<1>17. Counted(g)
  BY <1>12, <1>14, <1>16 DEF Counted
<1> QED BY <1>4, <1>7, <1>16, <1>17 DEF InUse, g
=============================================================================

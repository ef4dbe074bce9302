-------------------------- MODULE BlockchainProofs --------------------------
(***************************************************************************)
(* For every block tree and every choice of transactions.  The types hold, *)
(* the main chain is a path of the tree at every step of every call, and   *)
(* the calls nest in order; this begins with what the operators of         *)
(* Blockchain do to a database.  The transaction table is exact and no key *)
(* image is spent twice, in the running batch unless an add_block has      *)
(* thrown in it and always in what is committed.  A pass of                *)
(* check_against_checkpoints ends with a chain that agrees with the loaded *)
(* checkpoints, when they lie above height 1, and only the abort of a      *)
(* batch undoes that.                                                      *)
(***************************************************************************)
EXTENDS Blockchain, TLAPS, SequenceTheorems, NaturalsInduction,
        WellFoundedInduction

(* A database the calls leave behind at each of their steps.               *)
Good(d) == DbType(d) /\ Linked(d) /\ Genesis \notin DOMAIN d.alt

-----------------------------------------------------------------------------
(* A sequence without its last element.                                    *)
LEMMA FrontSeq ==
  ASSUME NEW S, NEW s \in Seq(S), Len(s) > 0
  PROVE  /\ SubSeq(s, 1, Len(s) - 1) \in Seq(S)
         /\ Len(SubSeq(s, 1, Len(s) - 1)) = Len(s) - 1
         /\ \A i \in 1 .. Len(s) - 1 : SubSeq(s, 1, Len(s) - 1)[i] = s[i]
<1> DEFINE n == Len(s) - 1
           u == SubSeq(s, 1, n)
<1>1. Len(s) \in Nat /\ n \in Nat /\ n < Len(s)
  OBVIOUS
<1> HIDE DEF n
<1>2. u \in Seq(S) /\ Len(u) = n /\ \A i \in 1 .. n : u[i] = s[i]
  BY <1>1
<1> HIDE DEF u
<1> QED BY Zenon, <1>2 DEF n, u

(* What remains of a sequence from one of its elements on.                 *)
LEMMA SuffixSeq ==
  ASSUME NEW S, NEW s \in Seq(S), NEW i \in 1 .. Len(s)
  PROVE  /\ SubSeq(s, i, Len(s)) \in Seq(S)
         /\ Len(SubSeq(s, i, Len(s))) > 0
         /\ SubSeq(s, i, Len(s))[1] = s[i]
<1>1. SubSeq(s, i, Len(s)) \in Seq(S)
  OBVIOUS
<1>2. Len(SubSeq(s, i, Len(s))) = Len(s) - i + 1
  OBVIOUS
<1>3. SubSeq(s, i, Len(s))[1] = s[i]
  OBVIOUS
<1> QED BY <1>1, <1>2, <1>3

(* Dropping the element just appended gives the sequence back.             *)
LEMMA FrontOfAppend ==
  ASSUME NEW S, NEW s \in Seq(S), NEW x \in S
  PROVE  SubSeq(Append(s, x), 1, Len(Append(s, x)) - 1) = s
OBVIOUS

(* A branch ends with its block, and is longer than one except for the     *)
(* genesis block.                                                          *)
LEMMA PathLast ==
  ASSUME NEW b \in Block
  PROVE  /\ Path[b] \in Seq(Block) /\ Len(Path[b]) > 0
         /\ Path[b][Len(Path[b])] = b
         /\ b # Genesis => /\ Len(Path[b]) = Len(Path[Prev[b]]) + 1
                           /\ Len(Path[b]) > 1
<1>1. CASE b = Genesis
  BY <1>1, TreeAssumption
<1>2. CASE b # Genesis
  <2>1. /\ Prev[b] \in Block /\ Path[Prev[b]] \in Seq(Block)
        /\ Path[b] = Append(Path[Prev[b]], b)
    BY <1>2, TreeAssumption
  <2>2. /\ Len(Path[b]) = Len(Path[Prev[b]]) + 1
        /\ Path[b][Len(Path[b])] = b
        /\ Path[b] \in Seq(Block)
    BY <2>1
  <2>3. Len(Path[Prev[b]]) > 0
    <3>1. CASE Prev[b] = Genesis
      BY <3>1, TreeAssumption
    <3>2. CASE Prev[b] # Genesis
      BY <3>2, <2>1, TreeAssumption
    <3> QED BY <3>1, <3>2
  <2> QED BY <2>1, <2>2, <2>3, <1>2
<1> QED BY <1>1, <1>2

(* The transactions a block lists are transactions.                        *)
LEMMA BlockTxSetType ==
  ASSUME NEW b \in Block
  PROVE  BlockTxSet(b) \subseteq Tx
<1>1. BlockTxs[b] \in Seq(Tx)
  BY BlockAssumption
<1>2. \A i \in DOMAIN BlockTxs[b] : BlockTxs[b][i] \in Tx
  BY <1>1, LenProperties
<1> QED BY <1>2 DEF BlockTxSet

(* Popping a block leaves the path to its parent, whatever record          *)
(* remove_block read.                                                      *)
LEMMA PoppedGood ==
  ASSUME NEW d, Good(d), Len(d.chain) > 1, NEW e \in Popped(d)
  PROVE  /\ Good(e)
         /\ e.chain = SubSeq(d.chain, 1, Len(d.chain) - 1)
         /\ Len(e.chain) = Len(d.chain) - 1
<1> DEFINE b == Top(d)
<1>1. /\ d.chain \in Seq(Block) /\ b \in Block /\ d.chain = Path[b]
      /\ Len(d.chain) \in Nat
  BY DEF Good, DbType, Linked, Top
<1>2. b # Genesis
  <2>1. SUFFICES ASSUME b = Genesis PROVE FALSE
    OBVIOUS
  <2>2. d.chain = <<Genesis>>
    BY <2>1, <1>1, TreeAssumption
  <2> QED BY <2>2
<1>3. PICK r \in Block : e = PoppedReading(d, r)
  BY <1>1, TreeAssumption DEF Popped
<1>4. /\ e.chain = SubSeq(d.chain, 1, Len(d.chain) - 1)
      /\ e.gyro = SubSeq(d.gyro, 1, Len(d.gyro) - 1)
      /\ e.alt = d.alt
      /\ e.txs = d.txs \ BlockTxSet(b) /\ e.pool = d.pool \cup BlockTxSet(b)
      /\ e.spin = [d.spin EXCEPT ![Spinner[r]] = PrevSpin[r]]
      /\ e = [chain |-> e.chain, gyro |-> e.gyro, alt |-> e.alt,
              txs |-> e.txs, pool |-> e.pool, spin |-> e.spin]
  BY Zenon, <1>3 DEF Good, DbType, PoppedReading
<1>5. /\ Prev[b] \in Block /\ Path[Prev[b]] \in Seq(Block)
      /\ d.chain = Append(Path[Prev[b]], b)
  BY <1>1, <1>2, TreeAssumption
<1>6. /\ e.chain = Path[Prev[b]] /\ Len(e.chain) = Len(d.chain) - 1
  BY <1>1, <1>4, <1>5, FrontOfAppend, FrontSeq
<1>7. /\ Len(Path[Prev[b]]) > 0
      /\ Path[Prev[b]][Len(Path[Prev[b]])] = Prev[b]
  BY <1>5, PathLast
<1>8. Linked(e) /\ e.gyro \in Seq(Gyro)
  <2>1. d.gyro \in Seq(Gyro) /\ Len(d.gyro) = Len(d.chain)
    BY DEF Good, DbType, Linked
  <2>2. e.gyro \in Seq(Gyro) /\ Len(e.gyro) = Len(e.chain)
    BY <2>1, <1>4, <1>6, FrontSeq
  <2> QED BY <2>2, <1>6, <1>7 DEF Linked, Top
<1>9. e.txs \subseteq Tx /\ e.pool \subseteq Tx
  BY <1>4, <1>1, BlockTxSetType DEF Good, DbType
<1>10. e.spin \in [Key \cup {ZeroKey} -> Nat]
  BY ZenonT(40), <1>4, <1>3, BlockAssumption DEF Good, DbType
<1>11. e.chain \in Seq(Block) /\ e.chain # <<>>
  BY <1>5, <1>6, <1>7
<1>12. DOMAIN e.alt \subseteq Block /\ \A x \in DOMAIN e.alt : e.alt[x] \in Gyro
  BY <1>4 DEF Good, DbType
<1>13. DbType(e)
  BY SMTT(30), <1>4, <1>8, <1>9, <1>10, <1>11, <1>12 DEF DbType
<1> QED BY <1>4, <1>6, <1>8, <1>13 DEF Good

(* Adding a spin to a cumulative gyro gives a gyro with a positive M.      *)
LEMMA AddSpinType ==
  ASSUME NEW g \in Gyro, NEW spin \in Int
  PROVE  AddSpin(g, spin) \in Gyro
BY DEF Gyro, AddSpin, Module

(* Appending a child of the top block leaves the path to that child.       *)
LEMMA AppendedGood ==
  ASSUME NEW d, Good(d), NEW b \in Block \ {Genesis}, Prev[b] = Top(d),
         NEW spin \in Int
  PROVE  /\ Good(Appended(d, b, spin))
         /\ Appended(d, b, spin).chain = Append(d.chain, b)
<1> DEFINE e == Appended(d, b, spin)
           g == NextGyro(d, spin)
<1>1. /\ d.chain \in Seq(Block) /\ d.chain # <<>> /\ d.chain = Path[Prev[b]]
      /\ d.gyro \in Seq(Gyro) /\ Len(d.gyro) = Len(d.chain)
      /\ Len(d.chain) \in Nat /\ Len(d.chain) > 0
  BY DEF Good, DbType, Linked, Top
<1>2. /\ e.chain = Append(d.chain, b) /\ e.gyro = Append(d.gyro, g)
      /\ e.alt = d.alt
      /\ e.txs = d.txs \cup BlockTxSet(b) /\ e.pool = d.pool \ BlockTxSet(b)
      /\ e.spin = [d.spin EXCEPT ![Spinner[b]] = Len(d.chain)]
      /\ e = [chain |-> e.chain, gyro |-> e.gyro, alt |-> e.alt,
              txs |-> e.txs, pool |-> e.pool, spin |-> e.spin]
  BY DEF Appended
<1>3. g \in Gyro
  <2>1. d.gyro[Len(d.gyro)] \in Gyro
    BY <1>1
  <2>2. AddSpin(d.gyro[Len(d.gyro)], spin) \in Gyro
    BY <2>1, AddSpinType
  <2>3. FromSpin(spin) \in Gyro
    BY DEF Gyro, FromSpin, Module
  <2> QED BY <2>2, <2>3 DEF NextGyro
<1> HIDE DEF e, g
<1>4. Path[b] = Append(d.chain, b)
  BY Zenon, <1>1, TreeAssumption
<1>5. /\ e.chain = Path[b] /\ e.chain \in Seq(Block) /\ e.chain # <<>>
      /\ e.chain[Len(e.chain)] = b
      /\ Len(e.chain) = Len(d.chain) + 1
  <2>1. e.chain = Path[b]
    BY <1>2, <1>4
  <2> QED BY <2>1, <1>1, PathLast
<1>6. e.gyro \in Seq(Gyro) /\ Len(e.gyro) = Len(e.chain)
  BY <1>1, <1>2, <1>3, <1>5
<1>7. e.txs \subseteq Tx /\ e.pool \subseteq Tx
  BY <1>2, BlockTxSetType DEF Good, DbType
<1>8. e.spin \in [Key \cup {ZeroKey} -> Nat]
  BY ZenonT(40), <1>1, <1>2, BlockAssumption DEF Good, DbType
<1>9. DOMAIN e.alt \subseteq Block /\ \A x \in DOMAIN e.alt : e.alt[x] \in Gyro
  BY <1>2 DEF Good, DbType
<1>10. Linked(e)
  BY <1>5, <1>6 DEF Linked, Top
<1>11. DbType(e)
  BY <1>2, <1>5, <1>6, <1>7, <1>8, <1>9 DEF DbType
<1>12. Good(e)
  BY <1>2, <1>10, <1>11 DEF Good
<1> QED BY <1>2, <1>12 DEF e

(* e differs from d in the pool and the transaction table only.            *)
OnlyTxs(d, e) ==
  /\ e = [d EXCEPT !.txs = e.txs, !.pool = e.pool]
  /\ e.txs \subseteq Tx /\ e.pool \subseteq Tx

(* A change of the pool and the transaction table alone leaves a good      *)
(* database.                                                               *)
LEMMA OnlyTxsGood ==
  ASSUME NEW d, Good(d), NEW e, OnlyTxs(d, e)
  PROVE  /\ Good(e) /\ e.chain = d.chain /\ e.gyro = d.gyro
         /\ e.alt = d.alt /\ e.spin = d.spin
<1>1. /\ e.chain = d.chain /\ e.gyro = d.gyro /\ e.alt = d.alt
      /\ e.spin = d.spin
      /\ e = [chain |-> e.chain, gyro |-> e.gyro, alt |-> e.alt,
              txs |-> e.txs, pool |-> e.pool, spin |-> e.spin]
  BY Zenon DEF OnlyTxs, Good, DbType
<1> QED BY <1>1 DEF OnlyTxs, Good, DbType, Linked, Top

(* Changing the pool is such a change.                                     *)
LEMMA PoolOnlyTxs ==
  ASSUME NEW d, Good(d), NEW P \in SUBSET Tx
  PROVE  OnlyTxs(d, [d EXCEPT !.pool = P])
BY Zenon DEF OnlyTxs, Good, DbType

(* The spin of a block is an integer when its lock is old enough.          *)
LEMMA SpinType ==
  ASSUME NEW d, Good(d), NEW b \in Block, Proof[b] \in d.txs,
         SpinUnlocked(d, b)
  PROVE  get_spin(d, b) \in Int
<1> DEFINE t == Proof[b]
           h == TxHeight(d, t)
           W == SPINNER_PVRB_BLOCK_WINDOW
<1>1. d.chain \in Seq(Block) /\ Len(d.chain) \in Nat /\ t \in Tx
      /\ W \in Nat \ {0} /\ Mag[b] \in Nat
  BY BlockAssumption DEF Good, DbType
<1>2. h + W < Len(d.chain)
  BY DEF SpinUnlocked
<1>3. h \in Nat
  <2> DEFINE at == {i \in DOMAIN d.chain : t \in BlockTxSet(d.chain[i])}
  <2>1. CASE at = {}
    BY <2>1, <1>1 DEF TxHeight
  <2>2. CASE at # {}
    <3>1. PICK i : i = (CHOOSE k \in at : TRUE)
      OBVIOUS
    <3>2. i \in at
      BY <2>2, <3>1
    <3>3. h = i - 1
      BY <2>2, <3>1 DEF TxHeight
    <3>4. i \in 1 .. Len(d.chain)
      BY <3>2, <1>1
    <3> QED BY <3>3, <3>4, <1>1
  <2> QED BY <2>1, <2>2
<1> HIDE DEF h
<1>4. h + 2 \in 1 .. Len(d.chain)
  BY <1>1, <1>2, <1>3
<1>5. \A n \in h + 2 .. h + W - 1 : n + 1 \in 1 .. Len(d.chain)
  BY <1>1, <1>2, <1>3
<1>6. BeaconBlocks(d, t) \in SUBSET Block
  <2>1. d.chain[h + 2] \in Block
    BY <1>1, <1>4
  <2>2. \A n \in h + 2 .. h + W - 1 : d.chain[n + 1] \in Block
    BY <1>1, <1>5
  <2> QED BY <2>1, <2>2 DEF BeaconBlocks, h
<1>7. Beacon(t, BeaconBlocks(d, t)) \in {-1, 1}
  BY <1>1, <1>6, BlockAssumption
<1> QED BY <1>1, <1>7 DEF get_spin

(* handle_block_to_main_chain either appends the block or leaves           *)
(* everything but the pool and the transaction table as it was.            *)
LEMMA MainShape ==
  ASSUME NEW d, Good(d), NEW b \in Block
  PROVE  LET r == handle_block_to_main_chain(d, b)
         IN  /\ r.ok \in BOOLEAN /\ r.bad \in BOOLEAN /\ r.dirty \in BOOLEAN
             /\ \/ ~r.ok /\ OnlyTxs(d, r.db)
                \/ /\ r.ok /\ b # Genesis /\ Prev[b] = Top(d)
                   /\ \E spin \in Int : r.db = Appended(d, b, spin)
<1> DEFINE r == handle_block_to_main_chain(d, b)
           Shape(o) ==
             /\ o.ok \in BOOLEAN /\ o.bad \in BOOLEAN /\ o.dirty \in BOOLEAN
             /\ \/ ~o.ok /\ OnlyTxs(d, o.db)
                \/ /\ o.ok /\ b # Genesis /\ Prev[b] = Top(d)
                   /\ \E spin \in Int : o.db = Appended(d, b, spin)
           late == Height(b) > START_AMOUNT_BLOCKS
<1>1. ASSUME NEW P \in SUBSET Tx, NEW T \in SUBSET Tx
      PROVE  /\ OnlyTxs(d, d)
             /\ OnlyTxs(d, [d EXCEPT !.pool = P])
             /\ OnlyTxs(d, [d EXCEPT !.txs = T])
  BY Zenon DEF OnlyTxs, Good, DbType
<1>2. d.pool \subseteq Tx /\ d.txs \subseteq Tx
  BY DEF Good, DbType
<1>3. Shape(Rejected(d))
  BY Zenon, <1>1, <1>2 DEF Rejected, Outcome
<1>4. Shape(TakingStopped(d, b))
  <2>1. ASSUME NEW t PROVE Shape(Outcome(FALSE, [d EXCEPT !.pool = @ \ {t}], FALSE, FALSE))
    BY Zenon, <1>1, <1>2 DEF Outcome
  <2>2. Shape(Outcome(FALSE, d, TRUE, FALSE))
    BY Zenon, <1>1, <1>2 DEF Outcome
  <2> HIDE DEF Shape
  <2> QED BY Zenon, <1>3, <2>1, <2>2 DEF TakingStopped
<1>5. Shape(Outcome(FALSE, [d EXCEPT !.pool = @ \ BlockTxSet(b)], FALSE, FALSE))
  BY Zenon, <1>1, <1>2 DEF Outcome
<1>6. Shape(Outcome(FALSE, HalfWritten(d, b), FALSE, TRUE))
  <2> DEFINE T == {BlockTxs[b][i] : i \in {i \in DOMAIN BlockTxs[b] :
                                      \A j \in ImageTwice(b) : i < j}}
  <2>1. T \subseteq Tx
    BY BlockTxSetType DEF BlockTxSet
  <2> HIDE DEF T
  <2>2. OnlyTxs(d, [d EXCEPT !.txs = @ \cup T])
    BY Zenon, <2>1, <1>1, <1>2
  <2>3. HalfWritten(d, b) = [d EXCEPT !.txs = @ \cup T]
    BY DEF HalfWritten, T
  <2> QED BY <2>2, <2>3 DEF Outcome
<1>7. ASSUME b # Genesis, Prev[b] = Top(d),
             late => Proof[b] \in d.txs /\ SpinUnlocked(d, b)
      PROVE  Shape(Outcome(TRUE,
               Appended(d, b, IF late THEN get_spin(d, b) ELSE DefaultSpin),
               FALSE, FALSE))
  <2>1. (IF late THEN get_spin(d, b) ELSE DefaultSpin) \in Int
    BY <1>7, SpinType DEF DefaultSpin
  <2> HIDE DEF late
  <2> QED BY <2>1, <1>7 DEF Outcome
<1>8. Shape(r)
  <2> HIDE DEF Shape
  <2> QED BY Zenon, <1>3, <1>4, <1>5, <1>6, <1>7 DEF handle_block_to_main_chain
<1> QED BY <1>8

(* handle_block_to_main_chain leaves a good database, whose chain it has   *)
(* lengthened by the block or left alone.                                  *)
LEMMA MainGood ==
  ASSUME NEW d, Good(d), NEW b \in Block
  PROVE  LET r == handle_block_to_main_chain(d, b)
         IN  /\ r.ok \in BOOLEAN /\ r.bad \in BOOLEAN /\ r.dirty \in BOOLEAN
             /\ Good(r.db)
             /\ r.ok => r.db.chain = Append(d.chain, b)
             /\ ~r.ok => r.db.chain = d.chain
<1> DEFINE r == handle_block_to_main_chain(d, b)
<1>1. /\ r.ok \in BOOLEAN /\ r.bad \in BOOLEAN /\ r.dirty \in BOOLEAN
      /\ \/ ~r.ok /\ OnlyTxs(d, r.db)
         \/ /\ r.ok /\ b # Genesis /\ Prev[b] = Top(d)
            /\ \E spin \in Int : r.db = Appended(d, b, spin)
  BY MainShape
<1> HIDE DEF r
<1>2. Good(r.db) /\ (r.ok => r.db.chain = Append(d.chain, b))
        /\ (~r.ok => r.db.chain = d.chain)
  BY <1>1, OnlyTxsGood, AppendedGood
<1> QED BY <1>1, <1>2 DEF r

(* Changing the alternative blocks keeps a database good.                  *)
LEMMA WithAltGood ==
  ASSUME NEW d, Good(d), NEW b \in Block \ {Genesis}, NEW g \in Gyro
  PROVE  Good(WithAlt(d, b, g)) /\ WithAlt(d, b, g).chain = d.chain
<1> DEFINE e == WithAlt(d, b, g)
           a == [x \in DOMAIN d.alt \cup {b} |-> IF x = b THEN g ELSE d.alt[x]]
<1>1. e = [d EXCEPT !.alt = a]
  BY DEF WithAlt
<1>2. DOMAIN a \subseteq Block /\ Genesis \notin DOMAIN a
        /\ \A x \in DOMAIN a : a[x] \in Gyro
  BY DEF Good, DbType
<1> HIDE DEF a, e
<1>3. /\ e.chain = d.chain /\ e.gyro = d.gyro /\ e.alt = a /\ e.txs = d.txs
      /\ e.pool = d.pool /\ e.spin = d.spin
      /\ e = [chain |-> e.chain, gyro |-> e.gyro, alt |-> e.alt,
              txs |-> e.txs, pool |-> e.pool, spin |-> e.spin]
  BY <1>1 DEF Good, DbType
<1>4. DbType(e)
  BY <1>2, <1>3 DEF Good, DbType
<1>5. Linked(e)
  BY <1>3 DEF Good, Linked, Top
<1> QED BY <1>2, <1>3, <1>4, <1>5 DEF Good, e

(* remove_alt_block leaves a good database with the same main chain.       *)
LEMMA WithoutAltGood ==
  ASSUME NEW d, Good(d), NEW S
  PROVE  Good(WithoutAlt(d, S)) /\ WithoutAlt(d, S).chain = d.chain
<1> DEFINE e == WithoutAlt(d, S)
           a == [x \in DOMAIN d.alt \ S |-> d.alt[x]]
<1>1. e = [d EXCEPT !.alt = a]
  BY DEF WithoutAlt
<1>2. DOMAIN a \subseteq Block /\ Genesis \notin DOMAIN a
        /\ \A x \in DOMAIN a : a[x] \in Gyro
  BY DEF Good, DbType
<1> HIDE DEF a, e
<1>3. /\ e.chain = d.chain /\ e.gyro = d.gyro /\ e.alt = a /\ e.txs = d.txs
      /\ e.pool = d.pool /\ e.spin = d.spin
      /\ e = [chain |-> e.chain, gyro |-> e.gyro, alt |-> e.alt,
              txs |-> e.txs, pool |-> e.pool, spin |-> e.spin]
  BY <1>1 DEF Good, DbType
<1>4. DbType(e)
  BY <1>2, <1>3 DEF Good, DbType
<1>5. Linked(e)
  BY <1>3 DEF Good, Linked, Top
<1> QED BY <1>2, <1>3, <1>4, <1>5 DEF Good, e

(* A set of natural numbers that is not empty has a least element.         *)
LEMMA LeastNat ==
  ASSUME NEW T, T \subseteq Nat, T # {}
  PROVE  \E x \in T : \A y \in T : x <= y
<1>1. PICK x \in T : \A y \in T : ~ (<<y, x>> \in OpToRel(<, Nat))
  BY Zenon, NatLessThanWellFounded, WFMin
<1>2. \A y \in T : ~(y < x)
  BY Zenon, <1>1 DEF OpToRel
<1>3. \A y \in T : x <= y
  BY <1>2
<1> QED BY <1>3

(* build_alt_chain: the alternative chain is a suffix of the branch of b   *)
(* that starts above the genesis block.                                    *)
LEMMA AltFrontType ==
  ASSUME NEW d, Good(d), NEW b \in Block \ {Genesis}
  PROVE  /\ AltFront(d, b) \in 2 .. Len(Path[b])
         /\ AltFront(d, b) = Len(Path[b]) <=> Prev[b] \notin DOMAIN d.alt
<1> DEFINE n == Len(Path[b])
           from == {i \in DOMAIN Path[b] :
                      \A j \in i .. n - 1 : Path[b][j] \in DOMAIN d.alt}
           f == AltFront(d, b)
<1>1. /\ Path[b] \in Seq(Block) /\ n \in Nat /\ n > 1 /\ DOMAIN Path[b] = 1 .. n
      /\ Path[b][n] = b /\ Path[b][1] = Genesis
      /\ \A i \in 2 .. n : Prev[Path[b][i]] = Path[b][i - 1]
  <2>1. Path[b] \in Seq(Block) /\ n > 1 /\ Path[b][n] = b
    BY PathLast
  <2>2. n \in Nat /\ DOMAIN Path[b] = 1 .. n
    BY <2>1, LenProperties
  <2> QED BY Zenon, <2>1, <2>2, TreeAssumption
<1>2. f = CHOOSE i \in from : \A j \in from : i <= j
  BY DEF AltFront
<1> HIDE DEF f, n
<1>3. n \in from
  BY <1>1
<1>4. \E i \in from : \A j \in from : i <= j
  <2>1. from \subseteq Nat
    BY <1>1
  <2> QED BY Zenon, <2>1, <1>3, LeastNat
<1> HIDE DEF from
<1>5. f \in from /\ \A j \in from : f <= j
  BY <1>2, <1>4
<1>6. f \in 1 .. n /\ \A j \in f .. n - 1 : Path[b][j] \in DOMAIN d.alt
  BY <1>5, <1>1 DEF from
<1>7. f # 1
  <2>1. SUFFICES ASSUME f = 1 PROVE FALSE
    OBVIOUS
  <2>2. Path[b][1] \in DOMAIN d.alt
    BY <2>1, <1>1, <1>6
  <2> QED BY <2>2, <1>1 DEF Good
<1>8. f = n <=> Prev[b] \notin DOMAIN d.alt
  <2>1. Prev[b] = Path[b][n - 1]
    BY <1>1
  <2>2. f # n => Path[b][n - 1] \in DOMAIN d.alt
    BY <1>1, <1>6
  <2>3. ASSUME Path[b][n - 1] \in DOMAIN d.alt PROVE f # n
    <3>1. n - 1 \in from
      BY <2>3, <1>1 DEF from
    <3> QED BY <3>1, <1>1, <1>5, <1>6
  <2> QED BY <2>1, <2>2, <2>3
<1> QED BY <1>1, <1>6, <1>7, <1>8 DEF f, n

(* The block at position m of a branch has height m - 1.                   *)
LEMMA ChainHeights ==
  ASSUME NEW b \in Block, NEW m \in 1 .. Len(Path[b])
  PROVE  Len(Path[Path[b][m]]) = m
<1>0. Path[b] \in Seq(Block) /\ Len(Path[b]) \in Nat /\ Len(Path[Genesis]) = 1
  BY PathLast, TreeAssumption
<1>1. CASE b = Genesis
  <2>1. Path[b] = <<Genesis>>
    BY <1>1, TreeAssumption
  <2>2. m = 1 /\ Path[b][m] = Genesis
    BY <2>1, <1>0
  <2> QED BY <2>2, <1>0
<1>2. CASE b # Genesis /\ m = 1
  BY Zenon, <1>0, <1>2, TreeAssumption
<1>3. CASE b # Genesis /\ m # 1
  BY SMTT(30), <1>0, <1>3, TreeAssumption
<1> QED BY <1>1, <1>2, <1>3

Endings == {"failed", "orphaned", "false", "throw", "stored"} \cup Switches

(* handle_alternative_block adds at most an alternative block; and when it *)
(* calls a switch, the main chain contains the parent of the front of the  *)
(* alternative chain.                                                      *)
LEMMA AltGood ==
  ASSUME NEW d, Good(d), NEW b \in Block
  PROVE  LET r == handle_alternative_block(d, b)
             f == NewFrame(d, b, r.how)
         IN  /\ r.how \in Endings
             /\ Good(r.db) /\ r.db.chain = d.chain
             /\ r.how \in Switches =>
                  /\ f \in FrameType /\ f.i <= Len(f.alt) /\ f.phase = "pop"
                  /\ Prev[f.alt[1]] \in OnMain(d)
<1> DEFINE r == handle_alternative_block(d, b)
           Ends(how) == [how |-> how, db |-> d]
           quiet == /\ r.how \in Endings \ Switches
                    /\ Good(r.db) /\ r.db.chain = d.chain
<1>1. \A how \in Endings \ Switches :
        /\ Ends(how).how \in Endings \ Switches
        /\ Good(Ends(how).db) /\ Ends(how).db.chain = d.chain
  OBVIOUS
<1>2. {"failed", "orphaned", "false", "throw"} \subseteq Endings \ Switches
  BY SMTT(30) DEF Endings, Switches
<1> DEFINE stored == /\ b # Genesis
                     /\ Prev[b] \in DOMAIN d.alt \cup OnMain(d)
                     /\ AltConnected(d, b)
                     /\ Proof[b] \in d.txs /\ SpinUnlocked(d, b)
<1> DEFINE g == AddSpin(ParentGyro(d, b), get_spin(d, b))
           how == IF Height(b) \in points THEN "discard"
                  ELSE IF Heavier(g, d.gyro[Len(d.gyro)]) THEN "switch"
                  ELSE "stored"
<1>3. \/ \E h \in {"failed", "orphaned", "false", "throw"} : r = Ends(h)
      \/ stored /\ r = [how |-> how, db |-> WithAlt(d, b, g)]
  BY DEF handle_alternative_block, Decision
<1>4. CASE \E h \in {"failed", "orphaned", "false", "throw"} : r = Ends(h)
  <2>1. quiet
    BY <1>1, <1>2, <1>4
  <2> QED BY <2>1 DEF Endings
<1>5. CASE stored /\ r = [how |-> how, db |-> WithAlt(d, b, g)]
  <2>1. how \in {"discard", "switch", "stored"}
    OBVIOUS
  <2>2. b \in Block \ {Genesis} /\ DOMAIN d.alt \subseteq Block
        /\ d.chain \in Seq(Block) /\ d.chain # <<>> /\ d.chain = Path[Top(d)]
        /\ d.gyro \in Seq(Gyro) /\ Len(d.gyro) = Len(d.chain)
        /\ Len(d.chain) \in Nat /\ Len(d.chain) > 0
    BY <1>5 DEF Good, DbType, Linked
  <2>3. AltFront(d, b) \in 2 .. Len(Path[b])
        /\ (AltFront(d, b) = Len(Path[b]) <=> Prev[b] \notin DOMAIN d.alt)
    BY <2>2, AltFrontType
  <2>4. Prev[b] \in DOMAIN d.alt \/ Height(b) \in 1 .. Len(d.chain)
    <3>1. SUFFICES ASSUME Prev[b] \in OnMain(d)
                   PROVE  Height(b) \in 1 .. Len(d.chain)
      BY <1>5
    <3>2. PICK m \in 1 .. Len(d.chain) : Prev[b] = d.chain[m]
      BY <3>1, <2>2 DEF OnMain
    <3>3. Len(Path[Prev[b]]) = m
      <4>1. Top(d) \in Block
        BY <2>2 DEF Top
      <4> QED BY <4>1, <3>2, <2>2, ChainHeights
    <3>4. Height(b) = m
      BY <3>3, <3>2, <2>2, PathLast DEF Height
    <3> QED BY SMTT(30), <3>2, <3>4
  <2>5. ParentGyro(d, b) \in Gyro
    BY <2>2, <2>4 DEF ParentGyro, Good, DbType
  <2>6. g \in Gyro
    <3>1. get_spin(d, b) \in Int
      BY <1>5, SpinType
    <3> QED BY <2>5, <3>1, AddSpinType
  <2>7. Good(WithAlt(d, b, g)) /\ WithAlt(d, b, g).chain = d.chain
    BY <2>2, <2>6, WithAltGood
  <2> DEFINE f == NewFrame(d, b, r.how)
             n == Len(Path[b])
             i == AltFront(d, b)
  <2>8. /\ Path[b] \in Seq(Block) /\ n \in Nat /\ n > 1 /\ Path[b][n] = b
        /\ \A k \in 2 .. n : Prev[Path[b][k]] = Path[b][k - 1]
    <3>1. Path[b] \in Seq(Block) /\ n > 1 /\ Path[b][n] = b
      BY <2>2, PathLast
    <3>2. n \in Nat
      BY <3>1
    <3> QED BY Zenon, <3>1, <3>2, <2>2, TreeAssumption
  <2>9. /\ f.alt = SubSeq(Path[b], i, n) /\ f.phase = "pop" /\ f.i = 1
    BY Zenon DEF NewFrame, AltChain
  <2>10. /\ f.alt \in Seq(Block) /\ Len(f.alt) > 0 /\ f.alt[1] = Path[b][i]
    <3>1. i \in 1 .. n
      BY <2>3, <2>8
    <3> HIDE DEF i, f
    <3> QED BY <3>1, <2>8, <2>9, SuffixSeq
  <2>11. f \in FrameType
    <3>1. d.gyro[Len(d.gyro)] \in Gyro
      BY <2>2
    <3> QED BY <2>9, <2>10, <3>1 DEF NewFrame, FrameType
  <2>12. Prev[f.alt[1]] \in OnMain(d)
    <3>1. Prev[f.alt[1]] = Path[b][i - 1]
      BY <2>3, <2>8, <2>10
    <3>2. CASE i = n
      <4>1. Prev[f.alt[1]] = Prev[b]
        BY <3>2, <2>8, <2>10
      <4>2. Prev[b] \in OnMain(d)
        BY <1>5, <3>2, <2>3
      <4> QED BY <4>1, <4>2
    <3>3. CASE i # n
      <4>1. i <= Len(d.chain) /\ d.chain[i - 1] = Path[b][i - 1]
        BY <1>5, <3>3 DEF AltConnected
      <4>2. i - 1 \in DOMAIN d.chain
        BY <4>1, <2>2, <2>3
      <4> QED BY SMTT(30), <3>1, <4>1, <4>2 DEF OnMain
    <3> QED BY <3>2, <3>3
  <2> HIDE DEF f, g, how
  <2>13. /\ r.how = how /\ r.db = WithAlt(d, b, g)
    BY <1>5
  <2>14. r.how \in Endings
    BY <2>1, <2>13 DEF Endings, Switches
  <2> QED BY <2>7, <2>9, <2>10, <2>11, <2>12, <2>13, <2>14 DEF f
<1> QED BY <1>3, <1>4, <1>5

-----------------------------------------------------------------------------
(* The types of what is not a database.                                    *)
RestType ==
  /\ batch \in BOOLEAN /\ batchOk \in BOOLEAN
  /\ invalid \subseteq Block /\ ripe \subseteq Block
  /\ frames \in Seq(FrameType) /\ task \in TaskType /\ bvc \in VerdictType
  /\ points \subseteq DOMAIN CheckpointTable

(* The inductive invariant.                                                *)
IInv == RestType /\ Good(db) /\ Good(saved) /\ CallsInOrder
-----------------------------------------------------------------------------
(* The database with the genesis block alone is good.                      *)
LEMMA GenesisGood == Good(GenesisDb)
<1> DEFINE e == GenesisDb
<1>1. /\ e.chain = <<Genesis>> /\ e.gyro = <<FromSpin(DefaultSpin)>>
      /\ e.alt = <<>> /\ e.txs = {} /\ e.pool = {}
      /\ e.spin = [k \in Key \cup {ZeroKey} |-> 0]
      /\ e = [chain |-> e.chain, gyro |-> e.gyro, alt |-> e.alt,
              txs |-> e.txs, pool |-> e.pool, spin |-> e.spin]
  BY Zenon DEF GenesisDb
<1>2. FromSpin(DefaultSpin) \in Gyro
  BY DEF FromSpin, DefaultSpin, Module, Gyro
<1> HIDE DEF e
<1>3. DbType(e)
  BY <1>1, <1>2, TreeAssumption DEF DbType
<1>4. Linked(e)
  BY <1>1, TreeAssumption DEF Linked, Top
<1>5. Genesis \notin DOMAIN e.alt
  BY <1>1
<1> QED BY <1>3, <1>4, <1>5 DEF Good, e

(* No call in progress has the type of a call in progress.                 *)
LEMMA NoTaskType == NoTask \in TaskType
BY DEF NoTask, TaskType

(* The invariant holds at the start.                                       *)
LEMMA InitInv == Init => IInv
<1> SUFFICES ASSUME Init PROVE IInv
  OBVIOUS
<1>1. Good(db) /\ Good(saved)
  BY GenesisGood DEF Init
<1>2. RestType
  <2>1. bvc \in VerdictType
    BY Zenon, TreeAssumption DEF Init, NoVerdict, Verdict, VerdictType
  <2>2. frames \in Seq(FrameType)
    BY DEF Init
  <2> QED BY Zenon, <2>1, <2>2, NoTaskType, BlockAssumption DEF Init, RestType
<1>3. CallsInOrder
  BY DEF Init, CallsInOrder, Idle, NoTask
<1> QED BY <1>1, <1>2, <1>3 DEF IInv

(* Between calls, only the length of the main chain matters to             *)
(* CallsInOrder.                                                           *)
LEMMA IdleInOrder ==
  ASSUME frames' = <<>>, task' = NoTask
  PROVE  CallsInOrder'
BY DEF CallsInOrder, NoTask, Idle

(* Every call that is not a switch keeps the invariant.                    *)
LEMMA BatchStepInv ==
  ASSUME IInv, prepare_handle_incoming_blocks \/ cleanup_handle_incoming_blocks
  PROVE  IInv'
<1>1. CASE prepare_handle_incoming_blocks
  <2>1. frames' = <<>> /\ task' = NoTask
    BY <1>1 DEF IInv, CallsInOrder, Idle, prepare_handle_incoming_blocks
  <2>2. RestType' /\ Good(db)' /\ Good(saved)'
    BY <1>1 DEF IInv, RestType, prepare_handle_incoming_blocks
  <2> QED BY <2>1, <2>2, IdleInOrder DEF IInv
<1>2. CASE cleanup_handle_incoming_blocks
  <2>1. frames' = <<>> /\ task' = NoTask
    BY <1>2 DEF Idle, cleanup_handle_incoming_blocks
  <2>2. RestType' /\ Good(db)' /\ Good(saved)'
    BY Zenon, <1>2 DEF IInv, RestType, cleanup_handle_incoming_blocks
  <2> QED BY <2>1, <2>2, IdleInOrder DEF IInv
<1> QED BY <1>1, <1>2

(* What happens outside a call that changes the chain keeps the invariant: *)
(* flush_invalid_blocks, the pool, the clock and a crash, which drops the  *)
(* batch.                                                                  *)
LEMMA OutsideStepInv ==
  ASSUME IInv,
         \/ flush_invalid_blocks
         \/ \E t \in Tx : AddTx(t) \/ DropTx(t)
         \/ \E b \in Block : TimePasses(b)
         \/ Crash
  PROVE  IInv'
<1>1. CASE flush_invalid_blocks
  <2>1. frames' = <<>> /\ task' = NoTask
    BY <1>1 DEF Idle, flush_invalid_blocks
  <2>2. RestType' /\ Good(db)' /\ Good(saved)'
    BY <1>1 DEF IInv, RestType, flush_invalid_blocks
  <2> QED BY <2>1, <2>2, IdleInOrder DEF IInv
<1>2. ASSUME NEW t \in Tx, AddTx(t) \/ DropTx(t) PROVE IInv'
  <2>1. frames' = <<>> /\ task' = NoTask
    BY <1>2 DEF IInv, CallsInOrder, Idle, AddTx, DropTx
  <2>2. OnlyTxs(db, db')
    <3>1. PICK P \in SUBSET Tx : db' = [db EXCEPT !.pool = P]
      <4>1. db.pool \subseteq Tx
        BY DEF IInv, Good, DbType
      <4> QED BY <4>1, <1>2 DEF AddTx, DropTx
    <3> QED BY <3>1, PoolOnlyTxs DEF IInv
  <2>3. Good(db')
    BY <2>2, OnlyTxsGood DEF IInv
  <2>4. saved' = saved \/ saved' = db'
    BY <1>2 DEF AddTx, DropTx
  <2>5. Good(saved')
    BY <2>3, <2>4 DEF IInv
  <2>6. RestType'
    BY <1>2 DEF IInv, RestType, AddTx, DropTx
  <2> QED BY <2>1, <2>3, <2>5, <2>6, IdleInOrder DEF IInv
<1>3. ASSUME NEW b \in Block, TimePasses(b) PROVE IInv'
  BY <1>3 DEF IInv, RestType, CallsInOrder, Idle, Frame, FrameOk, OnMain,
              TimePasses
<1>4. CASE Crash
  <2>1. frames' = <<>> /\ task' = NoTask
    BY <1>4 DEF Crash
  <2>2. RestType'
    <3>1. bvc' \in VerdictType
      BY Zenon, <1>4, TreeAssumption DEF Crash, NoVerdict, Verdict, VerdictType
    <3>2. frames' \in Seq(FrameType)
      BY <1>4 DEF Crash
    <3> QED BY Zenon, <1>4, <3>1, <3>2, NoTaskType DEF Crash, IInv, RestType
  <2>3. Good(db)' /\ Good(saved)'
    BY <1>4 DEF Crash, IInv
  <2> QED BY <2>1, <2>2, <2>3, IdleInOrder DEF IInv
<1> QED BY <1>1, <1>2, <1>3, <1>4

(* While a task runs there is no switch.                                   *)
LEMMA TaskInOrder ==
  ASSUME frames' = <<>>, batch' = TRUE,
         task'.kind = "pop" => task'.left < Len(db'.chain)
  PROVE  CallsInOrder'
BY DEF CallsInOrder, Idle

(* Each step of pop_blocks and of update_checkpoints keeps the invariant.  *)
LEMMA TaskStepInv ==
  ASSUME IInv,
         \/ \E n \in 1 .. Len(db.chain) : PopBlocks(n)
         \/ \E S \in SUBSET DOMAIN CheckpointTable : update_checkpoints(S)
         \/ TaskStep
  PROVE  IInv'
<1>0. /\ Good(db) /\ Good(saved) /\ RestType /\ CallsInOrder
      /\ db.chain \in Seq(Block) /\ Len(db.chain) \in Nat /\ Len(db.chain) > 0
      /\ task \in TaskType
  BY DEF IInv, Good, DbType, RestType
<1>1. ASSUME NEW n \in 1 .. Len(db.chain), PopBlocks(n) PROVE IInv'
  <2>1. frames' = <<>> /\ batch' = TRUE /\ db' = db /\ saved' = saved
    BY Zenon, <1>0, <1>1 DEF CallsInOrder, Idle, PopBlocks
  <2>2. task' \in TaskType /\ task'.left < Len(db.chain)
    <3> DEFINE left == IF n < Len(db.chain) THEN n ELSE Len(db.chain) - 1
    <3>1. left \in Nat /\ left < Len(db.chain)
      BY <1>0
    <3>2. task' = [NoTask EXCEPT !.kind = "pop", !.left = left]
      BY Zenon, <1>1 DEF PopBlocks
    <3> HIDE DEF left
    <3> QED BY Zenon, <3>1, <3>2 DEF NoTask, TaskType
  <2>3. RestType'
    BY Zenon, <1>0, <1>1, <2>2 DEF RestType, PopBlocks
  <2> QED BY <1>0, <2>1, <2>2, <2>3, TaskInOrder DEF IInv
<1>2. ASSUME NEW S \in SUBSET DOMAIN CheckpointTable, update_checkpoints(S)
      PROVE  IInv'
  <2>1. frames' = <<>> /\ batch' = TRUE /\ db' = db /\ saved' = saved
    BY <1>0, <1>2 DEF Idle, update_checkpoints, RestType
  <2>2. points' \subseteq DOMAIN CheckpointTable /\ points' \in SUBSET Nat
    BY Zenon, <1>0, <1>2, BlockAssumption DEF update_checkpoints, RestType
  <2>3. task' \in TaskType /\ task'.kind = "check"
    BY Zenon, <1>0, <1>2, <2>2 DEF update_checkpoints, NoTask, TaskType
  <2>4. RestType'
    BY <1>0, <1>2, <2>2, <2>3 DEF RestType, update_checkpoints
  <2> QED BY <1>0, <2>1, <2>3, <2>4, TaskInOrder DEF IInv
<1>3. ASSUME task.kind # "none" PROVE frames = <<>> /\ batch = TRUE
  BY <1>0, <1>3 DEF CallsInOrder, Idle, NoTask, RestType
<1>4. CASE PopStep
  <2>1. frames' = <<>> /\ batch' = TRUE /\ saved' = saved
    BY <1>3, <1>4 DEF PopStep
  <2>2. task.left < Len(db.chain) /\ task.left > 0 /\ task.left \in Nat
    BY <1>0, <1>4 DEF PopStep, CallsInOrder, TaskType
  <2>3. Good(db') /\ Len(db'.chain) = Len(db.chain) - 1
    BY <1>0, <1>4, <2>2, PoppedGood DEF PopStep
  <2>4. task' \in TaskType /\ task'.left = task.left - 1
    BY <1>0, <1>4, <2>2 DEF PopStep, TaskType
  <2>5. RestType'
    BY <1>0, <1>4, <2>4 DEF RestType, PopStep
  <2> QED BY <1>0, <2>1, <2>2, <2>3, <2>4, <2>5, TaskInOrder DEF IInv
<1>5. CASE PopDone
  <2>1. frames' = <<>> /\ task' = NoTask /\ db' = db /\ saved' = db
    BY <1>3, <1>5 DEF PopDone
  <2>2. RestType'
    BY Zenon, <1>0, <1>5, NoTaskType DEF RestType, PopDone
  <2> QED BY <1>0, <2>1, <2>2, IdleInOrder DEF IInv
<1>6. CASE CheckPoint
  <2>1. frames' = <<>> /\ batch' = TRUE /\ saved' = saved /\ db' = db
    BY <1>3, <1>6 DEF CheckPoint
  <2>2. NextPoint \in task.todo /\ task.todo \subseteq Nat
    <3>1. task.todo \subseteq Nat /\ task.todo # {}
      BY <1>0, <1>6 DEF CheckPoint, TaskType
    <3>2. \E h \in task.todo : \A q \in task.todo : h <= q
      BY <3>1, LeastNat
    <3> QED BY <3>1, <3>2 DEF NextPoint
  <2>3. task' \in TaskType /\ task'.kind # "pop"
    <3> DEFINE h == NextPoint
               rest == [task EXCEPT !.todo = @ \ {h}]
    <3>1. h \in Nat
      BY <2>2
    <3> HIDE DEF h
    <3>2. rest \in TaskType /\ rest.kind = "check"
      BY <1>0, <1>6 DEF CheckPoint, TaskType
    <3>4. \/ task' = rest \/ task' = NoTask
          \/ h >= 2 /\ task' = [rest EXCEPT !.to = h - 2]
      BY <1>6, <3>1 DEF CheckPoint, h
    <3> HIDE DEF rest
    <3>5. CASE h >= 2 /\ task' = [rest EXCEPT !.to = h - 2]
      <4>1. h - 2 \in Nat \cup {-1}
        BY <3>1, <3>5
      <4> QED BY <3>2, <3>5, <4>1 DEF TaskType
    <3>6. CASE task' = NoTask
      BY <3>6, NoTaskType DEF NoTask
    <3> QED BY <3>2, <3>4, <3>5, <3>6
  <2>4. RestType'
    BY <1>0, <1>6, <2>3 DEF RestType, CheckPoint
  <2> QED BY <1>0, <2>1, <2>3, <2>4, TaskInOrder DEF IInv
<1>7. CASE CheckRollback
  <2>1. frames' = <<>> /\ batch' = TRUE /\ saved' = saved
    BY <1>3, <1>7 DEF CheckRollback
  <2>2. Good(db')
    <3>1. CASE db' = db
      BY <3>1, <1>0
    <3>2. CASE Len(db.chain) # 1 /\ db' \in Popped(db)
      <4>0. Len(db.chain) # 1
        BY <3>2
      <4>1. Len(db.chain) > 1
        <5>1. Len(db.chain) \in Nat /\ Len(db.chain) > 0
          BY <1>0
        <5>2. \A n \in Nat : n > 0 /\ n # 1 => n > 1
          OBVIOUS
        <5> QED BY Zenon, <4>0, <5>1, <5>2
      <4> QED BY <3>2, <4>1, <1>0, PoppedGood
    <3> QED BY <1>7, <3>1, <3>2 DEF CheckRollback
  <2>3. task' \in TaskType /\ task'.kind # "pop"
    BY <1>0, <1>7, NoTaskType DEF CheckRollback, TaskType, NoTask
  <2>4. RestType'
    BY <1>0, <1>7, <2>3 DEF RestType, CheckRollback
  <2> QED BY <1>0, <2>1, <2>2, <2>3, <2>4, TaskInOrder DEF IInv
<1>8. CASE CheckDone
  <2>1. frames' = <<>> /\ task' = NoTask /\ db' = db /\ saved' = saved
    BY <1>3, <1>8 DEF CheckDone
  <2>2. RestType'
    BY <1>0, <1>8, NoTaskType DEF RestType, CheckDone
  <2> QED BY <1>0, <2>1, <2>2, IdleInOrder DEF IInv
<1> QED BY <1>1, <1>2, <1>4, <1>5, <1>6, <1>7, <1>8 DEF TaskStep
-----------------------------------------------------------------------------
(* The stack of switches.                                                  *)

Waiting(fs) ==
  \A n \in DOMAIN fs : fs[n].phase = "push" /\ fs[n].i <= Len(fs[n].alt)
Below == SubSeq(frames, 1, Len(frames) - 1)

(* Replacing the last element of a sequence.                               *)
LEMMA ReplaceLast ==
  ASSUME NEW S, NEW s \in Seq(S), Len(s) > 0, NEW x \in S
  PROVE  [s EXCEPT ![Len(s)] = x] = Append(SubSeq(s, 1, Len(s) - 1), x)
<1> DEFINE front == SubSeq(s, 1, Len(s) - 1)
           e == [s EXCEPT ![Len(s)] = x]
           a == Append(front, x)
<1>1. front \in Seq(S) /\ Len(front) = Len(s) - 1 /\ Len(s) \in Nat
        /\ \A i \in 1 .. Len(s) - 1 : front[i] = s[i]
  BY FrontSeq
<1>2. e \in Seq(S) /\ Len(e) = Len(s) /\ \A i \in 1 .. Len(s) :
        e[i] = IF i = Len(s) THEN x ELSE s[i]
  BY ExceptSeq
<1> HIDE DEF front
<1>3. a \in Seq(S) /\ Len(a) = Len(s) /\ \A i \in 1 .. Len(s) :
        a[i] = IF i = Len(s) THEN x ELSE front[i]
  BY <1>1, AppendProperties
<1>4. \A i \in 1 .. Len(s) : e[i] = a[i]
  BY <1>1, <1>2, <1>3
<1> HIDE DEF e, a
<1>5. e = a
  BY <1>2, <1>3, <1>4, SeqEqual
<1> QED BY <1>5 DEF e, a, front

(* The activations below the innermost one wait in their push loop.        *)
LEMMA StackTop ==
  ASSUME RestType, CallsInOrder, frames # <<>>
  PROVE  /\ Below \in Seq(FrameType) /\ Waiting(Below)
         /\ Frame \in FrameType /\ Frame.i <= Len(Frame.alt)
         /\ FrameOk(db, Frame) /\ task = NoTask /\ batch = TRUE
         /\ \A f \in FrameType :
              [frames EXCEPT ![Len(frames)] = f] = Append(Below, f)
<1>1. frames \in Seq(FrameType) /\ Len(frames) \in Nat /\ Len(frames) > 0
  BY DEF RestType
<1>2. Below \in Seq(FrameType) /\ Len(Below) = Len(frames) - 1
        /\ \A n \in 1 .. Len(frames) - 1 : Below[n] = frames[n]
  BY <1>1, FrontSeq DEF Below
<1>3. Waiting(Below)
  <2>1. DOMAIN Below = 1 .. Len(frames) - 1
    BY <1>1, <1>2
  <2>2. \A n \in 1 .. Len(frames) - 1 : n \in DOMAIN frames /\ n < Len(frames)
    BY <1>1
  <2> QED BY <1>2, <2>1, <2>2 DEF Waiting, CallsInOrder
<1>4. Frame \in FrameType /\ Frame.i <= Len(Frame.alt)
  BY <1>1 DEF Frame, CallsInOrder
<1>5. FrameOk(db, Frame) /\ task = NoTask /\ batch = TRUE
  BY DEF CallsInOrder, Idle, RestType
<1>6. ASSUME NEW f \in FrameType
      PROVE  [frames EXCEPT ![Len(frames)] = f] = Append(Below, f)
  BY <1>1, ReplaceLast DEF Below
<1> QED BY <1>2, <1>3, <1>4, <1>5, <1>6

(* A switch is called, or goes on, above activations that wait.            *)
LEMMA StackPushed ==
  ASSUME NEW fs \in Seq(FrameType), Waiting(fs),
         NEW f \in FrameType, f.i <= Len(f.alt), FrameOk(db', f),
         frames' = Append(fs, f), task' = NoTask, batch' = TRUE
  PROVE  frames' \in Seq(FrameType) /\ CallsInOrder'
<1>1. /\ frames' \in Seq(FrameType) /\ Len(frames') = Len(fs) + 1
      /\ frames'[Len(fs) + 1] = f /\ Len(fs) \in Nat
      /\ \A n \in 1 .. Len(fs) : frames'[n] = fs[n]
      /\ DOMAIN frames' = 1 .. Len(fs) + 1 /\ DOMAIN fs = 1 .. Len(fs)
  OBVIOUS
<1>2. \A n \in DOMAIN frames' :
        /\ frames'[n].i <= Len(frames'[n].alt)
        /\ n < Len(frames') => frames'[n].phase = "push"
  <2> TAKE n \in DOMAIN frames'
  <2>1. CASE n \in 1 .. Len(fs)
    BY <1>1, <2>1 DEF Waiting
  <2>2. CASE n = Len(fs) + 1
    BY <1>1, <2>2
  <2> QED BY <1>1, <2>1, <2>2
<1>3. FrameOk(db', frames'[Len(frames')])
  BY <1>1
<1> QED BY <1>1, <1>2, <1>3 DEF CallsInOrder, NoTask, Frame

(* A switch has returned to activations that wait.                         *)
LEMMA StackReturned ==
  ASSUME frames' \in Seq(FrameType), Waiting(frames'), task' = NoTask,
         batch' = TRUE
  PROVE  CallsInOrder'
<1>1. frames' # <<>> => frames'[Len(frames')].phase = "push"
  BY DEF Waiting
<1> QED BY <1>1 DEF CallsInOrder, Waiting, NoTask, Frame, FrameOk
-----------------------------------------------------------------------------
(* Handling a block, and the steps of a switch.                            *)

(* A call of handle_alternative_block keeps the invariant, whether it      *)
(* returns, calls a switch or throws.                                      *)
LEMMA CallInv ==
  ASSUME IInv, NEW b \in Block, NEW rest \in Seq(FrameType), Waiting(rest),
         task = NoTask, batch = TRUE, CallAlternative(b, rest)
  PROVE  IInv'
<1> DEFINE r == handle_alternative_block(db, b)
           f == NewFrame(db, b, r.how)
<1>1. /\ r.how \in Endings /\ Good(r.db) /\ r.db.chain = db.chain
      /\ r.how \in Switches =>
           /\ f \in FrameType /\ f.i <= Len(f.alt) /\ f.phase = "pop"
           /\ Prev[f.alt[1]] \in OnMain(db)
  BY AltGood DEF IInv
<1>2. /\ db' = r.db
      /\ frames' = IF r.how = "throw" THEN <<>>
                   ELSE IF r.how \in Switches THEN Append(rest, f) ELSE rest
      /\ UNCHANGED <<saved, batch, batchOk, invalid, task, points, ripe>>
  BY Zenon DEF CallAlternative
<1>3. bvc' \in VerdictType
  BY Zenon DEF IInv, RestType, CallAlternative, Verdict, VerdictType
<1> HIDE DEF r, f
<1>4. r.how \in Switches => FrameOk(db', f)
  BY <1>1, <1>2 DEF FrameOk, OnMain
<1>5. frames' \in Seq(FrameType) /\ CallsInOrder'
  <2>1. CASE r.how = "throw"
    <3>1. frames' = <<>> /\ task' = NoTask
      BY <1>2, <2>1
    <3> QED BY <3>1, IdleInOrder
  <2>2. CASE r.how # "throw" /\ r.how \in Switches
    <3>1. frames' = Append(rest, f) /\ task' = NoTask /\ batch' = TRUE
      BY <1>2, <2>2
    <3> QED BY SMTT(20), <1>1, <1>4, <2>2, <3>1, StackPushed
  <2>3. CASE r.how # "throw" /\ r.how \notin Switches
    <3>1. frames' = rest /\ task' = NoTask /\ batch' = TRUE
      BY <1>2, <2>3
    <3> QED BY <3>1, StackReturned
  <2> QED BY <2>1, <2>2, <2>3
<1>6. RestType'
  BY <1>2, <1>3, <1>5 DEF IInv, RestType
<1>7. Good(db') /\ Good(saved')
  BY <1>1, <1>2 DEF IInv
<1> QED BY SMTT(30), <1>5, <1>6, <1>7 DEF IInv

(* add_new_block keeps the invariant.                                      *)
LEMMA AddBlockInv ==
  ASSUME IInv, NEW b \in Block, add_new_block(b)
  PROVE  IInv'
<1>1. CASE AddKnown(b)
  <2>1. frames' = <<>> /\ task' = NoTask /\ db' = db /\ saved' = saved
    BY <1>1 DEF AddKnown, Idle
  <2>2. bvc' \in VerdictType
    BY <1>1 DEF AddKnown, Verdict, VerdictType
  <2>3. RestType'
    BY <1>1, <2>2 DEF AddKnown, IInv, RestType
  <2> QED BY <2>1, <2>3, IdleInOrder DEF IInv
<1>2. CASE AddToMain(b)
  <2> DEFINE r == handle_block_to_main_chain(db, b)
  <2>1. /\ r.ok \in BOOLEAN /\ r.bad \in BOOLEAN /\ r.dirty \in BOOLEAN
        /\ Good(r.db)
    BY MainGood DEF IInv
  <2>2. /\ db' = r.db /\ batchOk' = (batchOk /\ ~r.dirty)
        /\ invalid' = invalid \cup (IF r.bad THEN {b} ELSE {})
        /\ UNCHANGED <<saved, batch, frames, task, points, ripe>>
        /\ frames = <<>> /\ task = NoTask
    BY Zenon, <1>2 DEF AddToMain, Idle
  <2>3. bvc' \in VerdictType
    BY Zenon, <1>2 DEF AddToMain, Verdict, VerdictType
  <2> HIDE DEF r
  <2>4. invalid' \subseteq Block
    BY <2>2 DEF IInv, RestType
  <2>5. batchOk' \in BOOLEAN
    BY <2>2
  <2>6. RestType'
    BY <2>2, <2>3, <2>4, <2>5 DEF IInv, RestType
  <2> QED BY <2>1, <2>2, <2>6, IdleInOrder DEF IInv
<1>3. CASE AddAlternative(b)
  <2>1. /\ <<>> \in Seq(FrameType) /\ Waiting(<<>>)
        /\ task = NoTask /\ batch = TRUE /\ CallAlternative(b, <<>>)
    BY <1>3 DEF AddAlternative, Idle, Waiting, IInv, RestType
  <2> QED BY Zenon, <2>1, CallInv
<1> QED BY <1>1, <1>2, <1>3 DEF add_new_block

(* A popped block was the only one to leave the main chain.                *)
LEMMA StillOnMain ==
  ASSUME NEW d, Good(d), NEW x \in OnMain(d), x # Top(d)
  PROVE  /\ Len(d.chain) > 1
         /\ \A e \in Popped(d) : x \in OnMain(e)
<1>1. d.chain \in Seq(Block) /\ Len(d.chain) \in Nat /\ Len(d.chain) > 0
  BY DEF Good, DbType
<1>2. PICK i \in 1 .. Len(d.chain) : x = d.chain[i]
  BY <1>1 DEF OnMain
<1>3. i # Len(d.chain)
  BY <1>2 DEF Top
<1>4. Len(d.chain) > 1 /\ i \in 1 .. Len(d.chain) - 1
  BY <1>1, <1>2, <1>3
<1>5. ASSUME NEW e \in Popped(d) PROVE x \in OnMain(e)
  <2>1. e.chain = SubSeq(d.chain, 1, Len(d.chain) - 1)
          /\ Len(e.chain) = Len(d.chain) - 1 /\ Good(e)
    BY <1>4, PoppedGood
  <2>2. e.chain[i] = d.chain[i]
    BY <1>1, <1>4, <2>1, FrontSeq
  <2>3. i \in DOMAIN e.chain
    BY <1>4, <2>1 DEF Good, DbType
  <2> QED BY <1>2, <2>2, <2>3 DEF OnMain
<1> QED BY <1>4, <1>5

(* A step in which the innermost switch goes on as activation f.           *)
LEMMA ResumeInv ==
  ASSUME IInv, frames # <<>>, NEW f \in FrameType, f.i <= Len(f.alt),
         Resume(f), FrameOk(db', f), Good(db'),
         batchOk' \in BOOLEAN, invalid' \subseteq Block,
         UNCHANGED <<saved, batch, task, bvc, points, ripe>>
  PROVE  IInv'
<1>1. /\ Below \in Seq(FrameType) /\ Waiting(Below)
      /\ task = NoTask /\ batch = TRUE
      /\ [frames EXCEPT ![Len(frames)] = f] = Append(Below, f)
  BY StackTop DEF IInv
<1>2. frames' = Append(Below, f) /\ task' = NoTask /\ batch' = TRUE
  BY <1>1 DEF Resume
<1>3. frames' \in Seq(FrameType) /\ CallsInOrder'
  BY <1>1, <1>2, StackPushed
<1>4. RestType'
  BY <1>3 DEF IInv, RestType
<1> QED BY <1>3, <1>4 DEF IInv

(* A step in which the innermost switch returns.                           *)
LEMMA ReturnInv ==
  ASSUME IInv, frames # <<>>, NEW r \in BOOLEAN, Return(r), Good(db'),
         invalid' \subseteq Block,
         UNCHANGED <<saved, batch, batchOk, task, points, ripe>>
  PROVE  IInv'
<1>1. /\ Below \in Seq(FrameType) /\ Waiting(Below)
      /\ task = NoTask /\ batch = TRUE
  BY StackTop DEF IInv
<1>2. frames' = Below /\ task' = NoTask /\ batch' = TRUE
  BY <1>1 DEF Return, Below
<1>3. frames' \in Seq(FrameType) /\ CallsInOrder'
  BY <1>1, <1>2, StackReturned
<1>4. bvc' \in VerdictType
  BY Zenon DEF IInv, RestType, Return, Verdict, VerdictType
<1>5. RestType'
  BY <1>3, <1>4 DEF IInv, RestType
<1> QED BY <1>3, <1>5 DEF IInv

(* Every step of switch_to_alternative_blockchain and of its rollback      *)
(* keeps the invariant.                                                    *)
LEMMA SwitchStepInv ==
  ASSUME IInv, SwitchStep
  PROVE  IInv'
<1>1. frames # <<>>
  BY Zenon DEF SwitchStep, SwitchPop, SwitchSplit, SwitchConnect, RollbackPop,
         RollbackAdd, SwitchFail, SwitchPush, SwitchDone, In
<1>2. /\ Below \in Seq(FrameType) /\ Waiting(Below)
      /\ Frame \in FrameType /\ Frame.i <= Len(Frame.alt)
      /\ FrameOk(db, Frame) /\ task = NoTask /\ batch = TRUE
      /\ \A f \in FrameType :
           [frames EXCEPT ![Len(frames)] = f] = Append(Below, f)
  BY <1>1, StackTop DEF IInv
<1>3. /\ Good(db) /\ batchOk \in BOOLEAN /\ invalid \subseteq Block
      /\ db.chain \in Seq(Block) /\ Len(db.chain) \in Nat /\ Len(db.chain) > 0
  BY DEF IInv, RestType, Good, DbType
<1>4. Frame.alt \in Seq(Block) /\ Frame.old \in Seq(Block)
        /\ Frame.i \in Nat /\ Frame.j \in Nat /\ Frame.i > 0 /\ Frame.j > 0
        /\ Frame.split \in Nat
  BY <1>2 DEF FrameType
<1>5. ASSUME NEW b \in Block,
             LET r == handle_block_to_main_chain(db, b)
             IN  /\ db' = r.db
                 /\ batchOk' = (batchOk /\ ~r.dirty)
                 /\ invalid' = invalid \cup (IF r.bad THEN {b} ELSE {})
      PROVE  /\ Good(db') /\ batchOk' \in BOOLEAN /\ invalid' \subseteq Block
             /\ Len(db'.chain) >= Len(db.chain)
  <2> DEFINE r == handle_block_to_main_chain(db, b)
  <2>1. /\ r.ok \in BOOLEAN /\ r.bad \in BOOLEAN /\ r.dirty \in BOOLEAN
        /\ Good(r.db)
        /\ r.ok => r.db.chain = Append(db.chain, b)
        /\ ~r.ok => r.db.chain = db.chain
    BY <1>3, MainGood
  <2> HIDE DEF r
  <2>2. db' = r.db /\ batchOk' = (batchOk /\ ~r.dirty)
          /\ invalid' = invalid \cup (IF r.bad THEN {b} ELSE {})
    BY <1>5 DEF r
  <2>3. batchOk' \in BOOLEAN
    BY <2>2
  <2>4. invalid' \subseteq Block
    BY <1>3, <2>2
  <2>5. Len(db'.chain) >= Len(db.chain)
    BY <1>3, <2>1, <2>2
  <2> QED BY SMTT(30), <2>1, <2>2, <2>3, <2>4, <2>5
<1>6. CASE SwitchPop
  <2> DEFINE f == [Frame EXCEPT !.old = <<Top(db)>> \o @]
  <2>1. Top(db) \in Block
    BY <1>3 DEF Top
  <2>2. <<Top(db)>> \o Frame.old \in Seq(Block)
    BY <1>4, <2>1
  <2>3. f \in FrameType /\ f.alt = Frame.alt /\ f.i = Frame.i /\ f.phase = "pop"
    BY Zenon, <1>2, <1>6, <2>2 DEF FrameType, SwitchPop, In
  <2> HIDE DEF f
  <2>4. Prev[Frame.alt[1]] \in OnMain(db) /\ Prev[Frame.alt[1]] # Top(db)
    BY <1>2, <1>6 DEF SwitchPop, In, FrameOk
  <2>5. Good(db') /\ Prev[Frame.alt[1]] \in OnMain(db')
    BY <1>3, <1>6, <2>4, StillOnMain, PoppedGood DEF SwitchPop
  <2>6. FrameOk(db', f)
    BY <2>3, <2>5 DEF FrameOk
  <2>7. Resume(f)
    BY <1>6 DEF SwitchPop, f
  <2> QED BY <1>1, <1>2, <1>3, <1>6, <2>3, <2>5, <2>6, <2>7, ResumeInv
          DEF SwitchPop
<1>7. CASE SwitchSplit
  <2> DEFINE f == [Frame EXCEPT !.phase = "connect", !.split = Len(db.chain)]
  <2>1. f \in FrameType /\ f.alt = Frame.alt /\ f.i = Frame.i
          /\ f.phase = "connect" /\ f.split = Len(db.chain)
    BY Zenon, <1>2, <1>3 DEF FrameType
  <2> HIDE DEF f
  <2>2. Resume(f) /\ db' = db
    BY <1>7 DEF SwitchSplit, f
  <2>3. FrameOk(db', f)
    BY <1>3, <2>1, <2>2 DEF FrameOk
  <2> QED BY <1>1, <1>2, <1>3, <1>7, <2>1, <2>2, <2>3, ResumeInv
          DEF SwitchSplit
<1>8. CASE SwitchConnect
  <2> DEFINE r == handle_block_to_main_chain(db, Frame.alt[Frame.i])
             f == IF ~r.ok THEN [Frame EXCEPT !.phase = "rbpop"]
                  ELSE IF Frame.i = Len(Frame.alt)
                       THEN [Frame EXCEPT !.phase = "push"]
                       ELSE [Frame EXCEPT !.i = @ + 1]
  <2>1. Frame.alt[Frame.i] \in Block
    BY <1>2, <1>4
  <2>2. /\ Good(db') /\ batchOk' \in BOOLEAN /\ invalid' \subseteq Block
        /\ Len(db'.chain) >= Len(db.chain) /\ Len(db'.chain) \in Nat
    <3>1. /\ Good(db') /\ batchOk' \in BOOLEAN /\ invalid' \subseteq Block
          /\ Len(db'.chain) >= Len(db.chain)
      BY <1>5, <1>8, <2>1 DEF SwitchConnect
    <3> QED BY SMTT(30), <3>1 DEF Good, DbType
  <2>3. 0 < Frame.split /\ Frame.split <= Len(db.chain)
          /\ Frame.phase = "connect"
    BY <1>2, <1>8 DEF SwitchConnect, In, FrameOk
  <2>4. Resume(f) /\ UNCHANGED <<saved, batch, task, bvc, points, ripe>>
    BY <1>8 DEF SwitchConnect
  <2> HIDE DEF r
  <2>5. f \in FrameType
    <3>1. [Frame EXCEPT !.phase = "rbpop"] \in FrameType
      BY Zenon, <1>2 DEF FrameType
    <3>2. [Frame EXCEPT !.phase = "push"] \in FrameType
      BY Zenon, <1>2 DEF FrameType
    <3>3. Frame.i + 1 \in Nat \ {0}
      BY <1>2 DEF FrameType
    <3>4. [Frame EXCEPT !.i = Frame.i + 1] \in FrameType
      BY Zenon, <1>2, <3>3 DEF FrameType
    <3> QED BY <3>1, <3>2, <3>4
  <2>6. f.i <= Len(f.alt)
    <3>1. CASE f = [Frame EXCEPT !.i = @ + 1] /\ Frame.i # Len(Frame.alt)
      <4>1. f.i = Frame.i + 1 /\ f.alt = Frame.alt
        BY <1>2, <3>1 DEF FrameType
      <4> HIDE DEF f
      <4>2. Frame.i \in Nat /\ Len(Frame.alt) \in Nat
              /\ Frame.i <= Len(Frame.alt) /\ Frame.i # Len(Frame.alt)
        BY <1>2, <1>4, <3>1
      <4> QED BY <4>1, <4>2
    <3>2. CASE f \in {[Frame EXCEPT !.phase = "rbpop"],
                      [Frame EXCEPT !.phase = "push"]}
      <4>1. f.i = Frame.i /\ f.alt = Frame.alt
        BY <1>2, <3>2 DEF FrameType
      <4> QED BY <1>2, <4>1
    <3> QED BY <3>1, <3>2
  <2>7. f.split = Frame.split /\ f.phase # "pop"
    BY <1>2, <2>3 DEF FrameType
  <2> HIDE DEF f
  <2>8. FrameOk(db', f)
    BY <1>3, <1>4, <2>2, <2>3, <2>7 DEF FrameOk
  <2> QED BY <1>1, <2>2, <2>4, <2>5, <2>6, <2>8, ResumeInv
<1>9. CASE RollbackPop
  <2>1. 0 < Frame.split /\ Frame.split <= Len(db.chain)
          /\ Frame.phase = "rbpop"
    BY <1>2, <1>9 DEF RollbackPop, In, FrameOk
  <2>2. UNCHANGED <<saved, batch, batchOk, invalid, task, bvc, points, ripe>>
    BY <1>9 DEF RollbackPop
  <2>3. CASE Len(db.chain) # Frame.split
    <3>1. db' \in Popped(db) /\ frames' = frames
      BY <1>9, <2>3 DEF RollbackPop
    <3>2. Len(db.chain) > 1 /\ Frame.split <= Len(db.chain) - 1
      <4>1. \A m, n \in Nat : 0 < m /\ m <= n /\ n # m => n > 1 /\ m <= n - 1
        OBVIOUS
      <4> QED BY <1>3, <1>4, <2>1, <2>3, <4>1
    <3>3. Good(db') /\ Len(db'.chain) = Len(db.chain) - 1
      BY <1>3, <3>1, <3>2, PoppedGood
    <3>4. FrameOk(db', Frame)
      BY <2>1, <3>2, <3>3 DEF FrameOk
    <3>5. Resume(Frame)
      <4>1. frames \in Seq(FrameType) /\ Len(frames) \in 1 .. Len(frames)
        BY <1>1 DEF IInv, RestType
      <4>2. [frames EXCEPT ![Len(frames)] = frames[Len(frames)]] = frames
        BY <4>1
      <4> QED BY <3>1, <4>2 DEF Resume, Frame
    <3> QED BY <1>1, <1>2, <1>3, <2>2, <3>3, <3>4, <3>5, ResumeInv
  <2>4. CASE Len(db.chain) = Frame.split
    <3> DEFINE f == [Frame EXCEPT !.phase = "rbadd"]
    <3>1. f \in FrameType /\ f.alt = Frame.alt /\ f.i = Frame.i
            /\ f.phase = "rbadd"
      BY Zenon, <1>2 DEF FrameType
    <3> HIDE DEF f
    <3>2. Resume(f) /\ db' = db
      BY <1>9, <2>4 DEF RollbackPop, f
    <3>3. FrameOk(db', f)
      BY <3>1 DEF FrameOk
    <3> QED BY <1>1, <1>2, <1>3, <2>2, <3>1, <3>2, <3>3, ResumeInv
  <2> QED BY <2>3, <2>4
<1>10. CASE RollbackAdd
  <2> DEFINE r == handle_block_to_main_chain(db, Frame.old[Frame.j])
             f == IF r.ok THEN [Frame EXCEPT !.j = @ + 1]
                  ELSE [Frame EXCEPT !.phase = "fail"]
  <2>1. Frame.old[Frame.j] \in Block /\ Frame.phase = "rbadd"
    BY SMTT(30), <1>4, <1>10 DEF RollbackAdd, In
  <2>2. Good(db') /\ batchOk' \in BOOLEAN /\ invalid' \subseteq Block
    BY <1>5, <1>10, <2>1 DEF RollbackAdd
  <2>3. Resume(f) /\ UNCHANGED <<saved, batch, task, bvc, points, ripe>>
    BY <1>10 DEF RollbackAdd
  <2> HIDE DEF r
  <2>4. f \in FrameType
    <3>1. Frame.j + 1 \in Nat \ {0}
      BY <1>4
    <3>2. [Frame EXCEPT !.j = Frame.j + 1] \in FrameType
      BY Zenon, <1>2, <3>1 DEF FrameType
    <3>3. [Frame EXCEPT !.phase = "fail"] \in FrameType
      BY Zenon, <1>2 DEF FrameType
    <3> QED BY <3>2, <3>3
  <2>5. f.i = Frame.i /\ f.alt = Frame.alt
          /\ f.phase \notin {"pop", "connect", "rbpop"}
    BY <1>2, <2>1 DEF FrameType
  <2> HIDE DEF f
  <2>6. FrameOk(db', f) /\ f.i <= Len(f.alt)
    BY <1>2, <2>5 DEF FrameOk
  <2> QED BY <1>1, <2>2, <2>3, <2>4, <2>6, ResumeInv
<1>11. CASE SwitchFail
  <2>1. {Frame.alt[n] : n \in Frame.i .. Len(Frame.alt)} \subseteq Block
    BY <1>4
  <2>2. Good(db') /\ invalid' \subseteq Block
    BY <1>3, <1>11, <2>1, WithoutAltGood DEF SwitchFail
  <2> QED BY Zenon, <1>1, <1>11, <2>2, ReturnInv DEF SwitchFail
<1>12. CASE SwitchPush
  <2> DEFINE f == [Frame EXCEPT !.j = @ + 1]
             rest == [frames EXCEPT ![Len(frames)].j = @ + 1]
  <2>1. Frame.old[Frame.j] \in Block /\ Frame.phase = "push"
    BY <1>4, <1>12 DEF SwitchPush, In
  <2>2. f \in FrameType /\ f.i = Frame.i /\ f.alt = Frame.alt
          /\ f.phase = "push"
    <3>1. Frame.j + 1 \in Nat \ {0}
      BY <1>4
    <3>2. [Frame EXCEPT !.j = Frame.j + 1] \in FrameType
      BY Zenon, <1>2, <3>1 DEF FrameType
    <3>3. f.i = Frame.i /\ f.alt = Frame.alt /\ f.phase = "push"
      BY <1>2, <2>1 DEF FrameType
    <3> QED BY <3>2, <3>3
  <2>3. rest = Append(Below, f)
    BY Zenon, <1>2, <2>2 DEF Frame
  <2>4. CallAlternative(Frame.old[Frame.j], rest)
    BY <1>12 DEF SwitchPush
  <2> HIDE DEF f, rest
  <2>5. rest \in Seq(FrameType)
    BY <1>2, <2>2, <2>3
  <2>6. Waiting(rest)
    <3>1. /\ DOMAIN rest = 1 .. Len(Below) + 1 /\ DOMAIN Below = 1 .. Len(Below)
          /\ rest[Len(Below) + 1] = f /\ Len(Below) \in Nat
          /\ \A n \in 1 .. Len(Below) : rest[n] = Below[n]
      BY <1>2, <2>2, <2>3
    <3>2. ASSUME NEW n \in DOMAIN rest
          PROVE  rest[n].phase = "push" /\ rest[n].i <= Len(rest[n].alt)
      <4>1. CASE n \in 1 .. Len(Below)
        BY <1>2, <3>1, <4>1 DEF Waiting
      <4>2. CASE n = Len(Below) + 1
        BY <1>2, <2>2, <3>1, <4>2
      <4> QED BY <3>1, <4>1, <4>2
    <3> QED BY <3>2 DEF Waiting
  <2> QED BY <1>2, <2>1, <2>4, <2>5, <2>6, CallInv
<1>13. CASE SwitchDone
  <2>1. Good(db') /\ invalid' \subseteq Block
    BY <1>3, <1>13, WithoutAltGood DEF SwitchDone
  <2> QED BY Zenon, <1>1, <1>13, <2>1, ReturnInv DEF SwitchDone
<1> QED BY <1>6, <1>7, <1>8, <1>9, <1>10, <1>11, <1>12, <1>13 DEF SwitchStep
-----------------------------------------------------------------------------
(* The invariant is inductive.                                             *)
LEMMA NextInv == IInv /\ [Next]_vars => IInv'
<1> SUFFICES ASSUME IInv, [Next]_vars PROVE IInv'
  OBVIOUS
<1>1. CASE UNCHANGED vars
  <2>1. RestType' /\ Good(db') /\ Good(saved')
    BY SMTT(30), <1>1 DEF vars, IInv, RestType
  <2>2. CallsInOrder'
    BY <1>1 DEF vars, IInv, CallsInOrder, Frame, Idle
  <2> QED BY <2>1, <2>2 DEF IInv
<1>2. CASE Next
  <2>1. CASE prepare_handle_incoming_blocks \/ cleanup_handle_incoming_blocks
    BY <2>1, BatchStepInv
  <2>2. CASE \E b \in Block \ {Genesis} : add_new_block(b)
    BY <2>2, AddBlockInv
  <2>3. CASE SwitchStep
    BY <2>3, SwitchStepInv
  <2>4. CASE \/ \E n \in 1 .. Len(db.chain) : PopBlocks(n)
             \/ \E S \in SUBSET DOMAIN CheckpointTable : update_checkpoints(S)
             \/ TaskStep
    BY <2>4, TaskStepInv
  <2>5. CASE \/ flush_invalid_blocks
             \/ \E t \in Tx : AddTx(t) \/ DropTx(t)
             \/ \E b \in Block : TimePasses(b)
             \/ Crash
    BY <2>5, OutsideStepInv
  <2> QED BY <1>2, <2>1, <2>2, <2>3, <2>4, <2>5 DEF Next
<1> QED BY <1>1, <1>2

(* The inductive invariant holds in every state.                           *)
THEOREM Invariance == Spec => []IInv
BY InitInv, NextInv, PTL DEF Spec

(* Every variable keeps its type through every call, every nested switch,  *)
(* every rollback and every crash, for every tree of blocks.               *)
THEOREM TypeCorrect == Spec => []TypeOK
<1>1. IInv => TypeOK
  BY DEF IInv, Good, RestType, TypeOK
<1> QED BY <1>1, Invariance, PTL

(* The main chain is the path of the block tree from the genesis block to  *)
(* its top block at every step, in the batch and in the committed          *)
(* database: no order of pops, connections, rollbacks, nested switches and *)
(* crashes leaves a gap in it or a gyro without a block.                   *)
THEOREM ChainAlwaysLinked == Spec => []ChainLinked
<1>1. IInv => ChainLinked
  BY DEF IInv, Good, ChainLinked
<1> QED BY <1>1, Invariance, PTL

(* Switches nest properly, one that pops will meet the parent of its       *)
(* chain, one that connects or rolls back never goes below its split       *)
(* height, and pop_blocks never reaches the genesis block.                 *)
THEOREM CallsAlwaysInOrder == Spec => []CallsInOrder
<1>1. IInv => CallsInOrder
  BY DEF IInv
<1> QED BY <1>1, Invariance, PTL
-----------------------------------------------------------------------------
(* What holds even in a batch in which add_block has thrown: the table     *)
(* covers the blocks of the chain, and they share no transaction.          *)
Placed(d) ==
  /\ \A i \in DOMAIN d.chain : BlockTxSet(d.chain[i]) \subseteq d.txs
  /\ \A i, j \in DOMAIN d.chain :
       i # j => BlockTxSet(d.chain[i]) \cap BlockTxSet(d.chain[j]) = {}

(* The table holds nothing else, and is disjoint from the pool.            *)
NoMore(d) ==
  /\ \A t \in d.txs : \E i \in DOMAIN d.chain : t \in BlockTxSet(d.chain[i])
  /\ \A t \in d.pool : t \notin d.txs

Clean(d) == NoMore(d) /\ SpentOnce(d)

(* The inductive invariant: a batch that pop_blocks or nobody has open is  *)
(* clean, and so is what a commit would save.                              *)
TxInv ==
  /\ batch \/ batchOk
  /\ task.kind = "pop" => batchOk
  /\ Placed(db) /\ Placed(saved)
  /\ batchOk => Clean(db)
  /\ Clean(saved)

(* Steps that touch neither the chain nor the table, or only add to the    *)
(* table.                                                                  *)
Quiet(d, e) ==
  /\ e.chain = d.chain /\ e.txs = d.txs
  /\ \A t \in e.pool : t \in d.pool \/ t \notin d.txs
Torn(d, e) == e.chain = d.chain /\ d.txs \subseteq e.txs

(* What handle_block_to_main_chain has checked before it appends b.        *)
Checked(d, b) ==
  /\ b \in Block \ {Genesis} /\ Prev[b] = Top(d)
  /\ CheckpointOk(Len(d.chain), b)
  /\ TakingStops(d, b) = {} /\ ImageTwice(b) = {}
-----------------------------------------------------------------------------
(* Appending a checked block keeps the table exact.                        *)
LEMMA AppendedPlaced ==
  ASSUME NEW d, Good(d), Placed(d), NEW b, Checked(d, b), NEW spin \in Int
  PROVE  /\ Placed(Appended(d, b, spin))
         /\ Clean(d) => Clean(Appended(d, b, spin))
<1> DEFINE e == Appended(d, b, spin)
           n == Len(d.chain)
<1>1. d.chain \in Seq(Block) /\ n \in Nat /\ DOMAIN d.chain = 1 .. n
  <2>1. d.chain \in Seq(Block)
    BY Zenon DEF Good, DbType
  <2> QED BY <2>1
<1>2. /\ e.chain = Append(d.chain, b)
      /\ e.txs = d.txs \cup BlockTxSet(b) /\ e.pool = d.pool \ BlockTxSet(b)
  BY DEF Appended
<1>3. /\ DOMAIN e.chain = 1 .. n + 1 /\ e.chain[n + 1] = b
      /\ \A i \in 1 .. n : e.chain[i] = d.chain[i]
  <2> HIDE DEF e
  <2>1. b \in Block
    BY DEF Checked
  <2> DEFINE c == Append(d.chain, b)
  <2>2. /\ DOMAIN c = 1 .. n + 1 /\ c[n + 1] = b
        /\ \A i \in 1 .. n : c[i] = d.chain[i]
    BY <1>1, <2>1
  <2>3. e.chain = c
    BY Zenon, <1>2
  <2> HIDE DEF c
  <2> QED BY Zenon, <2>2, <2>3
<1>4. ASSUME NEW t \in BlockTxSet(b)
      PROVE  t \notin d.txs /\ Image[t] \notin Spent(d)
  BY Zenon DEF Checked, TakingStops, BlockTxSet
<1>5. \A t, u \in BlockTxSet(b) : Image[t] = Image[u] => t = u
  <2> SUFFICES ASSUME NEW t \in BlockTxSet(b), NEW u \in BlockTxSet(b),
                      Image[t] = Image[u]
               PROVE  t = u
    OBVIOUS
  <2>0. PICK i \in DOMAIN BlockTxs[b], j \in DOMAIN BlockTxs[b] :
          t = BlockTxs[b][i] /\ u = BlockTxs[b][j]
    BY DEF BlockTxSet
  <2>1. i \in Nat /\ j \in Nat /\ i > 0 /\ j > 0
    <3>1. BlockTxs[b] \in Seq(Tx)
      BY Zenon, BlockAssumption DEF Checked
    <3> QED BY <3>1
  <2>2. ~(j \in 1 .. i - 1) /\ ~(i \in 1 .. j - 1)
    BY Zenon, <2>0 DEF Checked, ImageTwice
  <2>3. i = j
    BY <2>1, <2>2
  <2> QED BY <2>0, <2>3
<1> HIDE DEF e, n
<1>6. \A i \in 1 .. n : BlockTxSet(e.chain[i]) \cap BlockTxSet(b) = {}
  BY <1>1, <1>3, <1>4 DEF Placed
<1>7. Placed(e)
  <2>1. \A i \in DOMAIN e.chain : BlockTxSet(e.chain[i]) \subseteq e.txs
    <3> TAKE i \in DOMAIN e.chain
    <3>1. CASE i \in 1 .. n
      BY <1>1, <1>2, <1>3, <3>1 DEF Placed
    <3>2. CASE i = n + 1
      BY <1>2, <1>3, <3>2
    <3> QED BY <1>1, <1>3, <3>1, <3>2
  <2>2. ASSUME NEW i \in DOMAIN e.chain, NEW j \in DOMAIN e.chain, i # j
        PROVE  BlockTxSet(e.chain[i]) \cap BlockTxSet(e.chain[j]) = {}
    <3>1. CASE i \in 1 .. n /\ j \in 1 .. n
      BY Zenon, <1>1, <1>3, <2>2, <3>1 DEF Placed
    <3>2. CASE i = n + 1 /\ j \in 1 .. n
      BY <1>3, <1>6, <3>2
    <3>3. CASE j = n + 1 /\ i \in 1 .. n
      BY <1>3, <1>6, <3>3
    <3> QED BY <1>1, <1>3, <2>2, <3>1, <3>2, <3>3
  <2> QED BY <2>1, <2>2 DEF Placed
<1>8. ASSUME Clean(d) PROVE Clean(e)
  <2>1. \A t \in e.txs : \E i \in DOMAIN e.chain : t \in BlockTxSet(e.chain[i])
    <3> TAKE t \in e.txs
    <3>1. CASE t \in d.txs
      <4>1. PICK i \in 1 .. n : t \in BlockTxSet(d.chain[i])
        BY <1>1, <1>8, <3>1 DEF Clean, NoMore
      <4> QED BY <1>1, <1>3, <4>1
    <3>2. CASE t \in BlockTxSet(b)
      BY <1>1, <1>3, <3>2
    <3> QED BY <1>2, <3>1, <3>2
  <2>2. \A t \in e.pool : t \notin e.txs
    BY Zenon, <1>2, <1>8 DEF Clean, NoMore
  <2>3. SpentOnce(e)
    <3> SUFFICES ASSUME NEW t \in e.txs, NEW u \in e.txs, Image[t] = Image[u]
                 PROVE  t = u
      BY DEF SpentOnce
    <3>1. CASE t \in d.txs /\ u \in d.txs
      BY Zenon, <1>8, <3>1 DEF Clean, SpentOnce
    <3>2. CASE t \in BlockTxSet(b) /\ u \in BlockTxSet(b)
      BY Zenon, <1>5, <3>2
    <3>3. ASSUME NEW x \in d.txs, NEW y \in BlockTxSet(b) PROVE Image[x] # Image[y]
      BY Zenon, <1>4, <3>3 DEF Spent
    <3> QED BY Zenon, <1>2, <3>1, <3>2, <3>3
  <2> QED BY <2>1, <2>2, <2>3 DEF Clean, NoMore
<1> QED BY <1>7, <1>8 DEF e

(* Popping a block keeps the table exact, whatever record is read.         *)
LEMMA PoppedPlaced ==
  ASSUME NEW d, Good(d), Placed(d), Len(d.chain) > 1, NEW e \in Popped(d)
  PROVE  Placed(e) /\ (Clean(d) => Clean(e))
<1> DEFINE b == Top(d)
           n == Len(d.chain)
<1>1. d.chain \in Seq(Block) /\ n \in Nat /\ DOMAIN d.chain = 1 .. n /\ n > 1
      /\ d.chain[n] = b
  <2>1. d.chain \in Seq(Block)
    BY Zenon DEF Good, DbType
  <2> QED BY <2>1 DEF Top
<1>2. /\ e.chain = SubSeq(d.chain, 1, n - 1)
      /\ e.txs = d.txs \ BlockTxSet(b) /\ e.pool = d.pool \cup BlockTxSet(b)
  BY Zenon DEF Popped, PoppedReading, Good, DbType
<1>3. /\ DOMAIN e.chain = 1 .. n - 1
      /\ \A i \in 1 .. n - 1 : e.chain[i] = d.chain[i]
  <2>1. e.chain \in Seq(Block) /\ Len(e.chain) = n - 1
    BY <1>1, <1>2, FrontSeq
  <2> QED BY <1>1, <1>2, <2>1, FrontSeq
<1> HIDE DEF b, n
<1>4. \A i \in 1 .. n - 1 : BlockTxSet(e.chain[i]) \cap BlockTxSet(b) = {}
  <2> TAKE i \in 1 .. n - 1
  <2>1. i \in DOMAIN d.chain /\ n \in DOMAIN d.chain /\ i # n
    BY <1>1
  <2>2. BlockTxSet(d.chain[i]) \cap BlockTxSet(d.chain[n]) = {}
    BY Zenon, <2>1 DEF Placed
  <2> QED BY <1>1, <1>3, <2>2
<1>5. Placed(e)
  <2>1. \A i \in 1 .. n - 1 : i \in DOMAIN d.chain
    BY <1>1
  <2> QED BY Zenon, <1>2, <1>3, <1>4, <2>1 DEF Placed
<1>6. ASSUME Clean(d) PROVE Clean(e)
  <2>1. \A t \in e.txs : \E i \in DOMAIN e.chain : t \in BlockTxSet(e.chain[i])
    <3> TAKE t \in e.txs
    <3>1. t \in d.txs /\ t \notin BlockTxSet(b)
      BY <1>2
    <3>2. PICK i \in DOMAIN d.chain : t \in BlockTxSet(d.chain[i])
      BY Zenon, <1>6, <3>1 DEF Clean, NoMore
    <3>3. i # n
      BY Zenon, <1>1, <3>1, <3>2
    <3>4. i \in 1 .. n - 1
      BY <1>1, <3>3
    <3> QED BY Zenon, <1>3, <3>2, <3>4
  <2>2. \A t \in e.pool : t \notin e.txs
    BY Zenon, <1>2, <1>6 DEF Clean, NoMore
  <2>3. SpentOnce(e)
    BY Zenon, <1>2, <1>6 DEF Clean, SpentOnce
  <2> QED BY <2>1, <2>2, <2>3 DEF Clean, NoMore
<1> QED BY <1>5, <1>6

(* A step that leaves the chain and the table alone keeps both.            *)
LEMMA QuietPlaced ==
  ASSUME NEW d, NEW e, Quiet(d, e), Placed(d)
  PROVE  Placed(e) /\ (Clean(d) => Clean(e))
BY Zenon DEF Quiet, Placed, Clean, NoMore, SpentOnce

(* A half-written block is covered.                                        *)
LEMMA TornPlaced ==
  ASSUME NEW d, NEW e, Torn(d, e), Placed(d)
  PROVE  Placed(e)
BY Zenon DEF Torn, Placed
-----------------------------------------------------------------------------
(* handle_block_to_main_chain appends a block it has checked, or leaves    *)
(* the chain and the table alone, or throws and leaves the table torn.     *)
LEMMA MainTx ==
  ASSUME NEW d, Good(d), NEW b \in Block
  PROVE  LET r == handle_block_to_main_chain(d, b)
         IN  \/ ~r.dirty /\ Quiet(d, r.db)
             \/ r.dirty /\ Torn(d, r.db)
             \/ /\ ~r.dirty /\ Checked(d, b)
                /\ \E spin \in Int : r.db = Appended(d, b, spin)
<1> DEFINE r == handle_block_to_main_chain(d, b)
           Shape(o) ==
             \/ ~o.dirty /\ Quiet(d, o.db)
             \/ o.dirty /\ Torn(d, o.db)
             \/ /\ ~o.dirty /\ Checked(d, b)
                /\ \E spin \in Int : o.db = Appended(d, b, spin)
           late == Height(b) > START_AMOUNT_BLOCKS
<1>1. ASSUME NEW P, \A t \in P : t \in d.pool
      PROVE  Quiet(d, d) /\ Quiet(d, [d EXCEPT !.pool = P])
  BY Zenon, <1>1 DEF Quiet, Good, DbType
<1>2. Shape(Rejected(d))
  BY Zenon, <1>1 DEF Rejected, Outcome
<1>3. Shape(TakingStopped(d, b))
  <2>1. ASSUME NEW t
        PROVE  Shape(Outcome(FALSE, [d EXCEPT !.pool = @ \ {t}], FALSE, FALSE))
    BY Zenon, <1>1 DEF Outcome
  <2>2. Shape(Outcome(FALSE, d, TRUE, FALSE))
    BY Zenon, <1>1 DEF Outcome
  <2> HIDE DEF Shape
  <2> QED BY Zenon, <1>2, <2>1, <2>2 DEF TakingStopped
<1>4. Shape(Outcome(FALSE, [d EXCEPT !.pool = @ \ BlockTxSet(b)], FALSE, FALSE))
  BY Zenon, <1>1 DEF Outcome
<1>5. Shape(Outcome(FALSE, HalfWritten(d, b), FALSE, TRUE))
  <2>1. Torn(d, HalfWritten(d, b))
    BY Zenon DEF Torn, HalfWritten, Good, DbType
  <2> QED BY Zenon, <2>1 DEF Outcome
<1>6. ASSUME Checked(d, b), late => Proof[b] \in d.txs /\ SpinUnlocked(d, b)
      PROVE  Shape(Outcome(TRUE,
               Appended(d, b, IF late THEN get_spin(d, b) ELSE DefaultSpin),
               FALSE, FALSE))
  <2>1. (IF late THEN get_spin(d, b) ELSE DefaultSpin) \in Int
    BY <1>6, SpinType DEF DefaultSpin
  <2> HIDE DEF late
  <2> QED BY Zenon, <2>1, <1>6 DEF Outcome
<1>7. Shape(r)
  <2> HIDE DEF Shape
  <2> QED BY Zenon, <1>2, <1>3, <1>4, <1>5, <1>6
          DEF handle_block_to_main_chain, Checked
<1> QED BY <1>7

(* What a step does to the database of the batch ...                       *)
TxStep ==
  \/ Quiet(db, db') /\ (batchOk' => batchOk \/ ~batch)
  \/ Torn(db, db') /\ ~batchOk'
  \/ db' = saved /\ saved' = saved /\ (points' = {} \/ (~batchOk /\ batchOk'))
  \/ Len(db.chain) > 1 /\ db' \in Popped(db) /\ batchOk' = batchOk
  \/ /\ batchOk' = batchOk
     /\ \E b \in Block, spin \in Int :
          Checked(db, b) /\ db' = Appended(db, b, spin)
(* ... and to the committed one.                                           *)
SaveStep ==
  \/ saved' = saved
  \/ saved' = db' /\ db'.chain = db.chain /\ (batchOk \/ ~batch) /\ batchOk'

(* handle_block_to_main_chain makes such a step.                           *)
LEMMA MainTxStep ==
  ASSUME IInv, NEW b \in Block,
         db' = handle_block_to_main_chain(db, b).db,
         batchOk' = (batchOk /\ ~handle_block_to_main_chain(db, b).dirty)
  PROVE  TxStep
<1> DEFINE r == handle_block_to_main_chain(db, b)
<1>1. \/ ~r.dirty /\ Quiet(db, r.db)
      \/ r.dirty /\ Torn(db, r.db)
      \/ /\ ~r.dirty /\ Checked(db, b)
         /\ \E spin \in Int : r.db = Appended(db, b, spin)
  BY Zenon, MainTx DEF IInv
<1>2. db' = r.db /\ batchOk' = (batchOk /\ ~r.dirty) /\ batchOk \in BOOLEAN
  BY DEF IInv, RestType
<1> HIDE DEF r
<1> QED BY Zenon, <1>1, <1>2 DEF TxStep

(* So does handle_alternative_block.                                       *)
LEMMA AltTxStep ==
  ASSUME IInv, NEW b, NEW rest, CallAlternative(b, rest)
  PROVE  TxStep
<1> DEFINE r == handle_alternative_block(db, b)
           g == AddSpin(ParentGyro(db, b), get_spin(db, b))
<1>1. r.db = db \/ r.db = WithAlt(db, b, g)
  BY Zenon DEF handle_alternative_block, Decision
<1>2. Quiet(db, WithAlt(db, b, g)) /\ Quiet(db, db)
  BY DEF Quiet, WithAlt, IInv, Good, DbType
<1>3. db' = r.db /\ batchOk' = batchOk
  BY Zenon DEF CallAlternative
<1> HIDE DEF r, g
<1>4. Quiet(db, db')
  BY Zenon, <1>1, <1>2, <1>3
<1> QED BY Zenon, <1>3, <1>4 DEF TxStep

(* And every step of a switch, which leaves the batch flags to the blocks. *)
LEMMA SwitchTxStep ==
  ASSUME IInv, SwitchStep
  PROVE  TxStep /\ saved' = saved /\ task' = task /\ batch' = batch
<1>0. frames # <<>> /\ Good(db) /\ Frame \in FrameType
        /\ Frame.i <= Len(Frame.alt) /\ FrameOk(db, Frame)
        /\ Len(db.chain) \in Nat /\ Len(db.chain) > 0
  <2>1. frames # <<>>
    BY Zenon DEF SwitchStep, SwitchPop, SwitchSplit, SwitchConnect, RollbackPop,
           RollbackAdd, SwitchFail, SwitchPush, SwitchDone, In
  <2>2. Len(db.chain) \in Nat /\ Len(db.chain) > 0
    BY DEF IInv, Good, DbType
  <2> QED BY <2>1, <2>2, StackTop DEF IInv
<1>1. saved' = saved /\ task' = task /\ batch' = batch
  BY Zenon DEF SwitchStep, SwitchPop, SwitchSplit, SwitchConnect, RollbackPop,
         RollbackAdd, SwitchFail, SwitchPush, SwitchDone, CallAlternative
<1>2. Quiet(db, db)
  BY DEF Quiet
<1>3. CASE SwitchPop
  <2>1. Prev[Frame.alt[1]] \in OnMain(db) /\ Prev[Frame.alt[1]] # Top(db)
    BY <1>0, <1>3 DEF SwitchPop, In, FrameOk
  <2>2. Len(db.chain) > 1
    BY <1>0, <2>1, StillOnMain
  <2> QED BY Zenon, <1>1, <1>3, <2>2 DEF SwitchPop, TxStep
<1>4. CASE SwitchSplit
  BY Zenon, <1>1, <1>2, <1>4 DEF SwitchSplit, TxStep
<1>5. CASE SwitchConnect
  <2>1. Frame.alt[Frame.i] \in Block
    BY <1>0 DEF FrameType
  <2>2. TxStep
    BY Zenon, <1>5, <2>1, MainTxStep DEF SwitchConnect
  <2> QED BY <1>1, <2>2
<1>6. CASE RollbackPop
  <2>1. CASE Len(db.chain) # Frame.split
    <3>1. 0 < Frame.split /\ Frame.split <= Len(db.chain) /\ Frame.split \in Nat
      BY <1>0, <1>6 DEF RollbackPop, In, FrameOk, FrameType
    <3>2. \A m, n \in Nat : 0 < m /\ m <= n /\ n # m => n > 1
      OBVIOUS
    <3>3. Len(db.chain) > 1
      BY <1>0, <2>1, <3>1, <3>2
    <3> QED BY Zenon, <1>1, <1>6, <2>1, <3>3 DEF RollbackPop, TxStep
  <2>2. CASE Len(db.chain) = Frame.split
    BY Zenon, <1>1, <1>2, <1>6, <2>2 DEF RollbackPop, TxStep
  <2> QED BY <2>1, <2>2
<1>7. CASE RollbackAdd
  <2>1. Frame.old[Frame.j] \in Block
    BY <1>0, <1>7 DEF RollbackAdd, FrameType
  <2>2. TxStep
    BY Zenon, <1>7, <2>1, MainTxStep DEF RollbackAdd
  <2> QED BY <1>1, <2>2
<1>8. ASSUME NEW S, db' = WithoutAlt(db, S), batchOk' = batchOk PROVE TxStep
  <2>1. Quiet(db, WithoutAlt(db, S))
    BY <1>0 DEF Quiet, WithoutAlt, Good, DbType
  <2> QED BY Zenon, <1>8, <2>1 DEF TxStep
<1>9. CASE SwitchFail
  BY <1>1, <1>8, <1>9 DEF SwitchFail
<1>10. CASE SwitchPush
  BY <1>1, <1>10, AltTxStep DEF SwitchPush
<1>11. CASE SwitchDone
  BY <1>1, <1>8, <1>11 DEF SwitchDone
<1> QED BY <1>3, <1>4, <1>5, <1>6, <1>7, <1>9, <1>10, <1>11 DEF SwitchStep

(* And every step; a commit happens only in a batch without a failure.     *)
LEMMA EveryTxStep ==
  ASSUME IInv, TxInv, [Next]_vars
  PROVE  /\ TxStep /\ SaveStep
         /\ batch' \/ batchOk'
         /\ task'.kind = "pop" => batchOk'
<1>0. /\ Good(db) /\ Len(db.chain) \in Nat /\ Len(db.chain) > 0
      /\ batchOk \in BOOLEAN /\ batch \in BOOLEAN
      /\ batch \/ batchOk
      /\ task.kind = "pop" => batchOk
      /\ NoTask.kind # "pop" /\ Quiet(db, db)
      /\ frames # <<>> => task = NoTask
  <2>1. Good(db) /\ Len(db.chain) \in Nat /\ Len(db.chain) > 0
    BY DEF IInv, Good, DbType
  <2>2. NoTask.kind # "pop" /\ Quiet(db, db)
    BY DEF NoTask, Quiet
  <2> QED BY Zenon, <2>1, <2>2 DEF IInv, RestType, TxInv, CallsInOrder
<1>1. CASE UNCHANGED vars
  BY Zenon, <1>0, <1>1 DEF vars, TxStep, SaveStep
<1>2. CASE prepare_handle_incoming_blocks
  BY Zenon, <1>0, <1>2 DEF prepare_handle_incoming_blocks, TxStep, SaveStep
<1>3. CASE cleanup_handle_incoming_blocks
  <2>1. task.kind # "pop"
    BY Zenon, <1>0, <1>3 DEF cleanup_handle_incoming_blocks, Idle
  <2>2. CASE batchOk
    BY Zenon, <1>0, <1>3, <2>1, <2>2
       DEF cleanup_handle_incoming_blocks, TxStep, SaveStep
  <2>3. CASE ~batchOk
    BY Zenon, <1>0, <1>3, <2>1, <2>3
       DEF cleanup_handle_incoming_blocks, TxStep, SaveStep
  <2> QED BY <2>2, <2>3
<1>4. CASE \E b \in Block \ {Genesis} : add_new_block(b)
  <2>1. PICK b \in Block \ {Genesis} : add_new_block(b)
    BY <1>4
  <2>2. /\ saved' = saved /\ batch' = batch /\ task' = task
        /\ batch /\ task = NoTask
    BY Zenon, <2>1 DEF add_new_block, AddKnown, AddToMain, AddAlternative,
                       CallAlternative, Idle
  <2>3. TxStep
    <3>1. CASE AddKnown(b)
      BY Zenon, <1>0, <3>1 DEF AddKnown, TxStep
    <3>2. CASE AddToMain(b)
      BY Zenon, <3>2, MainTxStep DEF AddToMain
    <3>3. CASE AddAlternative(b)
      BY Zenon, <3>3, AltTxStep DEF AddAlternative
    <3> QED BY <2>1, <3>1, <3>2, <3>3 DEF add_new_block
  <2> QED BY Zenon, <1>0, <2>2, <2>3 DEF SaveStep
<1>5. CASE SwitchStep
  <2>1. frames # <<>>
    BY Zenon, <1>5 DEF SwitchStep, SwitchPop, SwitchSplit, SwitchConnect,
           RollbackPop, RollbackAdd, SwitchFail, SwitchPush, SwitchDone, In
  <2>2. batch
    BY Zenon, <2>1 DEF IInv, CallsInOrder, Idle
  <2> QED BY Zenon, <1>0, <1>5, <2>1, <2>2, SwitchTxStep DEF SaveStep
<1>6. CASE PopStep
  <2>1. task.left \in Nat /\ task.left > 0 /\ task.left < Len(db.chain)
    BY <1>6 DEF PopStep, IInv, RestType, TaskType, CallsInOrder
  <2>2. Len(db.chain) > 1
    BY <1>0, <2>1
  <2> QED BY Zenon, <1>0, <1>6, <2>2 DEF PopStep, TxStep, SaveStep
<1>7. CASE CheckRollback
  <2>0. \A n \in Nat : n > 0 /\ n # 1 => n > 1
    OBVIOUS
  <2>1. Len(db.chain) # 1 => Len(db.chain) > 1
    BY Zenon, <1>0, <2>0
  <2>2. saved' = saved /\ batch' = batch /\ batchOk' = batchOk
        /\ task.kind = "check"
    BY <1>7 DEF CheckRollback
  <2>3. batch
    <3>1. NoTask.kind # "check"
      BY DEF NoTask
    <3> QED BY Zenon, <2>2, <3>1 DEF IInv, CallsInOrder, Idle
  <2>4. task'.kind # "pop"
    <3>1. task'= task \/ task' = NoTask \/ task' = [task EXCEPT !.to = -1]
      BY Zenon, <1>7 DEF CheckRollback
    <3>2. [task EXCEPT !.to = -1].kind = task.kind
      BY DEF IInv, RestType, TaskType
    <3>3. task.kind # "pop"
      BY <2>2
    <3> QED BY Zenon, <1>0, <3>1, <3>2, <3>3
  <2>5. TxStep
    <3>1. db' = db \/ (Len(db.chain) # 1 /\ db' \in Popped(db))
      BY Zenon, <1>7 DEF CheckRollback
    <3>2. CASE db' = db
      BY Zenon, <1>0, <2>2, <3>2 DEF TxStep
    <3>3. CASE Len(db.chain) # 1 /\ db' \in Popped(db)
      BY Zenon, <2>1, <2>2, <3>3 DEF TxStep
    <3> QED BY Zenon, <3>1, <3>2, <3>3
  <2> QED BY Zenon, <2>2, <2>3, <2>4, <2>5 DEF SaveStep
<1>8. CASE PopDone
  BY Zenon, <1>0, <1>8 DEF PopDone, TxStep, SaveStep
<1>9. CASE CheckPoint \/ CheckDone
  <2>1. /\ UNCHANGED <<db, saved, batch, batchOk>> /\ task.kind = "check"
    BY Zenon, <1>9 DEF CheckPoint, CheckDone
  <2>2. task'.kind # "pop"
    <3>1. ASSUME NEW T, NEW n
          PROVE  /\ [task EXCEPT !.todo = T].kind = task.kind
                 /\ [[task EXCEPT !.todo = T] EXCEPT !.to = n].kind = task.kind
      BY DEF IInv, RestType, TaskType
    <3>2. CASE CheckDone
      BY Zenon, <1>0, <3>2 DEF CheckDone
    <3>3. CASE CheckPoint
      BY Zenon, <1>0, <2>1, <3>1, <3>3 DEF CheckPoint
    <3> QED BY <1>9, <3>2, <3>3
  <2> QED BY Zenon, <1>0, <2>1, <2>2 DEF TxStep, SaveStep
<1>10. CASE \E n \in 1 .. Len(db.chain) : PopBlocks(n)
  BY Zenon, <1>0, <1>10 DEF PopBlocks, TxStep, SaveStep
<1>11. CASE \E S \in SUBSET DOMAIN CheckpointTable : update_checkpoints(S)
  <2>1. UNCHANGED <<db, saved, batch, batchOk>> /\ batch
    BY Zenon, <1>11 DEF update_checkpoints
  <2>2. task'.kind # "pop"
    BY <1>11 DEF update_checkpoints, NoTask
  <2> QED BY Zenon, <1>0, <2>1, <2>2 DEF TxStep, SaveStep
<1>12. CASE flush_invalid_blocks \/ \E b \in Block : TimePasses(b)
  <2>1. UNCHANGED <<db, saved, batch, batchOk, task>>
    BY Zenon, <1>12 DEF flush_invalid_blocks, TimePasses
  <2> QED BY Zenon, <1>0, <2>1 DEF TxStep, SaveStep
<1>13. CASE Crash
  BY Zenon, <1>0, <1>13 DEF Crash, TxStep, SaveStep
<1>14. CASE \E t \in Tx : AddTx(t) \/ DropTx(t)
  <2>1. PICK t \in Tx : AddTx(t) \/ DropTx(t)
    BY <1>14
  <2>2. /\ UNCHANGED <<batch, batchOk, task>>
        /\ saved' = saved \/ (~batch /\ saved' = db')
    BY Zenon, <2>1 DEF AddTx, DropTx
  <2>3. Quiet(db, db') /\ db'.chain = db.chain
    BY <1>0, <2>1 DEF AddTx, DropTx, Quiet, Good, DbType
  <2> QED BY Zenon, <1>0, <2>2, <2>3 DEF TxStep, SaveStep
<1> QED BY <1>1, <1>2, <1>3, <1>4, <1>5, <1>6, <1>7, <1>8, <1>9, <1>10, <1>11,
           <1>12, <1>13, <1>14 DEF Next, TaskStep
-----------------------------------------------------------------------------
(* The invariant holds at the start.                                       *)
LEMMA InitTxInv == Init => TxInv
<1> SUFFICES ASSUME Init PROVE TxInv
  OBVIOUS
<1>1. db.chain = <<Genesis>> /\ db.txs = {} /\ db.pool = {}
  BY DEF Init, GenesisDb
<1>2. DOMAIN db.chain = {1} /\ db.chain[1] = Genesis
  BY <1>1
<1>3. BlockTxSet(Genesis) = {}
  <2>1. BlockTxs[Genesis] = <<>>
    BY Zenon, BlockAssumption
  <2> QED BY <2>1 DEF BlockTxSet
<1>4. Placed(db)
  BY Zenon, <1>1, <1>2, <1>3 DEF Placed
<1>5. Clean(db)
  BY Zenon, <1>1 DEF Clean, NoMore, SpentOnce
<1>6. NoTask.kind # "pop"
  BY DEF NoTask
<1> QED BY Zenon, <1>4, <1>5, <1>6 DEF Init, TxInv

(* Every step keeps it.                                                    *)
LEMMA NextTxInv ==
  ASSUME IInv, TxInv, [Next]_vars
  PROVE  TxInv'
<1>1. /\ TxStep /\ SaveStep
      /\ batch' \/ batchOk'
      /\ task'.kind = "pop" => batchOk'
  BY EveryTxStep
<1>2. /\ Good(db) /\ Placed(db) /\ Placed(saved) /\ Clean(saved)
      /\ batchOk => Clean(db)
      /\ batch \/ batchOk
  BY Zenon DEF IInv, TxInv
<1>3. Placed(db') /\ (batchOk' => Clean(db'))
  <2>1. CASE Quiet(db, db') /\ (batchOk' => batchOk \/ ~batch)
    BY Zenon, <1>2, <2>1, QuietPlaced
  <2>2. CASE Torn(db, db') /\ ~batchOk'
    BY Zenon, <1>2, <2>2, TornPlaced
  <2>3. CASE db' = saved
    BY Zenon, <1>2, <2>3
  <2>4. CASE Len(db.chain) > 1 /\ db' \in Popped(db) /\ batchOk' = batchOk
    BY Zenon, <1>2, <2>4, PoppedPlaced
  <2>5. CASE /\ batchOk' = batchOk
             /\ \E b \in Block, spin \in Int :
                  Checked(db, b) /\ db' = Appended(db, b, spin)
    <3>1. PICK b \in Block, spin \in Int :
            Checked(db, b) /\ db' = Appended(db, b, spin)
      BY Zenon, <2>5
    <3> QED BY Zenon, <1>2, <2>5, <3>1, AppendedPlaced
  <2> QED BY Zenon, <1>1, <2>1, <2>2, <2>3, <2>4, <2>5 DEF TxStep
<1>4. Placed(saved') /\ Clean(saved')
  BY Zenon, <1>1, <1>2, <1>3 DEF SaveStep
<1> QED BY Zenon, <1>1, <1>3, <1>4 DEF TxInv, Placed, Clean, NoMore, SpentOnce

(* The inductive invariant of the transaction tables holds in every        *)
(* reachable state (take_tx loop of handle_block_to_main_chain, add_block, *)
(* remove_block and the batch around them).                                *)
THEOREM TxInvariance == Spec => []TxInv
<1>1. ASSUME IInv, TxInv, [Next]_vars PROVE TxInv'
  BY <1>1, NextTxInv
<1> QED BY <1>1, InitTxInv, Invariance, PTL DEF Spec

(* The transaction table is that of the main chain, in a batch without a   *)
(* failure and in what is committed.                                       *)
THEOREM TxTableAlwaysExact == Spec => []TxTableExact
<1>1. ASSUME NEW d, Placed(d), Clean(d) PROVE TxTable(d)
  <2>1. d.txs = UNION {BlockTxSet(d.chain[i]) : i \in DOMAIN d.chain}
    BY <1>1 DEF Placed, Clean, NoMore
  <2>2. d.pool \cap d.txs = {}
    BY <1>1 DEF Clean, NoMore
  <2> QED BY <1>1, <2>1, <2>2 DEF TxTable, Placed
<1>2. TxInv => TxTableExact
  BY Zenon, <1>1 DEF TxInv, TxTableExact
<1> QED BY <1>2, TxInvariance, PTL

(* No key image is spent twice on the main chain, in a batch without a     *)
(* failure and in what is committed.                                       *)
THEOREM NeverSpentTwice == Spec => []NoDoubleSpend
<1>1. TxInv => NoDoubleSpend
  BY Zenon DEF TxInv, Clean, NoDoubleSpend
<1> QED BY <1>1, TxInvariance, PTL
-----------------------------------------------------------------------------
(* Below height 2 the rollback target h - 2 wraps and nothing is rolled    *)
(* back, so a checkpoint there is not enforced.                            *)
HighPoints == \A h \in DOMAIN CheckpointTable : h > 1

(* During a pass the checkpoints already looked at hold for the chain, or, *)
(* while it is being rolled back, for the part that will remain; and the   *)
(* chain is never longer than when the pass began.                         *)
PInv ==
  task.kind = "check" =>
    /\ task.todo \subseteq points
    /\ Len(db.chain) <= task.height
    /\ \A p \in points \ task.todo :
         p < Len(db.chain) /\ (task.to = -1 \/ p < task.to)
           => CheckpointTable[p] = db.chain[p + 1]

(* The steps, as a pass sees them.                                         *)
LEMMA PassStep ==
  ASSUME IInv, [Next]_vars
  PROVE  \/ points' = points /\ task.kind # "check" /\ task'.kind # "check"
         \/ UNCHANGED <<points, task, db>>
         \/ points' = {} /\ task' = NoTask
         \/ \E S \in SUBSET DOMAIN CheckpointTable : update_checkpoints(S)
         \/ CheckPoint \/ CheckRollback \/ CheckDone
<1>0. NoTask.kind # "check" /\ (frames # <<>> => task = NoTask)
      /\ (~batch => task = NoTask) /\ task \in TaskType
  <2>1. NoTask.kind # "check"
    BY DEF NoTask
  <2> QED BY Zenon, <2>1 DEF IInv, RestType, CallsInOrder, Idle
<1>1. CASE UNCHANGED vars
  BY Zenon, <1>1 DEF vars
<1>2. CASE prepare_handle_incoming_blocks \/ cleanup_handle_incoming_blocks
  BY Zenon, <1>0, <1>2
     DEF prepare_handle_incoming_blocks, cleanup_handle_incoming_blocks, Idle
<1>3. CASE \E b \in Block \ {Genesis} : add_new_block(b)
  BY Zenon, <1>0, <1>3 DEF add_new_block, AddKnown, AddToMain, AddAlternative,
                           CallAlternative, Idle
<1>4. CASE SwitchStep
  <2>1. frames # <<>>
    BY Zenon, <1>4 DEF SwitchStep, SwitchPop, SwitchSplit, SwitchConnect,
           RollbackPop, RollbackAdd, SwitchFail, SwitchPush, SwitchDone, In
  <2>2. points' = points /\ task' = task
    BY Zenon, <1>4 DEF SwitchStep, SwitchPop, SwitchSplit, SwitchConnect,
           RollbackPop, RollbackAdd, SwitchFail, SwitchPush, SwitchDone,
           CallAlternative
  <2> QED BY Zenon, <1>0, <2>1, <2>2
<1>5. CASE PopStep
  <2>1. task.kind = "pop" /\ points' = points
        /\ task' = [task EXCEPT !.left = task.left - 1]
    BY Zenon, <1>5 DEF PopStep
  <2>2. task'.kind = "pop"
    BY <1>0, <2>1 DEF TaskType
  <2>3. "pop" # "check"
    OBVIOUS
  <2> QED BY Zenon, <2>1, <2>2, <2>3
<1>6. CASE PopDone
  <2>1. "pop" # "check"
    OBVIOUS
  <2> QED BY Zenon, <1>0, <1>6, <2>1 DEF PopDone
<1>7. CASE \E n \in 1 .. Len(db.chain) : PopBlocks(n)
  <2>1. PICK n \in 1 .. Len(db.chain) : PopBlocks(n)
    BY <1>7
  <2>2. ASSUME NEW x PROVE [NoTask EXCEPT !.kind = "pop", !.left = x].kind # "check"
    BY DEF NoTask
  <2> QED BY Zenon, <1>0, <2>1, <2>2 DEF PopBlocks
<1>8. CASE flush_invalid_blocks \/ \E t \in Tx : AddTx(t) \/ DropTx(t)
  BY Zenon, <1>0, <1>8 DEF flush_invalid_blocks, AddTx, DropTx, Idle
<1>9. CASE \E b \in Block : TimePasses(b)
  BY Zenon, <1>9 DEF TimePasses
<1>10. CASE Crash
  BY Zenon, <1>10 DEF Crash
<1> QED BY Zenon, <1>1, <1>2, <1>3, <1>4, <1>5, <1>6, <1>7, <1>8, <1>9, <1>10
        DEF Next, TaskStep
-----------------------------------------------------------------------------
(* Popping a block leaves the blocks below it where they were.             *)
LEMMA PoppedKeeps ==
  ASSUME NEW d, Good(d), Len(d.chain) > 1, NEW e \in Popped(d)
  PROVE  /\ Len(d.chain) \in Nat /\ Len(e.chain) = Len(d.chain) - 1
         /\ \A p \in Nat : p < Len(e.chain) =>
              p < Len(d.chain) /\ e.chain[p + 1] = d.chain[p + 1]
<1>1. d.chain \in Seq(Block) /\ Len(d.chain) \in Nat
  BY DEF Good, DbType
<1>2. e.chain = SubSeq(d.chain, 1, Len(d.chain) - 1)
        /\ Len(e.chain) = Len(d.chain) - 1
  BY PoppedGood
<1>3. \A i \in 1 .. Len(d.chain) - 1 : e.chain[i] = d.chain[i]
  BY <1>1, <1>2, FrontSeq
<1>4. ASSUME NEW p \in Nat, p < Len(e.chain)
      PROVE  p < Len(d.chain) /\ p + 1 \in 1 .. Len(d.chain) - 1
  BY <1>1, <1>2, <1>4
<1> QED BY <1>1, <1>2, <1>3, <1>4

(* Outside a pass no step but the abort of a batch makes the chain         *)
(* disagree with the checkpoints.                                          *)
LEMMA AgreesStep ==
  ASSUME IInv, TxStep, points' = points, Agrees
  PROVE  Agrees' \/ (~batchOk /\ batchOk')
<1>0. Good(db) /\ points \subseteq Nat /\ db.chain \in Seq(Block)
      /\ Len(db.chain) \in Nat
  <2>1. points \subseteq Nat
    BY Zenon, BlockAssumption DEF IInv, RestType
  <2>2. Good(db) /\ db.chain \in Seq(Block) /\ Len(db.chain) \in Nat
    BY DEF IInv, Good, DbType
  <2> QED BY <2>1, <2>2
<1>1. \A h \in points : h < Len(db.chain) => CheckpointTable[h] = db.chain[h + 1]
  BY Zenon DEF Agrees, CheckpointOk
<1>2. (\A h \in points : h < Len(db'.chain) => CheckpointTable[h] = db'.chain[h + 1])
        => Agrees'
  BY Zenon DEF Agrees, CheckpointOk
<1>3. CASE db'.chain = db.chain
  BY Zenon, <1>1, <1>2, <1>3
<1>4. CASE points' = {}
  BY Zenon, <1>4 DEF Agrees
<1>5. CASE Len(db.chain) > 1 /\ db' \in Popped(db)
  BY Zenon, <1>0, <1>1, <1>2, <1>5, PoppedKeeps
<1>6. CASE \E b \in Block, spin \in Int :
             Checked(db, b) /\ db' = Appended(db, b, spin)
  <2>0. PICK b \in Block, spin \in Int :
          Checked(db, b) /\ db' = Appended(db, b, spin)
    BY Zenon, <1>6
  <2>1. CheckpointOk(Len(db.chain), b) /\ db'.chain = Append(db.chain, b)
    <3>1. Appended(db, b, spin).chain = Append(db.chain, b)
      BY DEF Appended
    <3> QED BY Zenon, <2>0, <3>1 DEF Checked
  <2>2. Len(db.chain) \in points => CheckpointTable[Len(db.chain)] = b
    BY Zenon, <2>1 DEF CheckpointOk
  <2>3. ASSUME NEW h \in points, h < Len(db'.chain)
        PROVE  CheckpointTable[h] = db'.chain[h + 1]
    <3>1. h \in Nat /\ Len(db'.chain) = Len(db.chain) + 1
      BY <1>0, <2>1
    <3>2. CASE h = Len(db.chain)
      <4>1. db'.chain[h + 1] = b
        BY <1>0, <2>1, <3>2
      <4> QED BY Zenon, <2>2, <3>2, <4>1
    <3>3. CASE h < Len(db.chain)
      <4>1. db'.chain[h + 1] = db.chain[h + 1]
        BY <1>0, <2>1, <3>1, <3>3
      <4> QED BY Zenon, <1>1, <3>3, <4>1
    <3> QED BY <1>0, <2>3, <3>1, <3>2, <3>3
  <2> QED BY Zenon, <1>2, <2>3
<1> QED BY Zenon, <1>3, <1>4, <1>5, <1>6 DEF TxStep, Quiet, Torn
-----------------------------------------------------------------------------
(* A step of a pass keeps PInv, and the chain agrees with the checkpoints  *)
(* when the pass ends.                                                     *)
LEMMA CheckStep ==
  ASSUME HighPoints, IInv, PInv, CheckPoint \/ CheckRollback \/ CheckDone
  PROVE  PInv' /\ (task'.kind # "check" => Agrees')
<1>0. /\ Good(db) /\ Len(db.chain) \in Nat /\ Len(db.chain) > 0
      /\ task \in TaskType /\ points \subseteq Nat /\ points' = points
      /\ \A p \in points : p > 1
      /\ task.kind = "check" /\ NoTask.kind # "check"
  <2>1. points \subseteq Nat /\ task \in TaskType /\ \A p \in points : p > 1
    BY Zenon, BlockAssumption DEF IInv, RestType, HighPoints
  <2>2. Good(db) /\ Len(db.chain) \in Nat /\ Len(db.chain) > 0
    BY DEF IInv, Good, DbType
  <2>3. points' = points /\ task.kind = "check"
    BY Zenon DEF CheckPoint, CheckRollback, CheckDone
  <2>4. NoTask.kind # "check"
    BY DEF NoTask
  <2> QED BY <2>1, <2>2, <2>3, <2>4
<1>1. /\ task.todo \subseteq points /\ Len(db.chain) <= task.height
      /\ task.height \in Nat /\ task.to \in Nat \cup {-1}
      /\ \A p \in points \ task.todo :
           p < Len(db.chain) /\ (task.to = -1 \/ p < task.to)
             => CheckpointTable[p] = db.chain[p + 1]
  BY <1>0 DEF PInv, TaskType
<1>2. ASSUME db' = db,
             \A p \in points : p < Len(db.chain)
                               => CheckpointTable[p] = db.chain[p + 1]
      PROVE  Agrees'
  BY Zenon, <1>0, <1>2 DEF Agrees, CheckpointOk
<1>3. task' = NoTask => PInv'
  BY Zenon, <1>0 DEF PInv
<1>4. CASE CheckPoint
  <2> DEFINE h == NextPoint
             rest == [task EXCEPT !.todo = @ \ {h}]
  <2>1. task.to = -1 /\ db' = db
    BY Zenon, <1>4 DEF CheckPoint
  <2>2. h \in task.todo /\ \A p \in task.todo : h <= p
    <3>1. task.todo \subseteq Nat /\ task.todo # {}
      BY <1>0, <1>1, <1>4 DEF CheckPoint
    <3>2. \E x \in task.todo : \A p \in task.todo : x <= p
      BY Zenon, <3>1, LeastNat
    <3> QED BY Zenon, <3>2 DEF NextPoint
  <2>3. h \in points /\ h \in Nat /\ h > 1 /\ ~(h < 2)
    <3> HIDE DEF h
    <3>1. h \in points /\ h \in Nat
      BY Zenon, <1>0, <1>1, <2>2
    <3>2. h > 1
      BY Zenon, <1>0, <3>1
    <3> QED BY ONLY <3>1, <3>2
  <2>4. \/ task' = rest /\ (h >= task.height \/ CheckpointOk(h, db.chain[h + 1]))
        \/ task' = NoTask /\ h >= Len(db.chain)
        \/ task' = [rest EXCEPT !.to = h - 2]
    <3>1. task' = IF h >= task.height THEN rest
                  ELSE IF h >= Len(db.chain) THEN NoTask
                  ELSE IF CheckpointOk(h, db.chain[h + 1]) \/ h < 2 THEN rest
                  ELSE [rest EXCEPT !.to = h - 2]
      BY Zenon, <1>4 DEF CheckPoint
    <3> HIDE DEF h, rest
    <3> QED BY Zenon, <2>3, <3>1
  <2> HIDE DEF h
  <2>5. /\ rest.kind = "check" /\ rest.todo = task.todo \ {h}
        /\ rest.height = task.height /\ rest.to = -1 /\ rest \in TaskType
    BY <1>0, <2>1 DEF TaskType
  <2> HIDE DEF rest
  <2>6. CASE task' = rest /\ (h >= task.height \/ CheckpointOk(h, db.chain[h + 1]))
    <3>1. h < Len(db.chain) => CheckpointTable[h] = db.chain[h + 1]
      <4>1. CASE h >= task.height
        BY <1>0, <1>1, <2>3, <4>1
      <4>2. CASE CheckpointOk(h, db.chain[h + 1])
        BY Zenon, <2>3, <4>2 DEF CheckpointOk
      <4> QED BY <2>6, <4>1, <4>2
    <3>2. \A p \in points \ rest.todo :
            p < Len(db.chain) => CheckpointTable[p] = db.chain[p + 1]
      BY Zenon, <1>1, <2>1, <2>5, <3>1
    <3>3. rest.todo \subseteq points
      BY <1>1, <2>5
    <3> QED BY Zenon, <1>0, <1>1, <2>1, <2>5, <2>6, <3>2, <3>3 DEF PInv
  <2>7. CASE task' = NoTask /\ h >= Len(db.chain)
    <3>1. ASSUME NEW p \in points, p < Len(db.chain) PROVE p \notin task.todo
      BY <1>0, <2>2, <2>3, <2>7, <3>1
    <3>2. Agrees'
      BY Zenon, <1>1, <1>2, <2>1, <3>1
    <3> QED BY <1>3, <2>7, <3>2
  <2>8. CASE task' = [rest EXCEPT !.to = h - 2]
    <3>1. /\ task'.kind = "check" /\ task'.todo = task.todo \ {h}
          /\ task'.height = task.height /\ task'.to = h - 2
      BY <2>5, <2>8 DEF TaskType
    <3>2. ASSUME NEW p \in points \ task'.todo, p < Len(db.chain),
                 task'.to = -1 \/ p < task'.to
          PROVE  CheckpointTable[p] = db.chain[p + 1]
      <4>1. p # h
        BY <1>0, <2>3, <3>1, <3>2
      <4> QED BY Zenon, <1>1, <2>1, <3>1, <3>2, <4>1
    <3>3. task'.todo \subseteq points
      BY <1>1, <3>1
    <3> QED BY Zenon, <1>0, <1>1, <2>1, <3>1, <3>2, <3>3 DEF PInv
  <2> QED BY Zenon, <2>4, <2>6, <2>7, <2>8
<1>5. CASE CheckRollback
  <2>1. CASE Len(db.chain) = task.to
    <3>1. task' = [task EXCEPT !.to = -1] /\ db' = db
      BY Zenon, <1>5, <2>1 DEF CheckRollback
    <3>2. /\ task'.kind = "check" /\ task'.todo = task.todo
          /\ task'.height = task.height
      BY <1>0, <3>1 DEF TaskType
    <3>3. \A p \in points \ task.todo :
            p < Len(db.chain) => CheckpointTable[p] = db.chain[p + 1]
      BY Zenon, <1>1, <2>1
    <3> QED BY Zenon, <1>0, <1>1, <3>1, <3>2, <3>3 DEF PInv
  <2>2. CASE Len(db.chain) # task.to /\ Len(db.chain) = 1
    <3>1. task' = NoTask /\ db' = db
      BY Zenon, <1>5, <2>2 DEF CheckRollback
    <3>2. \A p \in points : ~(p < Len(db.chain))
      BY <1>0, <2>2
    <3>3. Agrees'
      BY Zenon, <1>2, <3>1, <3>2
    <3> QED BY <1>3, <3>1, <3>3
  <2>3. CASE Len(db.chain) # task.to /\ Len(db.chain) # 1
    <3>1. task' = task /\ db' \in Popped(db)
      BY Zenon, <1>5, <2>3 DEF CheckRollback
    <3>2. Len(db.chain) > 1
      <4>1. \A n \in Nat : n > 0 /\ n # 1 => n > 1
        OBVIOUS
      <4> QED BY Zenon, <1>0, <2>3, <4>1
    <3>3. /\ Len(db'.chain) = Len(db.chain) - 1
          /\ \A p \in Nat : p < Len(db'.chain) =>
               p < Len(db.chain) /\ db'.chain[p + 1] = db.chain[p + 1]
      BY Zenon, <1>0, <3>1, <3>2, PoppedKeeps
    <3>4. Len(db'.chain) <= task.height
      BY <1>0, <1>1, <3>3
    <3>5. \A p \in points \ task.todo :
            p < Len(db'.chain) /\ (task.to = -1 \/ p < task.to)
              => CheckpointTable[p] = db'.chain[p + 1]
      <4>1. \A p \in points : p \in Nat
        BY <1>0
      <4> QED BY Zenon, <1>1, <3>3, <4>1
    <3> QED BY Zenon, <1>0, <1>1, <3>1, <3>4, <3>5 DEF PInv
  <2> QED BY Zenon, <2>1, <2>2, <2>3
<1>6. CASE CheckDone
  <2>1. task.to = -1 /\ task.todo = {} /\ db' = db /\ task' = NoTask
    BY Zenon, <1>6 DEF CheckDone
  <2>2. Agrees'
    BY Zenon, <1>1, <1>2, <2>1
  <2> QED BY <1>3, <2>1, <2>2
<1> QED BY <1>4, <1>5, <1>6

(* PInv is inductive.                                                      *)
LEMMA NextPInv ==
  ASSUME HighPoints, IInv, PInv, [Next]_vars
  PROVE  PInv'
<1>1. CASE points' = points /\ task.kind # "check" /\ task'.kind # "check"
  BY Zenon, <1>1 DEF PInv
<1>2. CASE UNCHANGED <<points, task, db>>
  BY Zenon, <1>2 DEF PInv
<1>3. CASE points' = {} /\ task' = NoTask
  <2>1. NoTask.kind # "check"
    BY DEF NoTask
  <2> QED BY Zenon, <1>3, <2>1 DEF PInv
<1>4. ASSUME NEW S, update_checkpoints(S) PROVE PInv'
  <2>1. /\ task'.todo = points' /\ task'.height = Len(db.chain) /\ db' = db
    BY <1>4 DEF update_checkpoints, NoTask
  <2>2. Len(db.chain) \in Nat
    BY DEF IInv, Good, DbType
  <2>3. Len(db.chain) <= Len(db.chain)
    BY <2>2
  <2> QED BY Zenon, <2>1, <2>3 DEF PInv
<1>5. CASE CheckPoint \/ CheckRollback \/ CheckDone
  BY <1>5, CheckStep
<1> QED BY Zenon, <1>1, <1>2, <1>3, <1>4, <1>5, PassStep

(* Every step does what PointsHold says.                                   *)
LEMMA PointsStep ==
  ASSUME HighPoints, IInv, TxInv, PInv, [Next]_vars
  PROVE  ~Agrees' /\ task'.kind # "check"
           => (~Agrees /\ task.kind # "check") \/ (~batchOk /\ batchOk')
<1>1. CASE points' = points /\ task.kind # "check" /\ task'.kind # "check"
  BY Zenon, <1>1, EveryTxStep, AgreesStep
<1>2. CASE UNCHANGED <<points, task, db>>
  BY Zenon, <1>2 DEF Agrees, CheckpointOk
<1>3. CASE points' = {} /\ task' = NoTask
  BY Zenon, <1>3 DEF Agrees
<1>4. ASSUME NEW S, update_checkpoints(S) PROVE task'.kind = "check"
  BY <1>4 DEF update_checkpoints, NoTask
<1>5. CASE CheckPoint \/ CheckRollback \/ CheckDone
  BY <1>5, CheckStep
<1> QED BY Zenon, <1>1, <1>2, <1>3, <1>4, <1>5, PassStep

(* When no checkpoint lies below height 2, a pass of                       *)
(* check_against_checkpoints leaves a chain that agrees with every loaded  *)
(* checkpoint, for every order of mismatches, rollbacks and exceptions,    *)
(* and afterwards no block, switch, rollback, pop or crash makes it        *)
(* disagree: only the abort of a batch does.                               *)
THEOREM PointsAlwaysHold ==
  ASSUME HighPoints
  PROVE  Spec => PointsHold
<1>1. Init => PInv
  <2>1. NoTask.kind # "check"
    BY DEF NoTask
  <2> QED BY Zenon, <2>1 DEF Init, PInv
<1>2. ASSUME IInv, PInv, [Next]_vars PROVE PInv'
  BY <1>2, NextPInv
<1>3. ASSUME IInv, TxInv, PInv, [Next]_vars
      PROVE  [~Agrees' /\ task'.kind # "check"
                => (~Agrees /\ task.kind # "check") \/ (~batchOk /\ batchOk')]_vars
  BY <1>3, PointsStep
<1> QED BY <1>1, <1>2, <1>3, Invariance, TxInvariance, PTL DEF Spec, PointsHold
=============================================================================

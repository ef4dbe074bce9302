------------------------ MODULE BlockchainCallProofs ------------------------
(***************************************************************************)
(* What the calls leave behind, for every block tree.  Blockchain          *)
(* implements ChainStore.  The spinner table is exact when remove_block    *)
(* reads the record of the block it removes.  No call that handles a block *)
(* loses a transaction, and a switch that fails restores the chain it      *)
(* found, when no block is refused in one of the ways that Returning and   *)
(* Reversible name.                                                        *)
(***************************************************************************)
EXTENDS BlockchainProofs, BlockchainRefinement

(* A checked block fits, even on a table with more than the chain's        *)
(* transactions.                                                           *)
LEMMA CheckedFits ==
  ASSUME NEW d, Good(d), Placed(d), NEW b, Checked(d, b)
  PROVE  Store!Fits(d.chain, b)
<1>1. Store!BlockTxSet(b) = BlockTxSet(b)
      /\ \A i \in DOMAIN d.chain : Store!BlockTxSet(d.chain[i]) = BlockTxSet(d.chain[i])
  BY Zenon DEF Store!BlockTxSet, BlockTxSet
<1>2. b \in Block \ {Genesis} /\ Prev[b] = d.chain[Len(d.chain)]
  BY Zenon DEF Checked, Top
<1>3. \A t \in Store!TxsOf(d.chain) : t \in d.txs
  BY <1>1 DEF Store!TxsOf, Placed
<1>4. \A m \in Store!ImagesOf(d.chain) : m \in Spent(d)
  BY Zenon, <1>3 DEF Store!ImagesOf, Spent
<1>5. ASSUME NEW t \in BlockTxSet(b)
      PROVE  t \notin d.txs /\ Image[t] \notin Spent(d)
  BY Zenon DEF Checked, TakingStops, BlockTxSet
<1>6. ASSUME NEW i \in DOMAIN BlockTxs[b], NEW j \in DOMAIN BlockTxs[b],
             Image[BlockTxs[b][i]] = Image[BlockTxs[b][j]]
      PROVE  i = j
  <2>1. i \in Nat /\ j \in Nat /\ i > 0 /\ j > 0
    <3>1. BlockTxs[b] \in Seq(Tx)
      BY Zenon, <1>2, BlockAssumption
    <3> QED BY <3>1
  <2>2. ~(j \in 1 .. i - 1) /\ ~(i \in 1 .. j - 1)
    BY Zenon, <1>6 DEF Checked, ImageTwice
  <2> QED BY <2>1, <2>2
<1> QED BY Zenon, <1>1, <1>2, <1>3, <1>4, <1>5, <1>6 DEF Store!Fits

(* Every step of Blockchain is a step of ChainStore or leaves it alone.    *)
LEMMA StoreStep ==
  ASSUME IInv, TxInv, [Next]_vars
  PROVE  [Store!Next]_(Store!store)
<1>1. TxStep /\ SaveStep
  BY EveryTxStep
<1>2. Good(db) /\ Placed(db)
  BY DEF IInv, TxInv
<1>3. CASE db'.chain = db.chain
  BY <1>1, <1>3 DEF SaveStep, Store!Next, Store!Commit, Store!store
<1>4. CASE db' = saved /\ saved' = saved
  BY <1>4 DEF Store!Next, Store!Revert
<1>5. CASE saved' = saved /\ Len(db.chain) > 1 /\ db' \in Popped(db)
  <2>1. db'.chain = SubSeq(db.chain, 1, Len(db.chain) - 1)
    BY Zenon, <1>2, <1>5, PoppedGood
  <2> QED BY <1>5, <2>1 DEF Store!Next, Store!Retract
<1>6. CASE /\ saved' = saved
           /\ \E b \in Block, spin \in Int :
                Checked(db, b) /\ db' = Appended(db, b, spin)
  <2>1. PICK b \in Block, spin \in Int :
          Checked(db, b) /\ db' = Appended(db, b, spin)
    BY Zenon, <1>6
  <2>2. Store!Fits(db.chain, b)
    BY Zenon, <1>2, <2>1, CheckedFits
  <2>3. db'.chain = Append(db.chain, b)
    BY <2>1 DEF Appended
  <2> QED BY Zenon, <1>6, <2>2, <2>3 DEF Store!Next, Store!Extend
<1> QED BY Zenon, <1>1, <1>3, <1>4, <1>5, <1>6 DEF TxStep, SaveStep, Quiet, Torn

(* Blockchain implements ChainStore: whatever blocks arrive and whatever   *)
(* is aborted, rolled back or lost in a crash, each write to the main      *)
(* chain is an append of a block that fits, a pop, a commit or a return to *)
(* what was committed.                                                     *)
THEOREM ImplementsStore == Spec => ImplementsChainStore
<1>1. Init => Store!Init
  BY DEF Init, GenesisDb, Store!Init
<1>2. ASSUME IInv, TxInv, [Next]_vars PROVE [Store!Next]_(Store!store)
  BY <1>2, StoreStep
<1> QED BY <1>1, <1>2, Invariance, TxInvariance, PTL
        DEF Spec, ImplementsChainStore, Store!Spec
-----------------------------------------------------------------------------
(* Two databases with the same chain and the same spinner table.           *)
SameSpins(d, e) == e.chain = d.chain /\ e.spin = d.spin

(* Appending a block keeps the table exact.                                *)
LEMMA AppendedSpin ==
  ASSUME NEW d, Good(d), SpinExact(d), NEW b \in Block, NEW spin \in Int
  PROVE  SpinExact(Appended(d, b, spin))
<1> DEFINE e == Appended(d, b, spin)
           n == Len(d.chain)
<1>1. /\ d.chain \in Seq(Block) /\ n \in Nat /\ DOMAIN d.chain = 1 .. n
      /\ d.spin \in [Key \cup {ZeroKey} -> Nat]
      /\ Spinner[b] \in Key \cup {ZeroKey}
  <2>1. d.chain \in Seq(Block) /\ d.spin \in [Key \cup {ZeroKey} -> Nat]
    BY DEF Good, DbType
  <2>2. n \in Nat /\ DOMAIN d.chain = 1 .. n
    BY <2>1
  <2>3. Spinner[b] \in Key \cup {ZeroKey}
    BY BlockAssumption
  <2> QED BY <2>1, <2>2, <2>3
<1>2. /\ e.chain = Append(d.chain, b)
      /\ e.spin = [d.spin EXCEPT ![Spinner[b]] = n]
  BY DEF Appended
<1>3. /\ DOMAIN e.chain = 1 .. n + 1 /\ e.chain[n + 1] = b
      /\ \A i \in 1 .. n : e.chain[i] = d.chain[i]
  BY <1>1, <1>2
<1> HIDE DEF e, n
<1>4. ASSUME NEW k \in Key PROVE IsLastSpin(e.chain, k, e.spin[k])
  <2>1. CASE k = Spinner[b]
    <3>1. e.spin[k] = n
      BY <1>1, <1>2, <2>1
    <3>2. n + 1 \in DOMAIN e.chain /\ \A i \in DOMAIN e.chain : ~(i > n + 1)
      BY <1>1, <1>3
    <3> QED BY <1>3, <2>1, <3>1, <3>2 DEF IsLastSpin
  <2>2. CASE k # Spinner[b]
    <3>1. e.spin[k] = d.spin[k] /\ d.spin[k] \in Nat
      BY <1>1, <1>2, <2>2
    <3> DEFINE h == d.spin[k]
    <3>2. IsLastSpin(d.chain, k, h)
      BY DEF SpinExact
    <3> HIDE DEF h
    <3>3. CASE h = 0 /\ \A i \in DOMAIN d.chain : Spinner[d.chain[i]] # k
      <4>1. \A i \in DOMAIN e.chain : Spinner[e.chain[i]] # k
        <5> TAKE i \in DOMAIN e.chain
        <5>1. CASE i \in 1 .. n
          BY <1>1, <1>3, <3>3, <5>1
        <5>2. CASE i = n + 1
          BY <1>3, <2>2, <5>2
        <5> QED BY <1>1, <1>3, <5>1, <5>2
      <4> QED BY <3>1, <3>3, <4>1 DEF IsLastSpin, h
    <3>4. CASE /\ h + 1 \in DOMAIN d.chain /\ Spinner[d.chain[h + 1]] = k
               /\ \A i \in DOMAIN d.chain : i > h + 1 => Spinner[d.chain[i]] # k
      <4>1. h + 1 \in DOMAIN e.chain /\ Spinner[e.chain[h + 1]] = k
        BY <1>1, <1>3, <3>4
      <4>2. ASSUME NEW i \in DOMAIN e.chain, i > h + 1
            PROVE  Spinner[e.chain[i]] # k
        <5>1. CASE i \in 1 .. n
          BY <1>1, <1>3, <3>4, <4>2, <5>1
        <5>2. CASE i = n + 1
          BY <1>3, <2>2, <5>2
        <5> QED BY <1>1, <1>3, <5>1, <5>2
      <4> QED BY <3>1, <4>1, <4>2 DEF IsLastSpin, h
    <3> QED BY <3>2, <3>3, <3>4 DEF IsLastSpin
  <2> QED BY <2>1, <2>2
<1> QED BY <1>4 DEF SpinExact, e

(* Removing the top block keeps the table exact when remove_block reads    *)
(* the record of the block it removes: the height it restores is that of   *)
(* the spinner's last block below.                                         *)
LEMMA PoppedSpin ==
  ASSUME ~StaleRecord,
         NEW d, Good(d), SpinExact(d), Len(d.chain) > 1, NEW e \in Popped(d)
  PROVE  SpinExact(e)
<1> DEFINE b == Top(d)
           n == Len(d.chain)
<1>1. /\ d.chain \in Seq(Block) /\ n \in Nat /\ DOMAIN d.chain = 1 .. n
      /\ d.spin \in [Key \cup {ZeroKey} -> Nat]
      /\ b \in Block /\ d.chain = Path[b] /\ d.chain[n] = b
      /\ Spinner[b] \in Key \cup {ZeroKey}
  <2>1. d.chain \in Seq(Block) /\ d.spin \in [Key \cup {ZeroKey} -> Nat]
    BY DEF Good, DbType
  <2>2. n \in Nat /\ DOMAIN d.chain = 1 .. n
    BY <2>1
  <2>3. b \in Block /\ d.chain = Path[b] /\ d.chain[n] = b
    BY <2>1, <2>2 DEF Good, Linked, Top
  <2>4. Spinner[b] \in Key \cup {ZeroKey}
    BY <2>3, BlockAssumption
  <2> QED BY <2>1, <2>2, <2>3, <2>4
<1>2. /\ e.chain = SubSeq(d.chain, 1, n - 1)
      /\ e.spin = [d.spin EXCEPT ![Spinner[b]] = PrevSpin[b]]
  BY Zenon DEF Popped, PoppedReading, Good, DbType
<1>3. /\ DOMAIN e.chain = 1 .. n - 1
      /\ \A i \in 1 .. n - 1 : e.chain[i] = d.chain[i]
  <2>1. e.chain \in Seq(Block) /\ Len(e.chain) = n - 1
    BY <1>1, <1>2, FrontSeq
  <2> QED BY <1>1, <1>2, <2>1, FrontSeq
<1>4. b # Genesis /\ e.chain = Path[Prev[b]]
  <2>1. b # Genesis
    <3>1. Len(Path[Genesis]) = 1
      BY TreeAssumption
    <3> QED BY <1>1, <3>1
  <2>2. Path[b] = Append(Path[Prev[b]], b) /\ Path[Prev[b]] \in Seq(Block)
    BY Zenon, <1>1, <2>1, TreeAssumption
  <2>3. SubSeq(Path[b], 1, Len(Path[b]) - 1) = Path[Prev[b]]
    BY <1>1, <2>2, FrontOfAppend
  <2> QED BY <1>1, <1>2, <2>1, <2>3
<1> HIDE DEF b, n
<1>5. ASSUME NEW k \in Key PROVE IsLastSpin(e.chain, k, e.spin[k])
  <2>1. CASE k = Spinner[b]
    <3>1. e.spin[k] = PrevSpin[b]
      BY <1>1, <1>2, <2>1
    <3> QED BY <1>1, <1>4, <2>1, <3>1, PrevSpinAssumption
  <2>2. CASE k # Spinner[b]
    <3>1. e.spin[k] = d.spin[k] /\ d.spin[k] \in Nat
      BY Zenon, <1>1, <1>2, <2>2
    <3> DEFINE h == d.spin[k]
    <3>2. IsLastSpin(d.chain, k, h)
      BY DEF SpinExact
    <3> HIDE DEF h
    <3>3. CASE h = 0 /\ \A i \in DOMAIN d.chain : Spinner[d.chain[i]] # k
      <4>1. \A i \in DOMAIN e.chain : Spinner[e.chain[i]] # k
        BY <1>1, <1>3, <3>3
      <4> QED BY <3>1, <3>3, <4>1 DEF IsLastSpin, h
    <3>4. CASE /\ h + 1 \in DOMAIN d.chain /\ Spinner[d.chain[h + 1]] = k
               /\ \A i \in DOMAIN d.chain : i > h + 1 => Spinner[d.chain[i]] # k
      <4>1. h + 1 # n
        BY <1>1, <2>2, <3>4
      <4>2. h + 1 \in DOMAIN e.chain /\ Spinner[e.chain[h + 1]] = k
        BY <1>1, <1>3, <3>1, <3>4, <4>1 DEF h
      <4>3. \A i \in DOMAIN e.chain : i > h + 1 => Spinner[e.chain[i]] # k
        BY SMTT(20), <1>1, <1>3, <3>4
      <4> QED BY <3>1, <4>2, <4>3 DEF IsLastSpin, h
    <3> QED BY Zenon, <3>2, <3>3, <3>4 DEF IsLastSpin
  <2> QED BY <2>1, <2>2
<1> QED BY <1>5 DEF SpinExact

(* What a step does to the chain and the spinner table of the batch:       *)
(* nothing, a return to the committed database, a pop or an append.        *)
SpinStep ==
  \/ SameSpins(db, db')
  \/ db' = saved
  \/ Len(db.chain) > 1 /\ db' \in Popped(db)
  \/ \E b \in Block, spin \in Int : db' = Appended(db, b, spin)

(* handle_block_to_main_chain appends one block and its spin, or leaves    *)
(* both tables alone.                                                      *)
LEMMA MainSpinStep ==
  ASSUME IInv, NEW b \in Block, db' = handle_block_to_main_chain(db, b).db
  PROVE  SpinStep
<1> DEFINE r == handle_block_to_main_chain(db, b)
<1>1. \/ OnlyTxs(db, r.db)
      \/ \E spin \in Int : r.db = Appended(db, b, spin)
  BY MainShape DEF IInv
<1> HIDE DEF r
<1>2. db' = r.db
  BY DEF r
<1>3. OnlyTxs(db, db') => SameSpins(db, db')
  BY Zenon DEF OnlyTxs, SameSpins, IInv, Good, DbType
<1> QED BY <1>1, <1>2, <1>3 DEF SpinStep

(* handle_alternative_block leaves the chain and the spinner table alone.  *)
LEMMA AltSpinStep ==
  ASSUME IInv, NEW b, NEW rest, CallAlternative(b, rest)
  PROVE  SpinStep
<1> DEFINE r == handle_alternative_block(db, b)
           g == AddSpin(ParentGyro(db, b), get_spin(db, b))
<1>1. r.db = db \/ r.db = WithAlt(db, b, g)
  BY Zenon DEF handle_alternative_block, Decision
<1>2. SameSpins(db, WithAlt(db, b, g))
  BY DEF SameSpins, WithAlt, IInv, Good, DbType
<1>3. db' = r.db
  BY Zenon DEF CallAlternative
<1> QED BY <1>1, <1>2, <1>3 DEF SpinStep, SameSpins

(* A step of a switch pops one block, appends one or leaves both tables    *)
(* alone, and never touches the committed database.                        *)
LEMMA SwitchSpinStep ==
  ASSUME IInv, SwitchStep
  PROVE  SpinStep /\ saved' = saved
<1>0. frames # <<>> /\ Good(db) /\ Frame \in FrameType
        /\ Frame.i <= Len(Frame.alt) /\ FrameOk(db, Frame)
        /\ Len(db.chain) \in Nat /\ Len(db.chain) > 0
  <2>1. frames # <<>>
    BY Zenon DEF SwitchStep, SwitchPop, SwitchSplit, SwitchConnect, RollbackPop,
           RollbackAdd, SwitchFail, SwitchPush, SwitchDone, In
  <2>2. Len(db.chain) \in Nat /\ Len(db.chain) > 0
    BY DEF IInv, Good, DbType
  <2> QED BY <2>1, <2>2, StackTop DEF IInv
<1>1. saved' = saved
  BY Zenon DEF SwitchStep, SwitchPop, SwitchSplit, SwitchConnect, RollbackPop,
         RollbackAdd, SwitchFail, SwitchPush, SwitchDone, CallAlternative
<1>2. CASE SwitchPop
  <2>1. Prev[Frame.alt[1]] \in OnMain(db) /\ Prev[Frame.alt[1]] # Top(db)
    BY <1>0, <1>2 DEF SwitchPop, In, FrameOk
  <2>2. Len(db.chain) > 1
    BY <1>0, <2>1, StillOnMain
  <2> QED BY <1>1, <1>2, <2>2 DEF SwitchPop, SpinStep
<1>3. CASE SwitchSplit
  BY <1>1, <1>3 DEF SwitchSplit, SpinStep, SameSpins
<1>4. CASE SwitchConnect
  <2>1. Frame.alt[Frame.i] \in Block
    BY <1>0 DEF FrameType
  <2> QED BY <1>1, <1>4, <2>1, MainSpinStep DEF SwitchConnect
<1>5. CASE RollbackPop
  <2>1. CASE Len(db.chain) # Frame.split
    <3>1. 0 < Frame.split /\ Frame.split <= Len(db.chain) /\ Frame.split \in Nat
      BY <1>0, <1>5 DEF RollbackPop, In, FrameOk, FrameType
    <3>2. \A m, n \in Nat : 0 < m /\ m <= n /\ n # m => n > 1
      OBVIOUS
    <3>3. Len(db.chain) > 1
      BY <1>0, <2>1, <3>1, <3>2
    <3> QED BY <1>1, <1>5, <2>1, <3>3 DEF RollbackPop, SpinStep
  <2>2. CASE Len(db.chain) = Frame.split
    BY <1>1, <1>5, <2>2 DEF RollbackPop, SpinStep, SameSpins
  <2> QED BY <2>1, <2>2
<1>6. CASE RollbackAdd
  <2>1. Frame.old[Frame.j] \in Block
    BY <1>0, <1>6 DEF RollbackAdd, FrameType
  <2> QED BY <1>1, <1>6, <2>1, MainSpinStep DEF RollbackAdd
<1>7. ASSUME NEW S, db' = WithoutAlt(db, S) PROVE SpinStep
  <2>1. SameSpins(db, WithoutAlt(db, S))
    BY <1>0 DEF SameSpins, WithoutAlt, Good, DbType
  <2> QED BY <1>7, <2>1 DEF SpinStep
<1>8. CASE SwitchFail
  BY <1>1, <1>7, <1>8 DEF SwitchFail
<1>9. CASE SwitchPush
  BY <1>1, <1>9, AltSpinStep DEF SwitchPush
<1>10. CASE SwitchDone
  BY <1>1, <1>7, <1>10 DEF SwitchDone
<1> QED BY <1>2, <1>3, <1>4, <1>5, <1>6, <1>8, <1>9, <1>10 DEF SwitchStep

(* So does every step; the committed database stays or becomes the current *)
(* one.                                                                    *)
LEMMA EverySpinStep ==
  ASSUME IInv, [Next]_vars
  PROVE  SpinStep /\ (saved' = saved \/ SameSpins(db', saved'))
<1>0. Good(db) /\ Len(db.chain) \in Nat /\ Len(db.chain) > 0
  BY DEF IInv, Good, DbType
<1>1. CASE UNCHANGED vars
  BY <1>1 DEF vars, SpinStep, SameSpins
<1>2. CASE prepare_handle_incoming_blocks \/ cleanup_handle_incoming_blocks
  BY <1>2 DEF prepare_handle_incoming_blocks, cleanup_handle_incoming_blocks,
              SpinStep, SameSpins
<1>3. CASE \E b \in Block \ {Genesis} : add_new_block(b)
  <2>1. PICK b \in Block \ {Genesis} : add_new_block(b)
    BY <1>3
  <2>2. CASE AddKnown(b)
    BY <2>2 DEF AddKnown, SpinStep, SameSpins
  <2>3. CASE AddToMain(b)
    BY Zenon, <2>3, MainSpinStep DEF AddToMain
  <2>4. CASE AddAlternative(b)
    BY Zenon, <2>4, AltSpinStep DEF AddAlternative, CallAlternative
  <2> QED BY <2>1, <2>2, <2>3, <2>4 DEF add_new_block
<1>4. CASE SwitchStep
  BY <1>4, SwitchSpinStep
<1>5. CASE PopStep
  <2>1. task.left \in Nat /\ task.left > 0 /\ task.left < Len(db.chain)
    BY <1>5 DEF PopStep, IInv, RestType, TaskType, CallsInOrder
  <2>2. Len(db.chain) > 1
    BY <1>0, <2>1
  <2> QED BY <1>5, <2>2 DEF PopStep, SpinStep
<1>6. CASE CheckRollback
  <2>1. \A n \in Nat : n > 0 /\ n # 1 => n > 1
    OBVIOUS
  <2> QED BY Zenon, <1>0, <1>6, <2>1 DEF CheckRollback, SpinStep, SameSpins
<1>7. CASE PopDone \/ CheckPoint \/ CheckDone
  BY <1>7 DEF PopDone, CheckPoint, CheckDone, SpinStep, SameSpins
<1>8. CASE \/ \E n \in 1 .. Len(db.chain) : PopBlocks(n)
           \/ \E S \in SUBSET DOMAIN CheckpointTable : update_checkpoints(S)
           \/ flush_invalid_blocks
           \/ \E b \in Block : TimePasses(b)
           \/ Crash
  BY Zenon, <1>8 DEF PopBlocks, update_checkpoints, flush_invalid_blocks, TimePasses,
              Crash, SpinStep, SameSpins
<1>9. CASE \E t \in Tx : AddTx(t) \/ DropTx(t)
  BY <1>0, <1>9 DEF AddTx, DropTx, SpinStep, SameSpins, Good, DbType
<1> QED BY <1>1, <1>2, <1>3, <1>4, <1>5, <1>6, <1>7, <1>8, <1>9
        DEF Next, TaskStep

(* When remove_block reads the record of the block it removes, the spinner *)
(* table holds the height of every spinner's last block on the main chain, *)
(* whatever is appended, popped, rolled back, aborted or lost in a crash.  *)
THEOREM SpinnerTableExact ==
  ASSUME ~StaleRecord
  PROVE  Spec => []SpinnerHeightsExact
<1>1. Init => SpinnerHeightsExact
  <2>1. GenesisDb.chain = <<Genesis>>
        /\ GenesisDb.spin = [k \in Key \cup {ZeroKey} |-> 0]
    BY DEF GenesisDb
  <2>2. SpinExact(GenesisDb)
    <3>1. Spinner[Genesis] \notin Key
      BY BlockAssumption
    <3>2. DOMAIN <<Genesis>> = {1} /\ <<Genesis>>[1] = Genesis
      OBVIOUS
    <3>3. \A k \in Key : GenesisDb.spin[k] = 0
      BY <2>1
    <3> QED BY <2>1, <3>1, <3>2, <3>3 DEF SpinExact, IsLastSpin
  <2> QED BY <2>2 DEF Init, SpinnerHeightsExact
<1>2. ASSUME IInv, SpinnerHeightsExact, [Next]_vars
      PROVE  SpinnerHeightsExact'
  <2>1. SpinStep /\ (saved' = saved \/ SameSpins(db', saved'))
    BY <1>2, EverySpinStep
  <2>2. Good(db) /\ SpinExact(db) /\ SpinExact(saved)
    BY <1>2 DEF IInv, SpinnerHeightsExact
  <2>3. SpinExact(db')
    <3>1. CASE SameSpins(db, db')
      BY <2>2, <3>1 DEF SameSpins, SpinExact
    <3>2. CASE db' = saved
      BY <2>2, <3>2
    <3>3. CASE Len(db.chain) > 1 /\ db' \in Popped(db)
      BY <2>2, <3>3, PoppedSpin
    <3>4. CASE \E b \in Block, spin \in Int : db' = Appended(db, b, spin)
      BY <2>2, <3>4, AppendedSpin
    <3> QED BY <2>1, <3>1, <3>2, <3>3, <3>4 DEF SpinStep
  <2>4. SpinExact(saved')
    BY <2>1, <2>2, <2>3 DEF SameSpins, SpinExact
  <2> QED BY <2>3, <2>4 DEF SpinnerHeightsExact
<1> QED BY <1>1, <1>2, Invariance, PTL DEF Spec
-----------------------------------------------------------------------------
(* What a refused block costs.                                             *)

(* No spinner interval is running and no block fails one of the checks     *)
(* that handle_block_to_main_chain makes after it has taken the block's    *)
(* transactions and that do not give them back.                            *)
Returning ==
  Early = {} /\ \A b \in Block : Defect[b] \notin {"pruned", "mismatch"}

(* What handle_block_to_main_chain demands of a block.                     *)
Accepts(d, b) ==
  /\ Prev[b] = Top(d) /\ b # Genesis
  /\ Defect[b] \notin {"header", "pruned", "spinner"}
  /\ CheckpointOk(Len(d.chain), b)
  /\ TakingStops(d, b) = {} /\ ImageTwice(b) = {}
  /\ Height(b) > START_AMOUNT_BLOCKS =>
       /\ Proof[b] \in d.txs /\ SpinUnlocked(d, b)
       /\ b \in ripe /\ Defect[b] # "mismatch"

(* It adds the block exactly when it accepts it.                           *)
LEMMA MainAccepts ==
  ASSUME NEW d, NEW b
  PROVE  handle_block_to_main_chain(d, b).ok <=> Accepts(d, b)
<1> DEFINE Ok(o) == o.ok
<1>1. ASSUME NEW e, NEW x, NEW y
      PROVE  ~Ok(Outcome(FALSE, e, x, y)) /\ Ok(Outcome(TRUE, e, x, y))
  BY DEF Outcome
<1> HIDE DEF Ok
<1>2. ~Ok(Rejected(d))
  BY Zenon, <1>1 DEF Rejected
<1>3. ~Ok(TakingStopped(d, b))
  BY Zenon, <1>1, <1>2 DEF TakingStopped
<1>4. Defect[b] \in {"header", "pruned", "spinner"}
        <=> Defect[b] = "header" \/ Defect[b] = "pruned" \/ Defect[b] = "spinner"
  OBVIOUS
<1>5. Ok(handle_block_to_main_chain(d, b)) => Accepts(d, b)
  BY Zenon, <1>1, <1>2, <1>3, <1>4 DEF handle_block_to_main_chain, Accepts
<1>6. Accepts(d, b) => Ok(handle_block_to_main_chain(d, b))
  BY Zenon, <1>1, <1>4 DEF handle_block_to_main_chain, Accepts
<1> QED BY Zenon, <1>5, <1>6 DEF Ok

(* No transaction leaves the pool and the table together, messages apart.  *)
Retains(d, e) ==
  \A t \in d.pool \cup d.txs : t \in Sms \/ t \in e.pool \cup e.txs

(* A refused block keeps every transaction in the table or the pool, but   *)
(* for a message transaction at which the taking stopped.                  *)
LEMMA MainKeeps ==
  ASSUME NEW d, Good(d), NEW b \in Block, Returning, ripe = Block
  PROVE  Retains(d, handle_block_to_main_chain(d, b).db)
<1> DEFINE r == handle_block_to_main_chain(d, b)
           Keeps(o) == Retains(d, o.db)
<1>1. ASSUME NEW P, NEW T
      PROVE  /\ [d EXCEPT !.pool = P].pool = P
             /\ [d EXCEPT !.pool = P].txs = d.txs
             /\ [d EXCEPT !.txs = T].pool = d.pool
             /\ [d EXCEPT !.txs = T].txs = T
  BY Zenon DEF Good, DbType
<1>2. ASSUME NEW e, Retains(d, e), NEW k, NEW x, NEW y
      PROVE  Keeps(Outcome(k, e, x, y))
  BY Zenon, <1>2 DEF Outcome
<1>3. Retains(d, d)
  BY Zenon DEF Retains
<1>4. ASSUME NEW t \in Sms PROVE Retains(d, [d EXCEPT !.pool = @ \ {t}])
  <2> DEFINE e == [d EXCEPT !.pool = @ \ {t}]
  <2>1. e.pool = d.pool \ {t} /\ e.txs = d.txs
    BY Zenon, <1>1
  <2> HIDE DEF e
  <2>2. Retains(d, e)
    BY <2>1 DEF Retains
  <2> QED BY <2>2 DEF e
<1>5. Retains(d, HalfWritten(d, b))
  <2>1. d.txs \subseteq HalfWritten(d, b).txs /\ HalfWritten(d, b).pool = d.pool
    BY Zenon, <1>1 DEF HalfWritten
  <2> QED BY <2>1 DEF Retains
<1>6. ASSUME NEW spin PROVE Retains(d, Appended(d, b, spin))
  <2>1. /\ Appended(d, b, spin).pool = d.pool \ BlockTxSet(b)
        /\ Appended(d, b, spin).txs = d.txs \cup BlockTxSet(b)
    BY DEF Appended
  <2> QED BY <2>1 DEF Retains
<1> HIDE DEF Keeps
<1>7. Keeps(Rejected(d))
  BY Zenon, <1>2, <1>3 DEF Rejected
<1>8. Keeps(TakingStopped(d, b))
  BY Zenon, <1>2, <1>3, <1>4, <1>7 DEF TakingStopped
<1>9. Defect[b] # "pruned" /\ Defect[b] # "mismatch" /\ b \in ripe
  BY DEF Returning
<1>10. Keeps(r)
  BY Zenon, <1>2, <1>5, <1>6, <1>7, <1>8, <1>9 DEF handle_block_to_main_chain
<1> QED BY <1>10 DEF Keeps

(* Without running intervals every block is ripe.                          *)
LEMMA NextRipe ==
  ASSUME ripe = Block, [Next]_vars
  PROVE  ripe' = Block
<1>1. CASE UNCHANGED vars
  BY Zenon, <1>1 DEF vars
<1>2. CASE \/ prepare_handle_incoming_blocks \/ cleanup_handle_incoming_blocks
           \/ flush_invalid_blocks \/ Crash
           \/ \E t \in Tx : AddTx(t) \/ DropTx(t)
  BY Zenon, <1>2 DEF prepare_handle_incoming_blocks,
       cleanup_handle_incoming_blocks, flush_invalid_blocks, Crash, AddTx, DropTx
<1>3. CASE \E b \in Block \ {Genesis} : add_new_block(b)
  BY Zenon, <1>3 DEF add_new_block, AddKnown, AddToMain, AddAlternative,
       CallAlternative
<1>4. CASE SwitchStep
  BY Zenon, <1>4 DEF SwitchStep, SwitchPop, SwitchSplit, SwitchConnect,
       RollbackPop, RollbackAdd, SwitchFail, SwitchPush, SwitchDone,
       CallAlternative
<1>5. CASE \/ TaskStep \/ \E n \in 1 .. Len(db.chain) : PopBlocks(n)
           \/ \E S \in SUBSET DOMAIN CheckpointTable : update_checkpoints(S)
  BY Zenon, <1>5 DEF TaskStep, PopStep, PopDone, CheckPoint, CheckRollback,
       CheckDone, PopBlocks, update_checkpoints
<1>6. CASE \E b \in Block : TimePasses(b)
  BY Zenon, <1>6 DEF TimePasses
<1> QED BY Zenon, <1>1, <1>2, <1>3, <1>4, <1>5, <1>6 DEF Next

(* A popped block's transactions return to the pool.                       *)
LEMMA PoppedRetains ==
  ASSUME NEW d, Good(d), NEW e \in Popped(d)
  PROVE  Retains(d, e) /\ BlockTxSet(Top(d)) \subseteq e.pool
<1>1. /\ e.txs = d.txs \ BlockTxSet(Top(d))
      /\ e.pool = d.pool \cup BlockTxSet(Top(d))
  BY Zenon DEF Popped, PoppedReading, Good, DbType
<1> QED BY <1>1 DEF Retains

(* Every step that handles a block retains the transactions.               *)
LEMMA HandlingRetains ==
  ASSUME IInv, Returning, ripe = Block, Handling
  PROVE  Retains(db, db')
<1>0. Good(db) /\ \A e : e.pool = db.pool /\ e.txs = db.txs => Retains(db, e)
  <2>1. ASSUME NEW e, e.pool = db.pool, e.txs = db.txs PROVE Retains(db, e)
    BY <2>1 DEF Retains
  <2> QED BY Zenon, <2>1 DEF IInv
<1>1. ASSUME NEW b, NEW rest, CallAlternative(b, rest) PROVE Retains(db, db')
  <2> DEFINE r == handle_alternative_block(db, b)
             g == AddSpin(ParentGyro(db, b), get_spin(db, b))
  <2>1. r.db = db \/ r.db = WithAlt(db, b, g)
    BY Zenon DEF handle_alternative_block, Decision
  <2>2. WithAlt(db, b, g).pool = db.pool /\ WithAlt(db, b, g).txs = db.txs
    BY <1>0 DEF WithAlt, Good, DbType
  <2>3. db' = r.db
    BY Zenon, <1>1 DEF CallAlternative
  <2> HIDE DEF r, g
  <2> QED BY Zenon, <1>0, <2>1, <2>2, <2>3
<1>2. ASSUME NEW S PROVE Retains(db, WithoutAlt(db, S))
  <2>1. WithoutAlt(db, S).pool = db.pool /\ WithoutAlt(db, S).txs = db.txs
    BY <1>0 DEF WithoutAlt, Good, DbType
  <2> QED BY Zenon, <1>0, <2>1
<1>3. CASE \E b \in Block \ {Genesis} : add_new_block(b)
  <2>1. PICK b \in Block \ {Genesis} : add_new_block(b)
    BY <1>3
  <2>2. CASE AddKnown(b)
    BY Zenon, <1>0, <2>2 DEF AddKnown
  <2>3. CASE AddToMain(b)
    BY Zenon, <1>0, <2>3, MainKeeps DEF AddToMain
  <2>4. CASE AddAlternative(b)
    BY Zenon, <1>1, <2>4 DEF AddAlternative
  <2> QED BY <2>1, <2>2, <2>3, <2>4 DEF add_new_block
<1>4. ASSUME frames # <<>>
      PROVE  /\ Frame \in FrameType /\ Frame.i \in 1 .. Len(Frame.alt)
             /\ Frame.alt \in Seq(Block) /\ Frame.old \in Seq(Block)
             /\ Frame.j \in Nat \ {0}
  <2>1. Frame \in FrameType /\ Frame.i <= Len(Frame.alt)
    BY Zenon, <1>4, StackTop DEF IInv
  <2> QED BY <2>1 DEF FrameType
<1>5. CASE SwitchConnect
  <2>1. Frame.alt[Frame.i] \in Block
    BY <1>4, <1>5 DEF SwitchConnect, In
  <2> QED BY Zenon, <1>0, <1>5, <2>1, MainKeeps DEF SwitchConnect
<1>6. CASE RollbackAdd
  <2>1. Frame.old[Frame.j] \in Block
    BY <1>4, <1>6 DEF RollbackAdd, In
  <2> QED BY Zenon, <1>0, <1>6, <2>1, MainKeeps DEF RollbackAdd
<1>7. CASE SwitchPop \/ RollbackPop
  <2>1. db' = db \/ db' \in Popped(db)
    BY Zenon, <1>7 DEF SwitchPop, RollbackPop
  <2> QED BY Zenon, <1>0, <2>1, PoppedRetains
<1>8. CASE SwitchSplit \/ SwitchPush
  BY Zenon, <1>0, <1>1, <1>8 DEF SwitchSplit, SwitchPush
<1>9. CASE SwitchFail \/ SwitchDone
  BY Zenon, <1>2, <1>9 DEF SwitchFail, SwitchDone
<1> QED BY <1>3, <1>5, <1>6, <1>7, <1>8, <1>9 DEF Handling, SwitchStep

(* When no interval is running, no message transaction exists and no block *)
(* is refused after its transactions were taken without giving them back   *)
(* (blockchain.cpp:4748 and 4759), no call that handles a block takes a    *)
(* transaction out of the node, through reorganisations, failed switches   *)
(* and their rollbacks, whatever the blocks and transactions.              *)
THEOREM TxAlwaysConserved ==
  ASSUME Returning, Sms = {}
  PROVE  Spec => TxConserved
<1>1. Init => ripe = Block
  BY DEF Init, Returning
<1>2. ASSUME ripe = Block, [Next]_vars PROVE (ripe = Block)'
  BY <1>2, NextRipe
<1>3. ASSUME IInv, ripe = Block, [Next]_vars
      PROVE  [Handling => db.pool \cup db.txs \subseteq db'.pool \cup db'.txs]_vars
  <2>1. ASSUME Handling PROVE db.pool \cup db.txs \subseteq db'.pool \cup db'.txs
    BY Zenon, <1>3, <2>1, HandlingRetains DEF Retains
  <2> QED BY Zenon, <2>1
<1> QED BY <1>1, <1>2, <1>3, Invariance, PTL DEF Spec, TxConserved
-----------------------------------------------------------------------------
(* When a failed switch restores the old chain.                            *)

(* Beyond Returning: no block throws out of add_block, and checkpoints are *)
(* enforced.                                                               *)
Reversible ==
  Returning /\ HighPoints /\ \A b \in Block : ImageTwice(b) = {}

(* What handle_block_to_main_chain has found out about a block that is on  *)
(* the main chain, from the block and the blocks below it alone.           *)
Fit(b) ==
  LET below == Path[Prev[b]]
  IN  /\ b # Genesis /\ Defect[b] \notin {"header", "spinner"}
      /\ \A t \in BlockTxSet(b) :
           /\ t \notin Sms
           /\ \A i \in DOMAIN below : \A u \in BlockTxSet(below[i]) :
                Image[u] # Image[t]
      /\ Height(b) > START_AMOUNT_BLOCKS =>
           /\ \E i \in DOMAIN below : Proof[b] \in BlockTxSet(below[i])
           /\ SpinUnlocked([chain |-> below], b)

Proper(d) == \A i \in DOMAIN d.chain : i > 1 => Fit(d.chain[i])

(* A lock is as old on any database with the same chain.                   *)
LEMMA SameUnlocked ==
  ASSUME NEW d, NEW b
  PROVE  SpinUnlocked([chain |-> d.chain], b) <=> SpinUnlocked(d, b)
<1>1. [chain |-> d.chain].chain = d.chain
  OBVIOUS
<1> QED BY Zenon, <1>1 DEF SpinUnlocked, TxHeight

(* An accepted block is fit.                                               *)
LEMMA AcceptsFit ==
  ASSUME NEW d, Good(d), Placed(d), Clean(d), NEW b, Accepts(d, b)
  PROVE  Fit(b)
<1>1. Path[Prev[b]] = d.chain
  BY Zenon DEF Accepts, Good, Linked
<1>2. Defect[b] # "header" /\ Defect[b] # "spinner"
  BY DEF Accepts
<1>3. ASSUME NEW t \in BlockTxSet(b)
      PROVE  t \notin Sms /\ Image[t] \notin Spent(d)
  BY Zenon, <1>3 DEF Accepts, TakingStops, BlockTxSet
<1>4. \A i \in DOMAIN d.chain : \A u \in BlockTxSet(d.chain[i]) : Image[u] \in Spent(d)
  BY Zenon DEF Placed, Spent
<1>5. Proof[b] \in d.txs => \E i \in DOMAIN d.chain : Proof[b] \in BlockTxSet(d.chain[i])
  BY Zenon DEF Clean, NoMore
<1>6. Defect[b] \notin {"header", "spinner"}
  BY <1>2
<1> QED BY Zenon, <1>1, <1>3, <1>4, <1>5, <1>6, SameUnlocked DEF Fit, Accepts

(* A fit block is accepted again on top of the same blocks, when its       *)
(* transactions are in the pool.                                           *)
LEMMA FitAccepts ==
  ASSUME NEW d, Good(d), Placed(d), Clean(d), Reversible, ripe = Block,
         NEW b \in Block, Fit(b), Prev[b] = Top(d),
         CheckpointOk(Len(d.chain), b),
         BlockTxSet(b) \subseteq d.pool \cup d.txs
  PROVE  Accepts(d, b)
<1>1. Path[Prev[b]] = d.chain
  BY Zenon DEF Good, Linked
<1>2. /\ Defect[b] \notin {"header", "pruned", "spinner"}
      /\ Defect[b] # "mismatch"
  <2>1. Defect[b] \notin {"pruned", "mismatch"}
    BY DEF Reversible, Returning
  <2>2. Defect[b] \notin {"header", "spinner"}
    BY Zenon DEF Fit
  <2> QED BY <2>1, <2>2
<1>3. ImageTwice(b) = {}
  BY DEF Reversible
<1>4. ASSUME NEW u \in d.txs
      PROVE  \E i \in DOMAIN d.chain : u \in BlockTxSet(d.chain[i])
  BY Zenon DEF Clean, NoMore
<1>5. ASSUME NEW t \in BlockTxSet(b)
      PROVE  /\ t \notin Sms /\ Image[t] \notin Spent(d)
             /\ t \notin d.txs /\ t \in d.pool
  <2>1. /\ t \notin Sms
        /\ \A i \in DOMAIN d.chain : \A u \in BlockTxSet(d.chain[i]) :
             Image[u] # Image[t]
    BY Zenon, <1>1 DEF Fit
  <2>2. \A u \in d.txs : Image[u] # Image[t]
    BY Zenon, <1>4, <2>1
  <2>3. t \notin d.txs
    BY Zenon, <2>2
  <2>4. t \in d.pool
    BY Zenon, <2>3
  <2> QED BY Zenon, <2>1, <2>2, <2>3, <2>4 DEF Spent
<1>6. TakingStops(d, b) = {}
  <2> SUFFICES ASSUME NEW i \in TakingStops(d, b) PROVE FALSE
    BY Zenon
  <2>1. i \in DOMAIN BlockTxs[b]
    BY Zenon DEF TakingStops
  <2>2. BlockTxs[b][i] \in BlockTxSet(b)
    BY Zenon, <2>1 DEF BlockTxSet
  <2>3. PICK j \in 1 .. i - 1 : BlockTxs[b][j] = BlockTxs[b][i]
    BY Zenon, <1>5, <2>1, <2>2 DEF TakingStops
  <2>4. i \in ImageTwice(b)
    BY Zenon, <2>1, <2>3 DEF ImageTwice
  <2> QED BY Zenon, <1>3, <2>4
<1>7. Height(b) > START_AMOUNT_BLOCKS =>
        Proof[b] \in d.txs /\ SpinUnlocked(d, b) /\ b \in ripe
  BY Zenon, <1>1, SameUnlocked DEF Fit, Placed
<1> QED BY Zenon, <1>2, <1>3, <1>6, <1>7 DEF Accepts, Fit

(* The disconnected blocks s can be put back above b, one after another,   *)
(* with the checkpoints at the heights H; and the node holds their         *)
(* transactions.                                                           *)
Hung(s, b, H) ==
  \A k \in DOMAIN s :
    /\ Fit(s[k])
    /\ Height(s[k]) \in H => CheckpointTable[Height(s[k])] = s[k]
    /\ Prev[s[k]] = IF k = 1 THEN b ELSE s[k - 1]
Held(d, s) ==
  \A k \in DOMAIN s : BlockTxSet(s[k]) \subseteq d.pool \cup d.txs

(* The innermost switch can be undone: its disconnected blocks hang above  *)
(* the split, and while they are put back they are on the chain up to j.   *)
Undo(d, f, H) ==
  /\ f.phase # "fail"
  /\ f.phase # "push" => Held(d, f.old)
  /\ f.phase = "pop" => f.j = 1 /\ Hung(f.old, Top(d), H)
  /\ f.phase \in {"connect", "rbpop"} =>
       f.j = 1 /\ f.split \in DOMAIN d.chain /\ Hung(f.old, d.chain[f.split], H)
  /\ f.phase = "rbadd" =>
       /\ f.split \in DOMAIN d.chain /\ Hung(f.old, d.chain[f.split], H)
       /\ f.j <= Len(f.old) + 1 /\ Len(d.chain) = f.split + f.j - 1
       /\ \A k \in 1 .. f.j - 1 : d.chain[f.split + k] = f.old[k]

(* The inductive invariant.                                                *)
RInv ==
  /\ ripe = Block /\ batchOk
  /\ task.kind # "check" => Agrees
  /\ Proper(db) /\ Proper(saved)
  /\ frames # <<>> => Undo(db, Frame, points)

(* What the node holds it still holds after a step that retains.           *)
LEMMA HeldKept ==
  ASSUME NEW d, NEW e, Retains(d, e), NEW s, NEW b, NEW H, Hung(s, b, H),
         Held(d, s)
  PROVE  Held(e, s)
<1>1. \A k \in DOMAIN s : \A t \in BlockTxSet(s[k]) : t \notin Sms
  BY Zenon DEF Hung, Fit
<1> QED BY <1>1 DEF Held, Retains

(* Popping and handling a block keep the chain proper.                     *)
LEMMA PoppedProper ==
  ASSUME NEW d, Good(d), Len(d.chain) > 1, Proper(d), NEW e \in Popped(d)
  PROVE  Proper(e)
<1>1. d.chain \in Seq(Block) /\ Len(d.chain) \in Nat
  BY DEF Good, DbType
<1>2. Good(e) /\ e.chain = SubSeq(d.chain, 1, Len(d.chain) - 1)
        /\ Len(e.chain) = Len(d.chain) - 1
  BY PoppedGood
<1>3. e.chain \in Seq(Block)
  BY <1>2 DEF Good, DbType
<1>4. \A i \in DOMAIN e.chain : i \in DOMAIN d.chain /\ e.chain[i] = d.chain[i]
  BY <1>1, <1>2, <1>3, FrontSeq
<1> QED BY Zenon, <1>4 DEF Proper

(* Fit is among what handle_block_to_main_chain checks.                    *)
LEMMA MainProper ==
  ASSUME NEW d, Good(d), Placed(d), Clean(d), Proper(d), NEW b \in Block
  PROVE  LET r == handle_block_to_main_chain(d, b)
         IN  Proper(r.db) /\ (r.ok => Fit(b))
<1> DEFINE r == handle_block_to_main_chain(d, b)
<1>1. /\ r.ok \in BOOLEAN /\ Good(r.db)
      /\ r.ok => r.db.chain = Append(d.chain, b)
      /\ ~r.ok => r.db.chain = d.chain
  BY Zenon, MainGood
<1>2. r.ok => Fit(b)
  BY Zenon, MainAccepts, AcceptsFit
<1> HIDE DEF r
<1>3. d.chain \in Seq(Block) /\ Len(d.chain) \in Nat
  BY DEF Good, DbType
<1>4. ASSUME r.ok PROVE Proper(r.db)
  <2>1. /\ r.db.chain = Append(d.chain, b)
        /\ DOMAIN Append(d.chain, b) = 1 .. Len(d.chain) + 1
        /\ Append(d.chain, b)[Len(d.chain) + 1] = b
        /\ \A i \in 1 .. Len(d.chain) : Append(d.chain, b)[i] = d.chain[i]
        /\ DOMAIN d.chain = 1 .. Len(d.chain)
    BY <1>1, <1>3, <1>4
  <2>2. ASSUME NEW i \in DOMAIN r.db.chain, i > 1 PROVE Fit(r.db.chain[i])
    <3>1. i \in 1 .. Len(d.chain) \/ i = Len(d.chain) + 1
      BY <1>3, <2>1
    <3> QED BY Zenon, <1>2, <1>4, <2>1, <2>2, <3>1 DEF Proper
  <2> QED BY Zenon, <2>2 DEF Proper
<1>5. ASSUME ~r.ok PROVE Proper(r.db)
  BY Zenon, <1>1, <1>5 DEF Proper
<1> QED BY Zenon, <1>2, <1>4, <1>5 DEF r

(* Without a block that spends an image twice add_block does not throw.    *)
LEMMA MainNotDirty ==
  ASSUME NEW d, NEW b, ImageTwice(b) = {}
  PROVE  ~handle_block_to_main_chain(d, b).dirty
<1> DEFINE Pure(o) == ~o.dirty
<1>1. ASSUME NEW k, NEW e, NEW x PROVE Pure(Outcome(k, e, x, FALSE))
  BY DEF Outcome
<1> HIDE DEF Pure
<1>2. Pure(Rejected(d))
  BY Zenon, <1>1 DEF Rejected
<1>3. Pure(TakingStopped(d, b))
  BY Zenon, <1>1, <1>2 DEF TakingStopped
<1>4. Pure(handle_block_to_main_chain(d, b))
  BY Zenon, <1>1, <1>2, <1>3 DEF handle_block_to_main_chain
<1> QED BY <1>4 DEF Pure

(* The switch that has gone on as f.                                       *)
LEMMA Resumed ==
  ASSUME IInv, IInv', frames # <<>>, NEW f, Resume(f)
  PROVE  frames' # <<>> /\ Frame' = f
<1>1. frames \in Seq(FrameType) /\ frames' \in Seq(FrameType)
      /\ frames' = [frames EXCEPT ![Len(frames)] = f]
  BY Zenon DEF IInv, RestType, Resume
<1>2. DOMAIN frames' = DOMAIN frames
  BY Zenon, <1>1
<1>3. /\ Len(frames) \in Nat /\ Len(frames) > 0
      /\ DOMAIN frames = 1 .. Len(frames) /\ DOMAIN frames' = 1 .. Len(frames')
      /\ Len(frames') \in Nat
  BY <1>1
<1>4. Len(frames') = Len(frames)
  BY <1>2, <1>3
<1>5. frames'[Len(frames)] = f
  BY <1>1, <1>3
<1> QED BY <1>3, <1>4, <1>5 DEF Frame

(* A switch that waits can be undone ...                                   *)
LEMMA PushUndo ==
  ASSUME NEW d, NEW f, NEW H, f.phase = "push"
  PROVE  Undo(d, f, H)
BY DEF Undo

(* ... and so can one that begins.                                         *)
LEMMA NewUndo ==
  ASSUME NEW d, NEW f, NEW H, f.phase = "pop", f.old = <<>>, f.j = 1
  PROVE  Undo(d, f, H)
<1>1. Held(d, f.old) /\ Hung(f.old, Top(d), H)
  <2>1. DOMAIN f.old = {}
    OBVIOUS
  <2> QED BY Zenon, <2>1 DEF Held, Hung
<1> QED BY <1>1 DEF Undo
-----------------------------------------------------------------------------
(* The steps of a switch keep it undoable.                                 *)

(* The block above which the chain of a popped database ends.              *)
LEMMA PoppedTop ==
  ASSUME NEW d, Good(d), Len(d.chain) > 1, NEW e \in Popped(d)
  PROVE  /\ Top(d) \in Block /\ Top(e) = Prev[Top(d)]
         /\ Height(Top(d)) = Len(d.chain) - 1
<1>1. d.chain \in Seq(Block) /\ Len(d.chain) \in Nat /\ d.chain = Path[Top(d)]
      /\ Top(d) = d.chain[Len(d.chain)]
  BY DEF Good, DbType, Linked, Top
<1>2. Top(d) \in Block
  BY <1>1
<1>3. e.chain = SubSeq(d.chain, 1, Len(d.chain) - 1)
        /\ Len(e.chain) = Len(d.chain) - 1
  BY PoppedGood
<1>4. e.chain[Len(d.chain) - 1] = d.chain[Len(d.chain) - 1]
  <2>1. Len(d.chain) - 2 \in Nat /\ Len(d.chain) - 2 < Len(e.chain)
        /\ (Len(d.chain) - 2) + 1 = Len(d.chain) - 1
    BY <1>1, <1>3
  <2>2. \A p \in Nat : p < Len(e.chain) => e.chain[p + 1] = d.chain[p + 1]
    BY Zenon, PoppedKeeps
  <2> QED BY Zenon, <2>1, <2>2
<1>5. Top(d) # Genesis
  <2>1. Path[Genesis] = <<Genesis>>
    BY Zenon, TreeAssumption
  <2>2. Len(<<Genesis>>) = 1
    OBVIOUS
  <2>3. Top(d) = Genesis => Len(d.chain) = 1
    BY Zenon, <1>1, <2>1, <2>2
  <2> QED BY <1>1, <2>3
<1>6. Len(d.chain) \in 2 .. Len(Path[Top(d)])
  BY <1>1
<1>7. Prev[d.chain[Len(d.chain)]] = d.chain[Len(d.chain) - 1]
  <2>1. \A i \in 2 .. Len(Path[Top(d)]) :
          Prev[Path[Top(d)][i]] = Path[Top(d)][i - 1]
    BY Zenon, <1>2, <1>5, TreeAssumption
  <2> QED BY Zenon, <1>1, <1>6, <2>1
<1>8. Height(Top(d)) = Len(d.chain) - 1
  BY Zenon, <1>1 DEF Height
<1>9. Top(e) = Prev[Top(d)]
  BY Zenon, <1>1, <1>3, <1>4, <1>7 DEF Top
<1> QED BY <1>2, <1>8, <1>9

(* One more disconnected block in front.                                   *)
LEMMA HungCons ==
  ASSUME NEW s \in Seq(Block), NEW b \in Block, NEW H, Hung(s, b, H), Fit(b),
         Height(b) \in H => CheckpointTable[Height(b)] = b
  PROVE  Hung(<<b>> \o s, Prev[b], H)
<1> DEFINE u == <<b>> \o s
<1>1. /\ Len(s) \in Nat /\ DOMAIN s = 1 .. Len(s)
      /\ DOMAIN u = 1 .. Len(s) + 1 /\ u[1] = b
      /\ \A k \in 2 .. Len(s) + 1 : k - 1 \in 1 .. Len(s) /\ u[k] = s[k - 1]
  OBVIOUS
<1> HIDE DEF u
<1>2. ASSUME NEW k \in DOMAIN u
      PROVE  /\ Fit(u[k])
             /\ Height(u[k]) \in H => CheckpointTable[Height(u[k])] = u[k]
             /\ Prev[u[k]] = IF k = 1 THEN Prev[b] ELSE u[k - 1]
  <2>1. CASE k = 1
    BY Zenon, <1>1, <2>1
  <2>2. CASE k \in 2 .. Len(s) + 1
    <3>1. k - 1 \in DOMAIN s /\ u[k] = s[k - 1]
      BY <1>1, <2>2
    <3>2. /\ Fit(s[k - 1])
          /\ Height(s[k - 1]) \in H => CheckpointTable[Height(s[k - 1])] = s[k - 1]
          /\ Prev[s[k - 1]] = IF k - 1 = 1 THEN b ELSE s[(k - 1) - 1]
      BY Zenon, <3>1 DEF Hung
    <3>3. k # 1
      BY <2>2
    <3>4. (IF k - 1 = 1 THEN b ELSE s[(k - 1) - 1]) = u[k - 1]
      <4>1. CASE k = 2
        BY <1>1, <4>1
      <4>2. CASE k # 2
        <5>1. k - 1 \in 2 .. Len(s) + 1 /\ k - 1 # 1
          BY <1>1, <2>2, <4>2
        <5> QED BY <1>1, <5>1
      <4> QED BY <4>1, <4>2
    <3> QED BY Zenon, <3>1, <3>2, <3>3, <3>4
  <2> QED BY <1>1, <2>1, <2>2
<1>3. Hung(u, Prev[b], H)
  BY Zenon, <1>2 DEF Hung
<1> QED BY <1>3 DEF u

(* The node holds their transactions: the popped ones are in the pool.     *)
LEMMA HeldCons ==
  ASSUME NEW s \in Seq(Block), NEW b \in Block, NEW d, Held(d, s),
         BlockTxSet(b) \subseteq d.pool \cup d.txs
  PROVE  Held(d, <<b>> \o s)
<1> DEFINE u == <<b>> \o s
<1>1. /\ DOMAIN s = 1 .. Len(s) /\ u[1] = b
      /\ \A k \in DOMAIN u : k = 1 \/ (k - 1 \in DOMAIN s /\ u[k] = s[k - 1])
  OBVIOUS
<1> HIDE DEF u
<1>2. Held(d, u)
  BY Zenon, <1>1 DEF Held
<1> QED BY <1>2 DEF u

(* What the steps of a switch start from.                                  *)
LEMMA SwitchFacts ==
  ASSUME IInv, TxInv, RInv, frames # <<>>
  PROVE  /\ Good(db) /\ Placed(db) /\ Clean(db) /\ Proper(db) /\ Agrees
         /\ Len(db.chain) \in Nat /\ db.chain \in Seq(Block)
         /\ Undo(db, Frame, points) /\ Frame \in FrameType
         /\ Frame.i \in 1 .. Len(Frame.alt) /\ Frame.alt \in Seq(Block)
         /\ Frame.old \in Seq(Block) /\ Frame.j \in Nat \ {0}
         /\ Frame.split \in Nat /\ points \subseteq Nat
         /\ FrameOk(db, Frame)
<1>1. Frame \in FrameType /\ Frame.i <= Len(Frame.alt) /\ task = NoTask
      /\ FrameOk(db, Frame)
  BY Zenon, StackTop DEF IInv
<1>2. /\ Frame.i \in 1 .. Len(Frame.alt) /\ Frame.alt \in Seq(Block)
      /\ Frame.old \in Seq(Block) /\ Frame.j \in Nat \ {0}
      /\ Frame.split \in Nat
  BY <1>1 DEF FrameType
<1>3. NoTask.kind # "check"
  BY DEF NoTask
<1>4. Len(db.chain) \in Nat /\ db.chain \in Seq(Block)
  BY DEF IInv, Good, DbType
<1>5. points \subseteq Nat
  BY Zenon, BlockAssumption DEF IInv, RestType
<1> QED BY Zenon, <1>1, <1>2, <1>3, <1>4, <1>5 DEF IInv, TxInv, RInv

(* The pop loop.                                                           *)
LEMMA PopUndo ==
  ASSUME IInv, IInv', TxInv, RInv, SwitchPop
  PROVE  Proper(db') /\ Undo(db', Frame', points)
<1> DEFINE x == Frame
           f == [x EXCEPT !.old = <<Top(db)>> \o @]
<1>0. frames # <<>> /\ x.phase = "pop" /\ db' \in Popped(db) /\ Resume(f)
      /\ Top(db) # Prev[x.alt[1]]
  BY Zenon DEF SwitchPop, In
<1>1. /\ Good(db) /\ Proper(db) /\ Agrees
      /\ Len(db.chain) \in Nat /\ db.chain \in Seq(Block)
      /\ Undo(db, x, points) /\ x \in FrameType
      /\ x.old \in Seq(Block) /\ FrameOk(db, x)
  BY Zenon, <1>0, SwitchFacts
<1>2. Frame' = f
  BY Zenon, <1>0, Resumed
<1> HIDE DEF x
<1>3. /\ f.phase = "pop" /\ f.old = <<Top(db)>> \o x.old /\ f.j = x.j
  BY <1>0, <1>1 DEF FrameType
<1> HIDE DEF f
<1>4. x.j = 1 /\ Hung(x.old, Top(db), points) /\ Held(db, x.old)
  BY <1>0, <1>1 DEF Undo
<1>5. Len(db.chain) > 1
  <2>1. Prev[x.alt[1]] \in OnMain(db)
    BY Zenon, <1>0, <1>1 DEF FrameOk
  <2> QED BY Zenon, <1>0, <1>1, <2>1, StillOnMain
<1>6. /\ Top(db) \in Block /\ Top(db') = Prev[Top(db)]
      /\ Height(Top(db)) = Len(db.chain) - 1
  BY Zenon, <1>0, <1>1, <1>5, PoppedTop
<1>7. Fit(Top(db))
  <2>1. Len(db.chain) \in DOMAIN db.chain
    BY <1>1, <1>5
  <2> QED BY Zenon, <1>1, <1>5, <2>1 DEF Proper, Top
<1>8. Height(Top(db)) \in points => CheckpointTable[Height(Top(db))] = Top(db)
  <2>1. Height(Top(db)) < Len(db.chain) /\ Height(Top(db)) + 1 = Len(db.chain)
    BY <1>1, <1>6
  <2> QED BY Zenon, <1>1, <2>1 DEF Agrees, CheckpointOk, Top
<1>9. Hung(f.old, Top(db'), points)
  BY Zenon, <1>1, <1>3, <1>4, <1>6, <1>7, <1>8, HungCons
<1>10. Held(db', f.old)
  <2>1. Retains(db, db') /\ BlockTxSet(Top(db)) \subseteq db'.pool
    BY Zenon, <1>0, <1>1, PoppedRetains
  <2>2. Held(db', x.old)
    BY Zenon, <1>4, <2>1, HeldKept
  <2>3. BlockTxSet(Top(db)) \subseteq db'.pool \cup db'.txs
    BY <2>1
  <2> QED BY Zenon, <1>1, <1>3, <1>6, <2>2, <2>3, HeldCons
<1>11. Undo(db', f, points)
  BY <1>3, <1>4, <1>9, <1>10 DEF Undo
<1>12. Proper(db')
  BY Zenon, <1>0, <1>1, <1>5, PoppedProper
<1> QED BY Zenon, <1>2, <1>11, <1>12

(* The connect loop: a refused block leaves the rollback undoable.         *)
LEMMA ConnectUndo ==
  ASSUME IInv, IInv', TxInv, RInv, Reversible, SwitchConnect
  PROVE  Proper(db') /\ batchOk' /\ Undo(db', Frame', points)
<1> DEFINE x == Frame
           b == x.alt[x.i]
           r == handle_block_to_main_chain(db, b)
           f == IF ~r.ok THEN [x EXCEPT !.phase = "rbpop"]
                ELSE IF x.i = Len(x.alt) THEN [x EXCEPT !.phase = "push"]
                     ELSE [x EXCEPT !.i = @ + 1]
<1>0. frames # <<>> /\ x.phase = "connect" /\ db' = r.db /\ Resume(f)
      /\ batchOk' = (batchOk /\ ~r.dirty)
  BY Zenon DEF SwitchConnect, In
<1>1. /\ Good(db) /\ Placed(db) /\ Clean(db) /\ Proper(db)
      /\ Len(db.chain) \in Nat /\ db.chain \in Seq(Block)
      /\ Undo(db, x, points) /\ x \in FrameType
      /\ x.i \in 1 .. Len(x.alt) /\ x.alt \in Seq(Block)
  BY Zenon, <1>0, SwitchFacts
<1>2. Frame' = f
  <2> HIDE DEF f
  <2> QED BY Zenon, <1>0, Resumed
<1> HIDE DEF x
<1>3. b \in Block
  BY <1>1
<1> HIDE DEF b
<1>4. /\ r.ok \in BOOLEAN /\ Proper(r.db)
      /\ r.ok => r.db.chain = Append(db.chain, b)
      /\ ~r.ok => r.db.chain = db.chain
  BY Zenon, <1>1, <1>3, MainGood, MainProper
<1>5. Retains(db, r.db)
  BY Zenon, <1>1, <1>3, MainKeeps DEF Reversible, RInv
<1>6. ~r.dirty
  BY Zenon, <1>3, MainNotDirty DEF Reversible
<1> HIDE DEF r
<1>7. /\ f.phase \in {"connect", "rbpop", "push"}
      /\ f.old = x.old /\ f.j = x.j /\ f.split = x.split
  BY <1>0, <1>1 DEF FrameType
<1> HIDE DEF f
<1>8. x.j = 1 /\ x.split \in DOMAIN db.chain
      /\ Hung(x.old, db.chain[x.split], points) /\ Held(db, x.old)
  BY <1>0, <1>1 DEF Undo
<1>9. Held(db', f.old)
  BY Zenon, <1>0, <1>5, <1>7, <1>8, HeldKept
<1>10. x.split \in DOMAIN db'.chain /\ db'.chain[x.split] = db.chain[x.split]
  <2>1. CASE r.ok
    <3>1. db'.chain = Append(db.chain, b)
      BY Zenon, <1>0, <1>4, <2>1
    <3> QED BY <1>1, <1>3, <1>8, <3>1
  <2>2. CASE ~r.ok
    BY Zenon, <1>0, <1>4, <1>8, <2>2
  <2> QED BY <2>1, <2>2
<1>11. Undo(db', f, points)
  <2>1. f.split \in DOMAIN db'.chain /\ Hung(f.old, db'.chain[f.split], points)
    BY Zenon, <1>7, <1>8, <1>10
  <2> QED BY <1>7, <1>8, <1>9, <2>1 DEF Undo
<1>12. batchOk
  BY DEF RInv
<1> QED BY Zenon, <1>0, <1>2, <1>4, <1>6, <1>11, <1>12

(* rollback_blockchain_switching pops down to the split ...                *)
LEMMA BackUndo ==
  ASSUME IInv, IInv', TxInv, RInv, RollbackPop
  PROVE  Proper(db') /\ Undo(db', Frame', points)
<1> DEFINE x == Frame
           f == [x EXCEPT !.phase = "rbadd"]
           n == Len(db.chain)
<1>0. frames # <<>> /\ x.phase = "rbpop"
      /\ \/ n # x.split /\ db' \in Popped(db) /\ frames' = frames
         \/ n = x.split /\ Resume(f) /\ db' = db
  BY Zenon DEF RollbackPop, In
<1>1. /\ Good(db) /\ Proper(db)
      /\ n \in Nat /\ db.chain \in Seq(Block)
      /\ Undo(db, x, points) /\ x \in FrameType
      /\ x.old \in Seq(Block) /\ x.split \in Nat
  BY Zenon, <1>0, SwitchFacts
<1>2. x.j = 1 /\ x.split \in DOMAIN db.chain
      /\ Hung(x.old, db.chain[x.split], points) /\ Held(db, x.old)
  BY <1>0, <1>1 DEF Undo
<1>3. CASE n # x.split /\ db' \in Popped(db) /\ frames' = frames
  <2>1. Frame' = x
    BY Zenon, <1>3 DEF Frame
  <2> HIDE DEF x
  <2>2. n > 1 /\ x.split \in 1 .. n - 1
    BY <1>1, <1>2, <1>3
  <2>3. Held(db', x.old)
    BY Zenon, <1>1, <1>2, <1>3, PoppedRetains, HeldKept
  <2>4. Good(db') /\ Len(db'.chain) = n - 1
    BY Zenon, <1>1, <1>3, <2>2, PoppedGood
  <2>5. x.split \in DOMAIN db'.chain
    <3>1. db'.chain \in Seq(Block)
      BY <2>4 DEF Good, DbType
    <3> QED BY <2>2, <2>4, <3>1
  <2>6. db'.chain[x.split] = db.chain[x.split]
    <3>1. \A p \in Nat : p < Len(db'.chain) => db'.chain[p + 1] = db.chain[p + 1]
      BY Zenon, <1>1, <1>3, <2>2, PoppedKeeps
    <3>2. /\ x.split - 1 \in Nat /\ x.split - 1 < Len(db'.chain)
          /\ (x.split - 1) + 1 = x.split
      BY <1>1, <2>2, <2>4
    <3>3. db'.chain[(x.split - 1) + 1] = db.chain[(x.split - 1) + 1]
      BY Zenon, <3>1, <3>2
    <3> QED BY <3>2, <3>3
  <2>7. Hung(x.old, db'.chain[x.split], points)
    BY Zenon, <1>2, <2>6
  <2>8. Undo(db', x, points)
    BY <1>0, <1>2, <2>3, <2>5, <2>7 DEF Undo
  <2>9. Proper(db')
    BY Zenon, <1>1, <1>3, <2>2, PoppedProper
  <2> QED BY Zenon, <2>1, <2>8, <2>9
<1>4. CASE n = x.split /\ Resume(f) /\ db' = db
  <2>1. Frame' = f
    <3> HIDE DEF f
    <3> QED BY Zenon, <1>0, <1>4, Resumed
  <2> HIDE DEF x
  <2>2. f.phase = "rbadd" /\ f.old = x.old /\ f.j = x.j /\ f.split = x.split
    BY <1>1 DEF FrameType
  <2> HIDE DEF f
  <2>3. /\ f.j <= Len(f.old) + 1 /\ n = f.split + f.j - 1
        /\ \A k \in 1 .. f.j - 1 : db.chain[f.split + k] = f.old[k]
    BY <1>1, <1>2, <1>4, <2>2
  <2>4. Held(db, f.old) /\ f.split \in DOMAIN db.chain
        /\ Hung(f.old, db.chain[f.split], points)
    BY Zenon, <1>2, <2>2
  <2>5. Undo(db, f, points)
    BY <2>2, <2>3, <2>4 DEF Undo
  <2> QED BY Zenon, <1>1, <1>4, <2>1, <2>5
<1> QED BY Zenon, <1>0, <1>3, <1>4

(* ... and puts the old blocks back; none is refused.                      *)
LEMMA AddUndo ==
  ASSUME IInv, IInv', TxInv, RInv, Reversible, RollbackAdd
  PROVE  Proper(db') /\ batchOk' /\ Undo(db', Frame', points)
<1> DEFINE x == Frame
           b == x.old[x.j]
           r == handle_block_to_main_chain(db, b)
           f == IF r.ok THEN [x EXCEPT !.j = @ + 1]
                ELSE [x EXCEPT !.phase = "fail"]
           n == Len(db.chain)
<1>0. /\ frames # <<>> /\ x.phase = "rbadd" /\ x.j <= Len(x.old)
      /\ db' = r.db /\ Resume(f) /\ batchOk' = (batchOk /\ ~r.dirty)
  BY Zenon DEF RollbackAdd, In
<1>1. /\ Good(db) /\ Placed(db) /\ Clean(db) /\ Proper(db)
      /\ n \in Nat /\ db.chain \in Seq(Block)
      /\ Undo(db, x, points) /\ x \in FrameType
      /\ x.old \in Seq(Block) /\ x.split \in Nat /\ x.j \in Nat \ {0}
  BY Zenon, <1>0, SwitchFacts
<1>2. Frame' = f
  <2> HIDE DEF f
  <2> QED BY Zenon, <1>0, Resumed
<1> HIDE DEF x
<1>3. /\ x.split \in DOMAIN db.chain /\ Hung(x.old, db.chain[x.split], points)
      /\ n = x.split + x.j - 1
      /\ \A k \in 1 .. x.j - 1 : db.chain[x.split + k] = x.old[k]
      /\ Held(db, x.old)
  BY <1>0, <1>1 DEF Undo
<1>4. x.j \in DOMAIN x.old /\ b \in Block
  BY <1>0, <1>1
<1>5. /\ Fit(b)
      /\ Height(b) \in points => CheckpointTable[Height(b)] = b
      /\ Prev[b] = IF x.j = 1 THEN db.chain[x.split] ELSE x.old[x.j - 1]
      /\ BlockTxSet(b) \subseteq db.pool \cup db.txs
  BY Zenon, <1>3, <1>4 DEF Hung, Held
<1>6. Prev[b] = Top(db)
  <2>1. CASE x.j = 1
    <3>1. n = x.split
      BY <1>1, <1>3, <2>1
    <3>2. Prev[b] = db.chain[x.split]
      BY Zenon, <1>5, <2>1
    <3> QED BY <3>1, <3>2 DEF Top
  <2>2. CASE x.j # 1
    <3>1. x.j - 1 \in 1 .. x.j - 1 /\ n = x.split + (x.j - 1)
      <4> DEFINE i == x.j
                 p == x.split
      <4>1. i \in Nat \ {0} /\ i # 1 /\ p \in Nat /\ n = p + i - 1
        BY Zenon, <1>1, <1>3, <2>2
      <4> HIDE DEF i, p, n
      <4>2. i - 1 \in 1 .. i - 1 /\ n = p + (i - 1)
        BY <4>1
      <4> QED BY Zenon, <4>2 DEF i, p
    <3>2. db.chain[x.split + (x.j - 1)] = x.old[x.j - 1]
      BY Zenon, <1>3, <3>1
    <3>3. Prev[b] = x.old[x.j - 1]
      BY Zenon, <1>5, <2>2
    <3> QED BY <3>1, <3>2, <3>3 DEF Top
  <2> QED BY <2>1, <2>2
<1> HIDE DEF b
<1>7. Height(b) = n
  <2>1. b # Genesis
    BY Zenon, <1>5 DEF Fit
  <2>2. Len(Path[b]) = Len(Path[Prev[b]]) + 1
    BY Zenon, <1>4, <2>1, PathLast
  <2>3. Path[Prev[b]] = db.chain
    BY Zenon, <1>1, <1>6 DEF Good, Linked
  <2>4. Len(Path[b]) = n + 1
    BY Zenon, <2>2, <2>3
  <2> QED BY <1>1, <2>4 DEF Height
<1>8. CheckpointOk(Len(db.chain), b)
  BY Zenon, <1>5, <1>7 DEF CheckpointOk
<1>9. Accepts(db, b)
  BY Zenon, <1>1, <1>4, <1>5, <1>6, <1>8, FitAccepts DEF RInv
<1>10. r.ok /\ ~r.dirty /\ Proper(r.db) /\ r.db.chain = Append(db.chain, b)
  <2>1. r.ok
    BY Zenon, <1>9, MainAccepts
  <2>2. ~r.dirty
    BY Zenon, <1>4, MainNotDirty DEF Reversible
  <2>3. Proper(r.db)
    BY Zenon, <1>1, <1>4, MainProper
  <2>4. r.db.chain = Append(db.chain, b)
    BY Zenon, <1>1, <1>4, <2>1, MainGood
  <2> QED BY Zenon, <2>1, <2>2, <2>3, <2>4
<1>11. Retains(db, r.db)
  BY Zenon, <1>1, <1>4, MainKeeps DEF Reversible, RInv
<1> HIDE DEF r
<1>12. /\ f.phase = "rbadd" /\ f.old = x.old /\ f.j = x.j + 1
       /\ f.split = x.split
  BY <1>0, <1>1, <1>10 DEF FrameType
<1> HIDE DEF f
<1>13. Held(db', f.old)
  BY Zenon, <1>0, <1>3, <1>11, <1>12, HeldKept
<1>14. /\ Len(db'.chain) = n + 1 /\ db'.chain[n + 1] = b
       /\ \A i \in 1 .. n : db'.chain[i] = db.chain[i]
       /\ DOMAIN db'.chain = 1 .. n + 1 /\ DOMAIN db.chain = 1 .. n
  <2>1. db'.chain = Append(db.chain, b)
    BY Zenon, <1>0, <1>10
  <2> QED BY <1>1, <1>4, <2>1
<1>15. f.split \in DOMAIN db'.chain /\ Hung(f.old, db'.chain[f.split], points)
  <2>1. x.split \in 1 .. n /\ x.split \in 1 .. n + 1
    BY <1>1, <1>3, <1>14
  <2>2. db'.chain[x.split] = db.chain[x.split]
    BY Zenon, <1>14, <2>1
  <2> QED BY Zenon, <1>3, <1>12, <1>14, <2>1, <2>2
<1>16. f.j <= Len(f.old) + 1 /\ Len(db'.chain) = f.split + f.j - 1
  <2>1. Len(db'.chain) = n + 1 /\ n = x.split + x.j - 1
    BY <1>3, <1>14
  <2>2. Len(x.old) \in Nat
    BY <1>1
  <2> DEFINE i == x.j
             p == x.split
             o == Len(x.old)
             m == Len(db'.chain)
  <2>3. /\ m = n + 1 /\ n = p + i - 1 /\ i <= o
        /\ i \in Nat \ {0} /\ p \in Nat /\ o \in Nat /\ n \in Nat
    BY Zenon, <1>0, <1>1, <2>1, <2>2
  <2> HIDE DEF i, p, o, m, n
  <2>4. i + 1 <= o + 1 /\ m = p + (i + 1) - 1
    BY <2>3
  <2> QED BY Zenon, <1>12, <2>4 DEF i, p, o, m
<1>17. ASSUME NEW k \in 1 .. f.j - 1 PROVE db'.chain[f.split + k] = f.old[k]
  <2>1. CASE k = x.j
    <3>0. n = x.split + x.j - 1
      BY <1>3
    <3>1. f.split + k = n + 1
      BY <1>1, <1>12, <2>1, <3>0
    <3> QED BY Zenon, <1>12, <1>14, <2>1, <3>1 DEF b
  <2>2. CASE k # x.j
    <3>0. n = x.split + x.j - 1
      BY <1>3
    <3>1. k \in 1 .. x.j - 1 /\ x.split + k \in 1 .. n
      BY <1>1, <1>12, <2>2, <3>0
    <3> QED BY Zenon, <1>3, <1>12, <1>14, <3>1
  <2> QED BY <2>1, <2>2
<1>18. Undo(db', f, points)
  BY <1>12, <1>13, <1>15, <1>16, <1>17 DEF Undo
<1>19. batchOk
  BY DEF RInv
<1> QED BY Zenon, <1>0, <1>2, <1>10, <1>18, <1>19

(* What RInv says of the running batch.                                    *)
Undoing ==
  batchOk /\ Proper(db) /\ (frames # <<>> => Undo(db, Frame, points))

(* The chain is all that Proper looks at.                                  *)
LEMMA SameProper ==
  ASSUME NEW d, NEW e, Proper(d), e.chain = d.chain
  PROVE  Proper(e)
BY Zenon DEF Proper

(* A step of the innermost switch that goes on.                            *)
LEMMA GoesOn ==
  ASSUME IInv, IInv', TxInv, RInv, Reversible,
         SwitchPop \/ SwitchSplit \/ SwitchConnect \/ RollbackPop \/ RollbackAdd
  PROVE  Undoing'
<1>0. points' = points /\ batchOk
  BY Zenon DEF SwitchPop, SwitchSplit, SwitchConnect, RollbackPop, RollbackAdd,
       RInv
<1>1. CASE SwitchPop
  <2>1. batchOk' = batchOk
    BY Zenon, <1>1 DEF SwitchPop
  <2> QED BY Zenon, <1>0, <1>1, <2>1, PopUndo DEF Undoing
<1>2. CASE SwitchConnect
  BY Zenon, <1>0, <1>2, ConnectUndo DEF Undoing
<1>3. CASE RollbackPop
  <2>1. batchOk' = batchOk
    BY Zenon, <1>3 DEF RollbackPop
  <2> QED BY Zenon, <1>0, <1>3, <2>1, BackUndo DEF Undoing
<1>4. CASE RollbackAdd
  BY Zenon, <1>0, <1>4, AddUndo DEF Undoing
<1>5. CASE SwitchSplit
  <2> DEFINE x == Frame
             f == [x EXCEPT !.phase = "connect", !.split = Len(db.chain)]
  <2>0. frames # <<>> /\ x.phase = "pop" /\ Resume(f) /\ db' = db
        /\ batchOk' = batchOk
    BY Zenon, <1>5 DEF SwitchSplit, In
  <2>1. /\ Good(db) /\ Proper(db) /\ Undo(db, x, points) /\ x \in FrameType
        /\ Len(db.chain) \in Nat /\ db.chain \in Seq(Block)
    BY Zenon, <2>0, SwitchFacts
  <2>2. Frame' = f
    <3> HIDE DEF f
    <3> QED BY Zenon, <2>0, Resumed
  <2> HIDE DEF x
  <2>3. /\ f.phase = "connect" /\ f.old = x.old /\ f.j = x.j
        /\ f.split = Len(db.chain)
    BY <2>1 DEF FrameType
  <2> HIDE DEF f
  <2>4. x.j = 1 /\ Hung(x.old, Top(db), points) /\ Held(db, x.old)
    BY <2>0, <2>1 DEF Undo
  <2>5. Len(db.chain) \in DOMAIN db.chain
    <3>1. db.chain # <<>>
      BY <2>1 DEF Good, DbType
    <3> QED BY <2>1, <3>1
  <2>6. /\ Held(db, f.old) /\ f.j = 1 /\ f.split \in DOMAIN db.chain
        /\ Hung(f.old, db.chain[f.split], points)
    BY Zenon, <2>3, <2>4, <2>5 DEF Top
  <2>7. Undo(db, f, points)
    BY <2>3, <2>6 DEF Undo
  <2> QED BY Zenon, <1>0, <2>0, <2>1, <2>2, <2>7 DEF Undoing
<1> QED BY <1>1, <1>2, <1>3, <1>4, <1>5

(* Switches that wait in their push loop.                                  *)
LEMMA WaitUndo ==
  ASSUME NEW fs \in Seq(FrameType), Waiting(fs), fs # <<>>, NEW d, NEW H
  PROVE  Undo(d, fs[Len(fs)], H)
<1>1. Len(fs) \in DOMAIN fs
  OBVIOUS
<1> QED BY Zenon, <1>1, PushUndo DEF Waiting

(* A call of handle_alternative_block above switches that wait.            *)
LEMMA CallUndo ==
  ASSUME IInv, RInv, NEW b \in Block, NEW rest \in Seq(FrameType),
         Waiting(rest), CallAlternative(b, rest)
  PROVE  Undoing'
<1> DEFINE r == handle_alternative_block(db, b)
           f == NewFrame(db, b, r.how)
<1>1. r.db.chain = db.chain
      /\ (r.how \in Switches => f \in FrameType)
  BY Zenon, AltGood DEF IInv
<1>2. /\ db' = r.db /\ batchOk' = batchOk
      /\ frames' = IF r.how = "throw" THEN <<>>
                   ELSE IF r.how \in Switches THEN Append(rest, f) ELSE rest
  BY Zenon DEF CallAlternative
<1>3. f.old = <<>> /\ f.j = 1 /\ f.phase = "pop"
  BY DEF NewFrame
<1> HIDE DEF r, f
<1>4. Proper(db') /\ batchOk'
  BY Zenon, <1>1, <1>2, SameProper DEF RInv
<1>5. ASSUME frames' # <<>> PROVE Undo(db', Frame', points')
  <2>1. CASE frames' = Append(rest, f) /\ f \in FrameType
    <3>1. frames'[Len(frames')] = f
      BY <2>1
    <3> QED BY Zenon, <1>3, <3>1, NewUndo DEF Frame
  <2>2. CASE frames' = rest
    BY Zenon, <1>5, <2>2, WaitUndo DEF Frame
  <2> QED BY Zenon, <1>1, <1>2, <1>5, <2>1, <2>2
<1> QED BY Zenon, <1>4, <1>5 DEF Undoing

(* A switch ends, or hands a disconnected block on.                        *)
LEMMA EndsOrCalls ==
  ASSUME IInv, TxInv, RInv, SwitchFail \/ SwitchDone \/ SwitchPush
  PROVE  Undoing'
<1>0. frames # <<>>
  BY Zenon DEF SwitchFail, SwitchDone, SwitchPush, In
<1>1. /\ Below \in Seq(FrameType) /\ Waiting(Below)
      /\ Frame \in FrameType /\ Frame.i <= Len(Frame.alt)
      /\ \A f \in FrameType :
           [frames EXCEPT ![Len(frames)] = f] = Append(Below, f)
  BY Zenon, <1>0, StackTop DEF IInv
<1>2. CASE SwitchFail \/ SwitchDone
  <2>1. frames' = Below /\ batchOk' = batchOk
        /\ \E S : db' = WithoutAlt(db, S)
    BY Zenon, <1>2 DEF SwitchFail, SwitchDone, Return, Below
  <2>2. db'.chain = db.chain
    BY Zenon, <2>1, WithoutAltGood DEF IInv
  <2>3. Proper(db') /\ batchOk'
    BY Zenon, <2>1, <2>2, SameProper DEF RInv
  <2>4. frames' # <<>> => Undo(db', Frame', points')
    BY Zenon, <1>1, <2>1, WaitUndo DEF Frame
  <2> QED BY Zenon, <2>3, <2>4 DEF Undoing
<1>3. CASE SwitchPush
  <2> DEFINE f == [Frame EXCEPT !.j = @ + 1]
             rest == [frames EXCEPT ![Len(frames)].j = @ + 1]
  <2>0. Frame.phase = "push" /\ Frame.j <= Len(Frame.old)
        /\ CallAlternative(Frame.old[Frame.j], rest)
    BY Zenon, <1>3 DEF SwitchPush, In
  <2>1. Frame.j \in Nat \ {0} /\ Frame.old \in Seq(Block)
    BY Zenon, <1>1 DEF FrameType
  <2>2. Frame.old[Frame.j] \in Block
    BY <2>0, <2>1
  <2>3. f \in FrameType /\ f.i = Frame.i /\ f.alt = Frame.alt
          /\ f.phase = "push"
    <3>1. Frame.j + 1 \in Nat \ {0}
      BY <2>1
    <3>2. [Frame EXCEPT !.j = Frame.j + 1] \in FrameType
      BY Zenon, <1>1, <3>1 DEF FrameType
    <3>3. f.i = Frame.i /\ f.alt = Frame.alt /\ f.phase = "push"
      BY <1>1, <2>0 DEF FrameType
    <3> QED BY <3>2, <3>3
  <2>4. rest = Append(Below, f)
    BY Zenon, <1>1, <2>3 DEF Frame
  <2> HIDE DEF f, rest
  <2>5. /\ rest \in Seq(FrameType)
        /\ DOMAIN rest = 1 .. Len(Below) + 1 /\ DOMAIN Below = 1 .. Len(Below)
        /\ rest[Len(Below) + 1] = f /\ Len(Below) \in Nat
        /\ \A n \in 1 .. Len(Below) : rest[n] = Below[n]
    BY <1>1, <2>3, <2>4
  <2>6. ASSUME NEW n \in DOMAIN rest
        PROVE  rest[n].phase = "push" /\ rest[n].i <= Len(rest[n].alt)
    <3>1. n \in 1 .. Len(Below) \/ n = Len(Below) + 1
      BY <2>5
    <3> QED BY Zenon, <1>1, <2>3, <2>5, <3>1 DEF Waiting
  <2>7. Waiting(rest)
    BY Zenon, <2>6 DEF Waiting
  <2> QED BY Zenon, <2>0, <2>2, <2>5, <2>7, CallUndo
<1> QED BY <1>2, <1>3

(* add_new_block.                                                          *)
LEMMA AddBlockUndo ==
  ASSUME IInv, TxInv, RInv, Reversible, NEW b \in Block, add_new_block(b)
  PROVE  Undoing'
<1>1. CASE AddKnown(b)
  BY Zenon, <1>1 DEF AddKnown, Idle, RInv, Undoing
<1>2. CASE AddToMain(b)
  <2>1. /\ db' = handle_block_to_main_chain(db, b).db /\ frames' = <<>>
        /\ batchOk' = (batchOk /\ ~handle_block_to_main_chain(db, b).dirty)
    BY Zenon, <1>2 DEF AddToMain, Idle
  <2>2. Good(db) /\ Placed(db) /\ Clean(db) /\ Proper(db) /\ batchOk
    BY Zenon DEF IInv, TxInv, RInv
  <2>3. Proper(db')
    BY Zenon, <2>1, <2>2, MainProper
  <2>4. ~handle_block_to_main_chain(db, b).dirty
    BY Zenon, MainNotDirty DEF Reversible
  <2> QED BY Zenon, <2>1, <2>2, <2>3, <2>4 DEF Undoing
<1>3. CASE AddAlternative(b)
  <2>1. <<>> \in Seq(FrameType) /\ Waiting(<<>>)
    BY DEF Waiting
  <2> QED BY Zenon, <1>3, <2>1, CallUndo DEF AddAlternative
<1> QED BY <1>1, <1>2, <1>3 DEF add_new_block

(* The steps that handle no block.                                         *)
LEMMA OtherUndo ==
  ASSUME IInv, RInv, [Next]_vars, ~SwitchStep,
         ~\E b \in Block \ {Genesis} : add_new_block(b)
  PROVE  Undoing'
<1> DEFINE Chain == \/ db'.chain = db.chain
                    \/ Len(db.chain) > 1 /\ db' \in Popped(db)
                    \/ db' = saved
           Stack == frames' = <<>> \/ UNCHANGED <<frames, db, points>>
<1>0. /\ Good(db) /\ Len(db.chain) \in Nat /\ Len(db.chain) > 0
      /\ batchOk = TRUE /\ Proper(db) /\ Proper(saved)
      /\ frames # <<>> => Undo(db, Frame, points) /\ task.kind = "none"
      /\ ~batch => frames = <<>>
  <2>1. Len(db.chain) \in Nat /\ Len(db.chain) > 0
    BY DEF IInv, Good, DbType
  <2>2. NoTask.kind = "none"
    BY DEF NoTask
  <2> QED BY Zenon, <2>1, <2>2 DEF IInv, RestType, RInv, CallsInOrder, Idle
<1>1. batchOk' = TRUE /\ Chain /\ Stack
  <2>1. CASE UNCHANGED vars
    BY Zenon, <1>0, <2>1 DEF vars
  <2>2. CASE prepare_handle_incoming_blocks \/ cleanup_handle_incoming_blocks
    BY Zenon, <1>0, <2>2 DEF prepare_handle_incoming_blocks,
         cleanup_handle_incoming_blocks, Idle
  <2>3. CASE PopStep
    <3>1. task.left \in Nat /\ task.left > 0 /\ task.left < Len(db.chain)
      BY <2>3 DEF PopStep, IInv, RestType, TaskType, CallsInOrder
    <3>2. Len(db.chain) > 1
      BY <1>0, <3>1
    <3> QED BY Zenon, <1>0, <2>3, <3>2 DEF PopStep
  <2>4. CASE CheckRollback
    <3>1. \A n \in Nat : n > 0 /\ n # 1 => n > 1
      OBVIOUS
    <3> QED BY Zenon, <1>0, <2>4, <3>1 DEF CheckRollback
  <2>5. CASE PopDone \/ CheckPoint \/ CheckDone
    BY Zenon, <1>0, <2>5 DEF PopDone, CheckPoint, CheckDone
  <2>6. CASE \/ \E n \in 1 .. Len(db.chain) : PopBlocks(n)
             \/ \E S \in SUBSET DOMAIN CheckpointTable : update_checkpoints(S)
             \/ flush_invalid_blocks
             \/ \E b \in Block : TimePasses(b)
             \/ Crash
    BY Zenon, <1>0, <2>6 DEF PopBlocks, update_checkpoints,
         flush_invalid_blocks, TimePasses, Crash, Idle
  <2>7. CASE \E t \in Tx : AddTx(t) \/ DropTx(t)
    <3>1. \A P : [db EXCEPT !.pool = P].chain = db.chain
      BY <1>0 DEF Good, DbType
    <3> QED BY Zenon, <1>0, <2>7, <3>1 DEF AddTx, DropTx, Idle
  <2> QED BY Zenon, <2>1, <2>2, <2>3, <2>4, <2>5, <2>6, <2>7 DEF Next, TaskStep
<1>2. Proper(db')
  BY Zenon, <1>0, <1>1, SameProper, PoppedProper
<1>3. frames' # <<>> => Undo(db', Frame', points')
  BY Zenon, <1>0, <1>1 DEF Frame
<1> QED BY Zenon, <1>1, <1>2, <1>3 DEF Undoing

(* The invariant is inductive.                                             *)
LEMMA NextRInv ==
  ASSUME IInv, TxInv, PInv, RInv, Reversible, [Next]_vars
  PROVE  RInv'
<1>1. IInv' /\ ripe' = Block
  BY Zenon, NextInv, NextRipe DEF RInv
<1>2. Undoing'
  <2>1. CASE SwitchStep
    BY Zenon, <1>1, <2>1, GoesOn, EndsOrCalls DEF SwitchStep
  <2>2. CASE \E b \in Block \ {Genesis} : add_new_block(b)
    BY Zenon, <2>2, AddBlockUndo
  <2> QED BY Zenon, <2>1, <2>2, OtherUndo
<1>3. task'.kind # "check" => Agrees'
  BY Zenon, PointsStep DEF RInv, Reversible
<1>4. Proper(saved')
  <2>1. saved' = saved \/ saved' = db'
    BY Zenon, EveryTxStep DEF SaveStep
  <2> QED BY Zenon, <1>2, <2>1 DEF RInv, Undoing
<1> QED BY Zenon, <1>1, <1>2, <1>3, <1>4 DEF RInv, Undoing

(* When a switch fails it has put back what it had disconnected.           *)
LEMMA RestoredChain ==
  ASSUME IInv, TxInv, RInv
  PROVE  RollbackRestores
<1> DEFINE x == Frame
           c == db.chain
<1> SUFFICES ASSUME Failing PROVE c = SubSeq(c, 1, x.split) \o x.old
  BY Zenon DEF RollbackRestores
<1>0. frames # <<>> /\ (x.phase = "fail" \/ (x.phase = "rbadd" /\ x.j > Len(x.old)))
  BY Zenon DEF Failing, In
<1>1. /\ c \in Seq(Block) /\ Len(c) \in Nat /\ Undo(db, x, points)
      /\ x.old \in Seq(Block) /\ x.split \in Nat /\ x.j \in Nat \ {0}
  BY Zenon, <1>0, SwitchFacts
<1> HIDE DEF x
<1>2. /\ x.split \in DOMAIN c /\ x.j <= Len(x.old) + 1
      /\ Len(c) = x.split + x.j - 1
      /\ \A k \in 1 .. x.j - 1 : c[x.split + k] = x.old[k]
  BY <1>0, <1>1 DEF Undo
<1> HIDE DEF c
<1>3. x.j = Len(x.old) + 1 /\ Len(x.old) \in Nat
  BY SMTT(20), <1>0, <1>1, <1>2 DEF Undo
<1>4. Len(c) = x.split + Len(x.old) /\ x.split \in 1 .. Len(c)
  BY <1>1, <1>2, <1>3
<1> DEFINE s == SubSeq(c, 1, x.split)
           e == s \o x.old
<1>5. s \in Seq(Block) /\ Len(s) = x.split
        /\ \A i \in 1 .. x.split : s[i] = c[i]
  BY <1>1, <1>4
<1> HIDE DEF s
<1>6. e \in Seq(Block) /\ Len(e) = Len(c)
        /\ \A i \in 1 .. Len(c) :
             e[i] = IF i <= x.split THEN s[i] ELSE x.old[i - x.split]
  BY SMTT(20), <1>1, <1>4, <1>5
<1> HIDE DEF e
<1>7. ASSUME NEW i \in 1 .. Len(c) PROVE c[i] = e[i]
  <2>1. CASE i <= x.split
    BY <1>1, <1>4, <1>5, <1>6, <2>1
  <2>2. CASE ~(i <= x.split)
    <3>1. /\ i - x.split \in 1 .. x.j - 1
          /\ x.split + (i - x.split) = i
      BY <1>1, <1>3, <1>4, <2>2
    <3>2. c[x.split + (i - x.split)] = x.old[i - x.split]
      BY Zenon, <1>2, <3>1
    <3> QED BY <1>6, <2>2, <3>1, <3>2
  <2> QED BY <2>1, <2>2
<1>8. c = e
  BY <1>1, <1>6, <1>7, SeqEqual
<1> QED BY Zenon, <1>8 DEF e, s

(* When no interval is running, no checkpoint lies below height 2, no      *)
(* block spends an image twice and none is refused after its transactions  *)
(* were taken without giving them back, a switch that fails leaves the     *)
(* chain it found: rollback_blockchain_switching puts every disconnected   *)
(* block back, and the database refuses none of them, in nested switches   *)
(* and between checkpoints, pops, aborted batches and crashes too.         *)
THEOREM RollbackAlwaysRestores ==
  ASSUME Reversible
  PROVE  Spec => []RollbackRestores
<1>1. Init => RInv /\ PInv
  <2> SUFFICES ASSUME Init PROVE RInv /\ PInv
    OBVIOUS
  <2>1. NoTask.kind # "check" /\ GenesisDb.chain = <<Genesis>>
    BY DEF NoTask, GenesisDb
  <2>2. ripe = Block
    BY DEF Init, Reversible, Returning
  <2>3. Proper(GenesisDb)
    BY <2>1 DEF Proper
  <2>4. Agrees
    BY Zenon DEF Init, Agrees
  <2> QED BY Zenon, <2>1, <2>2, <2>3, <2>4 DEF Init, RInv, PInv
<1>2. ASSUME IInv, PInv, [Next]_vars PROVE PInv'
  BY Zenon, <1>2, NextPInv DEF Reversible
<1>3. ASSUME IInv, TxInv, PInv, RInv, [Next]_vars PROVE RInv'
  BY Zenon, <1>3, NextRInv
<1>4. ASSUME IInv, TxInv, RInv PROVE RollbackRestores
  BY Zenon, <1>4, RestoredChain
<1> QED BY <1>1, <1>2, <1>3, <1>4, Invariance, TxInvariance, PTL DEF Spec
=============================================================================

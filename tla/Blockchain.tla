----------------------------- MODULE Blockchain -----------------------------
(***************************************************************************)
(* The block store of a node: the main chain, the alternative blocks, the  *)
(* blocks known to be invalid, the table of spinner heights and the        *)
(* transactions that move between the chain and the pool.  It models       *)
(* Blockchain::add_new_block and everything that function reaches          *)
(* (handle_block_to_main_chain, handle_alternative_block,                  *)
(* switch_to_alternative_blockchain and its rollback), pop_blocks,         *)
(* check_against_checkpoints and the database batch around them            *)
(* (cryptonote_core/blockchain.cpp, blockchain_db/, checkpoints/).         *)
(*                                                                         *)
(* A call runs under the pool lock and the blockchain lock, so calls do    *)
(* not interleave; it is still split into one step per database            *)
(* modification, because a crash and the readers that take no lock see     *)
(* the states in between.  handle_alternative_block and                    *)
(* switch_to_alternative_blockchain call each other: their activations are *)
(* the stack "frames".                                                     *)
(*                                                                         *)
(* A cumulative gyro is the sum M of the modules of the spins and the      *)
(* module of their vector sum.  The 256 dimensions are one here, so a spin *)
(* is an integer, and the scaling by MEDIUM_MODULE_OF_DIMENSIONALS_VECTOR  *)
(* and the int8 quantisation of the direction are left out.                *)
(***************************************************************************)
EXTENDS Integers, Sequences, FiniteSets

CONSTANTS
  Block, Genesis,       \* the blocks of the network, and the first one
  Prev,                 \* Prev[b]: the parent, block::prev_id
  Path,                 \* Path[b]: the blocks from Genesis to b
  Tx, NoTx,             \* non-coinbase transactions; NoTx is null_hash
  BlockTxs,             \* BlockTxs[b]: the sequence block::tx_hashes
  Image,                \* Image[t]: the key image t spends
  Sms,                  \* transactions that carry a message in their extra
  Key, ZeroKey,         \* spinner view keys; the all-zero key of early blocks
  Spinner,              \* Spinner[b]: nfo.adr.m_view_public_key of b
  PrevSpin,             \* PrevSpin[b]: nfo.prevuos_height of b
  Proof,                \* Proof[b]: nfo.proof.txid of b
  Mag,                  \* Mag[b]: the spin magnitude in b's spinner data
  Beacon(_, _),         \* direction (-1 or 1) hashed from a txid and blocks
  Defect,               \* Defect[b]: the check b fails whatever the state
  Early,                \* blocks whose spinner interval is still running
  CheckpointTable,      \* height -> block: checkpoints that may be loaded
  START_AMOUNT_BLOCKS, SPINNER_PVRB_BLOCK_WINDOW,
  StaleRecord           \* may remove_block read a moved record? (see Popped)

VARIABLES
  db,       \* the database as the running batch sees it
  saved,    \* the database as last committed
  batch,    \* is a batch active (prepare ... cleanup, or pop_blocks)?
  batchOk,  \* m_batch_success
  invalid,  \* m_invalid_blocks
  frames,   \* activations of switch_to_alternative_blockchain, innermost last
  task,     \* the pop_blocks or check_against_checkpoints call in progress
  bvc,      \* block_verification_context of the last add_new_block
  points,   \* heights of the checkpoints loaded so far
  ripe      \* blocks whose spinner interval has elapsed

vars == <<db, saved, batch, batchOk, invalid, frames, task, bvc, points, ripe>>

BlockTxSet(b) == {BlockTxs[b][i] : i \in DOMAIN BlockTxs[b]}

(* The height of the last block of s that spinner k made is h; 0 if none.  *)
IsLastSpin(s, k, h) ==
  \/ h = 0 /\ \A i \in DOMAIN s : Spinner[s[i]] # k
  \/ /\ h + 1 \in DOMAIN s /\ Spinner[s[h + 1]] = k
     /\ \A i \in DOMAIN s : i > h + 1 => Spinner[s[i]] # k

Defects == {"none", "header", "pruned", "spinner", "mismatch"}

(* The blocks form a tree rooted at Genesis, and Path[b] is the branch of  *)
(* the tree that ends with b.                                              *)
ASSUME TreeAssumption ==
  /\ Genesis \in Block
  /\ Prev \in [Block -> Block]
  /\ Path \in [Block -> Seq(Block)]
  /\ Path[Genesis] = <<Genesis>>
  /\ \A b \in Block \ {Genesis} :
       /\ Path[b] = Append(Path[Prev[b]], b)
       /\ Path[b][1] = Genesis
       /\ \A i \in 2 .. Len(Path[b]) :
            /\ Prev[Path[b][i]] = Path[b][i - 1]
            /\ Len(Path[Path[b][i]]) = i

ASSUME BlockAssumption ==
  /\ BlockTxs \in [Block -> Seq(Tx)]
  /\ BlockTxs[Genesis] = <<>>
  /\ Spinner \in [Block -> Key \cup {ZeroKey}] /\ ZeroKey \notin Key
  /\ Spinner[Genesis] = ZeroKey
  /\ PrevSpin \in [Block -> Nat]
  /\ Proof \in [Block -> Tx \cup {NoTx}] /\ NoTx \notin Tx
  /\ Mag \in [Block -> Nat]
  /\ \A t \in Tx : \A S \in SUBSET Block : Beacon(t, S) \in {-1, 1}
  /\ Defect \in [Block -> Defects]
  /\ Early \subseteq Block
  /\ DOMAIN CheckpointTable \subseteq Nat
  /\ START_AMOUNT_BLOCKS \in Nat /\ SPINNER_PVRB_BLOCK_WINDOW \in Nat \ {0}
  /\ StaleRecord \in BOOLEAN

(* A spinner builds its block with get_spinner_data, which takes           *)
(* nfo.prevuos_height from the spinner table of the chain it builds on.    *)
ASSUME PrevSpinAssumption ==
  \A b \in Block \ {Genesis} :
    Spinner[b] \in Key => IsLastSpin(Path[Prev[b]], Spinner[b], PrevSpin[b])
-----------------------------------------------------------------------------
(* The gyro.                                                               *)

Module(v) == (IF v < 0 THEN -v ELSE v) + 1

FromSpin(s) == [M |-> Module(s), v |-> s]

AddSpin(g, s) == [M |-> g.M + Module(s), v |-> g.v + s]

(* The two weights compared by handle_alternative_block.                   *)
Heavier(g, than) ==
  LET mult == than.M + g.M
  IN  (mult * (than.M + 1)) \div (Module(than.v) + 1)
        < (mult * (g.M + 1)) \div (Module(g.v) + 1)
-----------------------------------------------------------------------------
(* Reading a database d.                                                   *)

Height(b) == Len(Path[b]) - 1
Top(d) == d.chain[Len(d.chain)]
OnMain(d) == {d.chain[i] : i \in DOMAIN d.chain}
Spent(d) == {Image[t] : t \in d.txs}

(* get_tx_block_height.  A transaction that a failed add_block left behind *)
(* has the height of the block that was not added.                         *)
TxHeight(d, t) ==
  LET at == {i \in DOMAIN d.chain : t \in BlockTxSet(d.chain[i])}
  IN  IF at = {} THEN Len(d.chain) ELSE (CHOOSE i \in at : TRUE) - 1

(* get_spin refuses a locking transaction that is too recent.              *)
SpinUnlocked(d, b) ==
  TxHeight(d, Proof[b]) + SPINNER_PVRB_BLOCK_WINDOW < Len(d.chain)

(* The blocks of the main chain whose hashes give the direction of a spin. *)
BeaconBlocks(d, t) ==
  LET h == TxHeight(d, t)
  IN  {d.chain[h + 2]} \cup
      {d.chain[n + 1] : n \in h + 2 .. h + SPINNER_PVRB_BLOCK_WINDOW - 1}

get_spin(d, b) == Mag[b] * Beacon(Proof[b], BeaconBlocks(d, Proof[b]))

(* A default-constructed spin_type: what early blocks contribute.          *)
DefaultSpin == 1

have_block(d, b) == b \in OnMain(d) \cup DOMAIN d.alt \cup invalid

CheckpointOk(h, b) == h \in points => CheckpointTable[h] = b

is_alternative_block_allowed(height, h) ==
  LET passed == {p \in points : p <= height}
  IN  \A p \in passed : p < h
-----------------------------------------------------------------------------
(* Adding to and removing from the main chain of a database d.             *)

(* The cumulative gyro stored with a block appended to d.                  *)
NextGyro(d, spin) ==
  IF Len(d.chain) > 1 THEN AddSpin(d.gyro[Len(d.gyro)], spin)
  ELSE FromSpin(spin)

(* BlockchainDB::add_block and BlockchainLMDB::add_block.                  *)
Appended(d, b, spin) ==
  [chain |-> Append(d.chain, b),
   gyro  |-> Append(d.gyro, NextGyro(d, spin)),
   alt   |-> d.alt,
   txs   |-> d.txs \cup BlockTxSet(b),
   pool  |-> d.pool \ BlockTxSet(b),
   spin  |-> [d.spin EXCEPT ![Spinner[b]] = Len(d.chain)]]

(* Mutants of PoppedReading: the restored height is off by one; the        *)
(* block's info record, its spinner height or its transactions stay; the   *)
(* transactions do not return to the pool.                                 *)
PoppedOffByOne(d, r) ==
  [d EXCEPT !.chain = SubSeq(@, 1, Len(@) - 1),
            !.gyro  = SubSeq(@, 1, Len(@) - 1),
            !.txs   = @ \ BlockTxSet(Top(d)),
            !.pool  = @ \cup BlockTxSet(Top(d)),
            !.spin  = [@ EXCEPT ![Spinner[r]] = PrevSpin[r] - 1]]
PoppedNoInfo(d, r) ==
  [d EXCEPT !.chain = SubSeq(@, 1, Len(@) - 1),
            !.txs   = @ \ BlockTxSet(Top(d)),
            !.pool  = @ \cup BlockTxSet(Top(d)),
            !.spin  = [@ EXCEPT ![Spinner[r]] = PrevSpin[r]]]
PoppedNoSpin(d, r) ==
  [d EXCEPT !.chain = SubSeq(@, 1, Len(@) - 1),
            !.gyro  = SubSeq(@, 1, Len(@) - 1),
            !.txs   = @ \ BlockTxSet(Top(d)),
            !.pool  = @ \cup BlockTxSet(Top(d))]
PoppedKeepTxs(d, r) ==
  [d EXCEPT !.chain = SubSeq(@, 1, Len(@) - 1),
            !.gyro  = SubSeq(@, 1, Len(@) - 1),
            !.pool  = @ \cup BlockTxSet(Top(d)),
            !.spin  = [@ EXCEPT ![Spinner[r]] = PrevSpin[r]]]
PoppedLoseTxs(d, r) ==
  [d EXCEPT !.chain = SubSeq(@, 1, Len(@) - 1),
            !.gyro  = SubSeq(@, 1, Len(@) - 1),
            !.txs   = @ \ BlockTxSet(Top(d)),
            !.spin  = [@ EXCEPT ![Spinner[r]] = PrevSpin[r]]]

(* pop_block_from_blockchain.  remove_block reads the spinner key and      *)
(* height of the block through a pointer into the record it has deleted:   *)
(* r is the block whose record is found there.                             *)
PoppedReading(d, r) ==
  LET b == Top(d)
  IN  [d EXCEPT
         !.chain = SubSeq(@, 1, Len(@) - 1),
         !.gyro  = SubSeq(@, 1, Len(@) - 1),
         !.txs   = @ \ BlockTxSet(b),
         !.pool  = @ \cup BlockTxSet(b),
         !.spin  = [@ EXCEPT ![Spinner[r]] = PrevSpin[r]]]

(* When the deletion makes LMDB move a record in from the left sibling     *)
(* page, the pointer finds the record of the block before.                 *)
Popped(d) ==
  {PoppedReading(d, r) :
     r \in {Top(d)} \cup IF StaleRecord THEN {Prev[Top(d)]} ELSE {}}

(* What handle_block_to_main_chain leaves behind: its result, the          *)
(* database, whether the block was added to m_invalid_blocks and whether   *)
(* m_batch_success was cleared.                                            *)
Outcome(r, d, bad, dirty) == [ok |-> r, db |-> d, bad |-> bad, dirty |-> dirty]
Rejected(d) == Outcome(FALSE, d, FALSE, FALSE)

(* Mutant of TakingStops: key images are not looked up.                    *)
TakingNoImage(d, b) ==
  {i \in DOMAIN BlockTxs[b] :
     LET t == BlockTxs[b][i]
     IN  \/ t \in d.txs \cup Sms
         \/ t \notin d.pool
         \/ \E j \in 1 .. i - 1 : BlockTxs[b][j] = t}

(* Positions of b's transactions at which the loop that takes them from    *)
(* the pool stops.                                                         *)
TakingStops(d, b) ==
  {i \in DOMAIN BlockTxs[b] :
     LET t == BlockTxs[b][i]
     IN  \/ t \in d.txs \cup Sms
         \/ t \notin d.pool
         \/ \E j \in 1 .. i - 1 : BlockTxs[b][j] = t
         \/ Image[t] \in Spent(d)}

(* The transactions taken before the stop go back to the pool; a message   *)
(* transaction has been taken but is not yet in the list that goes back.   *)
TakingStopped(d, b) ==
  LET i == CHOOSE i \in TakingStops(d, b) :
             \A j \in TakingStops(d, b) : i <= j
      t == BlockTxs[b][i]
      taken == t \notin d.txs /\ t \in d.pool
                 /\ \A j \in 1 .. i - 1 : BlockTxs[b][j] # t
  IN  IF ~taken THEN Rejected(d)
      ELSE IF t \in Sms
      THEN Outcome(FALSE, [d EXCEPT !.pool = @ \ {t}], FALSE, FALSE)
      ELSE Outcome(FALSE, d, TRUE, FALSE)

(* add_block throws at the second transaction of b with a key image; the   *)
(* transactions before it stay in the table until the batch is aborted.    *)
ImageTwice(b) ==
  {i \in DOMAIN BlockTxs[b] :
     \E j \in 1 .. i - 1 : Image[BlockTxs[b][i]] = Image[BlockTxs[b][j]]}
HalfWritten(d, b) ==
  [d EXCEPT !.txs = @ \cup
     {BlockTxs[b][i] : i \in {i \in DOMAIN BlockTxs[b] :
                                \A j \in ImageTwice(b) : i < j}}]

handle_block_to_main_chain(d, b) ==
  LET late == Height(b) > START_AMOUNT_BLOCKS
      lost == Outcome(FALSE, [d EXCEPT !.pool = @ \ BlockTxSet(b)],
                      FALSE, FALSE)
  IN  IF \/ Prev[b] # Top(d) \/ b = Genesis
         \/ Defect[b] = "header"
         \/ ~CheckpointOk(Len(d.chain), b)
      THEN Rejected(d)
      ELSE IF TakingStops(d, b) # {} THEN TakingStopped(d, b)
      ELSE IF Defect[b] = "pruned" THEN lost
      ELSE IF \/ Defect[b] = "spinner"
              \/ late /\ (Proof[b] \notin d.txs \/ ~SpinUnlocked(d, b))
      THEN Rejected(d)
      ELSE IF late /\ (b \notin ripe \/ Defect[b] = "mismatch") THEN lost
      ELSE IF ImageTwice(b) # {}
      THEN Outcome(FALSE, HalfWritten(d, b), FALSE, TRUE)
      ELSE Outcome(TRUE,
                   Appended(d, b, IF late THEN get_spin(d, b) ELSE DefaultSpin),
                   FALSE, FALSE)
-----------------------------------------------------------------------------
(* Alternative blocks.                                                     *)

(* The position in Path[b] of the first block of the alternative chain     *)
(* that ends with b: build_alt_chain walks back while it finds blocks.     *)
AltFront(d, b) ==
  LET from == {i \in DOMAIN Path[b] :
                 \A j \in i .. Len(Path[b]) - 1 : Path[b][j] \in DOMAIN d.alt}
  IN  CHOOSE i \in from : \A j \in from : i <= j

AltChain(d, b) == SubSeq(Path[b], AltFront(d, b), Len(Path[b]))

(* build_alt_chain finds the chain attached to the main chain.             *)
AltConnected(d, b) ==
  LET i == AltFront(d, b)
  IN  \/ i = Len(Path[b])
      \/ i <= Len(d.chain) /\ d.chain[i - 1] = Path[b][i - 1]

ParentGyro(d, b) ==
  IF Prev[b] \in DOMAIN d.alt THEN d.alt[Prev[b]] ELSE d.gyro[Height(b)]

WithAlt(d, b, g) ==
  [d EXCEPT !.alt = [x \in DOMAIN @ \cup {b} |-> IF x = b THEN g ELSE @[x]]]
WithoutAlt(d, S) == [d EXCEPT !.alt = [x \in DOMAIN @ \ S |-> @[x]]]

(* Mutant of Decision: the comparison is the wrong way round.              *)
DecisionReversed(d, b, g) ==
  IF Height(b) \in points THEN "discard"
  ELSE IF Heavier(d.gyro[Len(d.gyro)], g) THEN "switch"
  ELSE "stored"

(* Switch to the chain that ends with b, whose cumulative gyro is g?       *)
Decision(d, b, g) ==
  IF Height(b) \in points THEN "discard"
  ELSE IF Heavier(g, d.gyro[Len(d.gyro)]) THEN "switch"
  ELSE "stored"

(* What handle_alternative_block does with b: how it ends (an exception is *)
(* "throw"; "switch" calls switch_to_alternative_blockchain, "discard"     *)
(* does so without keeping the old chain), and the database.               *)
handle_alternative_block(d, b) ==
  LET ends(how) == [how |-> how, db |-> d]
  IN  IF \/ b = Genesis \/ Defect[b] = "header"
         \/ ~is_alternative_block_allowed(Len(d.chain), Height(b))
      THEN ends("failed")
      ELSE IF Prev[b] \notin DOMAIN d.alt \cup OnMain(d) THEN ends("orphaned")
      ELSE IF ~AltConnected(d, b) THEN ends("false")
      ELSE IF ~CheckpointOk(Height(b), b) THEN ends("failed")
      ELSE IF Proof[b] \notin d.txs THEN ends("throw")
      ELSE IF ~SpinUnlocked(d, b) \/ b \in DOMAIN d.alt THEN ends("false")
      ELSE LET g == AddSpin(ParentGyro(d, b), get_spin(d, b))
           IN  [how |-> Decision(d, b, g), db |-> WithAlt(d, b, g)]

NewFrame(d, b, how) ==
  [alt |-> AltChain(d, b), old |-> <<>>, phase |-> "pop", i |-> 1, j |-> 1,
   split |-> 0, discard |-> how = "discard", was |-> d.gyro[Len(d.gyro)]]

Switches == {"switch", "discard"}
-----------------------------------------------------------------------------
(* The state.                                                              *)

NoTask == [kind |-> "none", left |-> 0, todo |-> {}, height |-> 0, to |-> -1]

Verdict(b, ret, flag) == [b |-> b, ret |-> ret, flag |-> flag]
NoVerdict == Verdict(Genesis, "none", "")

GenesisDb ==
  [chain |-> <<Genesis>>, gyro |-> <<FromSpin(DefaultSpin)>>, alt |-> <<>>,
   txs |-> {}, pool |-> {},
   spin |-> [k \in Key \cup {ZeroKey} |-> 0]]

Init ==
  /\ db = GenesisDb
  /\ saved = db
  /\ batch = FALSE /\ batchOk = TRUE
  /\ invalid = {} /\ frames = <<>> /\ task = NoTask /\ bvc = NoVerdict
  /\ points = {} /\ ripe = Block \ Early

Idle == frames = <<>> /\ task = NoTask
-----------------------------------------------------------------------------
(* The batch around a group of incoming blocks.                            *)

prepare_handle_incoming_blocks ==
  /\ ~batch
  /\ batch' = TRUE /\ batchOk' = TRUE
  /\ UNCHANGED <<db, saved, invalid, frames, task, bvc, points, ripe>>

(* Mutant of cleanup_handle_incoming_blocks: it always commits.            *)
CleanupCommits ==
  /\ batch /\ Idle
  /\ batch' = FALSE /\ batchOk' = TRUE
  /\ saved' = db
  /\ UNCHANGED <<db, invalid, frames, task, bvc, points, ripe>>

(* Commit, or abort if an add_block threw.  m_invalid_blocks is in memory  *)
(* and is not rolled back.                                                 *)
cleanup_handle_incoming_blocks ==
  /\ batch /\ Idle
  /\ batch' = FALSE /\ batchOk' = TRUE
  /\ db' = IF batchOk THEN db ELSE saved
  /\ saved' = db'
  /\ UNCHANGED <<invalid, frames, task, bvc, points, ripe>>
-----------------------------------------------------------------------------
(* Blockchain::add_new_block, one action per branch.                       *)

AddKnown(b) ==
  /\ batch /\ Idle
  /\ have_block(db, b)
  /\ bvc' = Verdict(b, "false", "exists")
  /\ UNCHANGED <<db, saved, batch, batchOk, invalid, frames, task, points, ripe>>

AddToMain(b) ==
  /\ batch /\ Idle
  /\ ~have_block(db, b) /\ Prev[b] = Top(db)
  /\ LET r == handle_block_to_main_chain(db, b)
     IN  /\ db' = r.db
         /\ batchOk' = (batchOk /\ ~r.dirty)
         /\ invalid' = invalid \cup (IF r.bad THEN {b} ELSE {})
         /\ bvc' = IF r.ok THEN Verdict(b, "true", "added")
                   ELSE Verdict(b, "false",
                          IF Defect[b] = "pruned" THEN "" ELSE "failed")
  /\ UNCHANGED <<saved, batch, frames, task, points, ripe>>

(* A call of handle_alternative_block; rest is the stack of the caller.    *)
CallAlternative(b, rest) ==
  LET r == handle_alternative_block(db, b)
  IN  /\ db' = r.db
      /\ frames' = IF r.how = "throw" THEN <<>>
                   ELSE IF r.how \in Switches
                        THEN Append(rest, NewFrame(db, b, r.how))
                        ELSE rest
      /\ bvc' =
           IF r.how = "throw"
           THEN Verdict(IF rest = <<>> THEN b ELSE bvc.b, "false", "failed")
           ELSE IF rest # <<>> THEN bvc
           ELSE Verdict(b, IF r.how \in Switches THEN "none"
                           ELSE IF r.how \in {"stored", "orphaned"} THEN "true"
                           ELSE "false",
                           IF r.how \in {"failed", "orphaned"} THEN r.how
                           ELSE "")
      /\ UNCHANGED <<saved, batch, batchOk, invalid, task, points, ripe>>

AddAlternative(b) ==
  /\ batch /\ Idle
  /\ ~have_block(db, b) /\ Prev[b] # Top(db)
  /\ CallAlternative(b, <<>>)

add_new_block(b) == AddKnown(b) \/ AddToMain(b) \/ AddAlternative(b)
-----------------------------------------------------------------------------
(* Blockchain::switch_to_alternative_blockchain, one action per step of    *)
(* its loops; each step belongs to the innermost activation.               *)

Frame == frames[Len(frames)]
In(phase) == frames # <<>> /\ Frame.phase = phase
Resume(f) == frames' = [frames EXCEPT ![Len(frames)] = f]

(* Mutant of SwitchPop: push_back instead of push_front.                   *)
SwitchPopBack ==
  /\ In("pop") /\ Top(db) # Prev[Frame.alt[1]]
  /\ db' \in Popped(db)
  /\ Resume([Frame EXCEPT !.old = Append(@, Top(db))])
  /\ UNCHANGED <<saved, batch, batchOk, invalid, task, bvc, points, ripe>>

(* Pop the main chain down to the parent of the alternative chain.         *)
SwitchPop ==
  /\ In("pop") /\ Top(db) # Prev[Frame.alt[1]]
  /\ db' \in Popped(db)
  /\ Resume([Frame EXCEPT !.old = <<Top(db)>> \o @])
  /\ UNCHANGED <<saved, batch, batchOk, invalid, task, bvc, points, ripe>>

SwitchSplit ==
  /\ In("pop") /\ Top(db) = Prev[Frame.alt[1]]
  /\ Resume([Frame EXCEPT !.phase = "connect", !.split = Len(db.chain)])
  /\ UNCHANGED <<db, saved, batch, batchOk, invalid, task, bvc, points, ripe>>

(* Connect the next alternative block; on failure start the rollback.      *)
SwitchConnect ==
  /\ In("connect")
  /\ LET b == Frame.alt[Frame.i]
         r == handle_block_to_main_chain(db, b)
     IN  /\ db' = r.db
         /\ batchOk' = (batchOk /\ ~r.dirty)
         /\ invalid' = invalid \cup (IF r.bad THEN {b} ELSE {})
         /\ Resume(IF ~r.ok THEN [Frame EXCEPT !.phase = "rbpop"]
                   ELSE IF Frame.i = Len(Frame.alt)
                        THEN [Frame EXCEPT !.phase = "push"]
                        ELSE [Frame EXCEPT !.i = @ + 1])
  /\ UNCHANGED <<saved, batch, task, bvc, points, ripe>>

(* rollback_blockchain_switching: pop what was connected, then re-add the  *)
(* disconnected blocks, giving up at the first that is refused.            *)
RollbackPop ==
  /\ In("rbpop")
  /\ IF Len(db.chain) # Frame.split
     THEN db' \in Popped(db) /\ UNCHANGED frames
     ELSE Resume([Frame EXCEPT !.phase = "rbadd"]) /\ UNCHANGED db
  /\ UNCHANGED <<saved, batch, batchOk, invalid, task, bvc, points, ripe>>

RollbackAdd ==
  /\ In("rbadd") /\ Frame.j <= Len(Frame.old)
  /\ LET b == Frame.old[Frame.j]
         r == handle_block_to_main_chain(db, b)
     IN  /\ db' = r.db
         /\ batchOk' = (batchOk /\ ~r.dirty)
         /\ invalid' = invalid \cup (IF r.bad THEN {b} ELSE {})
         /\ Resume(IF r.ok THEN [Frame EXCEPT !.j = @ + 1]
                   ELSE [Frame EXCEPT !.phase = "fail"])
  /\ UNCHANGED <<saved, batch, task, bvc, points, ripe>>

(* The activation returns r to handle_alternative_block, which sets the    *)
(* flag in the caller's context; only the outermost one is kept.           *)
Return(r) ==
  /\ frames' = SubSeq(frames, 1, Len(frames) - 1)
  /\ bvc' = IF Len(frames) > 1 THEN bvc
            ELSE IF r THEN Verdict(bvc.b, "true", "added")
            ELSE Verdict(bvc.b, "false", "failed")

(* The refused alternative block and those after it become invalid.        *)
SwitchFail ==
  /\ \/ In("fail")
     \/ In("rbadd") /\ Frame.j > Len(Frame.old)
  /\ LET bad == {Frame.alt[n] : n \in Frame.i .. Len(Frame.alt)}
     IN  /\ invalid' = invalid \cup bad
         /\ db' = WithoutAlt(db, bad)
  /\ Return(FALSE)
  /\ UNCHANGED <<saved, batch, batchOk, task, points, ripe>>

(* Mutant of SwitchPush: the loop variable is not advanced.                *)
SwitchPushAgain ==
  /\ In("push") /\ ~Frame.discard /\ Frame.j <= Len(Frame.old)
  /\ CallAlternative(Frame.old[Frame.j], frames)

(* Hand the next disconnected block to handle_alternative_block.           *)
SwitchPush ==
  /\ In("push") /\ ~Frame.discard /\ Frame.j <= Len(Frame.old)
  /\ CallAlternative(Frame.old[Frame.j],
                     [frames EXCEPT ![Len(frames)].j = @ + 1])

(* Mutant of SwitchDone: the connected blocks stay alternative.            *)
SwitchKeepsAlt ==
  /\ In("push") /\ (Frame.discard \/ Frame.j > Len(Frame.old))
  /\ Return(TRUE)
  /\ UNCHANGED <<db, saved, batch, batchOk, invalid, task, points, ripe>>

SwitchDone ==
  /\ In("push") /\ (Frame.discard \/ Frame.j > Len(Frame.old))
  /\ db' = WithoutAlt(db, {Frame.alt[n] : n \in DOMAIN Frame.alt})
  /\ Return(TRUE)
  /\ UNCHANGED <<saved, batch, batchOk, invalid, task, points, ripe>>

SwitchStep ==
  \/ SwitchPop \/ SwitchSplit \/ SwitchConnect
  \/ RollbackPop \/ RollbackAdd \/ SwitchFail
  \/ SwitchPush \/ SwitchDone
-----------------------------------------------------------------------------
(* Blockchain::pop_blocks, in a batch of its own.                          *)

(* Mutant of PopBlocks: the number of blocks is off by one.                *)
PopAll(n) ==
  /\ ~batch
  /\ batch' = TRUE /\ batchOk' = TRUE
  /\ task' = [NoTask EXCEPT !.kind = "pop", !.left = n]
  /\ UNCHANGED <<db, saved, invalid, frames, bvc, points, ripe>>

PopBlocks(n) ==
  /\ ~batch
  /\ batch' = TRUE /\ batchOk' = TRUE
  /\ task' = [NoTask EXCEPT
                !.kind = "pop",
                !.left = IF n < Len(db.chain) THEN n ELSE Len(db.chain) - 1]
  /\ UNCHANGED <<db, saved, invalid, frames, bvc, points, ripe>>

PopStep ==
  /\ task.kind = "pop" /\ task.left > 0
  /\ db' \in Popped(db)
  /\ task' = [task EXCEPT !.left = @ - 1]
  /\ UNCHANGED <<saved, batch, batchOk, invalid, frames, bvc, points, ripe>>

PopDone ==
  /\ task.kind = "pop" /\ task.left = 0
  /\ batch' = FALSE /\ saved' = db /\ task' = NoTask
  /\ UNCHANGED <<db, batchOk, invalid, frames, bvc, points, ripe>>
-----------------------------------------------------------------------------
(* update_checkpoints: load the checkpoints at the heights S, then check   *)
(* the chain against all of them in ascending order.  The height of the    *)
(* chain is read once, before the loop.                                    *)

update_checkpoints(S) ==
  /\ batch /\ Idle
  /\ points' = points \cup S
  /\ task' = [NoTask EXCEPT !.kind = "check", !.todo = points',
                            !.height = Len(db.chain)]
  /\ UNCHANGED <<db, saved, batch, batchOk, invalid, frames, bvc, ripe>>

NextPoint == CHOOSE h \in task.todo : \A p \in task.todo : h <= p

(* Mutant of CheckPoint: the rollback keeps the block at the checkpoint.   *)
CheckPointKeeps ==
  /\ task.kind = "check" /\ task.to = -1 /\ task.todo # {}
  /\ LET h == NextPoint
         rest == [task EXCEPT !.todo = @ \ {h}]
     IN  task' = IF h >= task.height THEN rest
                 ELSE IF h >= Len(db.chain) THEN NoTask
                 ELSE IF CheckpointOk(h, db.chain[h + 1]) \/ h < 2 THEN rest
                 ELSE [rest EXCEPT !.to = h + 1]
  /\ UNCHANGED <<db, saved, batch, batchOk, invalid, frames, bvc, points, ripe>>

(* Look at the next checkpoint.  On a mismatch the chain is rolled back to *)
(* height h - 2, an unsigned difference: below 2 it wraps to a height      *)
(* above the chain's, for which the rollback does nothing.  Reading a      *)
(* height that an earlier rollback removed throws.                         *)
CheckPoint ==
  /\ task.kind = "check" /\ task.to = -1 /\ task.todo # {}
  /\ LET h == NextPoint
         rest == [task EXCEPT !.todo = @ \ {h}]
     IN  task' = IF h >= task.height THEN rest
                 ELSE IF h >= Len(db.chain) THEN NoTask
                 ELSE IF CheckpointOk(h, db.chain[h + 1]) \/ h < 2 THEN rest
                 ELSE [rest EXCEPT !.to = h - 2]
  /\ UNCHANGED <<db, saved, batch, batchOk, invalid, frames, bvc, points, ripe>>

(* One pop of rollback_blockchain_switching; the genesis block cannot be   *)
(* popped, and the exception leaves check_against_checkpoints.             *)
CheckRollback ==
  /\ task.kind = "check" /\ task.to >= 0
  /\ IF Len(db.chain) = task.to
     THEN task' = [task EXCEPT !.to = -1] /\ UNCHANGED db
     ELSE IF Len(db.chain) = 1
     THEN task' = NoTask /\ UNCHANGED db
     ELSE db' \in Popped(db) /\ UNCHANGED task
  /\ UNCHANGED <<saved, batch, batchOk, invalid, frames, bvc, points, ripe>>

CheckDone ==
  /\ task.kind = "check" /\ task.to = -1 /\ task.todo = {}
  /\ task' = NoTask
  /\ UNCHANGED <<db, saved, batch, batchOk, invalid, frames, bvc, points, ripe>>

TaskStep == PopStep \/ PopDone \/ CheckPoint \/ CheckRollback \/ CheckDone
-----------------------------------------------------------------------------
(* Between the calls.                                                      *)

flush_invalid_blocks ==
  /\ Idle /\ invalid # {}
  /\ invalid' = {}
  /\ UNCHANGED <<db, saved, batch, batchOk, frames, task, bvc, points, ripe>>

(* A transaction enters the pool: no batch is active, or it is the one of  *)
(* the block handler, which adds a block's transactions before the block.  *)
AddTx(t) ==
  /\ Idle
  /\ t \notin db.pool \cup db.txs
  /\ db' = [db EXCEPT !.pool = @ \cup {t}]
  /\ saved' = IF batch THEN saved ELSE db'
  /\ UNCHANGED <<batch, batchOk, invalid, frames, task, bvc, points, ripe>>

(* remove_stuck_transactions, flush_txes_from_pool.                        *)
DropTx(t) ==
  /\ ~batch /\ t \in db.pool
  /\ db' = [db EXCEPT !.pool = @ \ {t}]
  /\ saved' = db'
  /\ UNCHANGED <<batch, batchOk, invalid, frames, task, bvc, points, ripe>>

(* The clock passes the spinner interval of b.                             *)
TimePasses(b) ==
  /\ b \notin ripe
  /\ ripe' = ripe \cup {b}
  /\ UNCHANGED <<db, saved, batch, batchOk, invalid, frames, task, bvc, points>>

(* The process dies and restarts from the committed database.              *)
Crash ==
  /\ db' = saved
  /\ batch' = FALSE /\ batchOk' = TRUE
  /\ invalid' = {} /\ frames' = <<>> /\ task' = NoTask /\ bvc' = NoVerdict
  /\ points' = {}
  /\ UNCHANGED <<saved, ripe>>

Next ==
  \/ prepare_handle_incoming_blocks \/ cleanup_handle_incoming_blocks
  \/ \E b \in Block \ {Genesis} : add_new_block(b)
  \/ SwitchStep \/ TaskStep
  \/ \E n \in 1 .. Len(db.chain) : PopBlocks(n)
  \/ \E S \in SUBSET DOMAIN CheckpointTable : update_checkpoints(S)
  \/ flush_invalid_blocks
  \/ \E t \in Tx : AddTx(t) \/ DropTx(t)
  \/ \E b \in Block : TimePasses(b)
  \/ Crash

(* A call that has begun runs on: its thread holds the locks.              *)
Fairness == WF_vars(SwitchStep \/ TaskStep)

Spec == Init /\ [][Next]_vars /\ Fairness
-----------------------------------------------------------------------------
(* Properties.                                                             *)

Gyro == [M : Nat, v : Int]

DbType(d) ==
  /\ d = [chain |-> d.chain, gyro |-> d.gyro, alt |-> d.alt,
          txs |-> d.txs, pool |-> d.pool, spin |-> d.spin]
  /\ d.chain \in Seq(Block) /\ d.chain # <<>>
  /\ d.gyro \in Seq(Gyro)
  /\ DOMAIN d.alt \subseteq Block /\ \A b \in DOMAIN d.alt : d.alt[b] \in Gyro
  /\ d.txs \subseteq Tx /\ d.pool \subseteq Tx
  /\ d.spin \in [Key \cup {ZeroKey} -> Nat]

FrameType ==
  [alt : Seq(Block), old : Seq(Block),
   phase : {"pop", "connect", "push", "rbpop", "rbadd", "fail"},
   i : Nat \ {0}, j : Nat \ {0}, split : Nat, discard : BOOLEAN, was : Gyro]

TaskType ==
  [kind : {"none", "pop", "check"}, left : Nat, todo : SUBSET Nat,
   height : Nat, to : Nat \cup {-1}]

VerdictType ==
  [b : Block, ret : {"none", "true", "false"},
   flag : {"", "added", "failed", "orphaned", "exists"}]

(* Every variable has its type, at every step of every call.               *)
TypeOK ==
  /\ DbType(db) /\ DbType(saved)
  /\ batch \in BOOLEAN /\ batchOk \in BOOLEAN
  /\ invalid \subseteq Block /\ ripe \subseteq Block
  /\ frames \in Seq(FrameType) /\ task \in TaskType /\ bvc \in VerdictType
  /\ points \subseteq DOMAIN CheckpointTable

Linked(d) == d.chain = Path[Top(d)] /\ Len(d.gyro) = Len(d.chain)

(* The main chain is the path from the genesis block to its top block, and *)
(* has one cumulative gyro per block: at every step of a reorganisation    *)
(* and of its rollback, nested ones included, and in the committed         *)
(* database a crash goes back to (handle_block_to_main_chain,              *)
(* switch_to_alternative_blockchain, rollback_blockchain_switching).       *)
ChainLinked == Linked(db) /\ Linked(saved)

(* What the calls rely on.  Only the innermost switch is popping,          *)
(* connecting or rolling back, the ones around it wait in their push loop; *)
(* a switch that pops will meet the parent of its alternative chain; one   *)
(* that connects or rolls back is never below its split height; pop_blocks *)
(* never reaches the genesis block; and no call is in progress outside a   *)
(* batch.  So pop_block_from_blockchain never throws "Cannot pop the       *)
(* genesis block" out of a switch, and a commit never holds half of one.   *)
FrameOk(d, f) ==
  /\ f.phase = "pop" => Prev[f.alt[1]] \in OnMain(d)
  /\ f.phase \in {"connect", "rbpop"} =>
       0 < f.split /\ f.split <= Len(d.chain)
CallsInOrder ==
  /\ \A n \in DOMAIN frames :
       /\ frames[n].i <= Len(frames[n].alt)
       /\ n < Len(frames) => frames[n].phase = "push"
  /\ frames # <<>> => FrameOk(db, Frame) /\ task = NoTask
  /\ task.kind = "pop" => task.left < Len(db.chain)
  /\ ~batch => Idle

SpinExact(d) == \A k \in Key : IsLastSpin(d.chain, k, d.spin[k])

(* The spinner table holds, for every spinner, the height of its last      *)
(* block on the main chain, whatever was appended, popped and re-added     *)
(* (add_block and remove_block of db_lmdb.cpp).  get_spinner_data reads    *)
(* the block at that height and loops until it is one of this spinner.     *)
SpinnerHeightsExact == SpinExact(db) /\ SpinExact(saved)

TxTable(d) ==
  /\ d.txs = UNION {BlockTxSet(d.chain[i]) : i \in DOMAIN d.chain}
  /\ \A i, j \in DOMAIN d.chain :
       i # j => BlockTxSet(d.chain[i]) \cap BlockTxSet(d.chain[j]) = {}
  /\ d.pool \cap d.txs = {}

(* Unless an add_block has thrown in this batch, the transaction table is  *)
(* the transactions of the main chain, no transaction is in two blocks,    *)
(* and none is both in the table and in the pool; and what is committed    *)
(* always satisfies this, so the failed batch is really thrown away        *)
(* (m_batch_success, cleanup_handle_incoming_blocks).                      *)
TxTableExact == (batchOk => TxTable(db)) /\ TxTable(saved)

(* No key image is spent twice by the transactions of the main chain.      *)
SpentOnce(d) == \A t, u \in d.txs : Image[t] = Image[u] => t = u
NoDoubleSpend == (batchOk => SpentOnce(db)) /\ SpentOnce(saved)

(* Between calls a block is not both on the main chain and among the       *)
(* alternative blocks: every switch moves blocks and duplicates none.      *)
AltDisjoint == frames = <<>> => OnMain(db) \cap DOMAIN db.alt = {}

(* The main chain agrees with the checkpoints that are loaded: a pass of   *)
(* check_against_checkpoints ends with a chain that does, and afterwards   *)
(* no block, switch, rollback or pop makes it disagree.  One step may: the *)
(* abort of a batch brings back the committed chain, which the pass inside *)
(* the batch had rolled back (cleanup_handle_incoming_blocks).             *)
Agrees == \A h \in points : h < Len(db.chain) => CheckpointOk(h, db.chain[h + 1])
PointsHold ==
  [][~Agrees' /\ task'.kind # "check"
       => (~Agrees /\ task.kind # "check") \/ (~batchOk /\ batchOk')]_vars

(* When a switch gives up, the main chain is what it was before the        *)
(* attempt: the blocks below the split and then the disconnected ones.     *)
Failing == In("fail") \/ (In("rbadd") /\ Frame.j > Len(Frame.old))
RollbackRestores ==
  Failing => db.chain = SubSeq(db.chain, 1, Frame.split) \o Frame.old

(* A switch that connects its whole alternative chain because of the gyro  *)
(* ends on a chain that the fork-choice rule prefers to the old one.       *)
ReorgGains ==
  In("push") /\ ~Frame.discard /\ Frame.j = 1
    => Heavier(db.gyro[Len(db.gyro)], Frame.was)

(* A call that handles a block takes no transaction out of the node: what  *)
(* was in the pool or on the main chain still is in one of them.           *)
Handling == (\E b \in Block \ {Genesis} : add_new_block(b)) \/ SwitchStep
TxConserved ==
  [][Handling => db.pool \cup db.txs \subseteq db'.pool \cup db'.txs]_vars

(* Every call comes to an end, nested switches and rollbacks included.     *)
CallsEnd == ~Idle ~> Idle
=============================================================================

------------------------- MODULE HardForkVoteProofs -------------------------
(***************************************************************************)
(* The rolling window of versions, for every table, window size and chain. *)
(* Whatever the votes, the thresholds, the aborted batches and the         *)
(* restarts, the counters of versions are those of the window.  And when   *)
(* forks happen on schedule, a restart or a reorganisation rebuilds the    *)
(* window from the votes of the last blocks.                               *)
(***************************************************************************)
EXTENDS HardForkProofs

(* What the stages of a switch owe to its fork point: no stage pops below  *)
(* it, and the old blocks fit back onto the chain.                         *)
StageOk(j, d) ==
  /\ j.at \in Switching => j.split \in 1 .. Len(d.chain)
  /\ j.at \in {"pop", "restore"} => Len(d.chain) + Len(j.old) <= MaxHeight
  /\ j.at \in {"push", "rollback"} => j.split + Len(j.old) <= MaxHeight
  /\ j.at = "replay" => j.next \in 1 .. Len(d.chain)

Starting == {"setup", "init"}

(* What holds whatever the votes and the aborted batches.                  *)
CInv ==
  /\ EntryVersions /\ TableOk(heights) /\ Counted(hf) /\ DbRecord(db) /\ DbRecord(kept)
  /\ job \in JobType /\ aborted \in BOOLEAN
  /\ job.at \in Starting => hf.index = 1
  /\ job.at # "setup" => heights # <<>>
  /\ job.at \notin Starting => InUse(hf) /\ Len(db.chain) > 0 /\ Len(kept.chain) > 0
  /\ StageOk(job, db)

(* The same of a daemon at work, in terms of the next state.               *)
LEMMA WorkingInv ==
  ASSUME CInv, heights' = heights, heights # <<>>, aborted' \in BOOLEAN,
         InUse(hf'), DbRecord(db'), DbRecord(kept'),
         Len(db'.chain) > 0, Len(kept'.chain) > 0,
         job' \in JobType, job'.at \notin Starting, StageOk(job', db')
  PROVE  CInv'
<1>1. N' = N
  BY DEF N
<1>2. EntryVersions' /\ TableOk(heights')
  BY DEF CInv, EntryVersions
<1>3. InUse(hf)' /\ Counted(hf)'
  BY <1>1 DEF InUse
<1>4. job'.at # "setup"
  BY DEF Starting
<1> QED BY Zenon, <1>2, <1>3, <1>4 DEF CInv

(* A block is popped; the hf_versions table keeps its entry.               *)
LEMMA DbPopped ==
  ASSUME NEW d, DbRecord(d), Len(d.chain) > 0
  PROVE  LET e == Popped(d)
         IN  /\ DbRecord(e) /\ Len(e.chain) = Len(d.chain) - 1
             /\ Len(e.chain) < Len(e.hf_versions) /\ Len(d.chain) \in Nat
<1> DEFINE e == Popped(d)
           L == Len(d.chain)
<1>1. /\ d.chain \in Seq(Block) /\ d.hf_versions \in Seq(Version)
      /\ L <= Len(d.hf_versions) /\ L \in Nat /\ L - 1 \in Nat /\ L <= MaxHeight
      /\ Len(d.hf_versions) \in Nat /\ MaxHeight \in Nat
  BY ForkAssumption DEF DbRecord
<1>2. /\ e.chain = SubSeq(d.chain, 1, L - 1)
      /\ e.hf_versions = d.hf_versions
  BY DEF Popped, DbRecord
<1>3. e.chain \in Seq(Block)
  BY <1>1, <1>2
<1>4. Len(e.chain) = L - 1
  <2>1. ASSUME NEW n \in Nat, n < Len(d.chain)
        PROVE  Len(SubSeq(d.chain, 1, n)) = n
    BY <1>1
  <2>2. L - 1 \in Nat /\ L - 1 < L
    BY <1>1
  <2> HIDE DEF e
  <2> QED BY Zenon, <1>2, <2>1, <2>2
<1>5. e \in [chain : Seq(Block), hf_versions : Seq(Version)]
  BY Zenon, <1>1, <1>3 DEF Popped, DbRecord
<1> HIDE DEF e
<1>6. DbRecord(e) /\ Len(e.chain) < Len(e.hf_versions)
  BY <1>1, <1>2, <1>4, <1>5 DEF DbRecord
<1> QED BY <1>1, <1>4, <1>6 DEF e

(* set_hard_fork_version, at the end of the table or in place.             *)
LEMMA StoredTyped ==
  ASSUME NEW T \in Seq(Version), NEW h \in Nat, h <= Len(T), NEW v \in Version
  PROVE  LET U == set_hard_fork_version(T, h, v)
         IN  U \in Seq(Version) /\ Len(U) >= Len(T) /\ Len(U) >= h + 1
<1>1. CASE h < Len(T)
  <2>1. set_hard_fork_version(T, h, v) = [T EXCEPT ![h + 1] = v]
    BY <1>1 DEF set_hard_fork_version
  <2>2. [T EXCEPT ![h + 1] = v] \in Seq(Version) /\ Len([T EXCEPT ![h + 1] = v]) = Len(T)
    BY <1>1
  <2> QED BY <1>1, <2>1, <2>2
<1>2. CASE ~ (h < Len(T))
  <2>1. set_hard_fork_version(T, h, v) = Append(T, v)
    BY <1>2 DEF set_hard_fork_version
  <2> QED BY <1>2, <2>1
<1> QED BY <1>1, <1>2

(* A block the check lets through is added.                                *)
LEMMA DbAdded ==
  ASSUME EntryVersions, NEW d, DbRecord(d), Len(d.chain) < MaxHeight,
         NEW f, f.index \in 1 .. N, NEW b \in Block, do_check(f, b)
  PROVE  /\ DbRecord(Added(d, f, b)) /\ Len(d.chain) \in Nat
         /\ Len(Added(d, f, b).chain) = Len(d.chain) + 1
<1> DEFINE L == Len(d.chain)
           U == set_hard_fork_version(d.hf_versions, L, heights[f.index].version)
           e == Added(d, f, b)
<1>1. /\ d.chain \in Seq(Block) /\ d.hf_versions \in Seq(Version)
      /\ L <= Len(d.hf_versions) /\ L \in Nat /\ MaxHeight \in Nat
  BY ForkAssumption DEF DbRecord
<1>2. e = [chain |-> Append(d.chain, b), hf_versions |-> U]
  BY DEF Added, add_version, Height
<1>3. heights[f.index].version \in Version
  BY TableVersion
<1>4. U \in Seq(Version) /\ Len(U) >= L + 1
  BY Zenon, <1>1, <1>3, StoredTyped
<1> HIDE DEF U
<1>5. /\ Append(d.chain, b) \in Seq(Block) /\ Len(Append(d.chain, b)) = L + 1
  BY <1>1
<1>6. /\ e.chain = Append(d.chain, b) /\ e.hf_versions = U
      /\ e \in [chain : Seq(Block), hf_versions : Seq(Version)]
  BY <1>2, <1>4, <1>5
<1> HIDE DEF e
<1>7. DbRecord(e)
  BY <1>1, <1>4, <1>5, <1>6 DEF DbRecord
<1> QED BY <1>1, <1>5, <1>6, <1>7 DEF e

(* The database after HardFork::add of a block that it has already.        *)
Rewritten(d, f, b, h) ==
  [d EXCEPT !.hf_versions = add_version(f, d.hf_versions, b, h)]

(* A block on the chain is added again.                                    *)
LEMMA DbReplayed ==
  ASSUME EntryVersions, NEW d, DbRecord(d), NEW f, f.index \in 1 .. N, NEW b,
         NEW h \in Nat, h < Len(d.chain)
  PROVE  /\ DbRecord(Rewritten(d, f, b, h)) /\ Rewritten(d, f, b, h).chain = d.chain
<1> DEFINE T == d.hf_versions
           U == add_version(f, T, b, h)
           e == Rewritten(d, f, b, h)
<1>0. e = [d EXCEPT !.hf_versions = U]
  BY DEF Rewritten
<1> HIDE DEF e
<1>1. /\ T \in Seq(Version) /\ Len(d.chain) <= Len(T) /\ Len(d.chain) \in Nat
      /\ Len(T) \in Nat
  BY DEF DbRecord
<1>2. U \in Seq(Version) /\ Len(U) >= Len(T)
  <2> DEFINE S == set_hard_fork_version(T, h, heights[f.index].version)
  <2>1. heights[f.index].version \in Version
    BY TableVersion
  <2>2. h <= Len(T)
    BY <1>1
  <2>3. S \in Seq(Version) /\ Len(S) >= Len(T)
    BY Zenon, <1>1, <2>1, <2>2, StoredTyped
  <2>4. U = IF ~do_check(f, b) THEN T ELSE S
    BY Zenon DEF add_version
  <2> HIDE DEF S
  <2> QED BY <1>1, <2>3, <2>4
<1> HIDE DEF U
<1>3. /\ e \in [chain : Seq(Block), hf_versions : Seq(Version)]
      /\ e.chain = d.chain /\ e.hf_versions = U
  BY <1>0, <1>2 DEF DbRecord
<1>4. Len(U) \in Nat
  BY <1>2
<1>5. DbRecord(e)
  BY <1>1, <1>2, <1>3, <1>4 DEF DbRecord
<1> QED BY <1>3, <1>5 DEF e
-----------------------------------------------------------------------------
(* The table is filled.                                                    *)
LEMMA SetupCounted ==
  ASSUME CInv, (\E e \in Fork : add_fork(e)) \/ InitTable
  PROVE  CInv'
<1>0. /\ EntryVersions /\ TableOk(heights) /\ Counted(hf) /\ DbRecord(db) /\ DbRecord(kept)
      /\ job \in JobType /\ aborted \in BOOLEAN /\ job.at = "setup" /\ hf.index = 1
      /\ UNCHANGED <<db, hf, kept, aborted>>
  BY DEF CInv, Starting, add_fork, InitTable
<1> DEFINE E == [version : Version, height : Nat, threshold : Nat, time : Nat]
<1>1. CASE \E e \in Fork : add_fork(e)
  <2>1. PICK e \in Fork : add_fork(e)
    BY <1>1
  <2>2. TableOk(heights') /\ heights' = Append(heights, e) /\ job' = job
    <3>1. job' = job
      BY <2>1 DEF add_fork
    <3> QED BY Zenon, <1>0, <2>1, <3>1, TableGrows
  <2>3. e \in E
    <3>1. e.version \in Version
      BY DEF Version
    <3>2. e \in [version : Nat, height : Nat, threshold : Nat, time : Nat]
      BY ForkAssumption
    <3>3. PICK v \in Nat, h \in Nat, t \in Nat, m \in Nat :
            e = [version |-> v, height |-> h, threshold |-> t, time |-> m]
      BY <3>2
    <3> QED BY <3>1, <3>3
  <2> HIDE DEF E
  <2>4. heights \in Seq(E)
    BY <1>0 DEF EntryVersions, E
  <2>5. heights' \in Seq(E)
    BY <2>2, <2>3, <2>4
  <2>6. EntryVersions'
    BY Zenon, <2>5 DEF EntryVersions, E
  <2>7. Counted(hf)' /\ DbRecord(db)' /\ DbRecord(kept)' /\ StageOk(job, db)'
    BY <1>0, <2>2 DEF Counted, DbRecord, StageOk, Switching
  <2> QED BY <1>0, <2>2, <2>6, <2>7 DEF CInv, Starting
<1>2. CASE InitTable
  <2>1. job' = NoJob("init") /\ TableOk(heights') /\ heights' # <<>>
    <3>1. job' = NoJob("init")
      BY <1>2 DEF InitTable
    <3> QED BY Zenon, <1>0, <1>2, <3>1, PlaceholderOk
  <2>2. job' \in JobType /\ job'.at = "init"
    BY <2>1 DEF NoJob, JobType, Stage
  <2>3. heights' \in Seq(E)
    <3> DEFINE p == [version |-> original_version, height |-> 0, threshold |-> 0, time |-> 0]
    <3>1. heights' = heights \/ heights' = <<p>>
      BY <1>2 DEF InitTable
    <3>2. p \in E
      BY DEF Version, original_version
    <3>3. heights \in Seq(E)
      BY Zenon, <1>0 DEF EntryVersions
    <3> HIDE DEF p, E
    <3>4. <<p>> \in Seq(E)
      BY <3>2
    <3> QED BY Zenon, <3>1, <3>3, <3>4
  <2>4. EntryVersions'
    BY Zenon, <2>3 DEF EntryVersions
  <2>5. Counted(hf)' /\ DbRecord(db)' /\ DbRecord(kept)' /\ StageOk(job, db)'
    BY Zenon, <1>0, <2>2 DEF Counted, DbRecord, StageOk, Switching
  <2> QED BY <1>0, <2>1, <2>2, <2>4, <2>5 DEF CInv, Starting
<1> QED BY <1>1, <1>2

(* init() and, in a new database, the genesis block.                       *)
LEMMA InitRestoreCounted ==
  ASSUME CInv, InitRestore
  PROVE  CInv'
<1>0. /\ EntryVersions /\ TableOk(heights) /\ DbRecord(db) /\ heights # <<>>
      /\ heights' = heights /\ aborted' = aborted /\ aborted \in BOOLEAN
      /\ job' = NoJob("trim") /\ kept' = db'
  BY DEF CInv, InitRestore
<1>1. job' \in JobType /\ job'.at = "trim"
  BY <1>0 DEF NoJob, JobType, Stage
<1>2. N \in Nat \ {0} /\ Len(db.chain) \in Nat /\ MaxHeight \in Nat \ {0}
  BY <1>0, EntryType, ForkAssumption DEF DbRecord
<1>3. InUse(hf') /\ DbRecord(db') /\ Len(db'.chain) > 0
  <2>1. CASE Len(db.chain) = 0
    <3>1. init(db) = Cleared
      BY <2>1, ForkAssumption DEF init, rescan_from_block_height, Height
    <3>2. GenesisBlock \in Block /\ GenesisBlock.major = 1
          /\ get_block_vote(GenesisBlock) = 1
      BY ForkAssumption DEF GenesisBlock, Block, Version, original_version,
         get_block_vote
    <3>3. Counted(Cleared) /\ Cleared.index = 1 /\ Cleared.index \in 1 .. N
      BY <1>2, ClearedCounted
    <3>4. do_check(Cleared, GenesisBlock)
      BY <1>0, <3>2, <3>3 DEF do_check, TableOk
    <3>5. db' = Added(db, Cleared, GenesisBlock) /\ hf' = add(Cleared, GenesisBlock, 0)
      BY <2>1, <3>1 DEF InitRestore, Height
    <3>6. InUse(hf')
      BY Zenon, <1>0, <3>2, <3>3, <3>4, <3>5, AddInUse
    <3>7. Len(db.chain) < MaxHeight
      BY <1>2, <2>1
    <3>8. DbRecord(db') /\ Len(db'.chain) = Len(db.chain) + 1
      BY Zenon, <1>0, <3>2, <3>3, <3>4, <3>5, <3>7, DbAdded
    <3> QED BY <2>1, <3>6, <3>8
  <2>2. CASE Len(db.chain) # 0
    <3>1. db' = db /\ hf' = init(db) /\ Len(db.chain) > 0
      BY <1>2, <2>2 DEF InitRestore, Height
    <3> QED BY Zenon, <1>0, <3>1, InitInUse
  <2> QED BY <2>1, <2>2
<1>4. StageOk(job', db') /\ job'.at \notin Starting
  BY <1>1 DEF StageOk, Switching, Starting
<1> QED BY Zenon, <1>0, <1>1, <1>3, <1>4, WorkingInv

(* The facts every step of a daemon at work starts from.                   *)
LEMMA AtWork ==
  ASSUME CInv, job.at \notin Starting
  PROVE  /\ EntryVersions /\ TableOk(heights) /\ heights # <<>> /\ InUse(hf)
         /\ Counted(hf) /\ hf.index \in 1 .. N /\ hf.versions # <<>>
         /\ DbRecord(db) /\ DbRecord(kept) /\ job \in JobType /\ aborted \in BOOLEAN
         /\ Len(db.chain) > 0 /\ Len(kept.chain) > 0 /\ StageOk(job, db)
         /\ Len(db.chain) \in Nat /\ Len(db.chain) <= MaxHeight /\ MaxHeight \in Nat
         /\ job.split \in Nat /\ job.next \in Nat /\ job.old \in Seq(Block)
<1>1. /\ EntryVersions /\ TableOk(heights) /\ heights # <<>> /\ InUse(hf)
      /\ DbRecord(db) /\ DbRecord(kept) /\ job \in JobType /\ aborted \in BOOLEAN
      /\ Len(db.chain) > 0 /\ Len(kept.chain) > 0 /\ StageOk(job, db)
  BY Zenon DEF CInv, Starting
<1>2. Counted(hf) /\ hf.index \in 1 .. N /\ hf.versions # <<>>
  BY Zenon, <1>1 DEF InUse
<1>3. Len(db.chain) \in Nat /\ Len(db.chain) <= MaxHeight /\ MaxHeight \in Nat
  BY <1>1, ForkAssumption DEF DbRecord
<1>4. job.split \in Nat /\ job.next \in Nat /\ job.old \in Seq(Block)
  BY <1>1 DEF JobType
<1> QED BY Zenon, <1>1, <1>2, <1>3, <1>4

(* Blockchain::init drops top blocks, but never the genesis block.         *)
LEMMA TrimCounted ==
  ASSUME CInv, TrimTop
  PROVE  CInv'
<1> DEFINE top == Len(db.chain) - 1
<1>0. job.at = "trim" /\ heights' = heights /\ aborted' = aborted /\ kept' = db'
  BY DEF TrimTop
<1>1. job.at \notin Starting
  BY <1>0 DEF Starting
<1>2. /\ EntryVersions /\ TableOk(heights) /\ heights # <<>> /\ InUse(hf)
      /\ DbRecord(db) /\ job \in JobType /\ aborted \in BOOLEAN
      /\ Len(db.chain) > 0 /\ Len(db.chain) \in Nat
  BY Zenon, <1>1, AtWork
<1>3. top \in 0 .. Len(db.chain) - 1 /\ top \in Nat
  BY <1>2
<1>4. CASE get_ideal_version(top) <= 1 \/ get_ideal_version(top) = Last(db.chain).major
  <2>1. /\ hf' = IF job.popped THEN reorganize(hf, db, top) ELSE hf
        /\ job' = NoJob("idle") /\ db' = db
    BY <1>4 DEF TrimTop, Height
  <2>2. InUse(hf')
    BY Zenon, <1>2, <1>3, <2>1, ReorganizeInUse
  <2>3. job' \in JobType /\ job'.at = "idle"
    BY <2>1 DEF NoJob, JobType, Stage
  <2>4. StageOk(job', db') /\ job'.at \notin Starting
    BY <2>3 DEF StageOk, Switching, Starting
  <2> QED BY Zenon, <1>0, <1>2, <2>1, <2>2, <2>3, <2>4, WorkingInv
<1>5. CASE ~(get_ideal_version(top) <= 1 \/ get_ideal_version(top) = Last(db.chain).major)
  <2>1. db' = Popped(db) /\ hf' = hf /\ job' = [job EXCEPT !.popped = TRUE]
    BY <1>5 DEF TrimTop, Height
  <2>2. job' \in JobType
    BY Zenon, <1>2, <2>1 DEF JobType
  <2>3. job'.at = "trim"
    BY <1>0, <1>2, <2>1 DEF JobType
  <2>4. top # 0
    <3>1. ASSUME top = 0 PROVE FALSE
      <4>1. IsMax(1, Due(heights, N, top))
        BY Zenon, <1>2, <3>1, GenesisTop
      <4>2. get_ideal_version(top) = heights[1].version /\ heights[1].version = 1
        BY Zenon, <1>2, <4>1, IdealTop DEF TableOk
      <4> QED BY <1>5, <4>2
    <3> QED BY <3>1
  <2>5. DbRecord(db') /\ Len(db'.chain) = top
    BY Zenon, <1>2, <2>1, DbPopped
  <2>6. Len(db'.chain) > 0
    BY Zenon, <1>3, <2>4, <2>5, PositiveNat
  <2>7. StageOk(job', db') /\ job'.at \notin Starting
    BY <2>3 DEF StageOk, Switching, Starting
  <2> QED BY Zenon, <1>0, <1>2, <2>1, <2>2, <2>5, <2>6, <2>7, WorkingInv
<1> QED BY <1>4, <1>5
(* BlockchainDB::add_block: one block more, its vote counted.              *)
LEMMA AddStep ==
  ASSUME CInv, job.at \notin Starting, Len(db.chain) < MaxHeight,
         NEW b \in Block, do_check(hf, b),
         db' = Added(db, hf, b), hf' = add(hf, b, Len(db.chain)),
         UNCHANGED <<heights, kept, aborted>>,
         job' \in JobType, job'.at \notin Starting,
         DbRecord(db') /\ Len(db'.chain) = Len(db.chain) + 1 => StageOk(job', db')
  PROVE  CInv'
<1>1. /\ EntryVersions /\ TableOk(heights) /\ heights # <<>> /\ Counted(hf)
      /\ hf.index \in 1 .. N /\ DbRecord(db) /\ DbRecord(kept) /\ aborted \in BOOLEAN
      /\ Len(kept.chain) > 0
  BY Zenon, AtWork
<1>2. InUse(hf')
  BY Zenon, <1>1, AddInUse
<1>3. /\ DbRecord(db') /\ Len(db'.chain) = Len(db.chain) + 1 /\ Len(db.chain) \in Nat
  BY Zenon, <1>1, DbAdded
<1>4. Len(db'.chain) > 0
  BY <1>3
<1>5. heights' = heights /\ kept' = kept /\ aborted' = aborted
  OBVIOUS
<1> QED BY Zenon, <1>1, <1>2, <1>3, <1>4, <1>5, WorkingInv

(* BlockchainDB::pop_block: one block less, on_block_popped told.          *)
LEMMA PopStep ==
  ASSUME CInv, job.at \notin Starting, Len(db.chain) > 1,
         db' = Popped(db), hf' = on_block_popped(hf, db'),
         UNCHANGED <<heights, aborted>>, kept' = kept \/ kept' = db',
         job' \in JobType, job'.at \notin Starting,
         DbRecord(db') /\ Len(db'.chain) = Len(db.chain) - 1 => StageOk(job', db')
  PROVE  CInv'
<1>1. /\ TableOk(heights) /\ heights # <<>> /\ InUse(hf)
      /\ DbRecord(db) /\ DbRecord(kept) /\ aborted \in BOOLEAN
      /\ Len(kept.chain) > 0 /\ Len(db.chain) > 0
  BY Zenon, AtWork
<1>2. /\ DbRecord(db') /\ Len(db'.chain) = Len(db.chain) - 1
      /\ Len(db'.chain) < Len(db'.hf_versions) /\ Len(db.chain) \in Nat
  BY Zenon, <1>1, DbPopped
<1>3. InUse(hf')
  BY Zenon, <1>1, <1>2, PoppedInUse
<1>4. Len(db'.chain) > 0
  BY <1>2
<1>5. DbRecord(kept') /\ Len(kept'.chain) > 0
  BY Zenon, <1>1, <1>2, <1>4
<1>6. heights' = heights /\ aborted' = aborted
  OBVIOUS
<1> QED BY Zenon, <1>1, <1>2, <1>3, <1>4, <1>5, <1>6, WorkingInv

(* The database stays, and the object stays or is rescanned.               *)
LEMMA ScanStep ==
  ASSUME CInv, job.at \notin Starting, UNCHANGED <<heights, db, aborted>>,
         kept' = kept \/ kept' = db,
         hf' = hf \/ \E h \in 0 .. Len(db.chain) - 1 : hf' = reorganize(hf, db, h),
         job' \in JobType, job'.at \notin Starting, StageOk(job', db)
  PROVE  CInv'
<1>1. /\ EntryVersions /\ TableOk(heights) /\ heights # <<>> /\ InUse(hf)
      /\ DbRecord(db) /\ DbRecord(kept) /\ aborted \in BOOLEAN
      /\ Len(kept.chain) > 0 /\ Len(db.chain) > 0
  BY Zenon, AtWork
<1>2. InUse(hf')
  BY Zenon, <1>1, ReorganizeInUse
<1>3. heights' = heights /\ db' = db /\ aborted' = aborted
  OBVIOUS
<1> QED BY Zenon, <1>1, <1>2, <1>3, WorkingInv

(* A job that has moved to another stage.                                  *)
LEMMA JobAt ==
  ASSUME NEW j \in JobType, NEW s \in Stage
  PROVE  /\ [j EXCEPT !.at = s] \in JobType /\ [j EXCEPT !.at = s].at = s
         /\ [j EXCEPT !.at = s].old = j.old /\ [j EXCEPT !.at = s].split = j.split
<1> DEFINE O == Seq(Block)
<1>1. j \in [at : Stage, split : Nat, old : O, next : Nat, popped : BOOLEAN]
  BY DEF O, JobType
<1> HIDE DEF O
<1> QED BY <1>1 DEF JobType, O

(* A job whose saved branch has changed.                                   *)
LEMMA JobOld ==
  ASSUME NEW j \in JobType, NEW o \in Seq(Block)
  PROVE  /\ [j EXCEPT !.old = o] \in JobType /\ [j EXCEPT !.old = o].old = o
         /\ [j EXCEPT !.old = o].at = j.at /\ [j EXCEPT !.old = o].split = j.split
<1> DEFINE O == Seq(Block)
<1>1. j \in [at : Stage, split : Nat, old : O, next : Nat, popped : BOOLEAN] /\ o \in O
  BY DEF O, JobType
<1> HIDE DEF O
<1> QED BY <1>1 DEF JobType, O

(* Between two jobs.                                                       *)
LEMMA IdleCounted ==
  ASSUME CInv,
         (\E b \in Block : AddBlock(b)) \/ BatchStop \/ BatchAbort \/ PopBlock \/ StartSwitch
  PROVE  CInv'
<1>0. job.at = "idle"
  BY DEF AddBlock, BatchStop, BatchAbort, PopBlock, StartSwitch
<1>1. job.at \notin Starting
  BY <1>0 DEF Starting
<1>2. /\ DbRecord(db) /\ DbRecord(kept) /\ job \in JobType /\ aborted \in BOOLEAN
      /\ Len(db.chain) > 0 /\ Len(kept.chain) > 0 /\ Len(db.chain) \in Nat
      /\ Len(db.chain) <= MaxHeight /\ heights # <<>> /\ InUse(hf)
  BY Zenon, <1>1, AtWork
<1>3. \A d : StageOk(job, d)
  BY <1>0 DEF StageOk, Switching
<1>4. ASSUME NEW b \in Block, AddBlock(b) PROVE CInv'
  <2>1. /\ Len(db.chain) < MaxHeight /\ do_check(hf, b) /\ db' = Added(db, hf, b)
        /\ hf' = add(hf, b, Len(db.chain)) /\ UNCHANGED <<heights, kept, aborted>> /\ job' = job
    BY <1>4 DEF AddBlock, Height
  <2> QED BY Zenon, <1>1, <1>2, <1>3, <2>1, AddStep
<1>5. CASE BatchStop
  <2>1. UNCHANGED <<heights, db, aborted>> /\ kept' = db /\ hf' = hf /\ job' = job
    BY <1>5 DEF BatchStop
  <2> QED BY Zenon, <1>1, <1>2, <1>3, <2>1, ScanStep
<1>6. CASE BatchAbort
  <2>1. /\ heights' = heights /\ db' = kept /\ kept' = kept /\ hf' = hf /\ job' = job
        /\ aborted' = TRUE
    BY <1>6 DEF BatchAbort
  <2>2. aborted' \in BOOLEAN
    BY Zenon, <2>1
  <2> QED BY Zenon, <1>1, <1>2, <1>3, <2>1, <2>2, WorkingInv
<1>7. CASE PopBlock
  <2>1. /\ Len(db.chain) > 1 /\ db' = Popped(db) /\ hf' = on_block_popped(hf, db')
        /\ UNCHANGED <<heights, aborted>> /\ kept' = db' /\ job' = job
    BY <1>7 DEF PopBlock, Height
  <2> QED BY Zenon, <1>1, <1>2, <1>3, <2>1, PopStep
<1>8. CASE StartSwitch
  <2>1. PICK s \in 1 .. Len(db.chain) - 1 : job' = [NoJob("pop") EXCEPT !.split = s]
    BY <1>8 DEF StartSwitch, Height
  <2>2. UNCHANGED <<heights, db, aborted>> /\ kept' = kept /\ hf' = hf
    BY <1>8 DEF StartSwitch
  <2>3. job' = [at |-> "pop", split |-> s, old |-> <<>>, next |-> 0, popped |-> FALSE]
    BY Zenon, <2>1 DEF NoJob
  <2>4. s \in Nat /\ s \in 1 .. Len(db.chain)
    BY <1>2, <2>1
  <2>5. job' \in JobType
    BY <2>3, <2>4 DEF JobType, Stage
  <2>6. job'.at = "pop" /\ job'.split = s /\ Len(job'.old) = 0
    BY <2>3
  <2>7. StageOk(job', db) /\ job'.at \notin Starting
    BY <1>2, <2>4, <2>6 DEF StageOk, Starting
  <2> QED BY Zenon, <1>1, <2>2, <2>5, <2>7, ScanStep
<1> QED BY <1>4, <1>5, <1>6, <1>7, <1>8

(* The stages of a switch.                                                 *)
LEMMA SwitchCounted ==
  ASSUME CInv,
         SwitchPop \/ (\E b \in Block : SwitchPush(b)) \/ SwitchDone \/ SwitchFail
  PROVE  CInv'
<1> DEFINE L == Len(db.chain)
<1>0. /\ job.at \in {"pop", "push"}
      /\ SwitchPop => job.at = "pop" /\ L > job.split
      /\ job.at = "pop" /\ ~SwitchPop => L = job.split
  BY DEF SwitchPop, SwitchPush, SwitchDone, SwitchFail, Pushing, Height
<1>1. job.at \notin Starting
  BY <1>0 DEF Starting
<1>2. /\ DbRecord(db) /\ job \in JobType /\ L \in Nat /\ L > 0 /\ L <= MaxHeight
      /\ MaxHeight \in Nat /\ job.old \in Seq(Block) /\ job.split \in Nat
      /\ job.next \in Nat /\ StageOk(job, db)
  BY Zenon, <1>1, AtWork
<1>3. job.split \in 1 .. L
  BY <1>0, <1>2 DEF StageOk, Switching
<1>4. Len(job.old) \in Nat
  BY <1>2
<1>5. CASE SwitchPop
  <2> DEFINE b == Last(db.chain)
             o == <<b>> \o job.old
  <2>1. /\ db' = Popped(db) /\ hf' = on_block_popped(hf, db')
        /\ UNCHANGED <<heights, aborted>> /\ kept' = kept
        /\ job' = [job EXCEPT !.old = o] /\ L > 1
    BY <1>0, <1>2, <1>3, <1>5 DEF SwitchPop
  <2>2. b \in Block
    <3>1. db.chain \in Seq(Block)
      BY <1>2 DEF DbRecord
    <3> QED BY <1>2, <3>1 DEF Last
  <2>3. o \in Seq(Block) /\ Len(o) = Len(job.old) + 1
    <3> HIDE DEF b
    <3> QED BY <1>2, <2>2
  <2> HIDE DEF o
  <2>4. job' \in JobType /\ job'.old = o /\ job'.at = job.at /\ job'.split = job.split
    BY Zenon, <1>2, <2>1, <2>3, JobOld
  <2>5. L + Len(job.old) <= MaxHeight
    BY Zenon, <1>0, <1>2, <1>5 DEF StageOk
  <2>6. Len(db'.chain) = L - 1 => StageOk(job', db')
    <3> HIDE DEF L
    <3>1. job'.at = "pop" /\ job.split < L
      BY Zenon, <1>0, <1>5, <2>4 DEF L
    <3>2. ASSUME Len(db'.chain) = L - 1 PROVE StageOk(job', db')
      <4>1. job'.split \in 1 .. Len(db'.chain)
        BY <1>2, <1>3, <2>4, <3>1, <3>2
      <4>2. Len(db'.chain) + Len(job'.old) <= MaxHeight
        BY <1>2, <1>4, <2>3, <2>4, <2>5, <3>2
      <4> QED BY Zenon, <3>1, <4>1, <4>2 DEF StageOk
    <3> QED BY <3>2
  <2> QED BY Zenon, <1>1, <2>1, <2>4, <2>6, PopStep
<1>6. ASSUME NEW b \in Block, SwitchPush(b) PROVE CInv'
  <2>1. /\ L < MaxHeight /\ do_check(hf, b) /\ db' = Added(db, hf, b)
        /\ hf' = add(hf, b, L) /\ UNCHANGED <<heights, kept, aborted>>
        /\ job' = [job EXCEPT !.at = "push"]
    BY <1>6 DEF SwitchPush, Height
  <2>2. ~SwitchPop
    <3>1. ASSUME SwitchPop PROVE FALSE
      BY <1>0, <1>2, <1>3, <1>6, <3>1 DEF SwitchPush, Pushing, Height
    <3> QED BY <3>1
  <2>3. job.split + Len(job.old) <= MaxHeight
    BY Zenon, <1>0, <1>2, <2>2 DEF StageOk
  <2>4. job' \in JobType /\ job'.at = "push" /\ job'.old = job.old /\ job'.split = job.split
    <3>1. "push" \in Stage
      BY DEF Stage
    <3>2. job \in JobType /\ job' = [job EXCEPT !.at = "push"]
      BY Zenon, <1>2, <2>1
    <3> QED BY ONLY Zenon, <3>1, <3>2, JobAt
  <2>5. Len(db'.chain) = L + 1 => StageOk(job', db')
    <3> HIDE DEF L
    <3> QED BY <1>2, <1>3, <2>3, <2>4 DEF StageOk
  <2>6. job'.at \notin Starting
    BY <2>4 DEF Starting
  <2> QED BY Zenon, <1>1, <2>1, <2>4, <2>5, <2>6, AddStep
<1>7. CASE SwitchDone
  <2>1. /\ hf' = reorganize(hf, db, job.split - 1) /\ UNCHANGED <<heights, db, aborted>>
        /\ kept' = kept
        /\ job' = [job EXCEPT !.at = "replay", !.old = <<>>, !.next = job.split]
    BY <1>7 DEF SwitchDone
  <2>2. job.split - 1 \in 0 .. L - 1
    BY <1>2, <1>3
  <2>3. job' \in JobType /\ job'.at = "replay" /\ job'.next = job.split
    <3> DEFINE O == Seq(Block)
    <3>1. <<>> \in O
      OBVIOUS
    <3> HIDE DEF O
    <3>2. job \in [at : Stage, split : Nat, old : O, next : Nat, popped : BOOLEAN]
      BY <1>2 DEF O, JobType
    <3>3. /\ job' \in [at : Stage, split : Nat, old : O, next : Nat, popped : BOOLEAN]
          /\ job'.at = "replay" /\ job'.next = job.split
      BY Zenon, <2>1, <3>1, <3>2 DEF Stage
    <3> QED BY <3>3 DEF JobType, O
  <2>4. StageOk(job', db) /\ job'.at \notin Starting
    BY <1>3, <2>3 DEF StageOk, Switching, Starting
  <2> QED BY Zenon, <1>1, <2>1, <2>2, <2>3, <2>4, ScanStep
<1>8. CASE SwitchFail
  <2>1. /\ UNCHANGED <<heights, db, aborted>> /\ kept' = kept /\ hf' = hf
        /\ job' = [job EXCEPT !.at = "rollback"]
    BY <1>8 DEF SwitchFail
  <2>2. ~SwitchPop
    <3>1. ASSUME SwitchPop PROVE FALSE
      BY <1>0, <1>2, <1>3, <1>8, <3>1 DEF SwitchFail, Pushing, Height
    <3> QED BY <3>1
  <2>3. job.split + Len(job.old) <= MaxHeight
    BY Zenon, <1>0, <1>2, <2>2 DEF StageOk
  <2>4. /\ job' \in JobType /\ job'.at = "rollback" /\ job'.old = job.old
        /\ job'.split = job.split
    <3>1. "rollback" \in Stage
      BY DEF Stage
    <3>2. job \in JobType /\ job' = [job EXCEPT !.at = "rollback"]
      BY Zenon, <1>2, <2>1
    <3> QED BY ONLY Zenon, <3>1, <3>2, JobAt
  <2>5. StageOk(job', db) /\ job'.at \notin Starting
    BY <1>3, <2>3, <2>4 DEF StageOk, Starting
  <2> QED BY Zenon, <1>1, <2>1, <2>4, <2>5, ScanStep
<1> QED BY <1>5, <1>6, <1>7, <1>8

(* The stages of a rollback.                                               *)
LEMMA RollbackCounted ==
  ASSUME CInv,
         RollbackPop \/ RollbackScan \/ RollbackPush \/ RollbackPanic \/ RollbackDone
  PROVE  CInv'
<1> DEFINE L == Len(db.chain)
<1>0. job.at \in {"rollback", "restore"}
  BY DEF RollbackPop, RollbackScan, RollbackPush, RollbackPanic, RollbackDone
<1>1. job.at \notin Starting
  BY <1>0 DEF Starting
<1>2. /\ DbRecord(db) /\ job \in JobType /\ L \in Nat /\ L > 0 /\ L <= MaxHeight
      /\ MaxHeight \in Nat /\ job.old \in Seq(Block) /\ job.split \in Nat
      /\ StageOk(job, db)
  BY Zenon, <1>1, AtWork
<1>3. job.split \in 1 .. L
  BY <1>0, <1>2 DEF StageOk, Switching
<1>4. Len(job.old) \in Nat /\ job.split - 1 \in 0 .. L - 1
  <2>1. Len(job.old) \in Nat
    BY <1>2
  <2> HIDE DEF L
  <2> QED BY <1>2, <1>3, <2>1
<1>5. CASE RollbackPop
  <2>1. /\ db' = Popped(db) /\ hf' = on_block_popped(hf, db') /\ job' = job
        /\ UNCHANGED <<heights, aborted>> /\ kept' = kept /\ L > job.split
        /\ job.at = "rollback" /\ L > 1
    BY <1>2, <1>3, <1>5 DEF RollbackPop, Height
  <2>2. Len(db'.chain) = L - 1 => StageOk(job', db')
    <3> HIDE DEF L
    <3> QED BY <1>2, <1>3, <2>1 DEF StageOk
  <2> QED BY Zenon, <1>1, <1>2, <2>1, <2>2, PopStep
<1>6. CASE RollbackScan
  <2>1. /\ hf' = reorganize(hf, db, job.split - 1) /\ UNCHANGED <<heights, db, aborted>>
        /\ kept' = kept /\ job' = [job EXCEPT !.at = "restore"] /\ L = job.split
        /\ job.at = "rollback"
    BY <1>6 DEF RollbackScan, Height
  <2>2. /\ job' \in JobType /\ job'.at = "restore" /\ job'.old = job.old
        /\ job'.split = job.split
    <3>1. "restore" \in Stage
      BY DEF Stage
    <3>2. job \in JobType /\ job' = [job EXCEPT !.at = "restore"]
      BY Zenon, <1>2, <2>1
    <3> QED BY ONLY Zenon, <3>1, <3>2, JobAt
  <2>3. L + Len(job.old) <= MaxHeight
    BY <1>2, <2>1 DEF StageOk
  <2>4. StageOk(job', db) /\ job'.at \notin Starting
    BY Zenon, <1>3, <2>2, <2>3 DEF StageOk, Starting
  <2> QED BY Zenon, <1>1, <1>4, <2>1, <2>2, <2>4, ScanStep
<1>7. CASE RollbackPush
  <2> DEFINE b == Head(job.old)
             o == Tail(job.old)
  <2>1. /\ job.old # <<>> /\ do_check(hf, b) /\ db' = Added(db, hf, b)
        /\ hf' = add(hf, b, L) /\ UNCHANGED <<heights, kept, aborted>>
        /\ job' = [job EXCEPT !.old = o] /\ job.at = "restore"
    BY <1>7 DEF RollbackPush, Height
  <2>2. b \in Block /\ o \in Seq(Block) /\ Len(o) = Len(job.old) - 1 /\ Len(job.old) > 0
    BY <1>2, <2>1
  <2> HIDE DEF b, o
  <2>3. job' \in JobType /\ job'.old = o /\ job'.at = job.at /\ job'.split = job.split
    BY Zenon, <1>2, <2>1, <2>2, JobOld
  <2>4. L + Len(job.old) <= MaxHeight
    BY Zenon, <1>2, <2>1 DEF StageOk
  <2>5. L < MaxHeight
    <3> HIDE DEF L
    <3> QED BY <1>2, <1>4, <2>2, <2>4
  <2>6. Len(db'.chain) = L + 1 => StageOk(job', db')
    <3> HIDE DEF L
    <3>1. job.split \in 1 .. L
      BY Zenon, <1>2, <1>3, <2>1 DEF StageOk, Switching, L
    <3>2. ASSUME Len(db'.chain) = L + 1 PROVE StageOk(job', db')
      <4>1. /\ job'.at = "restore" /\ job'.split \in 1 .. Len(db'.chain)
            /\ Len(db'.chain) + Len(job'.old) <= MaxHeight
        <5>1. job'.at = "restore"
          BY Zenon, <2>1, <2>3
        <5>2. job'.split \in 1 .. Len(db'.chain)
          BY <1>2, <2>3, <3>1, <3>2
        <5>3. /\ L \in Nat /\ MaxHeight \in Nat
              /\ Len(job.old) \in Nat /\ Len(job'.old) = Len(job.old) - 1
          BY Zenon, <1>2, <1>4, <2>2, <2>3
        <5>4. Len(db'.chain) + Len(job'.old) <= MaxHeight
          <6> DEFINE k == Len(job.old)
          <6>1. /\ L \in Nat /\ k \in Nat /\ MaxHeight \in Nat /\ L + k <= MaxHeight
                /\ Len(db'.chain) = L + 1 /\ Len(job'.old) = k - 1
            BY Zenon, <2>4, <3>2, <5>3
          <6> HIDE DEF k
          <6>2. (L + 1) + (k - 1) <= MaxHeight
            BY <6>1
          <6> QED BY Zenon, <6>1, <6>2
        <5> QED BY Zenon, <5>1, <5>2, <5>4
      <4> QED BY Zenon, <4>1 DEF StageOk
    <3> QED BY <3>2
  <2> QED BY Zenon, <1>1, <2>1, <2>2, <2>3, <2>5, <2>6, AddStep
<1>8. CASE RollbackPanic
  <2>1. /\ UNCHANGED <<heights, db, aborted>> /\ kept' = kept /\ hf' = hf
        /\ job' = NoJob("idle")
    BY <1>8 DEF RollbackPanic
  <2>2. job' \in JobType /\ job'.at = "idle"
    BY <2>1 DEF NoJob, JobType, Stage
  <2>3. StageOk(job', db) /\ job'.at \notin Starting
    BY <2>2 DEF StageOk, Switching, Starting
  <2> QED BY Zenon, <1>1, <2>1, <2>2, <2>3, ScanStep
<1>9. CASE RollbackDone
  <2>1. /\ hf' = reorganize(hf, db, job.split - 1) /\ UNCHANGED <<heights, db, aborted>>
        /\ kept' = kept /\ job' = [job EXCEPT !.at = "replay", !.next = job.split]
    BY <1>9 DEF RollbackDone
  <2>2. job' \in JobType /\ job'.at = "replay" /\ job'.next = job.split
    BY Zenon, <1>2, <2>1 DEF JobType, Stage
  <2>3. StageOk(job', db) /\ job'.at \notin Starting
    BY <1>3, <2>2 DEF StageOk, Switching, Starting
  <2> QED BY Zenon, <1>1, <1>4, <2>1, <2>2, <2>3, ScanStep
<1> QED BY <1>5, <1>6, <1>7, <1>8, <1>9

(* The end of reorganize_from_block_height: every block above the split is *)
(* added once more, the database's version of it written again.            *)
LEMMA ReplayCounted ==
  ASSUME CInv, Replay \/ ReplayDone
  PROVE  CInv'
<1>1. job.at = "replay" /\ job.at \notin Starting
  BY DEF Replay, ReplayDone, Starting
<1>2. /\ EntryVersions /\ TableOk(heights) /\ heights # <<>> /\ InUse(hf) /\ Counted(hf)
      /\ DbRecord(db) /\ DbRecord(kept) /\ aborted \in BOOLEAN /\ job \in JobType
      /\ Len(kept.chain) > 0 /\ Len(db.chain) > 0 /\ StageOk(job, db)
      /\ hf.index \in 1 .. N
  BY Zenon, <1>1, AtWork
<1>0. hf.versions # <<>>
  BY <1>2 DEF InUse
<1>3. job.next \in 1 .. Len(db.chain) /\ job.next \in Nat
  BY <1>1, <1>2 DEF StageOk
<1>4. CASE Replay
  <2> DEFINE n == job.next
             b == db.chain[n + 1]
  <2>1. /\ hf' = add(hf, b, n)
        /\ db' = [db EXCEPT !.hf_versions = add_version(hf, @, b, n)]
        /\ job' = [job EXCEPT !.next = n + 1]
        /\ heights' = heights /\ kept' = kept /\ aborted' = aborted
        /\ n < Len(db.chain)
    BY <1>4 DEF Replay, Height
  <2>2. b \in Block
    <3>1. db.chain \in Seq(Block)
      BY <1>2 DEF DbRecord
    <3> QED BY <1>3, <2>1, <3>1
  <2>0. db' = Rewritten(db, hf, b, n)
    BY <2>1 DEF Rewritten
  <2> HIDE DEF n, b
  <2>9. n \in Nat
    BY <1>3 DEF n
  <2>3. DbRecord(db') /\ db'.chain = db.chain
    <3>1. EntryVersions /\ DbRecord(db) /\ hf.index \in 1 .. N /\ n < Len(db.chain)
      BY Zenon, <1>2, <2>1
    <3>2. DbRecord(Rewritten(db, hf, b, n)) /\ Rewritten(db, hf, b, n).chain = db.chain
      BY Zenon, <2>9, <3>1, DbReplayed
    <3> QED BY Zenon, <2>0, <3>2
  <2>4. InUse(hf')
    BY Zenon, <1>0, <1>2, <2>1, <2>2, AddInUse
  <2>5. n + 1 \in Nat /\ n + 1 \in 1 .. Len(db.chain)
    <3>1. Len(db.chain) \in Nat
      BY <1>2 DEF DbRecord
    <3> QED BY <1>3, <2>1, <3>1 DEF n
  <2>6. job' \in JobType /\ job'.next = n + 1 /\ job'.at = "replay" /\ job'.split = job.split
    <3> DEFINE O == Seq(Block)
               k == n + 1
    <3>1. /\ job \in [at : Stage, split : Nat, old : O, next : Nat, popped : BOOLEAN]
          /\ job' = [job EXCEPT !.next = k] /\ k \in Nat /\ job.at = "replay"
      BY Zenon, <1>1, <1>2, <2>1, <2>5 DEF JobType
    <3> HIDE DEF O, k
    <3>2. /\ job' \in [at : Stage, split : Nat, old : O, next : Nat, popped : BOOLEAN]
          /\ job'.next = k /\ job'.at = "replay" /\ job'.split = job.split
      BY ONLY <3>1
    <3> QED BY Zenon, <3>2 DEF JobType, O, k
  <2>7. StageOk(job', db') /\ job'.at \notin Starting
    BY <1>1, <1>2, <2>3, <2>5, <2>6 DEF StageOk, Starting, Switching
  <2>8. Len(db'.chain) > 0
    BY <1>2, <2>3
  <2> QED BY Zenon, <1>2, <2>1, <2>3, <2>4, <2>6, <2>7, <2>8, WorkingInv
<1>5. CASE ReplayDone
  <2>1. /\ UNCHANGED <<heights, db, aborted>> /\ kept' = kept /\ hf' = hf
        /\ job' = NoJob("idle")
    BY <1>5 DEF ReplayDone
  <2>2. job' \in JobType /\ job'.at = "idle"
    BY <2>1 DEF NoJob, JobType, Stage
  <2>3. StageOk(job', db) /\ job'.at \notin Starting
    BY <2>2 DEF StageOk, Switching, Starting
  <2> QED BY Zenon, <1>1, <2>1, <2>2, <2>3, ScanStep
<1> QED BY <1>4, <1>5

(* A daemon that starts knows no vote: Cleared is what the constructor     *)
(* leaves, before the first start and before every later one.              *)
LEMMA SetupStage ==
  /\ NoJob("setup") \in JobType /\ NoJob("setup").at = "setup"
  /\ \A d : StageOk(NoJob("setup"), d)
<1>1. NoJob("setup") \in JobType /\ NoJob("setup").at = "setup"
  BY DEF NoJob, JobType, Stage
<1> QED BY Zenon, <1>1 DEF StageOk, Switching

(* A restart: the database is the one last committed.                      *)
LEMMA RestartCounted ==
  ASSUME CInv, Restart
  PROVE  CInv'
<1>1. /\ heights' = heights /\ db' = kept /\ kept' = kept /\ aborted' = aborted
      /\ hf' = Cleared /\ job' = NoJob("setup")
  BY DEF Restart
<1>2. EntryVersions /\ TableOk(heights) /\ DbRecord(kept) /\ aborted \in BOOLEAN
  BY Zenon DEF CInv
<1>3. Counted(hf') /\ hf'.index = 1
  <2>1. Counted(Cleared)
    BY Zenon, ClearedCounted
  <2>2. Cleared.index = 1
    BY DEF Cleared
  <2> QED BY Zenon, <1>1, <2>1, <2>2
<1>4. job' \in JobType /\ job'.at = "setup" /\ StageOk(job', db')
  BY Zenon, <1>1, SetupStage
<1>5. EntryVersions'
  BY Zenon, <1>1, <1>2 DEF EntryVersions
<1>6. TableOk(heights') /\ DbRecord(db') /\ DbRecord(kept') /\ aborted' \in BOOLEAN
  BY Zenon, <1>1, <1>2
<1>7. job'.at \in Starting
  BY <1>4 DEF Starting
<1> QED BY Zenon, <1>3, <1>4, <1>5, <1>6, <1>7 DEF CInv

(* The first start, with an empty database.                                *)
LEMMA InitCounted == Init => CInv
<1> SUFFICES ASSUME Init PROVE CInv
  OBVIOUS
<1>1. /\ heights = <<>> /\ hf = Cleared /\ job = NoJob("setup") /\ kept = db
      /\ aborted = FALSE /\ db = [chain |-> <<>>, hf_versions |-> <<>>]
  BY DEF Init
<1>2. EntryVersions /\ TableOk(heights)
  BY <1>1 DEF EntryVersions, TableOk
<1>3. Counted(hf) /\ hf.index = 1
  <2>1. Counted(Cleared)
    BY Zenon, ClearedCounted
  <2>2. Cleared.index = 1
    BY DEF Cleared
  <2> QED BY Zenon, <1>1, <2>1, <2>2
<1>4. job \in JobType /\ job.at = "setup" /\ StageOk(job, db)
  BY Zenon, <1>1, SetupStage
<1>5. DbRecord(db) /\ DbRecord(kept)
  BY <1>1, ForkAssumption DEF DbRecord
<1>6. job.at \in Starting /\ aborted \in BOOLEAN
  BY Zenon, <1>1, <1>4 DEF Starting
<1> QED BY Zenon, <1>2, <1>3, <1>4, <1>5, <1>6 DEF CInv

(* Every step keeps the counts.                                            *)
LEMMA NextCounted ==
  ASSUME CInv, [Next]_vars
  PROVE  CInv'
<1>1. CASE Next
  BY Zenon, <1>1, SetupCounted, InitRestoreCounted, TrimCounted, IdleCounted,
     SwitchCounted, RollbackCounted, ReplayCounted, RestartCounted DEF Next
<1>2. CASE UNCHANGED vars
  <2>1. /\ heights' = heights /\ db' = db /\ hf' = hf /\ job' = job /\ kept' = kept
        /\ aborted' = aborted
    BY <1>2 DEF vars
  <2> QED BY Zenon, <2>1 DEF CInv, EntryVersions, InUse, N
<1> QED BY <1>1, <1>2

(* What the runs check follows.                                            *)
LEMMA CountedTyped == CInv => CountsExact /\ TypeOK
<1> SUFFICES ASSUME CInv PROVE CountsExact /\ TypeOK
  OBVIOUS
<1>1. /\ EntryVersions /\ Counted(hf) /\ DbRecord(db) /\ DbRecord(kept) /\ job \in JobType
      /\ aborted \in BOOLEAN
      /\ job.at \in Starting => hf.index = 1
      /\ job.at # "setup" => heights # <<>>
      /\ job.at \notin Starting => InUse(hf)
  BY Zenon DEF CInv
<1> DEFINE w == hf.versions
           c == hf.last_versions
<1>2. /\ w \in Seq(Version) /\ Len(w) <= window_size /\ c \in [Version -> Nat]
      /\ hf.index \in Nat \ {0}
      /\ hf = [versions |-> w, last_versions |-> c, index |-> hf.index]
      /\ \A v \in Version : c[v] = Count(w, v)
  BY <1>1 DEF Counted
<1>3. CountsExact
  <2>1. DOMAIN w = 1 .. Len(w)
    BY <1>2
  <2> QED BY <1>2, <2>1 DEF CountsExact, Count
<1>4. c \in [Version -> 0 .. window_size]
  <2> SUFFICES ASSUME NEW v \in Version PROVE c[v] \in 0 .. window_size
    BY <1>2
  <2>1. Count(w, v) \in Nat /\ Count(w, v) <= Len(w) /\ Len(w) \in Nat
    BY <1>2, CountBound
  <2> QED BY <1>2, <2>1, ForkAssumption
<1>5. hf \in [versions : Seq(Version), last_versions : [Version -> 0 .. window_size],
              index : Nat \ {0}]
  BY <1>2, <1>4
<1>6. ASSUME job.at # "setup" PROVE hf.index <= Len(heights)
  <2>1. heights \in Seq([version : Version, height : Nat, threshold : Nat, time : Nat])
        /\ heights # <<>>
    BY <1>1, <1>6 DEF EntryVersions
  <2>2. Len(heights) \in Nat /\ Len(heights) >= 1
    BY <2>1
  <2>3. CASE job.at \in Starting
    BY <1>1, <2>2, <2>3
  <2>4. CASE job.at \notin Starting
    BY <1>1, <2>2, <2>4 DEF InUse, N
  <2> QED BY <2>3, <2>4
<1>7. DbType(db) /\ DbType(kept)
  BY <1>1 DEF DbType, DbRecord
<1>8. job \in [at : Stage, split : Nat, old : Seq(Block), next : Nat, popped : BOOLEAN]
  BY Zenon, <1>1 DEF JobType
<1> QED BY Zenon, <1>1, <1>3, <1>5, <1>6, <1>7, <1>8 DEF TypeOK, EntryVersions

(* last_versions counts exactly the versions in the rolling window, which  *)
(* never exceeds window_size: whatever table, votes, pops, switches,       *)
(* rollbacks, aborted batches and restarts came before, and for every      *)
(* window size.  HardFork::add asserts no more than that the version that  *)
(* leaves the window was counted.                                          *)
THEOREM CountsAlwaysExact == Spec => []CountsExact
<1>1. Init => CInv
  BY InitCounted
<1>2. CInv /\ [Next]_vars => CInv'
  BY Zenon, NextCounted
<1>3. CInv => CountsExact
  BY Zenon, CountedTyped
<1> QED BY <1>1, <1>2, <1>3, PTL DEF Spec

(* Every field of the object keeps its type, and the fork in force is an   *)
(* entry of the table from the moment init has run.                        *)
THEOREM HardForkTyped == Spec => []TypeOK
<1>1. Init => CInv
  BY InitCounted
<1>2. CInv /\ [Next]_vars => CInv'
  BY Zenon, NextCounted
<1>3. CInv => TypeOK
  BY Zenon, CountedTyped
<1> QED BY <1>1, <1>2, <1>3, PTL DEF Spec
-----------------------------------------------------------------------------
(* The window is rebuilt.                                                  *)

(* The votes of the last window_size of the first k blocks of a chain.     *)
Votes(c, k) ==
  LET n == IF k < window_size THEN k ELSE window_size
  IN  [i \in 1 .. n |-> get_effective_version(get_block_vote(c[k - n + i]))]

(* The window of an object is that of the first k blocks.                  *)
Shows(f, c, k) == f.versions = Votes(c, k)

(* While blocks are added again, the window holds the votes up to the last *)
(* of them.                                                                *)
WInv == job.at = "replay" /\ OnSchedule => Shows(hf, db.chain, job.next)

(* The votes as a sequence.                                                *)
LEMMA VotesSeq ==
  ASSUME EntryVersions, NEW c \in Seq(Block), NEW k \in 0 .. Len(c)
  PROVE  LET n == IF k < window_size THEN k ELSE window_size
         IN  /\ Votes(c, k) \in Seq(Version) /\ Len(Votes(c, k)) = n
             /\ \A i \in 1 .. n : Votes(c, k)[i] =
                  get_effective_version(get_block_vote(c[k - n + i]))
<1> DEFINE n == IF k < window_size THEN k ELSE window_size
           V(b) == get_effective_version(get_block_vote(b))
           w == [i \in 1 .. n |-> V(c[k - n + i])]
<1>1. n \in Nat /\ n <= k /\ k \in Nat /\ k <= Len(c) /\ Len(c) \in Nat
  BY ForkAssumption
<1>2. Votes(c, k) = w
  BY Zenon DEF Votes
<1> HIDE DEF n
<1>3. \A b \in Block : V(b) \in Version
  BY Zenon, VoteVersion
<1> HIDE DEF V
<1>4. \A i \in 1 .. n : c[k - n + i] \in Block
  <2>1. \A i \in 1 .. n : k - n + i \in 1 .. Len(c)
    BY <1>1
  <2> QED BY <2>1
<1>5. w \in [1 .. n -> Version]
  BY Zenon, <1>3, <1>4
<1>6. w \in Seq(Version) /\ Len(w) = n
  <2> HIDE DEF w
  <2> QED BY <1>1, <1>5
<1>7. \A i \in 1 .. n : w[i] = V(c[k - n + i])
  OBVIOUS
<1> HIDE DEF w
<1> QED BY Zenon, <1>2, <1>6, <1>7 DEF V, n


(* A scan of the last window_size of the first k blocks.                   *)
LEMMA ScannedVotes ==
  ASSUME NEW f, Counted(f), NEW c, NEW k \in Nat \ {0}, NEW a \in Nat, NEW n,
         NEW h, h = k - 1, k < window_size => a = 0, ~(k < window_size) => a = k - window_size
  PROVE  Shows(Rescanned(f, c, a, h, n), c, k)
<1> DEFINE m == IF k < window_size THEN k ELSE window_size
           V(b) == get_effective_version(get_block_vote(b))
           z == h - a + 1
           w == [i \in 1 .. z |-> V(c[a + i])]
           l == [v \in Version |-> Cardinality({i \in DOMAIN w : w[i] = v})]
           e == [f EXCEPT !.versions = w, !.last_versions = l]
<1>1. Rescanned(f, c, a, h, n) = [e EXCEPT !.index = n]
  BY Zenon DEF Rescanned, Scanned
<1>2. [e EXCEPT !.index = n].versions = w
  <2>1. f \in [versions : Seq(Version), last_versions : [Version -> Nat],
               index : Nat \ {0}]
    BY Zenon DEF Counted
  <2> HIDE DEF w, l
  <2> QED BY <2>1
<1>3. Votes(c, k) = [i \in 1 .. m |-> V(c[k - m + i])]
  BY Zenon DEF Votes
<1> HIDE DEF V, l, e
<1>4. z = m /\ m \in Nat /\ \A i \in 1 .. m : a + i = k - m + i
  BY ForkAssumption
<1>5. w = [i \in 1 .. m |-> V(c[k - m + i])]
  <2> HIDE DEF m, z
  <2> QED BY <1>4
<1> QED BY Zenon, <1>1, <1>2, <1>3, <1>5 DEF Shows

(* A vote for a fork leaves the window alone.                              *)
LEMMA RaisedVotes ==
  ASSUME NEW f, Counted(f), NEW h
  PROVE  Raised(f, h).versions = f.versions
<1> DEFINE voted == get_voted_fork_index(f, h)
<1>1. f \in [versions : Seq(Version), last_versions : [Version -> Nat],
             index : Nat \ {0}]
  BY Zenon DEF Counted
<1>2. [f EXCEPT !.index = voted].versions = f.versions
  <2> HIDE DEF voted
  <2> QED BY <1>1
<1> QED BY Zenon, <1>2 DEF Raised

(* The window slides by one block.                                         *)
LEMMA VotedVotes ==
  ASSUME EntryVersions, NEW f, Counted(f), NEW c \in Seq(Block),
         NEW k \in 0 .. Len(c) - 1, f.versions = Votes(c, k)
  PROVE  Voted(f, get_effective_version(get_block_vote(c[k + 1]))).versions
           = Votes(c, k + 1)
<1> DEFINE x == get_effective_version(get_block_vote(c[k + 1]))
           s == f.versions
           kv == IF Len(s) >= window_size THEN Tail(s) ELSE s
           kl == IF Len(s) >= window_size
                 THEN [f.last_versions EXCEPT ![Head(s)] = @ - 1]
                 ELSE f.last_versions
           nl == [kl EXCEPT ![x] = @ + 1]
           W(j) == IF j < window_size THEN j ELSE window_size
           V(b) == get_effective_version(get_block_vote(b))
           t == Votes(c, k + 1)
           u == Append(kv, x)
<1>1. /\ Len(c) \in Nat /\ k \in Nat /\ k < Len(c) /\ window_size \in Nat \ {0}
      /\ k \in 0 .. Len(c) /\ k + 1 \in 0 .. Len(c) /\ k + 1 \in Nat
  BY ForkAssumption
<1>2. c[k + 1] \in Block
  BY <1>1
<1>3. x \in Version
  BY Zenon, <1>2, VoteVersion
<1>4. /\ s \in Seq(Version) /\ Len(s) = W(k)
      /\ \A i \in 1 .. W(k) : s[i] = V(c[k - W(k) + i])
  <2>1. s = Votes(c, k) /\ k \in 0 .. Len(c)
    BY Zenon, <1>1
  <2> HIDE DEF s
  <2>2. /\ Votes(c, k) \in Seq(Version) /\ Len(Votes(c, k)) = W(k)
        /\ \A i \in 1 .. W(k) : Votes(c, k)[i] = V(c[k - W(k) + i])
    BY Zenon, <2>1, VotesSeq
  <2> QED BY Zenon, <2>1, <2>2
<1>5. /\ t \in Seq(Version) /\ Len(t) = W(k + 1)
      /\ \A i \in 1 .. W(k + 1) : t[i] = V(c[(k + 1) - W(k + 1) + i])
  <2> DEFINE n == k + 1
  <2>1. n \in 0 .. Len(c)
    BY Zenon, <1>1
  <2> HIDE DEF n
  <2>2. /\ Votes(c, n) \in Seq(Version) /\ Len(Votes(c, n)) = W(n)
        /\ \A i \in 1 .. W(n) : Votes(c, n)[i] = V(c[n - W(n) + i])
    BY Zenon, <2>1, VotesSeq
  <2> QED BY Zenon, <2>2 DEF n
<1>6. Voted(f, x).versions = u
  <2>1. f \in [versions : Seq(Version), last_versions : [Version -> Nat],
               index : Nat \ {0}]
    BY Zenon DEF Counted
  <2>2. Voted(f, x) = [f EXCEPT !.versions = u, !.last_versions = nl]
    BY Zenon DEF Voted
  <2> HIDE DEF u, nl, x
  <2> QED BY <2>1, <2>2
<1>7. x = V(c[k + 1])
  OBVIOUS
<1> HIDE DEF x, s, t, V
<1>8. /\ u \in Seq(Version) /\ Len(u) = W(k + 1)
      /\ \A i \in 1 .. W(k + 1) : u[i] = V(c[(k + 1) - W(k + 1) + i])
  <2>1. CASE k < window_size
    <3>1. /\ W(k) = k /\ W(k + 1) = k + 1 /\ ~(k >= window_size)
          /\ \A i \in 1 .. k + 1 : (k + 1) - (k + 1) + i = i
          /\ \A i \in 1 .. k : k - k + i = i
      BY <1>1, <2>1
    <3> HIDE DEF W
    <3>2. u = Append(s, x) /\ Len(s) = k
      BY Zenon, <1>4, <3>1
    <3>3. u \in Seq(Version) /\ Len(u) = k + 1 /\ u[k + 1] = x
          /\ \A i \in 1 .. k : u[i] = s[i]
      BY <1>1, <1>3, <1>4, <3>2
    <3>4. \A i \in 1 .. k : s[i] = V(c[i])
      BY Zenon, <1>4, <3>1
    <3>5. \A i \in 1 .. k + 1 : i \in 1 .. k \/ i = k + 1
      BY <1>1
    <3>6. \A i \in 1 .. k + 1 : u[i] = V(c[i])
      BY Zenon, <1>7, <3>3, <3>4, <3>5
    <3> QED BY Zenon, <3>1, <3>3, <3>6
  <2>2. CASE ~(k < window_size)
    <3> DEFINE q == window_size
    <3>1. /\ W(k) = q /\ W(k + 1) = q /\ q \in Nat \ {0}
          /\ \A i \in 1 .. q - 1 : /\ i + 1 \in 1 .. q
                                   /\ k - q + (i + 1) = (k + 1) - q + i
          /\ (k + 1) - q + q = k + 1 /\ k \in Nat
      BY <1>1, <2>2
    <3> HIDE DEF W
    <3>2. Len(s) = q /\ \A i \in 1 .. q : s[i] = V(c[k - q + i])
      BY Zenon, <1>4, <3>1
    <3> HIDE DEF q
    <3>3. u = Append(Tail(s), x)
      <4>1. Len(s) >= window_size
        BY <1>1, <3>2 DEF q
      <4> QED BY Zenon, <4>1
    <3>4. Tail(s) \in Seq(Version) /\ Len(Tail(s)) = q - 1
          /\ \A i \in 1 .. q - 1 : Tail(s)[i] = s[i + 1]
      BY <1>4, <3>1, <3>2
    <3>5. u \in Seq(Version) /\ Len(u) = q /\ u[q] = x
          /\ \A i \in 1 .. q - 1 : u[i] = Tail(s)[i]
      <4> HIDE DEF u
      <4> QED BY <1>3, <3>1, <3>3, <3>4
    <3> HIDE DEF u
    <3>6. ASSUME NEW i \in 1 .. q PROVE u[i] = V(c[(k + 1) - q + i])
      <4>1. CASE i \in 1 .. q - 1
        <5>1. u[i] = s[i + 1] /\ i + 1 \in 1 .. q
              /\ k - q + (i + 1) = (k + 1) - q + i
          BY Zenon, <3>1, <3>4, <3>5, <4>1
        <5>2. s[i + 1] = V(c[k - q + (i + 1)])
          BY Zenon, <3>2, <5>1
        <5> QED BY Zenon, <5>1, <5>2
      <4>2. CASE i = q
        <5>1. (k + 1) - q + i = k + 1
          BY Zenon, <3>1, <4>2
        <5> QED BY Zenon, <1>7, <3>5, <4>2, <5>1
      <4>3. i \in 1 .. q - 1 \/ i = q
        BY <3>1
      <4> QED BY Zenon, <4>1, <4>2, <4>3
    <3> QED BY Zenon, <3>1, <3>5, <3>6
  <2> QED BY Zenon, <2>1, <2>2
<1> HIDE DEF u, W
<1>9. \A i \in 1 .. Len(u) : u[i] = t[i]
  BY Zenon, <1>5, <1>8
<1>10. u = t
  BY Zenon, <1>5, <1>8, <1>9, SeqEqual
<1> QED BY Zenon, <1>6, <1>10 DEF x, t


(* The scan of reorganize_from_block_height(k - 1).                        *)
LEMMA ReorganizeVotes ==
  ASSUME EntryVersions, TableOk(heights), NEW f, InUse(f), NEW d, DbRecord(d),
         NEW k \in 1 .. Len(d.chain), NEW h, h = k - 1
  PROVE  Shows(reorganize(f, d, h), d.chain, k)
<1> DEFINE a == IF h >= window_size - 1 THEN h - (window_size - 1) ELSE 0
           start == IF h = 0 THEN original_version ELSE d.hf_versions[h + 1]
           Stop == {n \in 1 .. f.index : n = 1 \/ heights[n].version <= start}
           g == Rescanned(f, d.chain, a, h, Max(Stop))
<1>1. reorganize(f, d, h) = Raised(g, h + 1)
  BY Zenon DEF reorganize, Rescanned
<1>2. /\ d.chain \in Seq(Block) /\ Len(d.chain) \in Nat /\ N \in Nat
      /\ f.index \in 1 .. N /\ Counted(f)
  <2>1. d.chain \in Seq(Block) /\ Len(d.chain) \in Nat
    BY DEF DbRecord
  <2>2. N \in Nat /\ f.index \in 1 .. N /\ Counted(f)
    BY EntryType DEF InUse
  <2> QED BY <2>1, <2>2
<1>3. Max(Stop) \in 1 .. N
  <2>1. Stop \subseteq 1 .. N /\ 1 \in Stop
    <3> HIDE DEF start
    <3> QED BY <1>2
  <2> HIDE DEF Stop
  <2>2. IsMax(Max(Stop), Stop)
    BY Zenon, <1>2, <2>1, MaxOf
  <2> QED BY Zenon, <2>1, <2>2 DEF IsMax
<1>4. /\ a \in Nat /\ a <= h /\ h - a < window_size /\ h \in Nat
      /\ h < Len(d.chain) /\ k \in Nat \ {0}
      /\ k < window_size => a = 0
      /\ ~(k < window_size) => a = k - window_size
  BY <1>2, ForkAssumption
<1> DEFINE m == Max(Stop)
<1>5. m \in 1 .. N
  BY <1>3
<1> HIDE DEF a, Stop, m
<1>6. Shows(g, d.chain, k)
  BY Zenon, <1>2, <1>4, ScannedVotes
<1>7. Counted(Rescanned(f, d.chain, a, h, m))
  BY Zenon, <1>2, <1>4, <1>5, ScannedCounted
<1>8. Counted(g)
  BY Zenon, <1>7 DEF m
<1> HIDE DEF g
<1>9. Raised(g, h + 1).versions = g.versions
  BY Zenon, <1>8, RaisedVotes
<1> QED BY Zenon, <1>1, <1>6, <1>9 DEF Shows

(* HardFork::add of the block above the first k.                           *)
LEMMA AddVotes ==
  ASSUME EntryVersions, NEW f, Counted(f), NEW c \in Seq(Block),
         NEW k \in 0 .. Len(c) - 1, Shows(f, c, k), do_check(f, c[k + 1])
  PROVE  Shows(add(f, c[k + 1], k), c, k + 1)
<1> DEFINE x == get_effective_version(get_block_vote(c[k + 1]))
           g == Voted(f, x)
<1>1. add(f, c[k + 1], k) = Raised(g, k + 1)
  BY Zenon DEF add
<1>2. c[k + 1] \in Block
  BY ForkAssumption
<1>3. x \in Version
  BY Zenon, <1>2, VoteVersion
<1>4. g.versions = Votes(c, k + 1)
  BY Zenon, VotedVotes DEF Shows
<1> HIDE DEF x
<1>5. Counted(g)
  BY Zenon, <1>3, VotedCounted
<1> HIDE DEF g
<1>6. Raised(g, k + 1).versions = g.versions
  BY Zenon, <1>5, RaisedVotes
<1> QED BY Zenon, <1>1, <1>4, <1>6 DEF Shows

(* While forks happen on schedule, each block that is added again passes   *)
(* the check.                                                              *)
LEMMA ReplayChecks ==
  ASSUME HInv, OnSchedule, Replay
  PROVE  do_check(hf, db.chain[job.next + 1])
<1> DEFINE b == db.chain[job.next + 1]
           v == db.hf_versions[job.next + 1]
<1>1. job.at = "replay" /\ job.next < Len(db.chain)
  BY DEF Replay, Height
<1>2. /\ CurrentDb(heights, db) /\ job.next \in 1 .. Len(db.chain)
      /\ IsMax(hf.index, Due(heights, N, job.next)) /\ N = Len(heights)
  BY <1>1 DEF HInv, SInv, N
<1>3. Agrees(heights, db, N) /\ Len(db.chain) \in Nat
  BY <1>2 DEF CurrentDb, Agrees, DbT
<1>4. job.next + 1 \in 1 .. Len(db.chain) /\ (job.next + 1) - 1 = job.next
  BY <1>1, <1>2, <1>3
<1>5. AgreesAt(heights, b, v, N, job.next)
  BY Zenon, <1>3, <1>4 DEF Agrees
<1> HIDE DEF b, v
<1>6. PICK n : /\ IsMax(n, Due(heights, N, job.next))
               /\ b.major = heights[n].version
               /\ get_block_vote(b) >= heights[n].version
  BY <1>5 DEF AgreesAt
<1>7. n = hf.index
  <2>1. Due(heights, N, job.next) \subseteq Nat
    BY DEF Due
  <2> QED BY <1>2, <1>6, <2>1, MaxUnique
<1> QED BY <1>6, <1>7 DEF do_check, b

(* WInv is inductive.                                                      *)
LEMMA NextWInv ==
  ASSUME HInv, CInv, WInv, [Next]_vars
  PROVE  WInv'
<1> SUFFICES ASSUME job'.at = "replay", OnSchedule'
             PROVE  Shows(hf, db.chain, job.next)'
  BY DEF WInv
<1>1. CASE SwitchDone \/ RollbackDone
  <2>1. /\ hf' = reorganize(hf, db, job.split - 1) /\ db' = db
        /\ heights' = heights /\ job.at \in Switching
        /\ job' = [job EXCEPT !.at = "replay", !.old = <<>>, !.next = job.split]
           \/ job' = [job EXCEPT !.at = "replay", !.next = job.split]
    BY <1>1 DEF SwitchDone, RollbackDone, Switching
  <2>2. /\ EntryVersions /\ TableOk(heights) /\ InUse(hf) /\ DbRecord(db)
        /\ job \in JobType /\ StageOk(job, db)
    <3>1. job.at \notin Starting
      BY <2>1 DEF Starting, Switching
    <3> QED BY Zenon, <3>1, AtWork
  <2>3. job.split \in 1 .. Len(db.chain) /\ job'.next = job.split
    BY Zenon, <2>1, <2>2 DEF StageOk, JobType
  <2>4. Shows(hf', db.chain, job.split)
    <3> DEFINE h == job.split - 1
    <3>1. h = job.split - 1 /\ hf' = reorganize(hf, db, h)
      BY Zenon, <2>1
    <3> HIDE DEF h
    <3> QED BY Zenon, <2>2, <2>3, <3>1, ReorganizeVotes
  <2> QED BY Zenon, <2>1, <2>3, <2>4 DEF Shows, Votes, get_effective_version
<1>2. CASE Replay
  <2> DEFINE k == job.next
             c == db.chain
  <2>1. /\ job.at = "replay" /\ k < Len(c) /\ hf' = add(hf, c[k + 1], k)
        /\ db' = Rewritten(db, hf, c[k + 1], k) /\ job' = [job EXCEPT !.next = k + 1]
        /\ heights' = heights /\ aborted' = aborted
    BY <1>2 DEF Replay, Height, Rewritten
  <2>2. OnSchedule
    BY Zenon, <2>1 DEF OnSchedule
  <2>3. /\ EntryVersions /\ Counted(hf) /\ DbRecord(db) /\ hf.index \in 1 .. N
        /\ job \in JobType /\ StageOk(job, db) /\ Len(c) \in Nat /\ k \in Nat
    <3>1. job.at \notin Starting
      BY <2>1 DEF Starting
    <3> QED BY Zenon, <3>1, AtWork
  <2>4. do_check(hf, c[k + 1])
    BY Zenon, <1>2, <2>2, ReplayChecks
  <2>5. c \in Seq(Block) /\ k \in 0 .. Len(c) - 1
    BY <2>1, <2>3 DEF DbRecord
  <2>6. Shows(hf, c, k)
    BY Zenon, <2>1, <2>2 DEF WInv
  <2>7. Shows(hf', c, k + 1)
    BY Zenon, <2>1, <2>3, <2>4, <2>5, <2>6, AddVotes
  <2>8. db'.chain = c
    BY Zenon, <2>1, <2>3, DbReplayed
  <2>9. job'.next = k + 1
    BY <2>1, <2>3 DEF JobType
  <2> QED BY Zenon, <2>1, <2>7, <2>8, <2>9 DEF Shows, Votes, get_effective_version
<1>3. CASE vars' = vars
  <2>1. heights' = heights /\ db' = db /\ hf' = hf /\ job' = job /\ aborted' = aborted
    BY <1>3 DEF vars
  <2> QED BY Zenon, <2>1 DEF WInv, OnSchedule, Shows, Votes, get_effective_version
<1>4. ASSUME NEW s, job' = NoJob(s), s # "replay" PROVE FALSE
  BY <1>4 DEF NoJob
<1>5. ASSUME job' = job, job.at # "replay" PROVE FALSE
  BY Zenon, <1>5
<1>6. job \in JobType
  BY DEF CInv
<1>7. CASE \/ \E e \in Fork : add_fork(e)
           \/ InitTable \/ InitRestore \/ ReplayDone \/ Restart
           \/ RollbackPanic \/ BatchStop \/ BatchAbort \/ PopBlock \/ RollbackPop
           \/ \E b \in Block : AddBlock(b)
  BY Zenon, <1>4, <1>5, <1>7
     DEF add_fork, InitTable, InitRestore, ReplayDone, Restart, RollbackPanic,
         BatchStop, BatchAbort, PopBlock, RollbackPop, AddBlock
<1>8. CASE TrimTop
  <2>1. job' = NoJob("idle")
        \/ (job.at = "trim" /\ job' = [job EXCEPT !.popped = TRUE])
    BY Zenon, <1>8 DEF TrimTop
  <2> QED BY <1>6, <2>1 DEF NoJob, JobType
<1>9. CASE StartSwitch
  BY <1>9 DEF StartSwitch, NoJob
<1>10. CASE SwitchPop
  BY <1>6, <1>10 DEF SwitchPop, JobType
<1>11. CASE RollbackPush
  BY <1>6, <1>11 DEF RollbackPush, JobType
<1>12. CASE SwitchFail \/ RollbackScan \/ \E b \in Block : SwitchPush(b)
  BY <1>6, <1>12 DEF SwitchFail, RollbackScan, SwitchPush, JobType
<1> QED BY Zenon, <1>1, <1>2, <1>3, <1>7, <1>8, <1>9, <1>10, <1>11, <1>12 DEF Next

(* init() on a database with blocks, and on a new one.                     *)
LEMMA InitVotes ==
  ASSUME CInv, InitRestore
  PROVE  Shows(hf', db'.chain, Len(db'.chain))
<1>0. /\ EntryVersions /\ TableOk(heights) /\ DbRecord(db) /\ heights # <<>>
      /\ heights' = heights
  BY DEF CInv, InitRestore
<1>2. /\ N \in Nat \ {0} /\ Len(db.chain) \in Nat /\ db.chain \in Seq(Block)
      /\ window_size \in Nat \ {0} /\ Counted(Cleared) /\ Cleared.index = 1
  BY <1>0, EntryType, ForkAssumption, ClearedCounted DEF DbRecord
<1>3. CASE Len(db.chain) = 0
  <2>1. init(db) = Cleared
    BY <1>3, ForkAssumption DEF init, rescan_from_block_height, Height
  <2>2. GenesisBlock \in Block /\ GenesisBlock.major = 1
        /\ get_block_vote(GenesisBlock) = 1
    BY ForkAssumption DEF GenesisBlock, Block, Version, original_version,
       get_block_vote
  <2>3. do_check(Cleared, GenesisBlock)
    BY <1>0, <1>2, <2>2 DEF do_check, TableOk
  <2>4. db' = Added(db, Cleared, GenesisBlock) /\ hf' = add(Cleared, GenesisBlock, 0)
    BY <1>3, <2>1 DEF InitRestore, Height
  <2> DEFINE c == <<GenesisBlock>>
  <2>5. db'.chain = c
    <3>1. db'.chain = Append(db.chain, GenesisBlock)
      BY <2>4 DEF Added
    <3>2. db.chain = <<>>
      BY <1>2, <1>3
    <3> QED BY <3>1, <3>2
  <2>6. c \in Seq(Block) /\ Len(c) = 1 /\ c[0 + 1] = GenesisBlock
        /\ 0 \in 0 .. Len(c) /\ 0 \in 0 .. Len(c) - 1 /\ 0 + 1 = 1
    BY <2>2
  <2> HIDE DEF c
  <2>7. Shows(Cleared, c, 0)
    <3>1. Cleared.versions = <<>>
      BY DEF Cleared
    <3>2. Votes(c, 0) \in Seq(Version)
          /\ Len(Votes(c, 0)) = IF 0 < window_size THEN 0 ELSE window_size
      BY Zenon, <1>0, <2>6, VotesSeq
    <3> HIDE DEF Votes
    <3> QED BY <1>2, <3>1, <3>2 DEF Shows
  <2>8. Shows(add(Cleared, c[0 + 1], 0), c, 0 + 1)
    BY Zenon, <1>0, <1>2, <2>3, <2>6, <2>7, AddVotes
  <2> QED BY Zenon, <1>0, <2>4, <2>5, <2>6, <2>8
<1>4. CASE Len(db.chain) # 0
  <2> DEFINE L == Len(db.chain)
             from == IF L > window_size THEN L - window_size ELSE 0
             Stop == {n \in 1 .. N : n = N \/ heights[n].version = db.hf_versions[L]}
             m == Min(Stop)
             z == L - 1
             g == Rescanned(Cleared, db.chain, from, z, m)
  <2>1. db' = db /\ hf' = init(db)
    BY <1>4 DEF InitRestore, Height
  <2>2. /\ L \in Nat \ {0} /\ z \in Nat /\ z < L
        /\ from \in Nat /\ from <= z /\ z - from < window_size /\ ~(from >= L)
        /\ L < window_size => from = 0
        /\ ~(L < window_size) => from = L - window_size
    <3>1. L \in Nat \ {0} /\ window_size \in Nat \ {0}
      BY Zenon, <1>2, <1>4
    <3> HIDE DEF L
    <3> QED BY <3>1
  <2>3. init(db) = Raised(g, L)
    BY Zenon, <2>2 DEF init, rescan_from_block_height, Height, N, Rescanned
  <2>4. m \in 1 .. N
    <3>1. Stop \subseteq Nat /\ N \in Stop /\ Stop \subseteq 1 .. N
      BY <1>2
    <3> HIDE DEF Stop
    <3>2. Min(Stop) \in Stop
      BY Zenon, <3>1, MinOf
    <3> QED BY Zenon, <3>1, <3>2
  <2> HIDE DEF from, Stop, m
  <2>8. z = L - 1
    OBVIOUS
  <2> HIDE DEF z
  <2>5. Shows(g, db.chain, L)
    BY Zenon, <1>2, <2>2, <2>8, ScannedVotes
  <2>6. Counted(g)
    BY Zenon, <1>0, <1>2, <2>2, <2>4, ScannedCounted
  <2> HIDE DEF g
  <2>7. Raised(g, L).versions = g.versions
    BY Zenon, <2>6, RaisedVotes
  <2> QED BY Zenon, <1>0, <2>1, <2>3, <2>5, <2>7 DEF Shows
<1> QED BY <1>3, <1>4

(* When forks happen on schedule, a reorganisation, a failed one and a     *)
(* restart leave the rolling window equal to the votes of the last         *)
(* window_size blocks, for every table, window size and chain, although    *)
(* on_block_popped had put other versions into it                          *)
(* (reorganize_from_block_height, init).                                   *)
THEOREM WindowAlwaysRebuilt == Spec => WindowRebuilt
<1>1. Init => CInv /\ WInv
  <2>1. Init => WInv
    BY DEF Init, WInv, NoJob
  <2> QED BY <2>1, InitCounted
<1>2. CInv /\ [Next]_vars => CInv'
  BY Zenon, NextCounted
<1>3. ASSUME HInv, CInv, WInv, [Next]_vars PROVE WInv'
  BY Zenon, <1>3, NextWInv
<1>4. ASSUME CInv, WInv, [Next]_vars
      PROVE  [OnSchedule /\ (ReplayDone \/ InitRestore) =>
                hf'.versions = Window(db'.chain)]_vars
  <2>1. ASSUME OnSchedule, ReplayDone PROVE hf'.versions = Window(db'.chain)
    <3>1. /\ job.at = "replay" /\ job.next = Len(db.chain) /\ hf' = hf /\ db' = db
      BY <2>1 DEF ReplayDone, Height
    <3>2. Shows(hf, db.chain, Len(db.chain))
      BY Zenon, <1>4, <2>1, <3>1 DEF WInv
    <3> QED BY Zenon, <3>1, <3>2 DEF Shows, Votes, Window
  <2>2. ASSUME InitRestore PROVE hf'.versions = Window(db'.chain)
    BY Zenon, <1>4, <2>2, InitVotes DEF Shows, Votes, Window
  <2> QED BY Zenon, <2>1, <2>2
<1> QED BY <1>1, <1>2, <1>3, <1>4, ForkInvariance, PTL DEF Spec, WindowRebuilt
=============================================================================

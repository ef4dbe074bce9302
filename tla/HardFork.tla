------------------------------ MODULE HardFork ------------------------------
(***************************************************************************)
(* The hard fork object of cryptonote_basic/hardfork.cpp: which block      *)
(* version is in force at the top of the main chain, kept up to date while *)
(* Blockchain adds blocks, pops them, reorganises and restarts, possibly   *)
(* with new software whose table of forks is longer.  Heights are those of *)
(* the code, so the block of height h is chain[h + 1]; forks are counted   *)
(* from 1.  A reorganisation runs in one database batch, so a restart in   *)
(* the middle of it finds the database as it was before it.  The switch    *)
(* back that putting the old blocks aside may start (module Blockchain)    *)
(* has the same fork point and the same stages, and is not repeated here.  *)
(***************************************************************************)
EXTENDS Integers, Sequences, FiniteSets, FiniteSetsExt

CONSTANTS
  Fork,              \* the entries software may list: version, height, threshold, time
  Minor,             \* the minor versions, that is the votes, blocks may carry
  window_size,       \* how many of the last blocks vote
  MaxHeight,         \* bound: blocks on the main chain
  MaxForks           \* bound: entries of the table

(* Blockchain::init constructs the object with 1 on every network.         *)
original_version == 1

Version == {f.version : f \in Fork} \cup Minor \cup {original_version}

Block == [major : Version, minor : Minor]

GenesisBlock == [major |-> original_version, minor |-> 0]

ASSUME ForkAssumption ==
  /\ Fork \subseteq [version : Nat, height : Nat, threshold : Nat, time : Nat]
  /\ Minor \subseteq Nat /\ 0 \in Minor
  /\ window_size \in Nat \ {0}
  /\ MaxHeight \in Nat \ {0} /\ MaxForks \in Nat

VARIABLES
  heights,  \* the table, filled by add_fork
  db,       \* chain, and the hf_versions table, which popping never shrinks
  hf,       \* versions, last_versions and current_fork_index
  job,      \* what the thread that holds m_blockchain_lock is doing
  kept,     \* the database as a crash leaves it
  aborted   \* history: whether a batch was ever aborted

vars == <<heights, db, hf, job, kept, aborted>>

Height(d) == Len(d.chain)

Last(s) == s[Len(s)]

get_block_vote(b) == IF b.minor = 0 THEN 1 ELSE b.minor

get_effective_version(v) ==
  IF heights # <<>> /\ v > Last(heights).version THEN Last(heights).version
                                                 ELSE v

(* The votes for fork n or a later one, as a number of pairs of a fork and *)
(* one of the votes last_versions counts for it.                           *)
accumulated_votes(f, n) ==
  Cardinality({p \in (n .. Len(heights)) \X (1 .. window_size) :
                 p[2] <= f.last_versions[heights[p[1]].version]})

Threshold(n) == (window_size * heights[n].threshold + 99) \div 100

get_voted_fork_index(f, height) ==
  LET Enough == {n \in 1 .. Len(heights) :
                   /\ height >= heights[n].height
                   /\ accumulated_votes(f, n) >= Threshold(n)}
  IN  IF Enough = {} THEN f.index
                     ELSE Max(Enough)

(* Mutant of Raised: the voted fork counted from 0 is used as one counted  *)
(* from 1.                                                                 *)
RaisedFromZero(f, height) ==
  LET voted == get_voted_fork_index(f, height) + 1
  IN  IF voted > f.index THEN [f EXCEPT !.index = voted] ELSE f

(* current_fork_index only ever moves up on a vote.                        *)
Raised(f, height) ==
  LET voted == get_voted_fork_index(f, height)
  IN  IF voted > f.index THEN [f EXCEPT !.index = voted] ELSE f

do_check(f, b) ==
  /\ b.major = heights[f.index].version
  /\ get_block_vote(b) >= heights[f.index].version

(* get_ideal_version(height): the version the table alone gives a height.  *)
get_ideal_version(height) ==
  LET Due == {n \in 2 .. Len(heights) : height >= heights[n].height}
  IN  IF Due = {} THEN original_version
                  ELSE heights[Max(Due)].version

get_current_version(f) == heights[f.index].version

set_hard_fork_version(table, h, v) ==
  IF h < Len(table) THEN [table EXCEPT ![h + 1] = v] ELSE Append(table, v)

(* The window slides before the vote of the new block enters it.           *)
Voted(f, v) ==
  LET full == Len(f.versions) >= window_size
      old == Head(f.versions)
      kv == IF full THEN Tail(f.versions) ELSE f.versions
      kl == IF full THEN [f.last_versions EXCEPT ![old] = @ - 1]
                    ELSE f.last_versions
  IN  [f EXCEPT !.versions = Append(kv, v),
                !.last_versions = [kl EXCEPT ![v] = @ + 1]]

(* HardFork::add, the check included.                                      *)
add(f, b, height) ==
  IF ~do_check(f, b) THEN f
  ELSE Raised(Voted(f, get_effective_version(get_block_vote(b))), height + 1)

(* Mutant of add_version: the version after the vote is stored.            *)
AddVersionLate(f, table, b, height) ==
  IF ~do_check(f, b) THEN table
  ELSE set_hard_fork_version(table, height, get_current_version(add(f, b, height)))

add_version(f, table, b, height) ==
  IF ~do_check(f, b) THEN table
  ELSE set_hard_fork_version(table, height, heights[f.index].version)

(* The votes of the blocks of heights from .. to, counted afresh.          *)
Scanned(f, chain, from, to) ==
  LET w == [i \in 1 .. to - from + 1 |->
              get_effective_version(get_block_vote(chain[from + i]))]
  IN  [f EXCEPT !.versions = w,
                !.last_versions = [v \in Version |->
                   Cardinality({i \in DOMAIN w : w[i] = v})]]

(* rescan_from_block_height: the fork of the last block's stored version,  *)
(* then the vote.                                                          *)
rescan_from_block_height(f, d, from) ==
  IF from >= Height(d) THEN f
  ELSE LET lastv == d.hf_versions[Height(d)]
           Stop == {n \in 1 .. Len(heights) :
                      n = Len(heights) \/ heights[n].version = lastv}
           at == Min(Stop)
       IN  Raised([Scanned(f, d.chain, from, Height(d) - 1) EXCEPT !.index = at],
                  Height(d))

(* The object init() starts from: nothing counted, fork 1.                 *)
Cleared == [versions |-> <<>>, last_versions |-> [v \in Version |-> 0], index |-> 1]

init(d) ==
  rescan_from_block_height(Cleared, d,
    IF Height(d) > window_size THEN Height(d) - window_size ELSE 0)

(* Mutant of reorganize: the votes are not counted afresh.                 *)
ReorganizeNoScan(f, d, height) ==
  LET start == IF height = 0 THEN original_version ELSE d.hf_versions[height + 1]
      Stop == {n \in 1 .. f.index : n = 1 \/ heights[n].version <= start}
      at == Max(Stop)
  IN  Raised([f EXCEPT !.index = at], height + 1)

(* The scan of reorganize_from_block_height(height), before it replays the *)
(* blocks above: down to the fork of the last kept block, then the vote.   *)
reorganize(f, d, height) ==
  LET from == IF height >= window_size - 1 THEN height - (window_size - 1) ELSE 0
      start == IF height = 0 THEN original_version ELSE d.hf_versions[height + 1]
      Stop == {n \in 1 .. f.index : n = 1 \/ heights[n].version <= start}
      at == Max(Stop)
  IN  Raised([Scanned(f, d.chain, from, height) EXCEPT !.index = at], height + 1)

Popped(d) == [d EXCEPT !.chain = SubSeq(@, 1, Len(@) - 1)]

(* Mutants of on_block_popped: the fork stays, or the vote that leaves is  *)
(* still counted.                                                          *)
PoppedKeepsFork(f, d) ==
  LET version == d.hf_versions[Height(d) + 1]
      lv == [f.last_versions EXCEPT ![Last(f.versions)] = @ - 1]
  IN  [f EXCEPT !.versions = <<version>> \o SubSeq(@, 1, Len(@) - 1),
                !.last_versions = [lv EXCEPT ![version] = @ + 1]]

PoppedStillCounted(f, d) ==
  LET height == Height(d)
      version == d.hf_versions[height + 1]
      Due == {n \in 1 .. Len(heights) : n = 1 \/ height >= heights[n].height}
  IN  [versions |-> <<version>> \o SubSeq(f.versions, 1, Len(f.versions) - 1),
       last_versions |-> f.last_versions,
       index |-> Max(Due)]

(* on_block_popped(1): the youngest vote leaves, the popped block's stored *)
(* version enters at the old end, and the table alone gives the fork.      *)
on_block_popped(f, d) ==
  LET height == Height(d)
      back == Last(f.versions)
      version == d.hf_versions[height + 1]
      Due == {n \in 1 .. Len(heights) : n = 1 \/ height >= heights[n].height}
      lv == [f.last_versions EXCEPT ![back] = @ - 1]
  IN  [versions |-> <<version>> \o SubSeq(f.versions, 1, Len(f.versions) - 1),
       last_versions |-> [lv EXCEPT ![version] = @ + 1],
       index |-> Max(Due)]

-----------------------------------------------------------------------------
NoJob(at) == [at |-> at, split |-> 0, old |-> <<>>, next |-> 0, popped |-> FALSE]

Init ==
  /\ heights = <<>>
  /\ db = [chain |-> <<>>, hf_versions |-> <<>>]
  /\ hf = Cleared
  /\ job = NoJob("setup")
  /\ kept = db
  /\ aborted = FALSE

(* Blockchain::init calls add_fork for each entry of the table; an entry   *)
(* out of order or with a threshold above 100 is refused, which changes    *)
(* nothing.  The first entry of every table is the original version.       *)
add_fork(e) ==
  /\ job.at = "setup" /\ Len(heights) < MaxForks
  /\ e.version # 0 /\ e.threshold <= 100
  /\ IF heights = <<>> THEN e.version = original_version
     ELSE /\ e.version > Last(heights).version
          /\ e.height > Last(heights).height
          /\ e.time > Last(heights).time
  /\ heights' = Append(heights, e)
  /\ UNCHANGED <<db, hf, job, kept, aborted>>

(* init(), the placeholder of an empty table first.                        *)
InitTable ==
  /\ job.at = "setup"
  /\ heights' = IF heights # <<>> THEN heights
                ELSE <<[version |-> original_version, height |-> 0,
                        threshold |-> 0, time |-> 0]>>
  /\ job' = NoJob("init")
  /\ UNCHANGED <<db, hf, kept, aborted>>

(* The block b and its vote enter the database and the object.             *)
Added(d, f, b) ==
  [chain |-> Append(d.chain, b),
   hf_versions |-> add_version(f, d.hf_versions, b, Height(d))]

(* The rest of init(); a new database then gets its genesis block.         *)
InitRestore ==
  /\ job.at = "init"
  /\ LET f == init(db)
     IN  IF Height(db) = 0
         THEN db' = Added(db, f, GenesisBlock) /\ hf' = add(f, GenesisBlock, 0)
         ELSE db' = db /\ hf' = f
  /\ job' = NoJob("trim") /\ kept' = db'
  /\ UNCHANGED <<heights, aborted>>

(* Blockchain::init drops top blocks whose version is not the one the      *)
(* table gives their height, without telling the object, which is          *)
(* reorganised once at the end.                                            *)
TrimTop ==
  /\ job.at = "trim"
  /\ LET top == Height(db) - 1
         ideal == get_ideal_version(top)
     IN  IF ideal <= 1 \/ ideal = Last(db.chain).major
         THEN /\ hf' = IF job.popped THEN reorganize(hf, db, top) ELSE hf
              /\ job' = NoJob("idle") /\ db' = db
         ELSE /\ db' = Popped(db) /\ hf' = hf
              /\ job' = [job EXCEPT !.popped = TRUE]
  /\ kept' = db'
  /\ UNCHANGED <<heights, aborted>>

(* handle_block_to_main_chain up to BlockchainDB::add_block.               *)
AddBlock(b) ==
  /\ job.at = "idle" /\ Height(db) < MaxHeight
  /\ do_check(hf, b)
  /\ db' = Added(db, hf, b) /\ hf' = add(hf, b, Height(db))
  /\ UNCHANGED <<heights, job, kept, aborted>>

(* cleanup_handle_incoming_blocks commits the batch, or aborts it when a   *)
(* block of it threw out of the database.                                  *)
BatchStop ==
  /\ job.at = "idle" /\ kept' = db
  /\ UNCHANGED <<heights, db, hf, job, aborted>>

BatchAbort ==
  /\ job.at = "idle" /\ db' = kept /\ aborted' = TRUE
  /\ UNCHANGED <<heights, hf, job, kept>>

(* One block of Blockchain::pop_blocks, which has a batch of its own.      *)
PopBlock ==
  /\ job.at = "idle" /\ kept = db /\ Height(db) > 1
  /\ db' = Popped(db) /\ hf' = on_block_popped(hf, db') /\ kept' = db'
  /\ UNCHANGED <<heights, job, aborted>>

(* switch_to_alternative_blockchain: down to the fork point ...            *)
StartSwitch ==
  /\ job.at = "idle"
  /\ \E s \in 1 .. Height(db) - 1 : job' = [NoJob("pop") EXCEPT !.split = s]
  /\ UNCHANGED <<heights, db, hf, kept, aborted>>

SwitchPop ==
  /\ job.at = "pop" /\ Height(db) > job.split
  /\ db' = Popped(db) /\ hf' = on_block_popped(hf, db')
  /\ job' = [job EXCEPT !.old = <<Last(db.chain)>> \o @]
  /\ UNCHANGED <<heights, kept, aborted>>

(* ... up the other branch ...                                             *)
Pushing == \/ job.at = "push"
           \/ job.at = "pop" /\ Height(db) = job.split

SwitchPush(b) ==
  /\ Pushing
  /\ Height(db) < MaxHeight /\ do_check(hf, b)
  /\ db' = Added(db, hf, b) /\ hf' = add(hf, b, Height(db))
  /\ job' = [job EXCEPT !.at = "push"]
  /\ UNCHANGED <<heights, kept, aborted>>

(* ... and, when all of it is on, a reorganisation from the fork point.    *)
SwitchDone ==
  /\ job.at = "push"
  /\ hf' = reorganize(hf, db, job.split - 1)
  /\ job' = [job EXCEPT !.at = "replay", !.old = <<>>, !.next = job.split]
  /\ UNCHANGED <<heights, db, kept, aborted>>

(* A block of the branch is refused, by this object or by another check.   *)
SwitchFail ==
  /\ Pushing
  /\ job' = [job EXCEPT !.at = "rollback"]
  /\ UNCHANGED <<heights, db, hf, kept, aborted>>

(* rollback_blockchain_switching.                                          *)
RollbackPop ==
  /\ job.at = "rollback" /\ Height(db) > job.split
  /\ db' = Popped(db) /\ hf' = on_block_popped(hf, db')
  /\ UNCHANGED <<heights, job, kept, aborted>>

RollbackScan ==
  /\ job.at = "rollback" /\ Height(db) = job.split
  /\ hf' = reorganize(hf, db, job.split - 1)
  /\ job' = [job EXCEPT !.at = "restore"]
  /\ UNCHANGED <<heights, db, kept, aborted>>

RollbackPush ==
  /\ job.at = "restore" /\ job.old # <<>> /\ do_check(hf, Head(job.old))
  /\ db' = Added(db, hf, Head(job.old))
  /\ hf' = add(hf, Head(job.old), Height(db))
  /\ job' = [job EXCEPT !.old = Tail(@)]
  /\ UNCHANGED <<heights, kept, aborted>>

(* "PANIC! failed to add (again) block": the rest stays off the chain.     *)
RollbackPanic ==
  /\ job.at = "restore" /\ job.old # <<>>
  /\ job' = NoJob("idle")
  /\ UNCHANGED <<heights, db, hf, kept, aborted>>

RollbackDone ==
  /\ job.at = "restore" /\ job.old = <<>>
  /\ hf' = reorganize(hf, db, job.split - 1)
  /\ job' = [job EXCEPT !.at = "replay", !.next = job.split]
  /\ UNCHANGED <<heights, db, kept, aborted>>

(* The end of reorganize_from_block_height: add every block above again.   *)
Replay ==
  /\ job.at = "replay" /\ job.next < Height(db)
  /\ LET b == db.chain[job.next + 1]
     IN  /\ hf' = add(hf, b, job.next)
         /\ db' = [db EXCEPT !.hf_versions = add_version(hf, @, b, job.next)]
  /\ job' = [job EXCEPT !.next = @ + 1]
  /\ UNCHANGED <<heights, kept, aborted>>

ReplayDone ==
  /\ job.at = "replay" /\ job.next = Height(db)
  /\ job' = NoJob("idle")
  /\ UNCHANGED <<heights, db, hf, kept, aborted>>

(* The daemon stops or crashes and starts again, perhaps upgraded.         *)
Restart ==
  /\ job.at # "setup" /\ Height(db) > 0
  /\ db' = kept /\ hf' = Cleared /\ job' = NoJob("setup")
  /\ UNCHANGED <<heights, kept, aborted>>

Next ==
  \/ \E e \in Fork : add_fork(e)
  \/ InitTable \/ InitRestore \/ TrimTop
  \/ \E b \in Block : AddBlock(b)
  \/ BatchStop \/ BatchAbort \/ PopBlock
  \/ StartSwitch \/ SwitchPop
  \/ \E b \in Block : SwitchPush(b)
  \/ SwitchDone \/ SwitchFail
  \/ RollbackPop \/ RollbackScan \/ RollbackPush \/ RollbackPanic \/ RollbackDone
  \/ Replay \/ ReplayDone
  \/ Restart

Spec == Init /\ [][Next]_vars

-----------------------------------------------------------------------------
DbType(d) == /\ d.chain \in Seq(Block) /\ d.hf_versions \in Seq(Version)
             /\ Len(d.chain) <= Len(d.hf_versions)
             /\ Len(d.chain) <= MaxHeight

Stage == {"setup", "init", "trim", "idle", "pop", "push", "replay",
          "rollback", "restore"}

(* Every version counted is within the window, and the fork in force is an *)
(* entry of the table once there is one.                                   *)
TypeOK ==
  /\ heights \in Seq([version : Version, height : Nat, threshold : Nat, time : Nat])
  /\ DbType(db) /\ DbType(kept)
  /\ hf \in [versions : Seq(Version), last_versions : [Version -> 0 .. window_size],
             index : Nat \ {0}]
  /\ job \in [at : Stage, split : Nat, old : Seq(Block), next : Nat, popped : BOOLEAN]
  /\ job.at # "setup" => hf.index <= Len(heights)
  /\ aborted \in BOOLEAN

(* last_versions counts exactly the versions of the rolling window, which  *)
(* never holds more than window_size of them, whatever mixture of adds,    *)
(* pops, reorganisations and restarts came before: the assertion in        *)
(* HardFork::add that a version leaving the window was counted.            *)
CountsExact ==
  /\ Len(hf.versions) <= window_size
  /\ \A v \in Version :
       hf.last_versions[v] = Cardinality({i \in DOMAIN hf.versions : hf.versions[i] = v})

(* Forks happen on schedule, whatever the votes, and no batch of incoming  *)
(* blocks was aborted.                                                     *)
OnSchedule == /\ \A i \in DOMAIN heights : heights[i].threshold = 0
              /\ ~aborted

(* When forks happen on schedule, the version HardFork::check will demand  *)
(* of the next block (get_current_version) is the one get_ideal_version    *)
(* gives its height, which is what alternative blocks and templates on     *)
(* another branch are made and checked with: after pops, switches, failed  *)
(* switches and restarts too.                                              *)
CurrentIsIdeal ==
  job.at = "idle" /\ OnSchedule =>
    get_current_version(hf) = get_ideal_version(Height(db))

(* When forks happen on schedule, every block of the main chain has the    *)
(* version the table gives its height, and so has the hf_versions table,   *)
(* also after an upgrade to a longer table and after a failed switch.      *)
StoredIsIdeal ==
  job.at = "idle" /\ OnSchedule =>
    \A h \in 0 .. Height(db) - 1 :
      /\ db.chain[h + 1].major = get_ideal_version(h)
      /\ db.hf_versions[h + 1] = get_ideal_version(h)

(* The votes of the last window_size blocks of a chain.                    *)
Window(chain) ==
  LET n == IF Len(chain) < window_size THEN Len(chain) ELSE window_size
  IN  [i \in 1 .. n |-> get_effective_version(get_block_vote(chain[Len(chain) - n + i]))]

(* When forks happen on schedule, a reorganisation and a restart leave the *)
(* rolling window equal to the votes of the last window_size blocks,       *)
(* although on_block_popped had put other versions into it.                *)
WindowRebuilt ==
  [][OnSchedule /\ (ReplayDone \/ InitRestore) =>
       hf'.versions = Window(db'.chain)]_vars

(* "get_current_version: This is the latest version that's past its        *)
(* trigger date" (hardfork.h): the fork in force between two calls is the  *)
(* first or one whose height the chain has reached.                        *)
PastTrigger ==
  job.at = "idle" => hf.index = 1 \/ Height(db) >= heights[hf.index].height
=============================================================================

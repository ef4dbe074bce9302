------------------------------- MODULE Ledger -------------------------------
(***************************************************************************)
(* What a node promises its clients, call by call: the main chain and the  *)
(* pool of transactions change together and at once, whatever a call does  *)
(* to the database on the way.  A block extends the chain with             *)
(* transactions of the pool; a reorganisation replaces the chain by        *)
(* another branch and leaves in the pool what the new branch does not      *)
(* hold; a call that fails changes nothing; and a crash takes the node     *)
(* back to what the last batch committed.  The chain and the pool are      *)
(* those of ChainStore, seen between the calls.                            *)
(***************************************************************************)
EXTENDS ChainStore

CONSTANTS Tx, Path

VARIABLES
  pool,      \* transactions that wait for a block
  keptPool,  \* the committed ones
  open       \* is a batch in progress?

ledger == <<chain, kept, pool, keptPool, open>>

LedgerInit == Init /\ pool = {} /\ keptPool = {} /\ open = FALSE

Begin == ~open /\ open' = TRUE /\ UNCHANGED <<chain, kept, pool, keptPool>>

(* The transactions of the chain c and of the pool, when the chain becomes *)
(* c: none is lost, and c takes what it needs from the old chain or from   *)
(* the pool.                                                               *)
MoveTo(c) ==
  /\ TxsOf(c) \subseteq pool \cup TxsOf(chain)
  /\ chain' = c
  /\ pool' = (pool \cup TxsOf(chain)) \ TxsOf(c)

ExtendBy(b) ==
  /\ open /\ Fits(chain, b)
  /\ MoveTo(Append(chain, b))
  /\ UNCHANGED <<kept, keptPool, open>>

(* c leaves the old chain at some block: it is not a prefix of it, and so  *)
(* not what is left of it, nor an extension of it.                         *)
Branch(c) ==
  \E i \in DOMAIN c \cap DOMAIN chain : c[i] # chain[i]

Reorganise(b) ==
  /\ open /\ Branch(Path[b])
  /\ MoveTo(Path[b])
  /\ UNCHANGED <<kept, keptPool, open>>

(* One block of pop_blocks, or of a rollback to a checkpoint.              *)
PopTop ==
  /\ open /\ Len(chain) > 1
  /\ MoveTo(SubSeq(chain, 1, Len(chain) - 1))
  /\ UNCHANGED <<kept, keptPool, open>>

CommitAll ==
  /\ open /\ open' = FALSE
  /\ kept' = chain /\ keptPool' = pool
  /\ UNCHANGED <<chain, pool>>

(* Outside a batch a change of the pool is committed at once.              *)
Submit(t) ==
  /\ t \notin pool \cup TxsOf(chain)
  /\ pool' = pool \cup {t}
  /\ keptPool' = IF open THEN keptPool ELSE pool'
  /\ UNCHANGED <<chain, kept, open>>

Forget(t) ==
  /\ ~open /\ t \in pool
  /\ pool' = pool \ {t} /\ keptPool' = pool'
  /\ UNCHANGED <<chain, kept, open>>

Recover ==
  /\ open' = FALSE
  /\ chain' = kept /\ pool' = keptPool
  /\ UNCHANGED <<kept, keptPool>>

LedgerNext ==
  \/ Begin \/ CommitAll \/ Recover \/ PopTop
  \/ \E b \in Block : ExtendBy(b) \/ Reorganise(b)
  \/ \E t \in Tx : Submit(t) \/ Forget(t)

LedgerSpec == LedgerInit /\ [][LedgerNext]_ledger
=============================================================================

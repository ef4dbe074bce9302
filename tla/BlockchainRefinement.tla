------------------------ MODULE BlockchainRefinement ------------------------
(***************************************************************************)
(* Blockchain implements ChainStore, one write of the database after the   *)
(* other, and Ledger, one call after the other.                            *)
(***************************************************************************)
EXTENDS Blockchain

Store == INSTANCE ChainStore WITH chain <- db.chain, kept <- saved.chain

(* Every write that add_block, remove_block, the commit and the abort of a *)
(* batch and a restart make to the main chain is a write of ChainStore or  *)
(* none: at every step of a reorganisation the chain only takes blocks     *)
(* that fit, even when add_block has left tables half written.             *)
ImplementsChainStore == Store!Spec

(* The main chain before the call in progress: while the outermost switch  *)
(* pops, what it has popped is still part of it; afterwards it is the      *)
(* blocks up to the split and then the disconnected ones.                  *)
ChainBefore ==
  IF frames = <<>> THEN db.chain
  ELSE IF frames[1].phase = "pop" THEN db.chain \o frames[1].old
  ELSE Path[Prev[frames[1].alt[1]]] \o frames[1].old

PoolBefore ==
  IF frames = <<>> THEN db.pool
  ELSE (db.pool \cup db.txs) \ Store!TxsOf(ChainBefore)

Calls == INSTANCE Ledger
           WITH chain <- ChainBefore, kept <- saved.chain,
                pool <- PoolBefore, keptPool <- saved.pool, open <- batch

(* A switch with its pops, connections, nested switches and rollback is    *)
(* one atomic step of Ledger, or none if it fails; blocks, pops, commits   *)
(* and restarts are its other steps (add_new_block, pop_blocks,            *)
(* cleanup_handle_incoming_blocks).                                        *)
ImplementsLedger == Calls!LedgerSpec
=============================================================================

----------------------------- MODULE ChainStore -----------------------------
(***************************************************************************)
(* What the database of a node promises, write by write: the main chain is *)
(* a path of the block tree that grows and shrinks at its top by one block *)
(* at a time, a block is appended only if it fits, and a commit or a       *)
(* return to what was committed concerns the whole chain.  How the node    *)
(* decides what to append, pop or commit is left open; Blockchain          *)
(* implements this specification (BlockchainRefinement).                   *)
(***************************************************************************)
EXTENDS Integers, Sequences

CONSTANTS Block, Genesis, Prev, BlockTxs, Image

VARIABLES chain, kept

store == <<chain, kept>>

BlockTxSet(b) == {BlockTxs[b][i] : i \in DOMAIN BlockTxs[b]}
TxsOf(c) == UNION {BlockTxSet(c[i]) : i \in DOMAIN c}
ImagesOf(c) == {Image[t] : t \in TxsOf(c)}

(* b may follow the chain c: it is a child of the last block, brings only  *)
(* transactions that are not on c, and spends no key image that is spent   *)
(* on c, and none twice.                                                   *)
Fits(c, b) ==
  /\ b \in Block \ {Genesis}
  /\ Prev[b] = c[Len(c)]
  /\ \A t \in BlockTxSet(b) : t \notin TxsOf(c) /\ Image[t] \notin ImagesOf(c)
  /\ \A i, j \in DOMAIN BlockTxs[b] :
       Image[BlockTxs[b][i]] = Image[BlockTxs[b][j]] => i = j

Init == chain = <<Genesis>> /\ kept = chain

Extend(b) == Fits(chain, b) /\ chain' = Append(chain, b) /\ UNCHANGED kept

Retract ==
  /\ Len(chain) > 1
  /\ chain' = SubSeq(chain, 1, Len(chain) - 1)
  /\ UNCHANGED kept

Commit == kept' = chain /\ UNCHANGED chain

Revert == chain' = kept /\ UNCHANGED kept

Next == (\E b \in Block : Extend(b)) \/ Retract \/ Commit \/ Revert

Spec == Init /\ [][Next]_store
=============================================================================

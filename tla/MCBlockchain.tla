---------------------------- MODULE MCBlockchain ----------------------------
(***************************************************************************)
(* Small block trees for TLC.  Heights 0 to START_AMOUNT_BLOCKS = 2 are    *)
(* the trunk g, c1, c2; the chains a and b fork after c2, and e2 is an     *)
(* early block beside c2.  The transaction p, in c1, locks the stake of    *)
(* every spinner; its beacon is c2.  The lock q, in c2, has the block at   *)
(* height 3 as its beacon, which the two branches do not share.  A cfg     *)
(* chooses the blocks and the transactions; the rest of the tree follows.  *)
(***************************************************************************)
EXTENDS BlockchainRefinement, TLC

Tree == "g" :> "g" @@ "c1" :> "g" @@ "d1" :> "g" @@ "c2" :> "c1" @@ "e2" :> "c1"
          @@ "a3" :> "c2" @@ "a4" :> "a3" @@ "a5" :> "a4"
          @@ "b3" :> "c2" @@ "b4" :> "b3"

MCPrev == [b \in Block |-> Tree[b]]

RECURSIVE PathTo(_)
PathTo(b) == IF b = "g" THEN <<b>> ELSE Append(PathTo(Tree[b]), b)
MCPath == [b \in Block |-> PathTo(b)]

(* table, completed with a default value, on the blocks of the instance.   *)
Table(table, default) ==
  [b \in Block |-> IF b \in DOMAIN table THEN table[b] ELSE default]

Late(b) == Len(PathTo(b)) > 3

MCSpinner == Table("a3" :> "k1" @@ "a4" :> "k2" @@ "a5" :> "k1"
                     @@ "b3" :> "k2" @@ "b4" :> "k1", "k0")
LastHeight(s, k) ==
  LET H == {i \in DOMAIN s : MCSpinner[s[i]] = k}
  IN  IF H = {} THEN 0 ELSE (CHOOSE i \in H : \A j \in H : j <= i) - 1
MCPrevSpin ==
  [b \in Block |-> IF Late(b) THEN LastHeight(MCPath[Tree[b]], MCSpinner[b]) ELSE 0]

(* x is in a3 and in b3; y in a4 and z in b3 spend the same key image.     *)
MCBlockTxs == Table("c1" :> <<"p">> @@ "a3" :> <<"x">> @@ "b3" :> <<"x", "z">>
                      @@ "a4" :> <<"y">>, <<>>)
(* b3 spends the key image twice, a4 after a3 has.                         *)
FaultyTxs == Table("c1" :> <<"p">> @@ "a3" :> <<"y">> @@ "a4" :> <<"z">>
                     @@ "b3" :> <<"y", "z">>, <<>>)
(* Only the locks are on the chain: p, and q in c2 or in a3.               *)
OneLock == Table("c1" :> <<"p">>, <<>>)
TrunkLocks == Table("c1" :> <<"p">> @@ "c2" :> <<"q">>, <<>>)
BranchLocks == Table("c1" :> <<"p">> @@ "a3" :> <<"q">>, <<>>)
MCImage == [t \in Tx |-> IF t = "z" THEN "y" ELSE t]

(* Every lock is p, so both branches give a block the same direction.      *)
SameBeacon == [b \in Block |-> IF Late(b) THEN "p" ELSE "null"]
(* The lock of a4 and b4 is q, whose beacon is on the branch.              *)
ForkBeacon == [b \in Block |-> IF b \in {"a4", "b4"} THEN "q" ELSE SameBeacon[b]]
(* The lock of a5 is q.                                                    *)
BranchLock == [b \in Block |-> IF b = "a5" THEN "q" ELSE SameBeacon[b]]

(* The weight (M+1)/(module+1) of the tips: c2 5/4, a3 8/2, a4 11/4, b3    *)
(* 9/3, b4 12/5: a4 makes the chain a lighter and b3 lies between.         *)
FallingMag == Table("a3" :> 2 @@ "a4" :> 2 @@ "a5" :> 2 @@ "b3" :> 3 @@ "b4" :> 2, 1)
(* a3 7/3, b3 6/4; b4 is 9/2 with the beacon a3 and 9/6 with its own.      *)
BeaconMag == Table("a3" :> 1 @@ "a4" :> 1 @@ "b3" :> 0 @@ "b4" :> 2, 1)
(* a3 7/3, a4 8/3, a5 9/3, b3 8/2.                                         *)
RisingMag == Table("a3" :> 1 @@ "b3" :> 2, 0)

MCBeacon(t, S) == IF t = "q" /\ "b3" \in S THEN 1 ELSE -1

NoDefect == Table(<<>>, "none")
NoCheckpoint == <<>>
(* The chain c2, a3 fails both in one pass; e2 is the block that passes.   *)
EarlyCheckpoints == 2 :> "e2" @@ 3 :> "b3"
(* A checkpoint that the first block after genesis fails.                  *)
FirstCheckpoint == 1 :> "d1"
=============================================================================

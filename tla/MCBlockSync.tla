---------------------------- MODULE MCBlockSync -----------------------------
(* Instances of BlockSync.  Blocks 0, 1, 2 are one chain, 12 and 93 a fork *)
(* of it after 1 whose last block fails.                                   *)
EXTENDS BlockSync

CONSTANTS c1, c2

McBlock == {0, 1, 2, 12, 93}
McHeight == [b \in McBlock |-> b % 10]
McParent == (0 :> 0) @@ (1 :> 0) @@ (2 :> 1) @@ (12 :> 1) @@ (93 :> 12)

McTwo == {c1, c2}
McFork == (c1 :> <<0, 1, 2>>) @@ (c2 :> <<0, 1, 12, 93>>)
McSame == (c1 :> <<0, 1, 2>>) @@ (c2 :> <<0, 1, 2>>)
=============================================================================

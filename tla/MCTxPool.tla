------------------------------ MODULE MCTxPool ------------------------------
(* Instances of TxPool.                                                    *)
EXTENDS TxPool

CONSTANTS a, b, c, d, g, x, y, z, nt

(* Three transactions: a and b spend the same key image, c is a message.   *)
(* Block x holds a, its child y holds c, and z is a rival of x.            *)
McTx == {a, b, c}
McImage == (a :> 1) @@ (b :> 1) @@ (c :> 2)
McWeight == (a :> 1) @@ (b :> 1) @@ (c :> 2)
McRate == (a :> 2) @@ (b :> 1) @@ (c :> 0)
McNeeds == (a :> 0) @@ (b :> 1) @@ (c :> 0)
McBlk == {g, x, y, z}
McPrev == (g :> g) @@ (x :> g) @@ (y :> x) @@ (z :> g)
McBlkTx == (g :> nt) @@ (x :> a) @@ (y :> c) @@ (z :> nt)

(* Four transactions for StartsAgain: b and d spend the same key image.    *)
FourTx == {a, b, c, d}
FourImage == (a :> 1) @@ (b :> 2) @@ (c :> 3) @@ (d :> 2)
FourWeight == [t \in FourTx |-> 1]
FourRate == (a :> 2) @@ (b :> 1) @@ (c :> 3) @@ (d :> 0)
FourNeeds == [t \in FourTx |-> 0]

(* Bound: states in which the indexes have parted from the table are       *)
(* checked but not explored further: the properties say nothing of them,   *)
(* but StartsAgain, which needs four transactions, does.                   *)
Untorn == ~torn
=============================================================================

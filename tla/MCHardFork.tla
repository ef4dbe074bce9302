----------------------------- MODULE MCHardFork -----------------------------
(* Instances of HardFork for TLC: tables made of versions 1, 2 and 3.      *)
EXTENDS HardFork

Entry(v, h, t) == [version |-> v, height |-> h, threshold |-> t, time |-> v]

(* Forks on schedule, and one that needs all the votes of the window.      *)
MixedForks == {Entry(1, 1, 0), Entry(2, 2, 0), Entry(2, 2, 100), Entry(3, 3, 0)}
=============================================================================

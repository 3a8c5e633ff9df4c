------------------------------ MODULE MC_Grading ------------------------------
(* Workers as model values; the one with uid 0 is any of them. *)
EXTENDS Grading

CONSTANTS w1, w2, w3

TwoWorkers == {w1, w2}
ThreeWorkers == {w1, w2, w3}

=============================================================================

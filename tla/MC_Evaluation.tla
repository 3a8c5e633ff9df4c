---------------------------- MODULE MC_Evaluation ----------------------------
(* Workers as model values; the one with uid 0 is any of them. *)
EXTENDS Evaluation

CONSTANTS w1, w2, w3

=============================================================================

------------------------------- MODULE MC_Bank -------------------------------
(* Workers and addresses as model values. *)
EXTENDS Bank, TLC

CONSTANTS w1, w2, s0, s1, s2

Interchangeable == Permutations(Workers \ {Uid0}) \cup Permutations(Segs)

=============================================================================

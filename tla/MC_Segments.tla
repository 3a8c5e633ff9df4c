----------------------------- MODULE MC_Segments -----------------------------
(* Instances of Segments.tla for TLC.                                       *)
EXTENDS Segments, TLC

CONSTANTS t1, t2, t3

AllThreads == Permutations(Threads)

=============================================================================

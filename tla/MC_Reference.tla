----------------------------- MODULE MC_Reference -----------------------------
(* Threads, segments and plain words as model values. *)
EXTENDS Reference, TLC

CONSTANTS t1, t2, s1, s2, s3, a, r, q

Interchangeable == Permutations(Threads) \cup Permutations(Segs) \cup Permutations(Roots)

=============================================================================

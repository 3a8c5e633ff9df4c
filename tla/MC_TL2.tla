------------------------------- MODULE MC_TL2 -------------------------------
(* Instances of TL2.tla for TLC.                                            *)
EXTENDS TL2Words, TLC

CONSTANTS a, b, c, t1, t2, t3

OneSegment  == a :> 8 @@ b :> 16
\* For an IntRange of 8: a and c in one segment, b in another, at the offset of a.
TwoSegments == a :> 1 @@ c :> 2 @@ b :> 9
BothWords   == {{a, b}}
EachWord    == {{a}, {b}}
AnySpan     == {{a}, {a, b}}

Threads12 == Permutations({t1, t2})

=============================================================================

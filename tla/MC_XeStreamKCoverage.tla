------------------------- MODULE MC_XeStreamKCoverage -------------------------
EXTENDS XeStreamKCoverage

\* k extents on both sides of every threshold of the scheduler, whose minimum
\* split is 8: below it, equal, between one and two splits, two and more.
MCExtents == {1, 3, 7, 8, 9, 12, 15, 16, 17, 20, 25}

Sized(modes, splits) ==
    [ m : 1 .. 3, n : 1 .. 3, l : 1 .. 2, T : MCExtents, sms : 1 .. 4,
      splits : splits, mode : modes,
      reduction_mode : {"Deterministic"} ]

MCProblems == Sized(DecompositionMode, {1}) \cup Sized({"Heuristic", "SplitK"}, {2, 3, 5})
=============================================================================

---------------------------- MODULE MC_StreamKFixup ----------------------------
EXTENDS StreamKFixup, TLC

\* Four splits of uneven length over eight k tiles: a first, two middle ones
\* that must take turns, and a final one.
FourSplits == {0, 2, 5, 6}
FourCounts == (0 :> 2) @@ (2 :> 3) @@ (5 :> 1) @@ (6 :> 2)

\* The shapes stream-K produces: a tile shared by two work-groups.
TwoSplits == {0, 5}
TwoCounts == (0 :> 5) @@ (5 :> 3)

\* The smallest tile with a split that is neither first nor final.
ThreeSplits == {0, 2, 5}
ThreeCounts == (0 :> 2) @@ (2 :> 3) @@ (5 :> 3)
=============================================================================

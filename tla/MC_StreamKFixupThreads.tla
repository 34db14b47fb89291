------------------------ MODULE MC_StreamKFixupThreads ------------------------
EXTENDS StreamKFixupThreads, TLC

\* A first, a middle and a final split over eight k tiles.
ThreeSplits == {0, 2, 5}
ThreeCounts == (0 :> 2) @@ (2 :> 3) @@ (5 :> 3)
=============================================================================

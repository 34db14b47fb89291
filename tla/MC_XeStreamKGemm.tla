--------------------------- MODULE MC_XeStreamKGemm ---------------------------
EXTENDS XeStreamKGemm

Problem(m, T, sms, splits, mode, reduction) ==
    [m |-> m, n |-> 1, l |-> 1, T |-> T, sms |-> sms, splits |-> splits,
     mode |-> mode, reduction_mode |-> reduction]

\* Two units over three tiles, the middle one shared, then two whole tiles.
StreamAndWhole(reduction) == Problem(5, 16, 2, 1, "StreamK", reduction)

\* Three units over four tiles, two of them shared: a chain of work-groups.
StreamChain(reduction) == Problem(4, 32, 3, 1, "StreamK", reduction)

\* Three units on each of four tiles, strided over three work-groups: the
\* three splits of a tile fall to different work-groups.
SplitThree(reduction) == Problem(4, 5, 3, 3, "SplitK", reduction)

\* Two units on each of three tiles, strided over two work-groups.
SplitTwo(reduction) == Problem(3, 5, 2, 2, "SplitK", reduction)

\* No tile is shared: three tiles on two work-groups.
WholeTiles == Problem(3, 2, 2, 1, "DataParallel", "Deterministic")

\* Nondeterministic reduction only where a tile has at most two splits.
MCProblems ==
    {StreamAndWhole("Deterministic"), StreamChain("Deterministic"),
     SplitThree("Deterministic"),
     StreamChain("Nondeterministic"), SplitTwo("Nondeterministic"), WholeTiles}

NondeterministicThree == {SplitThree("Nondeterministic")}

\* A launch without shared tiles needs no workspace: run() may repeat it, and
\* update() may put it in the place of any other.  One with shared tiles may not.
MCRelaunched == {WholeTiles}
SharedTiles  == {SplitTwo("Deterministic")}
NoProblem    == {}
=============================================================================

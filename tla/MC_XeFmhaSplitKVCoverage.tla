----------------------- MODULE MC_XeFmhaSplitKVCoverage -----------------------
EXTENDS XeFmhaSplitKVCoverage

\* Few and many heads, short and long sequences, grids smaller and larger than
\* the number of blocks.
MCProblems == [ heads : 1 .. 6, local : 1 .. 9, grid : 1 .. 8 ]
=============================================================================

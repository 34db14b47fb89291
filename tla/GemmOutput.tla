------------------------------ MODULE GemmOutput ------------------------------
(***************************************************************************)
(* What a GEMM promises about its output, however the work is divided: each*)
(* part of the output goes from unwritten to the complete sum in one write,*)
(* every term counted exactly once, and is never written again.            *)
(***************************************************************************)
EXTENDS Naturals

CONSTANTS Parts,   \* pieces of the output: tiles, or stripes of a tile
          Terms    \* what each is the sum of: its k tiles, or its splits

VARIABLE out       \* per part, how often each term is in the stored value

Unwritten == [x \in Terms |-> 0]
Complete  == [x \in Terms |-> 1]

Init == out = [part \in Parts |-> Unwritten]

Write(part) ==
    /\ out[part] = Unwritten
    /\ out' = [out EXCEPT ![part] = Complete]

Next == \E part \in Parts : Write(part)

Spec == Init /\ [][Next]_out

FairSpec == Spec /\ \A part \in Parts : WF_out(Write(part))
=============================================================================

------------------------- MODULE XeStreamK_proofs -------------------------
(***************************************************************************)
(* Proofs about the stream-K scheduler and the GEMM kernel that walks its  *)
(* work, for every problem can_implement accepts.                          *)
(*                                                                         *)
(* The scheduler (XeStreamKCoverage): every k tile of every output tile is *)
(* assigned to one work-group, and what work-groups share has room in the  *)
(* workspace.  The argument lays the k tiles of all output tiles end to    *)
(* end.  Each unit of the linearised unit space is an interval of that     *)
(* line, from Lo to Hi, in whichever decomposition; the intervals          *)
(* partition the line (Units), and a work-group walks a unit from Hi       *)
(* backwards to Lo, cutting it at the tiles (FirstPiece, NextPiece).       *)
(*                                                                         *)
(* The kernel (XeStreamKGemm): every output tile is written once, as the   *)
(* sum of its k tiles.  On the same line every position has an owner, and  *)
(* is met when its work-group has done with it.  The flag of a tile counts *)
(* the positions met below its final split (FlagInv), its slot holds       *)
(* their sum between two arrivals (SlotInv), and the tile is written when  *)
(* its last position is met (OutputInv).                                   *)
(***************************************************************************)
EXTENDS XeStreamKCoverage, XeStreamKGemm, NaturalsLemmas, FiniteSetTheorems, TLAPS

-----------------------------------------------------------------------------
(* What initialize makes of a problem: a split-K problem, with one split   *)
(* for whole tiles, or a stream-K problem.                                 *)

KTiles(pr) == OutputTiles(pr) * pr.T

IsBasic(pr, s) ==
    /\ s \in 1 .. pr.T
    /\ s > 1 => pr.splits > 1 /\ pr.mode \in {"SplitK", "Heuristic"}
    /\ initialize(pr) = set_params_basic(pr, s)

IsStream(pr, sk, u) ==
    /\ pr.splits = 1 /\ pr.mode \in {"Heuristic", "StreamK"}
    /\ sk = get_num_sk_tiles(pr, get_grid_shape(pr))
    /\ sk \in Nat /\ u \in Nat \ {0}
    /\ u <= get_grid_shape(pr) /\ get_grid_shape(pr) <= sk /\ sk <= OutputTiles(pr)
    /\ initialize(pr) = set_params_stream_k(pr, sk, u)

LEMMA ProblemTypes ==
    ASSUME NEW pr \in Problems
    PROVE  /\ pr.m \in Nat \ {0} /\ pr.n \in Nat \ {0} /\ pr.l \in Nat \ {0}
           /\ pr.T \in Nat \ {0} /\ pr.sms \in Nat \ {0} /\ pr.splits \in Nat \ {0}
           /\ pr.mode \in DecompositionMode
           /\ pr.m * pr.n \in Nat \ {0} /\ OutputTiles(pr) \in Nat \ {0}
           /\ get_grid_shape(pr) \in Nat \ {0}
           /\ get_grid_shape(pr) <= OutputTiles(pr) /\ get_grid_shape(pr) <= pr.sms
           /\ KTiles(pr) \in Nat
  <1>1. /\ pr.m \in Nat \ {0} /\ pr.n \in Nat \ {0} /\ pr.l \in Nat \ {0}
        /\ pr.T \in Nat \ {0} /\ pr.sms \in Nat \ {0} /\ pr.splits \in Nat \ {0}
        /\ pr.mode \in DecompositionMode
    BY ProblemsAssumption
  <1>2. \A a, b \in Nat \ {0} : a * b \in Nat \ {0}
    <2> SUFFICES ASSUME NEW a \in Nat \ {0}, NEW b \in Nat \ {0} PROVE a * b \in Nat \ {0}
      OBVIOUS
    <2>1. 1 * b <= a * b
      BY TimesMonotone
    <2> QED BY <2>1, TimesTypes
  <1>3. pr.m * pr.n \in Nat \ {0}
    BY <1>1, <1>2
  <1>4. OutputTiles(pr) \in Nat \ {0}
    BY <1>1, <1>2, <1>3 DEF OutputTiles
  <1>5. KTiles(pr) \in Nat
    BY <1>1, <1>4, TimesTypes DEF KTiles
  <1> QED BY <1>1, <1>3, <1>4, <1>5 DEF get_grid_shape, Smaller

\* Unless it uses whole tiles only, stream-K has at least one tile for each
\* work-group.
LEMMA StreamTiles ==
    ASSUME NEW pr \in Problems
    PROVE  LET wgs == get_grid_shape(pr)
               sk  == get_num_sk_tiles(pr, wgs)
           IN  /\ sk \in Nat /\ sk <= OutputTiles(pr)
               /\ sk = 0 \/ wgs <= sk
  <1> DEFINE wgs   == get_grid_shape(pr)
             tiles == OutputTiles(pr)
             full  == tiles \div wgs
             dp    == IF full > 1 THEN full - 1 ELSE 0
             rest  == tiles - dp * wgs
  <1>1. wgs \in Nat \ {0} /\ tiles \in Nat \ {0} /\ wgs <= tiles
    BY ProblemTypes
  <1>2. get_num_sk_tiles(pr, wgs) = 0 \/ get_num_sk_tiles(pr, wgs) = rest
    BY DEF get_num_sk_tiles
  <1> HIDE DEF wgs, tiles
  <1>3. full \in Nat /\ tiles % wgs \in 0 .. wgs - 1 /\ tiles = full * wgs + (tiles % wgs)
    BY <1>1, Quotient
  <1> HIDE DEF full
  <1>4. rest \in Nat /\ rest <= tiles /\ wgs <= rest
    <2>1. CASE full > 1
      <3>1. (full - 1) + 1 = full /\ full - 1 \in Nat
        BY <1>3, <2>1
      <3>2. full * wgs = (full - 1) * wgs + wgs /\ (full - 1) * wgs \in Nat
        BY <1>1, <3>1, TimesTypes
      <3>3. dp = full - 1
        BY <2>1
      <3> HIDE DEF dp
      <3>4. rest = tiles - (full - 1) * wgs
        BY <3>3
      <3> QED BY <1>1, <1>3, <3>2, <3>4
    <2>2. CASE ~(full > 1)
      <3>1. dp * wgs = 0
        BY <1>1, <2>2
      <3> HIDE DEF dp
      <3> QED BY <1>1, <3>1
    <2> QED BY <2>1, <2>2
  <1> HIDE DEF rest
  <1> QED BY <1>1, <1>2, <1>4 DEF wgs, tiles

\* initialize yields one of the two.
LEMMA ParamsAre ==
    ASSUME NEW pr \in Problems, can_implement(pr)
    PROVE  \/ \E s \in Nat : IsBasic(pr, s)
           \/ \E sk, u \in Nat : IsStream(pr, sk, u)
  <1> DEFINE wgs == get_grid_shape(pr)
             sk  == get_num_sk_tiles(pr, wgs)
             u   == get_num_sk_units(wgs, sk, pr.T)
             s   == Smaller(Smaller(pr.splits, pr.sms), pr.T)
  <1>1. /\ pr.T \in Nat \ {0} /\ pr.sms \in Nat \ {0} /\ pr.splits \in Nat \ {0}
        /\ wgs \in Nat \ {0} /\ pr.mode \in DecompositionMode
    BY ProblemTypes
  <1>2. sk \in Nat /\ sk <= OutputTiles(pr) /\ (sk = 0 \/ wgs <= sk)
    BY StreamTiles
  <1>3. CASE WantsSplitK(pr)
    <2>1. initialize(pr) = set_params_basic(pr, s)
      BY <1>3 DEF initialize
    <2>2. s \in 1 .. pr.T /\ s <= pr.splits
      BY <1>1 DEF Smaller
    <2>3. pr.mode \in {"SplitK", "Heuristic"}
      BY <1>3 DEF WantsSplitK
    <2> HIDE DEF s
    <2>4. IsBasic(pr, s)
      BY <1>1, <2>1, <2>2, <2>3 DEF IsBasic
    <2> QED BY <2>2, <2>4
  <1>4. CASE ~WantsSplitK(pr)
    <2>1. pr.splits = 1 /\ pr.mode \in {"Heuristic", "StreamK", "DataParallel"}
      BY <1>1, <1>4 DEF can_implement, WantsSplitK, DecompositionMode
    <2>2. CASE pr.mode = "DataParallel" \/ (pr.mode = "Heuristic" /\ sk = 0) \/ u = 0
      <3>1. initialize(pr) = set_params_basic(pr, 1)
        BY <1>4, <2>2 DEF initialize
      <3>2. IsBasic(pr, 1)
        BY <1>1, <3>1 DEF IsBasic
      <3> QED BY <3>2
    <2>3. CASE ~(pr.mode = "DataParallel" \/ (pr.mode = "Heuristic" /\ sk = 0) \/ u = 0)
      <3> DEFINE whole == (pr.T * sk) \div min_iters_per_sk_unit
      <3>1. u = Smaller(wgs, whole)
        BY DEF get_num_sk_units
      <3>2. pr.T * sk \in Nat
        BY <1>1, <1>2, TimesTypes
      <3>3. whole \in Nat
        BY <3>2, MinItersAssumption, Quotient
      <3>4. sk # 0
        <4> SUFFICES ASSUME sk = 0 PROVE FALSE
          OBVIOUS
        <4>1. pr.T * sk = 0
          BY <1>1
        <4>2. 0 \div min_iters_per_sk_unit = 0
          <5>1. 0 * min_iters_per_sk_unit + 0 = 0 /\ 0 \in 0 .. min_iters_per_sk_unit - 1
            BY MinItersAssumption
          <5> QED BY <5>1, MinItersAssumption, QuotientIs
        <4>3. whole = 0
          BY <4>1, <4>2
        <4> HIDE DEF whole, u, sk, wgs
        <4> QED BY <1>1, <2>3, <3>1, <4>3 DEF Smaller
      <3> HIDE DEF whole
      <3>5. u \in Nat \ {0} /\ u <= wgs
        <4> HIDE DEF u, wgs
        <4> QED BY <1>1, <2>3, <3>1, <3>3 DEF Smaller
      <3> HIDE DEF u
      <3>6. wgs <= sk
        BY <1>2, <3>4
      <3>7. ~HeuristicSplitK(pr, sk, u)
        BY <1>1, <1>2, <3>5, <3>6 DEF HeuristicSplitK
      <3>8. initialize(pr) = set_params_stream_k(pr, sk, u)
        BY <1>4, <2>3, <3>7 DEF initialize, u
      <3>9. IsStream(pr, sk, u)
        BY <1>2, <2>1, <2>3, <3>5, <3>6, <3>8 DEF IsStream
      <3> QED BY <1>2, <3>5, <3>9
    <2> QED BY <2>2, <2>3
  <1> QED BY <1>3, <1>4

-----------------------------------------------------------------------------
(* Even division with the remainder spread over the first parts, and the   *)
(* adjustment to the tiles.                                                *)

\* Where part i of n begins.
Cut(total, n, i) == (total \div n) * i + Smaller(i, total % n)

LEMMA CutStep ==
    ASSUME NEW total \in Nat, NEW n \in Nat \ {0}, NEW i \in Nat
    PROVE  /\ Cut(total, n, i) \in Nat /\ Cut(total, n, i + 1) \in Nat
           /\ Cut(total, n, i) = (total \div n) * i + Smaller(i, total % n)
           /\ Cut(total, n, i + 1) = Cut(total, n, i) + (total \div n)
                                       + (IF i < total % n THEN 1 ELSE 0)
  <1> DEFINE q == total \div n
             r == total % n
  <1>1. q \in Nat /\ r \in 0 .. n - 1
    BY Quotient
  <1>2. Cut(total, n, i) = q * i + Smaller(i, r)
        /\ Cut(total, n, i + 1) = q * (i + 1) + Smaller(i + 1, r)
    BY DEF Cut
  <1> HIDE DEF q, r
  <1>3. q * i \in Nat /\ q * (i + 1) = q * i + q
    BY <1>1, TimesTypes
  <1>4. Smaller(i, r) \in Nat /\ Smaller(i + 1, r) = Smaller(i, r) + (IF i < r THEN 1 ELSE 0)
    BY <1>1 DEF Smaller
  <1>5. /\ Cut(total, n, i) \in Nat /\ Cut(total, n, i + 1) \in Nat
        /\ Cut(total, n, i + 1) = Cut(total, n, i) + q + (IF i < r THEN 1 ELSE 0)
    BY <1>1, <1>2, <1>3, <1>4
  <1> QED BY <1>2, <1>5 DEF q, r

LEMMA CutIs ==
    ASSUME NEW total \in Nat, NEW n \in Nat \ {0}
    PROVE  /\ total \div n \in Nat
           /\ Cut(total, n, 0) = 0 /\ Cut(total, n, n) = total
           /\ \A i \in Nat :
                /\ Cut(total, n, i) \in Nat
                /\ Cut(total, n, i + 1) = Cut(total, n, i) + (total \div n)
                                            + (IF i < total % n THEN 1 ELSE 0)
                /\ \A j \in Nat : i <= j => Cut(total, n, i) <= Cut(total, n, j)
  <1> DEFINE q == total \div n
             r == total % n
  <1>1. q \in Nat /\ r \in 0 .. n - 1 /\ total = q * n + r
    BY Quotient
  <1>2. \A i : Cut(total, n, i) = q * i + Smaller(i, r)
    BY DEF Cut
  <1> HIDE DEF q, r
  <1>3. Cut(total, n, 0) = 0
    <2>1. q * 0 = 0 /\ Smaller(0, r) = 0
      BY <1>1 DEF Smaller
    <2> QED BY <1>2, <2>1
  <1>4. Cut(total, n, n) = total
    <2>1. Smaller(n, r) = r
      BY <1>1 DEF Smaller
    <2> QED BY <1>1, <1>2, <2>1
  <1>5. ASSUME NEW i \in Nat
        PROVE  /\ Cut(total, n, i) \in Nat
               /\ Cut(total, n, i + 1) = Cut(total, n, i) + q + (IF i < r THEN 1 ELSE 0)
    BY CutStep DEF q, r
  <1>6. ASSUME NEW i \in Nat, NEW j \in Nat, i <= j
        PROVE  Cut(total, n, i) <= Cut(total, n, j)
    <2>1. q * i <= q * j /\ q * i \in Nat /\ q * j \in Nat
      BY <1>1, <1>6, TimesMonotone, TimesTypes
    <2>2. Smaller(i, r) <= Smaller(j, r) /\ Smaller(i, r) \in Nat /\ Smaller(j, r) \in Nat
      BY <1>1, <1>6 DEF Smaller
    <2> QED BY <1>2, <2>1, <2>2
  <1> QED BY <1>1, <1>3, <1>4, <1>5, <1>6 DEF q, r

\* Parts of at least T begin at least T apart.
LEMMA CutApart ==
    ASSUME NEW total \in Nat, NEW n \in Nat \ {0}, NEW T \in Nat, n * T <= total,
           NEW i \in Nat
    PROVE  Cut(total, n, i) + T <= Cut(total, n, i + 1)
  <1> DEFINE q == total \div n
             r == total % n
             more == IF i < r THEN 1 ELSE 0
  <1>1. /\ Cut(total, n, i) \in Nat
        /\ Cut(total, n, i + 1) = Cut(total, n, i) + q + more
    BY CutStep
  <1>2. q \in Nat /\ r \in 0 .. n - 1 /\ total = q * n + r
    BY Quotient
  <1>3. more \in Nat
    OBVIOUS
  <1> HIDE DEF q, r, more
  <1>4. T <= q
    <2> SUFFICES ASSUME q + 1 <= T PROVE FALSE
      BY <1>2
    <2>1. (q + 1) * n <= T * n
      BY <1>2, TimesMonotone
    <2>2. (q + 1) * n = q * n + n /\ T * n = n * T /\ q * n \in Nat /\ n * T \in Nat
      BY <1>2, TimesTypes
    <2> QED BY <1>2, <2>1, <2>2
  <1> QED BY <1>1, <1>3, <1>4, <1>2

\* How far into its tile a boundary is after the adjustment.
Inside(T, d) ==
    \/ d \in {0, T}
    \/ min_iters_per_sk_unit <= d /\ d <= T - min_iters_per_sk_unit

Moved(T, r) ==
    IF r < min_iters_per_sk_unit THEN 0
    ELSE IF T >= min_iters_per_sk_unit /\ r > T - min_iters_per_sk_unit THEN T ELSE r

\* The boundary y is x moved within its tile.
Snapped(T, x, y) ==
    /\ y \in Nat
    /\ \E q \in Nat, r \in 0 .. T - 1 :
         /\ x = q * T + r
         /\ y = q * T + Moved(T, r)
         /\ Moved(T, r) \in 0 .. T /\ Inside(T, Moved(T, r))

LEMMA SnapIs ==
    ASSUME NEW p, NEW T \in Nat \ {0}, p.tiles_per_output_tile = T, NEW x \in Nat
    PROVE  Snapped(T, x, Snap(p, x))
  <1> DEFINE q == x \div T
             r == x % T
  <1>1. q \in Nat /\ r \in 0 .. T - 1 /\ x = q * T + r
    BY Quotient
  <1>2. Snap(p, x) = IF r < min_iters_per_sk_unit THEN x - r
                     ELSE IF T >= min_iters_per_sk_unit /\ r > T - min_iters_per_sk_unit
                     THEN x + (T - r) ELSE x
    BY DEF Snap
  <1> HIDE DEF q, r
  <1>3. q * T \in Nat
    BY <1>1, TimesTypes
  <1>4. Snap(p, x) = q * T + Moved(T, r) /\ Moved(T, r) \in 0 .. T /\ Inside(T, Moved(T, r))
    BY <1>1, <1>2, <1>3, MinItersAssumption DEF Moved, Inside
  <1>5. Snap(p, x) \in Nat
    BY <1>1, <1>3, <1>4
  <1> QED BY <1>1, <1>4, <1>5 DEF Snapped

\* A boundary on a tile stays there.
LEMMA SnapAtTile ==
    ASSUME NEW p, NEW T \in Nat \ {0}, p.tiles_per_output_tile = T, NEW q \in Nat
    PROVE  Snap(p, q * T) = q * T
  <1>1. q * T \in Nat /\ q * T + 0 = q * T /\ 0 \in 0 .. T - 1
    BY TimesTypes
  <1>2. (q * T) % T = 0 /\ (q * T) \div T = q
    BY <1>1, QuotientIs
  <1>3. PICK x \in Nat : x = q * T
    BY <1>1
  <1>4. x % p.tiles_per_output_tile = 0
    BY <1>2, <1>3
  <1>5. Snap(p, x) = x - 0
    BY <1>4, MinItersAssumption DEF Snap
  <1> QED BY <1>3, <1>5

\* Boundaries a tile apart stay a tile apart.
LEMMA SnapKeepsApart ==
    ASSUME NEW p, NEW T \in Nat \ {0}, p.tiles_per_output_tile = T,
           NEW x \in Nat, NEW y \in Nat, x + T <= y
    PROVE  Snap(p, x) + T <= Snap(p, y)
  <1>0. Snapped(T, x, Snap(p, x)) /\ Snapped(T, y, Snap(p, y))
    BY SnapIs
  <1>1. PICK q \in Nat, r \in 0 .. T - 1 :
          /\ x = q * T + r
          /\ Snap(p, x) = q * T + Moved(T, r)
          /\ Moved(T, r) \in 0 .. T /\ Inside(T, Moved(T, r))
    BY <1>0 DEF Snapped
  <1>2. PICK u \in Nat, v \in 0 .. T - 1 :
          /\ y = u * T + v
          /\ Snap(p, y) = u * T + Moved(T, v)
          /\ Moved(T, v) \in 0 .. T /\ Inside(T, Moved(T, v))
    BY <1>0 DEF Snapped
  <1>3. q * T \in Nat /\ u * T \in Nat /\ (q + 1) * T = q * T + T
    BY <1>1, <1>2, TimesTypes
  <1>4. CASE q + 2 <= u
    <2>1. (q + 2) * T <= u * T
      BY <1>1, <1>2, <1>4, TimesMonotone
    <2>2. (q + 2) * T = q * T + T + T
      <3>1. ((q + 1) + 1) * T = (q + 1) * T + T
        BY <1>1, TimesTypes
      <3>2. (q + 1) + 1 = q + 2
        BY <1>1
      <3> QED BY <1>3, <3>1, <3>2
    <2> QED BY <1>1, <1>2, <1>3, <2>1, <2>2
  <1>5. CASE u = q + 1
    <2>1. u * T = q * T + T
      BY <1>3, <1>5
    <2>2. r <= v
      BY <1>1, <1>2, <1>3, <2>1
    <2>3. Moved(T, r) <= Moved(T, v)
      BY <1>1, <1>2, <2>2, MinItersAssumption DEF Moved
    <2> QED BY <1>1, <1>2, <1>3, <2>1, <2>3
  <1>6. CASE u <= q
    <2>1. u * T <= q * T
      BY <1>1, <1>2, <1>6, TimesMonotone
    <2> QED BY <1>1, <1>2, <1>3, <2>1
  <1> QED BY <1>1, <1>2, <1>4, <1>5, <1>6

-----------------------------------------------------------------------------
(* The units, as intervals of the line.                                    *)

NumUnits(pr) == initialize(pr).units_per_problem * initialize(pr).splits

Lo(pr, u) ==
    LET p == initialize(pr)
    IN  IF p.sk_units = 0
        THEN (u % p.units_per_problem) * pr.T + Cut(pr.T, p.splits, u \div p.units_per_problem)
        ELSE IF u < p.sk_units THEN Snap(p, Cut(p.sk_tiles * pr.T, p.sk_units, u))
        ELSE (p.sk_tiles + (u - p.sk_units)) * pr.T

Hi(pr, u) ==
    LET p == initialize(pr)
    IN  IF p.sk_units = 0
        THEN (u % p.units_per_problem) * pr.T
               + Cut(pr.T, p.splits, (u \div p.units_per_problem) + 1)
        ELSE Lo(pr, u + 1)

LEMMA BasicFields ==
    ASSUME NEW pr, NEW s, IsBasic(pr, s)
    PROVE  LET p == initialize(pr)
           IN  /\ p.tiles_per_output_tile = pr.T /\ p.batch = pr.m * pr.n /\ p.blk_major = pr.n
               /\ p.splits = s /\ p.units_per_problem = OutputTiles(pr)
               /\ p.sk_units_per_group = OutputTiles(pr)
               /\ p.big_units = pr.T % s /\ p.k_tiles_per_sk_unit = pr.T \div s
               /\ p.sk_tiles = 0 /\ p.sk_units = 0
  BY DEF IsBasic, set_params_basic

LEMMA StreamFields ==
    ASSUME NEW pr, NEW sk, NEW n, IsStream(pr, sk, n)
    PROVE  LET p == initialize(pr)
           IN  /\ p.tiles_per_output_tile = pr.T /\ p.batch = pr.m * pr.n /\ p.blk_major = pr.n
               /\ p.splits = 1 /\ p.units_per_problem = (OutputTiles(pr) - sk) + n
               /\ p.sk_units_per_group = n /\ p.sk_tiles = sk /\ p.sk_units = n
  BY DEF IsStream, set_params_stream_k

LEMMA BasicUnits ==
    ASSUME NEW pr \in Problems, NEW s \in Nat, IsBasic(pr, s)
    PROVE  /\ NumUnits(pr) = OutputTiles(pr) * s
           /\ \A u \in 0 .. NumUnits(pr) - 1 :
                /\ u % OutputTiles(pr) \in 0 .. OutputTiles(pr) - 1
                /\ u \div OutputTiles(pr) \in 0 .. s - 1
                /\ Lo(pr, u) = (u % OutputTiles(pr)) * pr.T
                                 + Cut(pr.T, s, u \div OutputTiles(pr))
                /\ Hi(pr, u) = (u % OutputTiles(pr)) * pr.T
                                 + Cut(pr.T, s, (u \div OutputTiles(pr)) + 1)
           /\ \A i \in 0 .. s - 1 :
                /\ Cut(pr.T, s, i) \in Nat /\ Cut(pr.T, s, i + 1) \in Nat
                /\ Cut(pr.T, s, i) < Cut(pr.T, s, i + 1)
                /\ Cut(pr.T, s, i + 1) <= pr.T
  <1> DEFINE tiles == OutputTiles(pr)
  <1>1. tiles \in Nat \ {0} /\ pr.T \in Nat \ {0} /\ s \in 1 .. pr.T
    BY ProblemTypes DEF IsBasic
  <1>2. NumUnits(pr) = tiles * s
    BY BasicFields DEF NumUnits
  <1>3. ASSUME NEW u \in 0 .. NumUnits(pr) - 1
        PROVE  u % tiles \in 0 .. tiles - 1 /\ u \div tiles \in 0 .. s - 1
    <2> DEFINE q == u \div tiles
    <2> HIDE DEF tiles
    <2>1. tiles * s \in Nat /\ tiles * s = s * tiles
      BY <1>1, TimesTypes
    <2>2. u \in Nat /\ u < s * tiles
      BY <1>2, <1>3, <2>1
    <2>3. q \in Nat /\ u % tiles \in 0 .. tiles - 1 /\ u = q * tiles + (u % tiles)
      BY <1>1, <2>2, Quotient
    <2> HIDE DEF q
    <2>4. q * tiles \in Nat
      BY <1>1, <2>3, TimesTypes
    <2>5. q * tiles < s * tiles
      BY <1>1, <2>1, <2>2, <2>3, <2>4
    <2>6. q < s
      BY <1>1, <2>3, <2>5, TimesCancels
    <2> QED BY <1>1, <2>3, <2>6 DEF q
  <1>4. ASSUME NEW u \in 0 .. NumUnits(pr) - 1
        PROVE  /\ Lo(pr, u) = (u % tiles) * pr.T + Cut(pr.T, s, u \div tiles)
               /\ Hi(pr, u) = (u % tiles) * pr.T + Cut(pr.T, s, (u \div tiles) + 1)
    BY BasicFields DEF Lo, Hi
  <1>5. ASSUME NEW i \in 0 .. s - 1
        PROVE  /\ Cut(pr.T, s, i) \in Nat /\ Cut(pr.T, s, i + 1) \in Nat
               /\ Cut(pr.T, s, i) < Cut(pr.T, s, i + 1)
               /\ Cut(pr.T, s, i + 1) <= pr.T
    <2> DEFINE q == pr.T \div s
    <2>0. pr.T \in Nat /\ s \in Nat \ {0} /\ i \in Nat /\ i + 1 \in Nat /\ i + 1 <= s
      BY <1>1
    <2>1. /\ q \in Nat /\ Cut(pr.T, s, i) \in Nat /\ Cut(pr.T, s, i + 1) \in Nat
          /\ Cut(pr.T, s, i + 1) = Cut(pr.T, s, i) + q + (IF i < pr.T % s THEN 1 ELSE 0)
          /\ Cut(pr.T, s, s) = pr.T /\ Cut(pr.T, s, i + 1) <= Cut(pr.T, s, s)
      <3>1. q \in Nat
        BY <2>0, Quotient
      <3>2. /\ Cut(pr.T, s, i) \in Nat /\ Cut(pr.T, s, i + 1) \in Nat
            /\ Cut(pr.T, s, i + 1) = Cut(pr.T, s, i) + q + (IF i < pr.T % s THEN 1 ELSE 0)
        BY <2>0, CutStep
      <3>3. Cut(pr.T, s, s) = pr.T /\ Cut(pr.T, s, i + 1) <= Cut(pr.T, s, s)
        <4>1. s \in Nat
          BY <2>0
        <4> QED BY <2>0, <4>1, CutIs
      <3> QED BY <3>1, <3>2, <3>3
    <2>2. q # 0
      <3>1. pr.T = q * s + (pr.T % s) /\ pr.T % s \in 0 .. s - 1
        BY <2>0, Quotient
      <3> SUFFICES ASSUME q = 0 PROVE FALSE
        OBVIOUS
      <3> HIDE DEF q
      <3>2. q * s = 0
        BY <1>1
      <3> QED BY <1>1, <3>1, <3>2
    <2> HIDE DEF q
    <2> QED BY <2>1, <2>2
  <1> QED BY <1>2, <1>3, <1>4, <1>5

\* What the units are good for: they partition the line.
PartitionLine(pr) ==
    /\ NumUnits(pr) \in Nat
    /\ \A u \in 0 .. NumUnits(pr) - 1 :
         Lo(pr, u) \in Nat /\ Hi(pr, u) \in Nat /\ Lo(pr, u) < Hi(pr, u) /\ Hi(pr, u) <= KTiles(pr)
    /\ \A u, v \in 0 .. NumUnits(pr) - 1 :
         u # v => Hi(pr, u) <= Lo(pr, v) \/ Hi(pr, v) <= Lo(pr, u)
    /\ \A x \in 0 .. KTiles(pr) - 1 :
         \E u \in 0 .. NumUnits(pr) - 1 : Lo(pr, u) <= x /\ x < Hi(pr, u)

LEMMA BasicPartition ==
    ASSUME NEW pr \in Problems, NEW s \in Nat, IsBasic(pr, s)
    PROVE  PartitionLine(pr)
  <1> DEFINE tiles == OutputTiles(pr)
             T == pr.T
             c(i) == Cut(T, s, i)
             N == NumUnits(pr)
  <1>1. /\ tiles \in Nat \ {0} /\ T \in Nat \ {0} /\ s \in Nat \ {0} /\ KTiles(pr) = tiles * T
        /\ N = tiles * s /\ N \in Nat
    <2>1. NumUnits(pr) = tiles * s /\ tiles \in Nat \ {0} /\ T \in Nat \ {0} /\ s \in Nat \ {0}
      BY ProblemTypes, BasicUnits DEF IsBasic
    <2> QED BY <2>1, TimesTypes DEF KTiles
  <1>2. \A u \in 0 .. N - 1 : /\ u % tiles \in 0 .. tiles - 1 /\ u \div tiles \in 0 .. s - 1
                              /\ Lo(pr, u) = (u % tiles) * T + c(u \div tiles)
                              /\ Hi(pr, u) = (u % tiles) * T + c((u \div tiles) + 1)
    BY BasicUnits
  <1>3. \A i \in 0 .. s - 1 : /\ c(i) \in Nat /\ c(i + 1) \in Nat
                              /\ c(i) < c(i + 1) /\ c(i + 1) <= T
    BY BasicUnits
  <1>4. c(0) = 0 /\ c(s) = T /\ \A i, j \in Nat : c(i) \in Nat /\ (i <= j => c(i) <= c(j))
    BY <1>1, CutIs
  <1> HIDE DEF tiles, T, c, N
  <1>5. ASSUME NEW u \in 0 .. N - 1
        PROVE  /\ Lo(pr, u) \in Nat /\ Hi(pr, u) \in Nat /\ Lo(pr, u) < Hi(pr, u)
               /\ Hi(pr, u) <= (u % tiles) * T + T
               /\ (u % tiles) * T <= Lo(pr, u)
               /\ Hi(pr, u) <= KTiles(pr)
    <2> DEFINE t == u % tiles
               i == u \div tiles
    <2>1. t \in 0 .. tiles - 1 /\ i \in 0 .. s - 1
          /\ Lo(pr, u) = t * T + c(i) /\ Hi(pr, u) = t * T + c(i + 1)
      BY <1>2
    <2> HIDE DEF t, i
    <2>2. c(i) \in Nat /\ c(i + 1) \in Nat /\ c(i) < c(i + 1) /\ c(i + 1) <= T
      BY <1>3, <2>1
    <2>3. t * T \in Nat /\ (t + 1) * T = t * T + T /\ (t + 1) * T <= tiles * T
          /\ tiles * T \in Nat
      BY <1>1, <2>1, TimesTypes, TimesMonotone
    <2>4. /\ Lo(pr, u) \in Nat /\ Hi(pr, u) \in Nat /\ Lo(pr, u) < Hi(pr, u)
          /\ Hi(pr, u) <= t * T + T /\ t * T <= Lo(pr, u) /\ Hi(pr, u) <= KTiles(pr)
      BY <1>1, <2>1, <2>2, <2>3
    <2> QED BY <2>4 DEF t
  <1>6. ASSUME NEW u \in 0 .. N - 1, NEW v \in 0 .. N - 1, u # v
        PROVE  Hi(pr, u) <= Lo(pr, v) \/ Hi(pr, v) <= Lo(pr, u)
    <2> DEFINE t == u % tiles
               r == v % tiles
               i == u \div tiles
               j == v \div tiles
    <2>1. /\ t \in 0 .. tiles - 1 /\ r \in 0 .. tiles - 1 /\ i \in 0 .. s - 1 /\ j \in 0 .. s - 1
          /\ Lo(pr, u) = t * T + c(i) /\ Hi(pr, u) = t * T + c(i + 1)
          /\ Lo(pr, v) = r * T + c(j) /\ Hi(pr, v) = r * T + c(j + 1)
      BY <1>2
    <2>2. u = i * tiles + t /\ v = j * tiles + r
      <3>1. u \in Nat /\ v \in Nat /\ tiles \in Nat \ {0}
        BY <1>1
      <3>2. u = (u \div tiles) * tiles + (u % tiles)
        BY <3>1, Quotient
      <3>3. v = (v \div tiles) * tiles + (v % tiles)
        BY <3>1, Quotient
      <3> QED BY <3>2, <3>3
    <2> HIDE DEF t, r, i, j
    <2>3. t * T \in Nat /\ r * T \in Nat /\ (t + 1) * T = t * T + T /\ (r + 1) * T = r * T + T
      BY <1>1, <2>1, TimesTypes
    <2>4. c(i) \in Nat /\ c(j) \in Nat /\ c(i + 1) \in Nat /\ c(j + 1) \in Nat
          /\ c(i + 1) <= T /\ c(j + 1) <= T
      BY <1>3, <2>1
    <2>5. CASE t < r
      <3>1. (t + 1) * T <= r * T
        BY <1>1, <2>1, <2>5, TimesMonotone
      <3> QED BY <1>1, <2>1, <2>3, <2>4, <3>1
    <2>6. CASE r < t
      <3>1. (r + 1) * T <= t * T
        BY <1>1, <2>1, <2>6, TimesMonotone
      <3> QED BY <1>1, <2>1, <2>3, <2>4, <3>1
    <2>7. CASE t = r
      <3>1. i # j
        BY <1>6, <2>2, <2>7
      <3>2. i < j => c(i + 1) <= c(j)
        <4>1. i < j => i + 1 <= j
          BY <2>1
        <4> QED BY <1>4, <2>1, <4>1
      <3>3. j < i => c(j + 1) <= c(i)
        <4>1. j < i => j + 1 <= i
          BY <2>1
        <4> QED BY <1>4, <2>1, <4>1
      <3>4. i < j \/ j < i
        BY <2>1, <3>1
      <3> QED BY <2>1, <2>3, <2>4, <2>7, <3>2, <3>3, <3>4
    <2> QED BY <2>1, <2>5, <2>6, <2>7
  <1>7. ASSUME NEW x \in 0 .. KTiles(pr) - 1
        PROVE  \E u \in 0 .. N - 1 : Lo(pr, u) <= x /\ x < Hi(pr, u)
    <2> DEFINE t == x \div T
               k == x % T
    <2>1. tiles * T \in Nat /\ x \in Nat
      BY <1>1, TimesTypes
    <2>2. t \in Nat /\ k \in 0 .. T - 1 /\ x = t * T + k
      BY <1>1, <2>1, Quotient
    <2> HIDE DEF t, k
    <2>3. t * T \in Nat
      BY <1>1, <2>2, TimesTypes
    <2>4. t * T < tiles * T
      BY <1>1, <2>1, <2>2, <2>3
    <2>5. t \in 0 .. tiles - 1
      <3>1. t < tiles
        BY <1>1, <2>2, <2>4, TimesCancels
      <3> QED BY <1>1, <2>2, <3>1
    <2>6. PICK i \in 0 .. s - 1 : c(i) <= k /\ k < c(i + 1)
      <3> DEFINE f == [i \in 0 .. s |-> c(i)]
      <3>1. f \in [0 .. s -> Nat] /\ f[0] = 0 /\ f[s] = T
        BY <1>1, <1>4
      <3>2. \A i \in 0 .. s - 1 : f[i] = c(i) /\ f[i + 1] = c(i + 1)
        BY <1>1
      <3> HIDE DEF f
      <3>3. k \in Nat /\ 0 <= k /\ k < T
        BY <1>1, <2>2
      <3>4. \E i \in 0 .. s - 1 : f[i] <= k /\ k < f[i + 1]
        BY <1>1, <3>1, <3>3, Between
      <3> QED BY <3>2, <3>4
    <2> DEFINE u == i * tiles + t
    <2>7. u \in Nat /\ u \div tiles = i /\ u % tiles = t
      <3>1. i \in Nat /\ tiles \in Nat \ {0}
        BY <1>1, <2>6
      <3> QED BY <2>5, <3>1, QuotientIs
    <2>8. u < N
      <3>1. (i + 1) * tiles <= s * tiles /\ (i + 1) * tiles = i * tiles + tiles
            /\ i * tiles \in Nat /\ tiles * s = s * tiles /\ s * tiles \in Nat
        BY <1>1, <2>6, TimesMonotone, TimesTypes
      <3> QED BY <1>1, <2>5, <3>1
    <2> HIDE DEF u
    <2>9. u \in 0 .. N - 1
      BY <1>1, <2>7, <2>8
    <2>10. Lo(pr, u) = t * T + c(i) /\ Hi(pr, u) = t * T + c(i + 1)
      BY <1>2, <2>7, <2>9
    <2>11. c(i) \in Nat /\ c(i + 1) \in Nat
      BY <1>3, <2>6
    <2> QED BY <2>2, <2>3, <2>6, <2>9, <2>10, <2>11
  <1> QED BY <1>1, <1>5, <1>6, <1>7 DEF PartitionLine, N

\* A boundary leaves no sliver of a tile on either side.
NoSliver(T, x) ==
    \/ x % T = 0
    \/ min_iters_per_sk_unit <= x % T /\ x % T <= T - min_iters_per_sk_unit

\* The boundaries between the units of a stream-K problem: first the stream-K
\* units, each at least a tile long, then the units of one whole tile.
LEMMA StreamEdges ==
    ASSUME NEW pr \in Problems, NEW sk \in Nat, NEW n \in Nat, IsStream(pr, sk, n)
    PROVE  /\ NumUnits(pr) \in Nat /\ n \in 1 .. NumUnits(pr) /\ n <= get_grid_shape(pr)
           /\ sk * pr.T <= KTiles(pr)
           /\ Lo(pr, 0) = 0 /\ Lo(pr, n) = sk * pr.T /\ Lo(pr, NumUnits(pr)) = KTiles(pr)
           /\ \A u \in 0 .. NumUnits(pr) :
                /\ Lo(pr, u) \in Nat
                /\ NoSliver(pr.T, Lo(pr, u))
                /\ u <= n => Lo(pr, u) = Snap(initialize(pr), Cut(sk * pr.T, n, u))
                /\ u >= n => Lo(pr, u) = (sk + (u - n)) * pr.T
           /\ \A u \in 0 .. NumUnits(pr) - 1 :
                /\ Hi(pr, u) = Lo(pr, u + 1)
                /\ Lo(pr, u) + pr.T <= Lo(pr, u + 1)
                /\ u >= n => Lo(pr, u + 1) = Lo(pr, u) + pr.T
                /\ u < n => Lo(pr, u + 1) <= sk * pr.T
  <1> DEFINE p == initialize(pr)
             T == pr.T
             tiles == OutputTiles(pr)
             N == NumUnits(pr)
             c(i) == Cut(sk * T, n, i)
  <1>1. /\ T \in Nat \ {0} /\ tiles \in Nat \ {0} /\ KTiles(pr) = tiles * T
        /\ n \in Nat \ {0} /\ n <= sk /\ sk <= tiles /\ n <= get_grid_shape(pr)
    BY ProblemTypes DEF IsStream, KTiles
  <1>2. p.tiles_per_output_tile = T /\ p.sk_tiles = sk /\ p.sk_units = n
    BY StreamFields
  <1>3. N = (tiles - sk) + n /\ N \in Nat /\ n <= N
    <2>1. NumUnits(pr) = ((tiles - sk) + n) * 1
      BY StreamFields DEF NumUnits
    <2> QED BY <1>1, <2>1
  <1>4. \A u \in 0 .. N : Lo(pr, u) = IF u < n THEN Snap(p, c(u)) ELSE (sk + (u - n)) * T
    BY <1>1, <1>2 DEF Lo
  <1>5. \A u \in 0 .. N : Hi(pr, u) = Lo(pr, u + 1)
    BY <1>1, <1>2 DEF Hi
  <1>6. sk * T \in Nat /\ n * T <= sk * T /\ n * T \in Nat /\ sk * T <= tiles * T
    BY <1>1, TimesTypes, TimesMonotone
  <1>7. \A i \in Nat : c(i) \in Nat
    BY <1>1, <1>6, CutIs
  <1>8. c(0) = 0 /\ c(n) = sk * T
    BY <1>1, <1>6, CutIs
  <1>9. \A i \in Nat : c(i) + T <= c(i + 1)
    <2> HIDE DEF T
    <2> SUFFICES ASSUME NEW i \in Nat PROVE c(i) + T <= c(i + 1)
      OBVIOUS
    <2>1. PICK total \in Nat : total = sk * T
      BY <1>6
    <2>2. T \in Nat /\ n \in Nat \ {0} /\ n * T <= total
      BY <1>1, <1>6, <2>1
    <2>3. Cut(total, n, i) + T <= Cut(total, n, i + 1)
      BY <2>2, CutApart
    <2> QED BY <2>1, <2>3
  <1> HIDE DEF p, T, tiles, N, c
  \* Both cases of Lo are adjusted boundaries.
  <1>10. \A u \in 0 .. N : u <= n => Lo(pr, u) = Snap(p, c(u))
    <2>1. Snap(p, c(n)) = sk * T
      BY <1>1, <1>2, <1>8, SnapAtTile
    <2>2. Lo(pr, n) = (sk + (n - n)) * T /\ sk + (n - n) = sk
      BY <1>1, <1>3, <1>4
    <2>3. Lo(pr, n) = Snap(p, c(n))
      BY <2>1, <2>2
    <2> QED BY <1>1, <1>3, <1>4, <2>3
  <1>11. ASSUME NEW u \in 0 .. N
         PROVE  Lo(pr, u) \in Nat /\ NoSliver(T, Lo(pr, u))
    <2>1. CASE u <= n
      <3>1. PICK x \in Nat : x = c(u)
        BY <1>1, <1>7, <2>1
      <3>0. p.tiles_per_output_tile = T /\ T \in Nat \ {0}
        BY <1>1, <1>2
      <3>2. PICK q \in Nat, d \in 0 .. T : Snap(p, x) = q * T + d /\ Inside(T, d)
                                            /\ Snap(p, x) \in Nat
        <4>1. Snapped(T, x, Snap(p, x))
          BY <3>0, SnapIs
        <4> QED BY <4>1 DEF Snapped
      <3>3. Lo(pr, u) = q * T + d
        BY <1>10, <2>1, <3>1, <3>2
      <3>4. CASE d = T
        <4>1. Lo(pr, u) = (q + 1) * T + 0
          BY <1>1, <3>2, <3>3, <3>4, TimesTypes
        <4>2. q + 1 \in Nat /\ 0 \in 0 .. T - 1
          BY <1>1, <3>2
        <4>3. ((q + 1) * T + 0) % T = 0
          BY <1>1, <4>2, QuotientIs
        <4> QED BY <1>10, <2>1, <3>1, <3>2, <4>1, <4>3 DEF NoSliver
      <3>5. CASE d # T
        <4>1. d \in 0 .. T - 1
          BY <1>1, <3>2, <3>5
        <4>2. (q * T + d) % T = d
          BY <1>1, <3>2, <4>1, QuotientIs
        <4> QED BY <1>10, <2>1, <3>1, <3>2, <3>3, <3>5, <4>2 DEF NoSliver, Inside
      <3> QED BY <3>4, <3>5
    <2>2. CASE n < u
      <3>1. sk + (u - n) \in Nat
        BY <1>1, <2>2
      <3>2. PICK t \in Nat : t = sk + (u - n)
        BY <3>1
      <3>3. Lo(pr, u) = t * T
        BY <1>1, <1>4, <2>2, <3>2
      <3>4. t * T + 0 \in Nat /\ (t * T + 0) % T = 0 /\ t * T \in Nat
        <4>1. T \in Nat \ {0} /\ 0 \in 0 .. T - 1
          BY <1>1
        <4>2. t * T \in Nat
          BY <4>1, TimesTypes
        <4> QED BY <4>1, <4>2, QuotientIs
      <3>5. t * T + 0 = t * T
        BY <3>4
      <3> QED BY <3>3, <3>4, <3>5 DEF NoSliver
    <2> QED BY <1>1, <2>1, <2>2
  <1>12. ASSUME NEW u \in 0 .. N - 1
         PROVE  /\ Lo(pr, u) + T <= Lo(pr, u + 1)
                /\ u >= n => Lo(pr, u + 1) = Lo(pr, u) + T
    <2>0. u \in 0 .. N /\ u + 1 \in 0 .. N /\ u \in Nat
      BY <1>3
    <2>1. CASE u < n
      <3>1. Lo(pr, u) = Snap(p, c(u)) /\ Lo(pr, u + 1) = Snap(p, c(u + 1))
        BY <1>1, <1>10, <2>0, <2>1
      <3>2. PICK x \in Nat : x = c(u)
        BY <1>7, <2>0
      <3>3. PICK y \in Nat : y = c(u + 1)
        BY <1>7, <2>0
      <3>4. x + T <= y
        BY <1>9, <2>0, <3>2, <3>3
      <3>5. Snap(p, x) + T <= Snap(p, y)
        BY <1>1, <1>2, <3>4, SnapKeepsApart
      <3> QED BY <1>1, <2>1, <3>1, <3>2, <3>3, <3>5
    <2>2. CASE n <= u
      <3>1. PICK t \in Nat : t = sk + (u - n)
        BY <1>1, <2>2
      <3>2. Lo(pr, u) = t * T /\ Lo(pr, u + 1) = (t + 1) * T
        <4>1. sk + ((u + 1) - n) = t + 1
          BY <1>1, <3>1
        <4> QED BY <1>1, <1>4, <2>0, <2>2, <3>1, <4>1
      <3>3. t * T \in Nat /\ (t + 1) * T = t * T + T
        BY <1>1, TimesTypes
      <3> QED BY <1>1, <3>2, <3>3
    <2> QED BY <1>1, <2>1, <2>2
  <1>13. Lo(pr, 0) = 0
    <2>1. Lo(pr, 0) = Snap(p, 0)
      BY <1>1, <1>3, <1>8, <1>10
    <2>2. Snap(p, 0 * T) = 0 * T /\ 0 * T = 0
      BY <1>1, <1>2, SnapAtTile
    <2> QED BY <2>1, <2>2
  <1>14. Lo(pr, n) = sk * T /\ Lo(pr, N) = tiles * T
    <2>1. sk + (n - n) = sk /\ sk + (N - n) = tiles
      BY <1>1, <1>3
    <2> QED BY <1>1, <1>3, <1>4, <2>1
  <1>15. ASSUME NEW u \in 0 .. N - 1, u < n PROVE Lo(pr, u + 1) <= sk * T
    <2> DEFINE f == [i \in 0 .. N |-> Lo(pr, i)]
    <2>1. f \in [0 .. N -> Nat] /\ \A i \in 0 .. N : f[i] = Lo(pr, i)
      BY <1>11
    <2> HIDE DEF f
    <2>2. \A i \in 0 .. N - 1 : f[i] <= f[i + 1]
      <3> SUFFICES ASSUME NEW i \in 0 .. N - 1 PROVE f[i] <= f[i + 1]
        OBVIOUS
      <3>1. i \in 0 .. N /\ i + 1 \in 0 .. N
        BY <1>3
      <3> QED BY <1>1, <1>11, <1>12, <2>1, <3>1
    <2>3. u + 1 \in 0 .. N /\ n \in 0 .. N /\ u + 1 <= n
      BY <1>1, <1>3, <1>15
    <2>4. f[u + 1] <= f[n]
      BY <1>3, <2>1, <2>2, <2>3, StepsUp
    <2> QED BY <1>14, <2>1, <2>3, <2>4
  <1> QED BY <1>1, <1>3, <1>4, <1>5, <1>6, <1>10, <1>11, <1>12, <1>13, <1>14, <1>15
          DEF p, T, N, c

LEMMA StreamPartition ==
    ASSUME NEW pr \in Problems, NEW sk \in Nat, NEW n \in Nat, IsStream(pr, sk, n)
    PROVE  PartitionLine(pr)
  <1> DEFINE N == NumUnits(pr)
             f == [i \in 0 .. N |-> Lo(pr, i)]
  <1>1. /\ N \in Nat /\ Lo(pr, 0) = 0 /\ Lo(pr, N) = KTiles(pr)
        /\ \A u \in 0 .. N : Lo(pr, u) \in Nat
        /\ \A u \in 0 .. N - 1 : Hi(pr, u) = Lo(pr, u + 1) /\ Lo(pr, u) + pr.T <= Lo(pr, u + 1)
    BY StreamEdges
  <1>2. pr.T \in Nat \ {0} /\ KTiles(pr) \in Nat
    BY ProblemTypes
  <1> HIDE DEF N
  <1>3. f \in [0 .. N -> Nat] /\ \A i \in 0 .. N : f[i] = Lo(pr, i)
    BY <1>1
  <1> HIDE DEF f
  <1>4. \A u \in 0 .. N - 1 : /\ u \in 0 .. N /\ u + 1 \in 0 .. N
                              /\ Lo(pr, u) = f[u] /\ Hi(pr, u) = f[u + 1]
                              /\ f[u] \in Nat /\ f[u + 1] \in Nat /\ f[u] < f[u + 1]
    <2> SUFFICES ASSUME NEW u \in 0 .. N - 1
                 PROVE  /\ u \in 0 .. N /\ u + 1 \in 0 .. N
                        /\ Lo(pr, u) = f[u] /\ Hi(pr, u) = f[u + 1]
                        /\ f[u] \in Nat /\ f[u + 1] \in Nat /\ f[u] < f[u + 1]
      OBVIOUS
    <2>1. u \in 0 .. N /\ u + 1 \in 0 .. N
      BY <1>1
    <2>2. f[u] = Lo(pr, u) /\ f[u + 1] = Lo(pr, u + 1) /\ Lo(pr, u) \in Nat /\ Lo(pr, u + 1) \in Nat
      BY <1>1, <1>3, <2>1
    <2>3. Hi(pr, u) = Lo(pr, u + 1) /\ Lo(pr, u) + pr.T <= Lo(pr, u + 1)
      BY <1>1
    <2> QED BY <1>2, <2>1, <2>2, <2>3
  <1>5. \A i, j \in 0 .. N : i <= j => f[i] <= f[j]
    <2>1. \A u \in 0 .. N - 1 : f[u] <= f[u + 1]
      BY <1>4
    <2> QED BY <1>1, <1>3, <2>1, StepsUp
  <1>6. f[0] = 0 /\ f[N] = KTiles(pr)
    BY <1>1, <1>3
  <1>7. \A u \in 0 .. N - 1 : f[u + 1] <= KTiles(pr)
    BY <1>1, <1>4, <1>5, <1>6
  <1>8. ASSUME NEW u \in 0 .. N - 1, NEW v \in 0 .. N - 1, u # v
        PROVE  Hi(pr, u) <= Lo(pr, v) \/ Hi(pr, v) <= Lo(pr, u)
    <2>1. u < v => u + 1 <= v
      BY <1>1
    <2>2. v < u => v + 1 <= u
      BY <1>1
    <2>3. u < v \/ v < u
      BY <1>1, <1>8
    <2> QED BY <1>4, <1>5, <2>1, <2>2, <2>3
  <1>9. ASSUME NEW x \in 0 .. KTiles(pr) - 1
        PROVE  \E u \in 0 .. N - 1 : Lo(pr, u) <= x /\ x < Hi(pr, u)
    <2>1. x \in Nat /\ f[0] <= x /\ x < f[N]
      BY <1>2, <1>6
    <2>2. \E u \in 0 .. N - 1 : f[u] <= x /\ x < f[u + 1]
      BY <1>1, <1>3, <2>1, Between
    <2> QED BY <1>4, <2>2
  <1>10. \A u \in 0 .. N - 1 : Lo(pr, u) \in Nat /\ Hi(pr, u) \in Nat
                               /\ Lo(pr, u) < Hi(pr, u) /\ Hi(pr, u) <= KTiles(pr)
    BY <1>4, <1>7
  <1> QED BY <1>1, <1>8, <1>9, <1>10 DEF PartitionLine, N

\* In either decomposition the units partition the line.
LEMMA Units == ASSUME NEW pr \in Problems, can_implement(pr) PROVE PartitionLine(pr)
  BY ParamsAre, BasicPartition, StreamPartition

-----------------------------------------------------------------------------
(* The pieces of a unit: what it has in the last tile of what is left of   *)
(* it.                                                                     *)

\* The tile of the last position below e, and where the piece that ends at e
\* begins.
TileBelow(pr, e) == (e - 1) \div pr.T

From(pr, u, e) == Larger(TileBelow(pr, e) * pr.T, Lo(pr, u))

Piece(pr, u, e) ==
    AtTile(initialize(pr), TileBelow(pr, e), From(pr, u, e) - TileBelow(pr, e) * pr.T,
           e - From(pr, u, e), e - Lo(pr, u))

LEMMA TileBelowIs ==
    ASSUME NEW pr \in Problems, NEW t \in Nat, NEW d \in 1 .. pr.T
    PROVE  TileBelow(pr, t * pr.T + d) = t
  <1>1. pr.T \in Nat \ {0}
    BY ProblemTypes
  <1>2. d - 1 \in 0 .. pr.T - 1 /\ t * pr.T \in Nat /\ d \in Nat
    BY <1>1, TimesTypes
  <1>3. (t * pr.T + (d - 1)) \div pr.T = t
    BY <1>1, <1>2, QuotientIs
  <1>4. (t * pr.T + d) - 1 = t * pr.T + (d - 1)
    BY <1>2
  <1> QED BY <1>3, <1>4 DEF TileBelow

LEMMA TileBelowBounds ==
    ASSUME NEW pr \in Problems, NEW e \in Nat \ {0}
    PROVE  /\ TileBelow(pr, e) \in Nat /\ TileBelow(pr, e) * pr.T \in Nat
           /\ TileBelow(pr, e) * pr.T < e /\ e <= TileBelow(pr, e) * pr.T + pr.T
           /\ (TileBelow(pr, e) + 1) * pr.T = TileBelow(pr, e) * pr.T + pr.T
  <1> DEFINE t == (e - 1) \div pr.T
             d == (e - 1) % pr.T
  <1>1. pr.T \in Nat \ {0}
    BY ProblemTypes
  <1>2. e - 1 \in Nat
    OBVIOUS
  <1>3. t \in Nat /\ d \in 0 .. pr.T - 1 /\ e - 1 = t * pr.T + d
    BY <1>1, <1>2, Quotient
  <1>4. TileBelow(pr, e) = t
    BY DEF TileBelow
  <1> HIDE DEF t, d
  <1>5. t * pr.T \in Nat /\ (t + 1) * pr.T = t * pr.T + pr.T
    BY <1>1, <1>3, TimesTypes
  <1> QED BY <1>1, <1>3, <1>4, <1>5

\* The decoded tile is the one that was encoded.
LEMMA PieceIs ==
    ASSUME NEW pr \in Problems, PartitionLine(pr), can_implement(pr),
           NEW u \in 0 .. NumUnits(pr) - 1, NEW e \in Nat, Lo(pr, u) < e, e <= Hi(pr, u)
    PROVE  LET p == initialize(pr)
               w == Piece(pr, u, e)
               t == TileBelow(pr, e)
               f == From(pr, u, e)
           IN  /\ is_valid(w)
               /\ t \in 0 .. OutputTiles(pr) - 1 /\ t * pr.T \in Nat
               /\ f \in Nat /\ t * pr.T <= f /\ Lo(pr, u) <= f /\ f < e /\ e <= t * pr.T + pr.T
               /\ f = t * pr.T \/ f = Lo(pr, u)
               /\ output_tile_index(p, w) = t
               /\ w.K_idx = f - t * pr.T /\ w.k_tile_count = e - f
               /\ w.k_tile_remaining = e - Lo(pr, u)
  <1> DEFINE p == initialize(pr)
             w == Piece(pr, u, e)
             t == TileBelow(pr, e)
             f == From(pr, u, e)
             T == pr.T
             lo == Lo(pr, u)
             tiles == OutputTiles(pr)
  <1>1. lo \in Nat /\ e <= KTiles(pr) /\ e \in Nat \ {0} /\ lo < e
    BY ProblemTypes DEF PartitionLine
  <1>2. T \in Nat \ {0} /\ tiles \in Nat \ {0} /\ KTiles(pr) = tiles * T
        /\ pr.n \in Nat \ {0} /\ pr.m * pr.n \in Nat \ {0}
    BY ProblemTypes DEF KTiles
  <1>3. t \in Nat /\ t * T \in Nat /\ t * T < e /\ e <= t * T + T
    BY <1>1, TileBelowBounds
  <1>4. f = Larger(t * T, lo)
    BY DEF From
  <1>5. p.batch = pr.m * pr.n /\ p.blk_major = pr.n
    BY ParamsAre, BasicFields, StreamFields
  <1>6. w = AtTile(p, t, f - t * T, e - f, e - lo)
    BY DEF Piece
  <1> HIDE DEF p, w, t, f, T, lo, tiles
  <1>7. t < tiles
    <2>1. t * T < tiles * T /\ tiles * T \in Nat
      BY <1>1, <1>2, <1>3, TimesTypes
    <2> QED BY <1>2, <1>3, <2>1, TimesCancels
  <1>8. f \in Nat /\ t * T <= f /\ lo <= f /\ f < e /\ (f = t * T \/ f = lo)
    BY <1>1, <1>3, <1>4 DEF Larger
  <1>9. w.K_idx = f - t * T /\ w.k_tile_count = e - f /\ w.k_tile_remaining = e - lo
    BY <1>6 DEF AtTile
  <1>10. is_valid(w)
    BY <1>1, <1>8, <1>9 DEF is_valid
  <1>11. output_tile_index(p, w) = t
    <2> DEFINE B == pr.m * pr.n
               l == t \div B
               i == t % B
               y == i \div pr.n
               x == i % pr.n
    <2>1. w.L_idx = l /\ w.M_idx = y /\ w.N_idx = x
      BY <1>5, <1>6 DEF AtTile
    <2> HIDE DEF B
    <2>2. B \in Nat \ {0}
      BY <1>2 DEF B
    <2>3. l \in Nat /\ i \in 0 .. B - 1 /\ t = l * B + i
      BY <1>3, <2>2, Quotient
    <2> HIDE DEF l, i
    <2>4. i \in Nat
      BY <2>2, <2>3
    <2>5. y \in Nat /\ x \in 0 .. pr.n - 1 /\ i = y * pr.n + x
      BY <1>2, <2>4, Quotient
    <2> HIDE DEF x, y
    <2>6. output_tile_index(p, w) = B * l + (y * pr.n + x)
      BY <1>5, <2>1 DEF output_tile_index, B
    <2>7. B * l = l * B
      BY <2>2, <2>3, TimesTypes
    <2> QED BY <2>3, <2>5, <2>6, <2>7
  <1> QED BY <1>3, <1>7, <1>8, <1>9, <1>10, <1>11, <1>2 DEF p, w, t, f, T, lo, tiles

-----------------------------------------------------------------------------
(* assign_work yields these pieces.                                        *)

LEMMA BasicAssign ==
    ASSUME NEW pr \in Problems, NEW s \in Nat, IsBasic(pr, s),
           NEW u \in 0 .. NumUnits(pr) - 1
    PROVE  /\ assign_work(initialize(pr), u, invalid_work_tile) = Piece(pr, u, Hi(pr, u))
           /\ From(pr, u, Hi(pr, u)) = Lo(pr, u)
           /\ TileBelow(pr, Hi(pr, u)) = u % OutputTiles(pr)
  <1> DEFINE p == initialize(pr)
             T == pr.T
             tiles == OutputTiles(pr)
             c(j) == Cut(T, s, j)
             t == u % tiles
             i == u \div tiles
  <1>1. /\ T \in Nat \ {0} /\ tiles \in Nat \ {0} /\ s \in Nat \ {0} /\ u \in Nat
        /\ NumUnits(pr) = tiles * s
    BY ProblemTypes, BasicUnits DEF IsBasic
  <1>2. t \in 0 .. tiles - 1 /\ i \in 0 .. s - 1
        /\ Lo(pr, u) = t * T + c(i) /\ Hi(pr, u) = t * T + c(i + 1)
    BY BasicUnits
  <1>3. c(i) \in Nat /\ c(i + 1) \in Nat /\ c(i) < c(i + 1) /\ c(i + 1) <= T
    BY <1>2, BasicUnits
  <1>4. c(0) = 0 /\ c(s) = T /\ c(i + 1) = c(i) + T \div s + (IF i < T % s THEN 1 ELSE 0)
        /\ T \div s \in Nat
    <2>1. T \in Nat /\ i \in Nat
      BY <1>1, <1>2
    <2> HIDE DEF T, i
    <2>2. c(0) = 0 /\ c(s) = T /\ T \div s \in Nat
      BY <1>1, <2>1, CutIs
    <2>3. c(i + 1) = c(i) + T \div s + (IF i < T % s THEN 1 ELSE 0)
      BY <1>1, <2>1, CutStep
    <2> QED BY <2>2, <2>3
  <1>5. c(i) = (T \div s) * i + Smaller(i, T % s)
    BY DEF Cut
  <1>6. /\ p.tiles_per_output_tile = T /\ p.splits = s /\ p.units_per_problem = tiles
        /\ p.sk_units_per_group = tiles /\ p.big_units = T % s
        /\ p.k_tiles_per_sk_unit = T \div s /\ p.sk_tiles = 0 /\ p.sk_units = 0
    BY BasicFields
  <1>7. u = i * tiles + t
    BY <1>1, Quotient
  <1>8. u \div p.sk_units_per_group = i /\ u % p.units_per_problem = t
    BY <1>6
  <1> HIDE DEF p, T, tiles, c, t, i
  <1>9. t * T \in Nat /\ (t + 1) * T = t * T + T
    BY <1>1, <1>2, TimesTypes
  <1>10. TileBelow(pr, Hi(pr, u)) = t
    <2>1. PICK d \in 1 .. T : d = c(i + 1)
      BY <1>1, <1>3
    <2>2. TileBelow(pr, t * pr.T + d) = t
      BY <1>1, <1>2, <2>1, TileBelowIs DEF T
    <2> QED BY <1>2, <2>1, <2>2 DEF T
  <1>11. From(pr, u, Hi(pr, u)) = Lo(pr, u)
    <2>1. From(pr, u, Hi(pr, u)) = Larger(t * T, Lo(pr, u))
      BY <1>10 DEF From, T
    <2> QED BY <1>2, <1>3, <1>9, <2>1 DEF Larger
  <1>12. Piece(pr, u, Hi(pr, u)) = AtTile(p, t, c(i), c(i + 1) - c(i), c(i + 1) - c(i))
    <2>1. Piece(pr, u, Hi(pr, u))
            = AtTile(p, t, Lo(pr, u) - t * T, Hi(pr, u) - Lo(pr, u), Hi(pr, u) - Lo(pr, u))
      BY <1>10, <1>11 DEF Piece, p, T
    <2>2. Lo(pr, u) - t * T = c(i) /\ Hi(pr, u) - Lo(pr, u) = c(i + 1) - c(i)
      BY <1>2, <1>3, <1>9
    <2> QED BY <2>1, <2>2
  <1>13. CASE s = 1
    <2>1. i = 0 /\ i + 1 = s /\ u = t
      BY <1>1, <1>2, <1>7, <1>13
    <2>2. c(i) = 0 /\ c(i + 1) - c(i) = T
      BY <1>1, <1>4, <2>1
    <2>3. assign_work(p, u, invalid_work_tile) = AtTile(p, (u - 0) + 0, 0, T, T)
      BY <1>1, <1>6, <1>13 DEF assign_work
    <2>4. (u - 0) + 0 = t
      BY <1>1, <2>1
    <2> QED BY <1>10, <1>11, <1>12, <2>2, <2>3, <2>4 DEF p, t, tiles
  <1>14. CASE s > 1
    <2> DEFINE b == T * u
    <2>1. UnitStart(p, u) = RawStart(p, u) /\ UnitEnd(p, u) = RawStart(p, u) + RawCount(p, u)
      BY <1>6, <1>14 DEF UnitStart, UnitEnd
    <2>2. RawStart(p, u) = (b + (T \div s) * i) + Smaller(i, T % s)
      BY <1>6, <1>8, <1>14 DEF RawStart
    <2>3. RawCount(p, u) = T \div s + (IF i < T % s THEN 1 ELSE 0)
      BY <1>6, <1>8, <1>14 DEF RawCount
    <2>4. b \in Nat /\ (T \div s) * i \in Nat /\ Smaller(i, T % s) \in Nat
      <3>1. T % s \in Nat
        BY <1>1, Quotient
      <3> QED BY <1>1, <1>2, <1>4, <3>1, TimesTypes DEF Smaller
    <2>5. b = u * T /\ (u + 1) * T = b + T
      BY <1>1, TimesTypes
    <2> HIDE DEF b
    <2>6. UnitStart(p, u) = b + c(i) /\ UnitEnd(p, u) = b + c(i + 1)
      <3>1. RawStart(p, u) = b + c(i)
        BY <1>5, <2>2, <2>4
      <3>2. RawCount(p, u) = c(i + 1) - c(i)
        BY <1>3, <1>4, <2>3
      <3> QED BY <1>3, <2>1, <2>4, <3>1, <3>2
    <2>7. ((b + c(i + 1)) - 1) \div T = u
      <3>1. PICK d \in 1 .. T : d = c(i + 1)
        BY <1>1, <1>3
      <3>2. d - 1 \in 0 .. T - 1 /\ (b + d) - 1 = u * T + (d - 1)
        BY <1>1, <2>4, <2>5, <3>1
      <3>3. (u * T + (d - 1)) \div T = u
        BY <1>1, <3>2, QuotientIs
      <3> QED BY <3>1, <3>2, <3>3
    <2> DEFINE end == UnitStart(p, u) + (UnitEnd(p, u) - UnitStart(p, u))
    <2>8. end = b + c(i + 1) /\ UnitEnd(p, u) - UnitStart(p, u) = c(i + 1) - c(i)
      BY <1>3, <2>4, <2>6
    <2>9. assign_work(p, u, invalid_work_tile)
            = LET tile == (end - 1) \div T
                  from == Larger(tile * T, UnitStart(p, u))
                  to   == Smaller((tile + 1) * T, end)
              IN  AtTile(p, tile % tiles, from - tile * T, to - from,
                         UnitEnd(p, u) - UnitStart(p, u))
      BY <1>1, <1>6, <1>14 DEF assign_work, invalid_work_tile
    <2> HIDE DEF end
    <2>10. assign_work(p, u, invalid_work_tile)
             = AtTile(p, u % tiles, Larger(u * T, b + c(i)) - u * T,
                      Smaller((u + 1) * T, b + c(i + 1)) - Larger(u * T, b + c(i)),
                      c(i + 1) - c(i))
      BY <2>6, <2>7, <2>8, <2>9
    <2>11. Larger(u * T, b + c(i)) = b + c(i) /\ Smaller((u + 1) * T, b + c(i + 1)) = b + c(i + 1)
      BY <1>1, <1>3, <2>4, <2>5 DEF Larger, Smaller
    <2>12. (b + c(i)) - u * T = c(i) /\ (b + c(i + 1)) - (b + c(i)) = c(i + 1) - c(i)
      BY <1>3, <2>4, <2>5
    <2> QED BY <1>10, <1>11, <1>12, <2>10, <2>11, <2>12 DEF p, t, tiles
  <1> QED BY <1>2, <1>13, <1>14, <1>1

\* A stream-K unit is the interval UnitStart and UnitEnd compute.
LEMMA StreamUnit ==
    ASSUME NEW pr \in Problems, NEW sk \in Nat, NEW n \in Nat, IsStream(pr, sk, n),
           NEW u \in 0 .. NumUnits(pr) - 1, u < n
    PROVE  /\ UnitStart(initialize(pr), u) = Lo(pr, u)
           /\ UnitEnd(initialize(pr), u) = Hi(pr, u)
  <1> DEFINE p == initialize(pr)
             total == sk * pr.T
             q == total \div n
             r == total % n
  <1>1. n \in Nat \ {0} /\ u \in Nat /\ total \in Nat
    BY ProblemTypes, TimesTypes DEF IsStream
  <1>2. p.splits = 1 /\ p.sk_units_per_group = n /\ p.sk_tiles * p.tiles_per_output_tile = total
    BY StreamFields
  <1>3. Lo(pr, u) = Snap(p, Cut(total, n, u)) /\ Hi(pr, u) = Snap(p, Cut(total, n, u + 1))
    <2>1. u \in 0 .. NumUnits(pr) /\ u + 1 \in 0 .. NumUnits(pr) /\ u <= n /\ u + 1 <= n
      BY StreamEdges
    <2> QED BY <2>1, StreamEdges
  <1> HIDE DEF p, total
  <1>4. q \in Nat /\ r \in 0 .. n - 1 /\ total = q * n + r
    BY <1>1, Quotient
  <1>5. /\ Cut(total, n, u) \in Nat
        /\ Cut(total, n, u) = q * u + Smaller(u, r)
        /\ Cut(total, n, u + 1) = Cut(total, n, u) + q + (IF u < r THEN 1 ELSE 0)
    BY <1>1, CutStep
  <1> HIDE DEF r
  <1>6. total - (total \div n) * n = r
    <2>1. q * n \in Nat
      BY <1>1, <1>4, TimesTypes
    <2> HIDE DEF q
    <2>2. total - q * n = r
      BY <1>1, <1>4, <2>1
    <2> QED BY <2>2 DEF q
  <1> HIDE DEF q
  <1>7. RawStart(p, u) = Cut(total, n, u)
    BY <1>2, <1>5, <1>6 DEF RawStart, q
  <1>8. RawCount(p, u) = q + (IF u < r THEN 1 ELSE 0)
    BY <1>2, <1>6 DEF RawCount, q
  <1>9. RawStart(p, u) + RawCount(p, u) = Cut(total, n, u + 1)
    BY <1>4, <1>5, <1>7, <1>8
  <1> QED BY <1>2, <1>3, <1>7, <1>9 DEF UnitStart, UnitEnd, p

LEMMA StreamAssign ==
    ASSUME NEW pr \in Problems, NEW sk \in Nat, NEW n \in Nat, IsStream(pr, sk, n),
           NEW u \in 0 .. NumUnits(pr) - 1, u < n,
           NEW w, NEW e \in Nat, Lo(pr, u) < e, e <= Hi(pr, u),
           IF w.k_tile_count = 0 THEN e = Hi(pr, u) ELSE w.k_tile_remaining = e - Lo(pr, u)
    PROVE  assign_work(initialize(pr), u, w) = Piece(pr, u, e)
  <1> DEFINE p == initialize(pr)
             T == pr.T
             lo == Lo(pr, u)
             tile == TileBelow(pr, e)
  <1>1. T \in Nat \ {0} /\ n \in Nat \ {0} /\ u \in Nat
    BY ProblemTypes DEF IsStream
  <1>2. p.tiles_per_output_tile = T /\ p.splits = 1 /\ p.sk_units = n
    BY StreamFields
  <1>3. lo \in Nat
    BY StreamPartition DEF PartitionLine
  <1>4. UnitStart(p, u) = lo /\ UnitEnd(p, u) = Hi(pr, u)
    BY StreamUnit
  <1> HIDE DEF p, T, lo, tile
  <1> DEFINE remaining == IF w.k_tile_count = 0 THEN UnitEnd(p, u) - UnitStart(p, u)
                          ELSE w.k_tile_remaining
             end == UnitStart(p, u) + remaining
  <1>5. remaining = e - lo
    BY <1>3, <1>4 DEF lo
  <1>6. end = e
    BY <1>3, <1>4, <1>5
  <1>7. ~(u >= p.sk_units /\ p.splits = 1) /\ ~(p.splits > 1)
    BY <1>1, <1>2
  <1>8. assign_work(p, u, w)
           = LET t    == (end - 1) \div T
                 from == Larger(t * T, UnitStart(p, u))
                 to   == Smaller((t + 1) * T, end)
             IN  AtTile(p, t, from - t * T, to - from, remaining)
    BY <1>2, <1>7 DEF assign_work
  <1> HIDE DEF remaining, end
  <1>9. assign_work(p, u, w)
           = AtTile(p, tile, Larger(tile * T, lo) - tile * T,
                    Smaller((tile + 1) * T, e) - Larger(tile * T, lo), e - lo)
    BY <1>4, <1>5, <1>6, <1>8 DEF tile, TileBelow, T
  <1>10. Smaller((tile + 1) * T, e) = e
    <2>1. (tile + 1) * T = tile * T + T /\ e <= tile * T + T /\ tile * T \in Nat
      BY <1>3, TileBelowBounds DEF tile, T, lo
    <2> QED BY <1>1, <2>1 DEF Smaller
  <1> QED BY <1>9, <1>10 DEF Piece, From, p, T, lo, tile

\* The units after the stream-K units are whole tiles.
LEMMA TailAssign ==
    ASSUME NEW pr \in Problems, NEW sk \in Nat, NEW n \in Nat, IsStream(pr, sk, n),
           NEW u \in 0 .. NumUnits(pr) - 1, n <= u
    PROVE  /\ assign_work(initialize(pr), u, invalid_work_tile) = Piece(pr, u, Hi(pr, u))
           /\ From(pr, u, Hi(pr, u)) = Lo(pr, u)
           /\ Hi(pr, u) = Lo(pr, u) + pr.T
  <1> DEFINE p == initialize(pr)
             T == pr.T
  <1>1. T \in Nat \ {0} /\ u \in Nat
    BY ProblemTypes
  <1>2. p.tiles_per_output_tile = T /\ p.splits = 1 /\ p.sk_tiles = sk /\ p.sk_units = n
    BY StreamFields
  <1>3. PICK t \in Nat : t = (u - n) + sk
    BY <1>1
  <1>4. Lo(pr, u) = t * T /\ Hi(pr, u) = t * T + T
    <2>1. NumUnits(pr) \in Nat /\ u \in 0 .. NumUnits(pr) /\ sk + (u - n) = t
      BY <1>1, <1>3, StreamEdges
    <2>2. Lo(pr, u) = (sk + (u - n)) * T
      BY <2>1, StreamEdges
    <2>3. Hi(pr, u) = Lo(pr, u) + T
      BY StreamEdges
    <2> QED BY <2>1, <2>2, <2>3
  <1>5. t * T \in Nat
    BY <1>1, TimesTypes
  <1>6. TileBelow(pr, Hi(pr, u)) = t
    <2>1. T \in 1 .. pr.T
      BY <1>1
    <2> QED BY <1>4, <2>1, TileBelowIs
  <1> HIDE DEF p, T
  <1>7. From(pr, u, Hi(pr, u)) = Lo(pr, u)
    BY <1>4, <1>5, <1>6 DEF From, Larger, T
  <1>8. Piece(pr, u, Hi(pr, u)) = AtTile(p, t, 0, T, T)
    <2>1. Piece(pr, u, Hi(pr, u)) = AtTile(p, t, t * T - t * T, (t * T + T) - t * T, (t * T + T) - t * T)
      BY <1>4, <1>6, <1>7 DEF Piece, p, T
    <2>2. t * T - t * T = 0 /\ (t * T + T) - t * T = T
      BY <1>1, <1>5
    <2> QED BY <2>1, <2>2
  <1>9. assign_work(p, u, invalid_work_tile) = AtTile(p, (u - n) + sk, 0, T, T)
    BY <1>1, <1>2 DEF assign_work
  <1> QED BY <1>3, <1>4, <1>7, <1>8, <1>9 DEF p, T

\* A unit starts with the piece that ends where it ends.
LEMMA FirstPiece ==
    ASSUME NEW pr \in Problems, can_implement(pr), NEW u \in Nat
    PROVE  get_current_work(initialize(pr), u)
             = IF u < NumUnits(pr) THEN Piece(pr, u, Hi(pr, u)) ELSE invalid_work_tile
  <1> DEFINE p == initialize(pr)
  <1>1. NumUnits(pr) = p.units_per_problem * p.splits /\ NumUnits(pr) \in Nat
    BY Units DEF NumUnits, PartitionLine
  <1>2. CASE u >= NumUnits(pr)
    BY <1>1, <1>2 DEF get_current_work
  <1>3. CASE u < NumUnits(pr)
    <2>1. u \in 0 .. NumUnits(pr) - 1
      BY <1>1, <1>3
    <2>2. get_current_work(p, u) = assign_work(p, u, invalid_work_tile)
      BY <1>1, <1>3 DEF get_current_work
    <2>3. assign_work(p, u, invalid_work_tile) = Piece(pr, u, Hi(pr, u))
      <3>1. CASE \E s \in Nat : IsBasic(pr, s)
        BY <2>1, <3>1, BasicAssign
      <3>2. CASE \E sk, n \in Nat : IsStream(pr, sk, n)
        <4>1. PICK sk \in Nat, n \in Nat : IsStream(pr, sk, n)
          BY <3>2
        <4>2. CASE u < n
          <5>1. Lo(pr, u) < Hi(pr, u) /\ Hi(pr, u) \in Nat
            BY <2>1, Units DEF PartitionLine
          <5>2. invalid_work_tile.k_tile_count = 0
            BY DEF invalid_work_tile
          <5>3. Hi(pr, u) <= Hi(pr, u)
            BY <5>1
          <5> QED BY <2>1, <4>1, <4>2, <5>1, <5>2, <5>3, StreamAssign
        <4>3. CASE n <= u
          BY <2>1, <4>1, <4>3, TailAssign
        <4> QED BY <2>1, <4>2, <4>3
      <3> QED BY <3>1, <3>2, ParamsAre
    <2> QED BY <1>3, <2>2, <2>3
  <1> QED BY <1>1, <1>2, <1>3

\* A unit that lies in one tile has one piece.
LEMMA OnePiece ==
    ASSUME NEW pr \in Problems, NEW u, Lo(pr, u) \in Nat, Hi(pr, u) \in Nat,
           From(pr, u, Hi(pr, u)) = Lo(pr, u),
           NEW e \in Nat, Lo(pr, u) < e, e <= Hi(pr, u)
    PROVE  From(pr, u, e) = Lo(pr, u)
  <1> DEFINE T == pr.T
             t == TileBelow(pr, e)
             h == TileBelow(pr, Hi(pr, u))
  <1>1. T \in Nat \ {0}
    BY ProblemTypes
  <1>2. t \in Nat /\ t * T \in Nat /\ t * T < e
    BY TileBelowBounds
  <1>3. h \in Nat /\ h * T \in Nat /\ Hi(pr, u) <= h * T + T /\ (h + 1) * T = h * T + T
    BY TileBelowBounds
  <1>4. From(pr, u, Hi(pr, u)) = Larger(h * T, Lo(pr, u)) /\ From(pr, u, e) = Larger(t * T, Lo(pr, u))
    BY DEF From
  <1> HIDE DEF T, t, h
  <1>5. t < h + 1
    <2>1. t * T < (h + 1) * T
      BY <1>1, <1>2, <1>3
    <2> QED BY <1>1, <1>2, <1>3, <2>1, TimesCancels
  <1>6. t * T <= h * T
    BY <1>1, <1>2, <1>3, <1>5, TimesMonotone
  <1>7. h * T <= Lo(pr, u)
    BY <1>3, <1>4 DEF Larger
  <1>8. t * T <= Lo(pr, u)
    BY <1>2, <1>3, <1>6, <1>7
  <1>9. Larger(t * T, Lo(pr, u)) = Lo(pr, u)
    BY <1>2, <1>8 DEF Larger
  <1> QED BY <1>4, <1>9

\* What is left of a unit is what lies below the piece.
LEMMA NextPiece ==
    ASSUME NEW pr \in Problems, can_implement(pr),
           NEW u \in 0 .. NumUnits(pr) - 1, NEW e \in Nat, Lo(pr, u) < e, e <= Hi(pr, u)
    PROVE  continue_current_work(initialize(pr), u, Piece(pr, u, e))
             = IF From(pr, u, e) = Lo(pr, u) THEN invalid_work_tile
               ELSE Piece(pr, u, From(pr, u, e))
  <1> DEFINE p == initialize(pr)
             w == Piece(pr, u, e)
             f == From(pr, u, e)
             lo == Lo(pr, u)
  <1>1. PartitionLine(pr)
    BY Units
  <1>2. lo \in Nat /\ f \in Nat /\ lo <= f /\ f < e
        /\ w.k_tile_count = e - f /\ w.k_tile_remaining = e - lo
    BY <1>1, PieceIs DEF PartitionLine
  <1>3. w.k_tile_remaining - w.k_tile_count = f - lo
    BY <1>2
  <1>4. CASE f = lo
    <2>1. w.k_tile_remaining - w.k_tile_count = 0
      BY <1>2, <1>3, <1>4
    <2> QED BY <1>4, <2>1 DEF continue_current_work
  <1>5. CASE f # lo
    <2>1. f - lo # 0 /\ lo < f /\ f <= Hi(pr, u)
      BY <1>1, <1>2, <1>5 DEF PartitionLine
    <2>2. continue_current_work(p, u, w) = assign_work(p, u, [w EXCEPT !.k_tile_remaining = f - lo])
      BY <1>3, <2>1 DEF continue_current_work
    <2> DEFINE v == [w EXCEPT !.k_tile_remaining = f - lo]
    <2>3. v.k_tile_count = e - f /\ v.k_tile_remaining = f - lo
      BY <1>2 DEF Piece, AtTile
    <2>4. lo \in Nat /\ Hi(pr, u) \in Nat
      BY <1>1 DEF PartitionLine
    <2>5. ASSUME From(pr, u, Hi(pr, u)) = lo PROVE FALSE
      BY <1>5, <2>4, <2>5, OnePiece
    <2>6. ASSUME NEW s \in Nat, IsBasic(pr, s) PROVE FALSE
      BY <2>5, <2>6, BasicAssign
    <2>7. PICK sk \in Nat, n \in Nat : IsStream(pr, sk, n)
      BY <2>6, ParamsAre
    <2>8. u < n
      BY <2>5, <2>7, TailAssign
    <2> HIDE DEF v, w, f, lo
    <2>9. v.k_tile_count # 0
      BY <1>2, <2>3
    <2>10. Lo(pr, u) < f /\ v.k_tile_remaining = f - Lo(pr, u)
      BY <2>1, <2>3 DEF lo
    <2>11. assign_work(p, u, v) = Piece(pr, u, f)
      BY <1>2, <2>1, <2>7, <2>8, <2>9, <2>10, StreamAssign
    <2> QED BY <1>5, <2>2, <2>11 DEF v, w, f, lo
  <1> QED BY <1>4, <1>5

LEMMA Fetch ==
    ASSUME NEW pr \in Problems, can_implement(pr), NEW grid,
           NEW u \in 0 .. NumUnits(pr) - 1, NEW e \in Nat, Lo(pr, u) < e, e <= Hi(pr, u)
    PROVE  fetch_next_work(initialize(pr), grid, u, Piece(pr, u, e))
             = IF From(pr, u, e) = Lo(pr, u)
               THEN <<u + grid, get_current_work(initialize(pr), u + grid)>>
               ELSE <<u, Piece(pr, u, From(pr, u, e))>>
  <1> DEFINE p == initialize(pr)
             f == From(pr, u, e)
             more == continue_current_work(p, u, Piece(pr, u, e))
  <1>1. more = IF f = Lo(pr, u) THEN invalid_work_tile ELSE Piece(pr, u, f)
    BY NextPiece
  <1>2. fetch_next_work(p, grid, u, Piece(pr, u, e))
          = IF is_valid(more) THEN <<u, more>> ELSE <<u + grid, get_current_work(p, u + grid)>>
    BY DEF fetch_next_work
  <1>3. ~is_valid(invalid_work_tile)
    BY DEF is_valid, invalid_work_tile
  <1>4. ASSUME f # Lo(pr, u) PROVE is_valid(Piece(pr, u, f))
    <2>1. PartitionLine(pr)
      BY Units
    <2>2. Lo(pr, u) \in Nat /\ Hi(pr, u) \in Nat
      BY <2>1 DEF PartitionLine
    <2>3. f \in Nat /\ Lo(pr, u) <= f /\ f < e
      BY <2>1, PieceIs
    <2> HIDE DEF f
    <2>4. Lo(pr, u) < f /\ f <= Hi(pr, u)
      BY <1>4, <2>2, <2>3
    <2> QED BY <2>1, <2>3, <2>4, PieceIs
  <1> HIDE DEF more, f
  <1>5. CASE f = Lo(pr, u)
    BY <1>1, <1>2, <1>3, <1>5 DEF f
  <1>6. CASE f # Lo(pr, u)
    BY <1>1, <1>2, <1>4, <1>6 DEF f
  <1> QED BY <1>5, <1>6

-----------------------------------------------------------------------------
(* The walk.                                                               *)

UnitsOf(pr) == 0 .. NumUnits(pr) - 1

\* Where a piece begins and ends on the line.
Begins(pr, x) == x.tile * pr.T + x.from
Ends(pr, x)   == Begins(pr, x) + x.count

\* Where what is left of the current unit ends.
Left == Lo(subject, linear_idx) + tile_info.k_tile_remaining

\* Position y of unit u has been met.
Walked(u, y) ==
    \/ u % Grid < wg
    \/ u % Grid = wg /\ u < linear_idx
    \/ u = linear_idx /\ is_valid(tile_info) /\ Left <= y

WalkInv ==
    /\ subject \in Problems /\ can_implement(subject)
    /\ wg \in 0 .. Grid - 1 /\ linear_idx \in Nat /\ step \in Nat
    /\ linear_idx % Grid = wg /\ wg <= linear_idx
    /\ ~is_valid(tile_info) => NumUnits(subject) <= linear_idx

\* A work-group cuts a unit at its end or at the end of a tile.
CutsAt(pr, u, e) ==
    /\ Lo(pr, u) < e /\ e <= Hi(pr, u)
    /\ e = Hi(pr, u) \/ \E t \in Nat : e = t * pr.T

\* The work at hand is the piece of the current unit that ends at e.
AtHand(e) ==
    /\ CutsAt(subject, linear_idx, e)
    /\ tile_info = Piece(subject, linear_idx, e)
    /\ step # 0 => linear_idx # wg \/ e # Hi(subject, linear_idx)

WorkInv == is_valid(tile_info) => linear_idx \in UnitsOf(subject) /\ \E e \in Nat : AtHand(e)

\* A piece is what its unit has in its tile.
InPlace(pr, x) ==
    /\ x.unit \in UnitsOf(pr) /\ x.wg = x.unit % get_grid_shape(pr) /\ x.step \in Nat
    /\ x.tile \in 0 .. OutputTiles(pr) - 1
    /\ x.from \in Nat /\ x.count \in Nat \ {0} /\ x.from + x.count <= pr.T
    /\ Lo(pr, x.unit) <= Begins(pr, x) /\ Ends(pr, x) <= Hi(pr, x.unit)
    /\ x.from = 0 \/ Begins(pr, x) = Lo(pr, x.unit)
    /\ x.from + x.count = pr.T \/ Ends(pr, x) = Hi(pr, x.unit)
    /\ x.fixup => x.count # pr.T
    /\ x.unit = x.wg /\ Ends(pr, x) = Hi(pr, x.unit) => x.step = 0

PiecesInv ==
    /\ \A x \in pieces : InPlace(subject, x) /\ Walked(x.unit, Begins(subject, x))
    /\ \A x, y \in pieces :
         x.unit = y.unit => \/ x = y
                            \/ Ends(subject, x) <= Begins(subject, y)
                            \/ Ends(subject, y) <= Begins(subject, x)

\* Nothing met was skipped.
WalkedInv ==
    \A u \in UnitsOf(subject) :
        \A y \in Lo(subject, u) .. Hi(subject, u) - 1 :
            Walked(u, y) =>
                \E x \in pieces :
                    x.unit = u /\ Begins(subject, x) <= y /\ y < Ends(subject, x)

Inv == WalkInv /\ WorkInv /\ PiecesInv /\ WalkedInv

\* The piece of unit u that ends at e, as the walk records it.
Recorded(pr, u, e, st) ==
    [ wg |-> u % get_grid_shape(pr), step |-> st, unit |-> u,
      tile |-> TileBelow(pr, e), from |-> From(pr, u, e) - TileBelow(pr, e) * pr.T,
      count |-> e - From(pr, u, e),
      fixup |-> requires_fixup(initialize(pr), Piece(pr, u, e)),
      final |-> compute_epilogue(initialize(pr), Piece(pr, u, e)) ]

LEMMA RecordedIs ==
    ASSUME NEW pr \in Problems, can_implement(pr), NEW u \in UnitsOf(pr), NEW e \in Nat,
           CutsAt(pr, u, e), NEW st \in Nat,
           st # 0 => u # u % get_grid_shape(pr) \/ e # Hi(pr, u)
    PROVE  LET x == Recorded(pr, u, e, st)
           IN  InPlace(pr, x) /\ Begins(pr, x) = From(pr, u, e) /\ Ends(pr, x) = e
  <1> DEFINE x == Recorded(pr, u, e, st)
             p == initialize(pr)
             t == TileBelow(pr, e)
             f == From(pr, u, e)
             T == pr.T
             b == t * T
  <1>1. PartitionLine(pr) /\ u \in 0 .. NumUnits(pr) - 1 /\ Lo(pr, u) < e /\ e <= Hi(pr, u)
    BY Units DEF UnitsOf, CutsAt
  <1>2. Lo(pr, u) \in Nat /\ Hi(pr, u) \in Nat /\ T \in Nat \ {0}
    BY <1>1, ProblemTypes DEF PartitionLine
  <1>3. /\ t \in 0 .. OutputTiles(pr) - 1 /\ b \in Nat /\ Piece(pr, u, e).k_tile_count = e - f
        /\ f \in Nat /\ b <= f /\ Lo(pr, u) <= f /\ f < e /\ e <= b + T
        /\ f = b \/ f = Lo(pr, u)
    BY <1>1, PieceIs
  <1>4. /\ x.wg = u % get_grid_shape(pr) /\ x.step = st /\ x.unit = u /\ x.tile = t
        /\ x.from = f - b /\ x.count = e - f
        /\ x.fixup = requires_fixup(p, Piece(pr, u, e))
    BY DEF Recorded
  <1>5. e = Hi(pr, u) \/ e = b + T
    <2> SUFFICES ASSUME NEW k \in Nat, e = k * T PROVE e = b + T
      BY DEF CutsAt
    <2>1. e \in Nat \ {0} /\ k * T \in Nat
      BY <1>1, <1>2
    <2>2. t \in Nat /\ b < e /\ (t + 1) * T = b + T
      BY <2>1, TileBelowBounds
    <2> HIDE DEF b, T, t
    <2>3. t < k
      <3>1. t * T < k * T
        BY <2>2 DEF b
      <3> QED BY <1>2, <2>2, <3>1, TimesCancels
    <2>4. (t + 1) * T <= k * T
      BY <1>2, <2>2, <2>3, TimesMonotone
    <2> QED BY <1>2, <1>3, <2>1, <2>2, <2>4
  <1>6. x.fixup => x.count # T
    <2>1. p.tiles_per_output_tile = T
      BY ParamsAre, BasicFields, StreamFields
    <2> HIDE DEF p, T, f
    <2> QED BY <1>3, <1>4, <2>1 DEF requires_fixup
  <1> HIDE DEF x, p, t, f, b, T
  <1>7. Begins(pr, x) = f /\ Ends(pr, x) = e
    <2>1. Begins(pr, x) = b + (f - b)
      BY <1>4 DEF Begins, b, T
    <2>2. Begins(pr, x) = f
      BY <1>3, <2>1
    <2>3. Ends(pr, x) = f + (e - f)
      BY <1>4, <2>2 DEF Ends
    <2> QED BY <1>3, <2>2, <2>3
  <1>8. /\ x.from \in Nat /\ x.count \in Nat \ {0} /\ x.from + x.count <= T
        /\ x.from = 0 \/ f = Lo(pr, u)
        /\ x.from + x.count = T \/ e = Hi(pr, u)
    BY <1>2, <1>3, <1>4, <1>5
  <1>9. InPlace(pr, x)
    <2>1. x.unit \in UnitsOf(pr) /\ x.wg = x.unit % get_grid_shape(pr) /\ x.step \in Nat
          /\ x.tile \in 0 .. OutputTiles(pr) - 1
      BY <1>3, <1>4
    <2>2. /\ Lo(pr, x.unit) <= Begins(pr, x) /\ Ends(pr, x) <= Hi(pr, x.unit)
          /\ x.from = 0 \/ Begins(pr, x) = Lo(pr, x.unit)
          /\ x.from + x.count = T \/ Ends(pr, x) = Hi(pr, x.unit)
      BY <1>1, <1>3, <1>4, <1>7, <1>8
    <2>3. x.unit = x.wg /\ Ends(pr, x) = Hi(pr, x.unit) => x.step = 0
      BY <1>4, <1>7
    <2> QED BY <1>6, <1>8, <2>1, <2>2, <2>3 DEF InPlace, T
  <1> QED BY <1>7, <1>9 DEF x, f

\* The work at the start of a unit.
LEMMA FreshWork ==
    ASSUME NEW pr \in Problems, can_implement(pr), NEW u \in Nat, NEW w,
           w = get_current_work(initialize(pr), u)
    PROVE  /\ ~is_valid(w) => NumUnits(pr) <= u
           /\ is_valid(w) =>
                /\ u \in UnitsOf(pr) /\ Hi(pr, u) \in Nat /\ CutsAt(pr, u, Hi(pr, u))
                /\ w = Piece(pr, u, Hi(pr, u))
                /\ Lo(pr, u) + w.k_tile_remaining = Hi(pr, u)
  <1>1. PartitionLine(pr) /\ NumUnits(pr) \in Nat
    BY Units DEF PartitionLine
  <1>2. CASE u < NumUnits(pr)
    <2>1. u \in UnitsOf(pr)
      BY <1>1, <1>2 DEF UnitsOf
    <2>2. w = Piece(pr, u, Hi(pr, u))
      BY <1>2, FirstPiece
    <2>3. Lo(pr, u) \in Nat /\ Hi(pr, u) \in Nat /\ Lo(pr, u) < Hi(pr, u)
      BY <1>1, <2>1 DEF PartitionLine, UnitsOf
    <2>4. CutsAt(pr, u, Hi(pr, u))
      BY <2>3 DEF CutsAt
    <2>5. is_valid(w) /\ w.k_tile_remaining = Hi(pr, u) - Lo(pr, u)
      <3>1. Hi(pr, u) <= Hi(pr, u) /\ u \in 0 .. NumUnits(pr) - 1
        BY <2>1, <2>3 DEF UnitsOf
      <3> QED BY <1>1, <2>2, <2>3, <3>1, PieceIs
    <2> QED BY <2>1, <2>2, <2>3, <2>4, <2>5
  <1>3. CASE ~(u < NumUnits(pr))
    <2>1. w = invalid_work_tile
      BY <1>3, FirstPiece
    <2>2. ~is_valid(w)
      BY <2>1 DEF is_valid, invalid_work_tile
    <2> QED BY <1>1, <1>3, <2>2
  <1> QED BY <1>2, <1>3

LEMMA InitInv == WalkInit => Inv
  <1> SUFFICES ASSUME WalkInit PROVE Inv
    OBVIOUS
  <1>1. PICK pr \in Problems : pr = subject
    BY DEF WalkInit
  <1>2. /\ can_implement(pr) /\ wg = 0 /\ linear_idx = 0 /\ step = 0 /\ pieces = {}
        /\ tile_info = get_current_work(initialize(pr), 0) /\ Grid = get_grid_shape(pr)
    BY <1>1 DEF WalkInit, Params, Grid
  <1>3. Grid \in Nat \ {0} /\ 0 % Grid = 0
    <2>1. Grid \in Nat \ {0}
      BY <1>2, ProblemTypes
    <2> QED BY <2>1, ModOfSmall
  <1>4. /\ ~is_valid(tile_info) => NumUnits(pr) <= 0
        /\ is_valid(tile_info) =>
             /\ 0 \in UnitsOf(pr) /\ Hi(pr, 0) \in Nat /\ CutsAt(pr, 0, Hi(pr, 0))
             /\ tile_info = Piece(pr, 0, Hi(pr, 0))
             /\ Lo(pr, 0) + tile_info.k_tile_remaining = Hi(pr, 0)
    BY <1>2, FreshWork
  <1>5. WalkInv
    BY <1>1, <1>2, <1>3, <1>4 DEF WalkInv
  <1>6. WorkInv
    BY <1>1, <1>2, <1>4 DEF WorkInv, AtHand
  <1>7. PiecesInv
    BY <1>2 DEF PiecesInv
  <1>8. WalkedInv
    <2> SUFFICES ASSUME NEW u \in UnitsOf(pr), NEW y \in Lo(pr, u) .. Hi(pr, u) - 1, Walked(u, y)
                 PROVE  FALSE
      BY <1>1 DEF WalkedInv
    <2>1. u \in Nat /\ u % Grid \in Nat
      <3>1. u \in Nat
        BY DEF UnitsOf
      <3> QED BY <1>3, <3>1, Quotient
    <2>2. u = 0 /\ is_valid(tile_info) /\ Left <= y
      BY <1>2, <2>1 DEF Walked
    <2>3. Left = Hi(pr, 0) /\ Hi(pr, 0) \in Nat /\ Lo(pr, 0) \in Nat
      BY <1>1, <1>2, <1>4, <2>2, Units DEF Left, PartitionLine, UnitsOf
    <2> QED BY <2>2, <2>3
  <1> QED BY <1>5, <1>6, <1>7, <1>8 DEF Inv

LEMMA NextWorkGroupInv == Inv /\ NextWorkGroup => Inv'
  <1> SUFFICES ASSUME Inv, NextWorkGroup PROVE Inv'
    OBVIOUS
  <1>1. PICK pr \in Problems : pr = subject
    BY DEF Inv, WalkInv
  <1>2. PICK g \in Nat \ {0} : g = get_grid_shape(pr)
    BY ProblemTypes
  <1>3. PICK k \in Nat : k = wg + 1
    BY <1>1, <1>2 DEF Inv, WalkInv, Grid
  <1>4. /\ subject = pr /\ subject' = pr /\ can_implement(pr) /\ Grid = g /\ Grid' = g
        /\ wg \in 0 .. g - 1 /\ wg + 1 = k /\ wg' = k /\ linear_idx' = k /\ step' = 0 /\ k < g
        /\ pieces' = pieces /\ tile_info' = get_current_work(initialize(pr), k)
        /\ linear_idx \in Nat /\ NumUnits(pr) <= linear_idx /\ ~is_valid(tile_info)
    BY <1>1, <1>2, <1>3 DEF Inv, WalkInv, NextWorkGroup, Grid, Params
  <1>5. /\ ~is_valid(tile_info') => NumUnits(pr) <= k
        /\ is_valid(tile_info') =>
             /\ k \in UnitsOf(pr) /\ Hi(pr, k) \in Nat /\ CutsAt(pr, k, Hi(pr, k))
             /\ tile_info' = Piece(pr, k, Hi(pr, k))
             /\ Lo(pr, k) + tile_info'.k_tile_remaining = Hi(pr, k)
    <2>1. PICK w : w = tile_info'
      OBVIOUS
    <2>2. w = get_current_work(initialize(pr), k)
      BY <1>4, <2>1
    <2>3. /\ ~is_valid(w) => NumUnits(pr) <= k
          /\ is_valid(w) =>
               /\ k \in UnitsOf(pr) /\ Hi(pr, k) \in Nat /\ CutsAt(pr, k, Hi(pr, k))
               /\ w = Piece(pr, k, Hi(pr, k))
               /\ Lo(pr, k) + w.k_tile_remaining = Hi(pr, k)
      BY <1>4, <2>2, FreshWork
    <2> QED BY <2>1, <2>3
  <1>6. k % g = k
    BY <1>4, ModOfSmall
  \* What the finished work-group met are all the units of its residue.
  <1>7. ASSUME NEW u \in UnitsOf(pr), NEW y PROVE Walked(u, y) => Walked(u, y)'
    <2>1. u \in Nat /\ u < linear_idx /\ u % g \in Nat
      <3>1. u \in Nat /\ u < linear_idx
        BY <1>4, Units DEF UnitsOf, PartitionLine
      <3> QED BY <3>1, Quotient
    <2>2. CASE u % g < wg
      BY <1>4, <2>1, <2>2 DEF Walked
    <2>3. CASE u % g = wg
      BY <1>4, <2>1, <2>3 DEF Walked
    <2> QED BY <1>4, <2>1, <2>2, <2>3 DEF Walked
  <1>8. ASSUME NEW u \in UnitsOf(pr), NEW y \in Lo(pr, u) .. Hi(pr, u) - 1, Walked(u, y)'
        PROVE  Walked(u, y)
    <2>1. u \in Nat /\ u < linear_idx /\ u % g \in Nat /\ u % g <= u
      <3>1. u \in Nat /\ u < linear_idx
        BY <1>4, Units DEF UnitsOf, PartitionLine
      <3> QED BY <3>1, Quotient, ModOfSmall
    <2>2. CASE u % g < k
      BY <1>4, <2>1, <2>2 DEF Walked
    <2>3. CASE u % g = k /\ u < k
      BY <2>1, <2>3
    <2>4. CASE u = k /\ is_valid(tile_info') /\ Left' <= y
      <3>1. Left' = Hi(pr, k) /\ Hi(pr, k) \in Nat /\ Lo(pr, k) \in Nat
        BY <1>4, <1>5, <2>4, Units DEF Left, PartitionLine, UnitsOf
      <3> QED BY <2>4, <3>1
    <2> QED BY <1>4, <1>8, <2>2, <2>3, <2>4 DEF Walked
  <1>9. WalkInv'
    BY <1>4, <1>5, <1>6 DEF WalkInv
  <1>10. WorkInv'
    BY <1>4, <1>5 DEF WorkInv, AtHand
  <1>11. PiecesInv'
    <2>1. \A x \in pieces : InPlace(pr, x) /\ Walked(x.unit, Begins(pr, x))
      BY <1>4 DEF Inv, PiecesInv
    <2>2. \A x \in pieces : Walked(x.unit, Begins(pr, x))'
      BY <1>7, <2>1 DEF InPlace
    <2> QED BY <1>4, <2>1, <2>2 DEF Inv, PiecesInv
  <1>12. WalkedInv'
    <2> SUFFICES ASSUME NEW u \in UnitsOf(pr), NEW y \in Lo(pr, u) .. Hi(pr, u) - 1, Walked(u, y)'
                 PROVE  \E x \in pieces : x.unit = u /\ Begins(pr, x) <= y /\ y < Ends(pr, x)
      BY <1>4 DEF WalkedInv
    <2>1. Walked(u, y)
      BY <1>8
    <2> QED BY <1>4, <2>1 DEF Inv, WalkedInv
  <1> QED BY <1>9, <1>10, <1>11, <1>12 DEF Inv

LEMMA PieceTypes ==
    ASSUME NEW pr \in Problems, NEW x, InPlace(pr, x)
    PROVE  /\ x.tile \in Nat /\ x.tile * pr.T \in Nat
           /\ Begins(pr, x) \in Nat /\ Ends(pr, x) \in Nat /\ Begins(pr, x) < Ends(pr, x)
  <1>1. x.tile \in Nat /\ x.from \in Nat /\ x.count \in Nat \ {0} /\ pr.T \in Nat \ {0}
    BY ProblemTypes DEF InPlace
  <1>2. x.tile * pr.T \in Nat
    BY <1>1, TimesTypes
  <1> DEFINE b == x.tile * pr.T
  <1>3. Begins(pr, x) = b + x.from /\ Ends(pr, x) = (b + x.from) + x.count
    BY DEF Begins, Ends
  <1> HIDE DEF b
  <1> QED BY <1>1, <1>2, <1>3 DEF b

LEMMA ComputeInv == Inv /\ Compute => Inv'
  <1> SUFFICES ASSUME Inv, Compute PROVE Inv'
    OBVIOUS
  <1>1. PICK pr \in Problems : pr = subject
    BY DEF Inv, WalkInv
  <1>2. PICK g \in Nat \ {0} : g = get_grid_shape(pr)
    BY ProblemTypes
  <1>3. PICK v \in Nat : v = linear_idx
    BY DEF Inv, WalkInv
  <1>4. PICK e \in Nat : AtHand(e)
    BY DEF Inv, WorkInv, Compute
  <1>5. PICK x : x = Recorded(pr, v, e, step)
    OBVIOUS
  <1>6. PICK f : f = From(pr, v, e)
    OBVIOUS
  <1>7. /\ subject = pr /\ subject' = pr /\ can_implement(pr) /\ Grid = g /\ Grid' = g
        /\ wg \in 0 .. g - 1 /\ wg' = wg /\ step \in Nat /\ step' = step + 1
        /\ v \in UnitsOf(pr) /\ v % g = wg /\ wg <= v /\ is_valid(tile_info)
        /\ CutsAt(pr, v, e) /\ tile_info = Piece(pr, v, e)
        /\ step # 0 => v # wg \/ e # Hi(pr, v)
    BY <1>1, <1>2, <1>3, <1>4 DEF Inv, WalkInv, WorkInv, AtHand, Compute, Grid
  <1>8. /\ PartitionLine(pr) /\ v \in 0 .. NumUnits(pr) - 1
        /\ Lo(pr, v) \in Nat /\ Hi(pr, v) \in Nat /\ Lo(pr, v) < e /\ e <= Hi(pr, v)
    BY <1>7, Units DEF PartitionLine, UnitsOf, CutsAt
  <1>9. /\ output_tile_index(initialize(pr), tile_info) = TileBelow(pr, e)
        /\ tile_info.K_idx = f - TileBelow(pr, e) * pr.T /\ tile_info.k_tile_count = e - f
        /\ tile_info.k_tile_remaining = e - Lo(pr, v)
        /\ f \in Nat /\ Lo(pr, v) <= f /\ f < e
        /\ TileBelow(pr, e) \in Nat /\ (f = TileBelow(pr, e) * pr.T \/ f = Lo(pr, v))
    BY <1>6, <1>7, <1>8, PieceIs
  <1>10. pieces' = pieces \cup {x}
    <2>1. Params = initialize(pr)
      BY <1>7 DEF Params
    <2> QED BY <1>2, <1>3, <1>5, <1>6, <1>7, <1>9, <2>1 DEF Compute, Recorded
  <1>11. InPlace(pr, x) /\ Begins(pr, x) = f /\ Ends(pr, x) = e /\ x.unit = v
    <2>1. PICK st \in Nat : st = step
      BY <1>7
    <2>2. st # 0 => v # v % get_grid_shape(pr) \/ e # Hi(pr, v)
      BY <1>2, <1>7, <2>1
    <2>3. LET y == Recorded(pr, v, e, st)
          IN  InPlace(pr, y) /\ Begins(pr, y) = From(pr, v, e) /\ Ends(pr, y) = e
      BY <1>7, <2>2, RecordedIs
    <2> QED BY <1>5, <1>6, <2>1, <2>3 DEF Recorded
  <1>12. Left = e
    BY <1>3, <1>7, <1>8, <1>9 DEF Left
  <1>13. <<linear_idx', tile_info'>> = IF f = Lo(pr, v) THEN <<v + g, get_current_work(initialize(pr), v + g)>>
                           ELSE <<v, Piece(pr, v, f)>>
    <2>1. fetch_next_work(initialize(pr), g, v, Piece(pr, v, e))
            = IF f = Lo(pr, v) THEN <<v + g, get_current_work(initialize(pr), v + g)>>
              ELSE <<v, Piece(pr, v, f)>>
      BY <1>6, <1>7, <1>8, Fetch
    <2>2. /\ linear_idx' = fetch_next_work(initialize(pr), g, v, Piece(pr, v, e))[1]
          /\ tile_info' = fetch_next_work(initialize(pr), g, v, Piece(pr, v, e))[2]
      BY <1>3, <1>7 DEF Compute, Params
    <2> QED BY <2>1, <2>2
  \* The walk goes on, either in this unit or in the next of this residue.
  <1>14. /\ WalkInv' /\ WorkInv'
         /\ \A u \in UnitsOf(pr), y \in Nat : Walked(u, y) => Walked(u, y)'
         /\ Walked(v, f)'
         /\ \A u \in UnitsOf(pr) : \A y \in Lo(pr, u) .. Hi(pr, u) - 1 :
               Walked(u, y)' => Walked(u, y) \/ (u = v /\ f <= y /\ y < e)
    <2>1. CASE f # Lo(pr, v)
      <3>1. linear_idx' = v /\ tile_info' = Piece(pr, v, f)
        BY <1>13, <2>1
      <3>2. Lo(pr, v) < f /\ f <= Hi(pr, v) /\ f # Hi(pr, v)
        BY <1>8, <1>9, <2>1
      <3>3. CutsAt(pr, v, f)
        BY <1>9, <2>1, <3>2 DEF CutsAt
      <3>4. is_valid(tile_info') /\ tile_info'.k_tile_remaining = f - Lo(pr, v)
        BY <1>7, <1>8, <1>9, <3>1, <3>2, PieceIs
      <3>5. Left' = f
        BY <1>7, <1>8, <1>9, <3>1, <3>4 DEF Left
      <3>6. WalkInv'
        BY <1>3, <1>7, <3>1, <3>4 DEF WalkInv
      <3>7. WorkInv'
        BY <1>7, <1>9, <3>1, <3>2, <3>3 DEF WorkInv, AtHand
      <3>8. ASSUME NEW u, NEW y
            PROVE  Walked(u, y)' <=> \/ u % g < wg
                                     \/ u % g = wg /\ u < v
                                     \/ u = v /\ f <= y
        <4>1. Grid' = g /\ wg' = wg /\ linear_idx' = v /\ is_valid(tile_info') /\ Left' = f
          BY <1>7, <3>1, <3>4, <3>5
        <4> QED BY <4>1, Zenon DEF Walked
      <3>9. ASSUME NEW u, NEW y
            PROVE  Walked(u, y) <=> \/ u % g < wg
                                    \/ u % g = wg /\ u < v
                                    \/ u = v /\ e <= y
        <4>1. Grid = g /\ linear_idx = v /\ is_valid(tile_info) /\ Left = e
          BY <1>3, <1>7, <1>12
        <4> QED BY <4>1, Zenon DEF Walked
      <3>10. ASSUME NEW u \in UnitsOf(pr), NEW y \in Nat, Walked(u, y) PROVE Walked(u, y)'
        <4>1. CASE u = v /\ e <= y
          <5>1. f <= y
            BY <1>9, <4>1
          <5> QED BY <3>8, <4>1, <5>1
        <4> QED BY <3>8, <3>9, <3>10, <4>1
      <3>11. Walked(v, f)'
        BY <1>9, <3>8
      <3>12. ASSUME NEW u \in UnitsOf(pr), NEW y \in Lo(pr, u) .. Hi(pr, u) - 1, Walked(u, y)'
             PROVE  Walked(u, y) \/ (u = v /\ f <= y /\ y < e)
        <4>1. CASE u = v /\ f <= y
          <5>1. e <= y \/ y < e
            BY <1>8, <4>1
          <5> QED BY <3>9, <4>1, <5>1
        <4> QED BY <3>8, <3>9, <3>12, <4>1
      <3> QED BY <3>6, <3>7, <3>10, <3>11, <3>12
    <2>2. CASE f = Lo(pr, v)
      <3>1. PICK k \in Nat : k = v + g
        OBVIOUS
      <3>2. PICK w : w = get_current_work(initialize(pr), k)
        OBVIOUS
      <3>3. linear_idx' = k /\ tile_info' = w
        BY <1>13, <2>2, <3>1, <3>2
      <3>4. /\ ~is_valid(w) => NumUnits(pr) <= k
            /\ is_valid(w) =>
                 /\ k \in UnitsOf(pr) /\ Hi(pr, k) \in Nat /\ CutsAt(pr, k, Hi(pr, k))
                 /\ w = Piece(pr, k, Hi(pr, k))
                 /\ Lo(pr, k) + w.k_tile_remaining = Hi(pr, k)
        BY <1>7, <3>2, FreshWork
      <3>5. k % g = wg /\ wg < k /\ v < k
            /\ \A b \in Nat : v <= b /\ b < k /\ b % g = wg => b = v
        <4>1. (v + g) % g = v % g
              /\ \A b \in Nat : v <= b /\ b < v + g /\ b % g = v % g => b = v
          BY ModStep
        <4>2. v % g = wg /\ k = v + g /\ wg < k /\ v < k
          BY <1>7, <3>1
        <4> QED BY <4>1, <4>2, Zenon
      <3>6. WalkInv'
        BY <1>7, <3>3, <3>4, <3>5 DEF WalkInv
      <3>7. WorkInv'
        BY <1>7, <3>3, <3>4, <3>5 DEF WorkInv, AtHand
      <3>8. ASSUME NEW u, NEW y
            PROVE  Walked(u, y)' <=> \/ u % g < wg
                                     \/ u % g = wg /\ u < k
                                     \/ u = k /\ is_valid(w) /\ Left' <= y
        <4>1. Grid' = g /\ wg' = wg /\ linear_idx' = k /\ tile_info' = w
          BY <1>7, <3>3
        <4> QED BY <4>1, Zenon DEF Walked
      <3>9. ASSUME NEW u, NEW y
            PROVE  Walked(u, y) <=> \/ u % g < wg
                                    \/ u % g = wg /\ u < v
                                    \/ u = v /\ e <= y
        <4>1. Grid = g /\ linear_idx = v /\ is_valid(tile_info) /\ Left = e
          BY <1>3, <1>7, <1>12
        <4> QED BY <4>1, Zenon DEF Walked
      <3>10. ASSUME NEW u \in UnitsOf(pr), NEW y \in Nat, Walked(u, y) PROVE Walked(u, y)'
        <4>1. u \in Nat
          BY DEF UnitsOf
        <4>2. u < v => u < k
          BY <3>5, <4>1
        <4> QED BY <1>7, <3>5, <3>8, <3>9, <3>10, <4>2
      <3>11. Walked(v, f)'
        BY <1>7, <3>5, <3>8
      <3>12. ASSUME NEW u \in UnitsOf(pr), NEW y \in Lo(pr, u) .. Hi(pr, u) - 1, Walked(u, y)'
             PROVE  Walked(u, y) \/ (u = v /\ f <= y /\ y < e)
        <4>1. u \in Nat
          BY DEF UnitsOf
        <4>2. CASE u % g < wg
          BY <3>9, <4>2, Zenon
        <4>3. CASE u % g = wg /\ u < v
          BY <3>9, <4>3, Zenon
        <4>4. CASE u % g = wg /\ u < k /\ ~(u < v)
          <5>1. u = v
            BY <3>5, <4>1, <4>4
          <5>2. f <= y /\ (e <= y \/ y < e)
            BY <1>8, <2>2, <5>1
          <5> QED BY <3>9, <5>1, <5>2
        <4>5. CASE u = k /\ is_valid(w) /\ Left' <= y
          <5>1. Left' = Hi(pr, k) /\ Hi(pr, k) \in Nat /\ Lo(pr, k) \in Nat
            BY <1>7, <1>8, <3>3, <3>4, <4>5 DEF Left, PartitionLine, UnitsOf
          <5> QED BY <4>5, <5>1
        <4> QED BY <3>8, <3>12, <4>2, <4>3, <4>4, <4>5
      <3> QED BY <3>6, <3>7, <3>10, <3>11, <3>12
    <2> QED BY <2>1, <2>2
  <1>15. \A y \in pieces : InPlace(pr, y) /\ Walked(y.unit, Begins(pr, y)) /\ y.unit \in UnitsOf(pr)
    BY <1>7 DEF Inv, PiecesInv, InPlace
  \* What the unit has left ends where its earlier pieces begin.
  <1>16. ASSUME NEW y \in pieces, y.unit = v PROVE e <= Begins(pr, y)
    <2>1. Walked(v, Begins(pr, y))
      BY <1>15, <1>16
    <2> QED BY <1>3, <1>7, <1>12, <2>1 DEF Walked
  <1>17. PiecesInv'
    <2>1. \A y \in pieces \cup {x} : InPlace(pr, y) /\ Walked(y.unit, Begins(pr, y))'
      <3>1. Walked(x.unit, Begins(pr, x))'
        BY <1>11, <1>14
      <3>2. \A y \in pieces : Begins(pr, y) \in Nat
        BY <1>15, PieceTypes
      <3> QED BY <1>11, <1>14, <1>15, <3>1, <3>2
    <2>2. ASSUME NEW y \in pieces \cup {x}, NEW z \in pieces \cup {x}, y.unit = z.unit
          PROVE  y = z \/ Ends(pr, y) <= Begins(pr, z) \/ Ends(pr, z) <= Begins(pr, y)
      <3>1. CASE y \in pieces /\ z \in pieces
        BY <1>7, <2>2, <3>1 DEF Inv, PiecesInv
      <3>2. CASE y = x /\ z \in pieces
        BY <1>11, <1>16, <2>2, <3>2
      <3>3. CASE z = x /\ y \in pieces
        BY <1>11, <1>16, <2>2, <3>3
      <3> QED BY <3>1, <3>2, <3>3
    <2> QED BY <1>7, <1>10, <2>1, <2>2 DEF PiecesInv
  <1>18. WalkedInv'
    <2> SUFFICES ASSUME NEW u \in UnitsOf(pr), NEW y \in Lo(pr, u) .. Hi(pr, u) - 1, Walked(u, y)'
                 PROVE  \E z \in pieces \cup {x} :
                           z.unit = u /\ Begins(pr, z) <= y /\ y < Ends(pr, z)
      BY <1>7, <1>10 DEF WalkedInv
    <2>1. CASE Walked(u, y)
      BY <1>7, <2>1 DEF Inv, WalkedInv
    <2>2. CASE u = v /\ f <= y /\ y < e
      BY <1>11, <2>2
    <2> QED BY <1>14, <2>1, <2>2
  <1> QED BY <1>14, <1>17, <1>18 DEF Inv

LEMMA Invariant == WalkSpec => []Inv
  <1>1. Inv /\ [WalkNext]_walk => Inv'
    <2> SUFFICES ASSUME Inv, [WalkNext]_walk PROVE Inv'
      OBVIOUS
    <2>1. CASE Compute
      BY <2>1, ComputeInv
    <2>2. CASE NextWorkGroup
      BY <2>2, NextWorkGroupInv
    <2>3. CASE UNCHANGED walk
      BY <2>3 DEF walk, Inv, WalkInv, WorkInv, AtHand, PiecesInv, WalkedInv, Walked, Left, Grid
    <2> QED BY <2>1, <2>2, <2>3 DEF WalkNext
  <1> QED BY InitInv, <1>1, PTL DEF WalkSpec

-----------------------------------------------------------------------------
(* What the pieces are good for.                                           *)

\* No position of the line is in two pieces.
LEMMA SamePosition ==
    ASSUME Inv, NEW x \in pieces, NEW y \in pieces, NEW p \in Nat,
           Begins(subject, x) <= p, p < Ends(subject, x),
           Begins(subject, y) <= p, p < Ends(subject, y)
    PROVE  x = y
  <1>1. PICK pr \in Problems : pr = subject
    BY DEF Inv, WalkInv
  <1>2. can_implement(pr) /\ InPlace(pr, x) /\ InPlace(pr, y)
    BY <1>1 DEF Inv, WalkInv, PiecesInv
  <1>3. PartitionLine(pr) /\ x.unit \in 0 .. NumUnits(pr) - 1 /\ y.unit \in 0 .. NumUnits(pr) - 1
    BY <1>2, Units DEF InPlace, UnitsOf
  <1>4. /\ Lo(pr, x.unit) \in Nat /\ Hi(pr, x.unit) \in Nat
        /\ Lo(pr, y.unit) \in Nat /\ Hi(pr, y.unit) \in Nat
        /\ Begins(pr, x) \in Nat /\ Ends(pr, x) \in Nat
        /\ Begins(pr, y) \in Nat /\ Ends(pr, y) \in Nat
    BY <1>2, <1>3, PieceTypes DEF PartitionLine
  <1>5. /\ Lo(pr, x.unit) <= p /\ p < Hi(pr, x.unit)
        /\ Lo(pr, y.unit) <= p /\ p < Hi(pr, y.unit)
    BY <1>1, <1>2, <1>4 DEF InPlace
  <1>6. x.unit = y.unit
    BY <1>3, <1>4, <1>5 DEF PartitionLine
  <1>7. x = y \/ Ends(pr, x) <= Begins(pr, y) \/ Ends(pr, y) <= Begins(pr, x)
    BY <1>1, <1>6 DEF Inv, PiecesInv
  <1> QED BY <1>1, <1>4, <1>7

\* A k tile of an output tile is a position of the line.
LEMMA TilePosition ==
    ASSUME NEW pr \in Problems, NEW x, InPlace(pr, x), NEW t \in Nat, NEW k \in 0 .. pr.T - 1
    PROVE  x.tile = t /\ k \in x.from .. (x.from + x.count) - 1
             <=> Begins(pr, x) <= t * pr.T + k /\ t * pr.T + k < Ends(pr, x)
  <1> DEFINE T == pr.T
             b == x.tile * T
             c == t * T
  <1>1. /\ x.tile \in Nat /\ x.from \in Nat /\ x.count \in Nat \ {0} /\ x.from + x.count <= T
        /\ T \in Nat \ {0} /\ b \in Nat /\ c \in Nat
    BY ProblemTypes, PieceTypes, TimesTypes DEF InPlace
  <1>2. Begins(pr, x) = b + x.from /\ Ends(pr, x) = (b + x.from) + x.count
    BY DEF Begins, Ends
  <1>3. x.tile = t => b = c
    OBVIOUS
  <1>4. ASSUME b + x.from <= c + k, c + k < (b + x.from) + x.count
        PROVE  x.tile = t
    <2> HIDE DEF b, c, T
    <2>1. PICK r \in 0 .. T - 1 : b + r = c + k
      <3>1. (c + k) - b \in 0 .. T - 1 /\ b + ((c + k) - b) = c + k
        BY <1>1, <1>4
      <3> QED BY <3>1
    <2>2. x.tile * T + r = t * T + k /\ k \in 0 .. T - 1
      BY <2>1 DEF b, c, T
    <2> QED BY <1>1, <2>1, <2>2, QuotientUnique
  <1> HIDE DEF b, c
  <1>5. x.tile = t /\ k \in x.from .. (x.from + x.count) - 1
          <=> b + x.from <= c + k /\ c + k < (b + x.from) + x.count
    BY <1>1, <1>3, <1>4
  <1> QED BY <1>2, <1>5 DEF c

LEMMA StreamPiece ==
    ASSUME NEW pr \in Problems, NEW sk \in Nat, NEW n \in Nat, IsStream(pr, sk, n),
           NEW x, InPlace(pr, x)
    PROVE  /\ x.fixup => x.tile < sk /\ x.count >= min_iters_per_sk_unit
           /\ x.from = 0 \/ x.from + x.count = pr.T
           /\ x.from + x.count < pr.T => x.unit < n /\ Ends(pr, x) = Hi(pr, x.unit)
  <1> DEFINE T == pr.T
             u == x.unit
             lo == Lo(pr, u)
             hi == Hi(pr, u)
             b == x.tile * T
             f == x.from
             c == x.count
  <1>1. /\ x.tile \in Nat /\ f \in Nat /\ c \in Nat \ {0} /\ f + c <= T
        /\ T \in Nat \ {0} /\ b \in Nat /\ sk * T \in Nat
    BY ProblemTypes, PieceTypes, TimesTypes DEF InPlace
  <1>2. /\ Begins(pr, x) = b + f /\ Ends(pr, x) = (b + f) + c
        /\ lo <= b + f /\ (b + f) + c <= hi
        /\ f = 0 \/ b + f = lo
        /\ f + c = T \/ (b + f) + c = hi
        /\ x.fixup => c # T
    BY DEF Begins, Ends, InPlace
  <1>3. u \in 0 .. NumUnits(pr) - 1 /\ u \in 0 .. NumUnits(pr) /\ u + 1 \in 0 .. NumUnits(pr)
        /\ u \in Nat
    BY StreamEdges DEF InPlace, UnitsOf
  <1>4. /\ hi = Lo(pr, u + 1) /\ lo \in Nat /\ hi \in Nat /\ lo + T <= hi
        /\ NoSliver(T, lo) /\ NoSliver(T, hi)
    BY <1>3, StreamEdges
  <1>5. /\ u >= n => lo = (sk + (u - n)) * T /\ hi = lo + T
        /\ u < n => hi <= sk * T
    BY <1>3, StreamEdges
  <1> HIDE DEF T, u, lo, hi, b, f, c
  <1>6. \A r \in 0 .. T - 1 : (b + r) % T = r
    BY <1>1, QuotientIs DEF b
  <1>7. f = 0 \/ f + c = T
    BY <1>1, <1>2, <1>4
  <1>8. CASE u < n
    <2>1. x.tile < sk
      <3>1. b < sk * T
        BY <1>1, <1>2, <1>4, <1>5, <1>8
      <3> QED BY <1>1, <3>1, TimesCancels DEF b
    <2>2. ASSUME c # T PROVE c >= min_iters_per_sk_unit
      <3>1. CASE f = 0
        <4>1. c \in 0 .. T - 1 /\ hi = b + c /\ c # 0
          BY <1>1, <1>2, <2>2, <3>1
        <4>2. hi % T = c
          BY <1>6, <4>1
        <4> QED BY <1>1, <1>4, <4>1, <4>2, MinItersAssumption DEF NoSliver
      <3>2. CASE f # 0
        <4>1. f \in 0 .. T - 1 /\ lo = b + f /\ f + c = T
          BY <1>1, <1>2, <1>7, <3>2
        <4>2. lo % T = f
          BY <1>6, <4>1
        <4>3. f <= T - min_iters_per_sk_unit
          BY <1>4, <3>2, <4>2 DEF NoSliver
        <4> QED BY <1>1, <4>1, <4>3, MinItersAssumption
      <3> QED BY <3>1, <3>2
    <2> QED BY <1>1, <1>2, <1>7, <1>8, <2>1, <2>2 DEF T, u, hi, f, c
  <1>9. CASE n <= u
    <2>1. PICK q \in Nat : q = sk + (u - n)
      BY <1>3, <1>9
    <2>2. lo = q * T /\ hi = q * T + T /\ q * T \in Nat
      BY <1>1, <1>3, <1>5, <1>9, <2>1, TimesTypes
    <2>3. PICK r \in 0 .. T - 1 : q * T + r = b + f
      <3>1. (b + f) - q * T \in 0 .. T - 1 /\ q * T + ((b + f) - q * T) = b + f
        <4>1. PICK d \in Nat : d = q * T
          BY <2>2
        <4>2. (b + f) - d \in 0 .. T - 1 /\ d + ((b + f) - d) = b + f
          BY <1>1, <1>2, <2>2, <4>1
        <4> QED BY <4>1, <4>2
      <3> QED BY <3>1
    <2>4. q = x.tile
      <3>1. f \in 0 .. T - 1 /\ q * T + r = x.tile * T + f /\ x.tile \in Nat /\ T \in Nat \ {0}
        BY <1>1, <2>3 DEF b
      <3> QED BY <3>1, QuotientUnique
    <2>5. lo = b /\ hi = b + T
      BY <2>2, <2>4 DEF b
    <2>6. f = 0 /\ c = T
      BY <1>1, <1>2, <2>5
    <2> QED BY <1>1, <1>2, <1>7, <2>6 DEF T, f, c
  <1>10. n \in Nat
    OBVIOUS
  <1> QED BY <1>3, <1>8, <1>9, <1>10

LEMMA BasicPiece ==
    ASSUME NEW pr \in Problems, NEW s \in Nat, IsBasic(pr, s), NEW x, InPlace(pr, x)
    PROVE  x.tile = x.unit % OutputTiles(pr) /\ (x.fixup => s > 1)
  <1> DEFINE T == pr.T
             u == x.unit
             tiles == OutputTiles(pr)
             t == u % tiles
             i == u \div tiles
             b == x.tile * T
             d == t * T
             f == x.from
             c == x.count
  <1>1. /\ x.tile \in Nat /\ f \in Nat /\ c \in Nat \ {0} /\ f + c <= T
        /\ T \in Nat \ {0} /\ b \in Nat /\ tiles \in Nat \ {0} /\ s \in 1 .. T
    BY ProblemTypes, PieceTypes DEF InPlace, IsBasic
  <1>2. /\ Lo(pr, u) <= b + f /\ (b + f) + c <= Hi(pr, u)
        /\ f = 0 \/ b + f = Lo(pr, u)
        /\ f + c = T \/ (b + f) + c = Hi(pr, u)
        /\ x.fixup => c # T
    BY DEF Begins, Ends, InPlace
  <1>3. u \in 0 .. NumUnits(pr) - 1
    BY DEF InPlace, UnitsOf
  <1>4. t \in 0 .. tiles - 1 /\ i \in 0 .. s - 1
        /\ Lo(pr, u) = d + Cut(T, s, i) /\ Hi(pr, u) = d + Cut(T, s, i + 1)
    BY <1>3, BasicUnits
  <1>5. Cut(T, s, i) \in Nat /\ Cut(T, s, i + 1) \in Nat /\ Cut(T, s, i + 1) <= T
    BY <1>4, BasicUnits
  <1> HIDE DEF T, u, tiles, t, i, b, f, c
  <1>6. Cut(T, s, 0) = 0 /\ Cut(T, s, s) = T
    <2>1. T \in Nat /\ s \in Nat \ {0}
      BY <1>1
    <2> QED BY <2>1, CutIs
  <1>7. d \in Nat
    BY <1>1, <1>4, TimesTypes
  <1> HIDE DEF d
  <1>8. PICK r \in 0 .. T - 1 : d + r = b + f
    <2>1. (b + f) - d \in 0 .. T - 1 /\ d + ((b + f) - d) = b + f
      BY <1>1, <1>2, <1>4, <1>5, <1>7
    <2> QED BY <2>1
  <1>9. t = x.tile
    <2>1. f \in 0 .. T - 1 /\ t * T + r = x.tile * T + f /\ t \in Nat
      BY <1>1, <1>4, <1>8 DEF b, d
    <2> QED BY <1>1, <1>8, <2>1, QuotientUnique
  <1>10. ASSUME s = 1 PROVE c = T
    <2>1. i = 0 /\ i + 1 = s
      BY <1>4, <1>10
    <2>2. Lo(pr, u) = b /\ Hi(pr, u) = b + T
      BY <1>1, <1>4, <1>6, <1>7, <1>9, <2>1 DEF b, d
    <2> QED BY <1>1, <1>2, <2>2
  <1> QED BY <1>1, <1>2, <1>9, <1>10 DEF t, u, tiles

-----------------------------------------------------------------------------
(* The properties.                                                         *)

\* The recorded pieces lie inside the k extent of an existing tile.
THEOREM TypesHold == WalkSpec => []WalkTypeOK
  <1>1. Inv => WalkTypeOK
    BY DEF Inv, WalkInv, PiecesInv, InPlace, WalkTypeOK, SubjectTiles, End
  <1> QED BY Invariant, <1>1, PTL

\* All work-groups together compute every k tile of every output tile exactly
\* once: the loops end, and between them they leave out and repeat nothing.
THEOREM CoverIsExact == WalkSpec => []ExactCover
  <1>1. Inv => ExactCover
    <2> SUFFICES ASSUME Inv, WalkComplete, NEW t \in SubjectTiles, NEW k \in 0 .. subject.T - 1
                 PROVE  Cardinality({x \in pieces : x.tile = t /\ k \in x.from .. End(x) - 1}) = 1
      BY DEF ExactCover
    <2> DEFINE S == {x \in pieces : x.tile = t /\ k \in x.from .. End(x) - 1}
    <2>1. PICK pr \in Problems : pr = subject
      BY DEF Inv, WalkInv
    <2>2. PICK g \in Nat \ {0} : g = get_grid_shape(pr)
      BY ProblemTypes
    <2>3. can_implement(pr) /\ PartitionLine(pr) /\ Grid = g /\ wg + 1 = g /\ wg \in Nat
          /\ NumUnits(pr) <= linear_idx /\ linear_idx \in Nat
      BY <2>1, <2>2, Units DEF Inv, WalkInv, WalkComplete, Grid
    <2>4. PICK T \in Nat \ {0} : T = pr.T
      BY ProblemTypes
    <2>5. t \in Nat /\ k \in 0 .. T - 1 /\ t * T \in Nat /\ t * T + T <= KTiles(pr)
      <3>1. t \in Nat /\ t + 1 <= OutputTiles(pr) /\ OutputTiles(pr) \in Nat
        BY <2>1, ProblemTypes DEF SubjectTiles
      <3>2. (t + 1) * T <= OutputTiles(pr) * T /\ (t + 1) * T = t * T + T /\ t * T \in Nat
        BY <3>1, TimesMonotone, TimesTypes
      <3> QED BY <2>1, <2>4, <3>1, <3>2 DEF KTiles
    <2>6. PICK p \in Nat : p = t * T + k
      BY <2>5
    <2>7. PICK u \in UnitsOf(pr) : Lo(pr, u) <= p /\ p < Hi(pr, u)
      <3>1. p \in 0 .. KTiles(pr) - 1
        BY <2>5, <2>6, ProblemTypes
      <3> QED BY <2>3, <3>1 DEF PartitionLine, UnitsOf
    <2>8. Walked(u, p)
      <3>1. u \in Nat /\ u < linear_idx
        BY <2>3 DEF UnitsOf, PartitionLine
      <3>2. u % g \in 0 .. g - 1
        BY <3>1, Quotient
      <3>3. u % g < wg \/ u % g = wg
        BY <2>3, <3>2
      <3> QED BY <2>3, <3>1, <3>3 DEF Walked
    <2>9. PICK x \in pieces : x.unit = u /\ Begins(pr, x) <= p /\ p < Ends(pr, x)
      <3>1. p \in Lo(pr, u) .. Hi(pr, u) - 1
        BY <2>3, <2>7 DEF PartitionLine, UnitsOf
      <3> QED BY <2>1, <2>8, <3>1 DEF Inv, WalkedInv
    <2>10. \A y \in pieces : y \in S <=> Begins(pr, y) <= p /\ p < Ends(pr, y)
      <3> SUFFICES ASSUME NEW y \in pieces
                   PROVE  y \in S <=> Begins(pr, y) <= p /\ p < Ends(pr, y)
        OBVIOUS
      <3>1. InPlace(pr, y)
        BY <2>1 DEF Inv, PiecesInv
      <3>2. k \in 0 .. pr.T - 1 /\ p = t * pr.T + k
        BY <2>4, <2>5, <2>6
      <3>3. y.tile = t /\ k \in y.from .. (y.from + y.count) - 1
              <=> Begins(pr, y) <= t * pr.T + k /\ t * pr.T + k < Ends(pr, y)
        BY <2>5, <3>1, <3>2, TilePosition
      <3>4. y \in S <=> y.tile = t /\ k \in y.from .. (y.from + y.count) - 1
        BY DEF End
      <3> HIDE DEF S
      <3> QED BY <3>2, <3>3, <3>4, Zenon
    <2>11. S = {x}
      <3>1. x \in S
        BY <2>9, <2>10
      <3>2. ASSUME NEW y \in S PROVE y = x
        <4>1. y \in pieces
          OBVIOUS
        <4> HIDE DEF S
        <4> QED BY <2>1, <2>9, <2>10, <3>2, <4>1, SamePosition
      <3> HIDE DEF S
      <3> QED BY <3>1, <3>2
    <2> QED BY <2>11, FS_Singleton
  <1> QED BY Invariant, <1>1, PTL

\* What two work-groups share has a slot in the workspace and a flag that
\* initialize_workspace zeroed, although the host reserves the workspace
\* without calling initialize.
THEOREM WorkspaceSuffices == WalkSpec => []FixupInsideWorkspace
  <1>1. Inv => FixupInsideWorkspace
    <2> SUFFICES ASSUME Inv, NEW x \in pieces, x.fixup
                 PROVE  /\ reduction_tiles(Params) = get_workspace_tiles(subject)
                        /\ x.tile < get_workspace_tiles(subject)
      BY DEF FixupInsideWorkspace
    <2>1. PICK pr \in Problems : pr = subject
      BY DEF Inv, WalkInv
    <2>2. can_implement(pr) /\ InPlace(pr, x) /\ Params = initialize(pr)
      BY <2>1 DEF Inv, WalkInv, PiecesInv, Params
    <2>3. x.tile \in 0 .. OutputTiles(pr) - 1 /\ OutputTiles(pr) \in Nat
      BY <2>2, ProblemTypes DEF InPlace
    <2>4. ASSUME NEW s \in Nat, IsBasic(pr, s)
          PROVE  reduction_tiles(initialize(pr)) = get_workspace_tiles(pr)
                 /\ x.tile < get_workspace_tiles(pr)
      <3>1. s > 1 /\ pr.splits > 1 /\ pr.mode \in {"SplitK", "Heuristic"}
        BY <2>2, <2>4, BasicPiece DEF IsBasic
      <3>2. get_workspace_tiles(pr) = OutputTiles(pr)
        BY <3>1 DEF get_workspace_tiles
      <3>3. reduction_tiles(initialize(pr)) = OutputTiles(pr)
        BY <2>4, <3>1, BasicFields DEF reduction_tiles
      <3> QED BY <2>3, <3>2, <3>3
    <2>5. ASSUME NEW sk \in Nat, NEW n \in Nat, IsStream(pr, sk, n)
          PROVE  reduction_tiles(initialize(pr)) = get_workspace_tiles(pr)
                 /\ x.tile < get_workspace_tiles(pr)
      <3>1. x.tile < sk
        BY <2>2, <2>5, StreamPiece
      <3>2. pr.splits = 1 /\ pr.mode \in {"Heuristic", "StreamK"}
            /\ sk = get_num_sk_tiles(pr, get_grid_shape(pr))
        BY <2>5 DEF IsStream
      <3>3. get_workspace_tiles(pr) = sk
        BY <3>2 DEF get_workspace_tiles
      <3>4. reduction_tiles(initialize(pr)) = sk
        BY <2>5, StreamFields DEF reduction_tiles
      <3> QED BY <3>1, <3>3, <3>4
    <2> QED BY <2>1, <2>2, <2>4, <2>5, ParamsAre
  <1> QED BY Invariant, <1>1, PTL

\* With sk_units in its parameters a problem is a stream-K problem.
LEMMA StreamOrBasic ==
    ASSUME NEW pr \in Problems, can_implement(pr)
    PROVE  IF initialize(pr).sk_units > 0
           THEN \E sk, n \in Nat : IsStream(pr, sk, n)
           ELSE \E s \in Nat : IsBasic(pr, s)
  <1>1. \A s \in Nat : IsBasic(pr, s) => ~(initialize(pr).sk_units > 0)
    BY BasicFields
  <1>2. \A sk, n \in Nat : IsStream(pr, sk, n) => initialize(pr).sk_units > 0
    BY StreamFields DEF IsStream
  <1> QED BY <1>1, <1>2, ParamsAre

\* A shared tile is never cut closer to its edge than the minimum: the
\* adjustments of assign_work keep the two sides of every boundary apart.
THEOREM SplitsAreNotTiny == WalkSpec => []NoTinySplits
  <1>1. Inv => NoTinySplits
    <2> SUFFICES ASSUME Inv, IsStreamK, NEW x \in pieces, x.fixup
                 PROVE  x.count >= min_iters_per_sk_unit
      BY DEF NoTinySplits
    <2>1. PICK pr \in Problems : pr = subject
      BY DEF Inv, WalkInv
    <2>2. can_implement(pr) /\ InPlace(pr, x) /\ initialize(pr).sk_units > 0
      BY <2>1 DEF Inv, WalkInv, PiecesInv, IsStreamK, Params
    <2> QED BY <2>2, StreamOrBasic, StreamPiece
  <1> QED BY Invariant, <1>1, PTL

\* Stream-K units are no shorter than a tile, so a tile has a first and a last
\* piece and none between them.
THEOREM PeersAreTwo == WalkSpec => []AtMostTwoPeers
  <1>1. Inv => AtMostTwoPeers
    <2> SUFFICES ASSUME Inv, IsStreamK, NEW t \in SubjectTiles
                 PROVE  Cardinality({x \in pieces : x.tile = t}) <= 2
      BY DEF AtMostTwoPeers
    <2> DEFINE S == {x \in pieces : x.tile = t}
               a == CHOOSE x \in S : x.from = 0
               b == CHOOSE x \in S : x.from + x.count = subject.T
    <2>1. PICK pr \in Problems : pr = subject
      BY DEF Inv, WalkInv
    <2>2. can_implement(pr) /\ initialize(pr).sk_units > 0
      BY <2>1 DEF Inv, WalkInv, IsStreamK, Params
    <2>3. PICK T \in Nat \ {0} : T = pr.T
      BY ProblemTypes
    <2>4. t \in Nat /\ t * T \in Nat
      <3>1. t \in Nat
        BY <2>1 DEF SubjectTiles
      <3> QED BY <3>1, TimesTypes
    <2>5. \A x \in S : /\ x \in pieces /\ InPlace(pr, x) /\ x.tile = t
                       /\ x.from \in Nat /\ x.count \in Nat \ {0} /\ x.from + x.count <= T
      BY <2>1, <2>3 DEF Inv, PiecesInv, InPlace
    <2>6. \A x \in S : x.from = 0 \/ x.from + x.count = T
      BY <2>2, <2>3, <2>5, StreamOrBasic, StreamPiece
    <2> HIDE DEF S
    <2>7. ASSUME NEW x \in S, NEW y \in S, NEW k \in 0 .. T - 1,
                 k \in x.from .. (x.from + x.count) - 1, k \in y.from .. (y.from + y.count) - 1
          PROVE  x = y
      <3>1. PICK p \in Nat : p = t * T + k
        BY <2>4
      <3>2. /\ Begins(pr, x) <= t * pr.T + k /\ t * pr.T + k < Ends(pr, x)
            /\ Begins(pr, y) <= t * pr.T + k /\ t * pr.T + k < Ends(pr, y)
        BY <2>3, <2>4, <2>5, <2>7, TilePosition
      <3>3. /\ Begins(subject, x) <= p /\ p < Ends(subject, x)
            /\ Begins(subject, y) <= p /\ p < Ends(subject, y)
        BY <2>1, <2>3, <3>1, <3>2
      <3> QED BY <2>5, <3>3, SamePosition
    <2>8. ASSUME NEW x \in S, x.from = 0 PROVE x = a
      <3>1. a \in S /\ a.from = 0
        BY <2>8
      <3> HIDE DEF a
      <3>2. 0 \in 0 .. T - 1 /\ 0 \in x.from .. (x.from + x.count) - 1
            /\ 0 \in a.from .. (a.from + a.count) - 1
        BY <2>5, <2>8, <3>1
      <3> QED BY <2>7, <3>1, <3>2
    <2>9. ASSUME NEW x \in S, x.from + x.count = T PROVE x = b
      <3>1. b \in S /\ b.from + b.count = T
        BY <2>1, <2>3, <2>9
      <3> HIDE DEF b
      <3>2. T - 1 \in 0 .. T - 1 /\ T - 1 \in x.from .. (x.from + x.count) - 1
            /\ T - 1 \in b.from .. (b.from + b.count) - 1
        BY <2>5, <2>9, <3>1
      <3> QED BY <2>7, <3>1, <3>2
    <2> HIDE DEF a, b
    <2>10. S \in SUBSET ({a} \cup {b})
      BY <2>6, <2>8, <2>9
    <2>11. IsFiniteSet({a}) /\ Cardinality({a}) = 1
      BY FS_Singleton
    <2>12. IsFiniteSet({a} \cup {b}) /\ Cardinality({a} \cup {b}) \in {1, 2}
      BY <2>11, FS_AddElement
    <2>13. IsFiniteSet(S) /\ Cardinality(S) <= Cardinality({a} \cup {b})
      BY <2>10, <2>12, FS_Subset
    <2>14. Cardinality(S) \in Nat
      BY <2>13, FS_CardinalityType
    <2> HIDE DEF S
    <2>15. Cardinality(S) <= 2
      BY <2>12, <2>13, <2>14
    <2> QED BY <2>15 DEF S
  <1> QED BY Invariant, <1>1, PTL

\* A work-group waits only for work that is not behind its own kind of wait:
\* a stream-K piece others wait for is the first its work-group computes, and
\* in split-K the piece waited for has the smaller linear index.
THEOREM WaitsAreOrdered == WalkSpec => []WaitsPointBackwards
  <1>1. Inv => WaitsPointBackwards
    <2> SUFFICES ASSUME Inv, NEW a \in pieces, NEW b \in pieces, Awaits(b, a)
                 PROVE  IF IsStreamK THEN a.step = 0 ELSE a.unit < b.unit
      BY DEF WaitsPointBackwards
    <2>1. PICK pr \in Problems : pr = subject
      BY DEF Inv, WalkInv
    <2>2. can_implement(pr) /\ InPlace(pr, a) /\ InPlace(pr, b)
          /\ (IsStreamK <=> initialize(pr).sk_units > 0)
      BY <2>1 DEF Inv, WalkInv, PiecesInv, IsStreamK, Params
    <2>3. /\ pr.T \in Nat \ {0} /\ a.tile = b.tile /\ a.from + a.count = b.from
          /\ a.from + a.count < pr.T /\ b.from # 0
      <3>1. pr.T \in Nat \ {0} /\ a.from \in Nat /\ a.count \in Nat \ {0}
            /\ b.from \in Nat /\ b.count \in Nat \ {0} /\ b.from + b.count <= pr.T
        BY <2>2, ProblemTypes DEF InPlace
      <3>2. a.tile = b.tile /\ a.from + a.count = b.from
        BY DEF Awaits, End
      <3>3. a.from + a.count < pr.T
        BY <3>1, <3>2
      <3>4. b.from # 0
        BY <3>1, <3>2
      <3> QED BY <3>1, <3>2, <3>3, <3>4
    <2>4. ASSUME NEW sk \in Nat, NEW n \in Nat, IsStream(pr, sk, n) PROVE a.step = 0
      <3>1. a.unit < n /\ Ends(pr, a) = Hi(pr, a.unit)
        BY <2>2, <2>3, <2>4, StreamPiece
      <3>2. a.unit \in Nat /\ n <= get_grid_shape(pr) /\ get_grid_shape(pr) \in Nat \ {0}
        BY <2>2, <2>4, ProblemTypes DEF InPlace, UnitsOf, IsStream
      <3>3. a.unit % get_grid_shape(pr) = a.unit
        BY <3>1, <3>2, ModOfSmall
      <3> QED BY <2>2, <3>1, <3>3 DEF InPlace
    <2>5. ASSUME NEW s \in Nat, IsBasic(pr, s) PROVE a.unit < b.unit
      <3> DEFINE T == pr.T
                 tiles == OutputTiles(pr)
                 u == a.unit
                 v == b.unit
                 i == u \div tiles
                 j == v \div tiles
                 t == a.tile
                 d == t * T
                 c(m) == Cut(T, s, m)
      <3>1. u \in 0 .. NumUnits(pr) - 1 /\ v \in 0 .. NumUnits(pr) - 1
            /\ u % tiles = t /\ v % tiles = t
        BY <2>2, <2>3, <2>5, BasicPiece DEF InPlace, UnitsOf
      <3>2. Hi(pr, u) = Ends(pr, a) /\ Lo(pr, v) = Begins(pr, b)
        BY <2>2, <2>3 DEF InPlace
      <3>3. Ends(pr, a) = (d + a.from) + a.count /\ Begins(pr, b) = d + b.from
        BY <2>3 DEF Begins, Ends
      <3>4. /\ t \in Nat /\ d \in Nat /\ a.from \in Nat /\ a.count \in Nat
            /\ tiles \in Nat \ {0} /\ T \in Nat \ {0} /\ s \in Nat \ {0}
        BY <2>2, <2>5, PieceTypes, ProblemTypes DEF InPlace, IsBasic
      <3>5. /\ i \in 0 .. s - 1 /\ j \in 0 .. s - 1 /\ u % tiles \in 0 .. tiles - 1
            /\ Hi(pr, u) = (u % tiles) * T + c(i + 1) /\ Lo(pr, v) = (v % tiles) * T + c(j)
        BY <2>5, <3>1, BasicUnits
      <3>6. c(i) \in Nat /\ c(i + 1) \in Nat /\ c(j) \in Nat /\ c(i) < c(i + 1)
        BY <2>5, <3>5, BasicUnits
      <3>7. \A l, m \in Nat : l <= m => c(l) <= c(m)
        BY <3>4, CutIs
      <3>8. u = i * tiles + t /\ v = j * tiles + t
        <4>1. u \in Nat /\ v \in Nat
          BY <3>1
        <4>2. u = i * tiles + (u % tiles) /\ v = j * tiles + (v % tiles)
          BY <3>4, <4>1, Quotient
        <4> QED BY <3>1, <4>2
      <3>9. Hi(pr, u) = d + c(i + 1) /\ Lo(pr, v) = d + c(j)
        BY <3>1, <3>5
      <3> HIDE DEF T, tiles, u, v, i, j, t, d, c
      <3>10. c(i + 1) = c(j)
        BY <2>3, <3>2, <3>3, <3>4, <3>6, <3>9
      <3>11. i < j
        <4> SUFFICES ASSUME j <= i PROVE FALSE
          BY <3>5
        <4>1. c(j) <= c(i)
          BY <3>5, <3>7
        <4> QED BY <3>6, <3>10, <4>1
      <3>12. i * tiles + tiles <= j * tiles /\ i * tiles \in Nat /\ j * tiles \in Nat
        <4>1. i \in Nat /\ j \in Nat /\ i + 1 <= j
          BY <3>5, <3>11
        <4>2. (i + 1) * tiles <= j * tiles /\ (i + 1) * tiles = i * tiles + tiles
          BY <3>4, <4>1, TimesMonotone, TimesTypes
        <4> QED BY <3>4, <4>1, <4>2, TimesTypes
      <3>13. u < v
        BY <3>4, <3>8, <3>12
      <3> QED BY <3>13 DEF u, v
    <2> QED BY <2>2, <2>4, <2>5, StreamOrBasic
  <1> QED BY Invariant, <1>1, PTL

-----------------------------------------------------------------------------
(* The launched kernel.  The positions a work-group has behind it on the   *)
(* line are those of its earlier units and the upper end of its current    *)
(* one; everything the launch shares is a function of the positions met.   *)

\* The unit that position x of the line belongs to.
Owner(pr, x) == CHOOSE u \in UnitsOf(pr) : Lo(pr, u) <= x /\ x < Hi(pr, u)

\* The k tile at which the final split of tile t begins.
FinalFrom(pr, t) ==
    LET e == t * pr.T + pr.T
    IN  From(pr, Owner(pr, e - 1), e) - t * pr.T

\* The work at hand of work-group g lies between Bottom(g) and Top(g).
Working(g) == where[g] \notin {"queued", "retired"}
Top(g)     == Lo(problem, idx[g]) + work[g].k_tile_remaining
Bottom(g)  == From(problem, idx[g], Top(g))

\* Position y of unit u is done with: its work-group is beyond it.
Past(u, y) ==
    LET g == u % get_grid_shape(problem)
    IN  \/ u < idx[g]
        \/ /\ u = idx[g] /\ Working(g)
           /\ Top(g) <= y \/ (where[g] = "fetch" /\ Bottom(g) <= y)

Met(y) == Past(Owner(problem, y), y)

\* The partial sum of the first n k tiles.
UpTo(n) == [k \in Terms(problem) |-> IF k \in 0 .. n - 1 THEN 1 ELSE 0]

HostInv ==
    /\ stored \in Problems /\ problem \in Problems
    /\ params = initialize(problem)
    /\ launches \in 0 .. MaxLaunches
    /\ launches = 0 => where = << >> /\ D = << >>

Places == {"queued", "mainloop", "fixup", "reduce", "arrive", "epilogue", "fetch", "retired"}

DeviceTypes ==
    /\ where \in [WorkGroups -> Places]
    /\ idx \in [WorkGroups -> Nat]
    /\ work = [g \in WorkGroups |-> work[g]]
    /\ acc \in [WorkGroups -> [Terms(problem) -> Nat]]
    /\ slots \in [Tiles -> [Terms(problem) -> Nat]]
    /\ D \in [Tiles -> [Terms(problem) -> Nat]]

\* Work-group g walks the units g, g + grid, g + 2 grid and so on.
GroupInv ==
    \A g \in WorkGroups :
        /\ idx[g] % get_grid_shape(problem) = g
        /\ where[g] = "retired" => NumUnits(problem) <= idx[g]
        /\ Working(g) =>
             /\ idx[g] \in UnitsOf(problem) /\ Top(g) \in Nat
             /\ CutsAt(problem, idx[g], Top(g))
             /\ work[g] = Piece(problem, idx[g], Top(g))

\* What a work-group has in its accumulators, and what it relies on, where it is.
AtPlace(g) ==
    /\ where[g] \in {"fixup", "reduce", "arrive"} =>
         requires_fixup(params, work[g]) /\ acc[g] = Product(work[g])
    /\ where[g] \in {"reduce", "arrive"} =>
         ~compute_epilogue(params, work[g]) /\ flags[TileOf(g)] = work[g].K_idx
    /\ where[g] = "reduce" => work[g].K_idx # 0
    /\ where[g] = "arrive" =>
         slots[TileOf(g)] = UpTo(work[g].K_idx + work[g].k_tile_count)
    /\ where[g] = "epilogue" =>
         compute_epilogue(params, work[g]) /\ acc[g] = Complete

PlaceInv == \A g \in WorkGroups : AtPlace(g)

\* A flag counts the k tiles met below the final split of its tile: they are
\* met in order.
FlagInv ==
    get_workspace_tiles(problem) > 0 =>
        /\ flags = [t \in Tiles |-> flags[t]]
        /\ \A t \in Tiles :
             /\ flags[t] \in 0 .. FinalFrom(problem, t)
             /\ \A k \in 0 .. FinalFrom(problem, t) - 1 :
                  Met(t * problem.T + k) <=> k < flags[t]

\* Between two splits a slot holds the k tiles its flag counts.
SlotInv ==
    \A t \in Tiles :
        /\ FinalFrom(problem, t) > 0
        /\ flags[t] > 0
        /\ \A g \in WorkGroups : where[g] = "arrive" => TileOf(g) # t
        => slots[t] = UpTo(flags[t])

\* A tile is written when its last position has been met.
OutputInv ==
    \A t \in Tiles :
        D[t] = IF Met(t * problem.T + problem.T - 1) THEN Complete ELSE Unwritten

LaunchInv == DeviceTypes /\ GroupInv /\ PlaceInv /\ FlagInv /\ SlotInv /\ OutputInv

GemmInv == HostInv /\ (launches > 0 => LaunchInv)


\* Every position has one owner.
LEMMA OwnerIs ==
    ASSUME NEW pr \in Problems, NEW x \in 0 .. KTiles(pr) - 1
    PROVE  /\ Owner(pr, x) \in UnitsOf(pr)
           /\ Lo(pr, Owner(pr, x)) <= x /\ x < Hi(pr, Owner(pr, x))
           /\ \A u \in UnitsOf(pr) : Lo(pr, u) <= x /\ x < Hi(pr, u) => u = Owner(pr, x)
  <1> DEFINE P(u) == Lo(pr, u) <= x /\ x < Hi(pr, u)
  <1>1. PartitionLine(pr)
    BY HostAssumption, Units
  <1>2. \E u \in UnitsOf(pr) : P(u)
    BY <1>1 DEF PartitionLine, UnitsOf
  <1>3. ASSUME NEW u \in UnitsOf(pr), NEW v \in UnitsOf(pr), P(u), P(v) PROVE u = v
    <2>1. /\ Lo(pr, u) \in Nat /\ Hi(pr, u) \in Nat /\ Lo(pr, v) \in Nat /\ Hi(pr, v) \in Nat
          /\ u # v => Hi(pr, u) <= Lo(pr, v) \/ Hi(pr, v) <= Lo(pr, u)
      BY <1>1 DEF PartitionLine, UnitsOf
    <2> QED BY <1>3, <2>1
  <1>4. Owner(pr, x) = CHOOSE u \in UnitsOf(pr) : P(u)
    BY DEF Owner
  <1>5. Owner(pr, x) \in UnitsOf(pr) /\ P(Owner(pr, x))
    BY <1>2, <1>4
  <1> QED BY <1>3, <1>5

\* Position k of tile t is on the line.
LEMMA OnTheLine ==
    ASSUME NEW pr \in Problems, NEW t \in 0 .. OutputTiles(pr) - 1
    PROVE  /\ t * pr.T \in Nat /\ pr.T \in Nat \ {0}
           /\ \A k \in 0 .. pr.T - 1 : t * pr.T + k \in 0 .. KTiles(pr) - 1
  <1> DEFINE T == pr.T
             n == OutputTiles(pr)
  <1>1. T \in Nat \ {0} /\ n \in Nat \ {0} /\ KTiles(pr) = n * T
    BY ProblemTypes DEF KTiles
  <1>2. t \in Nat /\ t + 1 <= n /\ t + 1 \in Int /\ n \in Int
    BY <1>1
  <1> HIDE DEF T, n
  <1>3. (t + 1) * T <= n * T /\ (t + 1) * T = t * T + T /\ t * T \in Nat /\ n * T \in Nat
    BY <1>1, <1>2, TimesMonotone, TimesTypes
  <1>4. PICK b \in Nat : b = t * T
    BY <1>3
  <1>5. PICK m \in Nat : m = n * T
    BY <1>3
  <1>6. \A k \in 0 .. T - 1 : b + k \in 0 .. m - 1
    BY <1>1, <1>3, <1>4, <1>5
  <1> QED BY <1>1, <1>4, <1>5, <1>6 DEF T, n

\* The final split of a tile ends with the tile.
LEMMA FinalSplit ==
    ASSUME NEW pr \in Problems, NEW t \in 0 .. OutputTiles(pr) - 1
    PROVE  LET e == t * pr.T + pr.T
               v == Owner(pr, e - 1)
           IN  /\ e \in Nat \ {0} /\ e - 1 \in 0 .. KTiles(pr) - 1
               /\ v \in UnitsOf(pr) /\ CutsAt(pr, v, e) /\ TileBelow(pr, e) = t
               /\ FinalFrom(pr, t) \in 0 .. pr.T - 1
               /\ From(pr, v, e) = t * pr.T + FinalFrom(pr, t)
               /\ Lo(pr, v) \in Nat /\ Hi(pr, v) \in Nat
               /\ Lo(pr, v) <= t * pr.T + FinalFrom(pr, t)
               /\ FinalFrom(pr, t) > 0 => Lo(pr, v) = t * pr.T + FinalFrom(pr, t)
  <1>1. /\ t * pr.T \in Nat /\ pr.T \in Nat \ {0}
        /\ \A k \in 0 .. pr.T - 1 : t * pr.T + k \in 0 .. KTiles(pr) - 1
    BY OnTheLine
  <1>2. PICK b \in Nat, T \in Nat \ {0} : b = t * pr.T /\ T = pr.T
    BY <1>1
  <1>3. PICK e \in Nat \ {0} : e = b + T
    BY <1>2
  <1>4. e - 1 \in 0 .. KTiles(pr) - 1
    <2>1. T - 1 \in 0 .. T - 1 /\ e - 1 = b + (T - 1)
      BY <1>2, <1>3
    <2> QED BY <1>1, <1>2, <2>1
  <1>5. PICK v : v = Owner(pr, e - 1)
    OBVIOUS
  <1>6. v \in UnitsOf(pr) /\ Lo(pr, v) <= e - 1 /\ e - 1 < Hi(pr, v)
    BY <1>4, <1>5, OwnerIs
  <1>7. Lo(pr, v) \in Nat /\ Hi(pr, v) \in Nat
    BY <1>6, HostAssumption, Units DEF UnitsOf, PartitionLine
  <1>8. TileBelow(pr, e) = t
    <2>1. pr.T \in 1 .. pr.T /\ t \in Nat
      BY <1>1
    <2>2. TileBelow(pr, t * pr.T + pr.T) = t
      BY <2>1, TileBelowIs
    <2> QED BY <1>2, <1>3, <2>2
  <1>9. CutsAt(pr, v, e)
    <2>1. \E r \in Nat : e = r * pr.T
      <3>1. (t + 1) * pr.T = t * pr.T + pr.T /\ t + 1 \in Nat
        BY <1>1, TimesTypes
      <3> QED BY <1>2, <1>3, <3>1
    <2> QED BY <1>3, <1>6, <1>7, <2>1 DEF CutsAt
  <1>10. From(pr, v, e) = Larger(b, Lo(pr, v))
    BY <1>2, <1>8 DEF From
  <1>11. FinalFrom(pr, t) = From(pr, v, e) - b
    BY <1>2, <1>3, <1>5 DEF FinalFrom
  <1>12. PICK f \in Nat : f = From(pr, v, e)
    BY <1>7, <1>10 DEF Larger
  <1>13. /\ b <= f /\ f < e /\ Lo(pr, v) <= f /\ (f > b => Lo(pr, v) = f)
    BY <1>2, <1>3, <1>6, <1>7, <1>10, <1>12 DEF Larger
  <1> QED BY <1>2, <1>3, <1>4, <1>5, <1>6, <1>7, <1>8, <1>9, <1>11, <1>12, <1>13

\* A piece of a tile is its final split or lies below it.
LEMMA PieceInTile ==
    ASSUME NEW pr \in Problems, NEW u \in UnitsOf(pr), NEW e \in Nat, CutsAt(pr, u, e)
    PROVE  LET w == Piece(pr, u, e)
               t == TileBelow(pr, e)
               f == FinalFrom(pr, t)
               p == initialize(pr)
           IN  /\ is_valid(w) /\ output_tile_index(p, w) = t
               /\ t \in 0 .. OutputTiles(pr) - 1 /\ t * pr.T \in Nat
               /\ w.K_idx \in Nat /\ w.k_tile_count \in Nat \ {0}
               /\ w.K_idx + w.k_tile_count <= pr.T
               /\ t * pr.T + w.K_idx = From(pr, u, e)
               /\ t * pr.T + w.K_idx + w.k_tile_count = e
               /\ Lo(pr, u) \in Nat /\ Hi(pr, u) \in Nat
               /\ Lo(pr, u) <= From(pr, u, e) /\ From(pr, u, e) \in Nat /\ e <= Hi(pr, u)
               /\ w.k_tile_remaining = e - Lo(pr, u)
               /\ f \in 0 .. pr.T - 1
               /\ IF compute_epilogue(p, w)
                  THEN /\ w.K_idx + w.k_tile_count = pr.T /\ w.K_idx = f
                       /\ requires_fixup(p, w) <=> f > 0
                  ELSE /\ w.K_idx + w.k_tile_count <= f
                       /\ requires_fixup(p, w)
  <1> DEFINE p == initialize(pr)
  <1>1. PICK w : w = Piece(pr, u, e)
    OBVIOUS
  <1>2. PICK t : t = TileBelow(pr, e)
    OBVIOUS
  <1>3. PICK a : a = From(pr, u, e)
    OBVIOUS
  <1>4. /\ PartitionLine(pr) /\ can_implement(pr) /\ u \in 0 .. NumUnits(pr) - 1
        /\ Lo(pr, u) < e /\ e <= Hi(pr, u)
    BY HostAssumption, Units DEF CutsAt, UnitsOf
  <1>5. /\ is_valid(w) /\ t \in 0 .. OutputTiles(pr) - 1 /\ t * pr.T \in Nat
        /\ a \in Nat /\ t * pr.T <= a /\ Lo(pr, u) <= a /\ a < e /\ e <= t * pr.T + pr.T
        /\ output_tile_index(p, w) = t
        /\ w.K_idx = a - t * pr.T /\ w.k_tile_count = e - a
        /\ w.k_tile_remaining = e - Lo(pr, u)
        /\ a = t * pr.T \/ a = Lo(pr, u)
    BY <1>1, <1>2, <1>3, <1>4, PieceIs
  <1>6. Lo(pr, u) \in Nat /\ Hi(pr, u) \in Nat
    BY <1>4 DEF PartitionLine
  <1>7. PICK b \in Nat, T \in Nat \ {0} : b = t * pr.T /\ T = pr.T
    BY <1>5, ProblemTypes
  <1>8. PICK f \in 0 .. T - 1 : f = FinalFrom(pr, t)
    BY <1>5, <1>7, FinalSplit
  <1>9. PICK v \in UnitsOf(pr) : v = Owner(pr, (b + T) - 1)
    BY <1>5, <1>7, FinalSplit
  <1>10. /\ Lo(pr, v) \in Nat /\ Hi(pr, v) \in Nat /\ Lo(pr, v) <= b + f
         /\ f > 0 => Lo(pr, v) = b + f
         /\ From(pr, v, b + T) = b + f /\ (b + T) - 1 \in 0 .. KTiles(pr) - 1
         /\ Lo(pr, v) < b + T /\ b + T <= Hi(pr, v)
    BY <1>5, <1>7, <1>8, <1>9, FinalSplit DEF CutsAt
  <1>11. p.tiles_per_output_tile = T
    BY <1>4, <1>7, ParamsAre, BasicFields, StreamFields
  <1>12. w.K_idx = a - b /\ w.k_tile_count = e - a
    BY <1>5, <1>7
  <1>15. /\ w.K_idx \in Nat /\ w.k_tile_count \in Nat \ {0} /\ w.K_idx + w.k_tile_count <= T
         /\ b + w.K_idx = a /\ b + w.K_idx + w.k_tile_count = e
    <2>1. a \in Nat /\ b <= a /\ a < e /\ e <= b + T
      BY <1>5, <1>7
    <2>2. PICK k, m : k = w.K_idx /\ m = w.k_tile_count
      OBVIOUS
    <2>3. k = a - b /\ m = e - a
      BY <1>12, <2>2
    <2>4. k \in Nat /\ m \in Nat \ {0} /\ k + m <= T /\ b + k = a /\ b + k + m = e
      BY <1>7, <2>1, <2>3
    <2> QED BY <2>2, <2>4
  <1> SUFFICES IF compute_epilogue(p, w)
               THEN /\ w.K_idx + w.k_tile_count = T /\ w.K_idx = f
                    /\ requires_fixup(p, w) <=> f > 0
               ELSE /\ w.K_idx + w.k_tile_count <= f
                    /\ requires_fixup(p, w)
    <2>1. /\ is_valid(w) /\ output_tile_index(p, w) = t
          /\ t \in 0 .. OutputTiles(pr) - 1 /\ b \in Nat
          /\ w.K_idx \in Nat /\ w.k_tile_count \in Nat \ {0}
          /\ w.K_idx + w.k_tile_count <= T
          /\ b + w.K_idx = a /\ b + w.K_idx + w.k_tile_count = e
          /\ Lo(pr, u) \in Nat /\ Hi(pr, u) \in Nat
          /\ Lo(pr, u) <= a /\ a \in Nat /\ e <= Hi(pr, u)
          /\ w.k_tile_remaining = e - Lo(pr, u) /\ f \in 0 .. T - 1
      BY <1>4, <1>5, <1>6, <1>8, <1>15
    <2> QED BY <1>1, <1>2, <1>3, <1>7, <1>8, <2>1
  <1>13. CASE e = b + T
    <2>1. u = v
      <3>1. Lo(pr, u) <= (b + T) - 1 /\ (b + T) - 1 < Hi(pr, u)
        BY <1>4, <1>6, <1>7, <1>13
      <3> QED BY <1>9, <1>10, <3>1, OwnerIs
    <2>2. a = b + f
      BY <1>3, <1>10, <1>13, <2>1
    <2>4. w.K_idx = f /\ w.k_tile_count = T - f
      <3>1. f \in Nat /\ b \in Nat /\ T \in Nat
        BY <1>7, <1>8
      <3> HIDE DEF p
      <3> QED BY <1>12, <1>13, <2>2, <3>1
    <2>5. w.K_idx + w.k_tile_count = T /\ (w.k_tile_count # T <=> f > 0)
      BY <1>7, <1>8, <2>4
    <2>3. compute_epilogue(p, w) /\ (requires_fixup(p, w) <=> f > 0)
      BY <1>5, <1>11, <2>5
         DEF compute_epilogue, is_final_split, requires_fixup
    <2> QED BY <2>3, <2>4, <2>5
  <1>14. CASE e # b + T
    <2>1. e < b + T
      BY <1>5, <1>7, <1>14
    <2>2. ~(\E r \in Nat : e = r * pr.T)
      <3> SUFFICES ASSUME NEW r \in Nat, e = r * pr.T PROVE FALSE
        OBVIOUS
      <3>1. PICK d \in 1 .. T - 1 : e = b + d
        <4>1. e - b \in 1 .. T - 1 /\ e = b + (e - b)
          BY <1>5, <1>7, <2>1
        <4> QED BY <4>1
      <3>2. r * T + 0 = t * T + d /\ t \in Nat /\ 0 \in 0 .. T - 1 /\ d \in 0 .. T - 1
        BY <1>5, <1>7, <3>1
      <3>3. 0 = d
        BY <3>2, QuotientUnique
      <3> QED BY <3>1, <3>3
    <2>3. e = Hi(pr, u)
      BY <2>2 DEF CutsAt
    <2>4. u # v
      BY <1>10, <2>1, <2>3
    <2>5. Hi(pr, u) <= Lo(pr, v) \/ Hi(pr, v) <= Lo(pr, u)
      BY <1>4, <2>4 DEF PartitionLine, UnitsOf
    <2>6. e <= b + f
      BY <1>4, <1>6, <1>8, <1>10, <2>1, <2>3, <2>5
    <2>7. ~compute_epilogue(p, w) /\ requires_fixup(p, w)
      BY <1>5, <1>7, <1>11, <1>12, <2>1
         DEF compute_epilogue, is_final_split, requires_fixup
    <2>8. w.K_idx \in Nat /\ w.k_tile_count \in Nat \ {0} /\ w.K_idx + w.k_tile_count <= f
      BY <1>5, <1>7, <1>8, <1>12, <2>6
    <2> QED BY <2>7, <2>8
  <1> QED BY <1>13, <1>14

\* A tile that is shared has a slot and a flag: the host reserved a workspace.
LEMMA SharedHasSlot ==
    ASSUME NEW pr \in Problems, NEW t \in 0 .. OutputTiles(pr) - 1, FinalFrom(pr, t) > 0
    PROVE  get_workspace_tiles(pr) > 0
  <1> DEFINE p == initialize(pr)
  <1>1. PICK e \in Nat \ {0}, v \in UnitsOf(pr) : CutsAt(pr, v, e) /\ TileBelow(pr, e) = t
                                               /\ From(pr, v, e) = t * pr.T + FinalFrom(pr, t)
                                               /\ e = t * pr.T + pr.T
    BY FinalSplit
  <1>2. PICK w : w = Piece(pr, v, e)
    OBVIOUS
  <1>4. can_implement(pr)
    BY HostAssumption
  <1>5. requires_fixup(p, w)
    BY <1>1, <1>2, PieceInTile
  <1>6. PICK y : y = Recorded(pr, v, e, 0)
    OBVIOUS
  <1>7. InPlace(pr, y) /\ y.fixup
    <2>1. InPlace(pr, y)
      BY <1>1, <1>4, <1>6, RecordedIs
    <2> QED BY <1>2, <1>5, <1>6, <2>1 DEF Recorded
  <1>8. ASSUME NEW s \in Nat, IsBasic(pr, s) PROVE get_workspace_tiles(pr) > 0
    <2>1. s > 1 /\ pr.splits > 1 /\ pr.mode \in {"SplitK", "Heuristic"}
      BY <1>7, <1>8, BasicPiece DEF IsBasic
    <2>2. get_workspace_tiles(pr) = OutputTiles(pr)
      BY <2>1 DEF get_workspace_tiles
    <2> QED BY <2>2, ProblemTypes
  <1>9. ASSUME NEW sk \in Nat, NEW n \in Nat, IsStream(pr, sk, n)
        PROVE  get_workspace_tiles(pr) > 0
    <2>1. y.tile < sk /\ y.tile \in Nat
      BY <1>7, <1>9, StreamPiece, PieceTypes
    <2>2. pr.splits = 1 /\ pr.mode \in {"Heuristic", "StreamK"}
          /\ sk = get_num_sk_tiles(pr, get_grid_shape(pr))
      BY <1>9 DEF IsStream
    <2>3. get_workspace_tiles(pr) = sk
      BY <2>2 DEF get_workspace_tiles
    <2> QED BY <2>1, <2>3
  <1> QED BY <1>4, <1>8, <1>9, ParamsAre

\* Stream-K, and split-K with at most two splits, leave a shared tile one split
\* below the final one.
LEMMA OnePeer ==
    ASSUME NEW pr \in Problems, NEW t \in 0 .. OutputTiles(pr) - 1, FinalFrom(pr, t) > 0,
           initialize(pr).splits <= 2
    PROVE  \E u \in UnitsOf(pr) : \A k \in 0 .. FinalFrom(pr, t) - 1 : Owner(pr, t * pr.T + k) = u
  <1>1. PICK b \in Nat, T \in Nat \ {0} : b = t * pr.T /\ T = pr.T
    BY OnTheLine
  <1>2. PICK f \in 1 .. T - 1 : f = FinalFrom(pr, t)
    BY <1>1, FinalSplit
  <1>3. PICK v \in UnitsOf(pr) : v = Owner(pr, (b + T) - 1)
    BY <1>1, FinalSplit
  <1>4. Lo(pr, v) = b + f
    BY <1>1, <1>2, <1>3, FinalSplit
  <1>5. Lo(pr, v) <= (b + T) - 1 /\ (b + T) - 1 < Hi(pr, v)
    BY <1>1, <1>3, FinalSplit, OwnerIs
  <1>6. PICK N \in Nat : N = NumUnits(pr)
    BY HostAssumption, Units DEF PartitionLine
  <1>7. can_implement(pr) /\ v \in 0 .. N - 1
    BY <1>6, HostAssumption DEF UnitsOf
  \* One unit from the start of the tile to the final split.
  <1>8. ASSUME NEW u \in UnitsOf(pr), Lo(pr, u) \in Nat, Lo(pr, u) <= b, Hi(pr, u) = b + f
        PROVE  \A k \in 0 .. f - 1 : Owner(pr, b + k) = u
    <2> SUFFICES ASSUME NEW k \in 0 .. f - 1 PROVE u = Owner(pr, b + k)
      OBVIOUS
    <2>1. b + k \in 0 .. KTiles(pr) - 1
      BY <1>1, <1>2, OnTheLine
    <2>2. Lo(pr, u) <= b + k /\ b + k < Hi(pr, u)
      BY <1>1, <1>2, <1>8
    <2> QED BY <2>1, <2>2, OwnerIs
  <1>9. ASSUME NEW sk \in Nat, NEW n \in Nat, IsStream(pr, sk, n)
        PROVE  \E u \in UnitsOf(pr) : \A k \in 0 .. f - 1 : Owner(pr, b + k) = u
    <2>1. /\ Lo(pr, 0) = 0
          /\ \A u \in 0 .. N : Lo(pr, u) \in Nat
          /\ \A u \in 0 .. N - 1 : Hi(pr, u) = Lo(pr, u + 1) /\ Lo(pr, u) + pr.T <= Lo(pr, u + 1)
      BY <1>6, <1>9, StreamEdges
    <2>2. v # 0
      BY <1>1, <1>2, <1>4, <2>1
    <2>3. PICK u \in 0 .. N - 1 : v = u + 1
      <3>1. v - 1 \in 0 .. N - 1 /\ v = (v - 1) + 1
        BY <1>6, <1>7, <2>2
      <3> QED BY <3>1
    <2>4. /\ u \in UnitsOf(pr) /\ Lo(pr, u) \in Nat /\ Hi(pr, u) = b + f
          /\ Lo(pr, u) + T <= b + f
      BY <1>1, <1>4, <1>6, <2>1, <2>3 DEF UnitsOf
    <2>5. Lo(pr, u) <= b
      BY <1>1, <1>2, <2>4
    <2> QED BY <1>8, <2>4, <2>5
  <1>10. ASSUME NEW s \in Nat, IsBasic(pr, s)
         PROVE  \E u \in UnitsOf(pr) : \A k \in 0 .. f - 1 : Owner(pr, b + k) = u
    <2> DEFINE c(i) == Cut(pr.T, s, i)
    <2>1. PICK tiles \in Nat \ {0} : tiles = OutputTiles(pr)
      BY ProblemTypes
    <2>2. N = tiles * s /\ s \in Nat \ {0} /\ s <= 2
      <3>1. N = tiles * s
        BY <1>6, <1>10, <2>1, BasicUnits
      <3>2. s \in Nat \ {0}
        BY <1>1, <1>10 DEF IsBasic
      <3>3. initialize(pr).splits = s
        BY <1>10, BasicFields
      <3> QED BY <3>1, <3>2, <3>3
    <2>3. PICK q \in 0 .. tiles - 1, i \in 0 .. s - 1 :
             /\ q = v % tiles /\ i = v \div tiles
             /\ Lo(pr, v) = q * pr.T + c(i) /\ Hi(pr, v) = q * pr.T + c(i + 1)
      BY <1>6, <1>7, <1>10, <2>1, BasicUnits
    <2>4. c(i) \in Nat /\ c(i + 1) \in Nat /\ c(i + 1) <= T /\ c(0) = 0
      <3>1. pr.T \in Nat /\ s \in Nat \ {0}
        BY <1>1, <2>2
      <3> QED BY <1>1, <1>10, <2>3, <3>1, BasicUnits, CutIs
    <2> HIDE DEF c
    <2>5. q = t
      <3>1. PICK d \in Nat : d = q * pr.T
        BY <1>1, <2>3, TimesTypes
      <3>2. PICK r \in 0 .. T - 1 : d + r = b + (T - 1)
        <4>1. ((b + T) - 1) - d \in 0 .. T - 1 /\ d + (((b + T) - 1) - d) = b + (T - 1)
          BY <1>1, <1>5, <2>3, <2>4, <3>1
        <4> QED BY <4>1
      <3>3. q * T + r = t * T + (T - 1) /\ T - 1 \in 0 .. T - 1 /\ q \in Nat /\ t \in Nat
        BY <1>1, <2>3, <3>1, <3>2
      <3> QED BY <3>2, <3>3, QuotientUnique
    <2>6. c(i) = f
      BY <1>1, <1>2, <1>4, <2>3, <2>4, <2>5
    <2>7. i = 1
      BY <1>2, <2>2, <2>3, <2>4, <2>6
    <2>8. t \in 0 .. N - 1 /\ t % tiles = t /\ t \div tiles = 0
      <3>1. 0 * tiles + t = t /\ t \in 0 .. tiles - 1
        BY <2>1
      <3>2. t % tiles = t /\ t \div tiles = 0
        BY <3>1, QuotientIs
      <3>3. tiles <= N
        <4>1. s = 2
          BY <2>2, <2>3, <2>7
        <4> QED BY <2>2, <4>1
      <3> QED BY <2>1, <3>2, <3>3
    <2>9. Lo(pr, t) = b + c(0) /\ Hi(pr, t) = b + c(1)
      <3>1. /\ Lo(pr, t) = (t % tiles) * pr.T + Cut(pr.T, s, t \div tiles)
            /\ Hi(pr, t) = (t % tiles) * pr.T + Cut(pr.T, s, (t \div tiles) + 1)
        BY <1>6, <1>10, <2>1, <2>8, BasicUnits
      <3> QED BY <1>1, <2>8, <3>1 DEF c
    <2>10. Lo(pr, t) \in Nat /\ Lo(pr, t) <= b /\ Hi(pr, t) = b + f /\ t \in UnitsOf(pr)
      BY <1>1, <1>6, <2>4, <2>6, <2>7, <2>8, <2>9 DEF UnitsOf
    <2> QED BY <1>8, <2>10
  <1>11. \E u \in UnitsOf(pr) : \A k \in 0 .. f - 1 : Owner(pr, b + k) = u
    BY <1>7, <1>9, <1>10, ParamsAre
  <1> QED BY <1>1, <1>2, <1>11

\* The work-group a unit belongs to.
LEMMA GroupOf ==
    ASSUME NEW pr \in Problems, NEW u \in UnitsOf(pr)
    PROVE  /\ u \in Nat /\ u % get_grid_shape(pr) \in 0 .. get_grid_shape(pr) - 1
           /\ u % get_grid_shape(pr) <= u
  <1>1. u \in Nat
    BY HostAssumption, Units DEF UnitsOf, PartitionLine
  <1>2. get_grid_shape(pr) \in Nat \ {0}
    BY ProblemTypes
  <1> QED BY <1>1, <1>2, Quotient, ModOfSmall

\* A launch starts with nothing met.
LEMMA LaunchStarts ==
    ASSUME NEW pr \in Problems, StartLaunch(pr),
           get_workspace_tiles(pr) > 0 => flags' = [t \in 0 .. OutputTiles(pr) - 1 |-> 0]
    PROVE  LaunchInv'
  <1> DEFINE grid  == 0 .. get_grid_shape(pr) - 1
             tiles == 0 .. OutputTiles(pr) - 1
  <1>1. /\ problem' = pr /\ params' = initialize(pr)
        /\ where' = [g \in grid |-> "queued"] /\ idx' = [g \in grid |-> g]
        /\ work' = [g \in grid |-> invalid_work_tile]
        /\ acc' = [g \in grid |-> [k \in Terms(pr) |-> 0]]
        /\ slots' = [t \in tiles |-> [k \in Terms(pr) |-> IF k = Stale THEN 1 ELSE 0]]
        /\ D' = [t \in tiles |-> [k \in Terms(pr) |-> 0]]
    BY DEF StartLaunch
  <1>2. WorkGroups' = grid /\ Tiles' = tiles /\ (\A g \in grid : ~Working(g)')
    BY <1>1 DEF WorkGroups, Tiles, Working
  <1>3. get_grid_shape(pr) \in Nat \ {0}
    BY ProblemTypes
  <1>4. ASSUME NEW y \in 0 .. KTiles(pr) - 1 PROVE ~Met(y)'
    <2>1. PICK u \in UnitsOf(pr) : u = Owner(pr, y)
      BY OwnerIs
    <2>2. PICK h \in grid : h = u % get_grid_shape(pr) /\ h <= u /\ u \in Nat
      BY GroupOf
    <2>3. Met(y)' <=> Past(u, y)'
      BY <1>1, <2>1 DEF Met
    <2>4. ~(u < idx'[h]) /\ ~Working(h)'
      BY <1>1, <1>2, <1>3, <2>2
    <2> QED BY <1>1, <2>2, <2>3, <2>4 DEF Past
  <1>5. \A t \in tiles : /\ t * pr.T + pr.T - 1 \in 0 .. KTiles(pr) - 1
                         /\ FinalFrom(pr, t) \in 0 .. pr.T - 1
                         /\ \A k \in 0 .. FinalFrom(pr, t) - 1 :
                              t * pr.T + k \in 0 .. KTiles(pr) - 1
    <2> SUFFICES ASSUME NEW t \in tiles
                 PROVE  /\ t * pr.T + pr.T - 1 \in 0 .. KTiles(pr) - 1
                        /\ FinalFrom(pr, t) \in 0 .. pr.T - 1
                        /\ \A k \in 0 .. FinalFrom(pr, t) - 1 :
                             t * pr.T + k \in 0 .. KTiles(pr) - 1
      OBVIOUS
    <2>1. FinalFrom(pr, t) \in 0 .. pr.T - 1
      BY FinalSplit
    <2>2. pr.T \in Nat \ {0} /\ \A k \in 0 .. pr.T - 1 : t * pr.T + k \in 0 .. KTiles(pr) - 1
      BY OnTheLine
    <2>3. t * pr.T + pr.T - 1 \in 0 .. KTiles(pr) - 1
      <3>1. PICK b \in Nat, T \in Nat \ {0} : b = t * pr.T /\ T = pr.T
        BY OnTheLine
      <3>2. T - 1 \in 0 .. T - 1 /\ b + T - 1 = b + (T - 1)
        BY <3>1
      <3> QED BY <2>2, <3>1, <3>2
    <2> QED BY <2>1, <2>2, <2>3
  <1>6. DeviceTypes'
    BY <1>1, <1>2, <1>3 DEF DeviceTypes, Places
  <1>7. GroupInv'
    BY <1>1, <1>2, <1>3, ModOfSmall DEF GroupInv
  <1>8. PlaceInv'
    BY <1>1, <1>2 DEF PlaceInv, AtPlace
  <1>9. FlagInv'
    <2> SUFFICES ASSUME get_workspace_tiles(pr) > 0 PROVE FlagInv'
      BY <1>1 DEF FlagInv
    <2>1. flags' = [t \in tiles |-> 0]
      OBVIOUS
    <2>2. \A t \in tiles : /\ flags'[t] = 0 /\ flags'[t] \in 0 .. FinalFrom(pr, t)
                           /\ \A k \in 0 .. FinalFrom(pr, t) - 1 :
                                Met(t * pr.T + k)' <=> k < flags'[t]
      BY <1>4, <1>5, <2>1
    <2>3. flags' = [t \in tiles |-> flags'[t]]
      BY <2>1
    <2> QED BY <1>1, <1>2, <2>2, <2>3 DEF FlagInv
  <1>10. SlotInv'
    <2>1. ASSUME NEW t \in tiles, FinalFrom(pr, t) > 0 PROVE ~(flags'[t] > 0)
      <3>1. get_workspace_tiles(pr) > 0
        BY <2>1, SharedHasSlot
      <3> QED BY <3>1
    <2> QED BY <1>1, <1>2, <2>1 DEF SlotInv
  <1>11. OutputInv'
    <2>1. Unwritten' = [k \in Terms(pr) |-> 0]
      BY <1>1 DEF Unwritten
    <2> QED BY <1>1, <1>2, <1>4, <1>5, <2>1 DEF OutputInv
  <1> QED BY <1>6, <1>7, <1>8, <1>9, <1>10, <1>11 DEF LaunchInv

\* What a work-group that runs has at hand.
LEMMA AtWork ==
    ASSUME HostInv, GroupInv, NEW g \in WorkGroups, Working(g)
    PROVE  LET w == work[g]
               t == TileOf(g)
               f == FinalFrom(problem, t)
               u == idx[g]
           IN  /\ u \in UnitsOf(problem) /\ CutsAt(problem, u, Top(g))
               /\ w = Piece(problem, u, Top(g)) /\ u % get_grid_shape(problem) = g
               /\ is_valid(w) /\ t \in Tiles /\ t * problem.T \in Nat
               /\ problem.T \in Nat \ {0}
               /\ w.K_idx \in Nat /\ w.k_tile_count \in Nat \ {0}
               /\ w.K_idx + w.k_tile_count <= problem.T
               /\ t * problem.T + w.K_idx = Bottom(g) /\ Bottom(g) \in Nat
               /\ t * problem.T + w.K_idx + w.k_tile_count = Top(g) /\ Top(g) \in Nat
               /\ f \in 0 .. problem.T - 1
               /\ IF compute_epilogue(params, w)
                  THEN /\ w.K_idx + w.k_tile_count = problem.T /\ w.K_idx = f
                       /\ requires_fixup(params, w) <=> f > 0
                  ELSE /\ w.K_idx + w.k_tile_count <= f
                       /\ requires_fixup(params, w)
               /\ \A y \in Bottom(g) .. Top(g) - 1 :
                    y \in 0 .. KTiles(problem) - 1 /\ Owner(problem, y) = u
               /\ Bottom(g) < Top(g)
  <1>1. PICK pr \in Problems : pr = problem /\ params = initialize(pr)
    BY DEF HostInv
  <1>2. PICK u \in UnitsOf(pr) : u = idx[g]
    BY <1>1 DEF GroupInv
  <1>3. PICK e \in Nat : e = Top(g)
    BY DEF GroupInv
  <1>4. CutsAt(pr, u, e) /\ work[g] = Piece(pr, u, e) /\ u % get_grid_shape(pr) = g
    BY <1>1, <1>2, <1>3 DEF GroupInv
  <1>5. PICK w : w = Piece(pr, u, e)
    OBVIOUS
  <1>6. PICK t : t = TileBelow(pr, e)
    OBVIOUS
  <1>7. PICK a : a = From(pr, u, e)
    OBVIOUS
  <1>8. PICK f : f = FinalFrom(pr, t)
    OBVIOUS
  <1>9. /\ is_valid(w) /\ output_tile_index(params, w) = t
        /\ t \in 0 .. OutputTiles(pr) - 1 /\ t * pr.T \in Nat
        /\ w.K_idx \in Nat /\ w.k_tile_count \in Nat \ {0}
        /\ w.K_idx + w.k_tile_count <= pr.T
        /\ t * pr.T + w.K_idx = a
        /\ t * pr.T + w.K_idx + w.k_tile_count = e
        /\ Lo(pr, u) \in Nat /\ Hi(pr, u) \in Nat /\ Lo(pr, u) <= a /\ a \in Nat /\ e <= Hi(pr, u)
        /\ f \in 0 .. pr.T - 1
    BY <1>1, <1>4, <1>5, <1>6, <1>7, <1>8, PieceInTile
  <1>10. IF compute_epilogue(params, w)
         THEN /\ w.K_idx + w.k_tile_count = pr.T /\ w.K_idx = f
              /\ requires_fixup(params, w) <=> f > 0
         ELSE /\ w.K_idx + w.k_tile_count <= f
              /\ requires_fixup(params, w)
    BY <1>1, <1>4, <1>5, <1>6, <1>8, PieceInTile
  <1>11. a < e
    <2>1. PICK b \in Nat : b = t * pr.T
      BY <1>9
    <2> QED BY <1>9, <2>1
  <1>12. ASSUME NEW y \in a .. e - 1
         PROVE  y \in 0 .. KTiles(pr) - 1 /\ Owner(pr, y) = u
    <2>1. Hi(pr, u) <= KTiles(pr) /\ KTiles(pr) \in Nat
      BY HostAssumption, Units, ProblemTypes DEF PartitionLine, UnitsOf
    <2>2. y \in 0 .. KTiles(pr) - 1 /\ Lo(pr, u) <= y /\ y < Hi(pr, u)
      BY <1>9, <2>1
    <2> QED BY <2>2, OwnerIs
  <1>13. Bottom(g) = a /\ TileOf(g) = t /\ Tiles = 0 .. OutputTiles(pr) - 1 /\ pr.T \in Nat \ {0}
    BY <1>1, <1>2, <1>3, <1>4, <1>5, <1>7, <1>9, ProblemTypes DEF Bottom, TileOf, Tiles
  <1> QED BY <1>1, <1>2, <1>3, <1>4, <1>5, <1>8, <1>9, <1>10, <1>11, <1>12, <1>13

\* No two work-groups have the same position at hand.
LEMMA Apart ==
    ASSUME HostInv, GroupInv, NEW g \in WorkGroups, NEW h \in WorkGroups, Working(g), Working(h),
           NEW y, y \in Bottom(g) .. Top(g) - 1, y \in Bottom(h) .. Top(h) - 1
    PROVE  g = h
  <1>1. Owner(problem, y) = idx[g] /\ idx[g] % get_grid_shape(problem) = g
    BY AtWork
  <1>2. Owner(problem, y) = idx[h] /\ idx[h] % get_grid_shape(problem) = h
    BY AtWork
  <1> QED BY <1>1, <1>2

\* What is at hand has not been met before the work-group is done with it.
LEMMA AtHandNotMet ==
    ASSUME HostInv, GroupInv, NEW g \in WorkGroups, Working(g), where[g] # "fetch",
           NEW y \in Bottom(g) .. Top(g) - 1
    PROVE  ~Met(y)
  <1>1. Owner(problem, y) = idx[g] /\ idx[g] % get_grid_shape(problem) = g
        /\ Bottom(g) \in Nat /\ Top(g) \in Nat
    BY AtWork
  <1>2. idx[g] \in Nat
    BY AtWork, GroupOf DEF HostInv
  <1>3. ~(idx[g] < idx[g]) /\ ~(Top(g) <= y)
    BY <1>1, <1>2
  <1> QED BY <1>1, <1>3 DEF Met, Past

\* A work-group that goes on with the work at hand has met it when it comes to
\* fetch more, and not before.
LEMMA Moves ==
    ASSUME HostInv, LaunchInv, NEW g \in WorkGroups, Working(g), where[g] # "fetch",
           NEW place \in Places \ {"queued", "retired"}, Goto(g, place),
           UNCHANGED <<problem, params, idx, work>>
    PROVE  /\ GroupInv'
           /\ where' \in [WorkGroups -> Places] /\ where'[g] = place
           /\ \A h \in WorkGroups \ {g} : where'[h] = where[h]
           /\ \A h \in WorkGroups : /\ Working(h)' <=> Working(h)
                                    /\ Top(h)' = Top(h) /\ Bottom(h)' = Bottom(h)
                                    /\ TileOf(h)' = TileOf(h)
           /\ \A y \in 0 .. KTiles(problem) - 1 :
                Met(y)' <=> Met(y) \/ (place = "fetch" /\ y \in Bottom(g) .. Top(g) - 1)
  <1>1. /\ problem' = problem /\ params' = params /\ idx' = idx /\ work' = work
        /\ where' = [where EXCEPT ![g] = place] /\ where \in [WorkGroups -> Places]
    BY DEF Goto, LaunchInv, DeviceTypes
  <1>2. /\ where' \in [WorkGroups -> Places] /\ where'[g] = place
        /\ \A h \in WorkGroups \ {g} : where'[h] = where[h]
    BY <1>1
  <1>3. WorkGroups' = WorkGroups
    BY <1>1 DEF WorkGroups
  <1>4. \A h \in WorkGroups : /\ Working(h)' <=> Working(h)
                              /\ Top(h)' = Top(h) /\ Bottom(h)' = Bottom(h)
                              /\ TileOf(h)' = TileOf(h)
    BY <1>1, <1>2 DEF Working, Top, Bottom, TileOf
  <1>5. GroupInv'
    <2>1. \A h \in WorkGroups : where'[h] = "retired" <=> where[h] = "retired"
      BY <1>1, <1>2 DEF Working
    <2> QED BY <1>1, <1>3, <1>4, <2>1 DEF LaunchInv, GroupInv
  <1>6. ASSUME NEW y \in 0 .. KTiles(problem) - 1
        PROVE  Met(y)' <=> Met(y) \/ (place = "fetch" /\ y \in Bottom(g) .. Top(g) - 1)
    <2>1. PICK u \in UnitsOf(problem) : u = Owner(problem, y)
      BY OwnerIs DEF HostInv
    <2>2. PICK h \in WorkGroups : h = u % get_grid_shape(problem)
      BY GroupOf DEF HostInv, WorkGroups
    <2>3. /\ Met(y) <=> \/ u < idx[h]
                        \/ u = idx[h] /\ Working(h)
                             /\ (Top(h) <= y \/ (where[h] = "fetch" /\ Bottom(h) <= y))
          /\ Met(y)' <=> \/ u < idx[h]
                         \/ u = idx[h] /\ Working(h)
                              /\ (Top(h) <= y \/ (where'[h] = "fetch" /\ Bottom(h) <= y))
      <3>1. Met(y) <=> \/ u < idx[h]
                       \/ u = idx[h] /\ Working(h)
                            /\ (Top(h) <= y \/ (where[h] = "fetch" /\ Bottom(h) <= y))
        BY <2>1, <2>2 DEF Met, Past
      <3>2. Met(y)' <=> \/ u < idx'[h]
                        \/ u = idx'[h] /\ Working(h)'
                             /\ (Top(h)' <= y \/ (where'[h] = "fetch" /\ Bottom(h)' <= y))
        BY <1>1, <2>1, <2>2 DEF Met, Past
      <3> QED BY <1>1, <1>4, <3>1, <3>2
    <2>4. y \in Bottom(g) .. Top(g) - 1 => u = idx[g] /\ h = g
      BY <2>1, <2>2, AtWork DEF LaunchInv
    <2>5. CASE h = g /\ u = idx[g]
      <3>1. Bottom(g) \in Nat /\ Top(g) \in Nat /\ Bottom(g) < Top(g)
        BY AtWork DEF LaunchInv
      <3>2. ~(u < idx[h])
        <4>1. u \in Nat
          BY GroupOf DEF HostInv
        <4> QED BY <2>5, <4>1
      <3>3. y \in Bottom(g) .. Top(g) - 1 <=> Bottom(g) <= y /\ ~(Top(g) <= y)
        BY <3>1
      <3>4. Top(g) <= y => Bottom(g) <= y
        BY <3>1
      <3> QED BY <1>2, <2>3, <2>5, <3>2, <3>3, <3>4
    <2>6. CASE h = g /\ u # idx[g]
      BY <2>3, <2>4, <2>6
    <2>7. CASE h # g
      BY <1>2, <2>3, <2>4, <2>7
    <2> QED BY <2>5, <2>6, <2>7
  <1> QED BY <1>2, <1>4, <1>5, <1>6

\* A work-group that takes new work w of unit k, up to position e, has met no
\* more and no less than before.
Resumed(g) ==
    /\ GroupInv'
    /\ where' \in [WorkGroups -> Places] /\ where'[g] \in {"mainloop", "retired"}
    /\ idx' \in [WorkGroups -> Nat]
    /\ work' = [h \in WorkGroups |-> work'[h]]
    /\ \A h \in WorkGroups \ {g} : where'[h] = where[h] /\ work'[h] = work[h]
    /\ \A y \in 0 .. KTiles(problem) - 1 : Met(y)' <=> Met(y)

LEMMA Resumes ==
    ASSUME HostInv, LaunchInv, NEW g \in WorkGroups, NEW k \in Nat, NEW w, NEW e \in Nat,
           UNCHANGED <<problem, params>>,
           idx' = [idx EXCEPT ![g] = k], work' = [work EXCEPT ![g] = w],
           where' = [where EXCEPT ![g] = LoopPlace(w)],
           k % get_grid_shape(problem) = g,
           ~is_valid(w) => NumUnits(problem) <= k,
           is_valid(w) => /\ k \in UnitsOf(problem) /\ CutsAt(problem, k, e)
                          /\ w = Piece(problem, k, e),
           \A u \in UnitsOf(problem) : \A y \in Lo(problem, u) .. Hi(problem, u) - 1 :
              u % get_grid_shape(problem) = g =>
                (Past(u, y) <=> u < k \/ (u = k /\ is_valid(w) /\ e <= y))
    PROVE  Resumed(g)
  <1>1. PICK pr \in Problems : pr = problem /\ pr = problem' /\ params = initialize(pr)
    BY DEF HostInv
  <1>2. /\ where \in [WorkGroups -> Places] /\ idx \in [WorkGroups -> Nat]
        /\ work = [h \in WorkGroups |-> work[h]] /\ WorkGroups' = WorkGroups
    BY <1>1 DEF LaunchInv, DeviceTypes, WorkGroups
  <1>3. /\ where'[g] = LoopPlace(w) /\ idx'[g] = k /\ work'[g] = w
        /\ LoopPlace(w) = IF is_valid(w) THEN "mainloop" ELSE "retired"
    BY <1>2 DEF LoopPlace
  <1>4. \A h \in WorkGroups \ {g} :
           where'[h] = where[h] /\ idx'[h] = idx[h] /\ work'[h] = work[h]
    BY <1>2
  <1>5. /\ where' \in [WorkGroups -> Places] /\ where'[g] \in {"mainloop", "retired"}
        /\ idx' \in [WorkGroups -> Nat] /\ work' = [h \in WorkGroups |-> work'[h]]
    BY <1>2, <1>3 DEF Places
  <1>6. Working(g)' <=> is_valid(w)
    BY <1>3 DEF Working
  <1>7. is_valid(w) => Top(g)' = e
    <2> SUFFICES ASSUME is_valid(w) PROVE Top(g)' = e
      OBVIOUS
    <2>1. w.k_tile_remaining = e - Lo(pr, k) /\ Lo(pr, k) \in Nat
      BY <1>1, PieceInTile
    <2>2. Top(g)' = Lo(pr, k) + w.k_tile_remaining
      BY <1>1, <1>3 DEF Top
    <2> QED BY <2>1, <2>2
  <1>8. \A h \in WorkGroups \ {g} : /\ Working(h)' <=> Working(h)
                                    /\ Top(h)' = Top(h) /\ Bottom(h)' = Bottom(h)
    BY <1>1, <1>4 DEF Working, Top, Bottom
  <1>9. GroupInv'
    <2>1. ASSUME NEW h \in WorkGroups \ {g}
          PROVE  /\ idx'[h] % get_grid_shape(pr) = h
                 /\ where'[h] = "retired" => NumUnits(pr) <= idx'[h]
                 /\ Working(h)' => /\ idx'[h] \in UnitsOf(pr) /\ Top(h)' \in Nat
                                   /\ CutsAt(pr, idx'[h], Top(h)')
                                   /\ work'[h] = Piece(pr, idx'[h], Top(h)')
      BY <1>1, <1>4, <1>8 DEF LaunchInv, GroupInv
    <2>2. /\ idx'[g] % get_grid_shape(pr) = g
          /\ where'[g] = "retired" => NumUnits(pr) <= idx'[g]
          /\ Working(g)' => /\ idx'[g] \in UnitsOf(pr) /\ Top(g)' \in Nat
                            /\ CutsAt(pr, idx'[g], Top(g)')
                            /\ work'[g] = Piece(pr, idx'[g], Top(g)')
      BY <1>1, <1>3, <1>6, <1>7
    <2> QED BY <1>1, <1>2, <2>1, <2>2 DEF GroupInv
  <1>10. ASSUME NEW y \in 0 .. KTiles(problem) - 1 PROVE Met(y)' <=> Met(y)
    <2>1. PICK u \in UnitsOf(pr) : u = Owner(pr, y) /\ y \in Lo(pr, u) .. Hi(pr, u) - 1
      <3>1. Owner(pr, y) \in UnitsOf(pr) /\ Lo(pr, Owner(pr, y)) <= y /\ y < Hi(pr, Owner(pr, y))
        BY <1>1, OwnerIs
      <3>2. Lo(pr, Owner(pr, y)) \in Nat /\ Hi(pr, Owner(pr, y)) \in Nat
        BY <3>1, HostAssumption, Units DEF PartitionLine, UnitsOf
      <3> QED BY <1>1, <3>1, <3>2
    <2>2. PICK h \in WorkGroups : h = u % get_grid_shape(pr)
      BY <1>1, GroupOf DEF WorkGroups
    <2>3. /\ Met(y) <=> Past(u, y)
          /\ Met(y)' <=> \/ u < idx'[h]
                         \/ u = idx'[h] /\ Working(h)'
                              /\ (Top(h)' <= y \/ (where'[h] = "fetch" /\ Bottom(h)' <= y))
      BY <1>1, <2>1, <2>2 DEF Met, Past
    <2>4. CASE h = g
      <3>1. Met(y)' <=> u < k \/ (u = k /\ is_valid(w) /\ e <= y)
        BY <1>3, <1>6, <1>7, <2>3, <2>4
      <3> QED BY <1>1, <2>1, <2>2, <2>3, <2>4, <3>1
    <2>5. CASE h # g
      <3>1. Past(u, y) <=> \/ u < idx[h]
                           \/ u = idx[h] /\ Working(h)
                                /\ (Top(h) <= y \/ (where[h] = "fetch" /\ Bottom(h) <= y))
        BY <1>1, <2>2 DEF Past
      <3> QED BY <1>4, <1>8, <2>3, <2>5, <3>1
    <2> QED BY <2>4, <2>5
  <1> QED BY <1>4, <1>5, <1>9, <1>10 DEF Resumed

LEMMA DispatchResumes ==
    ASSUME HostInv, LaunchInv, NEW g \in WorkGroups, Dispatch(g)
    PROVE  Resumed(g)
  <1>1. PICK pr \in Problems : pr = problem /\ params = initialize(pr) /\ can_implement(pr)
    BY HostAssumption DEF HostInv
  <1>2. PICK k \in Nat : k = idx[g]
    BY DEF LaunchInv, DeviceTypes
  <1>3. PICK w : w = get_current_work(initialize(pr), k)
    OBVIOUS
  <1>4. /\ where[g] = "queued" /\ work' = [work EXCEPT ![g] = w]
        /\ UNCHANGED <<problem, params, idx>>
        /\ where' = [where EXCEPT ![g] = LoopPlace(w)]
    <2>1. work \in [WorkGroups -> {work[h] : h \in WorkGroups}]
      BY DEF LaunchInv, DeviceTypes
    <2> QED BY <1>1, <1>2, <1>3, <2>1 DEF Dispatch, Goto
  <1>5. idx' = [idx EXCEPT ![g] = k]
    BY <1>2, <1>4 DEF LaunchInv, DeviceTypes
  <1>6. k % get_grid_shape(pr) = g
    BY <1>1, <1>2 DEF LaunchInv, GroupInv
  <1>7. /\ ~is_valid(w) => NumUnits(pr) <= k
        /\ is_valid(w) => /\ k \in UnitsOf(pr) /\ Hi(pr, k) \in Nat /\ CutsAt(pr, k, Hi(pr, k))
                          /\ w = Piece(pr, k, Hi(pr, k))
    BY <1>1, <1>3, FreshWork
  <1>8. PICK e \in Nat : is_valid(w) => e = Hi(pr, k)
    BY <1>7
  <1>9. ASSUME NEW u \in UnitsOf(pr), NEW y \in Lo(pr, u) .. Hi(pr, u) - 1,
               u % get_grid_shape(pr) = g
        PROVE  Past(u, y) <=> u < k \/ (u = k /\ is_valid(w) /\ e <= y)
    <2>1. ~Working(g)
      BY <1>4 DEF Working
    <2>2. Past(u, y) <=> u < k
      BY <1>1, <1>2, <1>9, <2>1 DEF Past
    <2>3. ~(u = k /\ is_valid(w) /\ e <= y)
      BY <1>7, <1>8
    <2> QED BY <2>2, <2>3
  <1>10. /\ k % get_grid_shape(problem) = g
         /\ ~is_valid(w) => NumUnits(problem) <= k
         /\ is_valid(w) => /\ k \in UnitsOf(problem) /\ CutsAt(problem, k, e)
                           /\ w = Piece(problem, k, e)
    BY <1>1, <1>6, <1>7, <1>8
  <1>11. \A u \in UnitsOf(problem) : \A y \in Lo(problem, u) .. Hi(problem, u) - 1 :
            u % get_grid_shape(problem) = g =>
              (Past(u, y) <=> u < k \/ (u = k /\ is_valid(w) /\ e <= y))
    BY <1>1, <1>9
  <1> QED BY <1>4, <1>5, <1>10, <1>11, Resumes

LEMMA FetchResumes ==
    ASSUME HostInv, LaunchInv, NEW g \in WorkGroups, FetchNext(g)
    PROVE  Resumed(g)
  <1>1. PICK pr \in Problems : pr = problem /\ params = initialize(pr) /\ can_implement(pr)
    BY HostAssumption DEF HostInv
  <1>2. where[g] = "fetch" /\ Working(g)
    BY DEF FetchNext, Working
  <1>3. PICK v \in UnitsOf(pr) : v = idx[g] /\ v % get_grid_shape(pr) = g
    BY <1>1, <1>2, AtWork DEF LaunchInv
  <1>4. PICK e \in Nat : e = Top(g)
    BY <1>2, AtWork DEF LaunchInv
  <1>5. PICK f \in Nat : f = Bottom(g)
    BY <1>2, AtWork DEF LaunchInv
  <1>6. /\ CutsAt(pr, v, e) /\ work[g] = Piece(pr, v, e) /\ f < e /\ f = From(pr, v, e)
        /\ v \in 0 .. NumUnits(pr) - 1 /\ Lo(pr, v) < e /\ e <= Hi(pr, v)
    BY <1>1, <1>2, <1>3, <1>4, <1>5, AtWork DEF LaunchInv, Bottom, UnitsOf, CutsAt
  <1>7. Lo(pr, v) \in Nat /\ Hi(pr, v) \in Nat /\ v \in Nat
    BY <1>1, <1>3, GroupOf, Units DEF PartitionLine, UnitsOf
  <1>8. PICK n \in Nat \ {0} : n = get_grid_shape(pr)
    BY ProblemTypes
  <1>9. PICK k \in Nat, w \in {get_current_work(initialize(pr), v + n), Piece(pr, v, f)} :
            IF f = Lo(pr, v) THEN k = v + n /\ w = get_current_work(initialize(pr), v + n)
                             ELSE k = v /\ w = Piece(pr, v, f)
    BY <1>7
  <1>10. fetch_next_work(initialize(pr), n, v, Piece(pr, v, e)) = <<k, w>>
    BY <1>1, <1>6, <1>9, Fetch
  <1>11. /\ UNCHANGED <<problem, params>> /\ idx' = [idx EXCEPT ![g] = k]
         /\ work' = [work EXCEPT ![g] = w] /\ where' = [where EXCEPT ![g] = LoopPlace(w)]
    <2>1. /\ UNCHANGED <<problem, params>> /\ idx' = [idx EXCEPT ![g] = k]
          /\ work' = [work EXCEPT ![g] = w] /\ where' = [where EXCEPT ![g] = LoopPlace(work'[g])]
      BY <1>1, <1>3, <1>6, <1>8, <1>10 DEF FetchNext, Goto
    <2>2. work'[g] = w
      BY <2>1 DEF LaunchInv, DeviceTypes
    <2> QED BY <2>1, <2>2
  <1>12. \A u \in UnitsOf(pr) : \A y : u % n = g =>
            (Past(u, y) <=> u < v \/ (u = v /\ (e <= y \/ f <= y)))
    BY <1>1, <1>2, <1>3, <1>4, <1>5, <1>8 DEF Past
  <1>13. CASE f # Lo(pr, v)
    <2>1. k = v /\ w = Piece(pr, v, f)
      BY <1>9, <1>13
    <2>2. /\ Lo(pr, v) <= f /\ (f = TileBelow(pr, e) * pr.T \/ f = Lo(pr, v))
          /\ TileBelow(pr, e) \in Nat
      BY <1>1, <1>6, PieceIs, Units
    <2>3. CutsAt(pr, v, f) /\ Lo(pr, v) < f /\ f <= Hi(pr, v)
      BY <1>6, <1>7, <1>13, <2>2 DEF CutsAt
    <2>4. is_valid(w)
      BY <2>1, <2>3, PieceInTile
    <2>5. ASSUME NEW u \in UnitsOf(pr), NEW y \in Lo(pr, u) .. Hi(pr, u) - 1, u % n = g
          PROVE  Past(u, y) <=> u < k \/ (u = k /\ is_valid(w) /\ f <= y)
      <3>1. u = v => (e <= y => f <= y)
        BY <1>6, <1>7
      <3> QED BY <1>12, <2>1, <2>4, <2>5, <3>1
    <2>6. /\ k % get_grid_shape(problem) = g
          /\ is_valid(w) /\ k \in UnitsOf(problem) /\ CutsAt(problem, k, f)
          /\ w = Piece(problem, k, f)
      BY <1>1, <1>3, <2>1, <2>3, <2>4
    <2>7. \A u \in UnitsOf(problem) : \A y \in Lo(problem, u) .. Hi(problem, u) - 1 :
             u % get_grid_shape(problem) = g =>
               (Past(u, y) <=> u < k \/ (u = k /\ is_valid(w) /\ f <= y))
      BY <1>1, <1>8, <2>5
    <2> QED BY <1>11, <2>6, <2>7, Resumes
  <1>14. CASE f = Lo(pr, v)
    <2>1. k = v + n /\ w = get_current_work(initialize(pr), k)
      BY <1>9, <1>14
    <2>2. /\ ~is_valid(w) => NumUnits(pr) <= k
          /\ is_valid(w) => /\ k \in UnitsOf(pr) /\ Hi(pr, k) \in Nat /\ CutsAt(pr, k, Hi(pr, k))
                            /\ w = Piece(pr, k, Hi(pr, k))
      BY <1>1, <2>1, FreshWork
    <2>3. PICK d \in Nat : is_valid(w) => d = Hi(pr, k)
      BY <2>2
    <2>4. k % n = g /\ \A b \in Nat : v <= b /\ b < k /\ b % n = g => b = v
      <3>1. (v + n) % n = v % n
            /\ \A b \in Nat : v <= b /\ b < v + n /\ b % n = v % n => b = v
        BY <1>7, ModStep
      <3> QED BY <1>3, <1>8, <2>1, <3>1
    <2>5. ASSUME NEW u \in UnitsOf(pr), NEW y \in Lo(pr, u) .. Hi(pr, u) - 1, u % n = g
          PROVE  Past(u, y) <=> u < k \/ (u = k /\ is_valid(w) /\ d <= y)
      <3>1. u \in Nat
        BY GroupOf
      <3>2. ~(u = k /\ is_valid(w) /\ d <= y)
        BY <2>2, <2>3
      <3>3. u < k <=> u < v \/ u = v
        BY <1>7, <2>1, <2>4, <2>5, <3>1
      <3>4. u = v => f <= y
        BY <1>7, <1>14
      <3> QED BY <1>12, <2>5, <3>2, <3>3, <3>4
    <2>6. /\ k % get_grid_shape(problem) = g
          /\ ~is_valid(w) => NumUnits(problem) <= k
          /\ is_valid(w) => /\ k \in UnitsOf(problem) /\ CutsAt(problem, k, d)
                            /\ w = Piece(problem, k, d)
      BY <1>1, <1>8, <2>2, <2>3, <2>4
    <2>7. \A u \in UnitsOf(problem) : \A y \in Lo(problem, u) .. Hi(problem, u) - 1 :
             u % get_grid_shape(problem) = g =>
               (Past(u, y) <=> u < k \/ (u = k /\ is_valid(w) /\ d <= y))
      BY <1>1, <1>8, <2>5
    <2> QED BY <1>11, <2>6, <2>7, Resumes
  <1> QED BY <1>13, <1>14

-----------------------------------------------------------------------------
(* What a step leaves alone.                                               *)

\* A relaunch is of a problem without shared tiles, and a reduction in any
\* order is of two splits: what the kernel's results rest on.
RelaunchSharesNothing == \A pr \in Relaunched : get_workspace_tiles(pr) = 0

AnyOrderOfTwo ==
    \A pr \in Problems : pr.reduction_mode = "Deterministic" \/ initialize(pr).splits <= 2

\* The positions of tile s that a work-group has at hand.
LEMMA AtHandOfTile ==
    ASSUME HostInv, GroupInv, NEW g \in WorkGroups, Working(g),
           NEW s \in Tiles, NEW k \in 0 .. problem.T - 1
    PROVE  s * problem.T + k \in Bottom(g) .. Top(g) - 1
             <=> /\ s = TileOf(g)
                 /\ work[g].K_idx <= k /\ k < work[g].K_idx + work[g].k_tile_count
  <1>1. PICK T \in Nat \ {0} : T = problem.T
    BY AtWork
  <1>2. PICK t \in Nat, b \in Nat : t = TileOf(g) /\ b = t * T /\ t \in Tiles
    BY <1>1, AtWork DEF HostInv, Tiles
  <1>3. PICK i \in Nat, n \in Nat \ {0} : i = work[g].K_idx /\ n = work[g].k_tile_count
    BY AtWork
  <1>4. Bottom(g) = b + i /\ Top(g) = b + i + n /\ i + n <= T
    BY <1>1, <1>2, <1>3, AtWork
  <1>5. PICK c \in Nat : c = s * T
    BY <1>1, TimesTypes DEF Tiles, HostInv
  <1>6. s = t => c = b
    BY <1>2, <1>5
  <1>7. ASSUME c + k \in b + i .. b + i + n - 1 PROVE s = t
    <2>1. PICK r \in 0 .. T - 1 : c + k = b + r
      <3>1. (c + k) - b \in 0 .. T - 1 /\ c + k = b + ((c + k) - b)
        BY <1>1, <1>4, <1>7
      <3> QED BY <3>1
    <2>2. s * T + k = t * T + r /\ s \in Nat /\ k \in 0 .. T - 1
      BY <1>1, <1>2, <1>5, <2>1 DEF Tiles
    <2> QED BY <1>1, <2>2, QuotientUnique
  <1>8. c + k \in b + i .. b + i + n - 1 <=> s = t /\ i <= k /\ k < i + n
    BY <1>1, <1>6, <1>7
  <1> QED BY <1>1, <1>2, <1>3, <1>4, <1>5, <1>8

\* Two work-groups on the same tile start at different k tiles.
LEMMA TurnsDiffer ==
    ASSUME HostInv, GroupInv, NEW g \in WorkGroups, NEW h \in WorkGroups, Working(g), Working(h),
           TileOf(g) = TileOf(h), work[g].K_idx = work[h].K_idx
    PROVE  g = h
  <1>1. Bottom(g) = Bottom(h)
    BY AtWork
  <1>2. Bottom(g) \in Bottom(g) .. Top(g) - 1 /\ Bottom(h) \in Bottom(h) .. Top(h) - 1
    BY AtWork
  <1> QED BY <1>1, <1>2, Apart

\* Positions of a tile are on the line.
LEMMA TilesOnLine ==
    ASSUME HostInv, NEW t \in Tiles
    PROVE  /\ FinalFrom(problem, t) \in 0 .. problem.T - 1 /\ problem.T \in Nat \ {0}
           /\ problem.T - 1 \in 0 .. problem.T - 1
           /\ t * problem.T + problem.T - 1 = t * problem.T + (problem.T - 1)
           /\ \A k \in 0 .. problem.T - 1 : t * problem.T + k \in 0 .. KTiles(problem) - 1
           /\ t * problem.T + problem.T - 1 \in 0 .. KTiles(problem) - 1
  <1>1. PICK pr \in Problems : pr = problem
    BY DEF HostInv
  <1>2. t \in 0 .. OutputTiles(pr) - 1
    BY <1>1 DEF Tiles
  <1>3. FinalFrom(pr, t) \in 0 .. pr.T - 1
    BY <1>2, FinalSplit
  <1>4. PICK b \in Nat, T \in Nat \ {0} : b = t * pr.T /\ T = pr.T
    BY <1>2, OnTheLine
  <1>5. \A k \in 0 .. T - 1 : b + k \in 0 .. KTiles(pr) - 1
    BY <1>2, <1>4, OnTheLine
  <1>6. b + T - 1 = b + (T - 1) /\ T - 1 \in 0 .. T - 1
    BY <1>4
  <1>7. b + T - 1 \in 0 .. KTiles(pr) - 1
    BY <1>5, <1>6
  <1> QED BY <1>1, <1>3, <1>4, <1>5, <1>6, <1>7

\* Flags, slots and tiles that are left alone keep their meaning when nothing
\* more is met and nobody leaves his turn.
LEMMA SameFlags ==
    ASSUME HostInv, FlagInv, UNCHANGED <<problem, flags>>,
           \A t \in Tiles, k \in 0 .. problem.T - 1 :
              k < FinalFrom(problem, t) =>
                (Met(t * problem.T + k)' <=> Met(t * problem.T + k))
    PROVE  FlagInv'
  <1> SUFFICES ASSUME get_workspace_tiles(problem) > 0 PROVE FlagInv'
    BY DEF FlagInv
  <1>1. problem' = problem /\ flags' = flags /\ Tiles' = Tiles
    BY DEF Tiles
  <1>2. ASSUME NEW t \in Tiles
        PROVE  /\ flags[t] \in 0 .. FinalFrom(problem, t)
               /\ \A k \in 0 .. FinalFrom(problem, t) - 1 :
                    Met(t * problem.T + k)' <=> k < flags[t]
    <2>1. /\ flags[t] \in 0 .. FinalFrom(problem, t)
          /\ \A k \in 0 .. FinalFrom(problem, t) - 1 :
               Met(t * problem.T + k) <=> k < flags[t]
      BY DEF FlagInv
    <2>2. \A k \in 0 .. FinalFrom(problem, t) - 1 :
             k \in 0 .. problem.T - 1 /\ k < FinalFrom(problem, t)
      BY TilesOnLine
    <2> QED BY <2>1, <2>2
  <1>3. flags = [t \in Tiles |-> flags[t]]
    BY DEF FlagInv
  <1> QED BY <1>1, <1>2, <1>3 DEF FlagInv

LEMMA SameOutput ==
    ASSUME HostInv, OutputInv, UNCHANGED <<problem, D>>,
           \A t \in Tiles : Met(t * problem.T + problem.T - 1)'
                              <=> Met(t * problem.T + problem.T - 1)
    PROVE  OutputInv'
  <1>1. problem' = problem /\ D' = D /\ Tiles' = Tiles
    BY DEF Tiles
  <1>2. Complete' = Complete /\ Unwritten' = Unwritten
    BY <1>1 DEF Complete, Unwritten, Terms
  <1> QED BY <1>1, <1>2 DEF OutputInv

LEMMA SameSlots ==
    ASSUME SlotInv, UNCHANGED <<problem, flags, slots>>,
           \A h \in WorkGroups : where[h] = "arrive" => where'[h] = "arrive" /\ TileOf(h)' = TileOf(h)
    PROVE  SlotInv'
  <1>1. /\ problem' = problem /\ flags' = flags /\ slots' = slots
        /\ Tiles' = Tiles /\ WorkGroups' = WorkGroups
    BY DEF Tiles, WorkGroups
  <1>2. \A n : UpTo(n)' = UpTo(n)
    BY <1>1 DEF UpTo, Terms
  <1> SUFFICES ASSUME NEW t \in Tiles, FinalFrom(problem, t) > 0, flags[t] > 0,
                      \A h \in WorkGroups : where'[h] = "arrive" => TileOf(h)' # t
               PROVE  slots[t] = UpTo(flags[t])
    BY <1>1, <1>2 DEF SlotInv
  <1>3. \A h \in WorkGroups : where[h] = "arrive" => TileOf(h) # t
    OBVIOUS
  <1> QED BY <1>3 DEF SlotInv

\* What is known of a work-group's place stays true while flags and slots of
\* its tile are left alone.
LEMMA SamePlace ==
    ASSUME UNCHANGED <<problem, params>>, NEW h,
           where'[h] = where[h], work'[h] = work[h], acc'[h] = acc[h],
           where[h] \in {"reduce", "arrive"} => flags'[TileOf(h)] = flags[TileOf(h)],
           where[h] = "arrive" => slots'[TileOf(h)] = slots[TileOf(h)],
           PlaceInv, h \in WorkGroups
    PROVE  AtPlace(h)'
  <1>1. /\ TileOf(h)' = TileOf(h) /\ Product(work[h])' = Product(work[h])
        /\ Complete' = Complete
        /\ UpTo(work[h].K_idx + work[h].k_tile_count)'
             = UpTo(work[h].K_idx + work[h].k_tile_count)
        /\ compute_epilogue(params, work[h])' <=> compute_epilogue(params, work[h])
        /\ requires_fixup(params, work[h])' <=> requires_fixup(params, work[h])
    BY DEF TileOf, Product, Complete, UpTo, Terms, compute_epilogue, requires_fixup,
           is_valid, is_final_split
  <1> QED BY <1>1 DEF PlaceInv, AtPlace

-----------------------------------------------------------------------------
(* The steps of a work-group.                                              *)

LEMMA ResumedInv ==
    ASSUME HostInv, LaunchInv, NEW g \in WorkGroups, Resumed(g), where[g] # "arrive",
           UNCHANGED <<problem, params, flags, acc, slots, D>>
    PROVE  LaunchInv'
  <1>1. /\ GroupInv' /\ where' \in [WorkGroups -> Places] /\ where'[g] \in {"mainloop", "retired"}
        /\ idx' \in [WorkGroups -> Nat] /\ work' = [h \in WorkGroups |-> work'[h]]
        /\ \A h \in WorkGroups \ {g} : where'[h] = where[h] /\ work'[h] = work[h]
        /\ \A y \in 0 .. KTiles(problem) - 1 : Met(y)' <=> Met(y)
    BY DEF Resumed
  <1>2. WorkGroups' = WorkGroups /\ Tiles' = Tiles /\ Terms(problem)' = Terms(problem)
    BY DEF WorkGroups, Tiles, Terms
  <1>3. DeviceTypes'
    BY <1>1, <1>2 DEF LaunchInv, DeviceTypes
  <1>4. PlaceInv'
    <2>1. ASSUME NEW h \in WorkGroups \ {g} PROVE AtPlace(h)'
      BY <1>1, SamePlace DEF LaunchInv
    <2>2. AtPlace(g)'
      BY <1>1 DEF AtPlace
    <2> QED BY <1>2, <2>1, <2>2 DEF PlaceInv
  <1>5. FlagInv'
    BY <1>1, SameFlags, TilesOnLine DEF LaunchInv
  <1>6. SlotInv'
    <2>1. \A h \in WorkGroups : where[h] = "arrive" => where'[h] = "arrive" /\ TileOf(h)' = TileOf(h)
      BY <1>1 DEF TileOf
    <2> QED BY <2>1, SameSlots DEF LaunchInv
  <1>7. OutputInv'
    BY <1>1, SameOutput, TilesOnLine DEF LaunchInv
  <1> QED BY <1>1, <1>3, <1>4, <1>5, <1>6, <1>7 DEF LaunchInv

LEMMA MainloopInv ==
    ASSUME HostInv, LaunchInv, NEW g \in WorkGroups, Mainloop(g)
    PROVE  LaunchInv'
  <1>1. PICK place : place = AfterMainloop(work[g])
    OBVIOUS
  <1>2. PICK w : w = work[g]
    OBVIOUS
  <1>3. /\ where[g] = "mainloop" /\ Goto(g, place)
        /\ acc' = [acc EXCEPT ![g] = Product(w)]
        /\ UNCHANGED <<problem, params, idx, work, flags, slots, D>>
    BY <1>1, <1>2 DEF Mainloop
  <1>4. Working(g)
    BY <1>3 DEF Working
  <1>5. PICK T \in Nat \ {0} : T = problem.T
    BY <1>4, AtWork DEF LaunchInv
  <1>6. /\ w.K_idx \in Nat /\ w.k_tile_count \in Nat \ {0} /\ w.K_idx + w.k_tile_count <= T
        /\ FinalFrom(problem, TileOf(g)) \in Nat
        /\ IF compute_epilogue(params, w)
           THEN /\ w.K_idx + w.k_tile_count = T /\ w.K_idx = FinalFrom(problem, TileOf(g))
                /\ requires_fixup(params, w) <=> FinalFrom(problem, TileOf(g)) > 0
           ELSE requires_fixup(params, w)
    <2>1. FinalFrom(problem, TileOf(g)) \in 0 .. problem.T - 1
      BY <1>4, AtWork DEF LaunchInv
    <2> QED BY <1>2, <1>4, <1>5, <2>1, AtWork DEF LaunchInv
  <1>7. \/ place = "fixup" /\ requires_fixup(params, w)
        \/ /\ place = "epilogue" /\ compute_epilogue(params, w)
           /\ w.K_idx = 0 /\ w.k_tile_count = T
    BY <1>1, <1>2, <1>6 DEF AfterMainloop
  <1>8. place \in Places \ {"queued", "retired"}
    BY <1>7 DEF Places
  <1>9. /\ GroupInv' /\ where' \in [WorkGroups -> Places] /\ where'[g] = place
        /\ \A h \in WorkGroups \ {g} : where'[h] = where[h]
        /\ \A h \in WorkGroups : TileOf(h)' = TileOf(h)
        /\ \A y \in 0 .. KTiles(problem) - 1 : Met(y)' <=> Met(y)
    BY <1>3, <1>4, <1>7, <1>8, Moves
  <1>10. WorkGroups' = WorkGroups /\ Tiles' = Tiles /\ Terms(problem)' = Terms(problem)
    BY <1>3 DEF WorkGroups, Tiles, Terms
  <1>11. acc'[g] = Product(w) /\ \A h \in WorkGroups \ {g} : acc'[h] = acc[h]
    BY <1>3 DEF LaunchInv, DeviceTypes
  <1>12. DeviceTypes'
    <2>1. Product(w) \in [Terms(problem) -> Nat]
      BY DEF Product
    <2> QED BY <1>3, <1>9, <1>10, <2>1 DEF LaunchInv, DeviceTypes
  <1>13. PlaceInv'
    <2>1. ASSUME NEW h \in WorkGroups \ {g} PROVE AtPlace(h)'
      BY <1>3, <1>9, <1>11, SamePlace DEF LaunchInv
    <2>2. AtPlace(g)'
      <3>1. /\ params' = params /\ work'[g] = w /\ acc'[g] = Product(w) /\ Product(w)' = Product(w)
            /\ Complete' = Complete
        BY <1>2, <1>3, <1>11 DEF Product, Complete, Terms
      <3>2. CASE place = "fixup" /\ requires_fixup(params, w)
        BY <1>2, <1>3, <1>9, <3>1, <3>2 DEF AtPlace
      <3>3. CASE /\ place = "epilogue" /\ compute_epilogue(params, w)
                 /\ w.K_idx = 0 /\ w.k_tile_count = T
        <4>1. Product(w) = Complete
          <5>1. \A k \in Terms(problem) : k \in 0 .. T - 1 <=> k # Stale
            BY <1>5 DEF Terms, Stale
          <5>2. 0 + T - 1 = T - 1
            OBVIOUS
          <5> QED BY <3>3, <5>1, <5>2 DEF Product, Complete
        <4> QED BY <1>2, <1>3, <1>9, <3>1, <3>3, <4>1 DEF AtPlace
      <3> QED BY <1>7, <3>2, <3>3
    <2> QED BY <1>10, <2>1, <2>2 DEF PlaceInv
  <1>14. FlagInv'
    BY <1>3, <1>9, SameFlags, TilesOnLine DEF LaunchInv
  <1>15. SlotInv'
    <2>1. \A h \in WorkGroups : where[h] = "arrive" => where'[h] = "arrive" /\ TileOf(h)' = TileOf(h)
      BY <1>3, <1>9
    <2> QED BY <1>3, <2>1, SameSlots DEF LaunchInv
  <1>16. OutputInv'
    BY <1>3, <1>9, SameOutput, TilesOnLine DEF LaunchInv
  <1> QED BY <1>9, <1>12, <1>13, <1>14, <1>15, <1>16 DEF LaunchInv

\* A tile with a split below the final one has a flag, which counts the k
\* tiles met.
LEMMA SharedTile ==
    ASSUME HostInv, LaunchInv, NEW t \in Tiles, FinalFrom(problem, t) > 0
    PROVE  /\ get_workspace_tiles(problem) > 0
           /\ flags = [s \in Tiles |-> flags[s]]
           /\ flags[t] \in 0 .. FinalFrom(problem, t)
           /\ \A k \in 0 .. FinalFrom(problem, t) - 1 : Met(t * problem.T + k) <=> k < flags[t]
  <1>1. get_workspace_tiles(problem) > 0
    BY SharedHasSlot DEF HostInv, Tiles
  <1> QED BY <1>1 DEF LaunchInv, FlagInv

\* Steps that change neither flags nor output, and after which nothing more is met.
LEMMA TurnKept ==
    ASSUME HostInv, LaunchInv, NEW g \in WorkGroups, Working(g), where[g] # "fetch",
           NEW place \in Places \ {"queued", "retired", "fetch"}, Goto(g, place),
           UNCHANGED <<problem, params, idx, work, flags, D>>,
           acc' \in [WorkGroups -> [Terms(problem) -> Nat]],
           slots' \in [Tiles -> [Terms(problem) -> Nat]],
           AtPlace(g)',
           \A h \in WorkGroups \ {g} : acc'[h] = acc[h],
           \A h \in WorkGroups \ {g} : where[h] = "arrive" => slots'[TileOf(h)] = slots[TileOf(h)],
           SlotInv'
    PROVE  LaunchInv'
  <1>1. /\ GroupInv' /\ where' \in [WorkGroups -> Places] /\ where'[g] = place
        /\ \A h \in WorkGroups \ {g} : where'[h] = where[h]
        /\ \A y \in 0 .. KTiles(problem) - 1 : Met(y)' <=> Met(y)
    BY Moves
  <1>2. WorkGroups' = WorkGroups /\ Tiles' = Tiles /\ Terms(problem)' = Terms(problem)
    BY DEF WorkGroups, Tiles, Terms
  <1>3. DeviceTypes'
    BY <1>1, <1>2 DEF LaunchInv, DeviceTypes
  <1>4. PlaceInv'
    <2>1. ASSUME NEW h \in WorkGroups \ {g} PROVE AtPlace(h)'
      BY <1>1, SamePlace DEF LaunchInv
    <2> QED BY <1>2, <2>1 DEF PlaceInv
  <1>5. FlagInv'
    BY <1>1, SameFlags, TilesOnLine DEF LaunchInv
  <1>6. OutputInv'
    BY <1>1, SameOutput, TilesOnLine DEF LaunchInv
  <1> QED BY <1>1, <1>3, <1>4, <1>5, <1>6 DEF LaunchInv

\* A split below the final one adds its k tiles to the slot in its turn.
LEMMA AddsToSlot ==
    ASSUME HostInv, LaunchInv, NEW g \in WorkGroups, where[g] \in {"fixup", "reduce"},
           ~compute_epilogue(params, work[g]), flags[TileOf(g)] = work[g].K_idx,
           slots' = [slots EXCEPT ![TileOf(g)] = UpTo(work[g].K_idx + work[g].k_tile_count)],
           Goto(g, "arrive"), UNCHANGED <<problem, params, idx, work, acc, flags, D>>
    PROVE  LaunchInv'
  <1> DEFINE t == TileOf(g)
             n == work[g].K_idx + work[g].k_tile_count
  <1>1. Working(g) /\ where[g] # "fetch" /\ where[g] # "arrive"
    BY DEF Working
  <1>2. t \in Tiles
    BY <1>1, AtWork DEF LaunchInv
  <1>3. /\ where' = [where EXCEPT ![g] = "arrive"] /\ where \in [WorkGroups -> Places]
        /\ slots \in [Tiles -> [Terms(problem) -> Nat]]
    BY DEF Goto, LaunchInv, DeviceTypes
  <1>4. /\ slots'[t] = UpTo(n) /\ slots' \in [Tiles -> [Terms(problem) -> Nat]]
        /\ \A s \in Tiles \ {t} : slots'[s] = slots[s]
    <2>1. UpTo(n) \in [Terms(problem) -> Nat]
      BY DEF UpTo
    <2> QED BY <1>2, <1>3, <2>1
  <1>5. \A h \in WorkGroups \ {g} : where[h] = "arrive" => TileOf(h) \in Tiles \ {t}
    <2> SUFFICES ASSUME NEW h \in WorkGroups \ {g}, where[h] = "arrive"
                 PROVE  TileOf(h) \in Tiles /\ TileOf(h) # t
      OBVIOUS
    <2>1. Working(h)
      BY DEF Working
    <2>2. TileOf(h) \in Tiles
      BY <2>1, AtWork DEF LaunchInv
    <2>3. flags[TileOf(h)] = work[h].K_idx
      BY DEF LaunchInv, PlaceInv, AtPlace
    <2>4. TileOf(h) # t
      BY <1>1, <2>1, <2>3, TurnsDiffer DEF LaunchInv
    <2> QED BY <2>2, <2>4
  <1>6. /\ TileOf(g)' = t /\ \A h \in WorkGroups : TileOf(h)' = TileOf(h)
        /\ Tiles' = Tiles /\ WorkGroups' = WorkGroups /\ (\A m : UpTo(m)' = UpTo(m))
    BY DEF TileOf, Tiles, WorkGroups, UpTo, Terms
  <1>7. AtPlace(g)'
    <2>1. /\ where'[g] = "arrive" /\ requires_fixup(params, work[g]) /\ acc[g] = Product(work[g])
      BY <1>3 DEF LaunchInv, PlaceInv, AtPlace
    <2>2. Product(work[g])' = Product(work[g])
      BY DEF Product, Terms
    <2> QED BY <1>4, <1>6, <2>1, <2>2 DEF AtPlace
  <1>8. SlotInv'
    <2> SUFFICES ASSUME NEW s \in Tiles, FinalFrom(problem, s) > 0, flags[s] > 0,
                        \A h \in WorkGroups : where'[h] = "arrive" => TileOf(h) # s
                 PROVE  slots'[s] = UpTo(flags[s])
      BY <1>6 DEF SlotInv
    <2>1. s # t
      BY <1>3
    <2>2. \A h \in WorkGroups : where[h] = "arrive" => TileOf(h) # s
      BY <1>1, <1>3
    <2> QED BY <1>4, <2>1, <2>2 DEF LaunchInv, SlotInv
  <1>9. acc' \in [WorkGroups -> [Terms(problem) -> Nat]]
    BY DEF LaunchInv, DeviceTypes
  <1>10. "arrive" \in Places \ {"queued", "retired", "fetch"}
    BY DEF Places
  <1> QED BY <1>1, <1>4, <1>5, <1>7, <1>8, <1>9, <1>10, TurnKept

LEMMA StoreInv ==
    ASSUME HostInv, LaunchInv, NEW g \in WorkGroups, Store(g)
    PROVE  LaunchInv'
  <1> DEFINE t == TileOf(g)
             w == work[g]
  <1>1. /\ where[g] = "fixup" /\ Working(g) /\ ~compute_epilogue(params, w) /\ w.K_idx = 0
        /\ slots' = [slots EXCEPT ![t] = acc[g]] /\ Goto(g, "arrive")
        /\ UNCHANGED <<problem, params, idx, work, acc, flags, D>>
    BY DEF Store, Working
  <1>2. /\ t \in Tiles /\ w.k_tile_count \in Nat \ {0}
        /\ FinalFrom(problem, t) \in 0 .. problem.T - 1
        /\ w.K_idx + w.k_tile_count <= FinalFrom(problem, t) /\ problem.T \in Nat \ {0}
    BY <1>1, AtWork DEF LaunchInv
  <1>3. FinalFrom(problem, t) > 0 /\ 0 \in 0 .. FinalFrom(problem, t) - 1
        /\ 0 \in 0 .. problem.T - 1
    <2>1. PICK f \in Nat, k \in Nat, n \in Nat \ {0} :
              f = FinalFrom(problem, t) /\ k = w.K_idx /\ n = w.k_tile_count /\ k + n <= f
      BY <1>1, <1>2
    <2> QED BY <1>2, <2>1
  <1>4. flags[t] = 0
    <2>1. t * problem.T + 0 \in Bottom(g) .. Top(g) - 1
      BY <1>1, <1>2, <1>3, AtHandOfTile DEF LaunchInv
    <2>2. ~Met(t * problem.T + 0)
      BY <1>1, <2>1, AtHandNotMet DEF LaunchInv
    <2>3. ~(0 < flags[t]) /\ flags[t] \in Nat
      BY <1>2, <1>3, <2>2, SharedTile
    <2> QED BY <2>3
  <1>5. acc[g] = UpTo(w.K_idx + w.k_tile_count)
    <2>1. acc[g] = Product(w)
      BY <1>1 DEF LaunchInv, PlaceInv, AtPlace
    <2> QED BY <1>1, <1>2, <2>1 DEF Product, UpTo
  <1> QED BY <1>1, <1>4, <1>5, AddsToSlot

LEMMA WaitTurnInv ==
    ASSUME HostInv, LaunchInv, NEW g \in WorkGroups, WaitTurn(g)
    PROVE  LaunchInv'
  <1>1. /\ where[g] = "fixup" /\ Working(g) /\ ~compute_epilogue(params, work[g])
        /\ work[g].K_idx # 0 /\ flags[TileOf(g)] = work[g].K_idx
        /\ Goto(g, "reduce") /\ where' = [where EXCEPT ![g] = "reduce"]
        /\ UNCHANGED <<problem, params, idx, work, acc, slots, flags, D>>
    BY DEF WaitTurn, Working, Goto
  <1>2. where'[g] = "reduce" /\ \A h \in WorkGroups \ {g} : where'[h] = where[h]
    BY <1>1 DEF LaunchInv, DeviceTypes
  <1>3. AtPlace(g)'
    <2>1. requires_fixup(params, work[g]) /\ acc[g] = Product(work[g])
      BY <1>1 DEF LaunchInv, PlaceInv, AtPlace
    <2>2. TileOf(g)' = TileOf(g) /\ Product(work[g])' = Product(work[g])
      BY <1>1 DEF TileOf, Product, Terms
    <2> QED BY <1>1, <1>2, <2>1, <2>2 DEF AtPlace
  <1>4. SlotInv'
    <2>1. \A h \in WorkGroups : where[h] = "arrive" => where'[h] = "arrive" /\ TileOf(h)' = TileOf(h)
      BY <1>1, <1>2 DEF TileOf
    <2> QED BY <1>1, <2>1, SameSlots DEF LaunchInv
  <1>5. /\ acc' \in [WorkGroups -> [Terms(problem) -> Nat]]
        /\ slots' \in [Tiles -> [Terms(problem) -> Nat]]
    BY <1>1 DEF LaunchInv, DeviceTypes
  <1>6. "reduce" \in Places \ {"queued", "retired", "fetch"}
    BY DEF Places
  <1> QED BY <1>1, <1>3, <1>4, <1>5, <1>6, TurnKept

LEMMA ReduceInv ==
    ASSUME HostInv, LaunchInv, NEW g \in WorkGroups, Reduce(g)
    PROVE  LaunchInv'
  <1> DEFINE t == TileOf(g)
             w == work[g]
  <1>1. /\ where[g] = "reduce" /\ Working(g)
        /\ slots' = [slots EXCEPT ![t] = Sum(slots[t], acc[g])] /\ Goto(g, "arrive")
        /\ UNCHANGED <<problem, params, idx, work, acc, flags, D>>
    <2>1. TileOf(g) \in Tiles /\ slots \in [Tiles -> [Terms(problem) -> Nat]]
      BY AtWork DEF Reduce, Working, LaunchInv, DeviceTypes
    <2> QED BY <2>1 DEF Reduce, Working
  <1>2. /\ ~compute_epilogue(params, w) /\ flags[t] = w.K_idx /\ w.K_idx # 0
        /\ acc[g] = Product(w)
    BY <1>1 DEF LaunchInv, PlaceInv, AtPlace
  <1>3. PICK k \in Nat \ {0}, n \in Nat \ {0} :
            k = w.K_idx /\ n = w.k_tile_count /\ k + n <= FinalFrom(problem, t)
    BY <1>1, <1>2, AtWork DEF LaunchInv
  <1>4. t \in Tiles /\ FinalFrom(problem, t) \in Nat
    <2>1. FinalFrom(problem, t) \in 0 .. problem.T - 1 /\ t \in Tiles
      BY <1>1, AtWork DEF LaunchInv
    <2> QED BY <2>1
  <1>5. FinalFrom(problem, t) > 0 /\ flags[t] > 0
    BY <1>2, <1>3, <1>4
  \* Nobody else has the turn.
  <1>6. \A h \in WorkGroups : where[h] = "arrive" => TileOf(h) # t
    <2> SUFFICES ASSUME NEW h \in WorkGroups, where[h] = "arrive", TileOf(h) = t PROVE FALSE
      OBVIOUS
    <2>1. Working(h) /\ flags[TileOf(h)] = work[h].K_idx
      BY DEF Working, LaunchInv, PlaceInv, AtPlace
    <2>2. h = g
      BY <1>1, <1>2, <2>1, TurnsDiffer DEF LaunchInv
    <2> QED BY <1>1, <2>2
  <1>7. slots[t] = UpTo(k)
    BY <1>2, <1>3, <1>4, <1>5, <1>6 DEF LaunchInv, SlotInv
  <1>8. Sum(slots[t], acc[g]) = UpTo(k + n)
    <2>1. \A i \in Terms(problem) :
             /\ UpTo(k)[i] = IF i \in 0 .. k - 1 THEN 1 ELSE 0
             /\ Product(w)[i] = IF i \in k .. k + n - 1 THEN 1 ELSE 0
             /\ UpTo(k + n)[i] = IF i \in 0 .. k + n - 1 THEN 1 ELSE 0
      BY <1>3 DEF UpTo, Product
    <2>2. Terms(problem) \subseteq Int
      BY DEF Terms, Stale
    <2>3. \A i \in Terms(problem) : UpTo(k)[i] + Product(w)[i] = UpTo(k + n)[i]
      BY <2>1, <2>2
    <2>4. DOMAIN UpTo(k) = Terms(problem)
      BY DEF UpTo
    <2>5. Sum(UpTo(k), Product(w)) = [i \in Terms(problem) |-> UpTo(k)[i] + Product(w)[i]]
      BY <2>4 DEF Sum
    <2>6. UpTo(k + n) = [i \in Terms(problem) |-> UpTo(k + n)[i]]
      BY DEF UpTo
    <2> QED BY <1>2, <1>7, <2>3, <2>5, <2>6
  <1> QED BY <1>1, <1>2, <1>3, <1>8, AddsToSlot

LEMMA ArriveInv ==
    ASSUME HostInv, LaunchInv, NEW g \in WorkGroups, Arrive(g)
    PROVE  LaunchInv'
  <1> DEFINE t == TileOf(g)
             w == work[g]
  <1>1. /\ where[g] = "arrive" /\ Working(g) /\ Goto(g, "fetch")
        /\ flags' = [flags EXCEPT ![t] = flags[t] + w.k_tile_count]
        /\ UNCHANGED <<problem, params, idx, work, acc, slots, D>>
    <2>1. flags' = [flags EXCEPT ![t] = @ + w.k_tile_count]
      BY DEF Arrive
    <2> QED BY <2>1 DEF Arrive, Working
  <1>2. /\ ~compute_epilogue(params, w) /\ flags[t] = w.K_idx
        /\ slots[t] = UpTo(w.K_idx + w.k_tile_count)
    BY <1>1 DEF LaunchInv, PlaceInv, AtPlace
  <1>3. PICK k \in Nat, n \in Nat \ {0}, f \in Nat, T \in Nat \ {0} :
            /\ k = w.K_idx /\ n = w.k_tile_count /\ f = FinalFrom(problem, t) /\ T = problem.T
            /\ k + n <= f /\ f < T
    <2>1. /\ w.K_idx \in Nat /\ w.k_tile_count \in Nat \ {0} /\ problem.T \in Nat \ {0}
          /\ FinalFrom(problem, t) \in 0 .. problem.T - 1
          /\ w.K_idx + w.k_tile_count <= FinalFrom(problem, t)
      BY <1>1, <1>2, AtWork DEF LaunchInv
    <2> QED BY <2>1
  <1>4. t \in Tiles /\ FinalFrom(problem, t) > 0
    BY <1>1, <1>3, AtWork DEF LaunchInv
  <1>5. /\ get_workspace_tiles(problem) > 0 /\ flags = [s \in Tiles |-> flags[s]]
        /\ \A i \in 0 .. f - 1 : Met(t * T + i) <=> i < k
    BY <1>2, <1>3, <1>4, SharedTile
  <1>6. /\ flags'[t] = k + n /\ flags' = [s \in Tiles |-> flags'[s]]
        /\ \A s \in Tiles \ {t} : flags'[s] = flags[s]
    BY <1>1, <1>2, <1>3, <1>4, <1>5
  <1>7. "fetch" \in Places \ {"queued", "retired"}
    BY DEF Places
  <1>8. /\ GroupInv' /\ where' \in [WorkGroups -> Places] /\ where'[g] = "fetch"
        /\ \A h \in WorkGroups \ {g} : where'[h] = where[h]
        /\ \A h \in WorkGroups : TileOf(h)' = TileOf(h)
        /\ \A y \in 0 .. KTiles(problem) - 1 :
             Met(y)' <=> Met(y) \/ y \in Bottom(g) .. Top(g) - 1
    BY <1>1, <1>7, Moves
  <1>9. \A s \in Tiles, i \in 0 .. T - 1 :
           Met(s * T + i)' <=> Met(s * T + i) \/ (s = t /\ k <= i /\ i < k + n)
    <2> SUFFICES ASSUME NEW s \in Tiles, NEW i \in 0 .. T - 1
                 PROVE  Met(s * T + i)' <=> Met(s * T + i) \/ (s = t /\ k <= i /\ i < k + n)
      OBVIOUS
    <2>1. s * T + i \in Bottom(g) .. Top(g) - 1 <=> s = t /\ k <= i /\ i < k + n
      BY <1>1, <1>3, AtHandOfTile DEF LaunchInv
    <2>2. s * T + i \in 0 .. KTiles(problem) - 1
      BY <1>3, TilesOnLine
    <2> QED BY <1>8, <2>1, <2>2
  <1>10. WorkGroups' = WorkGroups /\ Tiles' = Tiles /\ Terms(problem)' = Terms(problem)
         /\ (\A m : UpTo(m)' = UpTo(m))
    BY <1>1 DEF WorkGroups, Tiles, Terms, UpTo
  <1>11. DeviceTypes'
    BY <1>1, <1>8, <1>10 DEF LaunchInv, DeviceTypes
  <1>12. PlaceInv'
    <2>1. ASSUME NEW h \in WorkGroups \ {g} PROVE AtPlace(h)'
      <3>1. ASSUME where[h] \in {"reduce", "arrive"} PROVE flags'[TileOf(h)] = flags[TileOf(h)]
        <4>1. Working(h) /\ flags[TileOf(h)] = work[h].K_idx
          BY <3>1 DEF Working, LaunchInv, PlaceInv, AtPlace
        <4>2. TileOf(h) # t
          BY <1>1, <1>2, <4>1, TurnsDiffer DEF LaunchInv
        <4>3. TileOf(h) \in Tiles
          BY <4>1, AtWork DEF LaunchInv
        <4> QED BY <1>6, <4>2, <4>3
      <3> QED BY <1>1, <1>8, <3>1, SamePlace DEF LaunchInv
    <2>2. AtPlace(g)'
      BY <1>8 DEF AtPlace
    <2> QED BY <1>10, <2>1, <2>2 DEF PlaceInv
  <1>13. FlagInv'
    <2>1. ASSUME NEW s \in Tiles
          PROVE  /\ flags'[s] \in 0 .. FinalFrom(problem, s)
                 /\ \A i \in 0 .. FinalFrom(problem, s) - 1 :
                      Met(s * T + i)' <=> i < flags'[s]
      <3>1. CASE s = t
        <4>1. ASSUME NEW i \in 0 .. f - 1 PROVE Met(s * T + i)' <=> i < k + n
          <5>1. i \in 0 .. T - 1 /\ i \in Nat
            BY <1>3
          <5>2. Met(s * T + i)' <=> Met(s * T + i) \/ (k <= i /\ i < k + n)
            BY <1>9, <3>1, <5>1
          <5>3. Met(s * T + i) <=> i < k
            BY <1>5, <3>1
          <5>4. i < k + n <=> i < k \/ (k <= i /\ i < k + n)
            BY <1>3, <5>1
          <5> QED BY <5>2, <5>3, <5>4
        <4> QED BY <1>3, <1>6, <3>1, <4>1
      <3>2. CASE s # t
        <4>1. /\ flags[s] \in 0 .. FinalFrom(problem, s)
              /\ \A i \in 0 .. FinalFrom(problem, s) - 1 : Met(s * T + i) <=> i < flags[s]
          BY <1>3, <1>5 DEF LaunchInv, FlagInv
        <4>2. \A i \in 0 .. FinalFrom(problem, s) - 1 : i \in 0 .. T - 1
          BY <1>3, TilesOnLine
        <4> QED BY <1>6, <1>9, <3>2, <4>1, <4>2
      <3> QED BY <3>1, <3>2
    <2> QED BY <1>1, <1>3, <1>6, <1>10, <2>1 DEF FlagInv
  <1>14. SlotInv'
    <2> SUFFICES ASSUME NEW s \in Tiles, FinalFrom(problem, s) > 0, flags'[s] > 0,
                        \A h \in WorkGroups : where'[h] = "arrive" => TileOf(h) # s
                 PROVE  slots[s] = UpTo(flags'[s])
      BY <1>1, <1>8, <1>10 DEF SlotInv
    <2>1. CASE s = t
      BY <1>2, <1>3, <1>6, <2>1
    <2>2. CASE s # t
      <3>1. \A h \in WorkGroups : where[h] = "arrive" => TileOf(h) # s
        BY <1>8, <2>2
      <3> QED BY <1>6, <2>2, <3>1 DEF LaunchInv, SlotInv
    <2> QED BY <2>1, <2>2
  <1>15. OutputInv'
    <2>1. ASSUME NEW s \in Tiles
          PROVE  Met(s * problem.T + problem.T - 1)' <=> Met(s * problem.T + problem.T - 1)
      <3>1. Met(s * T + (T - 1))' <=> Met(s * T + (T - 1))
        <4>1. T - 1 \in 0 .. T - 1 /\ ~(T - 1 < k + n)
          BY <1>3
        <4> QED BY <1>9, <4>1
      <3>2. s * problem.T + problem.T - 1 = s * T + (T - 1)
        BY <1>3, TilesOnLine
      <3> QED BY <1>1, <1>3, <3>1, <3>2
    <2> QED BY <1>1, <2>1, SameOutput DEF LaunchInv
  <1> QED BY <1>8, <1>11, <1>12, <1>13, <1>14, <1>15 DEF LaunchInv

\* What the final split waits for are all the splits below it.
LEMMA AllArrived ==
    ASSUME AnyOrderOfTwo, HostInv, LaunchInv, NEW g \in WorkGroups, Working(g),
           compute_epilogue(params, work[g]), FinalFrom(problem, TileOf(g)) > 0,
           PartialsReady(g)
    PROVE  flags[TileOf(g)] = FinalFrom(problem, TileOf(g))
  <1> DEFINE t == TileOf(g)
  <1>1. t \in Tiles /\ work[g].K_idx = FinalFrom(problem, t)
    BY AtWork DEF LaunchInv
  <1>2. CASE params.reduction_mode = "Deterministic"
    BY <1>1, <1>2 DEF PartialsReady
  <1>3. CASE params.reduction_mode # "Deterministic"
    <2>1. PICK pr \in Problems : pr = problem /\ params = initialize(pr)
      BY DEF HostInv
    <2>2. initialize(pr).splits <= 2
      <3>1. params.reduction_mode = pr.reduction_mode
        BY <2>1, HostAssumption, ParamsAre
           DEF IsBasic, IsStream, set_params_basic, set_params_stream_k
      <3> QED BY <1>3, <2>1, <3>1 DEF AnyOrderOfTwo
    <2>3. PICK T \in Nat \ {0}, f \in Nat \ {0} : T = pr.T /\ f = FinalFrom(pr, t) /\ f <= T
      <3>1. FinalFrom(problem, t) \in 0 .. problem.T - 1 /\ problem.T \in Nat \ {0}
        BY AtWork DEF LaunchInv
      <3> QED BY <2>1, <3>1
    <2>4. PICK b \in Nat : b = t * T
      BY <1>1, <2>3, TimesTypes DEF HostInv, Tiles
    <2>5. PICK u \in UnitsOf(pr) : \A k \in 0 .. f - 1 : Owner(pr, b + k) = u
      BY <1>1, <2>1, <2>2, <2>3, <2>4, OnePeer DEF Tiles
    <2>6. flags[t] \in 0 .. f /\ \A k \in 0 .. f - 1 : Met(b + k) <=> k < flags[t]
      BY <1>1, <2>1, <2>3, <2>4, SharedTile
    <2>7. flags[t] >= 1
      BY <1>3 DEF PartialsReady
    <2>8. 0 \in 0 .. f - 1 /\ f - 1 \in 0 .. f - 1
      BY <2>3
    <2>9. Past(u, b + 0)
      <3>1. Met(b + 0)
        BY <2>6, <2>7, <2>8
      <3> QED BY <2>1, <2>5, <2>8, <3>1 DEF Met
    <2>10. Past(u, b + (f - 1))
      <3>1. PICK h \in WorkGroups : h = u % get_grid_shape(problem)
        BY <2>1, GroupOf DEF WorkGroups
      <3>2. CASE u < idx[h]
        BY <3>1, <3>2 DEF Past
      <3>3. CASE u = idx[h] /\ Working(h)
                 /\ (Top(h) <= b + 0 \/ (where[h] = "fetch" /\ Bottom(h) <= b + 0))
        <4>1. Top(h) \in Nat /\ Bottom(h) \in Nat
          BY <3>3, AtWork DEF LaunchInv
        <4>2. Top(h) <= b + (f - 1) \/ (where[h] = "fetch" /\ Bottom(h) <= b + (f - 1))
          BY <2>3, <2>4, <3>3, <4>1
        <4> QED BY <3>1, <3>3, <4>2 DEF Past
      <3> QED BY <2>9, <3>1, <3>2, <3>3 DEF Past
    <2>11. Met(b + (f - 1))
      BY <2>1, <2>5, <2>8, <2>10 DEF Met
    <2>12. f - 1 < flags[t]
      BY <2>6, <2>8, <2>11
    <2> QED BY <2>1, <2>3, <2>6, <2>12
  <1> QED BY <1>2, <1>3

LEMMA LoadAddInv ==
    ASSUME AnyOrderOfTwo, HostInv, LaunchInv, NEW g \in WorkGroups, LoadAdd(g)
    PROVE  LaunchInv'
  <1> DEFINE t == TileOf(g)
             w == work[g]
  <1>1. /\ where[g] = "fixup" /\ Working(g) /\ compute_epilogue(params, w)
        /\ acc' = [acc EXCEPT ![g] = Sum(acc[g], slots[t])] /\ Goto(g, "epilogue")
        /\ UNCHANGED <<problem, params, idx, work, flags, slots, D>>
    <2>1. acc' = [acc EXCEPT ![g] = Sum(acc[g], slots[t])]
      BY DEF LoadAdd, LaunchInv, DeviceTypes
    <2> QED BY <2>1 DEF LoadAdd, Working
  <1>2. requires_fixup(params, w) /\ acc[g] = Product(w)
    BY <1>1 DEF LaunchInv, PlaceInv, AtPlace
  <1>3. PICK f \in Nat \ {0}, T \in Nat \ {0}, n \in Nat \ {0} :
            /\ f = FinalFrom(problem, t) /\ T = problem.T /\ f = w.K_idx
            /\ n = w.k_tile_count /\ f + n = T
    <2>1. /\ w.K_idx + w.k_tile_count = problem.T /\ w.K_idx = FinalFrom(problem, t)
          /\ FinalFrom(problem, t) > 0 /\ w.K_idx \in Nat /\ w.k_tile_count \in Nat \ {0}
          /\ problem.T \in Nat \ {0}
      BY <1>1, <1>2, AtWork DEF LaunchInv
    <2> QED BY <2>1
  <1>4. t \in Tiles /\ FinalFrom(problem, t) > 0
    BY <1>1, <1>3, AtWork DEF LaunchInv
  <1>5. flags[t] = f
    <2>1. PartialsReady(g)
      BY DEF LoadAdd
    <2> QED BY <1>1, <1>3, <1>4, <2>1, AllArrived
  \* Nobody below the final split has a turn left.
  <1>6. \A h \in WorkGroups : where[h] = "arrive" => TileOf(h) # t
    <2> SUFFICES ASSUME NEW h \in WorkGroups, where[h] = "arrive", TileOf(h) = t PROVE FALSE
      OBVIOUS
    <2>1. /\ Working(h) /\ flags[TileOf(h)] = work[h].K_idx
          /\ ~compute_epilogue(params, work[h])
      BY DEF Working, LaunchInv, PlaceInv, AtPlace
    <2>2. /\ work[h].K_idx \in Nat /\ work[h].k_tile_count \in Nat \ {0}
          /\ work[h].K_idx + work[h].k_tile_count <= FinalFrom(problem, t)
      BY <2>1, AtWork DEF LaunchInv
    <2> QED BY <1>3, <1>5, <2>1, <2>2
  <1>7. slots[t] = UpTo(f)
    BY <1>3, <1>4, <1>5, <1>6 DEF LaunchInv, SlotInv
  <1>8. Sum(acc[g], slots[t]) = Complete
    <2>1. \A i \in Terms(problem) :
             /\ UpTo(f)[i] = IF i \in 0 .. f - 1 THEN 1 ELSE 0
             /\ Product(w)[i] = IF i \in f .. T - 1 THEN 1 ELSE 0
             /\ Complete[i] = IF i \in 0 .. T - 1 THEN 1 ELSE 0
      <3>1. \A i \in Terms(problem) : i \in 0 .. T - 1 <=> i # Stale
        BY <1>3 DEF Terms, Stale
      <3> QED BY <1>3, <3>1 DEF UpTo, Product, Complete
    <2>2. Terms(problem) \subseteq Int
      BY DEF Terms, Stale
    <2>3. \A i \in Terms(problem) : Product(w)[i] + UpTo(f)[i] = Complete[i]
      <3> SUFFICES ASSUME NEW i \in Terms(problem) PROVE Product(w)[i] + UpTo(f)[i] = Complete[i]
        OBVIOUS
      <3>1. i \in Int
        BY <2>2
      <3> QED BY <1>3, <2>1, <3>1
    <2>4. DOMAIN Product(w) = Terms(problem)
      BY DEF Product
    <2>5. Sum(Product(w), UpTo(f)) = [i \in Terms(problem) |-> Product(w)[i] + UpTo(f)[i]]
      BY <2>4 DEF Sum
    <2>6. Complete = [i \in Terms(problem) |-> Complete[i]]
      BY DEF Complete
    <2> QED BY <1>2, <1>7, <2>3, <2>5, <2>6
  <1>9. /\ where' = [where EXCEPT ![g] = "epilogue"] /\ where \in [WorkGroups -> Places]
        /\ acc \in [WorkGroups -> [Terms(problem) -> Nat]]
        /\ slots \in [Tiles -> [Terms(problem) -> Nat]]
    BY <1>1 DEF Goto, LaunchInv, DeviceTypes
  <1>10. /\ acc'[g] = Complete /\ acc' \in [WorkGroups -> [Terms(problem) -> Nat]]
         /\ \A h \in WorkGroups \ {g} : acc'[h] = acc[h]
    <2>1. Complete \in [Terms(problem) -> Nat]
      BY DEF Complete
    <2> QED BY <1>1, <1>8, <1>9, <2>1
  <1>11. AtPlace(g)'
    <2>1. where'[g] = "epilogue" /\ Complete' = Complete
      BY <1>1, <1>9 DEF Complete, Terms
    <2> QED BY <1>1, <1>10, <2>1 DEF AtPlace
  <1>12. SlotInv'
    <2>1. \A h \in WorkGroups : where[h] = "arrive" => where'[h] = "arrive" /\ TileOf(h)' = TileOf(h)
      BY <1>1, <1>9 DEF TileOf
    <2> QED BY <1>1, <2>1, SameSlots DEF LaunchInv
  <1>13. "epilogue" \in Places \ {"queued", "retired", "fetch"}
    BY DEF Places
  <1> QED BY <1>1, <1>9, <1>10, <1>11, <1>12, <1>13, TurnKept

LEMMA EpilogueInv ==
    ASSUME HostInv, LaunchInv, NEW g \in WorkGroups, Epilogue(g)
    PROVE  LaunchInv'
  <1> DEFINE t == TileOf(g)
             w == work[g]
  <1>1. /\ where[g] = "epilogue" /\ Working(g) /\ Goto(g, "fetch")
        /\ D' = [D EXCEPT ![t] = acc[g]]
        /\ UNCHANGED <<problem, params, idx, work, acc, flags, slots>>
    BY DEF Epilogue, Working
  <1>2. compute_epilogue(params, w) /\ acc[g] = Complete
    BY <1>1 DEF LaunchInv, PlaceInv, AtPlace
  <1>3. PICK T \in Nat \ {0}, k \in Nat, n \in Nat \ {0} :
            /\ T = problem.T /\ k = w.K_idx /\ n = w.k_tile_count
            /\ k + n = T /\ k = FinalFrom(problem, t)
    <2>1. /\ w.K_idx + w.k_tile_count = problem.T /\ w.K_idx = FinalFrom(problem, t)
          /\ w.K_idx \in Nat /\ w.k_tile_count \in Nat \ {0} /\ problem.T \in Nat \ {0}
      BY <1>1, <1>2, AtWork DEF LaunchInv
    <2> QED BY <2>1
  <1>4. t \in Tiles
    BY <1>1, AtWork DEF LaunchInv
  <1>5. "fetch" \in Places \ {"queued", "retired"}
    BY DEF Places
  <1>6. /\ GroupInv' /\ where' \in [WorkGroups -> Places] /\ where'[g] = "fetch"
        /\ \A h \in WorkGroups \ {g} : where'[h] = where[h]
        /\ \A h \in WorkGroups : TileOf(h)' = TileOf(h)
        /\ \A y \in 0 .. KTiles(problem) - 1 :
             Met(y)' <=> Met(y) \/ y \in Bottom(g) .. Top(g) - 1
    BY <1>1, <1>5, Moves
  <1>7. \A s \in Tiles, i \in 0 .. T - 1 :
           Met(s * T + i)' <=> Met(s * T + i) \/ (s = t /\ k <= i)
    <2> SUFFICES ASSUME NEW s \in Tiles, NEW i \in 0 .. T - 1
                 PROVE  Met(s * T + i)' <=> Met(s * T + i) \/ (s = t /\ k <= i)
      OBVIOUS
    <2>1. s * T + i \in Bottom(g) .. Top(g) - 1 <=> s = t /\ k <= i /\ i < k + n
      BY <1>1, <1>3, AtHandOfTile DEF LaunchInv
    <2>2. s * T + i \in 0 .. KTiles(problem) - 1 /\ i < k + n
      BY <1>3, TilesOnLine
    <2> QED BY <1>6, <2>1, <2>2
  <1>8. WorkGroups' = WorkGroups /\ Tiles' = Tiles /\ Terms(problem)' = Terms(problem)
        /\ Complete' = Complete /\ Unwritten' = Unwritten
    BY <1>1 DEF WorkGroups, Tiles, Terms, Complete, Unwritten
  <1>9. /\ D'[t] = Complete /\ D' \in [Tiles -> [Terms(problem) -> Nat]]
        /\ \A s \in Tiles \ {t} : D'[s] = D[s]
    <2>1. Complete \in [Terms(problem) -> Nat]
      BY DEF Complete
    <2>2. D \in [Tiles -> [Terms(problem) -> Nat]]
      BY DEF LaunchInv, DeviceTypes
    <2> QED BY <1>1, <1>2, <1>4, <2>1, <2>2
  <1>10. DeviceTypes'
    BY <1>1, <1>6, <1>8, <1>9 DEF LaunchInv, DeviceTypes
  <1>11. PlaceInv'
    <2>1. ASSUME NEW h \in WorkGroups \ {g} PROVE AtPlace(h)'
      BY <1>1, <1>6, SamePlace DEF LaunchInv
    <2>2. AtPlace(g)'
      BY <1>6 DEF AtPlace
    <2> QED BY <1>8, <2>1, <2>2 DEF PlaceInv
  <1>12. FlagInv'
    <2>1. ASSUME NEW s \in Tiles, NEW i \in 0 .. problem.T - 1, i < FinalFrom(problem, s)
          PROVE  Met(s * problem.T + i)' <=> Met(s * problem.T + i)
      BY <1>1, <1>3, <1>7, <2>1
    <2> QED BY <1>1, <2>1, SameFlags DEF LaunchInv
  <1>13. SlotInv'
    <2>1. \A h \in WorkGroups : where[h] = "arrive" => where'[h] = "arrive" /\ TileOf(h)' = TileOf(h)
      BY <1>1, <1>6
    <2> QED BY <1>1, <2>1, SameSlots DEF LaunchInv
  <1>14. OutputInv'
    <2>1. ASSUME NEW s \in Tiles
          PROVE  D'[s] = IF Met(s * problem.T + problem.T - 1)' THEN Complete ELSE Unwritten
      <3>1. s * problem.T + problem.T - 1 = s * T + (T - 1) /\ T - 1 \in 0 .. T - 1 /\ k <= T - 1
        BY <1>3, TilesOnLine
      <3>2. Met(s * T + (T - 1))' <=> Met(s * T + (T - 1)) \/ s = t
        BY <1>7, <3>1
      <3>3. D[s] = IF Met(s * T + (T - 1)) THEN Complete ELSE Unwritten
        BY <3>1 DEF LaunchInv, OutputInv
      <3> QED BY <1>1, <1>3, <1>9, <3>1, <3>2, <3>3
    <2> QED BY <1>1, <1>8, <2>1 DEF OutputInv
  <1> QED BY <1>6, <1>10, <1>11, <1>12, <1>13, <1>14 DEF LaunchInv

-----------------------------------------------------------------------------
(* The steps of the work-groups and of the host together.                  *)

LEMMA StepInv ==
    ASSUME AnyOrderOfTwo, HostInv, LaunchInv, launches # 0, NEW g \in WorkGroups, Step(g)
    PROVE  HostInv' /\ LaunchInv' /\ launches' # 0
  <1>1. UNCHANGED <<stored, problem, params, launches>>
    BY DEF Step, Dispatch, Mainloop, Store, WaitTurn, Reduce, Arrive, LoadAdd, Epilogue, FetchNext
  <1>2. HostInv' /\ launches' # 0
    BY <1>1 DEF HostInv
  <1>3. CASE Dispatch(g)
    <2>1. /\ where[g] = "queued" /\ UNCHANGED <<problem, params, flags, acc, slots, D>>
      BY <1>3 DEF Dispatch
    <2> QED BY <1>2, <1>3, <2>1, DispatchResumes, ResumedInv
  <1>4. CASE FetchNext(g)
    <2>1. /\ where[g] = "fetch" /\ UNCHANGED <<problem, params, flags, acc, slots, D>>
      BY <1>4 DEF FetchNext
    <2> QED BY <1>2, <1>4, <2>1, FetchResumes, ResumedInv
  <1>5. CASE Mainloop(g)
    BY <1>2, <1>5, MainloopInv
  <1>6. CASE Store(g)
    BY <1>2, <1>6, StoreInv
  <1>7. CASE WaitTurn(g)
    BY <1>2, <1>7, WaitTurnInv
  <1>8. CASE Reduce(g)
    BY <1>2, <1>8, ReduceInv
  <1>9. CASE Arrive(g)
    BY <1>2, <1>9, ArriveInv
  <1>10. CASE LoadAdd(g)
    BY <1>2, <1>10, LoadAddInv
  <1>11. CASE Epilogue(g)
    BY <1>2, <1>11, EpilogueInv
  <1> QED
    BY <1>3, <1>4, <1>5, <1>6, <1>7, <1>8, <1>9, <1>10, <1>11 DEF Step

LEMMA RunInv ==
    ASSUME GemmInv, NEW pr \in Problems, Run(pr)
    PROVE  GemmInv'
  <1>1. /\ StartLaunch(pr) /\ flags' = [t \in 0 .. OutputTiles(pr) - 1 |-> 0]
        /\ stored' = pr /\ launches' = launches + 1 /\ launches < MaxLaunches
    BY DEF Run
  <1>2. LaunchInv'
    BY <1>1, LaunchStarts
  <1>3. problem' = pr /\ params' = initialize(pr)
    BY <1>1 DEF StartLaunch
  <1>4. launches' \in 0 .. MaxLaunches /\ launches' # 0
    BY <1>1, HostAssumption DEF GemmInv, HostInv
  <1> QED BY <1>1, <1>2, <1>3, <1>4 DEF GemmInv, HostInv

LEMMA RelaunchInv ==
    ASSUME RelaunchSharesNothing, GemmInv, Relaunch
    PROVE  GemmInv'
  <1>1. /\ StartLaunch(stored) /\ stored \in Relaunched /\ stored \in Problems
        /\ stored' = stored /\ launches' = launches + 1 /\ launches \in 1 .. MaxLaunches - 1
    BY HostAssumption DEF Relaunch
  <1>2. get_workspace_tiles(stored) = 0
    BY <1>1 DEF RelaunchSharesNothing
  <1>3. LaunchInv'
    BY <1>1, <1>2, LaunchStarts
  <1>4. problem' = stored /\ params' = initialize(stored)
    BY <1>1 DEF StartLaunch
  <1>5. launches' \in 0 .. MaxLaunches /\ launches' # 0
    BY <1>1, HostAssumption
  <1> QED BY <1>1, <1>3, <1>4, <1>5 DEF GemmInv, HostInv

LEMMA Unchanged ==
    ASSUME HostInv, LaunchInv, UNCHANGED <<problem, params, flags, device>>
    PROVE  LaunchInv'
  <1> USE DEF device
  <1>1. /\ WorkGroups' = WorkGroups /\ Tiles' = Tiles /\ Terms(problem)' = Terms(problem)
        /\ \A g \in WorkGroups : TileOf(g)' = TileOf(g)
    BY DEF WorkGroups, Tiles, Terms, TileOf
  <1>2. /\ \A g \in WorkGroups : /\ Working(g)' <=> Working(g)
                                 /\ Top(g)' = Top(g) /\ Bottom(g)' = Bottom(g)
    BY DEF Working, Top, Bottom
  <1>3. ASSUME NEW y \in 0 .. KTiles(problem) - 1 PROVE Met(y)' <=> Met(y)
    BY DEF Met, Past, Working, Top, Bottom
  <1>4. DeviceTypes'
    BY <1>1 DEF LaunchInv, DeviceTypes
  <1>5. GroupInv'
    BY <1>1, <1>2 DEF LaunchInv, GroupInv
  <1>6. PlaceInv'
    BY <1>1 DEF LaunchInv, PlaceInv, AtPlace, UpTo, Terms, Product, Complete
  <1>7. FlagInv'
    BY <1>3, SameFlags, TilesOnLine DEF LaunchInv
  <1>8. SlotInv'
    BY <1>1, SameSlots DEF LaunchInv
  <1>9. OutputInv'
    BY <1>3, SameOutput, TilesOnLine DEF LaunchInv
  <1> QED BY <1>4, <1>5, <1>6, <1>7, <1>8, <1>9 DEF LaunchInv

LEMMA GemmInvariant ==
    ASSUME RelaunchSharesNothing, AnyOrderOfTwo
    PROVE  Spec => []GemmInv
  <1>1. Init => GemmInv
    BY HostAssumption DEF Init, GemmInv, HostInv
  <1>2. GemmInv /\ [Next]_vars => GemmInv'
    <2> SUFFICES ASSUME GemmInv, [Next]_vars PROVE GemmInv'
      OBVIOUS
    <2>1. CASE \E pr \in Problems : Run(pr)
      BY <2>1, RunInv
    <2>2. CASE Relaunch
      BY <2>2, RelaunchInv
    <2>3. ASSUME NEW g \in DOMAIN where, Step(g) PROVE GemmInv'
      <3>1. launches # 0
        BY <2>3 DEF GemmInv, HostInv
      <3>2. launches > 0
        BY <3>1 DEF GemmInv, HostInv
      <3>3. HostInv /\ LaunchInv /\ g \in WorkGroups
        BY <3>2 DEF GemmInv, LaunchInv, DeviceTypes
      <3> QED BY <2>3, <3>1, <3>3, StepInv DEF GemmInv
    <2>4. CASE \E pr \in Relaunched : Update(pr)
      <3>1. PICK pr \in Relaunched : Update(pr)
        BY <2>4
      <3>2. /\ stored' = pr /\ pr \in Problems
            /\ UNCHANGED <<problem, params, launches, flags, device>>
        BY <3>1, HostAssumption DEF Update
      <3>3. HostInv'
        BY <3>2 DEF GemmInv, HostInv, device
      <3> QED BY <3>2, <3>3, Unchanged DEF GemmInv
    <2>5. CASE UNCHANGED vars
      <3>1. UNCHANGED <<stored, problem, params, launches, flags, device>>
        BY <2>5 DEF vars
      <3>2. HostInv'
        BY <3>1 DEF GemmInv, HostInv, device
      <3> QED BY <3>1, <3>2, Unchanged DEF GemmInv
    <2> QED BY <2>1, <2>2, <2>3, <2>4, <2>5 DEF Next, Terminated
  <1> QED BY <1>1, <1>2, PTL DEF Spec

-----------------------------------------------------------------------------
(* The properties of the kernel.                                           *)

\* Every variable of a launch stays in its range, and no flag counts more k
\* tiles than its tile has: arrivals at a tile are never one too many.
THEOREM GemmTypesHold ==
    ASSUME RelaunchSharesNothing, AnyOrderOfTwo
    PROVE  Spec => []TypeOK
  <1>1. GemmInv => TypeOK
    <2> SUFFICES ASSUME GemmInv, launches > 0
                 PROVE  /\ where \in [WorkGroups -> Places]
                        /\ get_workspace_tiles(problem) > 0 => flags \in [Tiles -> 0 .. problem.T]
                        /\ slots \in [Tiles -> [Terms(problem) -> Nat]]
                        /\ D \in [Tiles -> [Terms(problem) -> Nat]]
      BY DEF GemmInv, HostInv, TypeOK, Places
    <2>1. HostInv /\ DeviceTypes /\ FlagInv
      BY DEF GemmInv, LaunchInv
    <2>2. ASSUME get_workspace_tiles(problem) > 0 PROVE flags \in [Tiles -> 0 .. problem.T]
      <3>1. ASSUME NEW t \in Tiles PROVE flags[t] \in 0 .. problem.T
        <4>1. /\ flags[t] \in 0 .. FinalFrom(problem, t)
              /\ FinalFrom(problem, t) \in 0 .. problem.T - 1 /\ problem.T \in Nat
          BY <2>1, <2>2, TilesOnLine DEF FlagInv
        <4> QED BY <4>1
      <3> QED BY <2>1, <2>2, <3>1 DEF FlagInv
    <2> QED BY <2>1, <2>2 DEF DeviceTypes
  <1> QED BY GemmInvariant, <1>1, PTL

\* An output tile is written only as the sum of each of its k tiles exactly
\* once: whatever an earlier launch left in the workspace, however many
\* work-groups share the tile and in whatever order they come.
THEOREM OutputIsTheSum ==
    ASSUME RelaunchSharesNothing, AnyOrderOfTwo
    PROVE  Spec => []OutputComplete
  <1>1. GemmInv => OutputComplete
    <2> SUFFICES ASSUME GemmInv, NEW t \in DOMAIN D PROVE D[t] \in {Unwritten, Complete}
      BY DEF OutputComplete
    <2>1. launches # 0
      BY DEF GemmInv, HostInv
    <2>2. launches > 0
      BY <2>1 DEF GemmInv, HostInv
    <2>3. t \in Tiles
      BY <2>2 DEF GemmInv, LaunchInv, DeviceTypes
    <2> QED BY <2>2, <2>3 DEF GemmInv, LaunchInv, OutputInv
  <1> QED BY GemmInvariant, <1>1, PTL

\* When every work-group has left its loop, every output tile is complete: no
\* tile waits for an epilogue that nobody runs.
THEOREM AllTilesAreWritten ==
    ASSUME RelaunchSharesNothing, AnyOrderOfTwo
    PROVE  Spec => []NothingLeftBehind
  <1>1. GemmInv => NothingLeftBehind
    <2> SUFFICES ASSUME GemmInv, launches > 0, Finished, NEW t \in Tiles
                 PROVE  D[t] = Complete
      BY DEF NothingLeftBehind
    <2> DEFINE y == t * problem.T + problem.T - 1
               u == Owner(problem, y)
               g == u % get_grid_shape(problem)
    <2>1. HostInv /\ LaunchInv /\ problem \in Problems
      BY DEF GemmInv, HostInv
    <2>2. y \in 0 .. KTiles(problem) - 1
      BY <2>1, TilesOnLine
    <2>3. u \in UnitsOf(problem)
      BY <2>1, <2>2, OwnerIs
    <2>4. g \in WorkGroups /\ u \in Nat
      BY <2>1, <2>3, GroupOf DEF WorkGroups
    <2>5. where[g] = "retired"
      BY <2>1, <2>4 DEF LaunchInv, DeviceTypes, Finished
    <2>6. NumUnits(problem) <= idx[g] /\ idx[g] \in Nat
      BY <2>1, <2>4, <2>5 DEF LaunchInv, GroupInv, DeviceTypes
    <2>7. NumUnits(problem) \in Nat
      BY <2>1, HostAssumption, Units DEF PartitionLine
    <2>8. u < idx[g]
      BY <2>3, <2>4, <2>6, <2>7 DEF UnitsOf
    <2>9. Met(y)
      BY <2>8 DEF Met, Past
    <2> QED BY <2>1, <2>9 DEF LaunchInv, OutputInv
  <1> QED BY GemmInvariant, <1>1, PTL

\* A tile is written once in a launch, by one work-group: whoever has come to
\* the epilogue is alone there with its tile and finds it unwritten.
THEOREM TilesAreWrittenOnce ==
    ASSUME RelaunchSharesNothing, AnyOrderOfTwo
    PROVE  Spec => []WrittenOnce
  <1>1. GemmInv => WrittenOnce
    <2> SUFFICES ASSUME GemmInv, NEW g \in DOMAIN where, where[g] = "epilogue"
                 PROVE  /\ D[TileOf(g)] = Unwritten
                        /\ \A h \in DOMAIN where \ {g} :
                              where[h] = "epilogue" => TileOf(h) # TileOf(g)
      BY DEF WrittenOnce
    <2>1. launches # 0
      BY DEF GemmInv, HostInv
    <2>2. launches > 0
      BY <2>1 DEF GemmInv, HostInv
    <2>3. HostInv /\ LaunchInv /\ GroupInv /\ DOMAIN where = WorkGroups
      BY <2>2 DEF GemmInv, LaunchInv, DeviceTypes
    <2>4. ASSUME NEW h \in WorkGroups, where[h] = "epilogue"
          PROVE  /\ Working(h) /\ TileOf(h) \in Tiles
                 /\ work[h].K_idx = FinalFrom(problem, TileOf(h))
                 /\ work[h].K_idx + work[h].k_tile_count = problem.T
                 /\ TileOf(h) * problem.T + work[h].K_idx + work[h].k_tile_count = Top(h)
      <3>1. Working(h) /\ compute_epilogue(params, work[h])
        BY <2>3, <2>4 DEF Working, LaunchInv, PlaceInv, AtPlace
      <3> QED BY <2>3, <3>1, AtWork
    <2>5. D[TileOf(g)] = Unwritten
      <3>1. PICK t \in Tiles : t = TileOf(g)
        BY <2>3, <2>4
      <3>2. /\ Working(g) /\ Bottom(g) < Top(g) /\ Bottom(g) \in Nat /\ Top(g) \in Nat
            /\ t * problem.T \in Nat /\ problem.T \in Nat
            /\ work[g].K_idx \in Nat /\ work[g].k_tile_count \in Nat
        BY <2>3, <2>4, <3>1, AtWork
      <3>3. t * problem.T + problem.T = Top(g)
        BY <2>3, <2>4, <3>1, <3>2
      <3>4. t * problem.T + problem.T - 1 \in Bottom(g) .. Top(g) - 1
        BY <3>2, <3>3
      <3>5. ~Met(t * problem.T + problem.T - 1)
        BY <2>3, <3>2, <3>4, AtHandNotMet
      <3> QED BY <2>3, <3>1, <3>5 DEF LaunchInv, OutputInv
    <2>6. ASSUME NEW h \in WorkGroups \ {g}, where[h] = "epilogue" PROVE TileOf(h) # TileOf(g)
      BY <2>3, <2>4, <2>6, TurnsDiffer
    <2> QED BY <2>3, <2>5, <2>6
  <1> QED BY GemmInvariant, <1>1, PTL
=============================================================================

------------------------ MODULE XeGroupScheduler_proofs ------------------------
(***************************************************************************)
(* The work-groups of a grouped GEMM compute every tile of every group     *)
(* once, and each with the parameters of its own group: for every list of  *)
(* groups, every grid and every tile extent.                               *)
(***************************************************************************)
EXTENDS XeGroupScheduler, NaturalsLemmas, TLAPS

\* Between tiles the parameters are those of the group the loop was in last;
\* with a tile in hand they are, unless they are about to be replaced.
ParametersInv ==
    /\ pc # "compute" => base_params = curr_group
    /\ pc = "compute" =>
          /\ curr_group = tile.L_idx
          /\ did_group_change \/ base_params = curr_group

IInv == ParametersInv /\ OwnGroupsParameters

-----------------------------------------------------------------------------
\* A look-up ends in a search or at the end of the work.
LEMMA LookUpPc ==
    ASSUME NEW pr, NEW idx, NEW info, LookUp(pr, idx, info)
    PROVE  pc' # "compute"
BY DEF LookUp

\* No group has been entered when a work-group starts.
LEMMA InitIInv == Init => IInv
BY DEF Init, IInv, ParametersInv, OwnGroupsParameters

\* Each step keeps the invariant, whatever the look-ups find.
LEMMA StepIInv == IInv /\ [Next]_vars => IInv'
<1> SUFFICES ASSUME IInv, [Next]_vars
             PROVE  IInv'
  OBVIOUS
<1> USE DEF IInv, ParametersInv, OwnGroupsParameters
<1>1. CASE NextGroup
  <2>1. pc = "search" /\ pc' # "compute" /\ UNCHANGED <<loop, done>>
    BY <1>1 DEF NextGroup
  <2> QED
    BY <2>1 DEF loop
<1>2. CASE Found
  <2>1. /\ pc = "search" /\ pc' = "compute"
        /\ did_group_change' = (curr_group # tile'.L_idx)
        /\ curr_group' = tile'.L_idx
        /\ UNCHANGED <<base_params, done>>
    BY <1>2 DEF Found
  <2>2. base_params = curr_group
    BY <2>1
  <2>3. did_group_change' \/ base_params' = curr_group'
    BY <2>1, <2>2, Zenon
  <2> QED
    BY <2>1, <2>3
<1>3. CASE Compute
  <2> DEFINE x == [ wg |-> wg, tile |-> tile, shape |-> curr_group,
                    params |-> base_params', at |-> linear_idx ]
  <2>1. /\ pc = "compute"
        /\ base_params' = IF did_group_change THEN curr_group ELSE base_params
        /\ done' = done \cup {x}
        /\ curr_group' = curr_group
    BY <1>3 DEF Compute
  <2>2. base_params' = curr_group
    BY <2>1
  <2>3. pc' # "compute"
    BY <1>3, LookUpPc DEF Compute
  <2>4. x.shape = x.tile.L_idx /\ x.params = x.tile.L_idx
    BY <2>1, <2>2
  <2> HIDE DEF x
  <2>5. \A y \in done' : y.shape = y.tile.L_idx /\ y.params = y.tile.L_idx
    BY <2>1, <2>4
  <2> QED
    BY <2>1, <2>2, <2>3, <2>5
<1>4. CASE NextWorkGroup
  <2>1. /\ curr_group' = NoGroup /\ base_params' = NoGroup
        /\ done' = done
    BY <1>4 DEF NextWorkGroup
  <2>2. pc' # "compute"
    BY <1>4, LookUpPc DEF NextWorkGroup
  <2> QED
    BY <2>1, <2>2
<1>5. CASE UNCHANGED vars
  BY <1>5 DEF vars, loop
<1> QED
  BY <1>1, <1>2, <1>3, <1>4, <1>5 DEF Next, Terminated

-----------------------------------------------------------------------------
\* No tile is computed with the extents or the parameters of another group,
\* which the work-group kept although the group had changed.
THEOREM OwnParameters == Spec => []OwnGroupsParameters
<1>1. IInv => OwnGroupsParameters
  BY DEF IInv
<1> QED
  BY InitIInv, StepIInv, <1>1, PTL DEF Spec

-----------------------------------------------------------------------------
(* Each tile once.  A number belongs to the group whose blocks it falls    *)
(* among, whichever work-group looks it up and wherever the search starts; *)
(* the numbers of a work-group are those of its residue modulo the grid.   *)

Last(pr) == Len(pr.groups)

InfoOf(pr, g) ==
    [ group_idx        |-> g,
      start_linear_idx |-> blocks_before(pr)[g],
      total_tiles      |-> total_tiles(pr, g) ]

\* The tile with number i is in group g.
Holds(pr, g, i) == blocks_before(pr)[g] <= i /\ i < blocks_before(pr)[g + 1]

\* Where the search is, and what it has passed.
SearchInv ==
    /\ pc \in {"search", "compute", "exit"}
    /\ linear_idx \in Nat /\ linear_idx % get_grid_shape(problem) = wg
    /\ pc = "exit" => blocks_before(problem)[Last(problem)] <= linear_idx
    /\ pc # "exit" =>
         \E g \in Groups(problem) :
             /\ group_info = InfoOf(problem, g)
             /\ blocks_before(problem)[g] <= linear_idx
             /\ pc = "compute" => /\ Holds(problem, g, linear_idx)
                                  /\ tile = coordinates(problem, InfoOf(problem, g), linear_idx)

\* What has been computed is the tile with its number, in the residue of its
\* work-group.
InPlace(x) ==
    /\ x = [ wg |-> x.wg, tile |-> x.tile, shape |-> x.shape, params |-> x.params,
             at |-> x.at ]
    /\ x.at \in Nat /\ x.wg = x.at % get_grid_shape(problem)
    /\ \E g \in Groups(problem) :
         /\ Holds(problem, g, x.at)
         /\ x.tile = coordinates(problem, InfoOf(problem, g), x.at)

\* The numbers passed: those of the work-groups before this one, and those of
\* this one before where it is.
Passed(i) ==
    \/ i % get_grid_shape(problem) < wg
    \/ i % get_grid_shape(problem) = wg /\ i < linear_idx

\* Every block passed has been computed.
Covered ==
    \A i \in Nat :
        i < blocks_before(problem)[Last(problem)] /\ Passed(i) => \E x \in done : x.at = i

TilesInv ==
    /\ problem \in Problems
    /\ get_grid_shape(problem) \in Nat \ {0} /\ wg \in 0 .. get_grid_shape(problem) - 1
    /\ SearchInv
    /\ \A x \in done : InPlace(x)
    /\ Covered

-----------------------------------------------------------------------------
LEMMA TileCounts ==
    ASSUME NEW pr \in Problems, NEW g \in Groups(pr)
    PROVE  /\ ctas_along_m(pr, g) \in Nat /\ ctas_along_n(pr, g) \in Nat
           /\ total_tiles(pr, g) \in Nat
  <1>1. g + 1 \in 1 .. Len(pr.groups)
    BY ProblemsAssumption DEF Groups
  <1>2. pr.groups[g + 1] \in [m : Nat, n : Nat]
    <2>1. pr.groups \in Seq([m : Nat, n : Nat])
      BY ProblemsAssumption
    <2> DEFINE gs == pr.groups
               Extents == [m : Nat, n : Nat]
    <2>2. gs \in Seq(Extents) /\ g + 1 \in 1 .. Len(gs)
      BY <1>1, <2>1
    <2> HIDE DEF gs, Extents
    <2>3. gs[g + 1] \in Extents
      BY <2>2
    <2> QED BY <2>3 DEF gs, Extents
  <1>3. pr.groups[g + 1].m \in Nat /\ pr.groups[g + 1].n \in Nat
    BY <1>2
  <1>4. ASSUME NEW a \in Nat PROVE ceil_div(a, Cta) \in Nat
    <2>1. a + Cta - 1 \in Nat
      BY CtaAssumption
    <2> QED BY <2>1, CtaAssumption, Quotient DEF ceil_div
  <1>5. ctas_along_m(pr, g) \in Nat /\ ctas_along_n(pr, g) \in Nat
    BY <1>3, <1>4 DEF ctas_along_m, ctas_along_n
  <1> QED BY <1>5, TimesTypes DEF total_tiles

\* The blocks of the groups follow each other.
LEMMA BlocksBefore ==
    ASSUME NEW pr \in Problems
    PROVE  /\ Last(pr) \in Nat \ {0}
           /\ blocks_before(pr)[0] = 0
           /\ \A g \in 0 .. Last(pr) : blocks_before(pr)[g] \in Nat
           /\ \A g \in Groups(pr) :
                 blocks_before(pr)[g + 1] = blocks_before(pr)[g] + total_tiles(pr, g)
           /\ \A g, h \in 0 .. Last(pr) :
                 g <= h => blocks_before(pr)[g] <= blocks_before(pr)[h]
  <1> DEFINE n == Last(pr)
             t == [g \in Nat |-> IF g \in Groups(pr) THEN total_tiles(pr, g) ELSE 0]
             b == blocks_before(pr)
  <1>1. n \in Nat \ {0} /\ Groups(pr) = 0 .. n - 1
    BY ProblemsAssumption DEF Last, Groups
  <1>2. t \in [Nat -> Nat] /\ \A g \in Groups(pr) : t[g] = total_tiles(pr, g)
    <2>1. \A g \in Groups(pr) : g \in Nat /\ total_tiles(pr, g) \in Nat
      BY <1>1, TileCounts
    <2> QED BY <2>1
  <1> HIDE DEF t
  <1>3. PICK f : IsSum(f, n, t)
    BY <1>1, <1>2, SumsExist DEF HasSum
  <1> DEFINE Eqn(h) == h = [ g \in 0 .. n |->
                              IF g = 0 THEN 0 ELSE h[g - 1] + total_tiles(pr, g - 1) ]
  <1>4. Eqn(f)
    <2> HIDE DEF n
    <2>1. \A g \in 0 .. n : g # 0 => /\ g - 1 \in 0 .. n - 1 /\ (g - 1) + 1 = g
                                     /\ t[g - 1] = total_tiles(pr, g - 1)
      <3> SUFFICES ASSUME NEW g \in 0 .. n, g # 0
                   PROVE  /\ g - 1 \in 0 .. n - 1 /\ (g - 1) + 1 = g
                          /\ t[g - 1] = total_tiles(pr, g - 1)
        OBVIOUS
      <3>1. g - 1 \in 0 .. n - 1 /\ (g - 1) + 1 = g
        BY <1>1
      <3> QED BY <1>1, <1>2, <3>1
    <2>2. \A g \in 0 .. n :
             f[g] = IF g = 0 THEN 0 ELSE f[g - 1] + total_tiles(pr, g - 1)
      BY <1>3, <2>1 DEF IsSum
    <2> QED BY <1>3, <2>2 DEF IsSum
  <1>5. b = CHOOSE h : Eqn(h)
    BY DEF blocks_before, Last
  <1>6. Eqn(b)
    <2> HIDE DEF Eqn, b
    <2> QED BY <1>4, <1>5
  <1>7. \A g \in 0 .. n : b[g] = f[g]
    <2> DEFINE S == {g \in Nat : g <= n => b[g] = f[g]}
    <2> HIDE DEF b, n
    <2>1. 0 \in S
      BY <1>1, <1>3, <1>6 DEF IsSum
    <2>2. ASSUME NEW g \in Nat, g \in S PROVE g + 1 \in S
      <3> SUFFICES ASSUME g + 1 <= n PROVE b[g + 1] = f[g + 1]
        OBVIOUS
      <3>1. b[g] = f[g] /\ g + 1 \in 0 .. n /\ g + 1 # 0 /\ (g + 1) - 1 = g
        BY <1>1, <2>2
      <3>2. b[g + 1] = b[g] + total_tiles(pr, g)
        BY <1>6, <3>1
      <3>3. f[g + 1] = f[g] + total_tiles(pr, g)
        BY <1>4, <3>1
      <3> QED BY <3>1, <3>2, <3>3
    <2> HIDE DEF S
    <2>3. \A g \in Nat : g \in S
      BY <2>1, <2>2, NatSetInduction
    <2> QED BY <1>1, <2>3 DEF S
  <1> HIDE DEF b, n
  <1>8. IsSum(b, n, t)
    <2>1. DOMAIN b = 0 .. n /\ b = [g \in 0 .. n |-> b[g]]
      BY <1>6
    <2>2. b \in [0 .. n -> Nat]
      BY <1>3, <1>7, <2>1 DEF IsSum
    <2>3. b[0] = 0 /\ \A g \in 0 .. n - 1 : b[g + 1] = b[g] + t[g]
      <3>1. \A g \in 0 .. n - 1 : g \in 0 .. n /\ g + 1 \in 0 .. n
        BY <1>1
      <3>2. 0 \in 0 .. n
        BY <1>1
      <3> QED BY <1>3, <1>7, <3>1, <3>2 DEF IsSum
    <2> QED BY <2>2, <2>3 DEF IsSum
  <1>9. \A g, h \in 0 .. n : g <= h => b[g] <= b[h]
    BY <1>1, <1>2, <1>8, SumsMonotone
  <1> USE DEF b, n
  <1>10. \A g \in Groups(pr) : b[g + 1] = b[g] + total_tiles(pr, g)
    <2> HIDE DEF b, n
    <2> QED BY <1>1, <1>2, <1>8 DEF IsSum
  <1>11. b[0] = 0 /\ \A g \in 0 .. n : b[g] \in Nat
    <2> HIDE DEF b, n
    <2> QED BY <1>8 DEF IsSum
  <1> QED BY <1>1, <1>9, <1>10, <1>11

-----------------------------------------------------------------------------
(* Numbers and tiles of a group: a line of Fast tiles after the other.     *)

Fast(pr, g) == IF get_rasterization_order(pr) = "AlongN" THEN ctas_along_n(pr, g)
                                                         ELSE ctas_along_m(pr, g)
Slow(pr, g) == IF get_rasterization_order(pr) = "AlongN" THEN ctas_along_m(pr, g)
                                                         ELSE ctas_along_n(pr, g)
TileAt(pr, g, line, place) ==
    IF get_rasterization_order(pr) = "AlongN"
    THEN [M_idx |-> line, N_idx |-> place, L_idx |-> g]
    ELSE [M_idx |-> place, N_idx |-> line, L_idx |-> g]

LEMMA CoordinatesAre ==
    ASSUME NEW pr, NEW g, NEW i
    PROVE  coordinates(pr, InfoOf(pr, g), i) =
             TileAt(pr, g, (i - blocks_before(pr)[g]) \div Fast(pr, g),
                           (i - blocks_before(pr)[g]) % Fast(pr, g))
  BY DEF coordinates, InfoOf, TileAt, Fast

LEMMA FastAndSlow ==
    ASSUME NEW pr \in Problems, NEW g \in Groups(pr)
    PROVE  /\ Fast(pr, g) \in Nat /\ Slow(pr, g) \in Nat
           /\ total_tiles(pr, g) = Slow(pr, g) * Fast(pr, g)
           /\ blocks_before(pr)[g] \in Nat
           /\ blocks_before(pr)[g + 1] =
                 blocks_before(pr)[g] + Slow(pr, g) * Fast(pr, g)
  <1>1. g \in 0 .. Last(pr)
    BY BlocksBefore DEF Groups, Last
  <1>2. total_tiles(pr, g) = Slow(pr, g) * Fast(pr, g)
    BY TileCounts, TimesTypes DEF total_tiles, Fast, Slow
  <1> QED BY <1>1, <1>2, TileCounts, BlocksBefore DEF Fast, Slow

\* Every number of a group is the number of a tile of the group ...
LEMMA TileOfNumber ==
    ASSUME NEW pr \in Problems, NEW g \in Groups(pr), NEW i \in Nat, Holds(pr, g, i)
    PROVE  \E line \in 0 .. Slow(pr, g) - 1, place \in 0 .. Fast(pr, g) - 1 :
             /\ coordinates(pr, InfoOf(pr, g), i) = TileAt(pr, g, line, place)
             /\ i = blocks_before(pr)[g] + line * Fast(pr, g) + place
  <1> DEFINE b == blocks_before(pr)[g]
             n == Fast(pr, g)
             m == Slow(pr, g)
             blk == i - b
  <1>1. b \in Nat /\ n \in Nat /\ m \in Nat
    BY FastAndSlow
  <1>2. b <= i /\ i < b + m * n
    BY FastAndSlow DEF Holds
  <1> HIDE DEF b, n, m
  <1>3. m * n \in Nat
    BY <1>1, TimesTypes
  <1>4. blk \in Nat /\ blk < m * n /\ i = b + blk
    BY <1>1, <1>2, <1>3
  <1>5. n # 0
    <2> SUFFICES ASSUME n = 0 PROVE FALSE
      OBVIOUS
    <2>1. m * n = 0
      BY <1>1
    <2> QED BY <1>4, <2>1
  <1> DEFINE line  == blk \div n
             place == blk % n
  <1> HIDE DEF blk
  <1>6. line \in Nat /\ place \in 0 .. n - 1 /\ blk = line * n + place
    BY <1>1, <1>4, <1>5, Quotient
  <1> HIDE DEF line, place
  <1>7. line < m
    <2>1. line * n \in Nat
      BY <1>1, <1>6, TimesTypes
    <2>2. line * n < m * n
      BY <1>3, <1>4, <1>6, <2>1
    <2> QED BY <1>1, <1>6, <2>2, TimesCancels
  <1>8. line \in 0 .. m - 1
    BY <1>1, <1>6, <1>7
  <1>9. coordinates(pr, InfoOf(pr, g), i) = TileAt(pr, g, line, place)
    BY CoordinatesAre DEF line, place, blk, b, n
  <1>10. i = b + line * n + place
    <2>1. line * n \in Nat
      BY <1>1, <1>6, TimesTypes
    <2> QED BY <1>1, <1>4, <1>6, <2>1
  <1> QED BY <1>6, <1>8, <1>9, <1>10 DEF b, n, m

\* ... and every tile of the group has one.
LEMMA NumberOfTile ==
    ASSUME NEW pr \in Problems, NEW g \in Groups(pr),
           NEW line \in 0 .. Slow(pr, g) - 1, NEW place \in 0 .. Fast(pr, g) - 1
    PROVE  \E i \in Nat : /\ Holds(pr, g, i)
                          /\ coordinates(pr, InfoOf(pr, g), i) = TileAt(pr, g, line, place)
  <1> DEFINE b == blocks_before(pr)[g]
             n == Fast(pr, g)
             m == Slow(pr, g)
             blk == line * n + place
             i == b + blk
  <1>1. b \in Nat /\ n \in Nat \ {0} /\ m \in Nat
        /\ blocks_before(pr)[g + 1] = b + m * n
    BY FastAndSlow
  <1>2. line \in Nat /\ line + 1 <= m /\ place \in 0 .. n - 1
    BY <1>1
  <1> HIDE DEF b, n, m
  <1>3. blk \in Nat /\ blk \div n = line /\ blk % n = place
    BY <1>1, <1>2, QuotientIs
  <1>4. blk < m * n
    <2>1. (line + 1) * n <= m * n
      BY <1>1, <1>2, TimesMonotone
    <2>2. (line + 1) * n = line * n + n /\ line * n \in Nat /\ m * n \in Nat
      BY <1>1, <1>2, TimesTypes
    <2> QED BY <1>1, <1>2, <2>1, <2>2
  <1>5. m * n \in Nat
    BY <1>1, TimesTypes
  <1> HIDE DEF blk
  <1>6. i \in Nat /\ i - b = blk /\ b <= i /\ i < b + m * n
    BY <1>1, <1>3, <1>4, <1>5
  <1> HIDE DEF i
  <1>7. Holds(pr, g, i)
    BY <1>1, <1>6 DEF Holds, b
  <1>8. coordinates(pr, InfoOf(pr, g), i) = TileAt(pr, g, line, place)
    BY <1>3, <1>6, CoordinatesAre DEF b, n
  <1> QED BY <1>6, <1>7, <1>8

\* A number is in one group.
LEMMA HoldsOnce ==
    ASSUME NEW pr \in Problems, NEW g \in Groups(pr), NEW h \in Groups(pr),
           NEW i \in Nat, Holds(pr, g, i), Holds(pr, h, i)
    PROVE  g = h
  <1> DEFINE b == blocks_before(pr)
  <1>1. /\ g \in 0 .. Last(pr) /\ g + 1 \in 0 .. Last(pr)
        /\ h \in 0 .. Last(pr) /\ h + 1 \in 0 .. Last(pr)
    BY BlocksBefore DEF Groups, Last
  <1>2. /\ b[g] <= i /\ i < b[g + 1] /\ b[h] <= i /\ i < b[h + 1]
    BY DEF Holds
  <1>3. /\ b[g] \in Nat /\ b[g + 1] \in Nat /\ b[h] \in Nat /\ b[h + 1] \in Nat
        /\ g + 1 <= h => b[g + 1] <= b[h]
        /\ h + 1 <= g => b[h + 1] <= b[g]
    BY <1>1, BlocksBefore
  <1> HIDE DEF b
  <1> QED BY <1>1, <1>2, <1>3

\* Different numbers are different tiles.
LEMMA TilesDiffer ==
    ASSUME NEW pr \in Problems, NEW g \in Groups(pr), NEW h \in Groups(pr),
           NEW i \in Nat, NEW j \in Nat, Holds(pr, g, i), Holds(pr, h, j),
           coordinates(pr, InfoOf(pr, g), i) = coordinates(pr, InfoOf(pr, h), j)
    PROVE  i = j
  <1>1. PICK q \in 0 .. Slow(pr, g) - 1, r \in 0 .. Fast(pr, g) - 1 :
             /\ coordinates(pr, InfoOf(pr, g), i) = TileAt(pr, g, q, r)
             /\ i = blocks_before(pr)[g] + q * Fast(pr, g) + r
    BY TileOfNumber
  <1>2. PICK u \in 0 .. Slow(pr, h) - 1, v \in 0 .. Fast(pr, h) - 1 :
             /\ coordinates(pr, InfoOf(pr, h), j) = TileAt(pr, h, u, v)
             /\ j = blocks_before(pr)[h] + u * Fast(pr, h) + v
    BY TileOfNumber
  <1>3. TileAt(pr, g, q, r) = TileAt(pr, h, u, v)
    BY <1>1, <1>2
  <1>4. g = h /\ q = u /\ r = v
    BY <1>3 DEF TileAt
  <1> QED BY <1>1, <1>2, <1>4

-----------------------------------------------------------------------------
(* The steps.                                                              *)

LEMMA GridIsNat ==
    ASSUME NEW pr \in Problems
    PROVE  get_grid_shape(pr) \in Nat
  <1> DEFINE a == pr.sm_count
             b == problem_blocks(pr)
  <1>1. a \in Nat
    BY ProblemsAssumption
  <1>2. b \in Nat
    <2>1. blocks_before(pr)[Last(pr)] \in Nat
      BY BlocksBefore
    <2> QED BY <1>1, <2>1 DEF problem_blocks, Last
  <1> HIDE DEF a, b
  <1>3. \E x \in {a, b} : \A y \in {a, b} : x <= y
    BY <1>1, <1>2
  <1>4. Min({a, b}) \in {a, b}
    BY <1>3 DEF Min
  <1> QED BY <1>1, <1>2, <1>4 DEF get_grid_shape, a, b

\* A look-up whose search starts in a group at or before the number.
LEMMA LookUpFrom ==
    ASSUME problem \in Problems, NEW g \in Groups(problem),
           NEW idx, LookUp(problem, idx, InfoOf(problem, g))
    PROVE  \/ pc' = "exit" /\ (idx \in Nat => blocks_before(problem)[Last(problem)] <= idx)
           \/ pc' = "search" /\ group_info' = InfoOf(problem, g)
  <1>1. CASE problem.host /\ idx >= problem_blocks(problem)
    <2>1. pc' = "exit" /\ idx >= blocks_before(problem)[Last(problem)]
      BY <1>1 DEF LookUp, problem_blocks, Last
    <2>2. Last(problem) \in 0 .. Last(problem)
      BY BlocksBefore
    <2>3. blocks_before(problem)[Last(problem)] \in Nat
      BY <2>2, BlocksBefore
    <2> QED BY <2>1, <2>3
  <1>2. CASE ~(problem.host /\ idx >= problem_blocks(problem))
    <2>1. /\ pc' = "search"
          /\ group_info' = [InfoOf(problem, g) EXCEPT !.total_tiles =
                               total_tiles(problem, InfoOf(problem, g).group_idx)]
      BY <1>2, Zenon DEF LookUp
    <2>2. [InfoOf(problem, g) EXCEPT !.total_tiles =
              total_tiles(problem, InfoOf(problem, g).group_idx)] = InfoOf(problem, g)
      BY DEF InfoOf
    <2> QED BY <2>1, <2>2
  <1> QED BY <1>1, <1>2

\* The first group of the list, where a work-group starts.
LEMMA FirstGroupIs ==
    ASSUME NEW pr \in Problems
    PROVE  /\ 0 \in Groups(pr) /\ blocks_before(pr)[0] = 0
           /\ FirstGroup(pr) = InfoOf(pr, 0)
  <1>1. 0 \in Groups(pr) /\ blocks_before(pr)[0] = 0
    BY BlocksBefore DEF Groups, Last
  <1> QED BY <1>1 DEF FirstGroup, InfoOf

\* Behind, for a search in group g.
LEMMA BehindIs ==
    ASSUME problem \in Problems, NEW g \in Groups(problem),
           group_info = InfoOf(problem, g), linear_idx \in Nat
    PROVE  /\ group_info.group_idx = g
           /\ group_info.start_linear_idx + group_info.total_tiles =
                 blocks_before(problem)[g + 1]
           /\ Behind <=> blocks_before(problem)[g + 1] <= linear_idx
           /\ blocks_before(problem)[g + 1] \in Nat
  <1>1. /\ group_info.group_idx = g
        /\ group_info.start_linear_idx = blocks_before(problem)[g]
        /\ group_info.total_tiles = total_tiles(problem, g)
    BY DEF InfoOf
  <1>2. blocks_before(problem)[g + 1] = blocks_before(problem)[g] + total_tiles(problem, g)
    BY BlocksBefore
  <1>3. g + 1 \in 0 .. Last(problem)
    BY BlocksBefore DEF Groups, Last
  <1>4. blocks_before(problem)[g + 1] \in Nat
    BY <1>3, BlocksBefore
  <1> QED BY <1>1, <1>2, <1>4 DEF Behind

LEMMA InitTiles == Init => TilesInv
  <1> SUFFICES ASSUME Init PROVE TilesInv
    OBVIOUS
  <1> DEFINE d == get_grid_shape(problem)
  <1>1. /\ problem \in Problems /\ d > 0 /\ wg = 0 /\ linear_idx = 0 /\ pc = "search"
        /\ group_info = FirstGroup(problem) /\ done = {}
    BY DEF Init
  <1>2. d \in Nat \ {0}
    BY <1>1, GridIsNat
  <1>3. 0 % d = 0
    <2> HIDE DEF d
    <2> QED BY <1>2, ModOfSmall
  <1>4. SearchInv
    <2>1. linear_idx \in Nat /\ linear_idx % d = wg
      BY <1>1, <1>3
    <2>2. /\ 0 \in Groups(problem) /\ group_info = InfoOf(problem, 0)
          /\ blocks_before(problem)[0] <= linear_idx
      BY <1>1, FirstGroupIs
    <2> QED BY <1>1, <2>1, <2>2 DEF SearchInv
  <1>5. \A i \in Nat : ~Passed(i)
    <2> SUFFICES ASSUME NEW i \in Nat PROVE ~(i % d < 0) /\ ~(i < 0)
      BY <1>1 DEF Passed
    <2> HIDE DEF d
    <2> QED BY <1>2, Quotient
  <1>6. Covered
    BY <1>5 DEF Covered
  <1>7. wg \in 0 .. d - 1
    <2> HIDE DEF d
    <2> QED BY <1>1, <1>2
  <1> QED BY <1>1, <1>2, <1>4, <1>6, <1>7 DEF TilesInv

\* What stays as it is while the search goes on.
LEMMA SameDone ==
    ASSUME TilesInv, UNCHANGED <<problem, wg, linear_idx, done>>, SearchInv'
    PROVE  TilesInv'
  <1>1. problem' = problem /\ wg' = wg /\ linear_idx' = linear_idx /\ done' = done
    OBVIOUS
  <1>2. \A x \in done : InPlace(x)'
    BY <1>1 DEF TilesInv, InPlace
  <1>3. Covered'
    BY <1>1 DEF TilesInv, Covered, Passed
  <1> QED BY <1>1, <1>2, <1>3 DEF TilesInv

LEMMA NextGroupTiles == TilesInv /\ NextGroup => TilesInv'
  <1> SUFFICES ASSUME TilesInv, NextGroup PROVE TilesInv'
    OBVIOUS
  <1> DEFINE b == blocks_before(problem)
  <1>1. /\ pc = "search" /\ Behind
        /\ UNCHANGED <<problem, wg, linear_idx, done>>
    BY DEF NextGroup, loop
  <1>2. /\ problem \in Problems /\ linear_idx \in Nat
        /\ linear_idx % get_grid_shape(problem) = wg
    BY DEF TilesInv, SearchInv
  <1>3. PICK g \in Groups(problem) : group_info = InfoOf(problem, g)
    BY <1>1 DEF TilesInv, SearchInv
  <1>4. /\ group_info.group_idx = g
        /\ group_info.start_linear_idx + group_info.total_tiles = b[g + 1]
        /\ b[g + 1] <= linear_idx
    BY <1>1, <1>2, <1>3, BehindIs
  <1>5. CASE g + 1 >= Len(problem.groups)
    <2>1. pc' = "exit"
      BY <1>4, <1>5 DEF NextGroup
    <2>2. g + 1 = Last(problem)
      BY <1>2, <1>5, BlocksBefore DEF Groups, Last
    <2>3. b[Last(problem)] <= linear_idx
      BY <1>4, <2>2
    <2>4. SearchInv'
      BY <1>1, <1>2, <2>1, <2>3 DEF SearchInv
    <2> QED BY <1>1, <2>4, SameDone
  <1>6. CASE ~(g + 1 >= Len(problem.groups))
    <2>1. /\ pc' = "search"
          /\ group_info' = [ group_idx        |-> g + 1,
                             start_linear_idx |-> b[g + 1],
                             total_tiles      |-> total_tiles(problem, g + 1) ]
      BY <1>1, <1>4, <1>6 DEF NextGroup
    <2>2. g + 1 \in Groups(problem)
      BY <1>2, <1>6, BlocksBefore DEF Groups, Last
    <2>3. group_info' = InfoOf(problem, g + 1)
      BY <2>1 DEF InfoOf
    <2>4. SearchInv'
      BY <1>1, <1>2, <1>4, <2>1, <2>2, <2>3 DEF SearchInv
    <2> QED BY <1>1, <2>4, SameDone
  <1> QED BY <1>5, <1>6

LEMMA FoundTiles == TilesInv /\ Found => TilesInv'
  <1> SUFFICES ASSUME TilesInv, Found PROVE TilesInv'
    OBVIOUS
  <1>1. /\ pc = "search" /\ ~Behind /\ pc' = "compute"
        /\ tile' = coordinates(problem, group_info, linear_idx)
        /\ UNCHANGED <<problem, wg, linear_idx, group_info, done>>
    BY DEF Found
  <1>2. /\ problem \in Problems /\ linear_idx \in Nat
        /\ linear_idx % get_grid_shape(problem) = wg
    BY DEF TilesInv, SearchInv
  <1>3. PICK g \in Groups(problem) :
             group_info = InfoOf(problem, g) /\ blocks_before(problem)[g] <= linear_idx
    BY <1>1 DEF TilesInv, SearchInv
  <1>4. Holds(problem, g, linear_idx)
    <2>1. ~(blocks_before(problem)[g + 1] <= linear_idx)
          /\ blocks_before(problem)[g + 1] \in Nat
      BY <1>1, <1>2, <1>3, BehindIs
    <2> QED BY <1>2, <1>3, <2>1 DEF Holds
  <1>5. tile' = coordinates(problem, InfoOf(problem, g), linear_idx)
    BY <1>1, <1>3
  <1>6. SearchInv'
    BY <1>1, <1>2, <1>3, <1>4, <1>5 DEF SearchInv
  <1> QED BY <1>1, <1>6, SameDone

\* The next number of the work-group is the next of its residue: what lies
\* between them belongs to others.
LEMMA ComputeTiles == TilesInv /\ Compute => TilesInv'
  <1> SUFFICES ASSUME TilesInv, Compute PROVE TilesInv'
    OBVIOUS
  <1> DEFINE d == get_grid_shape(problem)
  <1>0. PICK x : x = [ wg |-> wg, tile |-> tile, shape |-> curr_group,
                       params |-> base_params', at |-> linear_idx ]
    OBVIOUS
  <1>1. /\ pc = "compute" /\ done' = done \cup {x}
        /\ linear_idx' = linear_idx + d
        /\ LookUp(problem, linear_idx', group_info)
        /\ UNCHANGED <<problem, wg, tile>>
    BY <1>0 DEF Compute
  <1>2. /\ problem \in Problems /\ linear_idx \in Nat /\ d \in Nat \ {0}
        /\ linear_idx % d = wg /\ wg \in 0 .. d - 1
    BY DEF TilesInv, SearchInv
  <1>3. PICK g \in Groups(problem) :
             /\ group_info = InfoOf(problem, g) /\ blocks_before(problem)[g] <= linear_idx
             /\ Holds(problem, g, linear_idx)
             /\ tile = coordinates(problem, InfoOf(problem, g), linear_idx)
    BY <1>1 DEF TilesInv, SearchInv
  <1>4. linear_idx' \in Nat /\ linear_idx' % d = wg /\ linear_idx <= linear_idx'
    <2> HIDE DEF d
    <2>1. (linear_idx + d) % d = linear_idx % d
      BY <1>2, ModStep
    <2> QED BY <1>1, <1>2, <2>1
  <1>5. SearchInv'
    <2>1. LookUp(problem, linear_idx', InfoOf(problem, g))
      BY <1>1, <1>3
    <2>2. \/ pc' = "exit" /\ (linear_idx' \in Nat
                               => blocks_before(problem)[Last(problem)] <= linear_idx')
          \/ pc' = "search" /\ group_info' = InfoOf(problem, g)
      BY <1>2, <2>1, LookUpFrom
    <2>3. blocks_before(problem)[g] <= linear_idx'
      <3>1. blocks_before(problem)[g] \in Nat
        BY <1>2, FastAndSlow
      <3> QED BY <1>2, <1>3, <1>4, <3>1
    <2> QED BY <1>1, <1>4, <2>2, <2>3 DEF SearchInv
  <1>6. \A y \in done' : InPlace(y)'
    <2>1. /\ x = [ wg |-> x.wg, tile |-> x.tile, shape |-> x.shape,
                   params |-> x.params, at |-> x.at ]
          /\ x.at = linear_idx /\ x.wg = wg /\ x.tile = tile
      BY <1>0
    <2>2. InPlace(x)
      BY <1>2, <1>3, <2>1 DEF InPlace
    <2>3. \A y \in done' : InPlace(y)
      BY <1>1, <2>2 DEF TilesInv
    <2> QED BY <1>1, <2>3 DEF InPlace
  <1>7. Covered'
    <2> SUFFICES ASSUME NEW i \in Nat, i < blocks_before(problem)[Last(problem)],
                        Passed(i)'
                 PROVE  \E y \in done' : y.at = i
      BY <1>1 DEF Covered
    <2>1. CASE Passed(i)
      <3>1. \E y \in done : y.at = i
        BY <2>1 DEF TilesInv, Covered
      <3> QED BY <1>1, <3>1
    <2>2. CASE ~Passed(i)
      <3>1. i % d = wg /\ i < linear_idx + d /\ ~(i < linear_idx)
        BY <1>1, <2>2 DEF Passed
      <3>2. i = linear_idx
        <4> HIDE DEF d
        <4>1. linear_idx <= i /\ i % d = linear_idx % d
          BY <1>2, <3>1
        <4> QED BY <1>2, <3>1, <4>1, ModStep
      <3>3. x \in done' /\ x.at = i
        BY <1>0, <1>1, <3>2
      <3> QED BY <3>3
    <2> QED BY <2>1, <2>2
  <1> QED BY <1>1, <1>2, <1>5, <1>6, <1>7 DEF TilesInv

LEMMA NextWorkGroupTiles == TilesInv /\ NextWorkGroup => TilesInv'
  <1> SUFFICES ASSUME TilesInv, NextWorkGroup PROVE TilesInv'
    OBVIOUS
  <1> DEFINE d == get_grid_shape(problem)
  <1>1. /\ pc = "exit" /\ wg + 1 < d /\ wg' = wg + 1 /\ linear_idx' = wg + 1
        /\ LookUp(problem, wg + 1, FirstGroup(problem))
        /\ UNCHANGED <<problem, done>>
    BY DEF NextWorkGroup
  <1>2. /\ problem \in Problems /\ linear_idx \in Nat /\ d \in Nat \ {0}
        /\ wg \in 0 .. d - 1
        /\ blocks_before(problem)[Last(problem)] <= linear_idx
    BY <1>1 DEF TilesInv, SearchInv
  <1>3. wg' \in 0 .. d - 1 /\ wg + 1 \in Nat /\ (wg + 1) % d = wg + 1
    <2> HIDE DEF d
    <2>1. wg + 1 \in Nat /\ wg + 1 < d
      BY <1>1, <1>2
    <2> QED BY <1>1, <1>2, <2>1, ModOfSmall
  <1>4. SearchInv'
    <2>1. LookUp(problem, wg + 1, InfoOf(problem, 0)) /\ 0 \in Groups(problem)
          /\ blocks_before(problem)[0] = 0
      BY <1>1, <1>2, FirstGroupIs
    <2>2. \/ pc' = "exit" /\ (wg + 1 \in Nat
                               => blocks_before(problem)[Last(problem)] <= wg + 1)
          \/ pc' = "search" /\ group_info' = InfoOf(problem, 0)
      BY <1>2, <2>1, LookUpFrom
    <2>3. blocks_before(problem)[0] <= wg + 1
      BY <1>3, <2>1
    <2> QED BY <1>1, <1>3, <2>1, <2>2, <2>3 DEF SearchInv
  <1>5. \A y \in done' : InPlace(y)'
    BY <1>1 DEF TilesInv, InPlace
  <1>6. Covered'
    <2> SUFFICES ASSUME NEW i \in Nat, i < blocks_before(problem)[Last(problem)],
                        Passed(i)'
                 PROVE  \E y \in done : y.at = i
      BY <1>1 DEF Covered
    <2>1. i % d < wg + 1 \/ (i % d = wg + 1 /\ i < wg + 1)
      BY <1>1 DEF Passed
    <2>2. i % d \in Nat /\ i % d <= i
      <3> HIDE DEF d
      <3>1. i % d \in 0 .. d - 1 /\ d \in Nat \ {0}
        BY <1>2, Quotient
      <3>2. i % d <= i
        BY <3>1, ModOfSmall
      <3> QED BY <3>1, <3>2
    <2>3. i % d < wg \/ i % d = wg
      <3> HIDE DEF d
      <3> QED BY <1>2, <2>1, <2>2
    <2>4. i < linear_idx
      <3>1. Last(problem) \in 0 .. Last(problem)
        BY <1>2, BlocksBefore
      <3>2. blocks_before(problem)[Last(problem)] \in Nat
        BY <1>2, <3>1, BlocksBefore
      <3> QED BY <1>2, <3>2
    <2>5. Passed(i)
      BY <2>3, <2>4 DEF Passed
    <2> QED BY <2>5 DEF TilesInv, Covered
  <1> QED BY <1>1, <1>2, <1>3, <1>4, <1>5, <1>6 DEF TilesInv

LEMMA StepTiles == TilesInv /\ [Next]_vars => TilesInv'
  <1> SUFFICES ASSUME TilesInv, UNCHANGED vars PROVE TilesInv'
    BY NextGroupTiles, FoundTiles, ComputeTiles, NextWorkGroupTiles DEF Next, Terminated
  <1>1. UNCHANGED <<problem, wg, pc, linear_idx, group_info, tile, done>>
    BY DEF vars, loop
  <1>2. SearchInv'
    BY <1>1 DEF TilesInv, SearchInv, Holds
  <1> QED BY <1>1, <1>2, SameDone

-----------------------------------------------------------------------------
LEMMA TilesInvImplies == TilesInv /\ OwnGroupsParameters => EachTileOnce
  <1> SUFFICES ASSUME TilesInv, OwnGroupsParameters PROVE EachTileOnce
    OBVIOUS
  <1> DEFINE d == get_grid_shape(problem)
  <1>1. /\ problem \in Problems /\ d \in Nat \ {0} /\ wg \in 0 .. d - 1
        /\ \A x \in done : InPlace(x)
    BY DEF TilesInv
  <1>2. \A x \in done : x.tile \in AllTiles
    <2> SUFFICES ASSUME NEW x \in done PROVE x.tile \in AllTiles
      OBVIOUS
    <2>1. PICK g \in Groups(problem) :
               Holds(problem, g, x.at)
               /\ x.tile = coordinates(problem, InfoOf(problem, g), x.at)
      BY <1>1 DEF InPlace
    <2>2. PICK q \in 0 .. Slow(problem, g) - 1, r \in 0 .. Fast(problem, g) - 1 :
               x.tile = TileAt(problem, g, q, r)
      BY <1>1, <2>1, TileOfNumber DEF InPlace
    <2>3. x.tile \in TilesOf(g)
      BY <2>2 DEF TilesOf, TileAt, Slow, Fast
    <2> QED BY <2>3 DEF AllTiles
  <1>3. \A x, y \in done : x.tile = y.tile => x = y
    <2> SUFFICES ASSUME NEW x \in done, NEW y \in done, x.tile = y.tile PROVE x = y
      OBVIOUS
    <2>1. x.at = y.at
      BY <1>1, TilesDiffer DEF InPlace
    <2>2. x.wg = y.wg
      BY <1>1, <2>1 DEF InPlace
    <2>3. x.shape = y.shape /\ x.params = y.params
      BY DEF OwnGroupsParameters
    <2>4. /\ x = [ wg |-> x.wg, tile |-> x.tile, shape |-> x.shape, params |-> x.params,
                   at |-> x.at ]
          /\ y = [ wg |-> y.wg, tile |-> y.tile, shape |-> y.shape, params |-> y.params,
                   at |-> y.at ]
      BY <1>1 DEF InPlace
    <2> QED BY <2>1, <2>2, <2>3, <2>4
  <1>4. ASSUME pc = "exit", wg + 1 = d, NEW t \in AllTiles
        PROVE  \E x \in done : x.tile = t
    <2>1. PICK g \in Groups(problem) : t \in TilesOf(g)
      BY <1>4 DEF AllTiles
    <2>2. PICK q \in 0 .. Slow(problem, g) - 1, r \in 0 .. Fast(problem, g) - 1 :
               t = TileAt(problem, g, q, r)
      <3>1. CASE get_rasterization_order(problem) = "AlongN"
        BY <2>1, <3>1 DEF TilesOf, TileAt, Slow, Fast
      <3>2. CASE get_rasterization_order(problem) # "AlongN"
        BY <2>1, <3>2 DEF TilesOf, TileAt, Slow, Fast
      <3> QED BY <3>1, <3>2
    <2>3. PICK i \in Nat : Holds(problem, g, i)
                           /\ coordinates(problem, InfoOf(problem, g), i) = t
      BY <1>1, <2>2, NumberOfTile
    <2>4. i < blocks_before(problem)[Last(problem)]
      <3>1. g + 1 \in 0 .. Last(problem) /\ Last(problem) \in 0 .. Last(problem)
            /\ g + 1 <= Last(problem)
        BY <1>1, BlocksBefore DEF Groups, Last
      <3>2. /\ blocks_before(problem)[g + 1] <= blocks_before(problem)[Last(problem)]
            /\ blocks_before(problem)[g + 1] \in Nat
            /\ blocks_before(problem)[Last(problem)] \in Nat
        BY <1>1, <3>1, BlocksBefore
      <3> QED BY <2>3, <3>2 DEF Holds
    <2>5. Passed(i)
      <3>1. linear_idx \in Nat /\ blocks_before(problem)[Last(problem)] <= linear_idx
        BY <1>4 DEF TilesInv, SearchInv
      <3>2. blocks_before(problem)[Last(problem)] \in Nat
        <4>1. Last(problem) \in 0 .. Last(problem)
          BY <1>1, BlocksBefore
        <4> QED BY <1>1, <4>1, BlocksBefore
      <3>3. i < linear_idx
        BY <2>4, <3>1, <3>2
      <3>4. i % d < wg \/ i % d = wg
        <4> HIDE DEF d
        <4>1. i % d \in 0 .. d - 1
          BY <1>1, Quotient
        <4> QED BY <1>1, <1>4, <4>1
      <3> QED BY <3>3, <3>4 DEF Passed
    <2>6. PICK x \in done : x.at = i
      BY <2>4, <2>5 DEF TilesInv, Covered
    <2>7. PICK h \in Groups(problem) :
               Holds(problem, h, i)
               /\ x.tile = coordinates(problem, InfoOf(problem, h), i)
      BY <1>1, <2>6 DEF InPlace
    <2>8. h = g
      BY <1>1, <2>3, <2>7, HoldsOnce
    <2> QED BY <2>3, <2>7, <2>8
  <1>5. pc = "exit" /\ wg + 1 = d => {x.tile : x \in done} = AllTiles
    BY <1>2, <1>4
  <1> QED BY <1>2, <1>3, <1>5 DEF EachTileOnce

\* The work-groups compute every tile of every group once, and nothing else:
\* for every list of groups, empty ones included, every tile extent and every
\* grid, and whether or not the host knew the extents.
THEOREM TilesOnce == Spec => []EachTileOnce
  <1>1. Init => TilesInv
    BY InitTiles
  <1> QED BY <1>1, StepTiles, TilesInvImplies, OwnParameters, PTL DEF Spec
=============================================================================

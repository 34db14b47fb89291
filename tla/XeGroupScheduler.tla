--------------------------- MODULE XeGroupScheduler ---------------------------
(***************************************************************************)
(* The grouped GEMM: one launch multiplies a list of problems of different *)
(* extents.  The output tiles of all groups are numbered one after the     *)
(* other; a persistent work-group strides over the numbers and looks each  *)
(* of them up in the list, starting from the group it found last.  The     *)
(* kernel's loop keeps the parameters of a group until the group changes.  *)
(*                                                                         *)
(* Work-groups share nothing, so they are walked one after the other.      *)
(* Clusters are 1x1x1 (the kernel asserts it); the grid then has one row   *)
(* and get_log_swizzle_size is 0, so clusters and swizzling are left out.  *)
(*                                                                         *)
(* A problem has                                                           *)
(*   groups    sequence of output extents [m, n], in elements              *)
(*   host      whether the host knows the extents when it launches         *)
(*   raster    "AlongM", "AlongN" or "Heuristic"                           *)
(*   sm_count  work-groups the device runs at the same time                *)
(***************************************************************************)
EXTENDS Integers, Sequences, FiniteSets, FiniteSetsExt

CONSTANTS Problems,   \* the problems to walk
          Cta         \* extent of an output tile in m and in n

ASSUME CtaAssumption == Cta \in Nat \ {0}

\* A group may be empty, the list of groups may not.
ASSUME ProblemsAssumption ==
    \A pr \in Problems :
        /\ pr.groups \in Seq([m : Nat, n : Nat]) /\ Len(pr.groups) > 0
        /\ pr.host \in BOOLEAN
        /\ pr.sm_count \in Nat

VARIABLES problem,      \* the problem of this launch
          wg,           \* the work-group being walked
          pc,           \* where its loop is
          linear_idx,   \* its current_work_linear_idx_
          group_info,   \* its current_group_info_
          tile,         \* its work_tile_info
          curr_group,   \* group of its problem_shape_MNKL
          did_group_change,
          base_params,  \* group of its mainloop and epilogue parameters
          done          \* the tiles computed so far, by all work-groups

loop == <<tile, curr_group, did_group_change, base_params>>
vars == <<problem, wg, pc, linear_idx, group_info, loop, done>>

NoGroup == -1
Groups(pr) == 0 .. Len(pr.groups) - 1

ceil_div(a, b) == (a + b - 1) \div b

ctas_along_m(pr, g) == ceil_div(pr.groups[g + 1].m, Cta)
ctas_along_n(pr, g) == ceil_div(pr.groups[g + 1].n, Cta)
total_tiles(pr, g)  == ctas_along_m(pr, g) * ctas_along_n(pr, g)

-----------------------------------------------------------------------------
(* The host.                                                               *)

\* The blocks of the groups before each group, and of all of them.
blocks_before(pr) ==
    LET before[g \in 0 .. Len(pr.groups)] ==
            IF g = 0 THEN 0 ELSE before[g - 1] + total_tiles(pr, g - 1)
    IN  before

\* The blocks of all groups or, as long as the host does not know them, as
\* many as the device can run.
problem_blocks(pr) == IF pr.host THEN blocks_before(pr)[Len(pr.groups)]
                                 ELSE pr.sm_count

get_rasterization_order(pr) ==
    IF pr.raster = "Heuristic"
    THEN IF 1 > problem_blocks(pr) THEN "AlongM" ELSE "AlongN"
    ELSE pr.raster

get_grid_shape(pr) == Min({pr.sm_count, problem_blocks(pr)})

-----------------------------------------------------------------------------
(* A work-group.                                                           *)

\* The tile with number idx, which belongs to the group of info.
coordinates(pr, info, idx) ==
    LET blk == idx - info.start_linear_idx
        g   == info.group_idx
    IN  IF get_rasterization_order(pr) = "AlongN"
        THEN [ M_idx |-> blk \div ctas_along_n(pr, g),
               N_idx |-> blk % ctas_along_n(pr, g),
               L_idx |-> g ]
        ELSE [ M_idx |-> blk % ctas_along_m(pr, g),
               N_idx |-> blk \div ctas_along_m(pr, g),
               L_idx |-> g ]

\* get_current_work_for_linear_idx(idx), up to the search: a number behind the
\* last block ends the work, if the host counted the blocks.
LookUp(pr, idx, info) ==
    IF pr.host /\ idx >= problem_blocks(pr)
    THEN /\ pc' = "exit"
         /\ group_info' = info
    ELSE /\ pc' = "search"
         /\ group_info' = [info EXCEPT !.total_tiles = total_tiles(pr, info.group_idx)]

FirstGroup(pr) ==
    [group_idx |-> 0, start_linear_idx |-> 0, total_tiles |-> total_tiles(pr, 0)]

Init ==
    /\ problem \in {pr \in Problems : get_grid_shape(pr) > 0}
    /\ wg = 0
    /\ pc = "search"
    /\ linear_idx = 0
    /\ group_info = FirstGroup(problem)
    /\ tile = [M_idx |-> 0, N_idx |-> 0, L_idx |-> NoGroup]
    /\ curr_group = NoGroup
    /\ did_group_change = TRUE
    /\ base_params = NoGroup
    /\ done = {}

\* The group of the search ends before the number.
Behind == group_info.start_linear_idx + group_info.total_tiles <= linear_idx

\* Mutant: the tiles of the next group are counted before the start moves on.
NextGroup_TotalFirst ==
    /\ pc = "search"
    /\ Behind
    /\ LET next == group_info.group_idx + 1
       IN  IF next >= Len(problem.groups)
           THEN /\ pc' = "exit"
                /\ group_info' = [group_info EXCEPT !.group_idx = next]
           ELSE /\ pc' = pc
                /\ group_info' =
                     [ group_idx        |-> next,
                       start_linear_idx |-> group_info.start_linear_idx
                                              + total_tiles(problem, next),
                       total_tiles      |-> total_tiles(problem, next) ]
    /\ UNCHANGED <<problem, wg, linear_idx, loop, done>>

\* One round of the search: on to the next group, if there is one.
NextGroup ==
    /\ pc = "search"
    /\ Behind
    /\ LET next == group_info.group_idx + 1
       IN  IF next >= Len(problem.groups)
           THEN /\ pc' = "exit"
                /\ group_info' = [group_info EXCEPT !.group_idx = next]
           ELSE /\ pc' = pc
                /\ group_info' =
                     [ group_idx        |-> next,
                       start_linear_idx |-> group_info.start_linear_idx
                                              + group_info.total_tiles,
                       total_tiles      |-> total_tiles(problem, next) ]
    /\ UNCHANGED <<problem, wg, linear_idx, loop, done>>

\* Mutant: only the first group of a work-group counts as a change.
Found_FirstOnly ==
    /\ pc = "search"
    /\ ~Behind
    /\ pc' = "compute"
    /\ tile' = coordinates(problem, group_info, linear_idx)
    /\ did_group_change' = (curr_group = NoGroup)
    /\ curr_group' = tile'.L_idx
    /\ UNCHANGED <<problem, wg, linear_idx, group_info, base_params, done>>

\* The search has found the tile, and the loop goes on with it.
Found ==
    /\ pc = "search"
    /\ ~Behind
    /\ pc' = "compute"
    /\ tile' = coordinates(problem, group_info, linear_idx)
    /\ did_group_change' = (curr_group # tile'.L_idx)
    /\ curr_group' = tile'.L_idx
    /\ UNCHANGED <<problem, wg, linear_idx, group_info, base_params, done>>

\* Mainloop and epilogue, then fetch_next_work: the next number is a whole grid
\* further.
Compute ==
    /\ pc = "compute"
    /\ base_params' = IF did_group_change THEN curr_group ELSE base_params
    /\ did_group_change' = FALSE
    /\ done' = done \cup
         {[ wg |-> wg, tile |-> tile, shape |-> curr_group, params |-> base_params',
            at |-> linear_idx ]}
    /\ linear_idx' = linear_idx + get_grid_shape(problem)
    /\ LookUp(problem, linear_idx', group_info)
    /\ UNCHANGED <<problem, wg, tile, curr_group>>

\* The walk turns to the next work-group of the grid.
NextWorkGroup ==
    /\ pc = "exit"
    /\ wg + 1 < get_grid_shape(problem)
    /\ wg' = wg + 1
    /\ linear_idx' = wg + 1
    /\ LookUp(problem, wg + 1, FirstGroup(problem))
    /\ tile' = [M_idx |-> 0, N_idx |-> 0, L_idx |-> NoGroup]
    /\ curr_group' = NoGroup
    /\ did_group_change' = TRUE
    /\ base_params' = NoGroup
    /\ UNCHANGED <<problem, done>>

Terminated ==
    /\ pc = "exit"
    /\ wg + 1 = get_grid_shape(problem)
    /\ UNCHANGED vars

Next == NextGroup \/ Found \/ Compute \/ NextWorkGroup \/ Terminated

Spec == Init /\ [][Next]_vars

-----------------------------------------------------------------------------
TilesOf(g) ==
    [ M_idx : 0 .. ctas_along_m(problem, g) - 1,
      N_idx : 0 .. ctas_along_n(problem, g) - 1,
      L_idx : {g} ]

AllTiles == UNION {TilesOf(g) : g \in Groups(problem)}

\* The work-groups together compute every tile of every group, each of them
\* once, and nothing that is not a tile of a group: whatever the extents, empty
\* groups included, and whether or not the host knows them.
EachTileOnce ==
    /\ \A x \in done : x.tile \in AllTiles
    /\ \A x, y \in done : x.tile = y.tile => x = y
    /\ pc = "exit" /\ wg + 1 = get_grid_shape(problem) =>
          {x.tile : x \in done} = AllTiles

\* A tile is computed with the extents and with the mainloop and epilogue
\* parameters of its own group, and not with those the work-group kept from an
\* earlier one.
OwnGroupsParameters ==
    \A x \in done : x.shape = x.tile.L_idx /\ x.params = x.tile.L_idx
=============================================================================

# kalypsso-core in TLA+

kalypsso-core is the C++/Kokkos/MPI core of block-based adaptive mesh refinement (AMR)
solvers. A forest of quadtrees or octrees (p4est) is cut among MPI ranks; each rank keeps
arrays with one entry (a value, or a block of cells) per leaf, adapts its leaves, moves the
arrays onto the new mesh, repartitions mesh and arrays, and exchanges the layer of ghost
leaves at every time step. The numerics are floating-point kernels; what can go wrong
without any test noticing is the bookkeeping around them: who owns which leaf, in which
order, in which partition, in a buffer of which size, and whether all ranks agree.

This directory holds TLA+ modules of that bookkeeping, the TLC configurations that check
them, and TLAPS proofs of the central results. Paths below are relative to
`src/src/kalypsso/core/` unless they begin with another directory.

## 1. The system

### Components, their state, their operations

| Component | State | Operations | Correct when | Modelled by |
|---|---|---|---|---|
| `AMRmesh` (a p4est forest and its ghost layer) | leaves of each rank in Morton order, `global_first_quadrant`, ghosts, mirrors and their offsets per rank | `reset_ghost`, counts of owned, ghost and mirror leaves | ghosts and mirrors of two neighbours list the same leaves in the same order | `GhostExchange`, `AMRAdapt` |
| `AMRContext` | device, host and temporary flags, `AMRCycleData` counters | `adapt_mesh`: refine, coarsen, balance through p4est callbacks | every leaf does what its flag asks; counters agree with p4est; levels stay in range; all ranks enter the same collectives | `AMRAdapt`, `Quads` |
| `MeshMap`, `AMRMeshInfo`, `OutsideQuadsInfo` | orchard keys of owned, ghost, outside and mirror leaves; hash map key -> index; counts; conformal status | `rebuild` after each change of mesh, as a script of operations with two collectives | the map is the inverse of the keys, mirrors fit the ghosts of others, counts fit the arrays, nothing of the mesh before is left | `MeshMap`, `BrickNumbering` |
| orchard keys | 64 bits: outside, level, interleaved octant, tree | `encode`, fields, father, child, brothers, neighbours | nothing is lost; order is Morton's; a neighbour's neighbour is the octant | `OrchardKey`, `OrchardBits` |
| conformal status | two bits per neighbour of a leaf | search at the same level, coarser, finer | it is the level of the leaf that is there in space | `ConformalStatus` |
| `StencilHelper`, `NeighborCellsAcrossFace` | none: the hash map and the keys | `getNeighLoc` and its variants for cells, faces, edges | what is found is at that place | `Stencils`, `MeshStencils` |
| `FillBlockGhostCells` (both versions), `...Faces`, `...Fluxes`, materials of `MultiMatFillBlockGhostCells` | blocks with layers of ghosts | fill every ghost from the same level, a finer or a coarser one | every ghost has the value of its place, stencils stay inside of what the rank knows | `BlockGhosts`, `MeshBlockGhosts` |
| `AMRManager` | the above together, and a clone of the hash map | `rebuild`, `rebuild_from_context`, `load_balancing`, `load_balancing_and_copy`, remaps | mesh, map and arrays always belong to the same mesh | `AMRAdapt`, `LoadBalancing` |
| `UserDataRemapper` | old hash map, old array, new array | `remap_leaf_data` (same leaf, father, eldest child) | each new leaf gets the value of the old leaves that cover it | `AMRAdapt` |
| `MeshPartitioner`, `MeshPartitioner_helper` | `m_lb_gfq_old`, `m_lb_gfq_new`; requests of the transfer | `partition_mesh`, `repartition_userdata`, `transfer_fixed` | every payload arrives at the new owner of its leaf | `MeshPartition`, `PartitionedField` |
| `MaterialPresence`, `MaterialPresenceExchanger` | which variables each leaf holds | `reorganize`, `exchange` | every ghost knows the variables of its leaf | `GhostExchange` |
| `MeshGhostsExchanger`, `MeshGhostsExchangerMultiVar` | send and receive buffers that only grow | `exchange_multi_var` of the second (`resize`, pack, requests, wait, unpack) | every ghost holds the values of its leaf | `GhostExchange` |
| `scan_utils.h` | indices of keys by level, per rank | `compute_index_by_level` | keys of a level are numbered from 0 over all ranks | `IndexByLevel` |
| `SolverBase`, `OutputParams` | time, time step, iteration, counters of outputs and checkpoints | `next_iteration`, `compute_dt`, `should_save_solution`, `should_do_checkpoint`, `should_do_amr_cycle`, `should_do_load_balancing`, `save_solution` | all ranks take the same decisions; outputs are on time, and not too many | `TimeLoop` |
| I/O, equations of state, volume of fluid, problem set-ups, configuration, logging | - | - | - | no (section 8) |

`PROJECT.json` lists every component with its files and says what is left out of each.

### How they interact

A run of an application is, on every rank, the loop of `SolverBase`: ask `should_...`;
write output; adapt (`ComputeRefineFlags` -> `AMRContext::adapt_mesh` ->
`AMRManager::rebuild_from_context` -> `UserDataRemapper`); balance the load
(`MeshPartitioner` -> `AMRManager::rebuild`); reduce the time step; exchange the ghosts;
step. The parts share memory and no lock: on a rank the program is sequential, apart from
data-parallel kernels. p4est calls back into `AMRContext`, once per leaf, in its own order.
Between ranks there are collectives (p4est's, `MPI_Exscan`, `MPI_Allreduce`) and two
point-to-point programs, the transfer of a repartition and the exchange of ghosts, which
use one tag each and no barrier.

### What is hard

- *Interleaving and order of messages.* A rank may be one array or one time step ahead of
  its neighbour, with messages of both in flight on the same tag.
- *Two sides that compute the same thing.* Sender and receiver find the slice they share by
  bisection in different partitions, with ranks that own nothing in between.
- *Callbacks that count.* `AMRContext` finds the flag of a leaf by the number of times p4est
  has called it; refinement writes flags for leaves that do not exist yet.
- *Stale tables.* Hash map, old partition, sizes of buffers, counts of leaves: each is right
  for one mesh and is used around a change of mesh.
- *Local decisions about collectives.* Output, AMR cycle, balance: a disagreement hangs.
- *Geometry through a hash map.* Where a neighbour is, is found by arithmetic on the bits of a
  key and up to three look-ups; at borders, periodic or not, around corners, across levels and
  at the rim of the ghost layer a wrong answer is still a valid location.
- *Boundaries.* An empty rank, a single rank, a range of levels that is a multiple of the
  group size, a run that begins later than 0.

The hazards are listed one by one, at their lines, in `PROJECT.json`, with the properties
that would catch each going wrong, or the reason no property does.

## 2. The modules

In every module the ranks are `0 .. NumRanks - 1`, arrays are 0-based functions as in the
code, names are the source's, and the partition is p4est's `global_first_quadrant` (`gfq`):
rank r owns the leaves `gfq[r] .. gfq[r+1] - 1` of the Morton order, and may own none.
An operator whose comment begins with "Bug:" is a mutated form of the definition that
follows it, used only to see that a property notices that change; no specification uses one.

### PartitionedField: what a repartition promises
Arrays cut among ranks. One step draws a new partition; then each rank takes its slice of
one array after the other, whole, in the order it likes. No messages, no requests.

### MeshPartition: the repartition, message by message
One rank's program is `pc`: `compute` -> `RecordOld` (`m_lb_gfq_old`) -> `p4est_partition`
(a collective) -> `RecordNew` -> for each array `PostReceives`, `PostSends` with the local
copy, `WaitAll`. `FirstRank`, `LastRank`, `PeerBegin`, `PeerEnd`, `Peers` are the two loops of
`transfer_fixed_begin`, which call `p4est_bsearch_partition` and skip empty peers;
`RecvSlice` and `SendSlice` give offset and length of each message. A message's payload is
`<<array, leaf>>`, which tells apart everything that could be mixed up. MPI is external:
messages between two ranks are matched in order (`Match`), a send completes once it is
matched or if it fits in `EagerLimit`, a receive once it is matched. Matching a message
longer than the receive would be an MPI error; the invariant `LengthsAgree` forbids it.
`Field == INSTANCE PartitionedField` is the refinement mapping.

### Quads, AMRAdapt: one cycle of adaptation
`Quads` has quadrants as paths from the root (what an orchard key stands for): father,
children, level, Morton order, volume, adjacency, balance. `AMRAdapt` is the cycle. A mesh is a
sequence of leaves in Morton order (`Before`) that fill the tree and are 2:1 balanced, cut
between the ranks: what the constructor of `AMRmesh` makes (`AMRmesh.h:378-398`, a uniform mesh
at `level_min`) or a restart loads. `ComputeFlags` draws any flags the limits of levels allow, and
prepares the counters and the size of `tmp_flags`. Refinement is one step per leaf
(`KeepLeaf`, `RefineLeaf`), coarsening one step per window (`SkipLeaf`, `CoarsenFamily`),
each with the callback's counters and flags; `EndRefine` and `EndCoarsen` are the global
counts that set `mesh_changed`; `Balance` and `Rebuild` are collectives; `Remap` is
`remap_leaf_data` with its three searches in the clone of the old map. A value is the set
of old leaves it averages, so that `RemapExact` compares origins, not numbers.
`coarsen_delay` is 0 in every `AMRCycleData` the code builds, so its branches are absent.

### GhostExchange: two exchanges per time step
Each time step draws the number of variables of each leaf; `MaterialPresenceExchanger`
tells the ghosts, the arrays are reorganised, and `exchange_multi_var` moves the values.
One action per phase: `PackMirrors` (with the sizing), `PostRequests`, `UnpackPresence`,
`UnpackData`; the memory of a buffer is one array that only grows, cut in two, whose old
content is kept. MPI is as above, with buffering chosen freely message by message
(`Buffer`). `NewMesh` is a repartition and rebuild between two steps.

### LoadBalancing: mesh, map and the two arrays of a solver
`AMRManager::load_balancing` at the level of whole arrays: `RepartitionMesh`,
`RepartitionUserdata`, `Rebuild` are collectives in one step each (what happens inside the
second is `MeshPartition`); `ResizeAndSwap` and `Copy` are steps of one rank. `Copy` is
`Kokkos::deep_copy`: it stops the rank (`pc = "aborted"`) if the two arrays differ in size. A value is
`<<leaf, time step>>`; memory without a value is `Uninit`. An application's time step is
external: it reads `solver_data`, writes the other array, swaps them.

### IndexByLevel: numbering the keys of each level
`compute_index_by_level`: the loop over groups of `num_levels` levels, the local scan
(`ScanGroup`), the histogram (`CountLevels`), `MPI_Exscan` entered and left by each rank at
its own time, and the shift (`FixIndexes`).

### TimeLoop: clocks and decisions
Each rank keeps its own `t`, `dt`, `iteration` and counters, and decides alone. The
operations that need all ranks (`Collective`) wait for all at the same place. The order in
which an application asks is external, as is its local time step. What the documentation of
`should_do_checkpoint` and `save_solution` says of it is followed: a checkpoint goes with the
output if one is due, and is otherwise a pure one, `save_solution(TRUE)`, which increments
`times_saved` as an output does. `save_solution_impl` counts the restart files. The history
variables `asked`, `outputs` and `checkpoints` are the times a rank asked at, wrote an output at,
and made a pure checkpoint at.
Time is an integer.

### OrchardKey, OrchardBits, BrickNumbering: names of octants
`OrchardKey` has a key as a record (outside directions, level, lower corner, tree) with its
family, its neighbours in every direction across trees and periodic borders, the items of an
octant (faces, edges, corners in the order of the code) and its outside normal. `OrchardBits`
is the same key as the program keeps it, in 64 bits, with the masks of every step of the
interleaving; a word is a set of bits, so that TLC evaluates full width. `BrickNumbering` is
how the coordinates of a tree in the brick are found from p4est's number: `toXYZ` takes the
bits of the number, a turn for each group of directions that still have bits, and
`m_brick_coords` keeps the numbers that fall into the brick. `Lists` has what a loop with a
condition collects (`Chosen`) and what a loop or a reduction adds up (`Total`).

### ConformalStatus, MeshMap: the rebuild
`MeshMap` is `AMRManager::rebuild` on every rank: `Script` writes its calls out; each is one
action, the counting of outside octants three (count, `MPI_Allreduce`, `MPI_Exscan`), and none
at all where no border is open. The forest and its ghost layer come from p4est. Keys that are
listed twice are inserted by parallel threads in any order (`Insertions`). `Remesh` changes the
mesh and the rebuild begins anew on top of what the last one left. `ConformalStatus` has the
search in the map and the packed words. The properties compare with space: `Box`, `Adjacent`,
`LeafAt` know coordinates only, no key. `MeshMapAssumption` says what p4est keeps: a brick has
each of its trees once, of at most `MAX_NB_TREES_PER_DIR` in a direction, as many as the keys
have bits for; a leaf lies in its tree, within the range its level allows; no leaf is twice in a
mesh. Nothing is assumed of the order of trees or leaves.

### Stencils, MeshStencils: navigation
`Stencils` is `StencilHelper` for one leaf: `NeighLoc` is the common part of `getNeighLoc` for
cells and faces, `getNeighLocFiner`, `...FinerNearer`, `...Coarser` are the variants for callers
that know the level, the rest is borders of faces and edges. A value is not a number but the
set of locations it is averaged over. `MeshStencils` states against space what is read, on the
map and the keys of `MeshMap`.

### BlockGhosts, MeshBlockGhosts: the ghosts of a block
`fill_ghosts` and `fill_ghosts_v2` for cells, `fill_all_faces_but_internal`,
`fill_internal_faces_ghost` and `InternalWeight` (the coefficients of
`internal_faces_prolongation_by_toth_and_roe`) for faces, `ghost_flux` for fluxes,
`MatPresence` for the octants whose materials are added. A value is, for every point of the
interpolation stencil, the set of locations averaged there, and the half of the coarse cell
that decides the weights. Integer division rounds towards zero (`Quotient`), as in C++, since
indices in a lower ghost are negative. `check_args_validity` decides which prolongations a
block is large enough for.

### Proof modules
`CommonFacts` has what the library cannot give here, since its induction theorems take an
operator as parameter: induction on a set of numbers (`LeastNat`, `EveryNat`), on the subsets
of a finite set (`EverySubset`), and that the two recursive functions the models are built
from, a fold over a set and a chain of values, exist and obey their equation (`FoldExists`,
`ChainExists`); that every place of a cut sequence has an owner (`SomeOwner`); and facts about
parts of sequences, concatenations, flattened sequences and the order in which a fold meets
the elements. Each component whose theorems are proved has a module of its own:
`MeshPartition_proofs`, `LoadBalancing_proofs`, `TimeLoop_proofs`, `IndexByLevel_proofs`,
`GhostExchange_proofs`, `MeshMap_proofs` and `AMRAdapt_proofs`, which has the passes of one rank
first, then the whole cycle.
The `MC...` modules only give values to constants that a `.cfg` cannot write.

## 3. The runs

| Run | Instance | What it shows |
|---|---|---|
| `partition_exchange` | 3 ranks, 3 leaves, 2 arrays, 2 repartitions, messages of 1 leaf buffered and longer ones not | In every interleaving every payload reaches the new owner (`Delivered`), messages fit their receives (`LengthsAgree`), nothing crosses a repartition (`NothingInFlight`), arrays have no hole (`NoHole`); the exchange implements `PartitionedField` (`FieldSpec`); it ends on every rank (`RepartitionEnds`). |
| `adapt_cycle` | 2 ranks, levels 1-3, every balanced quadtree mesh of 4 or 7 leaves and every cut, every flag; a second cycle where at most 4 leaves are left | `tmp_flags` is large enough and follows the leaves (`TmpFlagsFit`, `FlagsFollowLeaves`), counters agree (`CountersAgree`), leaves do as asked, within their levels and balanced (`AdaptedAsAsked`), the remap finds the exact origins, in the second cycle from the mesh of the first (`RemapExact`), every cycle ends on all ranks (`CycleEnds`). |
| `mesh_services` | 3 ranks, some of which may own nothing, 11 bricks in 2D and 3D, open, periodic and mixed, leaves down to the last level, 2 rebuilds | `Dictionary`, `OutsideCounted`, `MirrorsMatchGhosts`: tables fit the mesh and each other; `KeysEncoded`, `NeighborsInvertible`: the bits lose nothing; `StatusIsGeometric`: the status is that of the leaf in space; `StencilReadsNeighbour`, `AcrossFaceTouches`, `FacesAndEdgesMeet`: navigation finds the cells, faces and edges at their place. |
| `block_ghosts` | 3 ranks, blocks of 4 to 6 cells, 2 layers of ghosts, bricks 2x2 open (also with two refined trees that touch in a corner), 1x2 half periodic, 1x1 periodic (two levels), 2x1x1 periodic | Every ghost cell is filled from its place, with every prolongation that is accepted, and by both versions of the kernel (`GhostCellsFilled`); the same for faces and fluxes, each face by exactly one of the two steps (`GhostFacesFilled`); ghosted blocks have room for exactly the materials they are filled with (`MaterialsOfGhosts`). |
| `ghost_exchange` | 3 ranks, 4 leaves of two sizes, 2 time steps, 1 change of mesh between two partitions that differ much, an empty rank, leaves of 0 to 2 variables | Every ghost is up to date after each exchange (`GhostsFresh`), messages fit and no assertion fails (`LengthsAgree`), nobody hangs even if MPI buffers nothing (`NeverStuck`). |
| `load_balancing` | 3 ranks, 4 leaves, 2 time steps, both functions | The solver goes on with the solution, in an array of the right size (`SolutionKept`); `load_balancing_and_copy` ends with equal arrays on the ranks that keep their number of leaves and stops on all others (`CopyUnlessResized`). |
| `index_by_level` | 3 ranks, up to 2 keys each, levels 0-3 in groups of 2 | Keys of a level are numbered from 0 to N(l)-1 over the ranks (`BlocksNumbered`). |
| `time_loop` | 3 ranks, seven configurations, steps 1, 2, 5, up to 12 iterations | All ranks ask for the same collective (`SameOperation`); each output is made at the first occasion, but for at most one per pure checkpoint and there are never more of them than due times are past (`OutputsOnTime`: `MissedByCheckpoints`, `NoMoreThanDue`), the last step is one (`LastStepWritten`). |

The four other runs (`index_by_level_default`, `load_balancing_one_rank`, `stencil_periodic`,
`ghost_faces`) each end in a violation that shows a disagreement (section 5).

*Why the bounds suffice.* Three ranks are the least for which a rank is between two others,
is skipped because it is empty, or runs ahead of one neighbour and not of the other. With
three or four leaves there are partitions in which a rank sends to two, receives from two,
keeps a slice in the middle, or has nothing; all of them are taken, before and after. Two
arrays or two rounds are what it takes to confuse a message with that of the next; a second
repartition shows leftovers of the first; a change of mesh shows buffers that shrink.
`EagerLimit = 1` makes some messages buffered and others not. For the adaptation, seven
leaves and three levels allow a refinement to unbalance a coarse leaf on the other rank, a
family to be cut between ranks, and coarsening next to refinement; a second cycle
(`MaxAgain = 4`) allows the return to the first mesh. Levels in groups of two over a range of four
make the loop over groups run twice. The time steps 1, 2 and 5 miss, hit and jump over
output times. The configurations of `time_loop` have equispaced outputs in a run that does not
begin at 0, with a checkpoint at every second one or at times of their own, listed outputs that are
all checkpoints or have others between them, a constant step that does not divide the run, an output
at every step, and pure checkpoints without any output. `Max...` constants bound counters only and appear in guards only, but for those that follow.

A kernel on the rebuilt mesh reads one leaf and its neighbours, and a 2:1 balanced
neighbourhood has few shapes: one or two refined leaves in a small brick, and the chains down
to the last level around a corner of the domain (`DeepMeshes`), have a leaf next to a same, a
coarser and a finer one across faces, edges and corners, inside, at open and at periodic
borders, on one rank and on several. Bricks of one tree make an octant its own neighbour;
3x2, 1x5 and 2x3x1 are not powers of two, which `BrickNumbering` is about. `MaxCut` is the
longest mesh cut among the ranks in every way, longer ones are cut evenly. Between two
collectives of a rebuild the ranks share nothing, so all interleavings are explored on the
smallest meshes only (`MaxFree`), and the action constraint `InOrder` lets the lowest rank go
first on the others and in a second rebuild. `MaxTwice` bounds the keys listed twice whose
insertions are ordered independently; beyond it all are inserted first or all last. After the
first rebuild the mesh is one of `MaxNext` leaves, which is the worst case for what a larger
one may leave behind. Blocks of 4x2 (2x2x2) cells are the least that have an inside, an odd
index and unequal sides; blocks of 4 and 6 cells are the least for second and fourth order.
Shifts go up to half a block, the furthest the ghost layer allows.

*Deadlock* is checked in every run: where a run is over, `Next` says so with an explicit
stuttering disjunct, so a state without successor is a hang.

## 4. Fairness

`MeshPartition` and `AMRAdapt` have liveness properties, under a single weak fairness:
someone who can move does. It says that MPI progresses and that a rank which is not waiting
runs, nothing about which rank or message is first. Each rank has a bounded number of
steps to make (bounded by `MaxPartitions`, `MaxCycles`), so that no rank can be starved by
the others for ever, and weak fairness per rank would add nothing. The property is
therefore about cycles of waits, which is what the code could get wrong. In `GhostExchange`
the same question is the invariant `NeverStuck`, stated with the guards of the steps so that it
can be proved.

## 5. Disagreements found

Each of these is a run that checks one property, violated by what the code does (`findings` in
`PROJECT.json` quotes the lines).

- `load_balancing_one_rank`: on one rank the partitioner returns early, and `load_balancing`
  swaps the arrays all the same: the solver goes on with its scratch array.
- `index_by_level_default`: with the default levels no group of levels is scanned, and the
  result is uninitialized memory.
- `stencil_periodic`: a cell across a periodic border is flagged as outside of the domain.
- `ghost_faces`: in a lower ghost the internal faces are prolonged from the wrong coarse cell,
  since the division of a negative index rounds towards zero, and divergence is not preserved.
  With a division that rounds down the same weights preserve it on all the meshes of the run.

Met while reading and modelling, without a run of their own:

- `linear_extrapolate_using_limited_slopes` for faces computes "local position ... using integer
  coordinates in -1, +1" (`FillBlockGhostFaces.cpp:202-205`) from the same signed index: in a
  lower ghost an odd index gives -3 instead of +1. The model keeps the position of -1
  (`ProlongedFace`). If the finer face on the other side was taken (`CoarseFace`), its assertion
  that the neighbour is coarser fails.
- `FillBlockGhostFluxes`: a ghost layer of half a block is accepted ("can not be strictly larger
  than bx/2"), but its farthest upper face is taken from the next finer octant, which need not be
  a ghost of the rank; the flux of the block itself is then used, silently (`TooFar`). Outside of
  an open border the index of the block border is computed and not used (`ijk`, :290-300).
- `getNeighLoc` returns the location it was given when no neighbour is known, so that the
  assertions "neighbor octant not found" of the filling kernels cannot fail.
- A leaf that touches both borders of a direction is flagged as outside on the upper one only.
- In a brick with both kinds of borders a leaf in their corner lists the same outside key more
  than once, and an outside octant of its own level whatever the leaf behind the periodic border
  has (`Ambiguous`): which index is in the map is a race, the level may not be that of the mesh.
- With blocks of two cells a shift of two beyond a finer neighbour returns the cell itself.
- `FillBlockGhostCellsInPlace` ("same functionality") and `MultiMatFillBlockGhostCells` have no
  branch for prolongations of order 2 and 4: coarse ghosts are left unfilled.
- Listed output times are compared with the time since the beginning of the run
  (`SolverBase.cpp:398`), elsewhere they are "times at which an output is requested"
  (`OutputParams.h:26`): the same only for a run that begins at 0.
- `save_solution` counts a pure checkpoint in `m_times_saved` (`SolverBase.cpp:329`), which is
  "incremented each time an output is written" (`SolverBase.h:340`) and tells which output is due
  next: a checkpoint between two outputs makes the next one be skipped, or come an interval late.
  `MissedByCheckpoints` allows for it, at most one output per pure checkpoint.
- `load_balancing_and_copy` ("Does the load balancing and copy data", `AMRManager.h:337`) copies
  into the array of the previous partition (`AMRManager.cpp:146`), which nobody resizes:
  `Kokkos::deep_copy` stops the program on a rank whose number of leaves has changed
  (`CopyUnlessResized`).
- `getBorderEdgeLocSymmetric`: "When there is only one possibility, this parameter is unused"
  (`StencilHelper.h:434`). An edge on one border of its block has one symmetric edge, but with the
  edge normal of the other direction (`DIR1` or `DIR2`) the edge itself is returned.
- `MeshGhostsExchanger::exchange_multi_var`, which nothing calls, sizes in octants a buffer into
  which it packs blocks (`MeshGhostsExchanger.cpp:869`), and its own assertion (:202-205) fails.
- `UserDataRemapperImplBFC` halves with the block size in x for every direction
  (`UserDataRemapperImplBFC.cpp:290-291, :353-355`): right for cubic blocks only.

## 6. What is proved

All proofs are checked by `tlapm`, from the named assumptions of the modules only.

**MeshPartition** (`PartitionAssumption`: at least two ranks, any number of leaves, arrays,
repartitions, any `EagerLimit`). `SlicesAgree`: for every pair of partitions the slice a
sender computes for a receiver is the one the receiver computes for the sender. From it, the
inductive invariant `IInv`, which adds to `TypeOK` and the properties:

- `Agreement`: past a repartition the ranks have recorded the partitions that are in force;
- `Letters`: what is in a channel is exactly what the sender has sent and the receiver has
  not got, in order of arrays, with the payloads of the slice;
- `NobodyLate`: a rank that has left the transfers has received everything sent to it;
- `Arriving`: while a rank waits, its destination holds what has been matched;
- `Delivered`: arrays are the segments the partition gives.

None of the properties is inductive alone: that a message fits its receive depends on which
array it belongs to, on a channel that may already hold the next one's. One lemma per action
shows that `IInv` is preserved. The theorems `TypeCorrect`, `EveryPayloadDelivered`,
`NoTruncation`, `QuietCollective`, `NothingForgotten` follow, and `ImplementsField`: every
step of the exchange is a step of `PartitionedField` or leaves it unchanged.

**LoadBalancing**. For two ranks or more, `TypeCorrect` and `LoadBalancingKeepsSolution`, from
an invariant that says where the solution is at each point (`SolutionAt`), which partition
the recorded ones are (`Recorded`), when the counts are out of date (`Counted`), and that the
ranks go together up to the rebuild (`Lockstep`). On one rank the theorem is false, as the run
`load_balancing_one_rank` shows. `CopyStopsIfResized` follows from the same invariant: at
the copy, `solver_data` has the size of the new partition and `solver_data_aux` that of the
recorded old one (`SizeOfArray`), so that the copy returns exactly if the two counts agree.

**TimeLoop** (`ClockInv`, `InStep`, `OutputInv`, `DebtInv`, `CountInv`). `TypeCorrect`. `RanksWaitTogether`: the
decisions a rank takes alone are functions of the clock, and all clocks lie on one
trajectory (`ClockInv`); `InStep` says that a rank never passes a collective operation another
has not entered, so that two ranks that wait do so at the same point of the trajectory.
`EveryOutputOnTime` has the hypothesis that runs with a list of times begin at 0: the code
compares the time elapsed since the beginning with the listed times (`SolverBase.cpp:398`), so
a run that begins later would count an output as due too late. It assumes nothing of the
checkpoints: the invariant `DebtInv` keeps accounts. A pure checkpoint counts as the next output
before its time, and that output is skipped when its time comes; so at any moment the outputs
skipped and those counted ahead of their time, which will be skipped, are together no more than
the pure checkpoints made. If all outputs are checkpoints, or there is at most one checkpoint, as by
default, no pure one falls between outputs and nothing is missed (`NoOutputMissed`). The other half,
`NeverMoreThanDue`, needs no hypothesis: `times_saved` is at least the number of outputs
between beginning and end, and the due time of the last output counted is past (`CountInv`).
`LastStepIsWritten` has the
hypothesis that the iterations suffice to reach the end: a run stopped by its number of
iterations writes its last step only if an output is due.

**IndexByLevel**. `TypeCorrect`, and `IdsOfLevels` under `EveryLevelScanned`, the condition
that the groups of levels reach `level_max`; the run `index_by_level_default` shows that the
default values of the code do not satisfy it and what goes wrong then. The invariants say that
the rows scanned hold the keys of the leaves in order (`RowsInv`), that the histogram is that
of the leaves (`HistoInv`), and that an id is the rank of its key among those of its level on
all ranks (`NumberInv`): the shift a rank adds is the sum of the counts of the ranks before it.

**AMRAdapt**, for every set of meshes, every cut, every choice of flags within the limits of
levels, and two or three dimensions. `PassInv` relates the position of a pass in the forest,
the counters of the callbacks and the rooms of the flag arrays: what is left of the pass
accounts for what is left of the room. From it `TypeCorrect` (refinement, coarsening and the
level-by-level balance make quadrants of legal levels only), `TmpFlagsFilled` and
`AssertionsHold`. `FlagsFollow` needs more (`FollowInv`): the leaves of a mesh are separate,
the flags written during refinement are those asked for the leaves they were laid out for
(`Laying`), and the coarsening reads them at the place it has reached (`Reading`), although
each merge removes leaves and none of the flags. A leaf the refinement makes lies in a leaf
asked to be refined, so that nothing is asked of it; with overlapping leaves the statement
would not even be well defined.

**The whole cycle** of `AMRAdapt`, from `AdaptAssumption` alone: any number of ranks,
two or three dimensions, any `LevelMax`, any complete and balanced first mesh, any number of
cycles. `FlagsObeyed` is `AdaptedAsAsked`, `RemapIsExact` is `RemapExact`. Neither is local to
a rank or to a pass: what a search of `remap_leaf_data` finds depends on what the balance, a
collective, has done to a leaf two passes earlier, and whether there was a balance at all on a
count that all ranks share. The inductive invariant `CycleInv` adds to `FollowInv`:

- `Sound(StartMesh)`: the mesh the ranks look back at, which is the new one for the ranks that
  have remapped and the old one for the others, is in order, without overlap between ranks,
  complete, and `Graded`: no leaf touches a quadrant of the tree two levels finer. This is
  what balance means for the inner quadrants too (`BalancedGraded`, `GradedBalanced`);
- `Kept`: the clone of the map holds the leaves the flags and the data are about, and its
  ghosts are apart from them, so that a key found among the owned ones is an owned leaf;
- `Expanded`: while a rank refines, the leaves behind are what the flags asked so far;
- `Merging`: while it coarsens, leaves are refined ones or merged fathers, and a family to be
  merged has been or is still whole ahead of the pass;
- `Stems`: after the balance a leaf is an old one, a child of an old one or the father of old
  ones, which are the three cases `remap_leaf_data` searches. Because the old mesh was graded, the
  least balanced refinement of the new one splits no child of an old leaf (`SplitStays`,
  `CutStems`); without `Graded` a fourth search would be needed;
- `Together`: the ranks are in the same pass, know the same count of quadrants and agree on
  `mesh_changed`; when it is false the leaves are the old ones, so that skipping the balance
  leaves a balanced mesh. Refinement adds quadrants and coarsening removes them, and the code
  compares the count after each of the two: a cycle that refines as much as it coarsens is not taken
  for one that did nothing.

The rest is geometry of quadrants as paths, for any `Dim` of 2 or 3: a descendant's box is
inside its ancestor's (`BoxInside`), a quadrant that touches a child touches the father
(`AdjacentAbove`), and what touches a quadrant touches one of its children
(`TouchedChild`), by the position of lower corners (`LowerIs`, `ChildBox`).

**GhostExchange** (`ExchangeAssumption`), for any number of ranks and leaves, any relation of
neighbourhood, any partitions and changes of mesh, any numbers of variables per leaf, and
any order in which MPI buffers and matches the messages. First the static part: the ghosts a rank lists for a
neighbour are the mirrors the neighbour lists for it, in the same order, at the offsets both
compute (`LayerOf`), and the running sums of any list cut a buffer into windows that do not
overlap. Then the inductive invariant `IInv`:

- `Shape`, `RankShape`: the typing, the parts of a buffer fit in its memory, a rank waits
  only for ranks it shares leaves with;
- `Knows`: during an exchange a rank knows the numbers of variables of its leaves, and after
  the first exchange those of its ghosts;
- `Held`: the send half of a buffer holds the mirrors while messages may still be read there;
- `Filled`: its receive half holds what the ranks no longer waited for have sent;
- `Updated`: after both exchanges of a step the ghosts have the values of that step;
- `InFlight`, `Letter`: the exchanges being numbered from the start of the run, a channel
  holds one message for each exchange its sender has posted and its receiver has not got, in
  order; each has the length of the leaves it is about, and either holds their values or
  points where the sender's buffer holds them.

`LengthsAgree` is not inductive alone: one tag serves both exchanges, and a sender may already
be in the next one, whose message has another length. Nor is `GhostsFresh`: it rests on what
the buffers held at each moment a message was copied, and the memory is reused from one
exchange to the next. The theorems `TypeCorrect`, `MessagesFit` and `GhostsUpToDate` follow, and
`NoDeadlock`: if no rank can go on by itself, look at one that has finished the fewest
exchanges; by the count of `InFlight` whatever it waits for has been posted, or, if it waits for
its own sends only, one of them is what its destination is waiting for.

**MeshMap** (`MeshMapAssumption`), for any number of ranks, any bricks of two or three
dimensions up to the size a key has bits for, periodic in any directions, any meshes on them and
any cuts, any number of rebuilds, and every order of the parallel insertions.

The first result is about an algorithm. `TreesNumbered`: for a brick of any size,
`BrickConnectivityData::init` finds every tree of the brick once. `toXYZ` peels interleaved bits
off the number, first of all directions, then of those whose size has more bits; one turn is a
bijection between what is left of the number and what is left of the coordinates (`DecodeTurn`),
since the bits of one direction and the rest of the number determine it and may be any
(`SlicesSame`, `SlicesExist`), and so is the sequence of turns (`ToXYZOnto`). A key is thus the
name of one leaf (`KeyOfIs`); before this nothing can be said of a map that is indexed by keys.

`MeshInvariant` is the inductive invariant `MeshInv` of the rebuild. Its parts follow `Script`:

- `Built`: the forest is a cut of a mesh of the brick, with its ghost layer;
- `Typed`, `InCollective`: a rank in a collective is at an operation that counts, and the ranks
  that have reduced are there together;
- `OutsideKnown`: what each stage of the counting has established, among ranks of which some
  have not begun and some are past it, and that a brick without an open border leaves the counts
  at zero; rank 0's prefix is the zero it was initialised with, which nothing overwrites;
- `InfoKnown`, `KeysKnown`, `MapKnown`, `MirrorsKnown`: past the operation that fills it, an
  array is that of the current forest.

The theorems from it: `MeshTypeOK`; `OutsideNumbered`, the arrays, allocated from counts of one
loop, are filled by another one exactly (`CountIs`: both loops list the same faces, edges and
corners), owned leaves and ghosts first, and the ranks number the outside octants without gap;
`NeighborsFound`: from any key a rank lists, inside or outside, the way to a neighbour
and back ends at the key (`ThereAndBack`, by the wrap around of coordinates, `BackAgain`);
`DictionaryKept`: the map gives an index of every listed key and no other, and where no key can
come twice it is the inverse of the list: it has to be shown that different faces, edges and
corners of different leaves have different keys outside of an open brick
(`OutwardPlain`, `ItemsOnce`); and `MirrorsSent`: the slice of the mirrors for another rank holds
the ghosts that rank lists for this one, in the same order. Sender and receiver choose them
from different lists, the sender twice and through indices into indices; all these choices
commute, because forest and ghosts are choices from one mesh (`ChosenTwice`, `ChosenMapped`,
`ChosenIndices`, `KeysShared`), and the slices begin where the lengths add up to
(`FlattenPart`, `SentBefore`).

**Only model-checked**: liveness (`RepartitionEnds`, `CycleEnds`), which is out of the prover's
reach. `KeysEncoded`: the 64 bits go through five shifts and masks each way, which TLC evaluates
and the provers do not; its last part needs p4est's order of trees and leaves as well.
`StatusIsGeometric`, and the properties of `MeshStencils` and `MeshBlockGhosts`: they compare a
search in the map with a search in space, over the shapes of a balanced neighbourhood, and need the
balance of a forest of several trees, which the meshes of the runs have and no assumption states.

## 7. Plan

Modelled and checked: everything in section 2. Order of what is left:

1. Proofs: that `GhostExchange` implements an abstract exchange, for which `IInv` has what is
   needed; that the interleaving of `OrchardBits` is undone by its inverse, one step of shift and
   mask at a time.
2. Models that could follow: offsets and slots of `MaterialPresence` with the transfer whose
   lengths depend on them (`transfer_fixed_multi_var`); the per-cell copies of
   `UserDataRemapperImplBCC` and `BFC`.

The abstract specifications worth stating are that of the repartition (done) and that of the
exchange of ghosts (every ghost takes the value of its leaf at the same time step, at once).

## 8. What is not modelled

- *External libraries.* p4est, MPI and Kokkos appear by what the code relies on: the partition
  is a monotone cut, ghosts and mirrors are lists in Morton order per rank, balance is the
  least refinement that is balanced, messages between two ranks do not overtake, `resize`
  keeps the content. The choice of the partition (weights) is free.
- *Applications.* The order in which `next_iteration_impl` asks and acts, and the time step.
- *`should_print_monitoring_info`* and what is printed.
- *Numerics.* Equations of state, volume of fluid, curvature, slopes, fluxes: real arithmetic.
  Together with files and wrappers this is most of the repository; modelling it line by line
  would say nothing that TLC or a prover can check, so the share of lines the modules stand
  for stays small.
- *Values in blocks.* Which cells, faces and octants a ghost is filled from is modelled, their
  sums, slopes and weights are not, but for the weights of internal faces.
- *Files.* HDF5, VTK, npy: formatting; the decisions to write and the numbering are modelled.
- *Configuration, logging, timers, start-up.* Their values are the CONSTANTS.
- *Containers other than arrays of fixed size per leaf* in the repartition, which differ in
  the size of an entry only, and the transfer of multi-variable arrays.
- *Outside octants* have a key, a place in the map and a level; boundary conditions, which fill
  their blocks, are numerics of the application.
- *Variants of what is modelled.* `FillBlockGhostCellsInPlace` and the filling kernel of
  `MultiMatFillBlockGhostCells` look up the same locations; the profiling of `AMRManager`, the
  conversions of keys to physical coordinates and the sums over sub-faces are left out.
- *AlternatingDirectionScheduler*, a fixed table of sweeps that nothing in the repository calls.

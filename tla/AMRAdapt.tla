------------------------------ MODULE AMRAdapt ------------------------------
(***************************************************************************)
(* One adaptation cycle of the mesh: the flags of ComputeRefineFlags, the    *)
(* three p4est passes of AMRContext::adapt_mesh with its callbacks, the      *)
(* rebuild of AMRManager and the remap of the leaf data by UserDataRemapper. *)
(*                                                                         *)
(* The callbacks know a quadrant only by its rank in the traversal: they     *)
(* index the flags with counters kept in AMRCycleData, and the flags of the  *)
(* refined mesh (tmp_flags) are laid out while the mesh is being refined.    *)
(* Refinement and coarsening are local to a rank and end with the collective *)
(* count of the quadrants; the balance is a collective that either every     *)
(* rank calls or none.                                                       *)
(***************************************************************************)
EXTENDS Quads, FiniteSets, FiniteSetsExt, Functions

CONSTANTS NumRanks,     \* ranks of the communicator
          LevelMin,     \* coarsest level the flags allow
          Meshes,       \* meshes the first cycle may start from (Morton order)
          MaxCycles,    \* bound on the number of cycles
          MaxLocal,     \* bound on the leaves of a rank after the refinement
          MaxAgain      \* bound on the leaves a cycle after the first begins with

ASSUME AdaptAssumption ==
    /\ NumRanks \in Nat \ {0}
    /\ LevelMin \in 0 .. LevelMax
    /\ \A m \in Meshes : /\ m \in Seq(Quads) /\ InOrder(m)
                          /\ IsComplete(ToSet(m)) /\ IsBalanced(ToSet(m))
    /\ MaxCycles \in Nat
    /\ MaxLocal \in Nat /\ MaxAgain \in Nat

Ranks == 0 .. NumRanks - 1

FLAG_INIT  == -2
DO_COARSEN == -1
DO_NOTHING == 0
DO_REFINE  == 1
Flags == {DO_COARSEN, DO_NOTHING, DO_REFINE}

VARIABLES pc,                \* where each rank is in the cycle
          forest,            \* forest[r]: leaves of rank r
          ghost,             \* ghost[r]: leaves of other ranks that touch them
          pos,               \* leaves p4est has gone past in the current pass
          amrflags_d,        \* device flags
          amrflags_h,        \* host flags: what the callbacks read and clear
          tmp_flags,         \* flags of the refined mesh, 0-based, fixed size
          inside_counter,    \* AMRCycleData
          num_replaced,      \* AMRCycleData
          mesh_changed,      \* local variable of adapt_mesh
          global_num_quadrants, \* forest->global_num_quadrants
          old_keys,          \* clone of the hashmap before the cycle
          data,              \* for each leaf, the old leaves its value averages
          cycles             \* number of cycles so far (bounded)

vars == <<pc, forest, ghost, pos, amrflags_d, amrflags_h, tmp_flags,
          inside_counter, num_replaced, mesh_changed, global_num_quadrants,
          old_keys, data, cycles>>

----------------------------------------------------------------------------
(* The mesh as a whole                                                      *)

Leaves(f) == UNION {ToSet(f[r]) : r \in Ranks}

NumQuadrants(f) == FoldFunction(LAMBDA s, n : Len(s) + n, 0, f)

(* The cuts of a mesh into one segment per rank, empty segments included.    *)
Cuts(m) ==
    {[r \in Ranks |-> SubSeq(m, c[r] + 1, c[r + 1])] :
        c \in {c \in [0 .. NumRanks -> 0 .. Len(m)] :
                  /\ c[0] = 0 /\ c[NumRanks] = Len(m)
                  /\ \A r \in Ranks : c[r] <= c[r + 1]}}

(* The leaves of a sequence that are not own and touch one that is.          *)
LeavesTouching(own, leaves) ==
    FoldLeft(LAMBDA found, q : IF q \notin own /\ own \cap Touching[q] # {}
                               THEN Append(found, q) ELSE found, <<>>, leaves)

(* p4est_ghost_new: the leaves of other ranks that touch those of rank r.    *)
(* (A function, so that TLC computes the leaves of all ranks once.)          *)
GhostLeaves(f, r) ==
    LET ghosts[leaves \in Seq(Quads)] == LeavesTouching(ToSet(f[r]), leaves)
    IN  ghosts[FlattenSeq([i \in 1 .. NumRanks |-> f[i - 1]])]

----------------------------------------------------------------------------
Init ==
    /\ pc = [r \in Ranks |-> "flags"]
    /\ \E m \in Meshes : forest \in Cuts(m)
    /\ ghost = [r \in Ranks |-> GhostLeaves(forest, r)]
    /\ pos = [r \in Ranks |-> 0]
    /\ amrflags_d = [r \in Ranks |-> <<>>]
    /\ amrflags_h = [r \in Ranks |-> <<>>]
    /\ tmp_flags = [r \in Ranks |-> <<>>]
    /\ inside_counter = [r \in Ranks |-> 0]
    /\ num_replaced = [r \in Ranks |-> 0]
    /\ mesh_changed = [r \in Ranks |-> FALSE]
    /\ global_num_quadrants = NumQuadrants(forest)
    /\ old_keys = [r \in Ranks |-> <<>>]
    /\ data = [r \in Ranks |-> [i \in DOMAIN forest[r] |-> {forest[r][i]}]]
    /\ cycles = 0

(* Bug: the indicator leaves a leaf as reset_amrflags left it.                *)
FlagsAllowed_Unset(q) == {FLAG_INIT, DO_NOTHING}

(* update_flag: what the indicator may ask of a leaf.                        *)
FlagsAllowed(q) ==
    {DO_NOTHING} \cup (IF level(q) < LevelMax THEN {DO_REFINE} ELSE {})
                 \cup (IF level(q) > LevelMin THEN {DO_COARSEN} ELSE {})

NumRefine(flags) == Cardinality({i \in DOMAIN flags : flags[i] = DO_REFINE})

(* Bug: one more leaf per refined leaf, instead of NB_CHILDREN - 1.          *)
TmpSize_OnePerRefined(flags) == Len(flags) + NumRefine(flags)

TmpSize(flags) == Len(flags) + (NB_CHILDREN - 1) * NumRefine(flags)

(* Bug: the clone made for the first cycle is used for ever.                  *)
CloneKeys_Once(r) == IF old_keys[r] = <<>> THEN forest[r] \o ghost[r] ELSE old_keys[r]

(* get_hashmap_clone: local ids count the owned leaves, then the ghosts.      *)
CloneKeys(r) == forest[r] \o ghost[r]

(* The bounds allow another cycle.                                          *)
Again == cycles < MaxCycles /\ (cycles > 0 => global_num_quadrants <= MaxAgain)

(* The caller keeps the keys of the old mesh, resets the flags, computes     *)
(* them on the device and copies them to the host; adapt_mesh allocates      *)
(* tmp_flags from the device flags.  The data are from here on named after   *)
(* the leaves of this mesh.                                                  *)
ComputeFlags(r) ==
    /\ pc[r] = "flags"
    /\ Again
    /\ \E flags \in [DOMAIN forest[r] -> UNION {FlagsAllowed(q) : q \in ToSet(forest[r])}] :
          /\ \A i \in DOMAIN flags : flags[i] \in FlagsAllowed(forest[r][i])
          /\ NumRefine(flags) = 0 \/ TmpSize(flags) <= MaxLocal
          /\ amrflags_d' = [amrflags_d EXCEPT ![r] = flags]
          /\ amrflags_h' = [amrflags_h EXCEPT ![r] = flags]
          /\ tmp_flags' = [tmp_flags EXCEPT ![r] =
                              [i \in 0 .. TmpSize(flags) - 1 |-> DO_REFINE]]
    /\ old_keys' = [old_keys EXCEPT ![r] = CloneKeys(r)]
    /\ data' = [data EXCEPT ![r] = [i \in DOMAIN forest[r] |-> {forest[r][i]}]]
    /\ pos' = [pos EXCEPT ![r] = 0]
    /\ inside_counter' = [inside_counter EXCEPT ![r] = 0]
    /\ num_replaced' = [num_replaced EXCEPT ![r] = 0]
    /\ pc' = [pc EXCEPT ![r] = "refine"]
    /\ UNCHANGED <<forest, ghost, mesh_changed, global_num_quadrants, cycles>>

----------------------------------------------------------------------------
(* Refinement                                                               *)

(* p4est puts quads in the place of the n leaves of rank r after pos.        *)
Substitute(r, n, quads) ==
    /\ forest' = [forest EXCEPT ![r] =
                     SubSeq(@, 1, pos[r]) \o quads \o SubSeq(@, pos[r] + n + 1, Len(@))]
    /\ pos' = [pos EXCEPT ![r] = @ + Len(quads)]

Current(r) == forest[r][pos[r] + 1]

(* Where the flag of the leaf being refined goes in tmp_flags.               *)
TmpIndex(r) == inside_counter[r] + (NB_CHILDREN - 1) * num_replaced[r]

(* A write outside tmp_flags is lost here, and reported by FlagsFit.         *)
SetTmp(r, indices, flag) ==
    tmp_flags' = [tmp_flags EXCEPT ![r] =
                     [i \in DOMAIN @ |-> IF i \in indices THEN flag ELSE @[i]]]

(* refine_callback answers 0: the flag follows the leaf.                     *)
KeepLeaf(r) ==
    /\ pc[r] = "refine"
    /\ pos[r] < Len(forest[r])
    /\ LET flag == amrflags_h[r][inside_counter[r] + 1]
       IN  /\ flag # DO_REFINE
           /\ SetTmp(r, {TmpIndex(r)}, flag)
    /\ amrflags_h' = [amrflags_h EXCEPT ![r][inside_counter[r] + 1] = DO_NOTHING]
    /\ Substitute(r, 1, <<Current(r)>>)
    /\ inside_counter' = [inside_counter EXCEPT ![r] = @ + 1]
    /\ UNCHANGED <<pc, ghost, amrflags_d, num_replaced, mesh_changed,
                   global_num_quadrants, old_keys, data, cycles>>

(* Bug: only the first child is given a flag; the others keep the value      *)
(* tmp_flags was filled with.                                                *)
RefineLeaf_FirstOnly(r) ==
    /\ pc[r] = "refine"
    /\ pos[r] < Len(forest[r])
    /\ amrflags_h[r][inside_counter[r] + 1] = DO_REFINE
    /\ SetTmp(r, {TmpIndex(r)}, DO_NOTHING)
    /\ amrflags_h' = [amrflags_h EXCEPT ![r][inside_counter[r] + 1] = DO_NOTHING]
    /\ Substitute(r, 1, all_children(Current(r)))
    /\ inside_counter' = [inside_counter EXCEPT ![r] = @ + 1]
    /\ num_replaced' = [num_replaced EXCEPT ![r] = @ + 1]
    /\ UNCHANGED <<pc, ghost, amrflags_d, mesh_changed, global_num_quadrants,
                   old_keys, data, cycles>>

(* refine_callback answers 1, p4est replaces the leaf and calls              *)
(* replace_on_refine_callback: every child is told to do nothing.            *)
RefineLeaf(r) ==
    /\ pc[r] = "refine"
    /\ pos[r] < Len(forest[r])
    /\ amrflags_h[r][inside_counter[r] + 1] = DO_REFINE
    /\ SetTmp(r, TmpIndex(r) .. TmpIndex(r) + NB_CHILDREN - 1, DO_NOTHING)
    /\ amrflags_h' = [amrflags_h EXCEPT ![r][inside_counter[r] + 1] = DO_NOTHING]
    /\ Substitute(r, 1, all_children(Current(r)))
    /\ inside_counter' = [inside_counter EXCEPT ![r] = @ + 1]
    /\ num_replaced' = [num_replaced EXCEPT ![r] = @ + 1]
    /\ UNCHANGED <<pc, ghost, amrflags_d, mesh_changed, global_num_quadrants,
                   old_keys, data, cycles>>

(* p4est_refine_ext ends with the collective count of the quadrants.  Bug:   *)
(* each rank looks at what it has itself replaced.                           *)
Changed_Local(r) == num_replaced[r] # 0

Changed(r) == NumQuadrants(forest) # global_num_quadrants

PassOver(r) == pos[r] = Len(forest[r])

EndRefine ==
    /\ \A r \in Ranks : pc[r] = "refine" /\ PassOver(r)
    /\ mesh_changed' = [r \in Ranks |-> Changed(r)]
    /\ global_num_quadrants' = NumQuadrants(forest)
    /\ pos' = [r \in Ranks |-> 0]
    /\ inside_counter' = [r \in Ranks |-> 0]
    /\ num_replaced' = [r \in Ranks |-> 0]
    /\ pc' = [r \in Ranks |-> "coarsen"]
    /\ UNCHANGED <<forest, ghost, amrflags_d, amrflags_h, tmp_flags, old_keys,
                   data, cycles>>

----------------------------------------------------------------------------
(* Coarsening                                                               *)

Family(r) ==
    /\ pos[r] + NB_CHILDREN <= Len(forest[r])
    /\ IsFamily(SubSeq(forest[r], pos[r] + 1, pos[r] + NB_CHILDREN))

TmpFlag(r, i) == IF i \in DOMAIN tmp_flags[r] THEN tmp_flags[r][i] ELSE DO_REFINE

(* Bug: the flag of the eldest child decides for the family.                 *)
Agreed_Eldest(r) == TmpFlag(r, inside_counter[r]) = DO_COARSEN

Agreed(r) == \A k \in ChildIds : TmpFlag(r, inside_counter[r] + k) = DO_COARSEN

(* coarsen_callback answers 0: an orphan (q[1] is null), or a family that    *)
(* does not agree.                                                           *)
SkipLeaf(r) ==
    /\ pc[r] = "coarsen"
    /\ ~ PassOver(r)
    /\ ~ (Family(r) /\ Agreed(r))
    /\ inside_counter' = [inside_counter EXCEPT ![r] = @ + 1]
    /\ Substitute(r, 1, <<Current(r)>>)
    /\ UNCHANGED <<pc, ghost, amrflags_d, amrflags_h, tmp_flags, num_replaced,
                   mesh_changed, global_num_quadrants, old_keys, data, cycles>>

(* Bug: the counter advances by one leaf for a whole family.                 *)
CoarsenFamily_CountsOne(r) ==
    /\ pc[r] = "coarsen"
    /\ Family(r) /\ Agreed(r)
    /\ inside_counter' = [inside_counter EXCEPT ![r] = @ + 1]
    /\ num_replaced' = [num_replaced EXCEPT ![r] = @ + 1]
    /\ Substitute(r, NB_CHILDREN, <<father(Current(r))>>)
    /\ UNCHANGED <<pc, ghost, amrflags_d, amrflags_h, tmp_flags, mesh_changed,
                   global_num_quadrants, old_keys, data, cycles>>

(* coarsen_callback answers 1: the father replaces the family.               *)
CoarsenFamily(r) ==
    /\ pc[r] = "coarsen"
    /\ Family(r) /\ Agreed(r)
    /\ inside_counter' = [inside_counter EXCEPT ![r] = @ + NB_CHILDREN]
    /\ num_replaced' = [num_replaced EXCEPT ![r] = @ + 1]
    /\ Substitute(r, NB_CHILDREN, <<father(Current(r))>>)
    /\ UNCHANGED <<pc, ghost, amrflags_d, amrflags_h, tmp_flags, mesh_changed,
                   global_num_quadrants, old_keys, data, cycles>>

AfterCoarsen(r) == mesh_changed[r] \/ Changed(r)

EndCoarsen ==
    /\ \A r \in Ranks : pc[r] = "coarsen" /\ PassOver(r)
    /\ mesh_changed' = [r \in Ranks |-> AfterCoarsen(r)]
    /\ global_num_quadrants' = NumQuadrants(forest)
    /\ pc' = [r \in Ranks |-> IF AfterCoarsen(r) THEN "balance" ELSE "rebuild"]
    /\ UNCHANGED <<forest, ghost, pos, amrflags_d, amrflags_h, tmp_flags,
                   inside_counter, num_replaced, old_keys, data, cycles>>

----------------------------------------------------------------------------
(* Balance, rebuild, remap                                                  *)

(* Every leaf is replaced by what the coarsest balanced refinement of the    *)
(* whole mesh makes of it.                                                   *)
Balanced(f) ==
    LET refined[split \in SUBSET Quads] ==
            LET parts[n \in 0 .. LevelMax] ==
                    [q \in QuadsAt(LevelMax - n) |->
                        IF n > 0 /\ q \in split
                        THEN FlattenSeq([k \in 1 .. NB_CHILDREN |-> parts[n - 1][Append(q, k - 1)]])
                        ELSE <<q>>]
            IN  [r \in Ranks |->
                    FlattenSeq([i \in DOMAIN f[r] |-> parts[LevelMax - level(f[r][i])][f[r][i]]])]
    IN  refined[Split(Leaves(f))]

(* p4est_balance_ext, a collective.                                         *)
Balance ==
    /\ \A r \in Ranks : pc[r] = "balance"
    /\ forest' = Balanced(forest)
    /\ global_num_quadrants' = NumQuadrants(forest')
    /\ pc' = [r \in Ranks |-> "rebuild"]
    /\ UNCHANGED <<ghost, pos, amrflags_d, amrflags_h, tmp_flags, inside_counter,
                   num_replaced, mesh_changed, old_keys, data, cycles>>

(* AMRManager::rebuild: new ghosts only if the mesh has changed.             *)
Rebuild ==
    /\ \A r \in Ranks : pc[r] = "rebuild"
    /\ ghost' = [r \in Ranks |-> IF mesh_changed[r] THEN GhostLeaves(forest, r) ELSE ghost[r]]
    /\ cycles' = cycles + 1
    /\ pc' = [r \in Ranks |-> "remap"]
    /\ UNCHANGED <<forest, pos, amrflags_d, amrflags_h, tmp_flags, inside_counter,
                   num_replaced, mesh_changed, global_num_quadrants, old_keys, data>>

(* hashmap.find in the old map: the local id of a key, or 0.                 *)
Find(r, key) == SelectInSeq(old_keys[r], LAMBDA q : q = key)

(* userdataLeaf_old(iOct): past the owned leaves lies what no one has set.    *)
OldValue(r, iOct) == IF iOct \in DOMAIN data[r] THEN data[r][iOct] ELSE {}

ChildrenValues(r, q) ==
    UNION {OldValue(r, Find(r, eldest_child(q)) + k) : k \in ChildIds}

(* remap_leaf_data: the value of the leaf itself, else of its father, else   *)
(* the mean over its children, which are taken to follow the eldest; nothing *)
(* is written when the three searches fail.                                  *)
NewValue(r, q) ==
    CASE Find(r, q) # 0 -> OldValue(r, Find(r, q))
      [] Find(r, q) = 0 /\ Find(r, father(q)) # 0 -> OldValue(r, Find(r, father(q)))
      [] Find(r, q) = 0 /\ Find(r, father(q)) = 0 /\ Find(r, eldest_child(q)) # 0 ->
            ChildrenValues(r, q)
      [] OTHER -> {}

Remap(r) ==
    /\ pc[r] = "remap"
    /\ data' = [data EXCEPT ![r] = [i \in DOMAIN forest[r] |-> NewValue(r, forest[r][i])]]
    /\ pc' = [pc EXCEPT ![r] = "flags"]
    /\ UNCHANGED <<forest, ghost, pos, amrflags_d, amrflags_h, tmp_flags,
                   inside_counter, num_replaced, mesh_changed,
                   global_num_quadrants, old_keys, cycles>>

----------------------------------------------------------------------------
Step(r) ==
    \/ ComputeFlags(r) \/ KeepLeaf(r) \/ RefineLeaf(r)
    \/ SkipLeaf(r) \/ CoarsenFamily(r) \/ Remap(r)

Collective == EndRefine \/ EndCoarsen \/ Balance \/ Rebuild

(* Every cycle the bound allows is over.                                     *)
Finished == ~ Again /\ \A r \in Ranks : pc[r] = "flags"

Next ==
    \/ Collective
    \/ \E r \in Ranks : Step(r)
    \/ Finished /\ UNCHANGED vars

(* A rank that can move does, or a collective that all have entered returns. *)
(* The number of steps is bounded, so no rank need be given more than that.  *)
Fairness == WF_vars(Collective \/ \E r \in Ranks : Step(r))

Spec     == Init /\ [][Next]_vars
FairSpec == Spec /\ Fairness

----------------------------------------------------------------------------
(* Properties                                                               *)

(* Every variable keeps its shape; leaves are quadrants of a legal level     *)
(* (AMRContext, AMRCycleData).                                               *)
TypeOK ==
    /\ pc \in [Ranks -> {"flags", "refine", "coarsen", "balance", "rebuild", "remap"}]
    /\ forest \in [Ranks -> Seq(Quads)]
    /\ ghost \in [Ranks -> Seq(Quads)]
    /\ pos \in [Ranks -> Nat]
    /\ amrflags_d \in [Ranks -> Seq(Flags)]
    /\ amrflags_h \in [Ranks -> Seq(Flags)]
    /\ DOMAIN tmp_flags = Ranks
    /\ \A r \in Ranks : tmp_flags[r] \in [DOMAIN tmp_flags[r] -> Flags]
    /\ inside_counter \in [Ranks -> Nat]
    /\ num_replaced \in [Ranks -> Nat]
    /\ mesh_changed \in [Ranks -> BOOLEAN]
    /\ global_num_quadrants \in Nat
    /\ old_keys \in [Ranks -> Seq(Quads)]
    /\ data \in [Ranks -> Seq(SUBSET Quads)]
    /\ cycles \in 0 .. MaxCycles

(* The leaves and the flags a rank began the cycle with.                     *)
OldLeaves(r) == SubSeq(old_keys[r], 1, Len(amrflags_d[r]))
Asked(r, flag) == {OldLeaves(r)[i] : i \in {j \in DOMAIN amrflags_d[r] : amrflags_d[r][j] = flag}}

(* tmp_flags has exactly the room the refinement needs: what has been        *)
(* written ends where the next flag goes, no write falls outside, and        *)
(* nothing is left unwritten when the coarsening starts to read              *)
(* ("this allocation is optimistic", AMRContext::adapt_mesh).                *)
TmpFlagsFit ==
    \A r \in Ranks :
        /\ pc[r] = "refine" =>
              /\ \A i \in DOMAIN tmp_flags[r] : (tmp_flags[r][i] = DO_REFINE) <=> i >= TmpIndex(r)
              /\ TmpIndex(r) + (Len(forest[r]) - pos[r])
                    + (NB_CHILDREN - 1) * NumRefine(amrflags_h[r]) = Cardinality(DOMAIN tmp_flags[r])
        /\ pc[r] = "coarsen" =>
              \A i \in DOMAIN tmp_flags[r] : tmp_flags[r][i] # DO_REFINE

(* During the coarsening the counter still points at the flag of the leaf    *)
(* p4est is looking at: what was asked of it, or nothing if it has just been *)
(* created (refine_callback and replace_on_refine_callback lay out           *)
(* tmp_flags, coarsen_callback reads it).                                    *)
FlagsFollowLeaves ==
    \A r \in Ranks : pc[r] = "coarsen" =>
        \A i \in 0 .. Len(forest[r]) - pos[r] - 1 :
            LET q == forest[r][pos[r] + 1 + i]
            IN  TmpFlag(r, inside_counter[r] + i) =
                   IF q \in Asked(r, DO_COARSEN) THEN DO_COARSEN ELSE DO_NOTHING

(* The assertions of adapt_mesh after each pass: every leaf was visited once *)
(* and the local count moved by what the callbacks counted.                  *)
CountersAgree ==
    \A r \in Ranks :
        LET old     == Len(amrflags_d[r])
            refined == old + (NB_CHILDREN - 1) * NumRefine(amrflags_d[r])
        IN  /\ (pc[r] = "refine" /\ PassOver(r)) =>
                  /\ inside_counter[r] = old
                  /\ Len(forest[r]) - old = num_replaced[r] * (NB_CHILDREN - 1)
            /\ (pc[r] = "coarsen" /\ PassOver(r)) =>
                  /\ inside_counter[r] = refined
                  /\ refined - Len(forest[r]) = num_replaced[r] * (NB_CHILDREN - 1)

(* The fathers of the families that agree and lie on one rank.               *)
Merged(r) ==
    {father(q) : q \in {p \in Asked(r, DO_COARSEN) :
                          /\ p # <<>>
                          /\ ToSet(all_children(father(p))) \subseteq Asked(r, DO_COARSEN)}}

(* What the passes did is what the flags asked: the leaves flagged for       *)
(* refinement are split, the families that agree and lie on one rank are     *)
(* merged, and nothing else moves (refine_callback, coarsen_callback); and   *)
(* between two cycles the mesh is 2:1 balanced, also when adapt_mesh decided *)
(* that no balance was needed (mesh_changed).                               *)
AdaptedAsAsked ==
    /\ \A r \in Ranks : (pc[r] = "coarsen" /\ PassOver(r)) =>
          ToSet(forest[r]) =
              (UNION {ToSet(all_children(q)) : q \in Asked(r, DO_REFINE)})
              \cup Merged(r)
              \cup {q \in ToSet(OldLeaves(r)) \ Asked(r, DO_REFINE) :
                       q = <<>> \/ father(q) \notin Merged(r)}
    /\ (\A r \in Ranks : pc[r] = "flags") => IsBalanced(Leaves(forest))

(* The old leaves S make up the leaf q, or one of them contains it.          *)
Covers(S, q) ==
    \/ \E p \in Quads : S = {p} /\ IsPrefix(p, q)
    \/ /\ \A p \in S : IsPrefix(q, p)
       /\ FoldSet(LAMBDA p, v : v + Volume(p), 0, S) = Volume(q)

(* Every leaf of the new mesh receives the mean of exactly the old leaves it *)
(* covers, or the value of the one that covered it: the three searches of    *)
(* remap_leaf_data suffice after refinement, coarsening and balance, and the *)
(* siblings do follow the eldest child (UserDataRemapper, which does not     *)
(* look for them).                                                           *)
RemapExact ==
    \A r \in Ranks : pc[r] = "flags" =>
        /\ Len(data[r]) = Len(forest[r])
        /\ \A i \in DOMAIN data[r] : Covers(data[r][i], forest[r][i])

(* Every cycle ends on every rank: the ranks agree on whether the mesh has   *)
(* changed, hence on entering the collective balance (adapt_mesh).           *)
CycleEnds == \A r \in Ranks : pc[r] = "refine" ~> pc[r] = "flags"
=============================================================================

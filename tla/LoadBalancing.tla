---------------------------- MODULE LoadBalancing ----------------------------
(***************************************************************************)
(* AMRManager::load_balancing and load_balancing_and_copy between the time  *)
(* steps of a solver that keeps its variables in two arrays of one leaf per *)
(* entry, solver_data (current) and solver_data_aux (scratch).              *)
(*                                                                         *)
(* The exchange inside MeshPartitioner is one step here; MeshPartition has  *)
(* its messages, and shows that it implements this step.  MeshPartitioner   *)
(* does nothing on a communicator of fewer than two ranks.                  *)
(***************************************************************************)
EXTENDS Integers

CONSTANTS NumRanks,       \* ranks of the communicator
          NumLeaves,      \* leaves of the forest
          Calls,          \* subset of {"load_balancing", "load_balancing_and_copy"}
          MaxSteps        \* bound on the number of time steps

ASSUME LoadBalancingAssumption ==
    /\ NumRanks \in Nat \ {0}
    /\ NumLeaves \in Nat
    /\ Calls \subseteq {"load_balancing", "load_balancing_and_copy"} /\ Calls # {}
    /\ MaxSteps \in Nat

Ranks  == 0 .. NumRanks - 1
Leaves == 0 .. NumLeaves - 1

VARIABLES pc,               \* where each rank is in load_balancing
          call,             \* the function the solver has called last
          gfq,              \* forest->global_first_quadrant
          lb_gfq_old,       \* m_lb_gfq_old, m_lb_gfq_new of each rank
          lb_gfq_new,
          nb_total,         \* AMRMeshInfo: owned, ghost and outside leaves
          solver_data,      \* the arrays the solver passes to load_balancing
          solver_data_aux,
          step              \* time steps so far (bounded)

vars == <<pc, call, gfq, lb_gfq_old, lb_gfq_new, nb_total, solver_data, solver_data_aux,
          step>>

----------------------------------------------------------------------------
Partitions ==
    {g \in [0 .. NumRanks -> 0 .. NumLeaves] :
        /\ g[0] = 0
        /\ g[NumRanks] = NumLeaves
        /\ \A i, j \in 0 .. NumRanks : i <= j => g[i] <= g[j]}

NumOwned(g, r) == g[r + 1] - g[r]

(* Leaves in a row: a ghost on each side that another rank owns, an outside *)
(* leaf on each side of the domain.                                         *)
NumHalo(g, r) == IF NumOwned(g, r) = 0 THEN 0 ELSE 2
NumTotal(g, r) == NumOwned(g, r) + NumHalo(g, r)

Value(l, k) == <<l, k>>
Uninit      == <<-1, -1>>

(* resize keeps what the array holds; the rest, memory of an earlier time   *)
(* or never initialized, is no value of the solution.                       *)
Resized(a, n) == [i \in 0 .. n - 1 |-> IF i \in DOMAIN a THEN a[i] ELSE Uninit]
Size(a)       == IF DOMAIN a = {} THEN 0 ELSE 1 + (CHOOSE i \in DOMAIN a : i + 1 \notin DOMAIN a)

(* The owned leaves of rank r at step k, the rest of the array kept from a. *)
WithOwned(a, g, r, k) ==
    [i \in DOMAIN a |-> IF i < NumOwned(g, r) THEN Value(g[r] + i, k) ELSE a[i]]

Owner(g, l) == CHOOSE r \in Ranks : g[r] <= l /\ l < g[r + 1]

(* What the exchange leaves in the new array of rank r: for each leaf it    *)
(* owns in the new partition, the entry of the leaf on its previous owner.  *)
Transferred(r) ==
    [i \in 0 .. NumOwned(lb_gfq_new[r], r) - 1 |->
        LET l == lb_gfq_new[r][r] + i
            s == Owner(lb_gfq_old[r], l)
        IN  solver_data[s][l - lb_gfq_old[r][s]]]

Init ==
    /\ gfq \in Partitions
    /\ pc = [r \in Ranks |-> "step"]
    /\ call = "load_balancing"
    /\ lb_gfq_old = [r \in Ranks |-> [i \in 0 .. NumRanks |-> 0]]
    /\ lb_gfq_new = [r \in Ranks |-> [i \in 0 .. NumRanks |-> 0]]
    /\ nb_total = [r \in Ranks |-> NumTotal(gfq, r)]
    /\ solver_data = [r \in Ranks |->
           WithOwned(Resized(<<>>, NumTotal(gfq, r)), gfq, r, 0)]
    /\ solver_data_aux = [r \in Ranks |-> Resized(<<>>, NumTotal(gfq, r))]
    /\ step = 0

(* A time step of the solver, from solver_data into solver_data_aux, which  *)
(* it sizes for the mesh and then swaps.                                    *)
TimeStep ==
    /\ \A r \in Ranks : pc[r] = "step"
    /\ step < MaxSteps
    /\ solver_data' = [r \in Ranks |->
           WithOwned(Resized(solver_data_aux[r], nb_total[r]), gfq, r, step + 1)]
    /\ solver_data_aux' = solver_data
    /\ step' = step + 1
    /\ call' \in Calls
    /\ pc' = [r \in Ranks |-> "partition"]
    /\ UNCHANGED <<gfq, lb_gfq_old, lb_gfq_new, nb_total>>

(* Bug: the new partition is read before p4est makes it.                    *)
RepartitionMesh_OldGfq ==
    /\ \A r \in Ranks : pc[r] = "partition"
    /\ gfq' \in Partitions
    /\ lb_gfq_old' = [r \in Ranks |-> gfq]
    /\ lb_gfq_new' = [r \in Ranks |-> gfq]
    /\ pc' = [r \in Ranks |-> "transfer"]
    /\ UNCHANGED <<call, nb_total, solver_data, solver_data_aux, step>>

(* partition_mesh: a collective; nothing at all on a single rank.           *)
RepartitionMesh ==
    /\ \A r \in Ranks : pc[r] = "partition"
    /\ IF NumRanks < 2
       THEN UNCHANGED <<gfq, lb_gfq_old, lb_gfq_new>>
       ELSE /\ gfq' \in Partitions
            /\ lb_gfq_old' = [r \in Ranks |-> gfq]
            /\ lb_gfq_new' = [r \in Ranks |-> gfq']
    /\ pc' = [r \in Ranks |-> "transfer"]
    /\ UNCHANGED <<call, nb_total, solver_data, solver_data_aux, step>>

(* repartition_userdata: solver_data_aux receives the leaves the rank owns  *)
(* in the new partition and no other; nothing at all on a single rank.      *)
RepartitionUserdata ==
    /\ \A r \in Ranks : pc[r] = "transfer"
    /\ solver_data_aux' = [r \in Ranks |->
           IF NumRanks < 2 THEN solver_data_aux[r] ELSE Transferred(r)]
    /\ pc' = [r \in Ranks |-> "rebuild"]
    /\ UNCHANGED <<call, gfq, lb_gfq_old, lb_gfq_new, nb_total, solver_data, step>>

(* rebuild(true): the ghost layer and the numbers of leaves, a collective.  *)
Rebuild ==
    /\ \A r \in Ranks : pc[r] = "rebuild"
    /\ nb_total' = [r \in Ranks |-> NumTotal(gfq, r)]
    /\ pc' = [r \in Ranks |-> "resize"]
    /\ UNCHANGED <<call, gfq, lb_gfq_old, lb_gfq_new, solver_data, solver_data_aux, step>>

(* Bug: the array is swapped without having been resized for the ghosts.    *)
ResizeAndSwap_NoResize(r) ==
    /\ pc[r] = "resize"
    /\ solver_data' = [solver_data EXCEPT ![r] = solver_data_aux[r]]
    /\ solver_data_aux' = [solver_data_aux EXCEPT ![r] = solver_data[r]]
    /\ pc' = [pc EXCEPT ![r] = IF call = "load_balancing_and_copy" THEN "copy" ELSE "step"]
    /\ UNCHANGED <<call, gfq, lb_gfq_old, lb_gfq_new, nb_total, step>>

(* The end of load_balancing.                                               *)
ResizeAndSwap(r) ==
    /\ pc[r] = "resize"
    /\ solver_data' = [solver_data EXCEPT ![r] = Resized(solver_data_aux[r], nb_total[r])]
    /\ solver_data_aux' = [solver_data_aux EXCEPT ![r] = solver_data[r]]
    /\ pc' = [pc EXCEPT ![r] = IF call = "load_balancing_and_copy" THEN "copy" ELSE "step"]
    /\ UNCHANGED <<call, gfq, lb_gfq_old, lb_gfq_new, nb_total, step>>

(* The end of load_balancing_and_copy: Kokkos::deep_copy stops the program  *)
(* when the two views do not have one size.                                 *)
Copy(r) ==
    /\ pc[r] = "copy"
    /\ IF Size(solver_data_aux[r]) = Size(solver_data[r])
       THEN /\ solver_data_aux' = [solver_data_aux EXCEPT ![r] = solver_data[r]]
            /\ pc' = [pc EXCEPT ![r] = "step"]
       ELSE /\ pc' = [pc EXCEPT ![r] = "aborted"]
            /\ UNCHANGED solver_data_aux
    /\ UNCHANGED <<call, gfq, lb_gfq_old, lb_gfq_new, nb_total, solver_data, step>>

Stopped ==
    \/ step = MaxSteps /\ \A r \in Ranks : pc[r] = "step"
    \/ \E r \in Ranks : pc[r] = "aborted"

Next ==
    \/ TimeStep \/ RepartitionMesh \/ RepartitionUserdata \/ Rebuild
    \/ \E r \in Ranks : ResizeAndSwap(r) \/ Copy(r)
    \/ Stopped /\ UNCHANGED vars

Spec == Init /\ [][Next]_vars

----------------------------------------------------------------------------
(* Properties                                                               *)

IsArray(a) ==
    /\ \E n \in 0 .. NumLeaves + 2 : DOMAIN a = 0 .. n - 1
    /\ \A i \in DOMAIN a : a[i] \in (Leaves \X (0 .. MaxSteps)) \cup {Uninit}

(* Every variable keeps its shape, and the partition a rank has recorded is *)
(* that of the forest once it uses it (AMRManager, MeshPartitioner).        *)
TypeOK ==
    /\ pc \in [Ranks -> {"step", "partition", "transfer", "rebuild", "resize", "copy",
                         "aborted"}]
    /\ call \in Calls \cup {"load_balancing"}
    /\ gfq \in Partitions
    /\ nb_total \in [Ranks -> 0 .. NumLeaves + 2]
    /\ \A r \in Ranks : IsArray(solver_data[r]) /\ IsArray(solver_data_aux[r])
    /\ step \in 0 .. MaxSteps
    /\ \A r \in Ranks : pc[r] \in {"transfer", "rebuild"} /\ NumRanks > 1
                            => lb_gfq_new[r] = gfq

(* Whenever the solver goes on, solver_data is sized for the mesh, ghosts   *)
(* and outside leaves included, and holds the values of the last time step  *)
(* for every leaf the rank owns in the partition in force: load balancing   *)
(* moves the solution and does not change it (AMRManager::load_balancing).  *)
SolutionKept ==
    \A r \in Ranks : pc[r] = "step" =>
        /\ Size(solver_data[r]) = NumTotal(gfq, r)
        /\ \A i \in 0 .. NumOwned(gfq, r) - 1 :
              i \in DOMAIN solver_data[r] /\ solver_data[r][i] = Value(gfq[r] + i, step)

(* "Does the load balancing and copy data": when load_balancing_and_copy     *)
(* ends on a rank, the arrays are equal if the new partition leaves the rank *)
(* as many leaves as the previous one, ghosts and outside leaves included;  *)
(* otherwise the program stops there, since the scratch array is the one of *)
(* the previous partition, which load_balancing swaps and nobody resizes.   *)
CopyUnlessResized ==
    \A r \in Ranks :
        call = "load_balancing_and_copy" /\ step > 0 /\ pc[r] \in {"step", "aborted"}
            => IF NumTotal(lb_gfq_old[r], r) = NumTotal(lb_gfq_new[r], r)
               THEN pc[r] = "step" /\ solver_data_aux[r] = solver_data[r]
               ELSE pc[r] = "aborted"
=============================================================================

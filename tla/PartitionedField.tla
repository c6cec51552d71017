-------------------------- MODULE PartitionedField --------------------------
(***************************************************************************)
(* What the load balancing of kalypsso promises to its caller: every user   *)
(* array is one global sequence of leaf payloads, cut between the ranks     *)
(* along the p4est partition.  A repartition moves the cuts at once; then   *)
(* each rank, at a time of its own, replaces the segment of one array after *)
(* the other by the segment the new cuts give it.                           *)
(***************************************************************************)
EXTENDS Integers

CONSTANTS NumRanks,   \* size of the MPI communicator
          NumQuads,   \* number of leaves of the forest
          NumArrays   \* number of user arrays carried along

Ranks  == 0 .. NumRanks - 1
Arrays == 1 .. NumArrays

VARIABLES cuts,   \* global index of the first leaf of each rank
          held,   \* held[r][k]: the segment of array k that rank r holds
          todo    \* todo[r]: the first array rank r still has to refresh

vars == <<cuts, held, todo>>

(* A partition of the NumQuads leaves among the ranks, in Morton order.     *)
Partitions ==
    {g \in [0 .. NumRanks -> 0 .. NumQuads] :
        /\ g[0] = 0
        /\ g[NumRanks] = NumQuads
        /\ \A i, j \in 0 .. NumRanks : i <= j => g[i] <= g[j]}

(* The payload attached to leaf g of array k.                              *)
Payload(k, g) == <<k, g>>

Segment(g, r, k) == [i \in 0 .. g[r + 1] - g[r] - 1 |-> Payload(k, g[r] + i)]

Init ==
    /\ cuts \in Partitions
    /\ held = [r \in Ranks |-> [k \in Arrays |-> Segment(cuts, r, k)]]
    /\ todo = [r \in Ranks |-> NumArrays + 1]

Repartition ==
    /\ \A r \in Ranks : todo[r] = NumArrays + 1
    /\ cuts' \in Partitions
    /\ todo' = [r \in Ranks |-> 1]
    /\ UNCHANGED held

Refresh(r) ==
    /\ todo[r] \in Arrays
    /\ held' = [held EXCEPT ![r][todo[r]] = Segment(cuts, r, todo[r])]
    /\ todo' = [todo EXCEPT ![r] = @ + 1]
    /\ UNCHANGED cuts

Next == Repartition \/ \E r \in Ranks : Refresh(r)

Spec == Init /\ [][Next]_vars
=============================================================================

------------------------ MODULE LoadBalancing_proofs ------------------------
(***************************************************************************)
(* Proofs about LoadBalancing, for any number of leaves and of ranks but    *)
(* one, where SolutionKept does not hold: the solution is kept, and the     *)
(* copy is made on the ranks that keep their number of leaves.              *)
(***************************************************************************)
EXTENDS LoadBalancing, CommonFacts

----------------------------------------------------------------------------
(* The inductive invariant                                                  *)

(* Past the time step the ranks go together up to the rebuild.              *)
Lockstep ==
    \A r, q \in Ranks : pc[r] \in {"partition", "transfer", "rebuild"} => pc[q] = pc[r]

(* From the first repartition to the next, the partition in force is the    *)
(* last one.                                                                *)
Repartitioned(r) ==
    \/ pc[r] \in {"transfer", "rebuild", "resize", "copy", "aborted"}
    \/ pc[r] = "step" /\ step > 0

(* The partitions recorded are those the transfer goes between.             *)
Recorded ==
    \A r \in Ranks :
        /\ Repartitioned(r) => lb_gfq_new[r] = gfq /\ lb_gfq_old[r] \in Partitions
        /\ \A q \in Ranks : pc[r] = "transfer" => lb_gfq_old[q] = lb_gfq_old[r]

(* The numbers of leaves are out of date only until the rebuild.            *)
Counted ==
    \A r \in Ranks : pc[r] \notin {"transfer", "rebuild"} => nb_total[r] = NumTotal(gfq, r)

(* The array a holds the last time step on the leaves g gives rank r.       *)
Holds(a, g, r) ==
    \A i \in 0 .. NumOwned(g, r) - 1 : i \in DOMAIN a /\ a[i] = Value(g[r] + i, step)

(* Where the solution is at each point: in solver_data until the transfer,  *)
(* in solver_data_aux until the swap, which leaves there the array of the   *)
(* previous partition.                                                      *)
SolutionAt(r) ==
    /\ pc[r] \in {"step", "partition", "copy", "aborted"} =>
          /\ DOMAIN solver_data[r] = 0 .. NumTotal(gfq, r) - 1
          /\ Holds(solver_data[r], gfq, r)
    /\ pc[r] = "transfer" => Holds(solver_data[r], lb_gfq_old[r], r)
    /\ pc[r] \in {"rebuild", "resize"} =>
          /\ DOMAIN solver_data_aux[r] = 0 .. NumOwned(gfq, r) - 1
          /\ Holds(solver_data_aux[r], gfq, r)
    /\ pc[r] \in {"transfer", "rebuild", "resize"} =>
          DOMAIN solver_data[r] = 0 .. NumTotal(lb_gfq_old[r], r) - 1
    /\ pc[r] = "copy" => DOMAIN solver_data_aux[r] = 0 .. NumTotal(lb_gfq_old[r], r) - 1

Control ==
    /\ pc \in [Ranks -> {"step", "partition", "transfer", "rebuild", "resize", "copy",
                         "aborted"}]
    /\ gfq \in Partitions
    /\ nb_total \in [Ranks -> 0 .. NumLeaves + 2]
    /\ step \in 0 .. MaxSteps
    /\ call \in Calls \cup {"load_balancing"}

Stored ==
    /\ DOMAIN solver_data = Ranks /\ DOMAIN solver_data_aux = Ranks
    /\ \A r \in Ranks : IsArray(solver_data[r]) /\ IsArray(solver_data_aux[r])

IInv ==
    /\ Control /\ Stored /\ Lockstep /\ Recorded /\ Counted
    /\ \A r \in Ranks : SolutionAt(r)
    /\ CopyUnlessResized
----------------------------------------------------------------------------
(* Facts about partitions and arrays                                        *)

(* The numbers of leaves a partition gives a rank are within bounds.        *)
LEMMA OwnedBounds ==
  ASSUME NEW g \in Partitions, NEW r \in Ranks
  PROVE  /\ g[r] \in 0 .. NumLeaves
         /\ NumOwned(g, r) \in 0 .. NumLeaves
         /\ g[r] + NumOwned(g, r) <= NumLeaves
         /\ NumTotal(g, r) \in 0 .. NumLeaves + 2
         /\ NumOwned(g, r) <= NumTotal(g, r)
<1>1. r \in 0 .. NumRanks /\ r + 1 \in 0 .. NumRanks /\ r <= r + 1 /\ NumLeaves \in Nat
  BY LoadBalancingAssumption DEF Ranks
<1>2. g[r] \in 0 .. NumLeaves /\ g[r + 1] \in 0 .. NumLeaves /\ g[r] <= g[r + 1]
  BY <1>1 DEF Partitions
<1>3. QED
  BY <1>1, <1>2 DEF NumOwned, NumTotal, NumHalo

(* Owner finds the rank whose range holds a leaf.                           *)
LEMMA OwnerFound ==
  ASSUME NEW g \in Partitions, NEW l \in Leaves
  PROVE  Owner(g, l) \in Ranks /\ g[Owner(g, l)] <= l /\ l < g[Owner(g, l) + 1]
<1>1. \E r \in Ranks : g[r] <= l /\ l < g[r + 1]
  <2>1. NumRanks \in Nat /\ NumRanks >= 1 /\ NumLeaves \in Nat /\ l \in Nat /\ l < NumLeaves
    BY LoadBalancingAssumption DEF Leaves
  <2>2. g \in [0 .. NumRanks -> 0 .. NumLeaves] /\ g[0] = 0 /\ g[NumRanks] = NumLeaves
    BY DEF Partitions
  <2>3. QED
    BY <2>1, <2>2, SomeOwner, Zenon DEF Ranks
<1>2. QED
  BY <1>1 DEF Owner

(* A resized array is one, and so is one whose owned leaves are written.    *)
LEMMA ResizedArray ==
  ASSUME NEW a, IsArray(a), NEW n \in 0 .. NumLeaves + 2
  PROVE  IsArray(Resized(a, n)) /\ DOMAIN Resized(a, n) = 0 .. n - 1
<1>1. DOMAIN Resized(a, n) = 0 .. n - 1
  BY DEF Resized
<1>2. \A i \in 0 .. n - 1 : Resized(a, n)[i] = IF i \in DOMAIN a THEN a[i] ELSE Uninit
  BY DEF Resized
<1>3. QED
  BY <1>1, <1>2 DEF IsArray

(* Writing every owned leaf of an array makes it the array of what was written. *)
LEMMA WrittenArray ==
  ASSUME NEW g \in Partitions, NEW r \in Ranks, NEW k \in 0 .. MaxSteps,
         NEW a, IsArray(a)
  PROVE  /\ IsArray(WithOwned(a, g, r, k))
         /\ DOMAIN WithOwned(a, g, r, k) = DOMAIN a
         /\ \A i \in DOMAIN a : i < NumOwned(g, r) =>
               WithOwned(a, g, r, k)[i] = Value(g[r] + i, k)
<1> DEFINE w == WithOwned(a, g, r, k)
<1>1. DOMAIN w = DOMAIN a
  BY DEF WithOwned
<1>2. \A i \in DOMAIN a : w[i] = IF i < NumOwned(g, r) THEN Value(g[r] + i, k) ELSE a[i]
  BY DEF WithOwned
<1>3. PICK n \in 0 .. NumLeaves + 2 : DOMAIN a = 0 .. n - 1
  BY DEF IsArray
<1>4. ASSUME NEW i \in DOMAIN a, i < NumOwned(g, r)
      PROVE  g[r] + i \in Leaves
  BY <1>3, <1>4, OwnedBounds, LoadBalancingAssumption DEF Leaves
<1>5. \A i \in DOMAIN a : w[i] \in (Leaves \X (0 .. MaxSteps)) \cup {Uninit}
  <2>1. TAKE i \in DOMAIN a
  <2>2. CASE i < NumOwned(g, r)
    <3>1. g[r] + i \in Leaves
      BY <1>4, <2>2
    <3>2. w[i] = <<g[r] + i, k>>
      BY <1>2, <2>2 DEF Value
    <3> HIDE DEF w
    <3>3. QED
      BY <3>1, <3>2
  <2>3. CASE ~ (i < NumOwned(g, r))
    BY <1>2, <2>3 DEF IsArray
  <2>4. QED
    BY <2>2, <2>3
<1>6. QED
  BY <1>1, <1>2, <1>3, <1>5 DEF IsArray

(* The size of an array of n entries is n.                                  *)
LEMMA SizeOfArray ==
  ASSUME NEW a, NEW n \in Nat, DOMAIN a = 0 .. n - 1
  PROVE  Size(a) = n
<1>1. CASE n = 0
  BY <1>1 DEF Size
<1>2. CASE n # 0
  <2>1. n - 1 \in DOMAIN a /\ n - 1 + 1 \notin DOMAIN a
    BY <1>2
  <2>2. \A i \in DOMAIN a : i + 1 \notin DOMAIN a => i = n - 1
    OBVIOUS
  <2> DEFINE c == CHOOSE i \in DOMAIN a : i + 1 \notin DOMAIN a
  <2>3. c \in DOMAIN a /\ c + 1 \notin DOMAIN a
    BY <2>1
  <2> HIDE DEF c
  <2>4. c = n - 1
    BY <2>2, <2>3
  <2>5. Size(a) = 1 + c
    BY <2>1 DEF Size, c
  <2>6. QED
    BY <2>4, <2>5
<1>3. QED
  BY <1>1, <1>2

----------------------------------------------------------------------------
(* Every step preserves the invariant                                       *)

(* The inductive invariant holds initially. *)
LEMMA InitInv ==
  ASSUME NumRanks >= 2, Init
  PROVE  IInv
<1>1. \A r \in Ranks : IsArray(Resized(<<>>, NumTotal(gfq, r)))
                       /\ DOMAIN Resized(<<>>, NumTotal(gfq, r)) = 0 .. NumTotal(gfq, r) - 1
  <2>1. IsArray(<<>>)
    BY LoadBalancingAssumption DEF IsArray
  <2>2. QED
    BY <2>1, ResizedArray, OwnedBounds DEF Init
<1>2. 0 \in 0 .. MaxSteps
  BY LoadBalancingAssumption
<1>3. \A r \in Ranks : /\ IsArray(solver_data[r]) /\ IsArray(solver_data_aux[r])
                       /\ DOMAIN solver_data[r] = 0 .. NumTotal(gfq, r) - 1
                       /\ Holds(solver_data[r], gfq, r)
  <2>1. TAKE r \in Ranks
  <2>2. solver_data[r] = WithOwned(Resized(<<>>, NumTotal(gfq, r)), gfq, r, step)
        /\ solver_data_aux[r] = Resized(<<>>, NumTotal(gfq, r)) /\ step = 0
    BY DEF Init
  <2>3. gfq \in Partitions /\ NumOwned(gfq, r) \in Nat /\ NumTotal(gfq, r) \in Nat
        /\ NumOwned(gfq, r) <= NumTotal(gfq, r)
    BY OwnedBounds DEF Init
  <2>4. \A i \in 0 .. NumOwned(gfq, r) - 1 : i \in 0 .. NumTotal(gfq, r) - 1 /\ i < NumOwned(gfq, r)
    BY <2>3
  <2>5. QED
    BY <1>1, <1>2, <2>2, <2>3, <2>4, WrittenArray DEF Holds
<1>4. Control
  BY <1>2, OwnedBounds DEF Init, Control
<1>5. Stored
  BY <1>3 DEF Init, Stored
<1>6. Lockstep /\ Recorded /\ Counted
  BY DEF Init, Lockstep, Recorded, Repartitioned, Counted
<1>7. \A r \in Ranks : SolutionAt(r)
  BY <1>3 DEF Init, SolutionAt
<1>8. CopyUnlessResized
  BY DEF Init, CopyUnlessResized
<1>9. QED
  BY <1>4, <1>5, <1>6, <1>7, <1>8 DEF IInv

(* A time step keeps it: both arrays fit the mesh. *)
LEMMA TimeStepInv ==
  ASSUME NumRanks >= 2, IInv, TimeStep
  PROVE  IInv'
<1> USE DEF IInv
<1>1. step \in 0 .. MaxSteps /\ step + 1 \in 0 .. MaxSteps /\ gfq \in Partitions
  BY LoadBalancingAssumption DEF Control, TimeStep
<1>2. \A r \in Ranks : nb_total[r] = NumTotal(gfq, r)
  BY DEF Counted, TimeStep
<1>3. \A r \in Ranks : /\ IsArray(solver_data'[r])
                       /\ DOMAIN solver_data'[r] = 0 .. NumTotal(gfq, r) - 1
                       /\ Holds(solver_data[r], gfq, r)'
  <2>1. TAKE r \in Ranks
  <2> DEFINE scratch == Resized(solver_data_aux[r], nb_total[r])
  <2>2. solver_data'[r] = WithOwned(scratch, gfq, r, step + 1) /\ step' = step + 1 /\ gfq' = gfq
    BY DEF TimeStep
  <2>3. IsArray(scratch) /\ DOMAIN scratch = 0 .. NumTotal(gfq, r) - 1
    BY <1>1, <1>2, OwnedBounds, ResizedArray DEF Stored
  <2>4. NumOwned(gfq, r) \in Nat /\ NumTotal(gfq, r) \in Nat /\ NumOwned(gfq, r) <= NumTotal(gfq, r)
    BY <1>1, OwnedBounds
  <2>5. \A i \in 0 .. NumOwned(gfq, r) - 1 : i \in 0 .. NumTotal(gfq, r) - 1 /\ i < NumOwned(gfq, r)
    BY <2>4
  <2> HIDE DEF scratch
  <2>6. /\ IsArray(solver_data'[r])
        /\ DOMAIN solver_data'[r] = 0 .. NumTotal(gfq, r) - 1
        /\ \A i \in DOMAIN scratch : i < NumOwned(gfq, r) =>
              solver_data'[r][i] = Value(gfq[r] + i, step + 1)
    <3> DEFINE w == WithOwned(scratch, gfq, r, step + 1)
    <3>1. /\ IsArray(w)
          /\ DOMAIN w = DOMAIN scratch
          /\ \A i \in DOMAIN scratch : i < NumOwned(gfq, r) => w[i] = Value(gfq[r] + i, step + 1)
      <4>1. gfq \in Partitions /\ step + 1 \in 0 .. MaxSteps /\ IsArray(scratch)
        BY <1>1, <2>3
      <4>2. QED
        BY <4>1, WrittenArray
    <3> HIDE DEF w
    <3>2. solver_data'[r] = w
      BY <2>2 DEF w
    <3>3. QED
      BY <2>3, <3>1, <3>2
  <2>7. \A i \in 0 .. NumOwned(gfq, r) - 1 :
           i \in DOMAIN solver_data'[r] /\ solver_data'[r][i] = Value(gfq[r] + i, step + 1)
    BY <2>3, <2>5, <2>6
  <2>8. QED
    BY <2>2, <2>6, <2>7 DEF Holds
<1>4. Control'
  BY <1>1 DEF Control, TimeStep
<1>5. Stored'
  BY <1>3 DEF TimeStep, Stored
<1>6. Lockstep' /\ Recorded' /\ Counted'
  BY <1>2 DEF TimeStep, Lockstep, Recorded, Repartitioned, Counted
<1>7. \A r \in Ranks : SolutionAt(r)'
  <2>1. gfq' = gfq /\ \A r \in Ranks : pc'[r] = "partition"
    BY DEF TimeStep
  <2>2. QED
    BY <1>3, <2>1 DEF SolutionAt
<1>8. CopyUnlessResized'
  BY DEF TimeStep, CopyUnlessResized
<1>9. QED
  BY <1>4, <1>5, <1>6, <1>7, <1>8

(* So does the repartition, which only cuts the leaves again. *)
LEMMA RepartitionMeshInv ==
  ASSUME NumRanks >= 2, IInv, RepartitionMesh
  PROVE  IInv'
<1> USE DEF IInv
<1>1. /\ gfq' \in Partitions /\ gfq \in Partitions
      /\ \A r \in Ranks : /\ pc[r] = "partition" /\ pc'[r] = "transfer"
                          /\ lb_gfq_old'[r] = gfq /\ lb_gfq_new'[r] = gfq'
      /\ UNCHANGED <<call, nb_total, solver_data, solver_data_aux, step>>
  BY LoadBalancingAssumption DEF RepartitionMesh, Control
<1>2. Control' /\ Stored'
  BY <1>1 DEF Control, Stored, RepartitionMesh
<1>3. Lockstep' /\ Recorded' /\ Counted' /\ CopyUnlessResized'
  BY <1>1 DEF Lockstep, Recorded, Counted, CopyUnlessResized
<1>4. \A r \in Ranks : SolutionAt(r)'
  <2>1. TAKE r \in Ranks
  <2>2. Holds(solver_data[r], gfq, r)
    BY <1>1 DEF SolutionAt
  <2>3. Holds(solver_data[r], lb_gfq_old[r], r)'
    BY <1>1, <2>2 DEF Holds
  <2>4. DOMAIN solver_data'[r] = 0 .. NumTotal(lb_gfq_old'[r], r) - 1
    BY <1>1 DEF SolutionAt
  <2>5. QED
    BY <1>1, <2>3, <2>4 DEF SolutionAt
<1>5. QED
  BY <1>2, <1>3, <1>4

(* The entry each rank receives is that of the previous owner, which holds  *)
(* the last time step on all it owned.                                      *)
LEMMA RepartitionUserdataInv ==
  ASSUME NumRanks >= 2, IInv, RepartitionUserdata
  PROVE  IInv'
<1> USE DEF IInv
<1>1. /\ gfq \in Partitions /\ step \in 0 .. MaxSteps
      /\ \A r \in Ranks :
            /\ pc[r] = "transfer" /\ pc'[r] = "rebuild"
            /\ lb_gfq_new[r] = gfq /\ lb_gfq_old[r] \in Partitions
            /\ \A q \in Ranks : lb_gfq_old[q] = lb_gfq_old[r]
            /\ Holds(solver_data[r], lb_gfq_old[r], r)
            /\ DOMAIN solver_data[r] = 0 .. NumTotal(lb_gfq_old[r], r) - 1
            /\ solver_data_aux'[r] = Transferred(r)
      /\ UNCHANGED <<call, gfq, lb_gfq_old, lb_gfq_new, nb_total, solver_data, step>>
  <2>1. \A r \in Ranks : solver_data_aux'[r] = Transferred(r)
    BY LoadBalancingAssumption DEF RepartitionUserdata
  <2>2. QED
    BY <2>1 DEF RepartitionUserdata, Control, Recorded, Repartitioned, SolutionAt
<1>2. ASSUME NEW r \in Ranks, NEW i \in 0 .. NumOwned(gfq, r) - 1
      PROVE  gfq[r] + i \in Leaves /\ Transferred(r)[i] = Value(gfq[r] + i, step)
  <2> DEFINE l == gfq[r] + i
             old == lb_gfq_old[r]
             s == Owner(old, l)
  <2>1. l \in Leaves
    BY <1>1, OwnedBounds, LoadBalancingAssumption DEF Leaves
  <2>2. s \in Ranks /\ old[s] <= l /\ l < old[s + 1] /\ old \in Partitions
    BY <1>1, <2>1, OwnerFound
  <2> HIDE DEF s, l
  <2>3. l - old[s] \in 0 .. NumOwned(old, s) - 1 /\ old[s] + (l - old[s]) = l
    <3>1. old[s] \in Nat /\ NumOwned(old, s) \in Nat /\ l \in Int
      BY <2>1, <2>2, OwnedBounds DEF Leaves
    <3>2. old[s] + NumOwned(old, s) = old[s + 1]
      <4>1. s + 1 \in 0 .. NumRanks
        BY <2>2, LoadBalancingAssumption DEF Ranks
      <4>2. old[s + 1] \in Int
        BY <2>2, <4>1, LoadBalancingAssumption DEF Partitions
      <4>3. QED
        BY <3>1, <4>2 DEF NumOwned
    <3>3. QED
      BY <2>2, <3>1, <3>2
  <2>4. solver_data[s][l - old[s]] = Value(l, step)
    <3>1. lb_gfq_old[s] = old
      BY <1>1, <2>2
    <3>2. Holds(solver_data[s], old, s)
      BY <1>1, <2>2, <3>1
    <3>3. QED
      BY <2>3, <3>2 DEF Holds
  <2>5. Transferred(r)[i] = solver_data[s][l - old[s]]
    BY <1>1 DEF Transferred, s, l
  <2>6. QED
    BY <2>1, <2>4, <2>5 DEF l
<1>3. \A r \in Ranks : /\ DOMAIN Transferred(r) = 0 .. NumOwned(gfq, r) - 1
                       /\ IsArray(Transferred(r))
  <2>1. TAKE r \in Ranks
  <2>2. DOMAIN Transferred(r) = 0 .. NumOwned(gfq, r) - 1
    BY <1>1 DEF Transferred
  <2>3. NumOwned(gfq, r) \in 0 .. NumLeaves + 2
    BY <1>1, OwnedBounds, LoadBalancingAssumption
  <2>4. \A i \in DOMAIN Transferred(r) :
           Transferred(r)[i] \in (Leaves \X (0 .. MaxSteps)) \cup {Uninit}
    <3>1. TAKE i \in DOMAIN Transferred(r)
    <3>2. i \in 0 .. NumOwned(gfq, r) - 1
      BY <2>2
    <3>3. gfq[r] + i \in Leaves /\ Transferred(r)[i] = Value(gfq[r] + i, step)
      BY <1>2, <3>2
    <3>4. Value(gfq[r] + i, step) \in Leaves \X (0 .. MaxSteps)
      BY <1>1, <3>3 DEF Value
    <3>5. QED
      BY <3>3, <3>4
  <2>5. QED
    BY <2>2, <2>3, <2>4 DEF IsArray
<1>4. Control'
  BY <1>1 DEF Control, RepartitionUserdata
<1>5. Stored'
  BY <1>1, <1>3 DEF Stored, RepartitionUserdata
<1>6. Lockstep' /\ Recorded' /\ Counted' /\ CopyUnlessResized'
  BY <1>1 DEF Lockstep, Recorded, Counted, CopyUnlessResized
<1>7. \A r \in Ranks : SolutionAt(r)'
  <2>1. TAKE r \in Ranks
  <2>2. Holds(solver_data_aux[r], gfq, r)'
    BY <1>1, <1>2, <1>3 DEF Holds
  <2>3. QED
    BY <1>1, <1>3, <2>2 DEF SolutionAt
<1>8. QED
  BY <1>4, <1>5, <1>6, <1>7

(* So does the rebuild of the map. *)
LEMMA RebuildInv ==
  ASSUME NumRanks >= 2, IInv, Rebuild
  PROVE  IInv'
<1> USE DEF IInv
<1>1. /\ gfq \in Partitions
      /\ \A r \in Ranks : /\ pc[r] = "rebuild" /\ pc'[r] = "resize"
                          /\ nb_total'[r] = NumTotal(gfq, r)
      /\ UNCHANGED <<call, gfq, lb_gfq_old, lb_gfq_new, solver_data, solver_data_aux, step>>
  BY DEF Rebuild, Control
<1>2. Control'
  BY <1>1, OwnedBounds DEF Control, Rebuild
<1>3. Stored' /\ Lockstep' /\ Recorded' /\ Counted' /\ CopyUnlessResized'
  BY <1>1 DEF Stored, Lockstep, Recorded, Repartitioned, Counted, CopyUnlessResized
<1>4. \A r \in Ranks : SolutionAt(r)'
  BY <1>1 DEF SolutionAt, Holds
<1>5. QED
  BY <1>2, <1>3, <1>4

(* So does the transfer into the resized array and the swap. *)
LEMMA ResizeAndSwapInv ==
  ASSUME NumRanks >= 2, IInv, NEW r \in Ranks, ResizeAndSwap(r)
  PROVE  IInv'
<1> USE DEF IInv
<1>1. /\ gfq \in Partitions /\ pc[r] = "resize"
      /\ pc'[r] = IF call = "load_balancing_and_copy" THEN "copy" ELSE "step"
      /\ \A q \in Ranks \ {r} : pc'[q] = pc[q]
      /\ UNCHANGED <<call, gfq, lb_gfq_old, lb_gfq_new, nb_total, step>>
  BY DEF ResizeAndSwap, Control
<1>2. /\ DOMAIN solver_data' = Ranks /\ DOMAIN solver_data_aux' = Ranks
      /\ solver_data'[r] = Resized(solver_data_aux[r], NumTotal(gfq, r))
      /\ solver_data_aux'[r] = solver_data[r]
      /\ \A q \in Ranks \ {r} : /\ solver_data'[q] = solver_data[q]
                                /\ solver_data_aux'[q] = solver_data_aux[q]
  BY <1>1 DEF ResizeAndSwap, Stored, Counted
<1>3. IsArray(solver_data'[r]) /\ DOMAIN solver_data'[r] = 0 .. NumTotal(gfq, r) - 1
  BY <1>1, <1>2, OwnedBounds, ResizedArray DEF Stored
<1>4. \A q \in Ranks : pc[q] \notin {"partition", "transfer", "rebuild"}
  BY <1>1 DEF Lockstep
<1>5. Control'
  BY <1>1 DEF Control, ResizeAndSwap
<1>6. Stored'
  BY <1>2, <1>3 DEF Stored
<1>7. Lockstep' /\ Recorded' /\ Counted' /\ CopyUnlessResized'
  <2>1. Lockstep' /\ Counted'
    BY <1>1, <1>4 DEF Lockstep, Counted
  <2>2. Recorded'
    BY <1>1, <1>4 DEF Recorded, Repartitioned
  <2>3. CopyUnlessResized'
    BY <1>1, <1>2 DEF CopyUnlessResized
  <2>4. QED
    BY <2>1, <2>2, <2>3
<1>8. ASSUME NEW q \in Ranks PROVE SolutionAt(q)'
  <2>1. CASE q # r
    BY <1>1, <1>2, <2>1 DEF SolutionAt, Holds
  <2>2. CASE q = r
    <3>1. /\ DOMAIN solver_data_aux[r] = 0 .. NumOwned(gfq, r) - 1
          /\ Holds(solver_data_aux[r], gfq, r)
      BY <1>1 DEF SolutionAt
    <3>2. NumOwned(gfq, r) \in Nat /\ NumTotal(gfq, r) \in Nat
          /\ NumOwned(gfq, r) <= NumTotal(gfq, r)
      BY <1>1, OwnedBounds
    <3>3. \A i \in 0 .. NumOwned(gfq, r) - 1 :
             /\ i \in 0 .. NumTotal(gfq, r) - 1
             /\ solver_data'[r][i] = solver_data_aux[r][i]
      BY <1>2, <3>1, <3>2 DEF Resized
    <3>4. Holds(solver_data[r], gfq, r)'
      BY <1>1, <1>3, <3>1, <3>3 DEF Holds
    <3>5. DOMAIN solver_data_aux'[r] = 0 .. NumTotal(lb_gfq_old[r], r) - 1
      BY <1>1, <1>2 DEF SolutionAt
    <3>6. QED
      BY <1>1, <1>3, <2>2, <3>4, <3>5 DEF SolutionAt
  <2>3. QED
    BY <2>1, <2>2
<1>9. QED
  BY <1>5, <1>6, <1>7, <1>8

(* So does the copy of load_balancing_and_copy. *)
LEMMA CopyInv ==
  ASSUME NumRanks >= 2, IInv, NEW r \in Ranks, Copy(r)
  PROVE  IInv'
<1> USE DEF IInv
<1>1. /\ pc[r] = "copy" /\ pc'[r] \in {"step", "aborted"}
      /\ \A q \in Ranks \ {r} : pc'[q] = pc[q]
      /\ UNCHANGED <<call, gfq, lb_gfq_old, lb_gfq_new, nb_total, solver_data, step>>
  BY DEF Copy, Control
<1>2. /\ DOMAIN solver_data_aux' = Ranks
      /\ solver_data_aux'[r] \in {solver_data[r], solver_data_aux[r]}
      /\ \A q \in Ranks \ {r} : solver_data_aux'[q] = solver_data_aux[q]
  BY DEF Copy, Stored
<1>3. \A q \in Ranks : pc[q] \notin {"partition", "transfer", "rebuild"}
  BY <1>1 DEF Lockstep
<1>4. Control'
  BY <1>1 DEF Control, Copy
<1>5. Stored'
  BY <1>1, <1>2 DEF Stored
<1>6. Lockstep' /\ Recorded' /\ Counted'
  BY <1>1, <1>3 DEF Lockstep, Recorded, Repartitioned, Counted
<1>7. ASSUME NEW q \in Ranks PROVE SolutionAt(q)'
  BY <1>1, <1>2, <1>3 DEF SolutionAt, Holds
<1>8. CopyUnlessResized'
  <2>1. /\ lb_gfq_old[r] \in Partitions /\ gfq \in Partitions /\ lb_gfq_new[r] = gfq
        /\ DOMAIN solver_data[r] = 0 .. NumTotal(gfq, r) - 1
        /\ DOMAIN solver_data_aux[r] = 0 .. NumTotal(lb_gfq_old[r], r) - 1
    BY <1>1 DEF Recorded, Repartitioned, SolutionAt, Control
  <2>2. /\ Size(solver_data[r]) = NumTotal(lb_gfq_new[r], r)
        /\ Size(solver_data_aux[r]) = NumTotal(lb_gfq_old[r], r)
    BY <2>1, OwnedBounds, SizeOfArray
  <2>3. IF NumTotal(lb_gfq_old[r], r) = NumTotal(lb_gfq_new[r], r)
        THEN pc'[r] = "step" /\ solver_data_aux'[r] = solver_data[r]
        ELSE pc'[r] = "aborted"
    BY <2>2 DEF Copy, Control, Stored
  <2>4. QED
    BY <1>1, <1>2, <2>3 DEF CopyUnlessResized
<1>9. QED
  BY <1>4, <1>5, <1>6, <1>7, <1>8

(* So does a stuttering step. *)
LEMMA StutterInv ==
  ASSUME IInv, UNCHANGED vars
  PROVE  IInv'
BY DEF IInv, vars, Control, Stored, Lockstep, Recorded, Repartitioned, Counted, SolutionAt,
       Holds, CopyUnlessResized

----------------------------------------------------------------------------
(* The theorems                                                             *)

(* The inductive invariant always holds. *)
LEMMA Invariance ==
  ASSUME NumRanks >= 2
  PROVE  Spec => []IInv
<1>1. Init => IInv
  BY InitInv
<1>2. IInv /\ [Next]_vars => IInv'
  <2> SUFFICES ASSUME IInv, [Next]_vars PROVE IInv'
    OBVIOUS
  <2>1. CASE TimeStep
    BY <2>1, TimeStepInv
  <2>2. CASE RepartitionMesh
    BY <2>2, RepartitionMeshInv
  <2>3. CASE RepartitionUserdata
    BY <2>3, RepartitionUserdataInv
  <2>4. CASE Rebuild
    BY <2>4, RebuildInv
  <2>5. ASSUME NEW r \in Ranks, ResizeAndSwap(r) PROVE IInv'
    BY <2>5, ResizeAndSwapInv
  <2>6. ASSUME NEW r \in Ranks, Copy(r) PROVE IInv'
    BY <2>6, CopyInv
  <2>7. CASE UNCHANGED vars
    BY <2>7, StutterInv
  <2>8. QED
    BY <2>1, <2>2, <2>3, <2>4, <2>5, <2>6, <2>7 DEF Next
<1>3. QED
  BY <1>1, <1>2, PTL DEF Spec

(* On two ranks or more every variable keeps its shape.                     *)
THEOREM TypeCorrect ==
  ASSUME NumRanks >= 2
  PROVE  Spec => []TypeOK
<1>1. IInv => TypeOK
  BY DEF IInv, Control, Stored, Recorded, Repartitioned, TypeOK
<1>2. QED
  BY <1>1, Invariance, PTL

(* On two ranks or more load balancing moves the solution and does not      *)
(* change it: each rank goes on with an array of the size of its new mesh   *)
(* that holds the last time step on every leaf it owns                      *)
(* (AMRManager::load_balancing).                                            *)
THEOREM LoadBalancingKeepsSolution ==
  ASSUME NumRanks >= 2
  PROVE  Spec => []SolutionKept
<1>1. IInv => SolutionKept
  <2> SUFFICES ASSUME IInv, NEW r \in Ranks, pc[r] = "step"
               PROVE  /\ Size(solver_data[r]) = NumTotal(gfq, r)
                      /\ \A i \in 0 .. NumOwned(gfq, r) - 1 :
                            i \in DOMAIN solver_data[r]
                            /\ solver_data[r][i] = Value(gfq[r] + i, step)
    BY DEF SolutionKept
  <2>1. DOMAIN solver_data[r] = 0 .. NumTotal(gfq, r) - 1 /\ Holds(solver_data[r], gfq, r)
    BY DEF IInv, SolutionAt
  <2>2. NumTotal(gfq, r) \in Nat
    BY OwnedBounds DEF IInv, Control
  <2>3. QED
    BY <2>1, <2>2, SizeOfArray DEF Holds
<1>2. QED
  BY <1>1, Invariance, PTL

(* On two ranks or more, load_balancing_and_copy copies on the ranks the    *)
(* repartition leaves as many leaves as before, and stops the program on    *)
(* the others (AMRManager::load_balancing_and_copy).                        *)
THEOREM CopyStopsIfResized ==
  ASSUME NumRanks >= 2
  PROVE  Spec => []CopyUnlessResized
<1>1. IInv => CopyUnlessResized
  BY DEF IInv
<1>2. QED
  BY <1>1, Invariance, PTL
=============================================================================

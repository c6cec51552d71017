--------------------------- MODULE MeshPartition ---------------------------
(***************************************************************************)
(* Repartition of the forest and of the user arrays that follow it:         *)
(* MeshPartitioner::partition_mesh, MeshPartitioner::repartition_userdata    *)
(* and the point-to-point exchange of MeshPartitioner_helper.               *)
(*                                                                         *)
(* Every rank runs the same program: record the old partition, take part in *)
(* the collective p4est_partition, record the new partition, then transfer  *)
(* the user arrays one after the other.  A transfer posts its receives, its *)
(* sends and the copy of what stays local, and waits.  All the transfers    *)
(* use one tag, and nothing but the waits orders the ranks: a rank may be   *)
(* several arrays ahead of its neighbour.                                   *)
(*                                                                         *)
(* The early return for fewer than two ranks is modelled in LoadBalancing.  *)
(***************************************************************************)
EXTENDS Integers, Sequences

CONSTANTS NumRanks,        \* ranks of the communicator
          NumQuads,        \* leaves of the forest
          NumArrays,       \* user arrays repartitioned after each partition
          EagerLimit,      \* longest message (in leaves) MPI buffers on its own
          MaxPartitions    \* bound on the number of repartitions

ASSUME PartitionAssumption ==
    /\ NumRanks \in Nat /\ NumRanks >= 2
    /\ NumQuads \in Nat
    /\ NumArrays \in Nat \ {0}
    /\ EagerLimit \in Nat
    /\ MaxPartitions \in Nat

Ranks  == 0 .. NumRanks - 1
Arrays == 1 .. NumArrays

VARIABLES pc,           \* where each rank is in the program above
          gfq,          \* forest->global_first_quadrant
          lb_gfq_old,   \* m_lb_gfq_old of each rank
          lb_gfq_new,   \* m_lb_gfq_new of each rank
          array,        \* the user array each rank is transferring
          field,        \* field[r][k]: user array k on rank r
          dest,         \* userdata_new of the transfer each rank is in
          recvs,        \* receives a rank has posted and not completed
          chan,         \* chan[s][d]: messages sent from s to d, not yet matched
          partitions    \* number of repartitions so far (bounded)

vars == <<pc, gfq, lb_gfq_old, lb_gfq_new, array, field, dest, recvs, chan,
          partitions>>

----------------------------------------------------------------------------
(* Partitions and the slices exchanged                                      *)

(* The global index of the first leaf of each rank, and the total.          *)
Partitions ==
    {g \in [0 .. NumRanks -> 0 .. NumQuads] :
        /\ g[0] = 0
        /\ g[NumRanks] = NumQuads
        /\ \A i, j \in 0 .. NumRanks : i <= j => g[i] <= g[j]}

NumLocal(g, r) == g[r + 1] - g[r]

(* The (necessarily non-empty) rank that owns a global index.               *)
bsearch_partition(target, g) ==
    CHOOSE r \in Ranks : g[r] <= target /\ target < g[r + 1]

Smaller(a, b) == IF a > b THEN b ELSE a

(* The peers of rank r, whose range is that of mine, in the partition       *)
(* theirs, as the loops over first..last visit them; and the range of       *)
(* global indices [from, to) shared with each of them.                      *)
FirstRank(mine, theirs, r) == bsearch_partition(mine[r], theirs)
LastRank(mine, theirs, r)  == bsearch_partition(mine[r + 1] - 1, theirs)

PeerBegin(mine, theirs, r, q) ==
    IF q = FirstRank(mine, theirs, r) THEN mine[r] ELSE theirs[q]

PeerEnd(mine, theirs, r, q) == Smaller(theirs[q + 1], mine[r + 1])

(* Peers with an empty range get no request.                                *)
Peers(mine, theirs, r) ==
    IF mine[r] = mine[r + 1] THEN {}
    ELSE {q \in FirstRank(mine, theirs, r) .. LastRank(mine, theirs, r) :
             PeerBegin(mine, theirs, r, q) < PeerEnd(mine, theirs, r, q)}

(* A slice of a rank's array: its offset (the pointer rb) and its length.   *)
Slice(mine, theirs, r, q) ==
    [at  |-> PeerBegin(mine, theirs, r, q) - mine[r],
     len |-> PeerEnd(mine, theirs, r, q) - PeerBegin(mine, theirs, r, q)]

(* Bug: the receiver leaves the last leaf of the slice out.                 *)
RecvSlice_DropsLast(r, q) ==
    [Slice(lb_gfq_new[r], lb_gfq_old[r], r, q) EXCEPT !.len = @ - 1]

(* Bug: the loop over the senders stops one short.                          *)
Senders_SkipLast(r) ==
    {q \in Peers(lb_gfq_new[r], lb_gfq_old[r], r) :
        q # LastRank(lb_gfq_new[r], lb_gfq_old[r], r)}

(* Bug: a receive is posted for a sender that has nothing to send.          *)
Senders_WithEmpty(r) ==
    IF lb_gfq_new[r][r] = lb_gfq_new[r][r + 1] THEN {}
    ELSE FirstRank(lb_gfq_new[r], lb_gfq_old[r], r) .. LastRank(lb_gfq_new[r], lb_gfq_old[r], r)

RecvSlice(r, q) == Slice(lb_gfq_new[r], lb_gfq_old[r], r, q)
SendSlice(r, q) == Slice(lb_gfq_old[r], lb_gfq_new[r], r, q)
Senders(r)      == Peers(lb_gfq_new[r], lb_gfq_old[r], r)
Receivers(r)    == Peers(lb_gfq_old[r], lb_gfq_new[r], r)

----------------------------------------------------------------------------
(* Data                                                                     *)

(* The payload that belongs to leaf g in array k.                           *)
Payload(k, g) == <<k, g>>
Uninit == <<0, 0>>     \* memory allocated and not yet written

Segment(g, r, k) == [i \in 0 .. NumLocal(g, r) - 1 |-> Payload(k, g[r] + i)]

(* n consecutive leaves of the array a, from offset s.at.                   *)
Extract(a, s) == [i \in 0 .. s.len - 1 |-> a[s.at + i]]

(* The array a with the values b written from offset at.                    *)
Write(a, at, len, b) ==
    [i \in DOMAIN a |-> IF at <= i /\ i < at + len THEN b[i - at] ELSE a[i]]

Message(data, len) == [data |-> data, len |-> len]

----------------------------------------------------------------------------
Init ==
    /\ pc = [r \in Ranks |-> "compute"]
    /\ gfq \in Partitions
    /\ lb_gfq_old = [r \in Ranks |-> gfq]
    /\ lb_gfq_new = [r \in Ranks |-> gfq]
    /\ array = [r \in Ranks |-> NumArrays + 1]
    /\ field = [r \in Ranks |-> [k \in Arrays |-> Segment(gfq, r, k)]]
    /\ dest = [r \in Ranks |-> [i \in 0 .. -1 |-> Uninit]]
    /\ recvs = [r \in Ranks |-> {}]
    /\ chan = [s \in Ranks |-> [d \in Ranks |-> <<>>]]
    /\ partitions = 0

(* partition_mesh, step 1: keep the partition in force.                     *)
RecordOld(r) ==
    /\ pc[r] = "compute"
    /\ partitions < MaxPartitions
    /\ lb_gfq_old' = [lb_gfq_old EXCEPT ![r] = gfq]
    /\ pc' = [pc EXCEPT ![r] = "partition"]
    /\ UNCHANGED <<gfq, lb_gfq_new, array, field, dest, recvs, chan, partitions>>

(* Step 2: p4est_partition, a collective: all the ranks enter it and all    *)
(* leave it with the same new partition.                                    *)
p4est_partition ==
    /\ \A r \in Ranks : pc[r] = "partition"
    /\ gfq' \in Partitions
    /\ pc' = [r \in Ranks |-> "partitioned"]
    /\ partitions' = partitions + 1
    /\ UNCHANGED <<lb_gfq_old, lb_gfq_new, array, field, dest, recvs, chan>>

(* Bug: the copy of the partition stops before its last entry.              *)
RecordNew_DropsTotal(r) ==
    /\ pc[r] = "partitioned"
    /\ lb_gfq_new' = [lb_gfq_new EXCEPT ![r] = [gfq EXCEPT ![NumRanks] = 0]]
    /\ array' = [array EXCEPT ![r] = 1]
    /\ pc' = [pc EXCEPT ![r] = "begin"]
    /\ UNCHANGED <<gfq, lb_gfq_old, field, dest, recvs, chan, partitions>>

(* Steps 3 and 4: keep the new partition; the first array follows.          *)
RecordNew(r) ==
    /\ pc[r] = "partitioned"
    /\ lb_gfq_new' = [lb_gfq_new EXCEPT ![r] = gfq]
    /\ array' = [array EXCEPT ![r] = 1]
    /\ pc' = [pc EXCEPT ![r] = "begin"]
    /\ UNCHANGED <<gfq, lb_gfq_old, field, dest, recvs, chan, partitions>>

(* Bug: the new array keeps the size of the previous one.                   *)
PostReceives_NoResize(r) ==
    /\ pc[r] = "begin"
    /\ dest' = [dest EXCEPT ![r] = [i \in DOMAIN @ |-> Uninit]]
    /\ recvs' = [recvs EXCEPT ![r] = Senders(r) \ {r}]
    /\ pc' = [pc EXCEPT ![r] = "send"]
    /\ UNCHANGED <<gfq, lb_gfq_old, lb_gfq_new, array, field, chan, partitions>>

(* repartition_userdata: resize the new array, then one Irecv per sender.   *)
PostReceives(r) ==
    /\ pc[r] = "begin"
    /\ dest' = [dest EXCEPT ![r] =
                   [i \in 0 .. NumLocal(lb_gfq_new[r], r) - 1 |-> Uninit]]
    /\ recvs' = [recvs EXCEPT ![r] = Senders(r) \ {r}]
    /\ pc' = [pc EXCEPT ![r] = "send"]
    /\ UNCHANGED <<gfq, lb_gfq_old, lb_gfq_new, array, field, chan, partitions>>

(* The sends of rank r, out of the local array old.                         *)
Isends(r, old) ==
    [d \in Ranks |->
        IF d \in Receivers(r) \ {r}
        THEN Append(chan[r][d], Message(Extract(old, SendSlice(r, d)), SendSlice(r, d).len))
        ELSE chan[r][d]]

(* The copy of what stays local.                                            *)
LocalCopy(r, old) ==
    IF r \in Senders(r)
    THEN Write(dest[r], RecvSlice(r, r).at, RecvSlice(r, r).len, Extract(old, SendSlice(r, r)))
    ELSE dest[r]

(* Bug: what stays on the rank is not copied.                               *)
PostSends_NoLocalCopy(r) ==
    /\ pc[r] = "send"
    /\ chan' = [chan EXCEPT ![r] = Isends(r, field[r][array[r]])]
    /\ pc' = [pc EXCEPT ![r] = "wait"]
    /\ UNCHANGED <<gfq, lb_gfq_old, lb_gfq_new, array, field, dest, recvs, partitions>>

(* One Isend per receiver, then the copy of what stays on the rank.         *)
PostSends(r) ==
    /\ pc[r] = "send"
    /\ chan' = [chan EXCEPT ![r] = Isends(r, field[r][array[r]])]
    /\ dest' = [dest EXCEPT ![r] = LocalCopy(r, field[r][array[r]])]
    /\ pc' = [pc EXCEPT ![r] = "wait"]
    /\ UNCHANGED <<gfq, lb_gfq_old, lb_gfq_new, array, field, recvs, partitions>>

(* MPI matches a receive with the oldest message of its sender: messages    *)
(* of one pair of ranks and one tag do not overtake each other.             *)
Match(s, d) ==
    /\ s \in recvs[d]
    /\ chan[s][d] # <<>>
    /\ dest' = [dest EXCEPT ![d] = Write(dest[d], RecvSlice(d, s).at,
                                         Head(chan[s][d]).len, Head(chan[s][d]).data)]
    /\ recvs' = [recvs EXCEPT ![d] = @ \ {s}]
    /\ chan' = [chan EXCEPT ![s][d] = Tail(@)]
    /\ UNCHANGED <<pc, gfq, lb_gfq_old, lb_gfq_new, array, field, partitions>>

(* A send is complete once its message is matched, or at once when the      *)
(* message is short enough for MPI to buffer it.                            *)
SendsComplete(r) ==
    \A d \in Ranks : \A i \in 1 .. Len(chan[r][d]) : chan[r][d][i].len <= EagerLimit

(* Bug: the wait covers the sends only.                                     *)
WaitAll_SendsOnly(r) ==
    /\ pc[r] = "wait"
    /\ SendsComplete(r)
    /\ field' = [field EXCEPT ![r][array[r]] = dest[r]]
    /\ array' = [array EXCEPT ![r] = @ + 1]
    /\ pc' = [pc EXCEPT ![r] = IF array[r] = NumArrays THEN "compute" ELSE "begin"]
    /\ UNCHANGED <<gfq, lb_gfq_old, lb_gfq_new, dest, recvs, chan, partitions>>

(* transfer_fixed_end: wait for every request; the caller takes the new     *)
(* array in place of the old one and turns to the next array.               *)
WaitAll(r) ==
    /\ pc[r] = "wait"
    /\ recvs[r] = {}
    /\ SendsComplete(r)
    /\ field' = [field EXCEPT ![r][array[r]] = dest[r]]
    /\ array' = [array EXCEPT ![r] = @ + 1]
    /\ pc' = [pc EXCEPT ![r] = IF array[r] = NumArrays THEN "compute" ELSE "begin"]
    /\ UNCHANGED <<gfq, lb_gfq_old, lb_gfq_new, dest, recvs, chan, partitions>>

Step(r) == RecordOld(r) \/ RecordNew(r) \/ PostReceives(r) \/ PostSends(r) \/ WaitAll(r)

(* Every repartition the bound allows is over.                              *)
Finished == partitions = MaxPartitions /\ \A r \in Ranks : pc[r] = "compute"

Next ==
    \/ p4est_partition
    \/ \E r \in Ranks : Step(r)
    \/ \E s, d \in Ranks : Match(s, d)
    \/ Finished /\ UNCHANGED vars

(* Someone who can move does: a rank, or MPI with what is posted.  The      *)
(* number of steps is bounded, so no rank need be given more than that.     *)
Fairness ==
    WF_vars(p4est_partition \/ (\E r \in Ranks : Step(r)) \/ (\E s, d \in Ranks : Match(s, d)))

Spec     == Init /\ [][Next]_vars
FairSpec == Spec /\ Fairness

----------------------------------------------------------------------------
(* Properties                                                               *)

(* Every variable keeps its shape: partitions are partitions, the user      *)
(* arrays are local arrays of payloads, requests and channels are between   *)
(* ranks of the communicator (MeshPartitioner, MeshPartitioner_helper).     *)
Payloads == Arrays \X (0 .. NumQuads)

LocalArrays == UNION {[0 .. n - 1 -> Payloads \cup {Uninit}] : n \in 0 .. NumQuads}

Messages == [data : LocalArrays, len : 0 .. NumQuads]

TypeOK ==
    /\ pc \in [Ranks -> {"compute", "partition", "partitioned", "begin", "send", "wait"}]
    /\ gfq \in Partitions
    /\ lb_gfq_old \in [Ranks -> Partitions]
    /\ lb_gfq_new \in [Ranks -> Partitions]
    /\ array \in [Ranks -> 1 .. NumArrays + 1]
    /\ field \in [Ranks -> [Arrays -> LocalArrays]]
    /\ dest \in [Ranks -> LocalArrays]
    /\ recvs \in [Ranks -> SUBSET Ranks]
    /\ chan \in [Ranks -> [Ranks -> Seq(Messages)]]
    /\ partitions \in 0 .. MaxPartitions

InTransfer(r) == pc[r] \in {"begin", "send", "wait"}

(* The array k on rank r is the segment of the global array that the        *)
(* partition r has reached gives it: the new partition for the arrays       *)
(* already transferred, the old one for the others.  A payload that is      *)
(* lost, duplicated, misplaced or taken from another array, by whatever     *)
(* interleaving of the ranks, breaks it (repartition_userdata).             *)
Delivered ==
    \A r \in Ranks, k \in Arrays :
        field[r][k] =
            IF pc[r] = "partitioned" \/ (InTransfer(r) /\ k >= array[r])
            THEN Segment(lb_gfq_old[r], r, k)
            ELSE Segment(gfq, r, k)

(* The message a receive is going to be matched with has the length the     *)
(* receive was posted for: sender and receiver compute the slice they share *)
(* from opposite ends, and a longer message is an MPI truncation error      *)
(* (transfer_fixed_begin, the two loops over peers).                        *)
LengthsAgree ==
    \A s, d \in Ranks :
        (s \in recvs[d] /\ chan[s][d] # <<>>)
            => Head(chan[s][d]).len = RecvSlice(d, s).len

(* Nothing is in flight when p4est_partition starts or ends: a message left *)
(* over would be matched by the first receive of the next repartition.      *)
NothingInFlight ==
    ((\A r \in Ranks : pc[r] = "partition") \/ (\A r \in Ranks : pc[r] = "partitioned"))
        => \A s, d \in Ranks : chan[s][d] = <<>> /\ s \notin recvs[d]

(* A rank never waits with a hole in the array it receives: what has been   *)
(* written and what the pending receives will write make up the whole array *)
(* (the assertions on rb at the end of both loops).                         *)
NoHole ==
    \A r \in Ranks : pc[r] = "wait" =>
        \A i \in DOMAIN dest[r] :
            (dest[r][i] = Uninit) <=>
            \E s \in recvs[r] : /\ RecvSlice(r, s).at <= i
                                /\ i < RecvSlice(r, s).at + RecvSlice(r, s).len

(* Every repartition that starts ends on every rank: no cycle of waits,     *)
(* whether MPI buffers a message or not.                                    *)
RepartitionEnds == \A r \in Ranks : pc[r] = "partition" ~> pc[r] = "compute"

(* The exchange implements the atomic redistribution of PartitionedField.   *)
Field == INSTANCE PartitionedField
            WITH cuts <- gfq, held <- field,
                 todo <- [r \in Ranks |-> IF pc[r] = "partitioned" THEN 1 ELSE array[r]]

FieldSpec == Field!Spec
=============================================================================

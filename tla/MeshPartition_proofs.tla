------------------------ MODULE MeshPartition_proofs ------------------------
(***************************************************************************)
(* Proofs about MeshPartition, for any number of ranks, leaves and user     *)
(* arrays and any eager limit: the exchange delivers every payload, and     *)
(* implements PartitionedField.                                             *)
(***************************************************************************)
EXTENDS MeshPartition, CommonFacts

----------------------------------------------------------------------------
(* The inductive invariant                                                  *)

(* Rank r has left the collective and not finished its transfers.           *)
Active(r) == pc[r] \in {"partitioned", "begin", "send", "wait"}

(* The ranks of one repartition agree on the partitions it goes between.    *)
Agreement ==
    /\ \A r \in Ranks :
          pc[r] = "partition" => lb_gfq_old[r] = gfq /\ partitions < MaxPartitions
    /\ \A r \in Ranks : pc[r] \in {"compute", "partition"} => array[r] = NumArrays + 1
    /\ \A r, q \in Ranks : Active(r) /\ Active(q) => lb_gfq_old[r] = lb_gfq_old[q]
    /\ \A r \in Ranks : InTransfer(r) => lb_gfq_new[r] = gfq /\ array[r] \in Arrays

(* What rank d is to receive from s in this repartition.                    *)
Expected(d)     == Peers(gfq, lb_gfq_old[d], d)
Incoming(d, s)  == Slice(gfq, lb_gfq_old[d], d, s)

(* The number of arrays s has sent, and that d has received from s.         *)
Sent(s) ==
    CASE pc[s] = "partitioned" -> 0
      [] pc[s] \in {"begin", "send"} -> array[s] - 1
      [] pc[s] = "wait" -> array[s]
      [] OTHER -> NumArrays

Received(d, s) ==
    CASE pc[d] = "partitioned" -> 0
      [] pc[d] = "begin" -> array[d] - 1
      [] pc[d] \in {"send", "wait"} -> IF s \in recvs[d] THEN array[d] - 1 ELSE array[d]
      [] OTHER -> NumArrays

(* The message of array k from s to d.                                      *)
Letter(k, d, s) ==
    [data |-> [i \in 0 .. Incoming(d, s).len - 1 |->
                  Payload(k, gfq[d] + Incoming(d, s).at + i)],
     len  |-> Incoming(d, s).len]

(* A channel holds, in order, the messages sent and not yet received.       *)
Letters ==
    \A s, d \in Ranks :
        /\ (Active(d) /\ s # d /\ s \in Expected(d)) =>
              /\ Len(chan[s][d]) = Sent(s) - Received(d, s)
              /\ \A i \in 1 .. Len(chan[s][d]) :
                    chan[s][d][i] = Letter(Received(d, s) + i, d, s)
        /\ (~ Active(d) \/ s = d \/ s \notin Expected(d)) => chan[s][d] = <<>>

(* A rank that is done has received all its peers had to send.              *)
NobodyLate ==
    \A s, d \in Ranks :
        (Active(s) /\ ~ Active(d) /\ s \in Peers(gfq, lb_gfq_old[s], d))
            => pc[s] = "wait" /\ array[s] = NumArrays

(* The array being received: every leaf is either still to come from a      *)
(* sender with a receive posted (or from the rank itself, before its own    *)
(* copy), or already there.                                                 *)
ArrivingAt(d) ==
    /\ pc[d] \in {"send", "wait"} =>
          /\ recvs[d] \subseteq Expected(d) \ {d}
          /\ DOMAIN dest[d] = 0 .. NumLocal(gfq, d) - 1
          /\ \A i \in DOMAIN dest[d] :
                LET s == bsearch_partition(gfq[d] + i, lb_gfq_old[d])
                IN  dest[d][i] = IF s \in recvs[d] \/ (s = d /\ pc[d] = "send")
                                 THEN Uninit
                                 ELSE Payload(array[d], gfq[d] + i)
    /\ pc[d] \notin {"send", "wait"} => recvs[d] = {}

Arriving == \A d \in Ranks : ArrivingAt(d)

IInv == TypeOK /\ Agreement /\ Letters /\ NobodyLate /\ Arriving /\ Delivered

----------------------------------------------------------------------------
(* Facts about partitions and slices                                        *)

(* Every leaf has one owner: bsearch_partition finds the rank whose range   *)
(* holds the index, and no other rank's range does.                         *)
LEMMA OwnerExists ==
  ASSUME NEW g \in Partitions, NEW t \in Nat, t < NumQuads
  PROVE  /\ bsearch_partition(t, g) \in Ranks
         /\ g[bsearch_partition(t, g)] <= t
         /\ t < g[bsearch_partition(t, g) + 1]
<1>1. \E r \in Ranks : g[r] <= t /\ t < g[r + 1]
  <2>1. NumRanks \in Nat /\ NumRanks >= 1 /\ NumQuads \in Nat
    BY PartitionAssumption
  <2>2. g \in [0 .. NumRanks -> 0 .. NumQuads] /\ g[0] = 0 /\ g[NumRanks] = NumQuads
    BY DEF Partitions
  <2>3. QED
    BY <2>1, <2>2, SomeOwner, Zenon DEF Ranks
<1>2. QED
  BY <1>1 DEF bsearch_partition

(* A leaf has one owner. *)
LEMMA OwnerUnique ==
  ASSUME NEW g \in Partitions, NEW t \in Nat, t < NumQuads,
         NEW r \in Ranks, g[r] <= t, t < g[r + 1]
  PROVE  bsearch_partition(t, g) = r
<1> USE PartitionAssumption
<1> DEFINE b == bsearch_partition(t, g)
<1>1. b \in Ranks /\ g[b] <= t /\ t < g[b + 1]
  BY OwnerExists
<1> HIDE DEF b
<1>2. /\ \A i \in 0 .. NumRanks : g[i] \in Int
      /\ \A i, j \in 0 .. NumRanks : i <= j => g[i] <= g[j]
  BY DEF Partitions
<1>3. r \in Int /\ b \in Int /\ r \in 0 .. NumRanks /\ r + 1 \in 0 .. NumRanks
      /\ b \in 0 .. NumRanks /\ b + 1 \in 0 .. NumRanks
  BY <1>1 DEF Ranks
<1>4. ~ (b < r)
  <2>1. SUFFICES ASSUME b < r PROVE FALSE
    OBVIOUS
  <2>2. g[b + 1] <= g[r]
    BY <1>2, <1>3, <2>1
  <2>3. QED
    BY <1>1, <1>2, <1>3, <2>2
<1>5. ~ (r < b)
  <2>1. SUFFICES ASSUME r < b PROVE FALSE
    OBVIOUS
  <2>2. g[r + 1] <= g[b]
    BY <1>2, <1>3, <2>1
  <2>3. QED
    BY <1>1, <1>2, <1>3, <2>2
<1>6. QED
  BY <1>3, <1>4, <1>5 DEF b

(* The loops over first..last visit exactly the ranks whose range meets     *)
(* mine, and hand each the intersection of the two ranges.                  *)
Larger(a, b) == IF a > b THEN a ELSE b

(* Two segments meet exactly in the leaves both own. *)
LEMMA Overlap ==
  ASSUME NEW mine \in Partitions, NEW theirs \in Partitions,
         NEW r \in Ranks, NEW q \in Ranks
  PROVE  LET from == Larger(mine[r], theirs[q])
             to   == Smaller(theirs[q + 1], mine[r + 1])
         IN  /\ q \in Peers(mine, theirs, r) <=> from < to
             /\ q \in Peers(mine, theirs, r) =>
                   Slice(mine, theirs, r, q) = [at |-> from - mine[r], len |-> to - from]
<1> USE PartitionAssumption
<1> DEFINE f == FirstRank(mine, theirs, r)
           l == LastRank(mine, theirs, r)
<1>1. /\ \A i \in 0 .. NumRanks : mine[i] \in 0 .. NumQuads /\ theirs[i] \in 0 .. NumQuads
      /\ \A i, j \in 0 .. NumRanks : i <= j => mine[i] <= mine[j] /\ theirs[i] <= theirs[j]
  BY DEF Partitions
<1>2. /\ r \in Nat /\ r \in 0 .. NumRanks /\ r + 1 \in 0 .. NumRanks
      /\ q \in Nat /\ q \in 0 .. NumRanks /\ q + 1 \in 0 .. NumRanks
  BY DEF Ranks
<1>3. mine[r] <= mine[r + 1] /\ theirs[q] <= theirs[q + 1]
  BY <1>1, <1>2
<1>4. CASE mine[r] = mine[r + 1]
  BY <1>1, <1>2, <1>3, <1>4 DEF Peers, Larger, Smaller
<1>5. CASE mine[r] < mine[r + 1]
  <2>1. f \in Ranks /\ theirs[f] <= mine[r] /\ mine[r] < theirs[f + 1]
    BY <1>1, <1>2, <1>5, OwnerExists DEF FirstRank
  <2>2. l \in Ranks /\ theirs[l] <= mine[r + 1] - 1 /\ mine[r + 1] - 1 < theirs[l + 1]
    BY <1>1, <1>2, <1>5, OwnerExists DEF LastRank
  <2> HIDE DEF f, l
  <2>3. /\ f \in Nat /\ f \in 0 .. NumRanks /\ f + 1 \in 0 .. NumRanks
        /\ l \in Nat /\ l \in 0 .. NumRanks /\ l + 1 \in 0 .. NumRanks
    BY <2>1, <2>2 DEF Ranks
  <2>4. CASE q < f
    <3>1. theirs[q + 1] <= theirs[f]
      BY <1>1, <1>2, <2>3, <2>4
    <3>2. q \notin f .. l
      BY <2>4, <1>2, <2>3
    <3>3. q \notin Peers(mine, theirs, r)
      BY <3>2 DEF Peers, f, l
    <3>4. QED
      BY <1>1, <1>2, <2>1, <2>3, <3>1, <3>3 DEF Larger, Smaller
  <2>5. CASE l < q
    <3>1. theirs[l + 1] <= theirs[q]
      BY <1>1, <1>2, <2>3, <2>5
    <3>2. q \notin f .. l
      BY <2>5, <1>2, <2>3
    <3>3. q \notin Peers(mine, theirs, r)
      BY <3>2 DEF Peers, f, l
    <3>4. QED
      BY <1>1, <1>2, <2>2, <2>3, <3>1, <3>3 DEF Larger, Smaller
  <2>6. CASE f <= q /\ q <= l
    <3>1. PeerBegin(mine, theirs, r, q) = Larger(mine[r], theirs[q])
      <4>1. CASE q = f
        BY <4>1, <1>1, <1>2, <2>1 DEF PeerBegin, Larger, f
      <4>2. CASE q # f
        <5>1. theirs[f + 1] <= theirs[q]
          BY <1>1, <1>2, <2>3, <2>6, <4>2
        <5>2. QED
          BY <5>1, <4>2, <1>1, <1>2, <2>1, <2>3 DEF PeerBegin, Larger, f
      <4>3. QED
        BY <4>1, <4>2
    <3>2. PeerEnd(mine, theirs, r, q) = Smaller(theirs[q + 1], mine[r + 1])
      BY DEF PeerEnd
    <3>3. q \in f .. l
      BY <2>6, <1>2, <2>3
    <3>4. QED
      BY <1>5, <3>1, <3>2, <3>3, <1>1, <1>2 DEF Peers, Slice, f, l
  <2>7. QED
    BY <2>4, <2>5, <2>6, <1>2, <2>3
<1>6. QED
  BY <1>1, <1>2, <1>3, <1>4, <1>5

(* The two ends of a message agree: r counts q among its peers when q       *)
(* counts r, and the slices they compute are the same global range.         *)
THEOREM SlicesAgree ==
  ASSUME NEW mine \in Partitions, NEW theirs \in Partitions,
         NEW r \in Ranks, NEW q \in Ranks
  PROVE  /\ q \in Peers(mine, theirs, r) <=> r \in Peers(theirs, mine, q)
         /\ q \in Peers(mine, theirs, r) =>
              LET here  == Slice(mine, theirs, r, q)
                  there == Slice(theirs, mine, q, r)
              IN  /\ here.len = there.len
                  /\ mine[r] + here.at = theirs[q] + there.at
<1>1. /\ mine[r] \in Int /\ mine[r + 1] \in Int /\ theirs[q] \in Int /\ theirs[q + 1] \in Int
  BY PartitionAssumption DEF Partitions, Ranks
<1>2. /\ Larger(mine[r], theirs[q]) = Larger(theirs[q], mine[r])
      /\ Smaller(theirs[q + 1], mine[r + 1]) = Smaller(mine[r + 1], theirs[q + 1])
      /\ Larger(mine[r], theirs[q]) \in Int
  BY <1>1 DEF Larger, Smaller
<1>3. /\ q \in Peers(mine, theirs, r) <=>
           Larger(mine[r], theirs[q]) < Smaller(theirs[q + 1], mine[r + 1])
      /\ q \in Peers(mine, theirs, r) => Slice(mine, theirs, r, q) =
           [at  |-> Larger(mine[r], theirs[q]) - mine[r],
            len |-> Smaller(theirs[q + 1], mine[r + 1]) - Larger(mine[r], theirs[q])]
  BY Overlap
<1>4. /\ r \in Peers(theirs, mine, q) <=>
           Larger(mine[r], theirs[q]) < Smaller(theirs[q + 1], mine[r + 1])
      /\ r \in Peers(theirs, mine, q) => Slice(theirs, mine, q, r) =
           [at  |-> Larger(mine[r], theirs[q]) - theirs[q],
            len |-> Smaller(theirs[q + 1], mine[r + 1]) - Larger(mine[r], theirs[q])]
  BY Overlap, <1>2
<1>5. QED
  BY <1>1, <1>2, <1>3, <1>4

----------------------------------------------------------------------------
(* Slices of one rank                                                       *)

(* The type of a partition. *)
LEMMA PartitionType ==
  ASSUME NEW g \in Partitions, NEW r \in Ranks
  PROVE  /\ g[r] \in 0 .. NumQuads /\ g[r + 1] \in 0 .. NumQuads
         /\ g[r] <= g[r + 1]
         /\ NumLocal(g, r) \in 0 .. NumQuads
<1>1. r \in 0 .. NumRanks /\ r + 1 \in 0 .. NumRanks /\ r <= r + 1
  BY PartitionAssumption DEF Ranks
<1>2. QED
  BY <1>1, PartitionAssumption DEF Partitions, NumLocal

(* A slice lies within the array it is cut from.                            *)
LEMMA SliceRange ==
  ASSUME NEW mine \in Partitions, NEW theirs \in Partitions,
         NEW r \in Ranks, NEW q \in Peers(mine, theirs, r)
  PROVE  LET s == Slice(mine, theirs, r, q)
         IN  /\ s = [at |-> s.at, len |-> s.len]
             /\ s.at \in Nat /\ s.len \in 1 .. NumQuads
             /\ s.at + s.len <= NumLocal(mine, r)
             /\ q \in Ranks
<1>1. q \in Ranks
  <2>1. /\ mine[r] # mine[r + 1]
        /\ q \in FirstRank(mine, theirs, r) .. LastRank(mine, theirs, r)
    BY DEF Peers
  <2>2. FirstRank(mine, theirs, r) \in Ranks /\ LastRank(mine, theirs, r) \in Ranks
    BY <2>1, PartitionType, OwnerExists, PartitionAssumption DEF FirstRank, LastRank
  <2>3. QED
    BY <2>1, <2>2, PartitionAssumption DEF Ranks
<1>2. /\ mine[r] \in 0 .. NumQuads /\ mine[r + 1] \in 0 .. NumQuads
      /\ theirs[q] \in 0 .. NumQuads /\ theirs[q + 1] \in 0 .. NumQuads
      /\ mine[r] <= mine[r + 1]
  BY <1>1, PartitionType
<1> DEFINE from == Larger(mine[r], theirs[q])
           to   == Smaller(theirs[q + 1], mine[r + 1])
<1>3. from < to /\ Slice(mine, theirs, r, q) = [at |-> from - mine[r], len |-> to - from]
  BY <1>1, Overlap
<1>4. from \in Nat /\ mine[r] <= from /\ to \in 0 .. NumQuads /\ to <= mine[r + 1]
  BY <1>2 DEF Larger, Smaller
<1> HIDE DEF from, to
<1>5. QED
  BY <1>1, <1>2, <1>3, <1>4, PartitionAssumption DEF NumLocal

(* Every leaf of a rank belongs to the slice of exactly one peer, the owner *)
(* of the leaf in the other partition.                                      *)
LEMMA SliceOwner ==
  ASSUME NEW mine \in Partitions, NEW theirs \in Partitions,
         NEW r \in Ranks, NEW i \in 0 .. NumLocal(mine, r) - 1
  PROVE  LET b == bsearch_partition(mine[r] + i, theirs)
         IN  /\ b \in Peers(mine, theirs, r)
             /\ \A q \in Peers(mine, theirs, r) :
                   (b = q) <=> /\ Slice(mine, theirs, r, q).at <= i
                               /\ i < Slice(mine, theirs, r, q).at
                                       + Slice(mine, theirs, r, q).len
<1> DEFINE t == mine[r] + i
           b == bsearch_partition(t, theirs)
<1>1. /\ mine[r] \in 0 .. NumQuads /\ mine[r + 1] \in 0 .. NumQuads
      /\ t \in Nat /\ t < NumQuads /\ i \in Nat /\ t < mine[r + 1]
  BY PartitionType, PartitionAssumption DEF NumLocal
<1>2. b \in Ranks /\ theirs[b] <= t /\ t < theirs[b + 1]
  BY <1>1, OwnerExists
<1> HIDE DEF b
<1>3. \A q \in Ranks : theirs[q] \in 0 .. NumQuads /\ theirs[q + 1] \in 0 .. NumQuads
  BY PartitionType
<1>4. b \in Peers(mine, theirs, r)
  <2>1. Larger(mine[r], theirs[b]) < Smaller(theirs[b + 1], mine[r + 1])
    BY <1>1, <1>2, <1>3 DEF Larger, Smaller
  <2>2. QED
    BY <1>2, <2>1, Overlap
<1>5. ASSUME NEW q \in Peers(mine, theirs, r)
      PROVE  (b = q) <=> /\ Slice(mine, theirs, r, q).at <= i
                         /\ i < Slice(mine, theirs, r, q).at + Slice(mine, theirs, r, q).len
  <2>1. q \in Ranks
    BY SliceRange
  <2>2. Slice(mine, theirs, r, q) =
           [at  |-> Larger(mine[r], theirs[q]) - mine[r],
            len |-> Smaller(theirs[q + 1], mine[r + 1]) - Larger(mine[r], theirs[q])]
    BY <2>1, Overlap
  <2>3. (theirs[q] <= t /\ t < theirs[q + 1]) <=>
           /\ Slice(mine, theirs, r, q).at <= i
           /\ i < Slice(mine, theirs, r, q).at + Slice(mine, theirs, r, q).len
    BY <1>1, <1>3, <2>1, <2>2 DEF Larger, Smaller
  <2>4. (theirs[q] <= t /\ t < theirs[q + 1]) => b = q
    BY <1>1, <2>1, OwnerUnique DEF b
  <2>5. QED
    BY <1>2, <2>3, <2>4
<1>6. QED
  BY <1>4, <1>5 DEF b

(* A segment, a letter and a freshly allocated array have the right type.   *)
LEMMA ArrayType ==
  ASSUME NEW n \in 0 .. NumQuads, NEW f \in [0 .. n - 1 -> Payloads \cup {Uninit}]
  PROVE  f \in LocalArrays
BY DEF LocalArrays

(* A segment of a partition is a segment of the leaves. *)
LEMMA SegmentType ==
  ASSUME NEW g \in Partitions, NEW r \in Ranks, NEW k \in Arrays
  PROVE  Segment(g, r, k) \in LocalArrays
<1>1. /\ NumLocal(g, r) \in 0 .. NumQuads
      /\ \A i \in 0 .. NumLocal(g, r) - 1 : g[r] + i \in 0 .. NumQuads
  BY PartitionType, PartitionAssumption DEF NumLocal
<1>2. Segment(g, r, k) \in [0 .. NumLocal(g, r) - 1 -> Payloads \cup {Uninit}]
  BY <1>1 DEF Segment, Payload, Payloads
<1>3. QED
  BY <1>1, <1>2, ArrayType

----------------------------------------------------------------------------
(* The steps                                                                *)

(* The type of a posted message. *)
LEMMA LetterType ==
  ASSUME TypeOK, NEW k \in Arrays, NEW d \in Ranks, NEW s \in Expected(d)
  PROVE  Letter(k, d, s) \in Messages
<1>1. gfq \in Partitions /\ lb_gfq_old[d] \in Partitions
  BY DEF TypeOK
<1>2. /\ Incoming(d, s).at \in Nat /\ Incoming(d, s).len \in 1 .. NumQuads
      /\ Incoming(d, s).at + Incoming(d, s).len <= NumLocal(gfq, d)
  BY <1>1, SliceRange DEF Expected, Incoming
<1>3. gfq[d] \in 0 .. NumQuads /\ gfq[d + 1] \in 0 .. NumQuads
  BY <1>1, PartitionType
<1>4. \A i \in 0 .. Incoming(d, s).len - 1 :
         gfq[d] + Incoming(d, s).at + i \in 0 .. NumQuads
  BY <1>2, <1>3, PartitionAssumption DEF NumLocal
<1>5. Letter(k, d, s).data \in [0 .. Incoming(d, s).len - 1 -> Payloads \cup {Uninit}]
  BY <1>4 DEF Letter, Payload, Payloads
<1>6. Letter(k, d, s).data \in LocalArrays
  BY <1>2, <1>5, ArrayType, PartitionAssumption
<1>7. QED
  BY <1>2, <1>6, PartitionAssumption DEF Letter, Messages

(* The lengths of messages are counts of leaves. *)
LEMMA CountsType ==
  ASSUME TypeOK, NEW s \in Ranks, NEW d \in Ranks
  PROVE  Sent(s) \in Int /\ Received(d, s) \in Int
<1>1. array[s] \in Int /\ array[d] \in Int /\ NumArrays \in Int
  BY PartitionAssumption DEF TypeOK
<1>2. QED
  BY <1>1 DEF Sent, Received

(* What writing a message into an array changes. *)
LEMMA WriteAt ==
  ASSUME NEW a, NEW at, NEW len, NEW b
  PROVE  /\ DOMAIN Write(a, at, len, b) = DOMAIN a
         /\ \A i \in DOMAIN a :
               Write(a, at, len, b)[i] = IF at <= i /\ i < at + len THEN b[i - at] ELSE a[i]
         /\ Write(a, at, len, b) = [i \in DOMAIN a |-> Write(a, at, len, b)[i]]
BY DEF Write

(* IInv holds initially. *)
LEMMA InitStep == Init => IInv
<1> SUFFICES ASSUME Init PROVE IInv
  OBVIOUS
<1> USE PartitionAssumption
<1>1. TypeOK
  <2>1. \A r \in Ranks, k \in Arrays : Segment(gfq, r, k) \in LocalArrays
    BY SegmentType DEF Init
  <2>2. [i \in 0 .. -1 |-> Uninit] \in LocalArrays
    <3>1. [i \in 0 .. -1 |-> Uninit] \in [0 .. 0 - 1 -> Payloads \cup {Uninit}]
      OBVIOUS
    <3>2. 0 \in 0 .. NumQuads
      OBVIOUS
    <3>3. QED
      BY <3>1, <3>2, Zenon DEF LocalArrays
  <2>3. <<>> \in Seq(Messages)
    OBVIOUS
  <2>4. QED
    BY <2>1, <2>2, <2>3 DEF Init, TypeOK
<1>2. Agreement
  BY DEF Init, Agreement, Active, InTransfer
<1>3. Letters
  BY DEF Init, Letters, Active
<1>4. NobodyLate
  BY DEF Init, NobodyLate, Active
<1>5. Arriving
  BY DEF Init, Arriving, ArrivingAt
<1>6. Delivered
  BY DEF Init, Delivered, InTransfer
<1>7. QED
  BY <1>1, <1>2, <1>3, <1>4, <1>5, <1>6 DEF IInv

(* Recording the old partition keeps IInv. *)
LEMMA RecordOldStep ==
  ASSUME IInv, NEW r \in Ranks, RecordOld(r)
  PROVE  IInv'
<1> USE DEF RecordOld
<1>1. TypeOK'
  BY DEF IInv, TypeOK
<1>2. \A q \in Ranks : Active(q)' = Active(q) /\ InTransfer(q)' = InTransfer(q)
  BY DEF IInv, TypeOK, Active, InTransfer
<1>3. \A q \in Ranks : Active(q) => /\ lb_gfq_old'[q] = lb_gfq_old[q]
                                    /\ Expected(q)' = Expected(q)
                                    /\ \A s \in Ranks : Incoming(q, s)' = Incoming(q, s)
                                    /\ pc'[q] = pc[q]
  BY DEF IInv, TypeOK, Active, Expected, Incoming
<1>4. \A q \in Ranks : Sent(q)' = Sent(q) /\ \A s \in Ranks : Received(q, s)' = Received(q, s)
  BY DEF IInv, TypeOK, Sent, Received
<1>5. Agreement'
  BY <1>2, <1>3 DEF IInv, TypeOK, Agreement
<1>6. Letters'
  BY <1>2, <1>3, <1>4 DEF IInv, Letters, Letter
<1>7. NobodyLate'
  BY <1>2, <1>3 DEF IInv, NobodyLate
<1>8. Arriving'
  BY DEF IInv, TypeOK, Arriving, ArrivingAt, Expected
<1>9. Delivered'
  <2>1. ASSUME NEW q \in Ranks
        PROVE  /\ (pc'[q] = "partitioned") <=> (pc[q] = "partitioned")
               /\ pc[q] = "partitioned" \/ InTransfer(q) => lb_gfq_old'[q] = lb_gfq_old[q]
    BY DEF IInv, TypeOK, InTransfer
  <2>2. QED
    BY <1>2, <2>1 DEF IInv, Delivered
<1>10. QED
  BY <1>1, <1>5, <1>6, <1>7, <1>8, <1>9 DEF IInv

(* So does the collective p4est_partition. *)
LEMMA p4est_partitionStep ==
  ASSUME IInv, p4est_partition
  PROVE  IInv'
<1> USE DEF p4est_partition
<1>1. /\ \A r \in Ranks : ~ Active(r) /\ Active(r)' /\ ~ InTransfer(r)'
      /\ \A r \in Ranks : lb_gfq_old[r] = gfq
  BY DEF IInv, Agreement, Active, InTransfer
<1>2. TypeOK'
  <2>1. partitions' \in 0 .. MaxPartitions
    BY PartitionAssumption DEF IInv, TypeOK, Agreement, Ranks
  <2>2. QED
    BY <2>1 DEF IInv, TypeOK
<1>3. Agreement'
  BY <1>1 DEF Agreement
<1>4. Letters'
  <2>1. \A s, d \in Ranks : chan[s][d] = <<>>
    BY <1>1 DEF IInv, Letters
  <2>2. \A s, d \in Ranks : Sent(s)' = 0 /\ Received(d, s)' = 0
    BY DEF Sent, Received
  <2>3. QED
    BY <2>1, <2>2 DEF Letters
<1>5. NobodyLate'
  BY <1>1 DEF NobodyLate
<1>6. Arriving'
  BY DEF IInv, Arriving, ArrivingAt
<1>7. Delivered'
  BY <1>1 DEF IInv, Delivered, InTransfer
<1>8. QED
  BY <1>2, <1>3, <1>4, <1>5, <1>6, <1>7 DEF IInv

(* So does recording the new partition. *)
LEMMA RecordNewStep ==
  ASSUME IInv, NEW r \in Ranks, RecordNew(r)
  PROVE  IInv'
<1> USE DEF RecordNew
<1>1. TypeOK'
  BY PartitionAssumption DEF IInv, TypeOK
<1>2. \A q \in Ranks : Active(q)' = Active(q)
  BY DEF IInv, TypeOK, Active
<1>3. Agreement'
  BY <1>2, PartitionAssumption DEF IInv, TypeOK, Agreement, InTransfer, Arrays
<1>4. \A q \in Ranks : Sent(q)' = Sent(q) /\ \A s \in Ranks : Received(q, s)' = Received(q, s)
  BY DEF IInv, TypeOK, Sent, Received
<1>5. Letters'
  <2>1. \A d \in Ranks : /\ Expected(d)' = Expected(d)
                         /\ \A s \in Ranks : /\ Incoming(d, s)' = Incoming(d, s)
                                              /\ \A k : Letter(k, d, s)' = Letter(k, d, s)
    BY DEF Expected, Incoming, Letter
  <2>2. chan' = chan
    OBVIOUS
  <2> HIDE DEF RecordNew
  <2>3. QED
    BY <1>2, <1>4, <2>1, <2>2 DEF IInv, Letters
<1>6. NobodyLate'
  BY <1>2 DEF IInv, TypeOK, NobodyLate
<1>7. Arriving'
  BY DEF IInv, TypeOK, Arriving, ArrivingAt, Expected
<1>8. Delivered'
  BY DEF IInv, TypeOK, Delivered, InTransfer, Arrays
<1>9. QED
  BY <1>1, <1>3, <1>5, <1>6, <1>7, <1>8 DEF IInv

(* So does posting the receives: each is of the slice that its sender will post. *)
LEMMA PostReceivesStep ==
  ASSUME IInv, NEW r \in Ranks, PostReceives(r)
  PROVE  IInv'
<1> USE DEF PostReceives
<1>1. /\ gfq \in Partitions /\ lb_gfq_old[r] \in Partitions
      /\ lb_gfq_new[r] = gfq /\ array[r] \in Arrays
  BY DEF IInv, TypeOK, Agreement, InTransfer
<1>2. /\ Senders(r) = Expected(r)
      /\ Expected(r) \subseteq Ranks
  BY <1>1, SliceRange DEF Senders, Expected
<1>3. /\ recvs'[r] = Expected(r) \ {r}
      /\ DOMAIN dest'[r] = 0 .. NumLocal(gfq, r) - 1
      /\ \A i \in DOMAIN dest'[r] : dest'[r][i] = Uninit
      /\ dest'[r] \in LocalArrays
      /\ \A q \in Ranks \ {r} : dest'[q] = dest[q] /\ recvs'[q] = recvs[q] /\ pc'[q] = pc[q]
      /\ pc'[r] = "send"
  BY <1>1, <1>2, PartitionType, ArrayType DEF IInv, TypeOK
<1>4. TypeOK'
  BY <1>2, <1>3 DEF IInv, TypeOK
<1>5. \A q \in Ranks : Active(q)' = Active(q) /\ InTransfer(q)' = InTransfer(q)
  BY <1>3 DEF Active, InTransfer
<1>6. Agreement'
  BY <1>3, <1>5 DEF IInv, Agreement
<1>7. /\ \A q \in Ranks : Sent(q)' = Sent(q)
      /\ \A q, s \in Ranks : s # q /\ s \in Expected(q) => Received(q, s)' = Received(q, s)
  BY <1>3 DEF Sent, Received
<1>8. Letters'
  BY <1>5, <1>7 DEF IInv, Letters, Letter, Expected, Incoming
<1>9. NobodyLate'
  BY <1>3, <1>5 DEF IInv, NobodyLate, Active
<1>10. Arriving'
  <2>1. ASSUME NEW i \in 0 .. NumLocal(gfq, r) - 1
        PROVE  LET s == bsearch_partition(gfq[r] + i, lb_gfq_old[r])
               IN  s \in recvs'[r] \/ s = r
    BY <1>1, <1>3, SliceOwner DEF Expected
  <2>2. ASSUME NEW q \in Ranks \ {r}, pc[q] \in {"send", "wait"}
        PROVE  pc'[q] = pc[q] /\ dest'[q] = dest[q] /\ recvs'[q] = recvs[q]
    BY <1>3
  <2>3. Expected(r)' = Expected(r) /\ NumLocal(gfq, r)' = NumLocal(gfq, r)
    BY DEF Expected
  <2>4. \A i \in DOMAIN dest'[r] :
           dest'[r][i] = Uninit /\ i \in 0 .. NumLocal(gfq, r) - 1
    BY <1>3
  <2>5. ASSUME NEW d \in Ranks PROVE ArrivingAt(d)'
    <3>1. CASE d = r
      BY <1>3, <2>1, <2>3, <2>4, <3>1 DEF ArrivingAt
    <3>2. CASE d # r
      BY <1>3, <2>2, <3>2 DEF IInv, Arriving, ArrivingAt, Expected
    <3>3. QED
      BY <3>1, <3>2
  <2>6. QED
    BY <2>5 DEF Arriving
<1>11. Delivered'
  BY <1>3, <1>5 DEF IInv, Delivered
<1>12. QED
  BY <1>4, <1>6, <1>8, <1>9, <1>10, <1>11 DEF IInv

(* What s sends to d is the letter d expects.                               *)
LEMMA SendsLetter ==
  ASSUME IInv, NEW s \in Ranks, pc[s] = "send", NEW d \in Ranks, d # s
  PROVE  /\ d \in Receivers(s) =>
               /\ Active(d) /\ s \in Expected(d)
               /\ Message(Extract(field[s][array[s]], SendSlice(s, d)), SendSlice(s, d).len)
                    = Letter(array[s], d, s)
         /\ (Active(d) /\ s \in Expected(d)) => d \in Receivers(s)
<1> DEFINE old == lb_gfq_old[s]
<1>1. /\ gfq \in Partitions /\ old \in Partitions /\ lb_gfq_new[s] = gfq
      /\ array[s] \in Arrays /\ Active(s)
      /\ field[s][array[s]] = Segment(old, s, array[s])
  BY DEF IInv, TypeOK, Agreement, InTransfer, Active, Delivered
<1>2. Active(d) => lb_gfq_old[d] = old
  BY <1>1 DEF IInv, Agreement
<1>3. /\ (d \in Receivers(s)) <=> (s \in Peers(gfq, old, d))
      /\ d \in Receivers(s) =>
            /\ SendSlice(s, d).len = Slice(gfq, old, d, s).len
            /\ gfq[d] + Slice(gfq, old, d, s).at = old[s] + SendSlice(s, d).at
  BY <1>1, SlicesAgree DEF Receivers, SendSlice
<1>4. d \in Receivers(s) => Active(d)
  BY <1>1, <1>3 DEF IInv, NobodyLate
<1>5. ASSUME d \in Receivers(s)
      PROVE  Message(Extract(field[s][array[s]], SendSlice(s, d)), SendSlice(s, d).len)
                    = Letter(array[s], d, s)
  <2> DEFINE snd == SendSlice(s, d)
  <2>1. /\ snd.at \in Nat /\ snd.len \in Nat /\ snd.at + snd.len <= NumLocal(old, s)
    BY <1>1, <1>5, SliceRange, PartitionAssumption DEF Receivers, SendSlice
  <2>2. Incoming(d, s).len = snd.len /\ gfq[d] + Incoming(d, s).at = old[s] + snd.at
    BY <1>2, <1>3, <1>4, <1>5 DEF Incoming
  <2>3. old[s] \in Int
    BY <1>1, PartitionType
  <2> HIDE DEF snd, old
  <2>4. ASSUME NEW i \in 0 .. snd.len - 1
        PROVE  field[s][array[s]][snd.at + i]
                 = Payload(array[s], gfq[d] + Incoming(d, s).at + i)
    <3>1. NumLocal(old, s) \in Int
      BY <1>1, PartitionType
    <3>2. snd.at + i \in 0 .. NumLocal(old, s) - 1
      BY <2>1, <3>1
    <3>3. field[s][array[s]][snd.at + i] = Payload(array[s], old[s] + (snd.at + i))
      BY <1>1, <3>2 DEF Segment
    <3>4. old[s] + (snd.at + i) = (gfq[d] + Incoming(d, s).at) + i
      BY <2>1, <2>2, <2>3
    <3>5. QED
      BY <3>3, <3>4
  <2>5. Extract(field[s][array[s]], snd) = Letter(array[s], d, s).data
    BY <2>2, <2>4 DEF Extract, Letter
  <2>6. QED
    BY <2>2, <2>5 DEF Message, Letter, snd
<1>6. QED
  BY <1>2, <1>3, <1>4, <1>5 DEF Expected

(* So does posting the sends: each meets a receive of its length, posted or to come. *)
LEMMA PostSendsStep ==
  ASSUME IInv, NEW r \in Ranks, PostSends(r)
  PROVE  IInv'
<1>0. /\ pc[r] = "send"
      /\ UNCHANGED <<gfq, lb_gfq_old, lb_gfq_new, array, field, recvs, partitions>>
  BY DEF PostSends
<1> USE <1>0
<1>1. /\ gfq \in Partitions /\ lb_gfq_old[r] \in Partitions
      /\ lb_gfq_new[r] = gfq /\ array[r] \in Arrays /\ Active(r)
      /\ field[r][array[r]] = Segment(lb_gfq_old[r], r, array[r])
      /\ ArrivingAt(r)
  BY DEF IInv, TypeOK, Agreement, InTransfer, Active, Delivered, Arriving
<1>2. /\ pc'[r] = "wait"
      /\ \A q \in Ranks \ {r} : pc'[q] = pc[q] /\ dest'[q] = dest[q] /\ chan'[q] = chan[q]
      /\ dest'[r] = LocalCopy(r, field[r][array[r]])
      /\ \A d \in Ranks : chan'[r][d] = IF d \in Receivers(r) \ {r}
                          THEN Append(chan[r][d], Letter(array[r], d, r))
                          ELSE chan[r][d]
  <2>1. /\ pc' = [pc EXCEPT ![r] = "wait"]
        /\ dest' = [dest EXCEPT ![r] = LocalCopy(r, field[r][array[r]])]
        /\ chan' = [chan EXCEPT ![r] = Isends(r, field[r][array[r]])]
    BY DEF PostSends
  <2>2. pc \in [Ranks -> {"compute", "partition", "partitioned", "begin", "send", "wait"}]
        /\ dest \in [Ranks -> LocalArrays] /\ chan \in [Ranks -> [Ranks -> Seq(Messages)]]
    BY DEF IInv, TypeOK
  <2>3. ASSUME NEW d \in Ranks
        PROVE  chan'[r][d] = IF d \in Receivers(r) \ {r}
                             THEN Append(chan[r][d], Letter(array[r], d, r))
                             ELSE chan[r][d]
    <3>1. chan'[r][d] = Isends(r, field[r][array[r]])[d]
      BY <2>1, <2>2
    <3>2. QED
      BY <3>1, SendsLetter DEF Isends
  <2>4. QED
    BY <2>1, <2>2, <2>3
<1>3. \A q \in Ranks : Active(q)' = Active(q) /\ InTransfer(q)' = InTransfer(q)
  BY <1>2 DEF Active, InTransfer
<1>4. /\ DOMAIN dest'[r] = 0 .. NumLocal(gfq, r) - 1
      /\ \A i \in DOMAIN dest'[r] :
            dest'[r][i] = IF bsearch_partition(gfq[r] + i, lb_gfq_old[r]) \in recvs[r]
                          THEN Uninit
                          ELSE Payload(array[r], gfq[r] + i)
  <2> DEFINE own == RecvSlice(r, r)
  <2>1. /\ Senders(r) = Expected(r)
        /\ own = Slice(gfq, lb_gfq_old[r], r, r)
        /\ SendSlice(r, r) = Slice(lb_gfq_old[r], gfq, r, r)
    BY <1>1 DEF Senders, Expected, RecvSlice, SendSlice
  <2>2. DOMAIN dest[r] = 0 .. NumLocal(gfq, r) - 1
    BY <1>1 DEF ArrivingAt
  <2>3. DOMAIN dest'[r] = DOMAIN dest[r]
    BY <1>2, WriteAt DEF LocalCopy
  <2>4. ASSUME NEW i \in 0 .. NumLocal(gfq, r) - 1
        PROVE  dest'[r][i] = IF bsearch_partition(gfq[r] + i, lb_gfq_old[r]) \in recvs[r]
                             THEN Uninit
                             ELSE Payload(array[r], gfq[r] + i)
    <3> DEFINE b == bsearch_partition(gfq[r] + i, lb_gfq_old[r])
    <3>1. /\ b \in Expected(r)
          /\ r \in Expected(r) => ((b = r) <=> (own.at <= i /\ i < own.at + own.len))
      BY <1>1, <2>1, SliceOwner DEF Expected
    <3>2. dest[r][i] = IF b \in recvs[r] \/ b = r THEN Uninit ELSE Payload(array[r], gfq[r] + i)
      BY <1>1, <2>2 DEF ArrivingAt
    <3>3. r \notin recvs[r]
      BY <1>1 DEF ArrivingAt
    <3> HIDE DEF b
    <3>4. CASE b # r
      <4>1. r \in Expected(r) => ~ (own.at <= i /\ i < own.at + own.len)
        BY <3>1, <3>4
      <4>2. dest'[r][i] = dest[r][i]
        <5>1. CASE r \in Senders(r)
          <6> DEFINE ext == Extract(field[r][array[r]], SendSlice(r, r))
          <6>1. dest'[r] = Write(dest[r], own.at, own.len, ext)
            BY <1>2, <5>1 DEF LocalCopy
          <6>2. i \in DOMAIN dest[r]
            BY <2>2
          <6> HIDE DEF ext, own
          <6>3. QED
            BY <2>1, <4>1, <5>1, <6>1, <6>2, WriteAt
        <5>2. CASE r \notin Senders(r)
          BY <1>2, <5>2 DEF LocalCopy
        <5>3. QED
          BY <5>1, <5>2
      <4>3. QED
        BY <3>2, <3>4, <4>2 DEF b
    <3>5. CASE b = r
      <4>1. /\ r \in Expected(r) /\ own.at <= i /\ i < own.at + own.len
        BY <3>1, <3>5
      <4>2. dest'[r][i] = Extract(field[r][array[r]], SendSlice(r, r))[i - own.at]
        <5> DEFINE ext == Extract(field[r][array[r]], SendSlice(r, r))
        <5>1. dest'[r] = Write(dest[r], own.at, own.len, ext)
          BY <1>2, <2>1, <4>1 DEF LocalCopy
        <5>2. i \in DOMAIN dest[r]
          BY <2>2
        <5> HIDE DEF ext, own
        <5>3. dest'[r][i] = ext[i - own.at]
          BY <4>1, <5>1, <5>2, WriteAt
        <5>4. QED
          BY <5>3 DEF ext
      <4>3. /\ own.at \in Nat /\ own.len \in Nat /\ own.len = SendSlice(r, r).len
            /\ gfq[r] + own.at = lb_gfq_old[r][r] + SendSlice(r, r).at
        BY <1>1, <2>1, <4>1, SlicesAgree, SliceRange, PartitionAssumption DEF Expected
      <4>4. /\ SendSlice(r, r).at \in Nat
            /\ SendSlice(r, r).at + SendSlice(r, r).len <= NumLocal(lb_gfq_old[r], r)
        BY <1>1, <2>1, <4>1, SlicesAgree, SliceRange DEF Expected
      <4>5. /\ i - own.at \in 0 .. SendSlice(r, r).len - 1
            /\ SendSlice(r, r).at + (i - own.at) \in 0 .. NumLocal(lb_gfq_old[r], r) - 1
            /\ lb_gfq_old[r][r] + (SendSlice(r, r).at + (i - own.at)) = gfq[r] + i
        <5>1. /\ NumLocal(lb_gfq_old[r], r) \in Int /\ NumLocal(gfq, r) \in Int
              /\ lb_gfq_old[r][r] \in Int /\ gfq[r] \in Int
          BY <1>1, PartitionType
        <5> HIDE DEF own
        <5>2. QED
          BY <4>1, <4>3, <4>4, <5>1
      <4>6. dest'[r][i] = Payload(array[r], lb_gfq_old[r][r] + (SendSlice(r, r).at + (i - own.at)))
        BY <1>1, <4>2, <4>5 DEF Extract, Segment
      <4>7. QED
        BY <3>3, <3>5, <4>5, <4>6 DEF b
    <3>6. QED
      BY <3>4, <3>5
  <2>5. QED
    BY <2>2, <2>3, <2>4
<1>5. TypeOK'
  <2>1. dest'[r] \in LocalArrays
    <3>1. NumLocal(gfq, r) \in 0 .. NumQuads
      BY <1>1, PartitionType
    <3>2. \A i \in 0 .. NumLocal(gfq, r) - 1 : gfq[r] + i \in 0 .. NumQuads
      BY <1>1, <3>1, PartitionType, PartitionAssumption DEF NumLocal
    <3>3. ASSUME NEW i \in DOMAIN dest'[r] PROVE dest'[r][i] \in Payloads \cup {Uninit}
      <4>1. Payload(array[r], gfq[r] + i) \in Payloads
        BY <1>1, <1>4, <3>2 DEF Payload, Payloads
      <4>2. QED
        BY <1>4, <4>1
    <3>4. dest'[r] = [i \in DOMAIN dest'[r] |-> dest'[r][i]]
      <4>1. dest[r] = [i \in DOMAIN dest[r] |-> dest[r][i]]
        BY DEF IInv, TypeOK, LocalArrays
      <4>2. QED
        BY <1>2, <4>1, WriteAt DEF LocalCopy
    <3>5. dest'[r] \in [0 .. NumLocal(gfq, r) - 1 -> Payloads \cup {Uninit}]
      BY <1>4, <3>3, <3>4
    <3>6. QED
      BY <3>1, <3>5, ArrayType
  <2>2. chan' \in [Ranks -> [Ranks -> Seq(Messages)]]
    <3>1. ASSUME NEW d \in Ranks PROVE chan'[r][d] \in Seq(Messages)
      <4>1. d \in Receivers(r) \ {r} => Letter(array[r], d, r) \in Messages
        BY <1>1, SendsLetter, LetterType DEF IInv
      <4>2. chan[r][d] \in Seq(Messages)
        BY DEF IInv, TypeOK
      <4>3. CASE d \in Receivers(r) \ {r}
        <5>1. chan'[r][d] = Append(chan[r][d], Letter(array[r], d, r))
          BY <1>2, <4>3
        <5>2. QED
          BY <4>1, <4>2, <4>3, <5>1
      <4>4. CASE d \notin Receivers(r) \ {r}
        BY <1>2, <4>2, <4>4
      <4>5. QED
        BY <4>3, <4>4
    <3>2. chan' = [chan EXCEPT ![r] = Isends(r, field[r][array[r]])]
      BY DEF PostSends
    <3>3. chan'[r] \in [Ranks -> Seq(Messages)]
      BY <3>1, <3>2 DEF IInv, TypeOK, Isends
    <3>4. QED
      BY <3>2, <3>3 DEF IInv, TypeOK
  <2>3. /\ dest' \in [Ranks -> LocalArrays]
        /\ pc' \in [Ranks -> {"compute", "partition", "partitioned", "begin", "send", "wait"}]
    BY <2>1 DEF IInv, TypeOK, PostSends
  <2>4. QED
    BY <2>2, <2>3 DEF IInv, TypeOK
<1>6. Agreement'
  BY <1>2, <1>3 DEF IInv, Agreement
<1>7. Letters'
  <2>1. /\ \A d \in Ranks : /\ Expected(d)' = Expected(d)
                             /\ \A s \in Ranks : /\ Incoming(d, s)' = Incoming(d, s)
                                                  /\ \A k \in Int : Letter(k, d, s)' = Letter(k, d, s)
    BY DEF Expected, Incoming, Letter
  <2>2. /\ \A q \in Ranks \ {r} : Sent(q)' = Sent(q)
        /\ Sent(r) = array[r] - 1 /\ Sent(r)' = array[r]
    BY <1>2 DEF Sent
  <2>3. \A d, s \in Ranks : Received(d, s)' = Received(d, s)
    BY <1>2 DEF Received
  <2>4. \A d, s \in Ranks : Received(d, s) \in Int
    BY CountsType DEF IInv
  <2>5. ASSUME NEW s \in Ranks, NEW d \in Ranks, Active(d), s # d, s \in Expected(d)
        PROVE  /\ Len(chan'[s][d]) = Sent(s)' - Received(d, s)
               /\ \A i \in 1 .. Len(chan'[s][d]) :
                     chan'[s][d][i] = Letter(Received(d, s) + i, d, s)
    <3>1. /\ Len(chan[s][d]) = Sent(s) - Received(d, s)
          /\ \A i \in 1 .. Len(chan[s][d]) : chan[s][d][i] = Letter(Received(d, s) + i, d, s)
      BY <2>5 DEF IInv, Letters
    <3>2. CASE s # r
      BY <1>2, <2>2, <3>1, <3>2
    <3>3. CASE s = r
      <4>1. d \in Receivers(r) \ {r}
        BY <2>5, <3>3, SendsLetter
      <4>2. chan'[r][d] = Append(chan[r][d], Letter(array[r], d, r))
        BY <1>2, <4>1
      <4>3. chan[r][d] \in Seq(Messages)
        BY DEF IInv, TypeOK
      <4>4. Letter(array[r], d, r) \in Messages
        BY <1>1, <2>5, <3>3, LetterType DEF IInv
      <4>5. array[r] \in Int
        BY <1>1 DEF Arrays
      <4>6. /\ Len(chan'[r][d]) = Len(chan[r][d]) + 1
            /\ \A i \in 1 .. Len(chan[r][d]) : chan'[r][d][i] = chan[r][d][i]
            /\ chan'[r][d][Len(chan[r][d]) + 1] = Letter(array[r], d, r)
            /\ Len(chan[r][d]) \in Nat
        BY <4>2, <4>3, <4>4
      <4>7. Len(chan'[r][d]) = array[r] - Received(d, r)
        <5>1. Len(chan[r][d]) = (array[r] - 1) - Received(d, r)
          BY <2>2, <3>1, <3>3
        <5>2. Received(d, r) \in Int
          BY <2>4
        <5>3. Len(chan'[r][d]) = Len(chan[r][d]) + 1
          BY <4>6
        <5>4. QED
          BY <4>5, <5>1, <5>2, <5>3
      <4>8. ASSUME NEW i \in 1 .. Len(chan'[r][d])
            PROVE  chan'[r][d][i] = Letter(Received(d, r) + i, d, r)
        <5>1. CASE i = Len(chan[r][d]) + 1
          <6>1. Received(d, r) + i = array[r]
            <7>1. Received(d, r) \in Int
              BY <2>4
            <7>2. QED
              BY <4>5, <4>6, <4>7, <5>1, <7>1
          <6>2. chan'[r][d][i] = Letter(array[r], d, r)
            BY <4>6, <5>1
          <6>3. QED
            BY <6>1, <6>2, Zenon
        <5>2. CASE i # Len(chan[r][d]) + 1
          BY <3>1, <3>3, <4>6, <5>2
        <5>3. QED
          BY <5>1, <5>2
      <4>9. QED
        BY <2>2, <3>3, <4>7, <4>8
    <3>4. QED
      BY <3>2, <3>3
  <2>6. ASSUME NEW s \in Ranks, NEW d \in Ranks, ~ Active(d) \/ s = d \/ s \notin Expected(d)
        PROVE  chan'[s][d] = <<>>
    <3>1. chan[s][d] = <<>>
      BY <2>6 DEF IInv, Letters
    <3>2. s = r => d \notin Receivers(r) \ {r}
      BY <2>6, SendsLetter
    <3>3. QED
      BY <1>2, <3>1, <3>2
  <2>7. ASSUME NEW s \in Ranks, NEW d \in Ranks, NEW i \in 1 .. Len(chan'[s][d])
        PROVE  Received(d, s) + i \in Int
    BY <2>4
  <2>8. QED
    BY <1>3, <2>1, <2>3, <2>5, <2>6, <2>7 DEF Letters
<1>8. NobodyLate'
  BY <1>2, <1>3 DEF IInv, NobodyLate
<1>9. Arriving'
  <2>1. ASSUME NEW d \in Ranks PROVE ArrivingAt(d)'
    <3>1. CASE d = r
      BY <1>1, <1>2, <1>4, <3>1 DEF ArrivingAt, Expected
    <3>2. CASE d # r
      BY <1>2, <3>2 DEF IInv, Arriving, ArrivingAt, Expected
    <3>3. QED
      BY <3>1, <3>2
  <2>2. QED
    BY <2>1 DEF Arriving
<1>10. Delivered'
  BY <1>2, <1>3 DEF IInv, Delivered
<1>11. QED
  BY <1>5, <1>6, <1>7, <1>8, <1>9, <1>10 DEF IInv

(* So does matching the oldest message of a pair with its oldest receive. *)
LEMMA MatchStep ==
  ASSUME IInv, NEW s \in Ranks, NEW d \in Ranks, Match(s, d)
  PROVE  IInv'
<1> DEFINE msg == Head(chan[s][d])
<1>0. /\ s \in recvs[d] /\ chan[s][d] # <<>>
      /\ UNCHANGED <<pc, gfq, lb_gfq_old, lb_gfq_new, array, field, partitions>>
  BY DEF Match
<1> USE <1>0
<1>1. /\ gfq \in Partitions /\ lb_gfq_old[d] \in Partitions
      /\ ArrivingAt(d) /\ pc[d] \in {"send", "wait"}
      /\ s \in Expected(d) /\ s # d /\ Active(d)
      /\ lb_gfq_new[d] = gfq /\ array[d] \in Arrays
  BY DEF IInv, TypeOK, Arriving, ArrivingAt, Agreement, InTransfer, Active
<1>2. /\ Received(d, s) = array[d] - 1
      /\ Len(chan[s][d]) = Sent(s) - Received(d, s)
      /\ \A i \in 1 .. Len(chan[s][d]) : chan[s][d][i] = Letter(Received(d, s) + i, d, s)
      /\ RecvSlice(d, s) = Incoming(d, s)
  BY <1>1 DEF IInv, Letters, Received, RecvSlice, Incoming
<1>3. /\ chan[s][d] \in Seq(Messages) /\ Len(chan[s][d]) \in Nat \ {0}
      /\ Len(Tail(chan[s][d])) = Len(chan[s][d]) - 1
      /\ \A i \in 1 .. Len(Tail(chan[s][d])) : Tail(chan[s][d])[i] = chan[s][d][i + 1]
      /\ Tail(chan[s][d]) \in Seq(Messages)
      /\ msg = chan[s][d][1]
  <2>1. chan[s][d] \in Seq(Messages)
    BY DEF IInv, TypeOK
  <2>2. QED
    BY <2>1
<1>4. msg = Letter(array[d], d, s)
  <2>1. array[d] \in Int /\ (array[d] - 1) + 1 = array[d]
    BY <1>1 DEF Arrays
  <2>2. chan[s][d][1] = Letter(Received(d, s) + 1, d, s)
    BY <1>2, <1>3
  <2>3. QED
    BY <1>2, <1>3, <2>1, <2>2
<1>5. /\ dest' = [dest EXCEPT ![d] = Write(dest[d], Incoming(d, s).at, msg.len, msg.data)]
      /\ recvs' = [recvs EXCEPT ![d] = @ \ {s}]
      /\ chan' = [chan EXCEPT ![s] = [chan[s] EXCEPT ![d] = Tail(chan[s][d])]]
  BY <1>2 DEF Match, IInv, TypeOK
<1> HIDE DEF msg
<1>6. /\ \A q \in Ranks \ {d} : dest'[q] = dest[q] /\ recvs'[q] = recvs[q]
      /\ dest'[d] = Write(dest[d], Incoming(d, s).at, msg.len, msg.data)
      /\ recvs'[d] = recvs[d] \ {s}
      /\ chan'[s][d] = Tail(chan[s][d])
      /\ \A q, e \in Ranks : <<q, e>> # <<s, d>> => chan'[q][e] = chan[q][e]
  BY <1>5 DEF IInv, TypeOK
<1>7. /\ DOMAIN dest[d] = 0 .. NumLocal(gfq, d) - 1
      /\ DOMAIN dest'[d] = DOMAIN dest[d]
      /\ \A i \in DOMAIN dest[d] :
            dest'[d][i] = IF bsearch_partition(gfq[d] + i, lb_gfq_old[d]) = s
                          THEN Payload(array[d], gfq[d] + i)
                          ELSE dest[d][i]
  <2>1. DOMAIN dest[d] = 0 .. NumLocal(gfq, d) - 1
    BY <1>1 DEF ArrivingAt
  <2>2. DOMAIN dest'[d] = DOMAIN dest[d]
    BY <1>6, WriteAt
  <2>3. /\ msg.len = Incoming(d, s).len
        /\ msg.data = [i \in 0 .. Incoming(d, s).len - 1 |->
                          Payload(array[d], gfq[d] + Incoming(d, s).at + i)]
        /\ Incoming(d, s).at \in Nat /\ Incoming(d, s).len \in Nat
        /\ gfq[d] \in Int
    <3>1. gfq[d] \in Int
      BY <1>1, PartitionType DEF Ranks
    <3>2. Incoming(d, s).at \in Nat /\ Incoming(d, s).len \in Nat
      BY <1>1, SliceRange DEF Incoming, Expected
    <3>3. msg.len = Incoming(d, s).len
      BY <1>4 DEF Letter
    <3>4. msg.data = [i \in 0 .. Incoming(d, s).len - 1 |->
                         Payload(array[d], gfq[d] + Incoming(d, s).at + i)]
      BY <1>4 DEF Letter
    <3>5. QED
      BY <3>1, <3>2, <3>3, <3>4
  <2>4. ASSUME NEW i \in DOMAIN dest[d]
        PROVE  dest'[d][i] = IF bsearch_partition(gfq[d] + i, lb_gfq_old[d]) = s
                             THEN Payload(array[d], gfq[d] + i)
                             ELSE dest[d][i]
    <3> DEFINE b == bsearch_partition(gfq[d] + i, lb_gfq_old[d])
               inc == Incoming(d, s)
    <3>1. (b = s) <=> (inc.at <= i /\ i < inc.at + inc.len)
      BY <1>1, <2>1, SliceOwner DEF Expected, Incoming
    <3>2. dest'[d][i] = IF inc.at <= i /\ i < inc.at + inc.len
                        THEN msg.data[i - inc.at] ELSE dest[d][i]
      BY <1>6, <2>3, WriteAt
    <3> HIDE DEF b, inc
    <3>3. CASE b = s
      <4>1. inc.at \in Nat /\ inc.len \in Nat /\ i \in Int
        BY <2>1, <2>3 DEF inc
      <4>2. /\ i - inc.at \in 0 .. inc.len - 1
            /\ gfq[d] + inc.at + (i - inc.at) = gfq[d] + i
        BY <2>3, <3>1, <3>3, <4>1
      <4>3. msg.data[i - inc.at] = Payload(array[d], gfq[d] + inc.at + (i - inc.at))
        BY <2>3, <4>2 DEF inc
      <4>4. QED
        BY <3>1, <3>2, <3>3, <4>2, <4>3 DEF b
    <3>4. CASE b # s
      BY <3>1, <3>2, <3>4 DEF b
    <3>5. QED
      BY <3>3, <3>4
  <2>5. QED
    BY <2>1, <2>2, <2>4
<1>8. TypeOK'
  <2>1. dest'[d] \in LocalArrays
    <3>1. NumLocal(gfq, d) \in 0 .. NumQuads
      BY <1>1, PartitionType
    <3>2. \A i \in 0 .. NumLocal(gfq, d) - 1 : gfq[d] + i \in 0 .. NumQuads
      <4> DEFINE a == gfq[d]
                 b == gfq[d + 1]
      <4>1. a \in 0 .. NumQuads /\ b \in 0 .. NumQuads /\ NumLocal(gfq, d) = b - a
        BY <1>1, PartitionType DEF NumLocal
      <4> HIDE DEF a, b
      <4>2. \A i \in 0 .. (b - a) - 1 : a + i \in 0 .. NumQuads
        BY <4>1, PartitionAssumption
      <4>3. QED
        BY <4>1, <4>2 DEF a
    <3>3. \A i \in DOMAIN dest[d] : dest[d][i] \in Payloads \cup {Uninit}
      <4>1. dest[d] \in LocalArrays
        BY DEF IInv, TypeOK
      <4>2. PICK n \in 0 .. NumQuads : dest[d] \in [0 .. n - 1 -> Payloads \cup {Uninit}]
        BY <4>1 DEF LocalArrays
      <4>3. QED
        BY <4>2
    <3>4. ASSUME NEW i \in DOMAIN dest'[d] PROVE dest'[d][i] \in Payloads \cup {Uninit}
      <4>1. Payload(array[d], gfq[d] + i) \in Payloads
        BY <1>1, <1>7, <3>2 DEF Payload, Payloads
      <4>2. QED
        BY <1>7, <3>3, <4>1
    <3>5. dest'[d] = [i \in DOMAIN dest'[d] |-> dest'[d][i]]
      BY <1>6, WriteAt
    <3>6. dest'[d] \in [0 .. NumLocal(gfq, d) - 1 -> Payloads \cup {Uninit}]
      BY <1>7, <3>4, <3>5
    <3>7. QED
      BY <3>1, <3>6, ArrayType
  <2>2. /\ dest' \in [Ranks -> LocalArrays]
        /\ recvs' \in [Ranks -> SUBSET Ranks]
    BY <1>5, <1>6, <2>1 DEF IInv, TypeOK
  <2>3. chan' \in [Ranks -> [Ranks -> Seq(Messages)]]
    BY <1>3, <1>5 DEF IInv, TypeOK
  <2>4. QED
    BY <2>2, <2>3 DEF IInv, TypeOK
<1>9. \A q \in Ranks : Active(q)' = Active(q) /\ InTransfer(q)' = InTransfer(q)
  BY DEF Active, InTransfer
<1>10. Agreement'
  BY <1>9 DEF IInv, Agreement
<1>11. Letters'
  <2>1. \A e \in Ranks : /\ Expected(e)' = Expected(e)
                         /\ Sent(e)' = Sent(e)
                         /\ \A q \in Ranks : /\ Incoming(e, q)' = Incoming(e, q)
                                              /\ \A k \in Int : Letter(k, e, q)' = Letter(k, e, q)
    BY DEF Expected, Incoming, Letter, Sent
  <2>2. \A e, q \in Ranks : <<q, e>> # <<s, d>> => Received(e, q)' = Received(e, q)
    BY <1>6 DEF Received
  <2>3. Received(d, s)' = array[d]
    BY <1>1, <1>6 DEF Received
  <2>4. \A e, q \in Ranks : Received(e, q) \in Int /\ Sent(q) \in Int
    BY CountsType DEF IInv
  <2>5. ASSUME NEW q \in Ranks, NEW e \in Ranks, Active(e), q # e, q \in Expected(e)
        PROVE  /\ Len(chan'[q][e]) = Sent(q) - Received(e, q)'
               /\ \A i \in 1 .. Len(chan'[q][e]) :
                     chan'[q][e][i] = Letter(Received(e, q)' + i, e, q)
    <3>1. CASE <<q, e>> # <<s, d>>
      BY <1>6, <2>2, <2>5, <3>1 DEF IInv, Letters
    <3>2. CASE <<q, e>> = <<s, d>>
      <4>1. array[d] \in Int
        BY <1>1 DEF Arrays
      <4>2. Len(chan'[s][d]) = Sent(s) - array[d]
        <5>1. Sent(s) \in Int
          BY <2>4
        <5>2. QED
          BY <1>2, <1>3, <1>6, <4>1, <5>1
      <4>3. ASSUME NEW i \in 1 .. Len(chan'[s][d])
            PROVE  chan'[s][d][i] = Letter(array[d] + i, d, s)
        <5>1. /\ i \in 1 .. Len(Tail(chan[s][d])) /\ i + 1 \in 1 .. Len(chan[s][d])
              /\ chan'[s][d][i] = chan[s][d][i + 1]
          BY <1>3, <1>6
        <5>2. Received(d, s) + (i + 1) = array[d] + i
          BY <1>2, <1>3, <4>1, <5>1
        <5>3. chan[s][d][i + 1] = Letter(Received(d, s) + (i + 1), d, s)
          BY <1>2, <5>1
        <5>4. QED
          BY <5>1, <5>2, <5>3, Zenon
      <4>4. QED
        BY <2>3, <3>2, <4>2, <4>3
    <3>3. QED
      BY <3>1, <3>2
  <2>6. ASSUME NEW q \in Ranks, NEW e \in Ranks, ~ Active(e) \/ q = e \/ q \notin Expected(e)
        PROVE  chan'[q][e] = <<>>
    BY <1>1, <1>6, <2>6 DEF IInv, Letters
  <2>7. ASSUME NEW q \in Ranks, NEW e \in Ranks, NEW i \in 1 .. Len(chan'[q][e])
        PROVE  Received(e, q)' + i \in Int
    <3>1. Received(e, q)' \in Int
      <4>1. array[d] \in Int
        BY <1>1 DEF Arrays
      <4>2. CASE <<q, e>> = <<s, d>>
        BY <2>3, <4>1, <4>2
      <4>3. CASE <<q, e>> # <<s, d>>
        <5>1. Received(e, q)' = Received(e, q) /\ Received(e, q) \in Int
          BY <2>2, <2>4, <4>3
        <5>2. QED
          BY <5>1
      <4>4. QED
        BY <4>2, <4>3
    <3>2. QED
      BY <3>1
  <2>8. QED
    BY <1>9, <2>1, <2>5, <2>6, <2>7 DEF Letters
<1>12. NobodyLate'
  BY <1>9 DEF IInv, NobodyLate
<1>13. Arriving'
  <2>1. ASSUME NEW e \in Ranks PROVE ArrivingAt(e)'
    <3>1. CASE e = d
      <4>1. recvs'[d] \subseteq Expected(d) \ {d}
        BY <1>1, <1>6 DEF ArrivingAt
      <4>2. ASSUME NEW i \in DOMAIN dest'[d]
            PROVE  LET q == bsearch_partition(gfq[d] + i, lb_gfq_old[d])
                   IN  dest'[d][i] = IF q \in recvs'[d] \/ (q = d /\ pc[d] = "send")
                                     THEN Uninit
                                     ELSE Payload(array[d], gfq[d] + i)
        BY <1>1, <1>6, <1>7 DEF ArrivingAt
      <4>3. QED
        BY <1>1, <1>7, <3>1, <4>1, <4>2 DEF ArrivingAt, Expected
    <3>2. CASE e # d
      BY <1>6, <3>2 DEF IInv, Arriving, ArrivingAt, Expected
    <3>3. QED
      BY <3>1, <3>2
  <2>2. QED
    BY <2>1 DEF Arriving
<1>14. Delivered'
  BY <1>9 DEF IInv, Delivered
<1>15. QED
  BY <1>8, <1>10, <1>11, <1>12, <1>13, <1>14 DEF IInv

(* When the wait ends, the array received is complete.                      *)
LEMMA RefreshedSegment ==
  ASSUME IInv, NEW r \in Ranks, WaitAll(r)
  PROVE  dest[r] = Segment(gfq, r, array[r])
<1>1. pc[r] = "wait" /\ recvs[r] = {} /\ ArrivingAt(r)
  BY DEF WaitAll, IInv, Arriving
<1>2. /\ DOMAIN dest[r] = 0 .. NumLocal(gfq, r) - 1
      /\ \A i \in DOMAIN dest[r] : dest[r][i] = Payload(array[r], gfq[r] + i)
  BY <1>1 DEF ArrivingAt
<1>3. dest[r] \in LocalArrays
  BY DEF IInv, TypeOK
<1>4. dest[r] = [i \in DOMAIN dest[r] |-> dest[r][i]]
  BY <1>3 DEF LocalArrays
<1>5. QED
  BY <1>2, <1>4 DEF Segment

(* So does the end of the wait, where nothing is left to be written. *)
LEMMA WaitAllStep ==
  ASSUME IInv, NEW r \in Ranks, WaitAll(r)
  PROVE  IInv'
<1>0. /\ pc[r] = "wait" /\ recvs[r] = {}
      /\ UNCHANGED <<gfq, lb_gfq_old, lb_gfq_new, dest, recvs, chan, partitions>>
  BY DEF WaitAll
<1> USE <1>0
<1>1. /\ gfq \in Partitions /\ ArrivingAt(r) /\ array[r] \in Arrays
      /\ Active(r) /\ InTransfer(r) /\ lb_gfq_new[r] = gfq
  BY DEF IInv, TypeOK, Arriving, Agreement, InTransfer, Active
<1>2. /\ field' = [field EXCEPT ![r] = [field[r] EXCEPT ![array[r]] = dest[r]]]
      /\ array' = [array EXCEPT ![r] = array[r] + 1]
      /\ pc' = [pc EXCEPT ![r] = IF array[r] = NumArrays THEN "compute" ELSE "begin"]
  BY DEF WaitAll, IInv, TypeOK
<1>3. /\ \A q \in Ranks \ {r} : pc'[q] = pc[q] /\ array'[q] = array[q] /\ field'[q] = field[q]
      /\ pc'[r] = IF array[r] = NumArrays THEN "compute" ELSE "begin"
      /\ array'[r] = array[r] + 1
      /\ field'[r][array[r]] = dest[r]
      /\ \A k \in Arrays \ {array[r]} : field'[r][k] = field[r][k]
      /\ array[r] \in 1 .. NumArrays
  BY <1>1, <1>2 DEF IInv, TypeOK, Arrays
<1>4. dest[r] = Segment(gfq, r, array[r])
  BY RefreshedSegment
<1>5. TypeOK'
  <2>1. field' \in [Ranks -> [Arrays -> LocalArrays]]
    BY <1>1, <1>2 DEF IInv, TypeOK
  <2>2. array' \in [Ranks -> 1 .. NumArrays + 1]
    BY <1>2, <1>3, PartitionAssumption DEF IInv, TypeOK
  <2>3. pc' \in [Ranks -> {"compute", "partition", "partitioned", "begin", "send", "wait"}]
    BY <1>2 DEF IInv, TypeOK
  <2>4. QED
    BY <2>1, <2>2, <2>3 DEF IInv, TypeOK
<1>6. /\ \A q \in Ranks \ {r} : Active(q)' = Active(q) /\ InTransfer(q)' = InTransfer(q)
      /\ IF array[r] = NumArrays THEN ~ Active(r)' /\ ~ InTransfer(r)'
                                 ELSE Active(r)' /\ InTransfer(r)'
  BY <1>3 DEF Active, InTransfer
<1>7. Agreement'
  <2>1. ASSUME NEW q \in Ranks
        PROVE  /\ pc'[q] = "partition" => lb_gfq_old[q] = gfq /\ partitions < MaxPartitions
               /\ InTransfer(q)' => lb_gfq_new[q] = gfq /\ array'[q] \in Arrays
               /\ pc'[q] \in {"compute", "partition"} => array'[q] = NumArrays + 1
    <3>1. CASE q = r
      BY <1>1, <1>3, <1>6, <3>1, PartitionAssumption DEF Arrays
    <3>2. CASE q # r
      BY <1>3, <1>6, <3>2 DEF IInv, Agreement
    <3>3. QED
      BY <3>1, <3>2
  <2>2. \A q \in Ranks : Active(q)' => Active(q)
    BY <1>1, <1>6
  <2>3. QED
    BY <2>1, <2>2 DEF IInv, Agreement
<1>8. Letters'
  <2>1. \A e \in Ranks : /\ Expected(e)' = Expected(e)
                         /\ \A q \in Ranks : /\ Incoming(e, q)' = Incoming(e, q)
                                              /\ \A k : Letter(k, e, q)' = Letter(k, e, q)
    BY DEF Expected, Incoming, Letter
  <2>2. \A e \in Ranks : /\ Sent(e)' = Sent(e)
                         /\ \A q \in Ranks : Received(e, q)' = Received(e, q)
    <3>1. ASSUME NEW e \in Ranks, e # r
          PROVE  Sent(e)' = Sent(e) /\ \A q \in Ranks : Received(e, q)' = Received(e, q)
      BY <1>3, <3>1 DEF Sent, Received
    <3>2. Sent(r)' = Sent(r) /\ \A q \in Ranks : Received(r, q)' = Received(r, q)
      <4>1. Sent(r) = array[r] /\ \A q \in Ranks : Received(r, q) = array[r]
        BY DEF Sent, Received
      <4>2. CASE array[r] = NumArrays
        BY <1>3, <4>1, <4>2 DEF Sent, Received
      <4>3. CASE array[r] # NumArrays
        <5>1. (array[r] + 1) - 1 = array[r]
          BY <1>3
        <5>2. QED
          BY <1>3, <4>1, <4>3, <5>1 DEF Sent, Received
      <4>4. QED
        BY <4>2, <4>3
    <3>3. QED
      BY <3>1, <3>2
  <2>3. ASSUME NEW s \in Ranks, ~ Active(r)' PROVE chan[s][r] = <<>>
    <3>1. array[r] = NumArrays
      BY <1>6, <2>3
    <3>2. CASE s # r /\ s \in Expected(r)
      <4>1. Len(chan[s][r]) = Sent(s) - NumArrays
        <5>1. Received(r, s) = NumArrays
          BY <3>1 DEF Received
        <5>2. QED
          BY <1>1, <3>2, <5>1 DEF IInv, Letters
      <4>2. Sent(s) \in Int /\ Sent(s) <= NumArrays
        <5>1. array[s] \in 1 .. NumArrays + 1
          BY DEF IInv, TypeOK
        <5>2. pc[s] = "wait" => array[s] \in Arrays
          BY DEF IInv, Agreement, InTransfer
        <5>3. QED
          BY <5>1, <5>2, PartitionAssumption DEF Sent, Arrays
      <4>3. chan[s][r] \in Seq(Messages)
        BY DEF IInv, TypeOK
      <4>4. Len(chan[s][r]) = 0
        <5>1. Len(chan[s][r]) \in Nat
          BY <4>3
        <5>2. QED
          BY <4>1, <4>2, <5>1, PartitionAssumption
      <4>5. QED
        BY <4>3, <4>4
    <3>3. CASE s = r \/ s \notin Expected(r)
      BY <3>3 DEF IInv, Letters
    <3>4. QED
      BY <3>2, <3>3
  <2>4. ASSUME NEW s \in Ranks, NEW d \in Ranks, ~ Active(d)' \/ s = d \/ s \notin Expected(d)
        PROVE  chan[s][d] = <<>>
    <3>1. CASE s = d \/ s \notin Expected(d)
      BY <3>1 DEF IInv, Letters
    <3>2. CASE d = r /\ ~ Active(d)'
      BY <2>3, <3>2
    <3>3. CASE d # r /\ ~ Active(d)'
      BY <1>6, <3>3 DEF IInv, Letters
    <3>4. QED
      BY <2>4, <3>1, <3>2, <3>3
  <2>5. \A d \in Ranks : Active(d)' => Active(d)
    BY <1>1, <1>6
  <2>6. ASSUME NEW s \in Ranks, NEW d \in Ranks, Active(d), s # d, s \in Expected(d)
        PROVE  /\ Len(chan[s][d]) = Sent(s)' - Received(d, s)'
               /\ \A i \in 1 .. Len(chan[s][d]) :
                     chan[s][d][i] = Letter(Received(d, s)' + i, d, s)
    BY <2>2, <2>6 DEF IInv, Letters
  <2>7. QED
    BY <2>1, <2>4, <2>5, <2>6 DEF Letters
<1>9. NobodyLate'
  <2>1. SUFFICES ASSUME NEW s \in Ranks, NEW d \in Ranks,
                        Active(s)', ~ Active(d)', s \in Peers(gfq, lb_gfq_old[s], d)
                 PROVE  pc'[s] = "wait" /\ array'[s] = NumArrays
    BY DEF NobodyLate
  <2>2. Active(s)
    BY <1>1, <1>6, <2>1
  <2>3. CASE ~ Active(d)
    <3>1. pc[s] = "wait" /\ array[s] = NumArrays
      BY <2>1, <2>2, <2>3 DEF IInv, NobodyLate
    <3>2. s # r
      BY <1>6, <2>1, <3>1
    <3>3. QED
      BY <1>3, <3>1, <3>2
  <2>4. CASE Active(d)
    <3>1. d = r /\ array[r] = NumArrays
      BY <1>6, <2>1, <2>4
    <3>2. s # r
      BY <2>1, <3>1
    <3>3. s \in Expected(r)
      BY <2>1, <2>2, <2>4, <3>1 DEF IInv, Agreement, Expected
    <3>4. Len(chan[s][r]) = Sent(s) - NumArrays
      <4>1. Received(r, s) = NumArrays
        BY <3>1 DEF Received
      <4>2. QED
        BY <1>1, <3>2, <3>3, <4>1 DEF IInv, Letters
    <3>5. Len(chan[s][r]) \in Nat
      <4>1. chan[s][r] \in Seq(Messages)
        BY DEF IInv, TypeOK
      <4>2. QED
        BY <4>1
    <3>6. pc[s] = "wait" /\ array[s] = NumArrays
      <4>1. array[s] \in 1 .. NumArrays + 1 /\ (InTransfer(s) => array[s] \in 1 .. NumArrays)
        BY DEF IInv, TypeOK, Agreement, Arrays
      <4>2. pc[s] \in {"partitioned", "begin", "send", "wait"}
        BY <2>2 DEF Active
      <4>3. Sent(s) \in Int
        BY CountsType DEF IInv
      <4>4. Sent(s) >= NumArrays
        BY <3>4, <3>5, <4>3, PartitionAssumption
      <4>5. QED
        BY <4>1, <4>2, <4>4, PartitionAssumption DEF Sent, InTransfer
    <3>7. QED
      BY <1>3, <3>2, <3>6
  <2>5. QED
    BY <2>3, <2>4
<1>10. Arriving'
  <2>1. ASSUME NEW d \in Ranks PROVE ArrivingAt(d)'
    <3>1. CASE d = r
      BY <1>3, <3>1 DEF ArrivingAt
    <3>2. CASE d # r
      BY <1>3, <3>2 DEF IInv, Arriving, ArrivingAt, Expected
    <3>3. QED
      BY <3>1, <3>2
  <2>2. QED
    BY <2>1 DEF Arriving
<1>11. Delivered'
  <2>1. ASSUME NEW q \in Ranks, NEW k \in Arrays
        PROVE  field'[q][k] =
                 IF pc'[q] = "partitioned" \/ (InTransfer(q)' /\ k >= array'[q])
                 THEN Segment(lb_gfq_old[q], q, k)
                 ELSE Segment(gfq, q, k)
    <3>1. CASE q # r
      BY <1>3, <1>6, <3>1 DEF IInv, Delivered
    <3>2. CASE q = r /\ k = array[r]
      BY <1>3, <1>4, <3>2
    <3>3. CASE q = r /\ k # array[r]
      <4>1. field'[r][k] = field[r][k] /\ pc'[r] # "partitioned" /\ pc[r] # "partitioned"
        BY <1>3, <3>3
      <4>2. (InTransfer(r)' /\ k >= array'[r]) <=> (k >= array[r])
        <5>1. k \in 1 .. NumArrays
          BY DEF Arrays
        <5>2. QED
          BY <1>3, <1>6, <3>3, <5>1, PartitionAssumption
      <4>3. QED
        BY <1>1, <3>3, <4>1, <4>2 DEF IInv, Delivered
    <3>4. QED
      BY <3>1, <3>2, <3>3
  <2>2. QED
    BY <2>1 DEF Delivered
<1>12. QED
  BY <1>5, <1>7, <1>8, <1>9, <1>10, <1>11 DEF IInv

----------------------------------------------------------------------------
(* The theorems                                                             *)

(* So does a stuttering step. *)
LEMMA StutterStep == IInv /\ UNCHANGED vars => IInv'
BY DEF vars, IInv, TypeOK, Agreement, Letters, NobodyLate, Arriving, ArrivingAt, Delivered,
       Active, InTransfer, Expected, Incoming, Sent, Received, Letter

(* IInv is inductive. *)
LEMMA NextStep == IInv /\ [Next]_vars => IInv'
<1> SUFFICES ASSUME IInv, [Next]_vars PROVE IInv'
  OBVIOUS
<1>1. CASE p4est_partition
  BY <1>1, p4est_partitionStep
<1>2. CASE \E r \in Ranks : Step(r)
  BY <1>2, RecordOldStep, RecordNewStep, PostReceivesStep, PostSendsStep, WaitAllStep DEF Step
<1>3. CASE \E s, d \in Ranks : Match(s, d)
  BY <1>3, MatchStep
<1>4. CASE UNCHANGED vars
  BY <1>4, StutterStep
<1>5. QED
  BY <1>1, <1>2, <1>3, <1>4 DEF Next

(* IInv always holds. *)
THEOREM Invariance == Spec => []IInv
<1>1. Init => IInv
  BY InitStep
<1>2. IInv /\ [Next]_vars => IInv'
  BY NextStep
<1>3. QED
  BY <1>1, <1>2, PTL DEF Spec

(* Every variable keeps its type.                                           *)
THEOREM TypeCorrect == Spec => []TypeOK
<1>1. IInv => TypeOK
  BY DEF IInv
<1>2. QED
  BY <1>1, Invariance, PTL

(* Whatever the partitions and the interleaving, every rank ends a transfer *)
(* with the payloads of exactly its leaves, in order.                       *)
THEOREM EveryPayloadDelivered == Spec => []Delivered
<1>1. IInv => Delivered
  BY DEF IInv
<1>2. QED
  BY <1>1, Invariance, PTL

(* A receive is matched with a message of the length it was posted for.     *)
THEOREM NoTruncation == Spec => []LengthsAgree
<1>1. IInv => LengthsAgree
  <2>1. SUFFICES ASSUME IInv, NEW s \in Ranks, NEW d \in Ranks,
                        s \in recvs[d], chan[s][d] # <<>>
                 PROVE  Head(chan[s][d]).len = RecvSlice(d, s).len
    BY DEF LengthsAgree
  <2>2. /\ s \in Expected(d) /\ s # d /\ Active(d) /\ lb_gfq_new[d] = gfq
        /\ chan[s][d] \in Seq(Messages)
    BY <2>1 DEF IInv, TypeOK, Arriving, ArrivingAt, Agreement, InTransfer, Active
  <2>3. Head(chan[s][d]) = Letter(Received(d, s) + 1, d, s)
    <3>1. Len(chan[s][d]) \in Nat \ {0} /\ Head(chan[s][d]) = chan[s][d][1]
      BY <2>1, <2>2
    <3>2. chan[s][d][1] = Letter(Received(d, s) + 1, d, s)
      BY <2>1, <2>2, <3>1 DEF IInv, Letters
    <3>3. QED
      BY <3>1, <3>2
  <2>4. QED
    BY <2>2, <2>3 DEF Letter, Incoming, RecvSlice
<1>2. QED
  BY <1>1, Invariance, PTL

(* Around the collective, no message is in flight and no receive pending.   *)
THEOREM QuietCollective == Spec => []NothingInFlight
<1>1. IInv => NothingInFlight
  <2>1. SUFFICES ASSUME IInv, NEW s \in Ranks, NEW d \in Ranks,
                        \/ \A r \in Ranks : pc[r] = "partition"
                        \/ \A r \in Ranks : pc[r] = "partitioned"
                 PROVE  chan[s][d] = <<>> /\ s \notin recvs[d]
    BY DEF NothingInFlight
  <2>2. s \notin recvs[d]
    BY <2>1 DEF IInv, Arriving, ArrivingAt
  <2>3. chan[s][d] = <<>>
    <3>1. CASE ~ Active(d) \/ s = d \/ s \notin Expected(d)
      BY <3>1, <2>1 DEF IInv, Letters
    <3>2. CASE Active(d) /\ s # d /\ s \in Expected(d)
      <4>1. Len(chan[s][d]) = Sent(s) - Received(d, s)
        BY <2>1, <3>2 DEF IInv, Letters
      <4>2. pc[d] = "partitioned" /\ Received(d, s) = 0
        BY <2>1, <3>2 DEF Active, Received
      <4>3. Sent(s) = 0
        <5>1. pc[s] = "partitioned"
          BY <2>1, <4>2
        <5>2. QED
          BY <5>1 DEF Sent
      <4>4. chan[s][d] \in Seq(Messages)
        BY <2>1 DEF IInv, TypeOK
      <4>5. QED
        BY <4>1, <4>2, <4>3, <4>4
    <3>3. QED
      BY <3>1, <3>2
  <2>4. QED
    BY <2>2, <2>3
<1>2. QED
  BY <1>1, Invariance, PTL

(* While a rank waits, what is missing of its array is exactly what its     *)
(* pending receives are going to write.                                     *)
THEOREM NothingForgotten == Spec => []NoHole
<1>1. IInv => NoHole
  <2>1. SUFFICES ASSUME IInv, NEW r \in Ranks, pc[r] = "wait", NEW i \in DOMAIN dest[r]
                 PROVE  (dest[r][i] = Uninit) <=>
                          \E s \in recvs[r] : /\ RecvSlice(r, s).at <= i
                                              /\ i < RecvSlice(r, s).at + RecvSlice(r, s).len
    BY DEF NoHole
  <2> DEFINE b == bsearch_partition(gfq[r] + i, lb_gfq_old[r])
  <2>2. /\ gfq \in Partitions /\ lb_gfq_old[r] \in Partitions /\ lb_gfq_new[r] = gfq
        /\ array[r] \in Arrays /\ recvs[r] \subseteq Expected(r)
        /\ i \in 0 .. NumLocal(gfq, r) - 1
        /\ dest[r][i] = IF b \in recvs[r] THEN Uninit ELSE Payload(array[r], gfq[r] + i)
    BY <2>1 DEF IInv, TypeOK, Agreement, InTransfer, Arriving, ArrivingAt
  <2>3. Payload(array[r], gfq[r] + i) # Uninit
    BY <2>2 DEF Payload, Uninit, Arrays
  <2>4. \A s \in Expected(r) :
           (b = s) <=> /\ RecvSlice(r, s).at <= i
                       /\ i < RecvSlice(r, s).at + RecvSlice(r, s).len
    BY <2>2, SliceOwner DEF Expected, RecvSlice
  <2> HIDE DEF b
  <2>5. QED
    BY <2>2, <2>3, <2>4
<1>2. QED
  BY <1>1, Invariance, PTL

(* The exchange implements PartitionedField: the collective moves the cuts, *)
(* the end of each transfer refreshes one array, all the rest stutters.     *)
THEOREM ImplementsField == Spec => FieldSpec
<1> DEFINE todo == [r \in Ranks |-> IF pc[r] = "partitioned" THEN 1 ELSE array[r]]
<1> USE DEF Field!Ranks, Field!Arrays, Field!Partitions, Field!Payload, Field!Segment
<1>1. Init => Field!Init
  BY DEF Init, Field!Init, Partitions, Segment, Payload, NumLocal, Ranks, Arrays
<1>2. IInv /\ [Next]_vars => [Field!Next]_(Field!vars)
  <2> SUFFICES ASSUME IInv, [Next]_vars PROVE [Field!Next]_(Field!vars)
    OBVIOUS
  <2>1. CASE p4est_partition
    <3>1. \A r \in Ranks : pc[r] = "partition" /\ pc'[r] = "partitioned"
      BY <2>1 DEF p4est_partition
    <3>2. \A r \in Ranks : array[r] = NumArrays + 1
      BY <3>1 DEF IInv, Agreement
    <3>3. QED
      BY <2>1, <3>1, <3>2 DEF p4est_partition, Field!Next, Field!Repartition, Partitions, Ranks
  <2>2. ASSUME NEW r \in Ranks, Step(r) PROVE [Field!Next]_(Field!vars)
    <3>1. CASE WaitAll(r)
      <4>1. /\ pc[r] = "wait" /\ pc'[r] # "partitioned" /\ gfq' = gfq
            /\ array[r] \in Arrays
            /\ field' = [field EXCEPT ![r] = [field[r] EXCEPT ![array[r]] = dest[r]]]
            /\ \A q \in Ranks \ {r} : pc'[q] = pc[q] /\ array'[q] = array[q]
            /\ array'[r] = array[r] + 1
        BY <3>1 DEF WaitAll, IInv, TypeOK, Agreement, InTransfer
      <4>2. dest[r] = Segment(gfq, r, array[r])
        BY <3>1, RefreshedSegment
      <4>3. Field!Segment(gfq, r, array[r]) = Segment(gfq, r, array[r])
        BY DEF Segment, Payload, NumLocal
      <4>4. todo' = [todo EXCEPT ![r] = @ + 1]
        BY <4>1
      <4>5. todo[r] = array[r]
        BY <4>1
      <4>6. Field!Refresh(r)
        BY <4>1, <4>2, <4>3, <4>4, <4>5 DEF Field!Refresh, Arrays
      <4>7. QED
        BY <4>6 DEF Field!Next, Ranks
    <3>2. CASE RecordNew(r)
      <4>1. todo' = todo
        BY <3>2 DEF RecordNew, IInv, TypeOK
      <4>2. QED
        BY <3>2, <4>1 DEF RecordNew, Field!vars
    <3>3. CASE RecordOld(r)
      <4>1. todo' = todo
        BY <3>3 DEF RecordOld, IInv, TypeOK
      <4>2. QED
        BY <3>3, <4>1 DEF RecordOld, Field!vars
    <3>4. CASE PostReceives(r)
      <4>1. todo' = todo
        BY <3>4 DEF PostReceives, IInv, TypeOK
      <4>2. QED
        BY <3>4, <4>1 DEF PostReceives, Field!vars
    <3>5. CASE PostSends(r)
      <4>1. todo' = todo
        BY <3>5 DEF PostSends, IInv, TypeOK
      <4>2. QED
        BY <3>5, <4>1 DEF PostSends, Field!vars
    <3>6. QED
      BY <2>2, <3>1, <3>2, <3>3, <3>4, <3>5 DEF Step
  <2>3. CASE \E s, d \in Ranks : Match(s, d)
    BY <2>3 DEF Match, Field!vars
  <2>4. CASE UNCHANGED vars
    BY <2>4 DEF vars, Field!vars
  <2>5. QED
    BY <2>1, <2>2, <2>3, <2>4 DEF Next
<1>3. QED
  BY <1>1, <1>2, Invariance, PTL DEF Spec, FieldSpec, Field!Spec

=============================================================================

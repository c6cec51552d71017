---------------------------- MODULE IndexByLevel ----------------------------
(***************************************************************************)
(* compute_index_by_level (scan_utils.h): every rank numbers the keys it    *)
(* owns within their refinement level, by exclusive scans over the levels   *)
(* in groups of num_levels; the ranks then add up their histograms with     *)
(* MPI_Exscan and each one shifts its numbers by the keys of lower ranks.   *)
(* The result goes into the checkpoint (HDF5_Xdmf_Writer).                  *)
(***************************************************************************)
EXTENDS Integers, FiniteSets, Sequences, FiniteSetsExt

CONSTANTS NumRanks,        \* ranks of the communicator
          level_min,       \* configured range of levels
          level_max,
          num_levels,      \* levels scanned at once, 5 in the code
          MaxKeys          \* bound on the keys a rank owns

ASSUME IndexByLevelAssumption ==
    /\ NumRanks \in Nat \ {0}
    /\ level_min \in Nat /\ level_max \in Nat /\ level_min <= level_max
    /\ num_levels \in Nat \ {0}
    /\ MaxKeys \in Nat

Ranks  == 0 .. NumRanks - 1
Levels == level_min .. level_max

VARIABLES keys,            \* the level of each key of a rank, in Morton order
          pc,
          level_start,     \* first level of the next group to scan
          res,             \* the result, uninitialized at first
          level_histo,     \* keys of the rank at each level
          level_histo_scanned

vars == <<keys, pc, level_start, res, level_histo, level_histo_scanned>>

----------------------------------------------------------------------------
Uninit == -1            \* memory allocated without initializing

NumAt(ks, l) == Cardinality({i \in DOMAIN ks : ks[i] = l})

Init ==
    /\ keys \in [Ranks -> UNION {[1 .. n -> Levels] : n \in 0 .. MaxKeys}]
    /\ pc = [r \in Ranks |-> "scan"]
    /\ level_start = [r \in Ranks |-> level_min]
    /\ res = [r \in Ranks |-> [i \in DOMAIN keys[r] |-> Uninit]]
    /\ level_histo = [r \in Ranks |-> [l \in Levels |-> 0]]
    /\ level_histo_scanned = [r \in Ranks |-> [l \in Levels |-> 0]]

(* What parallel_scan leaves at key i, from the keys before it.             *)
Scanned(ks, i) ==
    Cardinality({j \in DOMAIN ks : j < i /\ ks[j] = ks[i]})

InGroup(l, start) == l >= start /\ l < start + num_levels /\ l <= level_max

(* ScanIndexByLevel::run on one group of levels.                            *)
ScanGroup(r) ==
    /\ pc[r] = "scan"
    /\ level_start[r] < level_max
    /\ res' = [res EXCEPT ![r] = [i \in DOMAIN keys[r] |->
                  IF InGroup(keys[r][i], level_start[r])
                  THEN Scanned(keys[r], i)
                  ELSE res[r][i]]]
    /\ level_start' = [level_start EXCEPT ![r] = @ + num_levels]
    /\ UNCHANGED <<keys, pc, level_histo, level_histo_scanned>>

(* Bug: one level too few in the histogram.                                 *)
CountLevels_Short(r) ==
    /\ pc[r] = "scan"
    /\ level_start[r] >= level_max
    /\ level_histo' = [level_histo EXCEPT ![r] =
           [l \in level_min .. level_max - 1 |-> NumAt(keys[r], l)]]
    /\ pc' = [pc EXCEPT ![r] = "exscan"]
    /\ UNCHANGED <<keys, level_start, res, level_histo_scanned>>

(* The end of the while loop, and the histogram unless the rank is alone.   *)
CountLevels(r) ==
    /\ pc[r] = "scan"
    /\ level_start[r] >= level_max
    /\ IF NumRanks > 1
       THEN /\ level_histo' = [level_histo EXCEPT ![r] =
                                  [l \in Levels |-> NumAt(keys[r], l)]]
            /\ pc' = [pc EXCEPT ![r] = "exscan"]
       ELSE /\ pc' = [pc EXCEPT ![r] = "done"]
            /\ UNCHANGED level_histo
    /\ UNCHANGED <<keys, level_start, res, level_histo_scanned>>

(* Bug: MPI_Scan, which counts the keys of the rank itself.                 *)
LowerRanks_Inclusive(r) == {s \in Ranks : s <= r}

LowerRanks(r) == {s \in Ranks : s < r}

(* The sum, over the lower ranks, of what they contribute for a level.      *)
SumBelow(r, l) == MapThenSumSet(LAMBDA s : level_histo[s][l], LowerRanks(r))

(* MPI_Exscan: a rank needs what lower ranks contribute and may return      *)
(* before higher ranks have called it; it leaves the buffer of rank 0, zero *)
(* since its allocation, as it is.                                          *)
Exscan(r) ==
    /\ pc[r] = "exscan"
    /\ \A s \in LowerRanks(r) : pc[s] # "scan"
    /\ level_histo_scanned' = [level_histo_scanned EXCEPT ![r] =
           [l \in Levels |-> SumBelow(r, l)]]
    /\ pc' = [pc EXCEPT ![r] = "fix"]
    /\ UNCHANGED <<keys, level_start, res, level_histo>>

(* "now fix indexes with offsets computed just above"                       *)
FixIndexes(r) ==
    /\ pc[r] = "fix"
    /\ res' = [res EXCEPT ![r] = [i \in DOMAIN keys[r] |->
                  IF res[r][i] = Uninit THEN Uninit
                  ELSE res[r][i] + level_histo_scanned[r][keys[r][i]]]]
    /\ pc' = [pc EXCEPT ![r] = "done"]
    /\ UNCHANGED <<keys, level_start, level_histo, level_histo_scanned>>

Stopped == \A r \in Ranks : pc[r] = "done"

Next ==
    \/ \E r \in Ranks : ScanGroup(r) \/ CountLevels(r) \/ Exscan(r) \/ FixIndexes(r)
    \/ Stopped /\ UNCHANGED vars

Spec == Init /\ [][Next]_vars

----------------------------------------------------------------------------
(* Properties                                                               *)

(* The shape of the variables; a rank that has left the scan has scanned    *)
(* every level but possibly the last one (compute_index_by_level).          *)
TypeOK ==
    /\ \A r \in Ranks : keys[r] \in [1 .. Len(keys[r]) -> Levels]
    /\ pc \in [Ranks -> {"scan", "exscan", "fix", "done"}]
    /\ \A r \in Ranks : level_start[r] \in level_min .. level_max + num_levels - 1
    /\ \A r \in Ranks : res[r] \in [DOMAIN keys[r] -> Nat \cup {Uninit}]
    /\ \A r \in Ranks : level_histo[r] \in [Levels -> Nat]
    /\ \A r \in Ranks : level_histo_scanned[r] \in [Levels -> Nat]

Keys     == {k \in Ranks \X (1 .. MaxKeys) : k[2] \in DOMAIN keys[k[1]]}
Level(k) == keys[k[1]][k[2]]
Index(k) == res[k[1]][k[2]]
Before(k, m) == k[1] < m[1] \/ (k[1] = m[1] /\ k[2] < m[2])

(* "each block must be attributed an id, going from 0 to N(l)-1, where N(l) *)
(* is the number of blocks at AMR level l": when every rank has returned,   *)
(* the ids of a level are those, over all ranks, in the order of the keys   *)
(* (compute_index_by_level).                                                *)
BlocksNumbered ==
    Stopped =>
        \A l \in Levels :
            LET K == {k \in Keys : Level(k) = l} IN
            /\ {Index(k) : k \in K} = 0 .. Cardinality(K) - 1
            /\ \A k, m \in K : Before(k, m) => Index(k) < Index(m)
=============================================================================

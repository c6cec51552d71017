------------------------- MODULE IndexByLevel_proofs -------------------------
(***************************************************************************)
(* Proofs about IndexByLevel, for any number of ranks, keys and levels: the  *)
(* ids of the keys of a level are 0, 1, ... in the order of the keys over    *)
(* all ranks, provided that the groups of levels do not end just short of    *)
(* level_max.                                                               *)
(***************************************************************************)
EXTENDS IndexByLevel, CommonFacts

(* The loop of compute_index_by_level stops at a group that starts at or    *)
(* after level_max: it leaves level_max out if a group starts right there.  *)
EveryLevelScanned == \A n \in Nat : level_max # level_min + n * num_levels

(* The keys of level l that the ranks S own.                                *)
At(S, l) == {k \in Keys : k[1] \in S /\ Level(k) = l}

(* The shape of what the ranks hold; a group starts a whole number of       *)
(* groups after level_min.                                                  *)
KeysOK == keys \in [Ranks -> UNION {[1 .. n -> Levels] : n \in 0 .. MaxKeys}]

RowsOK ==
    /\ pc \in [Ranks -> {"scan", "exscan", "fix", "done"}]
    /\ level_start \in [Ranks -> level_min .. level_max + num_levels - 1]
    /\ DOMAIN res = Ranks
    /\ \A r \in Ranks : res[r] \in [DOMAIN keys[r] -> Nat \cup {Uninit}]
    /\ level_histo \in [Ranks -> [Levels -> Nat]]
    /\ level_histo_scanned \in [Ranks -> [Levels -> Nat]]

RowsInv ==
    /\ KeysOK
    /\ RowsOK
    /\ \A r \in Ranks : \E n \in Nat : level_start[r] = level_min + n * num_levels

(* A rank that has left the scan has counted its keys, unless it is alone.  *)
HistoInv ==
    /\ RowsInv
    /\ NumRanks > 1 => \A r \in Ranks : pc[r] # "scan" =>
          \A l \in Levels : level_histo[r][l] = NumAt(keys[r], l)
    /\ NumRanks = 1 => \A r \in Ranks : pc[r] \in {"scan", "done"}

(* What the keys of rank r have been numbered with: their places among the  *)
(* keys of the rank, for the levels scanned so far; then with the keys of   *)
(* the lower ranks added.                                                   *)
Numbers(r) ==
    /\ pc[r] = "scan" => \A i \in DOMAIN keys[r] :
          keys[r][i] < level_start[r] => res[r][i] = Scanned(keys[r], i)
    /\ pc[r] \in {"exscan", "fix"} => \A i \in DOMAIN keys[r] :
          res[r][i] = Scanned(keys[r], i)
    /\ pc[r] = "fix" => \A l \in Levels :
          level_histo_scanned[r][l] = Cardinality(At(LowerRanks(r), l))
    /\ pc[r] = "done" => \A i \in DOMAIN keys[r] :
          res[r][i] = Scanned(keys[r], i) + Cardinality(At(LowerRanks(r), keys[r][i]))

NumberInv == HistoInv /\ \A r \in Ranks : Numbers(r)

----------------------------------------------------------------------------
(* Counting keys                                                            *)

(* What a rank owns: a finite sequence of levels.                           *)
LEMMA KeyFacts ==
  ASSUME KeysOK, NEW r \in Ranks
  PROVE  /\ keys[r] \in [DOMAIN keys[r] -> Levels]
         /\ keys[r] \in [1 .. Len(keys[r]) -> Levels]
         /\ DOMAIN keys[r] \subseteq 1 .. MaxKeys
         /\ IsFiniteSet(DOMAIN keys[r])
<1>1. PICK n \in 0 .. MaxKeys : keys[r] \in [1 .. n -> Levels]
  BY DEF KeysOK
<1>2. MaxKeys \in Nat
  BY IndexByLevelAssumption
<1>3. keys[r] \in Seq(Levels) /\ Len(keys[r]) = n /\ DOMAIN keys[r] = 1 .. n
  BY <1>1, <1>2
<1>4. IsFiniteSet(1 .. n)
  <2>1. 1 \in Int /\ n \in Int
    OBVIOUS
  <2>2. QED
    BY <2>1, FS_Interval
<1>5. 1 .. n \subseteq 1 .. MaxKeys
  BY <1>1, <1>2
<1>6. IsFiniteSet(DOMAIN keys[r])
  BY <1>3, <1>4
<1>7. QED
  BY <1>1, <1>3, <1>5, <1>6

(* The counts of the scan and of the histogram are natural numbers.         *)
LEMMA CountsAreNat ==
  ASSUME KeysOK, NEW r \in Ranks
  PROVE  /\ \A l : NumAt(keys[r], l) \in Nat
         /\ \A i : Scanned(keys[r], i) \in Nat
<1>1. IsFiniteSet(DOMAIN keys[r])
  BY KeyFacts
<1>2. \A S \in SUBSET DOMAIN keys[r] : Cardinality(S) \in Nat
  BY <1>1, FS_Subset, FS_CardinalityType
<1>3. QED
  BY <1>2 DEF NumAt, Scanned

(* The keys of a level are finitely many.                                   *)
LEMMA AtFinite ==
  ASSUME KeysOK, NEW S, NEW l
  PROVE  IsFiniteSet(At(S, l)) /\ Cardinality(At(S, l)) \in Nat
<1>1. IsFiniteSet(Ranks) /\ IsFiniteSet(1 .. MaxKeys)
  BY IndexByLevelAssumption, FS_Interval DEF Ranks
<1>2. IsFiniteSet(Ranks \X (1 .. MaxKeys))
  BY <1>1, FS_Product
<1>3. At(S, l) \subseteq Ranks \X (1 .. MaxKeys)
  BY DEF At, Keys
<1>4. QED
  BY <1>2, <1>3, FS_Subset, FS_CardinalityType

(* The keys of rank r at the places J are as many as the places.            *)
LEMMA PlacesOfRank ==
  ASSUME NEW r, NEW J, IsFiniteSet(J)
  PROVE  /\ IsFiniteSet({<<r, j>> : j \in J})
         /\ Cardinality({<<r, j>> : j \in J}) = Cardinality(J)
<1> DEFINE T == {<<r, j>> : j \in J}
           f == [j \in J |-> <<r, j>>]
<1>1. f \in Bijection(J, T)
  BY DEF Bijection, Injection, Surjection, IsInjective
<1>2. ExistsBijection(J, T)
  BY <1>1 DEF ExistsBijection
<1>3. QED
  BY <1>2, FS_Bijection

(* The keys of a set of ranks are those of one of them, and of the others.  *)
LEMMA AtSplit ==
  ASSUME KeysOK, NEW T \in SUBSET Ranks, NEW x \in T, NEW l \in Levels
  PROVE  Cardinality(At(T, l)) = NumAt(keys[x], l) + Cardinality(At(T \ {x}, l))
<1> DEFINE J == {i \in DOMAIN keys[x] : keys[x][i] = l}
           A == {<<x, j>> : j \in J}
           B == At(T \ {x}, l)
<1>1. IsFiniteSet(J) /\ DOMAIN keys[x] \subseteq 1 .. MaxKeys
  BY KeyFacts, FS_Subset
<1>2. IsFiniteSet(A) /\ Cardinality(A) = NumAt(keys[x], l) /\ NumAt(keys[x], l) \in Nat
  <2>1. NumAt(keys[x], l) = Cardinality(J)
    BY DEF NumAt
  <2> HIDE DEF J
  <2>2. QED
    BY <1>1, <2>1, PlacesOfRank, FS_CardinalityType
<1>3. IsFiniteSet(B) /\ Cardinality(B) \in Nat
  BY AtFinite
<1>4. A \cap B = {}
  BY DEF At
<1>5. At(T, l) = A \cup B
  <2>1. ASSUME NEW k \in At(T, l) PROVE k \in A \cup B
    <3>1. k \in Ranks \X (1 .. MaxKeys) /\ k[2] \in DOMAIN keys[k[1]] /\ keys[k[1]][k[2]] = l
          /\ k[1] \in T /\ k \in Keys
      BY DEF At, Keys, Level
    <3>2. CASE k[1] = x
      <4>1. k[2] \in J /\ k = <<x, k[2]>>
        BY <3>1, <3>2
      <4>2. QED
        BY <4>1
    <3>3. CASE k[1] # x
      BY <3>1, <3>3 DEF At, Level
    <3>4. QED
      BY <3>2, <3>3
  <2>2. A \subseteq At(T, l)
    BY <1>1 DEF At, Keys, Level
  <2>3. B \subseteq At(T, l)
    BY DEF At
  <2>4. QED
    BY <2>1, <2>2, <2>3
<1>6. Cardinality({}) = 0
  BY FS_EmptySet
<1>7. Cardinality(B) = Cardinality(At(T \ {x}, l))
  OBVIOUS
<1> HIDE DEF A, B, J
<1>8. Cardinality(A \cup B) = Cardinality(A) + Cardinality(B) - Cardinality(A \cap B)
  BY <1>2, <1>3, FS_Union
<1>9. QED
  BY <1>2, <1>3, <1>4, <1>5, <1>6, <1>7, <1>8

(* MPI_Exscan: adding up the histograms of some ranks counts their keys,    *)
(* in whatever order they are added.                                        *)
LEMMA SumOfHistograms ==
  ASSUME KeysOK, NEW S \in SUBSET Ranks, NEW l \in Levels,
         \A s \in S : level_histo[s][l] = NumAt(keys[s], l)
  PROVE  MapThenSumSet(LAMBDA s : level_histo[s][l], S) = Cardinality(At(S, l))
<1> DEFINE count   == [T \in SUBSET S |-> Cardinality(At(T, l))]
           choose  == [T \in SUBSET S |-> CHOOSE s \in T : TRUE]
           step    == [s \in S |-> [v \in Nat |-> level_histo[s][l] + v]]
           rule(g) == [T \in SUBSET S |->
                          IF T = {} THEN 0
                          ELSE level_histo[CHOOSE s \in T : TRUE][l]
                               + g[T \ {CHOOSE s \in T : TRUE}]]
<1>1. IsFiniteSet(S)
  <2>1. IsFiniteSet(Ranks)
    BY IndexByLevelAssumption, FS_Interval DEF Ranks
  <2>2. QED
    BY <2>1, FS_Subset
<1>2. \A T \in SUBSET S : T # {} => choose[T] \in T
  OBVIOUS
<1>3. \A s \in S : level_histo[s][l] \in Nat
  BY CountsAreNat
<1>4. \E g : g = rule(g)
  <2>1. \A s \in S, v \in Nat : step[s][v] \in Nat
    BY <1>3
  <2>2. PICK g \in [SUBSET S -> Nat] :
            \A T \in SUBSET S :
               g[T] = IF T = {} THEN 0 ELSE step[choose[T]][g[T \ {choose[T]}]]
    <3> DEFINE X == Nat
    <3>1. 0 \in X /\ \A s \in S, v \in X : step[s][v] \in X
      BY <2>1
    <3> HIDE DEF choose, step, X
    <3>2. HasFold(S, X, 0, choose, step)
      BY <1>1, <1>2, <3>1, FoldExists
    <3>3. QED
      BY <3>2 DEF HasFold, X
  <2>3. ASSUME NEW T \in SUBSET S PROVE g[T] = rule(g)[T]
    <3>1. CASE T = {}
      BY <2>2, <3>1
    <3>2. CASE T # {}
      <4>1. choose[T] \in S /\ T \ {choose[T]} \in SUBSET S /\ choose[T] = CHOOSE s \in T : TRUE
        BY <1>2, <3>2
      <4>2. g[T \ {choose[T]}] \in Nat
        BY <4>1
      <4>3. g[T] = level_histo[choose[T]][l] + g[T \ {choose[T]}]
        BY <2>2, <3>2, <4>1, <4>2
      <4>4. QED
        BY <3>2, <4>1, <4>3
    <3>3. QED
      BY <3>1, <3>2
  <2>4. QED
    BY <2>3
<1>5. ASSUME NEW g, g = rule(g) PROVE g[S] = Cardinality(At(S, l))
  <2> DEFINE P == {T \in SUBSET S : g[T] = Cardinality(At(T, l))}
  <2>1. {} \in P
    <3>1. g[{}] = 0
      BY <1>5
    <3>2. At({}, l) = {}
      BY DEF At
    <3>3. QED
      BY <3>1, <3>2, FS_EmptySet
  <2>2. ASSUME NEW T \in SUBSET S, T # {}, \A s \in T : T \ {s} \in P PROVE T \in P
    <3>1. PICK s \in T : s = CHOOSE x \in T : TRUE
      BY <2>2
    <3>2. g[T] = level_histo[s][l] + g[T \ {s}]
      BY <1>5, <2>2, <3>1
    <3>3. level_histo[s][l] = NumAt(keys[s], l) /\ g[T \ {s}] = Cardinality(At(T \ {s}, l))
      BY <2>2
    <3>4. Cardinality(At(T, l)) = NumAt(keys[s], l) + Cardinality(At(T \ {s}, l))
      BY AtSplit
    <3>5. QED
      BY <3>2, <3>3, <3>4
  <2>3. QED
    <3>1. \A T \in SUBSET S : T \in P
      <4> HIDE DEF P
      <4>1. QED
        BY <1>1, <2>1, <2>2, EverySubset
    <3>2. QED
      BY <3>1
<1>6. QED
  <2>1. MapThenSumSet(LAMBDA s : level_histo[s][l], S) = (CHOOSE g : g = rule(g))[S]
    BY DEF MapThenSumSet, MapThenFoldSet
  <2> HIDE DEF rule
  <2>2. QED
    BY <1>4, <1>5, <2>1

----------------------------------------------------------------------------
(* The arrays keep their shape                                              *)

(* Adding up the histograms of some ranks gives natural numbers.            *)
LEMMA SumIsNat ==
  ASSUME RowsInv, \A s \in Ranks : pc[s] # "scan" =>
            \A l \in Levels : level_histo[s][l] = NumAt(keys[s], l),
         NEW r \in Ranks, \A s \in LowerRanks(r) : pc[s] # "scan", NEW l \in Levels
  PROVE  /\ SumBelow(r, l) = Cardinality(At(LowerRanks(r), l))
         /\ Cardinality(At(LowerRanks(r), l)) \in Nat
<1>1. KeysOK
  BY DEF RowsInv
<1>2. LowerRanks(r) \in SUBSET Ranks
  BY DEF LowerRanks
<1>3. \A s \in LowerRanks(r) : level_histo[s][l] = NumAt(keys[s], l)
  BY <1>2
<1>4. QED
  BY <1>1, <1>2, <1>3, SumOfHistograms, AtFinite DEF SumBelow

(* RowsInv holds initially: no row is filled. *)
LEMMA RowsInit == Init => RowsInv
<1> SUFFICES ASSUME Init PROVE RowsInv
  OBVIOUS
<1> USE IndexByLevelAssumption
<1>1. KeysOK
  BY DEF Init, KeysOK
<1>2. RowsOK
  BY DEF Init, RowsOK, Uninit
<1>3. ASSUME NEW r \in Ranks PROVE \E n \in Nat : level_start[r] = level_min + n * num_levels
  <2>1. level_start[r] = level_min + 0 * num_levels
    BY DEF Init
  <2>2. QED
    BY <2>1
<1>4. QED
  BY <1>1, <1>2, <1>3 DEF RowsInv

(* No rank has left the scan yet.                                           *)
LEMMA HistoInit == Init => HistoInv
<1> SUFFICES ASSUME Init PROVE HistoInv
  OBVIOUS
<1>1. RowsInv
  BY RowsInit
<1>2. QED
  BY <1>1 DEF Init, HistoInv

(* Going on to the next group of levels.                                    *)
LEMMA NextGroup ==
  ASSUME RowsInv, NEW r \in Ranks, level_start[r] < level_max
  PROVE  /\ level_start[r] + num_levels \in level_min .. level_max + num_levels - 1
         /\ \E n \in Nat : level_start[r] + num_levels = level_min + n * num_levels
<1> USE IndexByLevelAssumption
<1>1. level_start[r] \in level_min .. level_max + num_levels - 1
  BY DEF RowsInv, RowsOK
<1>2. PICK n \in Nat : level_start[r] = level_min + n * num_levels
  BY DEF RowsInv
<1>3. (n + 1) * num_levels = n * num_levels + num_levels
  BY <1>2
<1>4. n * num_levels \in Nat /\ n + 1 \in Nat
  BY <1>2
<1>5. level_start[r] + num_levels = level_min + (n + 1) * num_levels
  BY <1>2, <1>3, <1>4
<1>6. \E m \in Nat : level_start[r] + num_levels = level_min + m * num_levels
  BY <1>4, <1>5
<1>7. level_start[r] + num_levels \in level_min .. level_max + num_levels - 1
  BY <1>1
<1>8. QED
  BY <1>6, <1>7

(* Every step keeps HistoInv: a row is written from the leaves of its rank only. *)
LEMMA HistoNext == HistoInv /\ [Next]_vars => HistoInv'
<1> SUFFICES ASSUME HistoInv, [Next]_vars PROVE HistoInv'
  OBVIOUS
<1> USE IndexByLevelAssumption
<1>1. RowsInv /\ KeysOK /\ RowsOK
  BY DEF HistoInv, RowsInv
<1>2. /\ pc \in [Ranks -> {"scan", "exscan", "fix", "done"}]
      /\ level_start \in [Ranks -> level_min .. level_max + num_levels - 1]
      /\ DOMAIN res = Ranks
      /\ \A r \in Ranks : res[r] \in [DOMAIN keys[r] -> Nat \cup {Uninit}]
      /\ level_histo \in [Ranks -> [Levels -> Nat]]
      /\ level_histo_scanned \in [Ranks -> [Levels -> Nat]]
      /\ \A r \in Ranks : \E n \in Nat : level_start[r] = level_min + n * num_levels
  BY <1>1 DEF RowsOK, RowsInv
<1>3. keys' = keys /\ KeysOK'
  <2>1. keys' = keys
    BY DEF Next, ScanGroup, CountLevels, Exscan, FixIndexes, vars
  <2>2. QED
    BY <1>1, <2>1 DEF KeysOK
<1>4. ASSUME NEW r \in Ranks, ScanGroup(r) PROVE HistoInv'
  <2>1. level_start' \in [Ranks -> level_min .. level_max + num_levels - 1]
    BY <1>1, <1>2, <1>4, NextGroup DEF ScanGroup
  <2>2. \A s \in Ranks : \E n \in Nat : level_start'[s] = level_min + n * num_levels
    BY <1>1, <1>2, <1>4, NextGroup DEF ScanGroup
  <2>3. DOMAIN res' = Ranks /\ \A s \in Ranks : res'[s] \in [DOMAIN keys[s] -> Nat \cup {Uninit}]
    <3>1. \A i : Scanned(keys[r], i) \in Nat
      BY <1>1, CountsAreNat
    <3>2. QED
      BY <1>2, <1>4, <3>1 DEF ScanGroup
  <2>4. UNCHANGED <<pc, level_histo, level_histo_scanned>>
    BY <1>4 DEF ScanGroup
  <2>5. RowsInv'
    BY <1>2, <1>3, <2>1, <2>2, <2>3, <2>4 DEF RowsInv, RowsOK
  <2>6. QED
    BY <1>3, <2>4, <2>5 DEF HistoInv
<1>5. ASSUME NEW r \in Ranks, CountLevels(r) PROVE HistoInv'
  <2>1. \A l \in Levels : NumAt(keys[r], l) \in Nat
    BY <1>1, CountsAreNat
  <2>2. UNCHANGED <<level_start, res, level_histo_scanned>>
    BY <1>5 DEF CountLevels
  <2>3. /\ NumRanks > 1 => /\ pc' = [pc EXCEPT ![r] = "exscan"]
                           /\ level_histo' = [level_histo EXCEPT ![r] =
                                  [l \in Levels |-> NumAt(keys[r], l)]]
        /\ NumRanks = 1 => pc' = [pc EXCEPT ![r] = "done"] /\ level_histo' = level_histo
    BY <1>5 DEF CountLevels
  <2>4. NumRanks > 1 \/ NumRanks = 1
    OBVIOUS
  <2>5. RowsInv'
    <3>1. pc' \in [Ranks -> {"scan", "exscan", "fix", "done"}]
      BY <1>2, <2>3, <2>4
    <3>2. level_histo' \in [Ranks -> [Levels -> Nat]]
      <4>1. [l \in Levels |-> NumAt(keys[r], l)] \in [Levels -> Nat]
        BY <2>1
      <4> HIDE DEF Levels
      <4>2. QED
        BY <1>2, <2>3, <2>4, <4>1
    <3>3. QED
      BY <1>2, <1>3, <2>2, <3>1, <3>2 DEF RowsInv, RowsOK
  <2>6. ASSUME NEW s \in Ranks, NumRanks > 1, pc'[s] # "scan", NEW l \in Levels
        PROVE  level_histo'[s][l] = NumAt(keys'[s], l)
    <3>1. CASE s = r
      <4>1. level_histo' = [level_histo EXCEPT ![r] = [m \in Levels |-> NumAt(keys[r], m)]]
        BY <2>3, <2>6
      <4>2. level_histo'[r] = [m \in Levels |-> NumAt(keys[r], m)]
        BY <1>2, <4>1
      <4>3. QED
        BY <1>3, <2>6, <3>1, <4>2
    <3>2. CASE s # r
      BY <1>2, <1>3, <2>3, <2>6, <3>2 DEF HistoInv
    <3>3. QED
      BY <3>1, <3>2
  <2>7. NumRanks = 1 => \A s \in Ranks : pc'[s] \in {"scan", "done"}
    BY <1>2, <2>3 DEF HistoInv
  <2>8. QED
    BY <2>5, <2>6, <2>7 DEF HistoInv
<1>6. ASSUME NEW r \in Ranks, Exscan(r) PROVE HistoInv'
  <2>1. NumRanks > 1
    BY <1>2, <1>6 DEF HistoInv, Exscan
  <2>2. \A l \in Levels : SumBelow(r, l) \in Nat
    BY <1>1, <1>6, <2>1, SumIsNat DEF HistoInv, Exscan
  <2>3. pc' = [pc EXCEPT ![r] = "fix"] /\ UNCHANGED <<level_start, res, level_histo>>
    BY <1>6 DEF Exscan
  <2>4. level_histo_scanned' \in [Ranks -> [Levels -> Nat]]
    BY <1>2, <1>6, <2>2 DEF Exscan
  <2>5. RowsInv'
    BY <1>2, <1>3, <2>3, <2>4 DEF RowsInv, RowsOK
  <2>6. QED
    BY <1>2, <1>3, <1>6, <2>1, <2>3, <2>5 DEF HistoInv, Exscan
<1>7. ASSUME NEW r \in Ranks, FixIndexes(r) PROVE HistoInv'
  <2>1. pc[r] = "fix" /\ pc' = [pc EXCEPT ![r] = "done"]
        /\ UNCHANGED <<level_start, level_histo, level_histo_scanned>>
    BY <1>7 DEF FixIndexes
  <2>2. \A i \in DOMAIN keys[r] : level_histo_scanned[r][keys[r][i]] \in Nat
    BY <1>1, <1>2, KeyFacts
  <2>3. DOMAIN res' = Ranks /\ \A s \in Ranks : res'[s] \in [DOMAIN keys[s] -> Nat \cup {Uninit}]
    BY <1>2, <1>7, <2>2 DEF FixIndexes
  <2>4. RowsInv'
    BY <1>2, <1>3, <2>1, <2>3 DEF RowsInv, RowsOK
  <2>5. QED
    BY <1>2, <1>3, <2>1, <2>4 DEF HistoInv
<1>8. CASE UNCHANGED vars
  <2>1. RowsInv'
    BY <1>1, <1>8 DEF RowsInv, RowsOK, KeysOK, vars
  <2>2. QED
    BY <1>8, <2>1 DEF HistoInv, vars
<1>9. QED
  BY <1>4, <1>5, <1>6, <1>7, <1>8 DEF Next

(* HistoInv is an invariant. *)
LEMMA HistoAlways == Spec => []HistoInv
<1>1. QED
  BY HistoInit, HistoNext, PTL DEF Spec

(* Type correctness: the arrays keep their shape, and the scan stops at the  *)
(* first group past the levels in use (compute_index_by_level).             *)
THEOREM TypeCorrect == Spec => []TypeOK
<1>1. HistoInv => TypeOK
  <2> SUFFICES ASSUME HistoInv PROVE TypeOK
    OBVIOUS
  <2>1. KeysOK /\ RowsOK
    BY DEF HistoInv, RowsInv
  <2>2. \A r \in Ranks : keys[r] \in [1 .. Len(keys[r]) -> Levels]
    BY <2>1, KeyFacts
  <2>3. QED
    BY <2>1, <2>2 DEF RowsOK, TypeOK
<1>2. QED
  BY <1>1, HistoAlways, PTL

----------------------------------------------------------------------------
(* The numbers of the keys                                                  *)

(* NumberInv holds initially: no rank has numbered a key. *)
LEMMA NumbersInit == Init => NumberInv
<1> SUFFICES ASSUME Init PROVE NumberInv
  OBVIOUS
<1>1. HistoInv
  BY HistoInit
<1>2. ASSUME NEW r \in Ranks, NEW i \in DOMAIN keys[r] PROVE ~ (keys[r][i] < level_start[r])
  <2>1. keys[r][i] \in Levels /\ level_start[r] = level_min
    BY <1>1, KeyFacts DEF HistoInv, RowsInv, Init
  <2>2. QED
    BY <2>1, IndexByLevelAssumption DEF Levels
<1>3. ASSUME NEW r \in Ranks PROVE Numbers(r)
  BY <1>2 DEF Init, Numbers
<1>4. QED
  BY <1>1, <1>3 DEF NumberInv

(* A step that leaves the keys, stage and result of a rank alone, and the   *)
(* sums it has been given, leaves what is known of its numbers.             *)
LEMMA NumbersKept ==
  ASSUME NEW s \in Ranks, Numbers(s), keys' = keys, pc'[s] = pc[s], res'[s] = res[s],
         level_start'[s] = level_start[s],
         level_histo_scanned'[s] = level_histo_scanned[s]
  PROVE  Numbers(s)'
<1>1. \A S, l : At(S, l)' = At(S, l)
  BY DEF At, Keys, Level
<1>2. QED
  BY <1>1 DEF Numbers

(* The scan of a group of levels numbers the keys of these levels.          *)
LEMMA NumbersScan ==
  ASSUME NumberInv, NEW r \in Ranks, ScanGroup(r)
  PROVE  Numbers(r)'
<1> USE IndexByLevelAssumption
<1>1. /\ pc[r] = "scan" /\ pc' = pc /\ keys' = keys
      /\ level_start'[r] = level_start[r] + num_levels
      /\ res'[r] = [i \in DOMAIN keys[r] |->
                      IF InGroup(keys[r][i], level_start[r])
                      THEN Scanned(keys[r], i) ELSE res[r][i]]
      /\ level_start[r] \in Int
  BY DEF ScanGroup, NumberInv, HistoInv, RowsInv, RowsOK
<1>2. ASSUME NEW i \in DOMAIN keys[r], keys[r][i] < level_start[r] + num_levels
      PROVE  res'[r][i] = Scanned(keys[r], i)
  <2>1. keys[r][i] \in Levels
    BY KeyFacts DEF NumberInv, HistoInv, RowsInv
  <2>2. CASE keys[r][i] < level_start[r]
    <3>1. ~ InGroup(keys[r][i], level_start[r])
      BY <1>1, <2>1, <2>2 DEF InGroup, Levels
    <3>2. QED
      BY <1>1, <2>2, <3>1 DEF NumberInv, Numbers
  <2>3. CASE ~ (keys[r][i] < level_start[r])
    <3>1. InGroup(keys[r][i], level_start[r])
      BY <1>1, <1>2, <2>1, <2>3 DEF InGroup, Levels
    <3>2. QED
      BY <1>1, <3>1
  <2>4. QED
    BY <2>2, <2>3
<1>3. QED
  BY <1>1, <1>2 DEF Numbers

(* A rank that leaves the scan has numbered all its keys; if it is alone,   *)
(* there are no lower ranks.                                                *)
LEMMA NumbersCounted ==
  ASSUME EveryLevelScanned, NumberInv, NEW r \in Ranks, CountLevels(r)
  PROVE  Numbers(r)'
<1> USE IndexByLevelAssumption
<1>1. /\ pc[r] = "scan" /\ keys' = keys /\ res' = res
      /\ NumRanks > 1 => pc'[r] = "exscan"
      /\ NumRanks = 1 => pc'[r] = "done"
      /\ level_start[r] \in Int /\ level_start[r] >= level_max
  BY DEF CountLevels, NumberInv, HistoInv, RowsInv, RowsOK
<1>2. level_start[r] > level_max
  <2>1. level_start[r] # level_max
    BY DEF EveryLevelScanned, NumberInv, HistoInv, RowsInv
  <2>2. QED
    BY <1>1, <2>1
<1>3. ASSUME NEW i \in DOMAIN keys[r]
      PROVE  res[r][i] = Scanned(keys[r], i) /\ Scanned(keys[r], i) \in Nat
  <2>1. keys[r][i] \in Levels /\ Scanned(keys[r], i) \in Nat
    BY KeyFacts, CountsAreNat DEF NumberInv, HistoInv, RowsInv
  <2>2. keys[r][i] < level_start[r]
    BY <1>1, <1>2, <2>1 DEF Levels
  <2>3. QED
    BY <1>1, <2>1, <2>2 DEF NumberInv, Numbers
<1>4. CASE NumRanks > 1
  BY <1>1, <1>3, <1>4 DEF Numbers
<1>5. CASE NumRanks = 1
  <2>1. ASSUME NEW l PROVE Cardinality(At(LowerRanks(r), l))' = 0
    <3>1. LowerRanks(r) = {}
      BY <1>5 DEF LowerRanks, Ranks
    <3>2. At(LowerRanks(r), l)' = {}
      BY <3>1 DEF At, LowerRanks
    <3>3. QED
      BY <3>2, FS_EmptySet
  <2>2. QED
    BY <1>1, <1>3, <1>5, <2>1 DEF Numbers
<1>6. NumRanks > 1 \/ NumRanks = 1
  OBVIOUS
<1>7. QED
  BY <1>4, <1>5, <1>6

(* What the reduction returns is the keys of the lower ranks.               *)
LEMMA NumbersReduced ==
  ASSUME NumberInv, NEW r \in Ranks, Exscan(r)
  PROVE  Numbers(r)'
<1>1. /\ pc[r] = "exscan" /\ pc'[r] = "fix" /\ keys' = keys /\ res' = res
      /\ level_histo_scanned'[r] = [l \in Levels |-> SumBelow(r, l)]
  BY DEF Exscan, NumberInv, HistoInv, RowsInv, RowsOK
<1>2. NumRanks > 1
  BY <1>1, IndexByLevelAssumption DEF NumberInv, HistoInv
<1>3. ASSUME NEW l \in Levels PROVE SumBelow(r, l) = Cardinality(At(LowerRanks(r), l))
  BY <1>2, SumIsNat DEF NumberInv, HistoInv, Exscan
<1>4. \A S, l : At(S, l)' = At(S, l)
  BY <1>1 DEF At, Keys, Level
<1>5. QED
  BY <1>1, <1>3, <1>4 DEF NumberInv, Numbers

(* "now fix indexes with offsets computed just above"                       *)
LEMMA NumbersFixed ==
  ASSUME NumberInv, NEW r \in Ranks, FixIndexes(r)
  PROVE  Numbers(r)'
<1>1. /\ pc[r] = "fix" /\ pc'[r] = "done" /\ keys' = keys
      /\ res'[r] = [i \in DOMAIN keys[r] |->
                      IF res[r][i] = Uninit THEN Uninit
                      ELSE res[r][i] + level_histo_scanned[r][keys[r][i]]]
  BY DEF FixIndexes, NumberInv, HistoInv, RowsInv, RowsOK
<1>2. ASSUME NEW i \in DOMAIN keys[r]
      PROVE  res'[r][i] = Scanned(keys[r], i) + Cardinality(At(LowerRanks(r), keys[r][i]))
  <2>1. keys[r][i] \in Levels /\ Scanned(keys[r], i) \in Nat
    BY KeyFacts, CountsAreNat DEF NumberInv, HistoInv, RowsInv
  <2>2. res[r][i] = Scanned(keys[r], i)
    BY <1>1 DEF NumberInv, Numbers
  <2>3. level_histo_scanned[r][keys[r][i]] = Cardinality(At(LowerRanks(r), keys[r][i]))
    BY <1>1, <2>1 DEF NumberInv, Numbers
  <2>4. res[r][i] # Uninit
    BY <2>1, <2>2 DEF Uninit
  <2>5. QED
    BY <1>1, <2>2, <2>3, <2>4
<1>3. \A S, l : At(S, l)' = At(S, l)
  BY <1>1 DEF At, Keys, Level
<1>4. QED
  BY <1>1, <1>2, <1>3 DEF Numbers

(* Every step keeps NumberInv, if the groups of levels reach level_max. *)
LEMMA NumbersNext ==
  ASSUME EveryLevelScanned
  PROVE  NumberInv /\ [Next]_vars => NumberInv'
<1> SUFFICES ASSUME NumberInv, [Next]_vars PROVE NumberInv'
  OBVIOUS
<1>1. HistoInv'
  BY HistoNext DEF NumberInv
<1>2. DOMAIN pc = Ranks /\ DOMAIN res = Ranks /\ DOMAIN level_start = Ranks
      /\ DOMAIN level_histo_scanned = Ranks
  BY DEF NumberInv, HistoInv, RowsInv, RowsOK
<1>3. ASSUME NEW s \in Ranks PROVE Numbers(s)'
  <2>1. ASSUME NEW r \in Ranks, ScanGroup(r) \/ CountLevels(r) \/ Exscan(r) \/ FixIndexes(r)
        PROVE  Numbers(s)'
    <3>1. CASE s = r
      BY <2>1, <3>1, NumbersScan, NumbersCounted, NumbersReduced, NumbersFixed
    <3>2. CASE s # r
      <4>1. /\ keys' = keys /\ pc'[s] = pc[s] /\ res'[s] = res[s]
            /\ level_start'[s] = level_start[s]
            /\ level_histo_scanned'[s] = level_histo_scanned[s]
        BY <1>2, <2>1, <3>2 DEF ScanGroup, CountLevels, Exscan, FixIndexes
      <4>2. QED
        BY <4>1, NumbersKept DEF NumberInv
    <3>3. QED
      BY <3>1, <3>2
  <2>2. CASE UNCHANGED vars
    BY <2>2, NumbersKept DEF NumberInv, vars
  <2>3. QED
    BY <2>1, <2>2 DEF Next
<1>4. QED
  BY <1>1, <1>3 DEF NumberInv

----------------------------------------------------------------------------
(* The ids of a level                                                       *)

(* Of two keys, one is before the other.                                    *)
LEMMA BeforeIsOrder ==
  ASSUME NEW k \in Keys, NEW m \in Keys
  PROVE  /\ ~ Before(k, k)
         /\ k # m => Before(k, m) \/ Before(m, k)
         /\ \A n \in Keys : Before(k, m) /\ Before(m, n) => Before(k, n)
<1>1. \A n \in Keys : n[1] \in Int /\ n[2] \in Int /\ n = <<n[1], n[2]>>
  BY IndexByLevelAssumption DEF Keys, Ranks
<1>2. QED
  BY <1>1 DEF Before

(* When a rank has returned, the id of each of its keys is the number of    *)
(* the keys of that level before it, over all ranks.                        *)
LEMMA IndexCountsBefore ==
  ASSUME NumberInv, Stopped, NEW k \in Keys
  PROVE  Index(k) = Cardinality({m \in At(Ranks, Level(k)) : Before(m, k)})
<1> DEFINE r == k[1]
           i == k[2]
           l == Level(k)
           J == {j \in DOMAIN keys[r] : j < i /\ keys[r][j] = l}
           A == {<<r, j>> : j \in J}
           B == At(LowerRanks(r), l)
<1>1. /\ r \in Ranks /\ i \in DOMAIN keys[r] /\ l = keys[r][i] /\ pc[r] = "done"
      /\ KeysOK
  BY DEF Keys, Level, Stopped, NumberInv, HistoInv, RowsInv
<1>2. IsFiniteSet(DOMAIN keys[r]) /\ DOMAIN keys[r] \subseteq 1 .. MaxKeys
  BY <1>1, KeyFacts
<1>3. Index(k) = Cardinality(J) + Cardinality(B)
  <2>1. Index(k) = Scanned(keys[r], i) + Cardinality(At(LowerRanks(r), keys[r][i]))
    BY <1>1 DEF NumberInv, Numbers, Index
  <2>2. Scanned(keys[r], i) = Cardinality(J)
    BY <1>1 DEF Scanned
  <2>3. QED
    BY <1>1, <2>1, <2>2
<1>4. IsFiniteSet(J) /\ Cardinality(J) \in Nat
  BY <1>2, FS_Subset, FS_CardinalityType
<1>5. IsFiniteSet(A) /\ Cardinality(A) = Cardinality(J)
  <2> HIDE DEF J
  <2>1. QED
    BY <1>4, PlacesOfRank
<1>6. IsFiniteSet(B) /\ Cardinality(B) \in Nat
  BY <1>1, AtFinite
<1>7. A \cap B = {}
  BY <1>1, IndexByLevelAssumption DEF At, LowerRanks, Ranks
<1>8. {m \in At(Ranks, l) : Before(m, k)} = A \cup B
  <2>1. ASSUME NEW m \in At(Ranks, l), Before(m, k) PROVE m \in A \cup B
    <3>1. /\ m \in Keys /\ m[1] \in Ranks /\ m[2] \in DOMAIN keys[m[1]]
          /\ keys[m[1]][m[2]] = l /\ m = <<m[1], m[2]>>
      BY DEF At, Keys, Level
    <3>2. CASE m[1] = r
      <4>1. m[2] < i
        BY <1>1, <2>1, <3>2, IndexByLevelAssumption DEF Before, Ranks
      <4>2. m[2] \in J
        BY <3>1, <3>2, <4>1
      <4>3. QED
        BY <3>1, <3>2, <4>2
    <3>3. CASE m[1] # r
      <4>1. m[1] < r
        BY <2>1, <3>3 DEF Before
      <4>2. QED
        BY <3>1, <4>1 DEF At, LowerRanks, Level
    <3>4. QED
      BY <3>2, <3>3
  <2>2. ASSUME NEW j \in J PROVE <<r, j>> \in At(Ranks, l) /\ Before(<<r, j>>, k)
    BY <1>1, <1>2 DEF At, Keys, Level, Before
  <2>3. ASSUME NEW m \in B PROVE m \in At(Ranks, l) /\ Before(m, k)
    BY <1>1 DEF At, LowerRanks, Before
  <2> HIDE DEF B, J, l
  <2>4. QED
    BY <2>1, <2>2, <2>3
<1>9. Cardinality(A \cup B) = Cardinality(A) + Cardinality(B)
  <2> HIDE DEF A, B
  <2>1. Cardinality({}) = 0
    BY FS_EmptySet
  <2>2. Cardinality(A \cup B) = Cardinality(A) + Cardinality(B) - Cardinality(A \cap B)
    BY <1>5, <1>6, FS_Union
  <2>3. Cardinality(A) \in Nat /\ Cardinality(B) \in Nat
    BY <1>4, <1>5, <1>6
  <2>4. Cardinality(A \cap B) = 0
    BY <1>7, <2>1
  <2>5. QED
    BY <2>2, <2>3, <2>4
<1>10. QED
  BY <1>3, <1>5, <1>8, <1>9

(* The index of a key of K counts those before it; the indexes are 0, 1,    *)
(* ... in the order of the keys.                                            *)
CountsBefore(K, index) == \A k \in K : index[k] = Cardinality({m \in K : Before(m, k)})

FromZeroInOrder(K, index) ==
    /\ {index[k] : k \in K} = 0 .. Cardinality(K) - 1
    /\ \A k, m \in K : Before(k, m) => index[k] < index[m]

(* Counting those before it numbers a finite ordered set from 0.            *)
LEMMA NumberedFromZero ==
  ASSUME NEW K, K \subseteq Keys, IsFiniteSet(K), NEW index, CountsBefore(K, index)
  PROVE  FromZeroInOrder(K, index)
<1> DEFINE below(k) == {m \in K : Before(m, k)}
           N == Cardinality(K)
           f == [k \in K |-> index[k]]
<1>1. ASSUME NEW k \in K
      PROVE  IsFiniteSet(below(k)) /\ index[k] = Cardinality(below(k)) /\ index[k] \in Nat
             /\ k \notin below(k)
  BY FS_Subset, FS_CardinalityType, BeforeIsOrder DEF CountsBefore
<1>2. N \in Nat
  BY FS_CardinalityType
<1>3. ASSUME NEW k \in K, NEW S \in SUBSET K, below(k) \subseteq S, k \in S
      PROVE  index[k] < Cardinality(S)
  <2>1. IsFiniteSet(S) /\ Cardinality(S) \in Nat
    BY FS_Subset, FS_CardinalityType
  <2>2. /\ IsFiniteSet(below(k) \cup {k})
        /\ Cardinality(below(k) \cup {k}) = index[k] + 1
    <3> HIDE DEF below
    <3>1. QED
      BY <1>1, FS_AddElement
  <2>3. below(k) \cup {k} \in SUBSET S
    BY <1>3
  <2>4. Cardinality(below(k) \cup {k}) <= Cardinality(S)
    <3> HIDE DEF below
    <3>1. QED
      BY <2>1, <2>3, FS_Subset
  <2> HIDE DEF below
  <2>5. QED
    BY <1>1, <2>1, <2>2, <2>4
<1>4. ASSUME NEW k \in K, NEW m \in K, Before(k, m) PROVE index[k] < index[m]
  <2>1. below(k) \subseteq below(m) /\ k \in below(m)
    BY <1>4, BeforeIsOrder
  <2>2. below(m) \in SUBSET K
    OBVIOUS
  <2>3. index[k] < Cardinality(below(m))
    <3> HIDE DEF below
    <3>1. QED
      BY <1>3, <2>1, <2>2
  <2>4. QED
    BY <1>1, <2>3
<1>5. ASSUME NEW k \in K PROVE index[k] \in 0 .. N - 1
  <2>1. index[k] < N
    BY <1>3
  <2>2. index[k] \in Nat
    BY <1>1
  <2> HIDE DEF below, N
  <2>3. QED
    BY <1>2, <2>1, <2>2
<1>6. f \in Injection(K, 0 .. N - 1)
  <2>1. f \in [K -> 0 .. N - 1]
    BY <1>5
  <2>2. ASSUME NEW k \in K, NEW m \in K, f[k] = f[m] PROVE k = m
    <3>1. SUFFICES ASSUME k # m PROVE FALSE
      OBVIOUS
    <3>2. index[k] < index[m] \/ index[m] < index[k]
      BY <1>4, <3>1, BeforeIsOrder
    <3>3. index[k] \in Nat /\ index[m] \in Nat /\ index[k] = index[m]
      BY <1>1, <2>2
    <3>4. QED
      BY <3>2, <3>3
  <2> HIDE DEF f
  <2>3. QED
    <3>1. IsInjective(f)
      BY <2>1, <2>2 DEF IsInjective
    <3>2. QED
      BY <2>1, <3>1 DEF Injection
<1>7. IsFiniteSet(0 .. N - 1) /\ Cardinality(0 .. N - 1) = N
  BY <1>2, FS_Interval
<1>8. f \in Surjection(K, 0 .. N - 1)
  <2> HIDE DEF f
  <2>1. QED
    BY <1>6, <1>7, FS_Injection
<1>9. {index[k] : k \in K} = 0 .. N - 1
  BY <1>5, <1>8 DEF Surjection
<1>10. QED
  BY <1>4, <1>9 DEF FromZeroInOrder

(* "each block must be attributed an id, going from 0 to N(l)-1": when all  *)
(* ranks have returned, the ids of the keys of a level are those, in the    *)
(* order of the keys over all ranks, if the groups of levels cover          *)
(* level_max (compute_index_by_level).                                      *)
THEOREM IdsOfLevels ==
  ASSUME EveryLevelScanned
  PROVE  Spec => []BlocksNumbered
<1>1. NumberInv => BlocksNumbered
  <2> SUFFICES ASSUME NumberInv, Stopped, NEW l \in Levels PROVE
          LET K == {k \in Keys : Level(k) = l} IN
            /\ {Index(k) : k \in K} = 0 .. Cardinality(K) - 1
            /\ \A k, m \in K : Before(k, m) => Index(k) < Index(m)
    BY DEF BlocksNumbered
  <2> DEFINE K == {k \in Keys : Level(k) = l}
             index == [k \in K |-> Index(k)]
  <2>1. K = At(Ranks, l) /\ K \subseteq Keys
    BY DEF At, Keys
  <2>2. IsFiniteSet(K)
    BY <2>1, AtFinite DEF NumberInv, HistoInv, RowsInv
  <2>3. CountsBefore(K, index)
    <3>1. ASSUME NEW k \in K PROVE index[k] = Cardinality({m \in At(Ranks, l) : Before(m, k)})
      BY IndexCountsBefore
    <3>2. QED
      BY <2>1, <3>1 DEF CountsBefore
  <2>4. FromZeroInOrder(K, index)
    <3> HIDE DEF K, index
    <3>1. QED
      BY <2>1, <2>2, <2>3, NumberedFromZero
  <2>5. {index[k] : k \in K} = {Index(k) : k \in K}
    OBVIOUS
  <2>6. QED
    BY <2>4, <2>5 DEF FromZeroInOrder
<1>2. Spec => []NumberInv
  BY NumbersInit, NumbersNext, PTL DEF Spec
<1>3. QED
  BY <1>1, <1>2, PTL
=============================================================================

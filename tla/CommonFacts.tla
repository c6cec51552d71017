----------------------------- MODULE CommonFacts -----------------------------
(***************************************************************************)
(* Facts every proof module needs.  Induction and recursion: the induction  *)
(* theorems of the library are about a formula; these are about a set, and  *)
(* a recursive definition is given by a function, so that they can be       *)
(* applied to the folds and recursive functions of the models.  The owner   *)
(* of a leaf in a p4est partition: the global index of the first leaf of    *)
(* each rank, with the total at the end.  Sequences: parts and              *)
(* concatenations, a sequence of sequences one after the other, and the     *)
(* order in which a fold goes through a sequence.                           *)
(***************************************************************************)
EXTENDS Integers, SequencesExt, SequenceTheorems, FiniteSetTheorems,
        WellFoundedInduction, TLAPS

(* Every set of naturals that is not empty has a least element.             *)
LEMMA LeastNat ==
  ASSUME NEW S, S \subseteq Nat, S # {}
  PROVE  \E m \in S : \A n \in S : m <= n
<1>1. \E m \in S : \A n \in S : ~ (<<n, m>> \in OpToRel(<, Nat))
  BY WFMin, NatLessThanWellFounded
<1>2. PICK m \in S : \A n \in S : ~ (<<n, m>> \in OpToRel(<, Nat))
  BY <1>1
<1>3. \A n \in S : ~ (n < m)
  BY <1>2, Zenon DEF OpToRel
<1>4. QED
  BY <1>3

(* A set that holds 0 and the successor of each of its members holds every  *)
(* natural number.                                                          *)
LEMMA EveryNat ==
  ASSUME NEW P, 0 \in P, \A n \in Nat : n \in P => n + 1 \in P
  PROVE  \A n \in Nat : n \in P
<1> DEFINE S == {n \in Nat : n \notin P}
<1>1. SUFFICES ASSUME S # {} PROVE FALSE
  OBVIOUS
<1>2. S \subseteq Nat
  OBVIOUS
<1>3. PICK m \in S : \A n \in S : m <= n
  <2> HIDE DEF S
  <2>1. QED
    BY <1>1, <1>2, LeastNat
<1>4. m - 1 \in Nat /\ m - 1 + 1 = m
  BY <1>3
<1>5. m - 1 \notin S
  <2>1. ~ (m <= m - 1)
    BY <1>4
  <2> HIDE DEF S
  <2>2. QED
    BY <1>3, <2>1
<1>6. QED
  BY <1>3, <1>4, <1>5

(* A set of sets that holds a finite set as soon as it holds the set less   *)
(* any one of its elements, and holds the empty set, holds them all.        *)
LEMMA EverySubset ==
  ASSUME NEW S, IsFiniteSet(S), NEW P,
         {} \in P,
         \A T \in SUBSET S : T # {} /\ (\A x \in T : T \ {x} \in P) => T \in P
  PROVE  \A T \in SUBSET S : T \in P
<1> DEFINE Q == {n \in Nat : \A T \in SUBSET S : Cardinality(T) <= n => T \in P}
<1>1. \A T \in SUBSET S : IsFiniteSet(T) /\ Cardinality(T) \in Nat
  BY FS_Subset, FS_CardinalityType
<1>2. 0 \in Q
  <2>1. ASSUME NEW T \in SUBSET S, Cardinality(T) <= 0 PROVE T = {}
    BY <1>1, <2>1, FS_EmptySet
  <2>2. QED
    BY <2>1
<1>3. ASSUME NEW n \in Nat, n \in Q PROVE n + 1 \in Q
  <2>1. SUFFICES ASSUME NEW T \in SUBSET S, Cardinality(T) <= n + 1 PROVE T \in P
    OBVIOUS
  <2>2. CASE T = {}
    BY <2>2
  <2>3. CASE T # {}
    <3>1. ASSUME NEW x \in T PROVE T \ {x} \in P
      <4>1. Cardinality(T \ {x}) = Cardinality(T) - 1
        BY <1>1, FS_RemoveElement
      <4>2. T \ {x} \in SUBSET S /\ Cardinality(T \ {x}) <= n
        BY <1>1, <2>1, <4>1
      <4>3. QED
        BY <1>3, <4>2
    <3>2. QED
      BY <2>3, <3>1
  <2>4. QED
    BY <2>2, <2>3
<1>4. \A n \in Nat : n \in Q
  <2> HIDE DEF Q
  <2>1. QED
    BY <1>2, <1>3, EveryNat
<1>5. QED
  BY <1>1, <1>4

(* A fold over the subsets of S: what it is on a set is computed from what  *)
(* it is on the set less the element chosen.                                *)
HasFold(S, X, base, choose, step) ==
    \E g \in [SUBSET S -> X] :
       \A T \in SUBSET S :
          g[T] = IF T = {} THEN base ELSE step[choose[T]][g[T \ {choose[T]}]]

(* A fold over the subsets of a finite set exists.                          *)
LEMMA FoldExists ==
  ASSUME NEW S, IsFiniteSet(S), NEW X, NEW base \in X,
         NEW choose, \A T \in SUBSET S : T # {} => choose[T] \in T,
         NEW step, \A x \in S, v \in X : step[x][v] \in X
  PROVE  HasFold(S, X, base, choose, step)
<1> DEFINE Next(g, T) == IF T = {} THEN base ELSE step[choose[T]][g[T \ {choose[T]}]]
           Q == {n \in Nat : \E g \in [SUBSET S -> X] :
                               \A T \in SUBSET S : Cardinality(T) <= n => g[T] = Next(g, T)}
<1>1. \A T \in SUBSET S : IsFiniteSet(T) /\ Cardinality(T) \in Nat
  BY FS_Subset, FS_CardinalityType
<1>2. \A T \in SUBSET S : T # {} => /\ T \ {choose[T]} \in SUBSET S
                                    /\ Cardinality(T \ {choose[T]}) = Cardinality(T) - 1
  BY <1>1, FS_RemoveElement
<1>3. 0 \in Q
  <2> DEFINE g == [T \in SUBSET S |-> base]
  <2>1. ASSUME NEW T \in SUBSET S, Cardinality(T) <= 0 PROVE g[T] = Next(g, T)
    <3>1. T = {}
      BY <1>1, <2>1, FS_EmptySet
    <3>2. QED
      BY <3>1
  <2>2. g \in [SUBSET S -> X]
    OBVIOUS
  <2>3. QED
    BY <2>1, <2>2
<1>4. ASSUME NEW n \in Nat, n \in Q PROVE n + 1 \in Q
  <2>1. PICK g \in [SUBSET S -> X] :
            \A T \in SUBSET S : Cardinality(T) <= n => g[T] = Next(g, T)
    BY <1>4
  <2> DEFINE h == [T \in SUBSET S |-> IF Cardinality(T) <= n THEN g[T] ELSE Next(g, T)]
  <2>2. h \in [SUBSET S -> X]
    BY <1>2
  <2>3. ASSUME NEW T \in SUBSET S, Cardinality(T) <= n + 1 PROVE h[T] = Next(h, T)
    <3>1. h[T] = Next(g, T)
      BY <2>1
    <3>2. T # {} => h[T \ {choose[T]}] = g[T \ {choose[T]}]
      BY <1>1, <1>2, <2>3
    <3>3. QED
      BY <3>1, <3>2
  <2> HIDE DEF h
  <2>4. n + 1 \in Nat
    OBVIOUS
  <2>5. QED
    BY <2>2, <2>3, <2>4
<1>5. \A n \in Nat : n \in Q
  <2> HIDE DEF Q
  <2>1. QED
    BY <1>3, <1>4, EveryNat
<1>6. Cardinality(S) \in Nat /\ \A T \in SUBSET S : Cardinality(T) <= Cardinality(S)
  BY <1>1, FS_Subset
<1>7. PICK g \in [SUBSET S -> X] :
          \A T \in SUBSET S : Cardinality(T) <= Cardinality(S) => g[T] = Next(g, T)
  BY <1>5, <1>6
<1>8. \A T \in SUBSET S : g[T] = Next(g, T)
  BY <1>6, <1>7
<1>9. QED
  BY <1>8 DEF HasFold

(* A recursive function over m .. n, each value computed from the one       *)
(* before, with its values in the sets X.                                   *)
HasChain(m, n, X, base, step) ==
    \E g : /\ g = [i \in m .. n |-> IF i = m THEN base ELSE step[i][g[i - 1]]]
           /\ \A i \in m .. n : g[i] \in X[i]

(* A recursive function over an interval exists.                            *)
LEMMA ChainExists ==
  ASSUME NEW m \in Int, NEW n \in Int, m <= n,
         NEW X, NEW base \in X[m],
         NEW step, \A i \in m + 1 .. n : \A v \in X[i - 1] : step[i][v] \in X[i]
  PROVE  HasChain(m, n, X, base, step)
<1> DEFINE Q == {k \in Nat : m + k <= n => HasChain(m, m + k, X, base, step)}
<1>1. 0 \in Q
  <2> DEFINE g == [i \in m .. m |-> base]
  <2>1. g = [i \in m .. m |-> IF i = m THEN base ELSE step[i][g[i - 1]]]
    OBVIOUS
  <2>2. \A i \in m .. m : g[i] \in X[i]
    OBVIOUS
  <2>3. HasChain(m, m, X, base, step)
    BY <2>1, <2>2 DEF HasChain
  <2>4. m + 0 = m
    OBVIOUS
  <2>5. QED
    BY <2>3, <2>4
<1>2. ASSUME NEW k \in Nat, k \in Q PROVE k + 1 \in Q
  <2>1. SUFFICES ASSUME m + (k + 1) <= n PROVE HasChain(m, m + (k + 1), X, base, step)
    OBVIOUS
  <2>2. HasChain(m, m + k, X, base, step)
    BY <1>2, <2>1
  <2>3. PICK g : /\ g = [i \in m .. m + k |-> IF i = m THEN base ELSE step[i][g[i - 1]]]
                 /\ \A i \in m .. m + k : g[i] \in X[i]
    BY <2>2 DEF HasChain
  <2> DEFINE h == [i \in m .. m + (k + 1) |-> IF i <= m + k THEN g[i] ELSE step[i][g[i - 1]]]
  <2>4. \A i \in m .. m + (k + 1) : i <= m + k <=> i \in m .. m + k
    OBVIOUS
  <2>5. \A i \in m .. m + k : h[i] = g[i]
    BY <2>4
  <2>6. \A i \in m .. m + (k + 1) : i # m => i - 1 \in m .. m + k
    OBVIOUS
  <2>7. \A i \in m .. m + (k + 1) : h[i] = IF i = m THEN base ELSE step[i][h[i - 1]]
    <3>1. TAKE i \in m .. m + (k + 1)
    <3>2. CASE i \in m .. m + k
      <4>1. h[i] = g[i] /\ (i # m => h[i - 1] = g[i - 1])
        BY <2>5, <2>6, <3>2
      <4>2. g[i] = IF i = m THEN base ELSE step[i][g[i - 1]]
        BY <2>3, <3>2
      <4> HIDE DEF h
      <4>3. QED
        BY <4>1, <4>2
    <3>3. CASE i \notin m .. m + k
      <4>1. i # m /\ h[i] = step[i][g[i - 1]]
        BY <2>4, <3>3
      <4>2. h[i - 1] = g[i - 1]
        BY <2>5, <2>6, <4>1
      <4> HIDE DEF h
      <4>3. QED
        BY <4>1, <4>2
    <3>4. QED
      BY <3>2, <3>3
  <2>8. \A i \in m .. m + (k + 1) : h[i] \in X[i]
    <3>1. TAKE i \in m .. m + (k + 1)
    <3>2. CASE i \in m .. m + k
      BY <2>3, <2>5, <3>2
    <3>3. CASE i \notin m .. m + k
      <4>1. i # m /\ i \in m + 1 .. n /\ h[i] = step[i][g[i - 1]] /\ i - 1 \in m .. m + k
        BY <2>1, <2>4, <2>6, <3>3
      <4>2. g[i - 1] \in X[i - 1]
        BY <2>3, <4>1
      <4> HIDE DEF h
      <4>3. QED
        BY <4>1, <4>2
    <3>4. QED
      BY <3>2, <3>3
  <2>9. h = [i \in m .. m + (k + 1) |-> IF i = m THEN base ELSE step[i][h[i - 1]]]
    <3>1. DOMAIN h = m .. m + (k + 1) /\ h = [i \in m .. m + (k + 1) |-> h[i]]
      OBVIOUS
    <3> HIDE DEF h
    <3>2. QED
      BY <2>7, <3>1
  <2> HIDE DEF h
  <2>10. QED
    BY <2>8, <2>9 DEF HasChain
<1>3. \A k \in Nat : k \in Q
  <2> HIDE DEF Q
  <2>1. QED
    BY <1>1, <1>2, EveryNat
<1>4. n - m \in Nat /\ m + (n - m) = n
  OBVIOUS
<1>5. QED
  BY <1>3, <1>4

(* Every leaf has an owner: p4est_bsearch_partition finds a rank whose      *)
(* range holds the index, however many ranks are empty.                     *)
LEMMA SomeOwner ==
  ASSUME NEW N \in Nat, N >= 1, NEW Q \in Nat, NEW g \in [0 .. N -> 0 .. Q],
         g[0] = 0, g[N] = Q, NEW t \in Nat, t < Q
  PROVE  \E r \in 0 .. N - 1 : g[r] <= t /\ t < g[r + 1]
<1> DEFINE R == 0 .. N - 1
           S == {r \in R : t < g[r + 1]}
<1>1. N - 1 \in S
  <2>1. N - 1 + 1 = N /\ N - 1 \in 0 .. N - 1
    OBVIOUS
  <2>2. QED
    BY <2>1
<1>2. PICK m \in S : \A n \in S : m <= n
  <2>1. R \subseteq Nat
    OBVIOUS
  <2>2. S \subseteq Nat /\ S # {}
    BY <1>1, <2>1
  <2> HIDE DEF S
  <2>3. QED
    BY <2>2, LeastNat
<1>3. g[m] <= t
  <2>1. CASE m = 0
    BY <2>1
  <2>2. CASE m # 0
    <3>1. m \in R /\ m - 1 \in R /\ m - 1 + 1 = m
      BY <2>2
    <3>2. m - 1 \notin S
      <4>1. m \in Int /\ ~ (m <= m - 1)
        BY <3>1
      <4> HIDE DEF S
      <4>2. QED
        BY <1>2, <4>1
    <3>3. g[m] \in Int
      BY <3>1
    <3>4. QED
      BY <3>1, <3>2, <3>3
  <2>3. QED
    BY <2>1, <2>2
<1>4. QED
  BY <1>2, <1>3

----------------------------------------------------------------------------
(* Sequences                                                                *)

(* A part of a sequence.                                                    *)
LEMMA PartOfSeq ==
  ASSUME NEW X, NEW s \in Seq(X), NEW m \in Nat, NEW n \in Nat, m <= n, n <= Len(s)
  PROVE  /\ SubSeq(s, m + 1, n) \in Seq(X)
         /\ Len(SubSeq(s, m + 1, n)) = n - m
         /\ \A j \in 1 .. n - m : SubSeq(s, m + 1, n)[j] = s[m + j]
<1> DEFINE k == m + 1
<1>1. k \in Int /\ k <= n + 1 /\ n - k + 1 = n - m /\ k - 1 = m
  OBVIOUS
<1>2. \A i \in k .. n : s[i] \in X
  BY <1>1
<1> HIDE DEF k
<1>3. /\ SubSeq(s, k, n) \in Seq(X)
      /\ Len(SubSeq(s, k, n)) = IF k <= n THEN n - k + 1 ELSE 0
  BY <1>1, <1>2, SubSeqProperties
<1>4. \A j \in 1 .. n - k + 1 : SubSeq(s, k, n)[j] = s[k + j - 1]
  BY <1>1, <1>2, SubSeqProperties
<1>5. \A j \in Int : k + j - 1 = m + j
  BY <1>1
<1>6. \A j \in 1 .. n - m : SubSeq(s, k, n)[j] = s[m + j]
  BY <1>1, <1>4, <1>5
<1>7. Len(SubSeq(s, k, n)) = n - m
  BY <1>1, <1>3
<1>8. QED
  BY <1>3, <1>6, <1>7 DEF k

(* The first part of a sequence.                                            *)
LEMMA FirstPart ==
  ASSUME NEW X, NEW s \in Seq(X), NEW n \in 0 .. Len(s)
  PROVE  /\ SubSeq(s, 1, n) \in Seq(X)
         /\ Len(SubSeq(s, 1, n)) = n
         /\ \A j \in 1 .. n : SubSeq(s, 1, n)[j] = s[j]
<1>1. /\ 0 \in Nat /\ n \in Nat /\ 0 <= n /\ n <= Len(s) /\ n - 0 = n /\ 0 + 1 = 1
      /\ \A j \in 1 .. n : 0 + j = j
  OBVIOUS
<1>2. /\ SubSeq(s, 0 + 1, n) \in Seq(X)
      /\ Len(SubSeq(s, 0 + 1, n)) = n - 0
      /\ \A j \in 1 .. n - 0 : SubSeq(s, 0 + 1, n)[j] = s[0 + j]
  <2>1. 0 \in Nat /\ n \in Nat /\ 0 <= n /\ n <= Len(s)
    BY <1>1
  <2>2. QED
    BY <2>1, PartOfSeq, Zenon
<1>3. QED
  BY <1>1, <1>2

(* One sequence after another.                                              *)
LEMMA Joined ==
  ASSUME NEW X, NEW s \in Seq(X), NEW t \in Seq(X)
  PROVE  /\ s \o t \in Seq(X)
         /\ Len(s \o t) = Len(s) + Len(t)
         /\ \A j \in 1 .. Len(t) : (s \o t)[Len(s) + j] = t[j]
<1>1. s \o t \in Seq(X) /\ Len(s \o t) = Len(s) + Len(t)
  BY ConcatProperties
<1>2. ASSUME NEW j \in 1 .. Len(t) PROVE (s \o t)[Len(s) + j] = t[j]
  <2> DEFINE i == Len(s) + j
  <2>1. i \in 1 .. Len(s) + Len(t) /\ ~ (i <= Len(s)) /\ i - Len(s) = j
    OBVIOUS
  <2> HIDE DEF i
  <2>2. (s \o t)[i] = t[j]
    BY <2>1, ConcatProperties
  <2>3. QED
    BY <2>2 DEF i
<1>3. QED
  BY <1>1, <1>2

(* One sequence after another: the first part.                              *)
LEMMA JoinedFirst ==
  ASSUME NEW X, NEW s \in Seq(X), NEW t \in Seq(X)
  PROVE  \A j \in 1 .. Len(s) : (s \o t)[j] = s[j]
<1>1. \A i \in 1 .. Len(s) + Len(t) : (s \o t)[i] = IF i <= Len(s) THEN s[i] ELSE t[i - Len(s)]
  BY ConcatProperties
<1>2. Len(s) \in Nat /\ Len(t) \in Nat
  OBVIOUS
<1>3. QED
  BY <1>1, <1>2

(* A sequence of sequences, flattened: what holds of the first and is kept  *)
(* when one more is appended.                                               *)
LEMMA FlattenIn ==
  ASSUME NEW X, NEW seqs \in Seq(Seq(X)), Len(seqs) # 0,
         NEW sets, seqs[1] \in sets[1],
         \A i \in 2 .. Len(seqs) : \A v \in sets[i - 1] : v \o seqs[i] \in sets[i]
  PROVE  FlattenSeq(seqs) \in sets[Len(seqs)]
<1> DEFINE n == Len(seqs)
           rule(g) == [i \in 1 .. n |-> IF i = 1 THEN seqs[i] ELSE g[i - 1] \o seqs[i]]
           step == [i \in 1 .. n |-> [v \in UNION {sets[k] : k \in 1 .. n} |-> v \o seqs[i]]]
<1>1. n \in Nat /\ 1 <= n
  OBVIOUS
<1>2. ASSUME NEW i \in 1 + 1 .. n, NEW v \in sets[i - 1]
      PROVE  step[i][v] = v \o seqs[i] /\ step[i][v] \in sets[i]
  <2>1. i \in 1 .. n /\ i - 1 \in 1 .. n /\ i \in 2 .. n
    BY <1>1
  <2>2. v \in UNION {sets[k] : k \in 1 .. n}
    BY <2>1
  <2>3. step[i][v] = v \o seqs[i]
    BY <2>1, <2>2
  <2>4. QED
    BY <2>1, <2>3
<1> HIDE DEF n, step
<1>3. PICK c : /\ c = [i \in 1 .. n |-> IF i = 1 THEN seqs[1] ELSE step[i][c[i - 1]]]
               /\ \A i \in 1 .. n : c[i] \in sets[i]
  <2>1. 1 \in Int /\ n \in Int /\ 1 <= n
    BY <1>1
  <2>2. \A i \in 1 + 1 .. n : \A v \in sets[i - 1] : step[i][v] \in sets[i]
    BY <1>2
  <2>3. HasChain(1, n, sets, seqs[1], step)
    BY <2>1, <2>2, ChainExists
  <2>4. QED
    BY <2>3 DEF HasChain
<1>4. c = rule(c)
  <2>1. ASSUME NEW i \in 1 .. n, i # 1 PROVE step[i][c[i - 1]] = c[i - 1] \o seqs[i]
    <3>1. i \in 1 + 1 .. n /\ i - 1 \in 1 .. n
      BY <1>1, <2>1
    <3>2. QED
      BY <1>2, <1>3, <3>1
  <2>2. QED
    BY <1>3, <2>1
<1>5. ASSUME NEW g, g = rule(g) PROVE g[n] \in sets[n]
  <2> DEFINE P == {i \in Nat : i + 1 \in 1 .. n => g[i + 1] \in sets[i + 1]}
  <2>1. 0 \in P
    <3>1. 1 \in 1 .. n /\ g[1] = seqs[1] /\ 0 + 1 = 1
      BY <1>1, <1>5
    <3>2. QED
      BY <1>1, <3>1
  <2>2. ASSUME NEW i \in Nat, i \in P PROVE i + 1 \in P
    <3> DEFINE j == i + 1 + 1
    <3>1. SUFFICES ASSUME j \in 1 .. n PROVE g[j] \in sets[j]
      OBVIOUS
    <3>2. j \in 2 .. n /\ j # 1 /\ j - 1 = i + 1 /\ i + 1 \in 1 .. n
      BY <1>1, <3>1
    <3>3. g[j - 1] \in sets[j - 1]
      BY <2>2, <3>2
    <3> HIDE DEF j
    <3>4. g[j] = g[j - 1] \o seqs[j]
      BY <1>5, <3>1, <3>2
    <3>5. QED
      BY <3>2, <3>3, <3>4 DEF n
  <2>3. n - 1 \in P
    <3> HIDE DEF P
    <3>1. \A i \in Nat : i \in P
      BY <2>1, <2>2, EveryNat
    <3>2. QED
      BY <1>1, <3>1
  <2>4. n - 1 + 1 = n /\ n \in 1 .. n
    BY <1>1
  <2>5. QED
    BY <2>3, <2>4
<1>6. FlattenSeq(seqs) = (CHOOSE g : g = rule(g))[n]
  BY DEF FlattenSeq, n
<1> HIDE DEF rule
<1>7. FlattenSeq(seqs) \in sets[n]
  BY <1>4, <1>5, <1>6
<1>8. QED
  BY <1>7 DEF n

(* A set of places of a sequence has a last one.                            *)
LEMMA LastPlace ==
  ASSUME NEW n \in Nat, NEW T \in SUBSET (1 .. n), T # {}
  PROVE  Max(T) \in T
<1> DEFINE S == {n - x : x \in T}
<1>1. S \subseteq Nat /\ S # {}
  <2>1. \A x \in T : n - x \in Nat
    OBVIOUS
  <2>2. PICK x \in T : TRUE
    OBVIOUS
  <2>3. n - x \in S
    OBVIOUS
  <2>4. QED
    BY <2>1, <2>3
<1>2. PICK m \in S : \A y \in S : m <= y
  <2> HIDE DEF S
  <2>1. QED
    BY <1>1, LeastNat
<1>3. PICK x \in T : m = n - x
  BY <1>2
<1>4. \A y \in T : x >= y
  <2>1. TAKE y \in T
  <2>2. n - y \in S
    BY <2>1
  <2>3. m <= n - y
    BY <1>2, <2>2
  <2>4. QED
    BY <1>3, <2>3
<1>5. QED
  BY <1>4 DEF Max

(* A fold from the left takes the last of the first k places.               *)
LEMMA LastOfFirst ==
  ASSUME NEW k \in Nat, k >= 1
  PROVE  Max(1 .. k) = k /\ (1 .. k) \ {k} = 1 .. k - 1
<1>1. k \in 1 .. k /\ \A y \in 1 .. k : k >= y
  OBVIOUS
<1>2. ASSUME NEW x \in 1 .. k, \A y \in 1 .. k : x >= y PROVE x = k
  BY <1>1, <1>2
<1>3. Max(1 .. k) = k
  BY <1>1, <1>2 DEF Max
<1>4. QED
  BY <1>3

(* What a sequence of sequences is, flattened, up to each of them.          *)
FlattensTo(seqs, X, c) ==
    /\ c \in [0 .. Len(seqs) -> Seq(X)]
    /\ c[0] = <<>>
    /\ \A i \in 1 .. Len(seqs) : c[i] = c[i - 1] \o seqs[i]
    /\ \A n \in 0 .. Len(seqs) : FlattenSeq([i \in 1 .. n |-> seqs[i]]) = c[n]

(* Each prefix of a sequence of sequences adds one of them at the end.      *)
LEMMA FlattenChain ==
  ASSUME NEW X, NEW seqs \in Seq(Seq(X))
  PROVE  \E c : FlattensTo(seqs, X, c)
<1> DEFINE N == Len(seqs)
           sets == [i \in 0 .. N |-> Seq(X)]
           step == [i \in 1 .. N |-> [v \in Seq(X) |-> v \o seqs[i]]]
<1>1. N \in Nat /\ 0 <= N /\ \A i \in 1 .. N : seqs[i] \in Seq(X)
  OBVIOUS
<1>2. PICK c : /\ c = [i \in 0 .. N |-> IF i = 0 THEN <<>> ELSE step[i][c[i - 1]]]
               /\ \A i \in 0 .. N : c[i] \in sets[i]
  <2>1. <<>> \in sets[0]
    BY <1>1
  <2>2. \A i \in 0 + 1 .. N : \A v \in sets[i - 1] : step[i][v] \in sets[i]
    <3>1. TAKE i \in 0 + 1 .. N
    <3>2. i \in 1 .. N /\ i - 1 \in 0 .. N /\ i \in 0 .. N
      BY <1>1
    <3>3. sets[i - 1] = Seq(X) /\ sets[i] = Seq(X)
      BY <3>2
    <3>4. TAKE v \in sets[i - 1]
    <3>5. v \in Seq(X) /\ seqs[i] \in Seq(X)
      BY <1>1, <3>2, <3>3, <3>4
    <3>6. step[i][v] = v \o seqs[i] /\ v \o seqs[i] \in Seq(X)
      BY <3>2, <3>5
    <3> HIDE DEF sets, step, N
    <3>7. QED
      BY <3>3, <3>6
  <2>3. 0 \in Int /\ N \in Int /\ 0 <= N
    BY <1>1
  <2> HIDE DEF sets, step, N
  <2>4. HasChain(0, N, sets, <<>>, step)
    BY <2>1, <2>2, <2>3, ChainExists, Zenon
  <2>5. QED
    BY <2>4 DEF HasChain
<1>3. c \in [0 .. N -> Seq(X)] /\ c[0] = <<>>
  <2>1. \A i \in 0 .. N : c[i] \in Seq(X)
    BY <1>2
  <2>2. 0 \in 0 .. N
    BY <1>1
  <2> HIDE DEF sets, step, N
  <2>3. QED
    BY <1>2, <2>1, <2>2
<1>4. ASSUME NEW i \in 1 .. N PROVE c[i] = c[i - 1] \o seqs[i]
  <2>1. i \in 0 .. N /\ i # 0 /\ i - 1 \in 0 .. N
    BY <1>1
  <2>2. c[i - 1] \in Seq(X)
    BY <1>3, <2>1
  <2>3. step[i][c[i - 1]] = c[i - 1] \o seqs[i]
    BY <2>2
  <2> HIDE DEF step, sets, N
  <2>4. c[i] = step[i][c[i - 1]]
    BY <1>2, <2>1
  <2>5. QED
    BY <2>3, <2>4
<1>5. ASSUME NEW n \in 0 .. N PROVE FlattenSeq([i \in 1 .. n |-> seqs[i]]) = c[n]
  <2> DEFINE s == [i \in 1 .. n |-> seqs[i]]
             one == [i \in 1 .. n |-> {c[i]}]
  <2>1. s \in Seq(Seq(X)) /\ Len(s) = n
    <3>1. n \in Nat /\ \A i \in 1 .. n : seqs[i] \in Seq(X)
      BY <1>1
    <3>2. s \in [1 .. n -> Seq(X)]
      BY <3>1
    <3> HIDE DEF s
    <3>3. QED
      BY <3>1, <3>2
  <2>2. CASE n = 0
    <3>1. s = <<>>
      BY <2>1, <2>2
    <3>2. FlattenSeq(s) = <<>>
      BY <2>1, <2>2, <3>1 DEF FlattenSeq
    <3>3. QED
      BY <1>3, <2>2, <3>2
  <2>3. CASE n # 0
    <3>1. n \in 1 .. n /\ 1 \in 1 .. n /\ 1 \in 1 .. N /\ 1 - 1 = 0
      BY <1>1, <2>3
    <3>2. s[1] \in one[1]
      <4>1. c[1] = c[0] \o seqs[1]
        BY <1>4, <3>1
      <4>2. <<>> \o seqs[1] = seqs[1]
        BY <1>1, <3>1
      <4>3. QED
        BY <1>3, <3>1, <4>1, <4>2
    <3>3. ASSUME NEW i \in 2 .. Len(s), NEW v \in one[i - 1] PROVE v \o s[i] \in one[i]
      <4>1. i \in 1 .. n /\ i - 1 \in 1 .. n /\ i \in 1 .. N
        BY <1>1, <2>1
      <4>2. v = c[i - 1] /\ s[i] = seqs[i]
        BY <4>1
      <4>3. c[i] = c[i - 1] \o seqs[i]
        BY <1>4, <4>1
      <4>4. QED
        BY <4>1, <4>2, <4>3
    <3>4. FlattenSeq(s) \in one[n]
      <4>1. Len(s) # 0
        BY <2>1, <2>3
      <4> HIDE DEF s, one
      <4>2. FlattenSeq(s) \in one[Len(s)]
        BY <2>1, <3>2, <3>3, <4>1, FlattenIn
      <4>3. QED
        BY <2>1, <4>2
    <3>5. QED
      BY <3>1, <3>4
  <2>4. QED
    BY <2>2, <2>3
<1> HIDE DEF sets, step
<1>6. QED
  BY <1>3, <1>4, <1>5 DEF FlattensTo
=============================================================================

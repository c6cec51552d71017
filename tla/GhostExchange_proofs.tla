------------------------ MODULE GhostExchange_proofs ------------------------
(***************************************************************************)
(* The exchange of ghost data brings each ghost the values its owner        *)
(* computed in the same time step, for any number of ranks and leaves, any   *)
(* partition and mesh change, any numbers of variables and any order in      *)
(* which MPI buffers and matches the messages.                              *)
(*                                                                         *)
(* The running sums that cut the buffers come first, then the lists of the   *)
(* ghost layer, then what a buffer holds; the invariant IInv, one lemma per  *)
(* action of the model, and the theorems.                                   *)
(***************************************************************************)
EXTENDS GhostExchange, CommonFacts

----------------------------------------------------------------------------
(* Running sums                                                             *)

(* The leaves of a set, in order.                                           *)
LEMMA OrderType ==
  ASSUME NEW set \in SUBSET Leaves
  PROVE  InMortonOrder(set) \in Seq(set)
<1> DEFINE N == NumLeaves
           Keep(found, l) == IF l \in set THEN Append(found, l) ELSE found
           rule(g) == [n \in 0 .. N |-> IF n = 0 THEN <<>> ELSE Keep(g[n - 1], n - 1)]
           sets == [i \in 0 .. N |-> Seq(set)]
           step == [i \in 1 .. N |-> [v \in Seq(set) |-> Keep(v, i - 1)]]
<1>1. N \in Nat
  BY ExchangeAssumption
<1>2. \A l : \A v \in Seq(set) : Keep(v, l) \in Seq(set)
  OBVIOUS
<1>3. InMortonOrder(set) = (CHOOSE g : g = rule(g))[N]
  BY DEF InMortonOrder
<1> HIDE DEF N, Keep
<1>4. PICK c : /\ c = [i \in 0 .. N |-> IF i = 0 THEN <<>> ELSE step[i][c[i - 1]]]
               /\ \A i \in 0 .. N : c[i] \in sets[i]
  <2>1. /\ 0 \in Int /\ N \in Int /\ 0 <= N /\ <<>> \in sets[0]
        /\ 0 + 1 = 1
    BY <1>1
  <2>2. \A i \in 1 .. N : \A v \in sets[i - 1] : step[i][v] \in sets[i]
    <3>1. TAKE i \in 1 .. N
    <3>2. i \in 0 .. N /\ i - 1 \in 0 .. N
      BY <1>1
    <3>3. TAKE v \in sets[i - 1]
    <3>4. v \in Seq(set) /\ sets[i] = Seq(set)
      BY <3>2
    <3>5. step[i][v] = Keep(v, i - 1)
      BY <3>4
    <3>6. QED
      BY <1>2, <3>4, <3>5
  <2> HIDE DEF sets, step
  <2>3. \A i \in 0 + 1 .. N : \A v \in sets[i - 1] : step[i][v] \in sets[i]
    BY <2>1, <2>2
  <2>4. HasChain(0, N, sets, <<>>, step)
    BY <2>1, <2>3, ChainExists, Zenon
  <2>5. QED
    BY <2>4 DEF HasChain
<1>5. \A i \in 0 .. N : c[i] \in Seq(set)
  BY <1>4
<1>6. c = rule(c)
  <2>1. ASSUME NEW i \in 0 .. N, i # 0 PROVE step[i][c[i - 1]] = Keep(c[i - 1], i - 1)
    <3>1. i \in 1 .. N /\ i - 1 \in 0 .. N
      BY <1>1, <2>1
    <3>2. c[i - 1] \in Seq(set)
      BY <1>5, <3>1
    <3>3. QED
      BY <3>1, <3>2
  <2> HIDE DEF step
  <2>2. QED
    BY <1>4, <2>1
<1>7. ASSUME NEW g, g = rule(g) PROVE g[N] \in Seq(set)
  <2> DEFINE P == {n \in Nat : n <= N => g[n] \in Seq(set)}
  <2>1. 0 \in P
    <3>1. 0 \in 0 .. N
      BY <1>1
    <3>2. g[0] = <<>> /\ <<>> \in Seq(set)
      BY <1>7, <3>1
    <3> HIDE DEF rule
    <3>3. QED
      BY <3>2
  <2>2. ASSUME NEW n \in Nat, n \in P PROVE n + 1 \in P
    <3> DEFINE j == n + 1
    <3>1. SUFFICES ASSUME j <= N PROVE g[j] \in Seq(set)
      OBVIOUS
    <3>2. j \in 0 .. N /\ j # 0 /\ j - 1 = n /\ n <= N
      BY <1>1, <3>1
    <3> HIDE DEF j
    <3>3. g[j] = Keep(g[n], n)
      BY <1>7, <3>2
    <3>4. QED
      BY <1>2, <2>2, <3>2, <3>3
  <2>3. N \in P
    <3> HIDE DEF P
    <3>1. QED
      BY <1>1, <2>1, <2>2, EveryNat
  <2>4. QED
    BY <1>1, <2>3
<1> HIDE DEF rule
<1>8. QED
  BY <1>3, <1>6, <1>7

(* The variables a leaf takes in a buffer, if w[l] is how many leaf l holds. *)
Weight(st, w, l) == IF st = "presence" THEN 1 ELSE w[l]

(* Their running sum over the first n leaves of a list.                     *)
Run(st, w, z, n) == SumOver(SubSeq(z, 1, n), LAMBDA l : IF st = "presence" THEN 1 ELSE w[l])

(* The sum over a whole list.                                               *)
Sum(st, w, z) == SumOver(z, LAMBDA l : IF st = "presence" THEN 1 ELSE w[l])

(* The running sums of a list, as a function.                               *)
SumsTo(st, w, z, h) ==
    /\ h \in [0 .. Len(z) -> Nat]
    /\ h[0] = 0
    /\ \A k \in 1 .. Len(z) : h[k] = h[k - 1] + Weight(st, w, z[k])

(* A list whose leaves have a number of variables has running sums.         *)
LEMMA SumsExist ==
  ASSUME NEW st, NEW w, NEW X, NEW z \in Seq(X), \A l \in X : Weight(st, w, l) \in Nat
  PROVE  \E h : SumsTo(st, w, z, h)
<1> DEFINE N == Len(z)
           sets == [i \in 0 .. N |-> Nat]
           step == [i \in 1 .. N |-> [v \in Nat |-> v + Weight(st, w, z[i])]]
<1>1. N \in Nat /\ 0 <= N /\ \A i \in 1 .. N : Weight(st, w, z[i]) \in Nat
  OBVIOUS
<1>2. PICK c : /\ c = [i \in 0 .. N |-> IF i = 0 THEN 0 ELSE step[i][c[i - 1]]]
               /\ \A i \in 0 .. N : c[i] \in sets[i]
  <2>1. 0 \in sets[0]
    BY <1>1
  <2>2. \A i \in 0 + 1 .. N : \A v \in sets[i - 1] : step[i][v] \in sets[i]
    <3>1. TAKE i \in 0 + 1 .. N
    <3>2. i \in 1 .. N /\ i - 1 \in 0 .. N /\ i \in 0 .. N
      BY <1>1
    <3>3. sets[i - 1] = Nat /\ sets[i] = Nat
      BY <3>2
    <3>4. TAKE v \in sets[i - 1]
    <3>5. v \in Nat /\ Weight(st, w, z[i]) \in Nat
      BY <1>1, <3>2, <3>3, <3>4
    <3>6. step[i][v] = v + Weight(st, w, z[i]) /\ v + Weight(st, w, z[i]) \in Nat
      BY <3>2, <3>5
    <3> HIDE DEF sets, step, N
    <3>7. QED
      BY <3>3, <3>6
  <2>3. 0 \in Int /\ N \in Int /\ 0 <= N
    BY <1>1
  <2> HIDE DEF sets, step, N
  <2>4. HasChain(0, N, sets, 0, step)
    BY <2>1, <2>2, <2>3, ChainExists, Zenon
  <2>5. QED
    BY <2>4 DEF HasChain
<1>3. \A i \in 0 .. N : c[i] \in Nat
  BY <1>2
<1>4. c \in [0 .. N -> Nat] /\ c[0] = 0
  <2>1. 0 \in 0 .. N
    BY <1>1
  <2> HIDE DEF sets, step, N
  <2>2. QED
    BY <1>2, <1>3, <2>1
<1>5. ASSUME NEW i \in 1 .. N PROVE c[i] = c[i - 1] + Weight(st, w, z[i])
  <2>1. i \in 0 .. N /\ i # 0 /\ i - 1 \in 0 .. N
    BY <1>1
  <2>2. c[i - 1] \in Nat
    BY <1>3, <2>1
  <2>3. step[i][c[i - 1]] = c[i - 1] + Weight(st, w, z[i])
    BY <2>2
  <2> HIDE DEF step, sets, N
  <2>4. c[i] = step[i][c[i - 1]]
    BY <1>2, <2>1
  <2>5. QED
    BY <2>3, <2>4
<1> HIDE DEF step, sets
<1>6. QED
  BY <1>4, <1>5 DEF SumsTo

(* The fold that adds up a list is the last of its running sums.            *)
LEMMA SumIs ==
  ASSUME NEW st, NEW w, NEW X, NEW z \in Seq(X), \A l \in X : Weight(st, w, l) \in Nat,
         NEW h, SumsTo(st, w, z, h)
  PROVE  Sum(st, w, z) = h[Len(z)]
<1> DEFINE N == Len(z)
           S == 1 .. N
           Wt(l) == IF st = "presence" THEN 1 ELSE w[l]
           Add(v, l) == v + Wt(l)
           choose  == [T \in SUBSET S |-> Max(T)]
           step    == [i \in S |-> [v \in Nat |-> Add(v, z[i])]]
           rule(g) == [T \in SUBSET S |->
                          IF T = {} THEN 0 ELSE Add(g[T \ {Max(T)}], z[Max(T)])]
<1>1. N \in Nat /\ IsFiniteSet(S) /\ DOMAIN z = S
  BY FS_Interval
<1>2. \A T \in SUBSET S : T # {} => Max(T) \in T
  BY <1>1, LastPlace
<1>3. /\ \A l : Wt(l) = Weight(st, w, l)
      /\ \A i \in S : Wt(z[i]) \in Nat
  BY DEF Weight
<1>4. /\ \A v \in Nat, i \in S : Add(v, z[i]) \in Nat
      /\ \A v \in Nat, i \in S : Add(v, z[i]) = v + Weight(st, w, z[i])
  <2> HIDE DEF Wt
  <2>1. QED
    BY <1>3
<1> HIDE DEF Add
<1>5. \E g : g = rule(g)
  <2>1. HasFold(S, Nat, 0, choose, step)
    <3>1. \A T \in SUBSET S : T # {} => choose[T] \in T
      BY <1>2
    <3>2. \A i \in S, v \in Nat : step[i][v] \in Nat
      BY <1>4
    <3>3. 0 \in Nat
      OBVIOUS
    <3> HIDE DEF choose, step, S
    <3>4. QED
      BY <1>1, <3>1, <3>2, <3>3, FoldExists
  <2>2. PICK g \in [SUBSET S -> Nat] :
            \A T \in SUBSET S :
               g[T] = IF T = {} THEN 0 ELSE step[choose[T]][g[T \ {choose[T]}]]
    BY <2>1 DEF HasFold
  <2>3. ASSUME NEW T \in SUBSET S, T # {} PROVE g[T] = Add(g[T \ {Max(T)}], z[Max(T)])
    <3>1. choose[T] = Max(T) /\ Max(T) \in S /\ T \ {Max(T)} \in SUBSET S
      BY <1>2, <2>3
    <3>2. g[T \ {Max(T)}] \in Nat
      BY <2>2, <3>1
    <3>3. g[T] = step[Max(T)][g[T \ {Max(T)}]]
      BY <2>2, <2>3, <3>1
    <3> HIDE DEF choose
    <3>4. QED
      BY <3>1, <3>2, <3>3
  <2>4. QED
    BY <2>2, <2>3
<1>6. ASSUME NEW g, g = rule(g) PROVE g[S] = h[N]
  <2> DEFINE P == {k \in Nat : k <= N => g[1 .. k] = h[k]}
  <2>1. 0 \in P
    <3>1. 1 .. 0 = {} /\ {} \in SUBSET S
      OBVIOUS
    <3>2. g[{}] = 0
      BY <1>6, <3>1
    <3>3. h[0] = 0
      BY DEF SumsTo
    <3>4. QED
      BY <3>1, <3>2, <3>3
  <2>2. ASSUME NEW k \in Nat, k \in P PROVE k + 1 \in P
    <3> DEFINE j == k + 1
    <3>1. SUFFICES ASSUME j <= N PROVE g[1 .. j] = h[j]
      OBVIOUS
    <3>2. j \in Nat /\ j >= 1 /\ j - 1 = k /\ j \in S /\ k <= N /\ k \in 0 .. N
      BY <1>1, <3>1
    <3>3. g[1 .. k] = h[k] /\ h[k] \in Nat
      BY <2>2, <3>2 DEF SumsTo
    <3> HIDE DEF j
    <3>4. Max(1 .. j) = j /\ (1 .. j) \ {j} = 1 .. k
      BY <3>2, LastOfFirst
    <3>5. 1 .. j \in SUBSET S /\ 1 .. j # {}
      <4>1. \A i \in 1 .. j : i \in 1 .. N
        BY <1>1, <3>1, <3>2
      <4>2. j \in 1 .. j
        BY <3>2
      <4>3. QED
        BY <4>1, <4>2
    <3> HIDE DEF S
    <3>6. g[1 .. j] = Add(g[1 .. k], z[j])
      BY <1>6, <3>4, <3>5
    <3>7. h[j] = h[k] + Weight(st, w, z[j])
      BY <3>2 DEF SumsTo, S
    <3>8. QED
      BY <1>4, <3>2, <3>3, <3>6, <3>7
  <2>3. N \in P
    <3> HIDE DEF P
    <3>1. QED
      BY <1>1, <2>1, <2>2, EveryNat
  <2>4. QED
    BY <1>1, <2>3
<1>7. Sum(st, w, z) = (CHOOSE g : g = rule(g))[S]
  BY <1>1 DEF Sum, SumOver, FoldLeft, MapThenFoldSet, Add
<1> HIDE DEF rule
<1>8. QED
  BY <1>5, <1>6, <1>7

(* What the running sums of a list satisfy.                                 *)
Runs(st, w, z) ==
    /\ \A n \in 1 .. Len(z) : Weight(st, w, z[n]) \in Nat
    /\ \A n \in 0 .. Len(z) : Run(st, w, z, n) \in Nat
    /\ Run(st, w, z, 0) = 0
    /\ \A n \in 1 .. Len(z) : Run(st, w, z, n) = Run(st, w, z, n - 1) + Weight(st, w, z[n])
    /\ \A m, n \in 0 .. Len(z) : m <= n => Run(st, w, z, m) <= Run(st, w, z, n)

(* The running sums are sums of the first leaves.                           *)
LEMMA RunFacts ==
  ASSUME NEW st, NEW w, NEW X, NEW z \in Seq(X), \A l \in X : Weight(st, w, l) \in Nat
  PROVE  Runs(st, w, z)
<1> DEFINE N == Len(z)
<1>1. N \in Nat /\ \A i \in 1 .. N : z[i] \in X
  OBVIOUS
<1>2. PICK h : SumsTo(st, w, z, h)
  BY SumsExist
<1> HIDE DEF N
<1>3. ASSUME NEW n \in 0 .. N PROVE Run(st, w, z, n) = h[n]
  <2> DEFINE t == SubSeq(z, 1, n)
             f == [k \in 0 .. n |-> h[k]]
  <2>1. t \in Seq(X) /\ Len(t) = n /\ \A j \in 1 .. n : t[j] = z[j]
    BY FirstPart DEF N
  <2>2. /\ h \in [0 .. N -> Nat] /\ h[0] = 0
        /\ \A k \in 1 .. N : h[k] = h[k - 1] + Weight(st, w, z[k])
    BY <1>2 DEF SumsTo, N
  <2> HIDE DEF t
  <2>3. SumsTo(st, w, t, f)
    <3>1. n \in Nat /\ n <= N
      BY <1>1
    <3>2. f \in [0 .. n -> Nat] /\ f[0] = 0
      <4>1. 0 \in 0 .. n /\ \A k \in 0 .. n : k \in 0 .. N
        BY <3>1, <1>1
      <4>2. \A k \in 0 .. n : h[k] \in Nat
        BY <2>2, <4>1
      <4>3. QED
        BY <2>2, <4>1, <4>2
    <3>3. ASSUME NEW k \in 1 .. n PROVE f[k] = f[k - 1] + Weight(st, w, t[k])
      <4>1. k \in 1 .. N /\ k \in 0 .. n /\ k - 1 \in 0 .. n
        BY <3>1, <1>1
      <4>2. QED
        BY <2>1, <2>2, <4>1
    <3> HIDE DEF f
    <3>4. QED
      BY <2>1, <3>2, <3>3 DEF SumsTo
  <2>4. f[n] = h[n]
    BY <1>1
  <2> HIDE DEF f
  <2>5. Sum(st, w, t) = f[n]
    BY <2>1, <2>3, SumIs
  <2>6. Run(st, w, z, n) = Sum(st, w, t)
    BY DEF Run, Sum, SumOver, FoldLeft, MapThenFoldSet, t
  <2>7. QED
    BY <2>4, <2>5, <2>6
<1>4. /\ h \in [0 .. N -> Nat] /\ h[0] = 0
      /\ \A k \in 1 .. N : h[k] = h[k - 1] + Weight(st, w, z[k])
  BY <1>2 DEF SumsTo, N
<1>5. ASSUME NEW m \in 0 .. N, NEW n \in 0 .. N, m <= n PROVE h[m] <= h[n]
  <2> DEFINE P == {k \in Nat : m + k <= N => h[m] <= h[m + k]}
  <2>1. m \in Nat /\ h[m] \in Nat
    BY <1>1, <1>4
  <2>2. 0 \in P
    BY <2>1
  <2>3. ASSUME NEW k \in Nat, k \in P PROVE k + 1 \in P
    <3> DEFINE i == m + (k + 1)
    <3>1. SUFFICES ASSUME i <= N PROVE h[m] <= h[i]
      OBVIOUS
    <3>2. i \in 1 .. N /\ i - 1 = m + k /\ m + k \in 0 .. N /\ m + k <= N
      BY <1>1, <2>1, <3>1
    <3>3. h[m] <= h[i - 1] /\ h[i - 1] \in Nat
      BY <1>4, <2>3, <3>2
    <3> HIDE DEF i
    <3>4. h[i] = h[i - 1] + Weight(st, w, z[i]) /\ Weight(st, w, z[i]) \in Nat
      BY <1>1, <1>4, <3>2
    <3>5. QED
      BY <2>1, <3>3, <3>4
  <2>4. n - m \in Nat /\ m + (n - m) = n /\ n <= N
    BY <1>1, <1>5
  <2>5. n - m \in P
    <3> HIDE DEF P
    <3>1. QED
      BY <2>2, <2>3, <2>4, EveryNat
  <2>6. QED
    BY <2>4, <2>5
<1>6. ASSUME NEW n \in 1 .. N
      PROVE  Run(st, w, z, n) = Run(st, w, z, n - 1) + Weight(st, w, z[n])
  <2>1. n \in 0 .. N /\ n - 1 \in 0 .. N
    BY <1>1
  <2>2. QED
    BY <1>3, <1>4, <2>1
<1>7. Run(st, w, z, 0) = 0
  <2>1. 0 \in 0 .. N
    BY <1>1
  <2>2. QED
    BY <1>3, <1>4, <2>1
<1>8. \A n \in 0 .. N : Run(st, w, z, n) \in Nat
  BY <1>3, <1>4
<1>9. \A m, n \in 0 .. N : m <= n => Run(st, w, z, m) <= Run(st, w, z, n)
  BY <1>3, <1>5
<1>10. QED
  BY <1>1, <1>6, <1>7, <1>8, <1>9 DEF Runs, N

(* Ranks that agree on the leaves of a list agree on its running sums.      *)
LEMMA RunSame ==
  ASSUME NEW st, NEW v, NEW w, NEW z, Len(z) \in Nat, Runs(st, v, z), Runs(st, w, z),
         \A i \in 1 .. Len(z) : Weight(st, v, z[i]) = Weight(st, w, z[i])
  PROVE  \A n \in 0 .. Len(z) : Run(st, v, z, n) = Run(st, w, z, n)
<1> DEFINE N == Len(z)
           P == {n \in Nat : n <= N => Run(st, v, z, n) = Run(st, w, z, n)}
<1>1. 0 \in P
  BY DEF Runs
<1>2. ASSUME NEW n \in Nat, n \in P PROVE n + 1 \in P
  <2> DEFINE m == n + 1
  <2>1. SUFFICES ASSUME m <= N PROVE Run(st, v, z, m) = Run(st, w, z, m)
    OBVIOUS
  <2>2. m \in 1 .. N /\ m - 1 = n /\ n <= N
    BY <2>1
  <2>3. Run(st, v, z, m - 1) = Run(st, w, z, m - 1)
    BY <1>2, <2>2
  <2> HIDE DEF m
  <2>4. QED
    BY <2>2, <2>3 DEF Runs
<1>3. \A n \in Nat : n \in P
  <2> HIDE DEF P
  <2>1. QED
    BY <1>1, <1>2, EveryNat
<1>4. QED
  BY <1>3

(* A list holds another one from the place o on.                            *)
PartAt(list, o, z) ==
    /\ o \in Nat
    /\ o + Len(z) <= Len(list)
    /\ \A j \in 1 .. Len(z) : list[o + j] = z[j]

(* The running sums of the one go on from there by those of the other.      *)
GoesOn(st, w, list, o, z) ==
    \A j \in 0 .. Len(z) : Run(st, w, list, o + j) = Run(st, w, list, o) + Run(st, w, z, j)

(* They do if the list holds the other one there.                           *)
LEMMA RunSlice ==
  ASSUME NEW st, NEW w, NEW list, NEW z, Len(list) \in Nat, Len(z) \in Nat,
         Runs(st, w, list), Runs(st, w, z),
         NEW o, PartAt(list, o, z)
  PROVE  GoesOn(st, w, list, o, z)
<1>0. o \in Nat /\ o + Len(z) <= Len(list) /\ \A j \in 1 .. Len(z) : list[o + j] = z[j]
  BY DEF PartAt
<1> DEFINE N == Len(z)
           P == {j \in Nat : j <= N =>
                    Run(st, w, list, o + j) = Run(st, w, list, o) + Run(st, w, z, j)}
<1>1. /\ \A n \in 0 .. Len(list) : Run(st, w, list, n) \in Nat
      /\ \A n \in 1 .. Len(list) :
            Run(st, w, list, n) = Run(st, w, list, n - 1) + Weight(st, w, list[n])
      /\ \A n \in 0 .. N : Run(st, w, z, n) \in Nat
      /\ Run(st, w, z, 0) = 0
      /\ \A n \in 1 .. N : Run(st, w, z, n) = Run(st, w, z, n - 1) + Weight(st, w, z[n])
  BY DEF Runs
<1>2. o \in 0 .. Len(list) /\ Run(st, w, list, o) \in Nat
  BY <1>0, <1>1
<1>3. 0 \in P
  <2>1. o + 0 = o
    BY <1>0
  <2>2. QED
    BY <1>1, <1>2, <2>1
<1>4. ASSUME NEW j \in Nat, j \in P PROVE j + 1 \in P
  <2> DEFINE m == j + 1
             k == o + m
  <2>1. SUFFICES ASSUME m <= N
                 PROVE  Run(st, w, list, k) = Run(st, w, list, o) + Run(st, w, z, m)
    OBVIOUS
  <2>2. /\ m \in 1 .. N /\ m - 1 = j /\ j <= N /\ j \in 0 .. N
        /\ k \in 1 .. Len(list) /\ k - 1 = o + j
    BY <1>0, <2>1
  <2>3. Run(st, w, list, o + j) = Run(st, w, list, o) + Run(st, w, z, j)
    BY <1>4, <2>2
  <2>4. list[k] = z[m]
    BY <1>0, <2>2
  <2> HIDE DEF m, k, P
  <2>5. Run(st, w, list, k) = Run(st, w, list, o + j) + Weight(st, w, z[m])
    BY <1>1, <2>2, <2>4
  <2>6. Run(st, w, z, m) = Run(st, w, z, j) + Weight(st, w, z[m])
    BY <1>1, <2>2
  <2>7. Run(st, w, z, m) \in Nat /\ Run(st, w, z, j) \in Nat /\ Run(st, w, list, k) \in Nat
        /\ Run(st, w, list, o + j) \in Nat
    <3>1. m \in 0 .. N /\ k \in 0 .. Len(list) /\ k - 1 \in 0 .. Len(list)
      BY <2>2
    <3>2. QED
      BY <1>1, <2>2, <3>1
  <2>8. Weight(st, w, z[m]) \in Nat
    BY <2>2 DEF Runs
  <2>9. QED
    BY <1>2, <2>3, <2>5, <2>6, <2>7, <2>8
<1>5. \A j \in Nat : j \in P
  <2> HIDE DEF P
  <2>1. QED
    BY <1>3, <1>4, EveryNat
<1>6. QED
  BY <1>5 DEF GoesOn

(* The running sums of the presence count leaves.                           *)
LEMMA RunOnes ==
  ASSUME NEW w, NEW z, Len(z) \in Nat, Runs("presence", w, z)
  PROVE  \A n \in 0 .. Len(z) : Run("presence", w, z, n) = n
<1> DEFINE N == Len(z)
           P == {n \in Nat : n <= N => Run("presence", w, z, n) = n}
<1>1. 0 \in P
  BY DEF Runs
<1>2. ASSUME NEW n \in Nat, n \in P PROVE n + 1 \in P
  <2> DEFINE m == n + 1
  <2>1. SUFFICES ASSUME m <= N PROVE Run("presence", w, z, m) = m
    OBVIOUS
  <2>2. m \in 1 .. N /\ m - 1 = n /\ n <= N
    BY <2>1
  <2>3. Run("presence", w, z, m) = Run("presence", w, z, m - 1) + 1
    <3> HIDE DEF m
    <3>1. QED
      BY <2>2 DEF Runs, Weight
  <2>4. QED
    BY <1>2, <2>2, <2>3
<1>3. \A n \in Nat : n \in P
  <2> HIDE DEF P
  <2>1. QED
    BY <1>1, <1>2, EveryNat
<1>4. QED
  BY <1>3

----------------------------------------------------------------------------
(* The lists of the ghost layer                                             *)

(* A list that holds the lists z[d] of the ranks one after the other, each   *)
(* from its offset on.                                                      *)
Sliced(list, off, z) ==
    /\ list \in Seq(Leaves)
    /\ off \in [0 .. NumRanks -> Nat]
    /\ off[0] = 0
    /\ off[NumRanks] = Len(list)
    /\ \A d \in Ranks : off[d + 1] = off[d] + Len(z[d])
    /\ \A d, e \in 0 .. NumRanks : d <= e => off[d] <= off[e]
    /\ \A d \in Ranks : \A j \in 1 .. Len(z[d]) : list[off[d] + j] = z[d][j]
    /\ \A k \in 1 .. Len(list) : \E d \in Ranks : \E j \in 1 .. Len(z[d]) : k = off[d] + j

(* The lists of p4est_ghost_t are cut by its offsets into one per rank.     *)
LEMMA ListsSliced ==
  ASSUME NEW sets \in [1 .. NumRanks -> SUBSET Leaves]
  PROVE  Sliced(Concatenated(sets), Offsets(sets), [d \in Ranks |-> InMortonOrder(sets[d + 1])])
<1> DEFINE N == NumRanks
           seqs == [i \in 1 .. N |-> InMortonOrder(sets[i])]
           list == Concatenated(sets)
           off == Offsets(sets)
           z == [d \in Ranks |-> InMortonOrder(sets[d + 1])]
<1>1. N \in Nat /\ N >= 1 /\ DOMAIN sets = 1 .. N /\ sets \in Seq(SUBSET Leaves) /\ Len(sets) = N
  BY ExchangeAssumption
<1>2. \A i \in 1 .. N : InMortonOrder(sets[i]) \in Seq(Leaves)
  <2>1. TAKE i \in 1 .. N
  <2>2. sets[i] \in SUBSET Leaves /\ InMortonOrder(sets[i]) \in Seq(sets[i])
    BY OrderType
  <2>3. QED
    BY <2>2
<1>3. seqs \in Seq(Seq(Leaves)) /\ Len(seqs) = N /\ \A i \in 1 .. N : seqs[i] = InMortonOrder(sets[i])
  <2>1. seqs \in [1 .. N -> Seq(Leaves)]
    BY <1>2
  <2> HIDE DEF N
  <2>2. QED
    BY <1>1, <2>1
<1> HIDE DEF seqs
<1>4. PICK c : FlattensTo(seqs, Leaves, c)
  BY <1>3, FlattenChain
<1>5. /\ c \in [0 .. N -> Seq(Leaves)] /\ c[0] = <<>>
      /\ \A i \in 1 .. N : c[i] = c[i - 1] \o seqs[i]
      /\ \A n \in 0 .. N : FlattenSeq([i \in 1 .. n |-> seqs[i]]) = c[n]
  BY <1>3, <1>4 DEF FlattensTo
<1>6. ASSUME NEW n \in 0 .. N
      PROVE  Concatenated(SubSeq(sets, 1, n)) = c[n]
  <2> DEFINE t == SubSeq(sets, 1, n)
  <2>1. t \in Seq(SUBSET Leaves) /\ Len(t) = n /\ \A j \in 1 .. n : t[j] = sets[j]
    <3>1. n \in 0 .. Len(sets)
      BY <1>1
    <3> HIDE DEF N
    <3>2. QED
      BY <1>1, <3>1, FirstPart
  <2> HIDE DEF t
  <2>2. DOMAIN t = 1 .. n
    BY <2>1
  <2>3. \A j \in 1 .. n : InMortonOrder(t[j]) = seqs[j]
    <3>1. \A j \in 1 .. n : j \in 1 .. N
      BY <1>1
    <3>2. QED
      BY <1>3, <2>1, <3>1
  <2>4. [i \in DOMAIN t |-> InMortonOrder(t[i])] = [i \in 1 .. n |-> seqs[i]]
    BY <2>2, <2>3
  <2>5. QED
    BY <1>5, <2>4 DEF Concatenated, t
<1>7. list = c[N] /\ \A n \in 0 .. N : off[n] = Len(c[n])
  <2>1. [i \in DOMAIN sets |-> InMortonOrder(sets[i])] = [i \in 1 .. N |-> seqs[i]]
    BY <1>1, <1>3
  <2>2. list = c[N]
    <3>1. N \in 0 .. N
      BY <1>1
    <3>2. list = FlattenSeq([i \in DOMAIN sets |-> InMortonOrder(sets[i])])
      BY DEF Concatenated
    <3> HIDE DEF list, N
    <3>3. QED
      BY <1>5, <2>1, <3>1, <3>2
  <2>3. QED
    BY <1>6, <2>2 DEF Offsets
<1>8. \A d \in Ranks : d + 1 \in 1 .. N /\ d \in 0 .. N /\ d + 1 - 1 = d /\ d + 1 \in 0 .. N
  BY <1>1 DEF Ranks
<1>9. \A d \in Ranks : z[d] = seqs[d + 1]
  BY <1>3, <1>8
<1>10. off \in [0 .. N -> Nat]
  <2>1. DOMAIN off = 0 .. N /\ off = [n \in 0 .. N |-> off[n]]
    BY DEF Offsets
  <2> HIDE DEF off
  <2>2. QED
    BY <1>5, <1>7, <2>1
<1> HIDE DEF N, z, off, list
<1>11. ASSUME NEW d \in Ranks
       PROVE  /\ c[d + 1] \in Seq(Leaves) /\ c[d] \in Seq(Leaves) /\ z[d] \in Seq(Leaves)
              /\ c[d + 1] = c[d] \o z[d]
              /\ off[d] = Len(c[d]) /\ off[d + 1] = Len(c[d + 1])
              /\ off[d + 1] = off[d] + Len(z[d])
              /\ off[d] \in Nat /\ off[d + 1] \in Nat /\ Len(z[d]) \in Nat
              /\ \A j \in 1 .. Len(z[d]) : c[d + 1][off[d] + j] = z[d][j]
              /\ \A k \in 1 .. off[d] : c[d + 1][k] = c[d][k]
  <2>1. d + 1 \in 1 .. N /\ d \in 0 .. N /\ d + 1 \in 0 .. N /\ d + 1 - 1 = d
    BY <1>8
  <2>2. c[d + 1] \in Seq(Leaves) /\ c[d] \in Seq(Leaves) /\ z[d] \in Seq(Leaves)
    BY <1>2, <1>3, <1>5, <1>9, <2>1
  <2>3. c[d + 1] = c[d] \o z[d]
    <3> DEFINE i == d + 1
    <3>1. i \in 1 .. N /\ i - 1 = d /\ z[d] = seqs[i]
      BY <1>9, <2>1
    <3> HIDE DEF i
    <3>2. c[i] = c[i - 1] \o seqs[i]
      BY <1>5, <3>1
    <3>3. c[i] = c[d] \o z[d]
      BY <3>1, <3>2
    <3>4. QED
      BY <3>3 DEF i
  <2>4. off[d] = Len(c[d]) /\ off[d + 1] = Len(c[d + 1])
    BY <1>7, <2>1
  <2>5. /\ Len(c[d] \o z[d]) = Len(c[d]) + Len(z[d])
        /\ \A j \in 1 .. Len(z[d]) : (c[d] \o z[d])[Len(c[d]) + j] = z[d][j]
    <3> DEFINE x == c[d]
               y == z[d]
    <3>1. x \in Seq(Leaves) /\ y \in Seq(Leaves)
      BY <2>2
    <3> HIDE DEF x, y
    <3>2. /\ Len(x \o y) = Len(x) + Len(y)
          /\ \A j \in 1 .. Len(y) : (x \o y)[Len(x) + j] = y[j]
      BY <3>1, Joined, Zenon
    <3>3. QED
      BY <3>2 DEF x, y
  <2>6. \A k \in 1 .. Len(c[d]) : (c[d] \o z[d])[k] = c[d][k]
    BY <2>2, JoinedFirst
  <2>7. off[d] \in Nat /\ off[d + 1] \in Nat /\ Len(z[d]) \in Nat
    BY <2>2, <2>4
  <2>8. off[d + 1] = off[d] + Len(z[d])
    BY <2>3, <2>4, <2>5
  <2>9. \A j \in 1 .. Len(z[d]) : c[d + 1][off[d] + j] = z[d][j]
    BY <2>3, <2>4, <2>5
  <2>10. \A k \in 1 .. off[d] : c[d + 1][k] = c[d][k]
    BY <2>3, <2>4, <2>6
  <2>11. QED
    BY <2>2, <2>3, <2>4, <2>7, <2>8, <2>9, <2>10
<1>12. ASSUME NEW d \in 0 .. N
       PROVE  /\ \A e \in Ranks : e < d =>
                    /\ off[e + 1] <= off[d]
                    /\ \A j \in 1 .. Len(z[e]) : c[d][off[e] + j] = z[e][j]
              /\ \A k \in 1 .. off[d] : \E e \in Ranks : \E j \in 1 .. Len(z[e]) : k = off[e] + j
  <2> DEFINE Good(n) == /\ \A e \in Ranks : e < n =>
                              /\ off[e + 1] <= off[n]
                              /\ \A j \in 1 .. Len(z[e]) : c[n][off[e] + j] = z[e][j]
                        /\ \A k \in 1 .. off[n] :
                              \E e \in Ranks : \E j \in 1 .. Len(z[e]) : k = off[e] + j
             P == {n \in Nat : n <= N => Good(n)}
  <2>1. 0 \in P
    <3>1. off[0] = 0 /\ \A e \in Ranks : ~ (e < 0)
      BY <1>1, <1>5, <1>7 DEF Ranks
    <3>2. QED
      BY <3>1
  <2>2. ASSUME NEW n \in Nat, n \in P PROVE n + 1 \in P
    <3>1. SUFFICES ASSUME n + 1 <= N PROVE Good(n + 1)
      OBVIOUS
    <3>2. n \in Ranks /\ n <= N
      BY <1>1, <3>1 DEF Ranks, N
    <3>3. Good(n)
      BY <2>2, <3>2
    <3>4. /\ off[n] \in Nat /\ off[n + 1] = off[n] + Len(z[n]) /\ Len(z[n]) \in Nat
          /\ \A j \in 1 .. Len(z[n]) : c[n + 1][off[n] + j] = z[n][j]
          /\ \A k \in 1 .. off[n] : c[n + 1][k] = c[n][k]
      BY <1>11, <3>2
    <3>5. ASSUME NEW e \in Ranks, e < n + 1
          PROVE  /\ off[e + 1] <= off[n + 1]
                 /\ \A j \in 1 .. Len(z[e]) : c[n + 1][off[e] + j] = z[e][j]
      <4>1. CASE e = n
        BY <3>4, <4>1
      <4>2. CASE e # n
        <5>1. e < n /\ e \in Nat
          BY <1>1, <3>5, <4>2 DEF Ranks
        <5>2. /\ off[e] \in Nat /\ off[e + 1] = off[e] + Len(z[e]) /\ Len(z[e]) \in Nat
          BY <1>11
        <5>3. off[e + 1] <= off[n] /\ \A j \in 1 .. Len(z[e]) : c[n][off[e] + j] = z[e][j]
          BY <3>3, <5>1
        <5>4. (\A j \in 1 .. Len(z[e]) : off[e] + j \in 1 .. off[n]) /\ off[e + 1] <= off[n + 1]
          <6> DEFINE a == off[e]
                     b == off[e + 1]
                     m == Len(z[e])
                     u == off[n]
                     v == off[n + 1]
                     w == Len(z[n])
          <6>1. /\ a \in Nat /\ m \in Nat /\ b = a + m /\ u \in Nat /\ b <= u
                /\ v = u + w /\ w \in Nat
            BY <3>4, <5>2, <5>3
          <6> HIDE DEF a, b, m, u, v, w
          <6>2. (\A j \in 1 .. m : a + j \in 1 .. u) /\ b <= v
            BY <6>1
          <6>3. QED
            BY <6>2 DEF a, b, m, u, v
        <5>5. off[e + 1] <= off[n + 1]
          BY <5>4
        <5>6. \A j \in 1 .. Len(z[e]) : c[n + 1][off[e] + j] = z[e][j]
          BY <3>4, <5>3, <5>4
        <5>7. QED
          BY <5>5, <5>6
      <4>3. QED
        BY <4>1, <4>2
    <3>6. ASSUME NEW k \in 1 .. off[n + 1]
          PROVE  \E e \in Ranks : \E j \in 1 .. Len(z[e]) : k = off[e] + j
      <4>1. CASE k <= off[n]
        BY <3>3, <3>4, <4>1
      <4>2. CASE ~ (k <= off[n])
        <5>1. k - off[n] \in 1 .. Len(z[n]) /\ k = off[n] + (k - off[n])
          BY <3>4, <4>2
        <5>2. QED
          BY <3>2, <5>1
      <4>3. QED
        BY <4>1, <4>2
    <3>7. QED
      BY <3>5, <3>6
  <2>3. d \in P /\ d <= N
    <3>1. d \in Nat /\ d <= N
      BY <1>1
    <3> HIDE DEF P
    <3>2. QED
      BY <2>1, <2>2, <3>1, EveryNat
  <2>4. QED
    BY <2>3
<1>13. N \in 0 .. N /\ 0 \in 0 .. N /\ \A e \in Ranks : e < N
  BY <1>1 DEF Ranks, N
<1>14. \A d, e \in 0 .. N : d <= e => off[d] <= off[e]
  <2>1. SUFFICES ASSUME NEW d \in 0 .. N, NEW e \in 0 .. N, d <= e PROVE off[d] <= off[e]
    OBVIOUS
  <2>2. CASE d = e
    BY <1>10, <2>2
  <2>3. CASE d # e
    <3>1. d \in Ranks /\ d < e
      BY <1>1, <2>1, <2>3 DEF Ranks, N
    <3>2. off[d + 1] <= off[e]
      BY <1>12, <3>1
    <3>3. off[d] \in Nat /\ off[e] \in Nat /\ Len(z[d]) \in Nat /\ off[d + 1] = off[d] + Len(z[d])
      BY <1>10, <1>11, <3>1
    <3>4. QED
      BY <3>2, <3>3
  <2>4. QED
    BY <2>2, <2>3
<1>15. list \in Seq(Leaves) /\ off[0] = 0 /\ off[N] = Len(list)
  BY <1>5, <1>7, <1>13
<1>16. \A d \in Ranks : \A j \in 1 .. Len(z[d]) : list[off[d] + j] = z[d][j]
  BY <1>7, <1>12, <1>13
<1>17. \A k \in 1 .. Len(list) : \E d \in Ranks : \E j \in 1 .. Len(z[d]) : k = off[d] + j
  BY <1>12, <1>13, <1>15
<1>18. \A d \in Ranks : off[d + 1] = off[d] + Len(z[d])
  BY <1>11
<1>19. Sliced(list, off, z)
  BY <1>10, <1>14, <1>15, <1>16, <1>17, <1>18 DEF Sliced, N
<1>20. QED
  BY <1>19 DEF list, off, z

----------------------------------------------------------------------------
(* Buffers                                                                  *)

(* What an element of a buffer may be: how many variables a leaf holds,     *)
(* nothing, or a value.                                                     *)
Words == Nat \cup {<<>>} \cup {Value(l, i, k) : l \in Leaves, i \in Nat, k \in Nat}

(* The element of a buffer for variable i of leaf l in time step k.         *)
Word(st, k, w, l, i) == IF st = "presence" THEN w[l] ELSE Value(l, i, k)

(* From the place at on, the array a holds what the leaves of the list z     *)
(* hold in time step k.                                                     *)
Holds(a, at, st, k, w, z) ==
    \A j \in 1 .. Len(z) : \A i \in 1 .. Weight(st, w, z[j]) :
        a[at + Run(st, w, z, j - 1) + i] = Word(st, k, w, z[j], i)

(* What writing a message changes.                                          *)
LEMMA OverlayIs ==
  ASSUME NEW X, NEW a \in Seq(X), NEW b \in Seq(X), NEW at \in Nat, at + Len(b) <= Len(a)
  PROVE  /\ Overlay(a, at, b) \in Seq(X)
         /\ Len(Overlay(a, at, b)) = Len(a)
         /\ \A i \in 1 .. Len(b) : Overlay(a, at, b)[at + i] = b[i]
         /\ \A i \in 1 .. Len(a) : i <= at \/ at + Len(b) < i => Overlay(a, at, b)[i] = a[i]
<1> DEFINE n == Len(a)
           m == Len(b)
           c == Overlay(a, at, b)
           Put(i) == IF i - at \in 1 .. m THEN b[i - at] ELSE a[i]
<1>1. n \in Nat /\ m \in Nat /\ DOMAIN a = 1 .. n /\ DOMAIN b = 1 .. m
  OBVIOUS
<1>2. c = [i \in 1 .. n |-> Put(i)]
  BY <1>1 DEF Overlay
<1>3. \A i \in 1 .. n : Put(i) \in X
  BY <1>1
<1>4. c \in [1 .. n -> X]
  <2> HIDE DEF c, Put, n, m
  <2>1. QED
    BY <1>2, <1>3
<1>5. c \in Seq(X) /\ Len(c) = n
  <2> HIDE DEF c, n
  <2>1. QED
    BY <1>1, <1>4
<1>6. ASSUME NEW i \in 1 .. m PROVE c[at + i] = b[i]
  <2>1. at + i \in 1 .. n /\ at + i - at = i
    BY <1>1
  <2>2. Put(at + i) = b[i]
    BY <2>1
  <2> HIDE DEF c, Put, n, m
  <2>3. QED
    BY <1>2, <2>1, <2>2
<1>7. ASSUME NEW i \in 1 .. n, i <= at \/ at + m < i PROVE c[i] = a[i]
  <2>1. ~ (i - at \in 1 .. m)
    BY <1>1, <1>7
  <2>2. QED
    BY <1>2, <2>1
<1>8. QED
  BY <1>5, <1>6, <1>7

(* Whatever is written, the memory keeps its size.                          *)
LEMMA OverlayType ==
  ASSUME NEW X, NEW a \in Seq(X), NEW b \in Seq(X), NEW at
  PROVE  Overlay(a, at, b) \in Seq(X) /\ Len(Overlay(a, at, b)) = Len(a)
<1> DEFINE n == Len(a)
           c == Overlay(a, at, b)
           Put(i) == IF i - at \in DOMAIN b THEN b[i - at] ELSE a[i]
<1>1. n \in Nat /\ DOMAIN a = 1 .. n
  OBVIOUS
<1>2. c = [i \in 1 .. n |-> Put(i)]
  BY <1>1 DEF Overlay
<1>3. \A i \in 1 .. n : Put(i) \in X
  BY <1>1
<1>4. c \in [1 .. n -> X]
  <2> HIDE DEF c, Put, n
  <2>1. QED
    BY <1>2, <1>3
<1> HIDE DEF c, n
<1>5. c \in Seq(X) /\ Len(c) = n
  BY <1>1, <1>4
<1>6. QED
  BY <1>5 DEF c, n

(* A part of the memory.                                                    *)
LEMMA WindowIs ==
  ASSUME NEW st, NEW a \in Seq(Words), NEW at \in Nat, NEW len \in Nat, at + len <= Len(a)
  PROVE  /\ Window(st, a, at, len) \in Seq(Words)
         /\ Len(Window(st, a, at, len)) = len
         /\ \A i \in 1 .. len : Window(st, a, at, len)[i] = a[at + i]
<1> DEFINE c == Window(st, a, at, len)
<1>1. \A i \in 1 .. len : at + i \in DOMAIN a /\ a[at + i] \in Words
  OBVIOUS
<1>2. c \in [1 .. len -> Words] /\ \A i \in 1 .. len : c[i] = a[at + i]
  BY <1>1 DEF Window
<1> HIDE DEF c
<1>3. c \in Seq(Words) /\ Len(c) = len
  BY <1>2
<1>4. QED
  BY <1>2, <1>3 DEF c

(* Where an element is in a buffer.                                         *)
LEMMA PlaceInRun ==
  ASSUME NEW st, NEW w, NEW z, Len(z) \in Nat, Runs(st, w, z),
         NEW j \in 1 .. Len(z), NEW i \in 1 .. Weight(st, w, z[j])
  PROVE  /\ Run(st, w, z, j - 1) \in Nat /\ Run(st, w, z, j) \in Nat
         /\ Run(st, w, z, Len(z)) \in Nat
         /\ i \in Nat
         /\ Run(st, w, z, j - 1) + i \in 1 .. Run(st, w, z, j)
         /\ Run(st, w, z, j - 1) + i \in 1 .. Run(st, w, z, Len(z))
<1>1. j \in 0 .. Len(z) /\ j - 1 \in 0 .. Len(z) /\ Len(z) \in 0 .. Len(z) /\ j <= Len(z)
  OBVIOUS
<1>2. /\ Run(st, w, z, j - 1) \in Nat /\ Run(st, w, z, j) \in Nat
      /\ Run(st, w, z, Len(z)) \in Nat
      /\ Run(st, w, z, j) = Run(st, w, z, j - 1) + Weight(st, w, z[j])
      /\ Run(st, w, z, j) <= Run(st, w, z, Len(z))
      /\ Weight(st, w, z[j]) \in Nat
  BY <1>1 DEF Runs
<1>3. QED
  BY <1>2

(* A buffer that holds the leaves of a list holds those of a part of it.    *)
LEMMA HoldsSlice ==
  ASSUME NEW st, NEW w, NEW list, NEW z, Len(list) \in Nat, Len(z) \in Nat,
         Runs(st, w, list), Runs(st, w, z),
         NEW o, PartAt(list, o, z),
         NEW a, NEW at \in Nat, NEW k, Holds(a, at, st, k, w, list)
  PROVE  Holds(a, at + Run(st, w, list, o), st, k, w, z)
<1>0. o \in Nat /\ o + Len(z) <= Len(list) /\ \A j \in 1 .. Len(z) : list[o + j] = z[j]
  BY DEF PartAt
<1> SUFFICES ASSUME NEW j \in 1 .. Len(z), NEW i \in 1 .. Weight(st, w, z[j])
             PROVE  a[at + Run(st, w, list, o) + Run(st, w, z, j - 1) + i]
                       = Word(st, k, w, z[j], i)
  BY DEF Holds
<1> DEFINE m == o + j
<1>1. /\ m \in 1 .. Len(list) /\ list[m] = z[j] /\ j - 1 \in 0 .. Len(z) /\ o + (j - 1) = m - 1
      /\ o \in 0 .. Len(list)
  BY <1>0
<1>2. Run(st, w, list, o + (j - 1)) = Run(st, w, list, o) + Run(st, w, z, j - 1)
  <2>1. GoesOn(st, w, list, o, z)
    BY RunSlice DEF PartAt
  <2>2. QED
    BY <1>1, <2>1 DEF GoesOn
<1>3. i \in 1 .. Weight(st, w, list[m])
  BY <1>1
<1> HIDE DEF m
<1>4. a[at + Run(st, w, list, m - 1) + i] = Word(st, k, w, z[j], i)
  BY <1>1, <1>3 DEF Holds
<1>5. Run(st, w, list, o) \in Nat /\ Run(st, w, z, j - 1) \in Nat
  BY <1>1 DEF Runs
<1>6. at + Run(st, w, list, m - 1) + i = at + Run(st, w, list, o) + Run(st, w, z, j - 1) + i
  <2> DEFINE x == Run(st, w, list, o)
             y == Run(st, w, z, j - 1)
             s == Run(st, w, list, m - 1)
  <2>1. x \in Nat /\ y \in Nat /\ s = x + y
    BY <1>0, <1>1, <1>2, <1>5
  <2>2. i \in Nat
    <3>1. Weight(st, w, z[j]) \in Nat
      BY DEF Runs
    <3>2. QED
      BY <3>1
  <2> HIDE DEF x, y, s
  <2>3. at + s + i = at + x + y + i
    BY <2>1, <2>2
  <2>4. QED
    BY <2>3 DEF x, y, s
<1>7. QED
  BY <1>4, <1>6

(* A message that holds the leaves of a list, written into the memory.      *)
LEMMA OverlayHolds ==
  ASSUME NEW st, NEW w, NEW z, Len(z) \in Nat, Runs(st, w, z), NEW k,
         NEW X, NEW a \in Seq(X), NEW b \in Seq(X), NEW at \in Nat, at + Len(b) <= Len(a),
         Len(b) = Run(st, w, z, Len(z)), Holds(b, 0, st, k, w, z)
  PROVE  Holds(Overlay(a, at, b), at, st, k, w, z)
<1> SUFFICES ASSUME NEW j \in 1 .. Len(z), NEW i \in 1 .. Weight(st, w, z[j])
             PROVE  Overlay(a, at, b)[at + Run(st, w, z, j - 1) + i] = Word(st, k, w, z[j], i)
  BY DEF Holds
<1> DEFINE p == Run(st, w, z, j - 1) + i
<1>1. p \in 1 .. Len(b) /\ Run(st, w, z, j - 1) \in Nat /\ i \in Nat
  BY PlaceInRun
<1>2. at + Run(st, w, z, j - 1) + i = at + p /\ 0 + Run(st, w, z, j - 1) + i = p
  BY <1>1
<1> HIDE DEF p
<1>3. b[p] = Word(st, k, w, z[j], i)
  BY <1>2 DEF Holds
<1>4. Overlay(a, at, b)[at + p] = b[p]
  BY <1>1, OverlayIs
<1>5. QED
  BY <1>2, <1>3, <1>4

(* What is held beside the message stays.                                   *)
LEMMA OverlayKeeps ==
  ASSUME NEW st, NEW w, NEW z, Len(z) \in Nat, Runs(st, w, z), NEW k,
         NEW X, NEW a \in Seq(X), NEW b \in Seq(X), NEW at \in Nat, at + Len(b) <= Len(a),
         NEW o \in Nat, o + Run(st, w, z, Len(z)) <= Len(a),
         o + Run(st, w, z, Len(z)) <= at \/ at + Len(b) <= o,
         Holds(a, o, st, k, w, z)
  PROVE  Holds(Overlay(a, at, b), o, st, k, w, z)
<1> SUFFICES ASSUME NEW j \in 1 .. Len(z), NEW i \in 1 .. Weight(st, w, z[j])
             PROVE  Overlay(a, at, b)[o + Run(st, w, z, j - 1) + i] = Word(st, k, w, z[j], i)
  BY DEF Holds
<1> DEFINE p == o + Run(st, w, z, j - 1) + i
<1>1. /\ Run(st, w, z, j - 1) + i \in 1 .. Run(st, w, z, Len(z))
      /\ Run(st, w, z, j - 1) \in Nat /\ i \in Nat /\ Run(st, w, z, Len(z)) \in Nat
  BY PlaceInRun
<1>2. p \in 1 .. Len(a) /\ (p <= at \/ at + Len(b) < p)
  <2> DEFINE x == Run(st, w, z, j - 1)
             y == Run(st, w, z, Len(z))
             n == Len(a)
             m == Len(b)
  <2>1. /\ x \in Nat /\ y \in Nat /\ i \in Nat /\ n \in Nat /\ m \in Nat /\ x + i \in 1 .. y
        /\ o + y <= n /\ (o + y <= at \/ at + m <= o)
    BY <1>1
  <2>2. p = o + x + i
    OBVIOUS
  <2> HIDE DEF x, y, n, m, p
  <2>3. p \in 1 .. n /\ (p <= at \/ at + m < p)
    BY <2>1, <2>2
  <2>4. QED
    BY <2>3 DEF n, m
<1> HIDE DEF p
<1>3. Overlay(a, at, b)[p] = a[p]
  BY <1>2, OverlayIs
<1>4. a[p] = Word(st, k, w, z[j], i)
  BY DEF Holds, p
<1>5. QED
  BY <1>3, <1>4 DEF p

(* What a part of the memory holds.                                         *)
LEMMA WindowHolds ==
  ASSUME NEW st, NEW w, NEW z, Len(z) \in Nat, Runs(st, w, z), NEW k, NEW u,
         NEW X, NEW a \in Seq(X), NEW at \in Nat, NEW o \in Nat, NEW len \in Nat,
         at + len <= Len(a), o + Run(st, w, z, Len(z)) <= len,
         Holds(a, at + o, st, k, w, z)
  PROVE  Holds(Window(u, a, at, len), o, st, k, w, z)
<1> SUFFICES ASSUME NEW j \in 1 .. Len(z), NEW i \in 1 .. Weight(st, w, z[j])
             PROVE  Window(u, a, at, len)[o + Run(st, w, z, j - 1) + i] = Word(st, k, w, z[j], i)
  BY DEF Holds
<1> DEFINE p == o + Run(st, w, z, j - 1) + i
<1>1. /\ Run(st, w, z, j - 1) + i \in 1 .. Run(st, w, z, Len(z))
      /\ Run(st, w, z, j - 1) \in Nat /\ i \in Nat /\ Run(st, w, z, Len(z)) \in Nat
  BY PlaceInRun
<1>2. p \in 1 .. len /\ at + p = at + o + Run(st, w, z, j - 1) + i
  <2> DEFINE x == Run(st, w, z, j - 1)
             y == Run(st, w, z, Len(z))
  <2>1. x \in Nat /\ y \in Nat /\ i \in Nat /\ x + i \in 1 .. y /\ o + y <= len
    BY <1>1
  <2>2. p = o + x + i
    OBVIOUS
  <2> HIDE DEF x, y, p
  <2>3. p \in 1 .. len /\ at + p = at + o + x + i
    BY <2>1, <2>2
  <2>4. QED
    BY <2>3 DEF x
<1> HIDE DEF p
<1>3. Window(u, a, at, len)[p] = a[at + p]
  <2>1. at + p \in DOMAIN a
    BY <1>2
  <2>2. QED
    BY <1>2, <2>1 DEF Window
<1>4. a[at + p] = Word(st, k, w, z[j], i)
  BY <1>2 DEF Holds
<1>5. QED
  BY <1>3, <1>4 DEF p

(* Ranks that agree on the leaves of a list agree on what holds them.       *)
LEMMA HoldsSame ==
  ASSUME NEW st, NEW v, NEW w, NEW z, Len(z) \in Nat, Runs(st, v, z), Runs(st, w, z),
         \A i \in 1 .. Len(z) : v[z[i]] = w[z[i]],
         NEW a, NEW at, NEW k, Holds(a, at, st, k, v, z)
  PROVE  Holds(a, at, st, k, w, z)
<1> SUFFICES ASSUME NEW j \in 1 .. Len(z), NEW i \in 1 .. Weight(st, w, z[j])
             PROVE  a[at + Run(st, w, z, j - 1) + i] = Word(st, k, w, z[j], i)
  BY DEF Holds
<1>1. \A n \in 1 .. Len(z) : Weight(st, v, z[n]) = Weight(st, w, z[n])
  BY DEF Weight
<1>2. Run(st, v, z, j - 1) = Run(st, w, z, j - 1)
  <2>1. j - 1 \in 0 .. Len(z)
    OBVIOUS
  <2>2. QED
    BY <1>1, <2>1, RunSame
<1>3. Word(st, k, v, z[j], i) = Word(st, k, w, z[j], i)
  BY DEF Word
<1>4. QED
  BY <1>1, <1>2, <1>3 DEF Holds

(* What pack_mirror_data puts at the offset of mirror number i.             *)
Item(r, st, i) ==
    IF st = "presence" THEN <<presence[r][Mirrors(r)[i]]>> ELSE block[r][Mirrors(r)[i]]

(* Every mirror has a value in step k for each of the variables it holds.   *)
Packable(r, k) ==
    \A i \in 1 .. Len(Mirrors(r)) :
        LET l == Mirrors(r)[i]
        IN  /\ l \in Leaves
            /\ presence[r][l] \in Nat
            /\ block[r][l] = [v \in 1 .. presence[r][l] |-> Value(l, v, k)]

(* The item of a mirror is as long as the offsets have it.                  *)
LEMMA ItemIs ==
  ASSUME NEW r, NEW st \in Stages, NEW k \in Nat, Packable(r, k), NEW i \in 1 .. Len(Mirrors(r))
  PROVE  /\ Item(r, st, i) \in Seq(Words)
         /\ Len(Item(r, st, i)) = Weight(st, presence[r], Mirrors(r)[i])
         /\ \A v \in 1 .. Len(Item(r, st, i)) :
               Item(r, st, i)[v] = Word(st, k, presence[r], Mirrors(r)[i], v)
<1> DEFINE l == Mirrors(r)[i]
           n == presence[r][l]
           item == Item(r, st, i)
<1>1. l \in Leaves /\ n \in Nat /\ block[r][l] = [v \in 1 .. n |-> Value(l, v, k)]
  BY DEF Packable
<1>2. \A v \in Nat : Value(l, v, k) \in Words
  BY <1>1 DEF Words
<1>3. CASE st = "presence"
  <2>1. item = <<n>> /\ n \in Words
    BY <1>1, <1>3 DEF Item, Words
  <2> HIDE DEF n, item
  <2>2. item \in Seq(Words) /\ Len(item) = 1 /\ item[1] = n
    BY <2>1
  <2>3. Weight(st, presence[r], l) = 1 /\ \A v : Word(st, k, presence[r], l, v) = n
    BY <1>3 DEF Weight, Word, n
  <2>4. \A v \in 1 .. 1 : v = 1
    OBVIOUS
  <2>5. QED
    BY <2>2, <2>3, <2>4 DEF item
<1>4. CASE st # "presence"
  <2>1. item = [v \in 1 .. n |-> Value(l, v, k)]
    BY <1>1, <1>4 DEF Item
  <2>2. Weight(st, presence[r], l) = n /\ \A v : Word(st, k, presence[r], l, v) = Value(l, v, k)
    BY <1>4 DEF Weight, Word
  <2>3. \A v \in 1 .. n : Value(l, v, k) \in Words
    BY <1>2
  <2> HIDE DEF n, l, item
  <2>4. item \in [1 .. n -> Words]
    BY <2>1, <2>3
  <2>5. item \in Seq(Words) /\ Len(item) = n
    BY <1>1, <2>4
  <2>6. \A v \in 1 .. n : item[v] = Value(l, v, k)
    BY <2>1
  <2>7. QED
    BY <2>2, <2>5, <2>6 DEF item, l
<1>5. QED
  BY <1>3, <1>4

(* The memory, once the first n mirrors are in it.                          *)
PackedTo(v, r, st, m, n) ==
    /\ v \in Seq(Words) /\ Len(v) = Len(m)
    /\ \A j \in 1 .. n : \A i \in 1 .. Len(Item(r, st, j)) :
           v[mirror_offsets(r, st, j - 1) + i] = Item(r, st, j)[i]

(* Packing one mirror more disturbs none of those before.                   *)
LEMMA PackOne ==
  ASSUME NEW r, NEW st \in Stages, NEW k \in Nat, Packable(r, k), Len(Mirrors(r)) \in Nat,
         Runs(st, presence[r], Mirrors(r)), NEW m \in Seq(Words),
         Run(st, presence[r], Mirrors(r), Len(Mirrors(r))) <= Len(m),
         NEW n \in 1 .. Len(Mirrors(r)), NEW v, PackedTo(v, r, st, m, n - 1)
  PROVE  PackedTo(Overlay(v, mirror_offsets(r, st, n - 1), Item(r, st, n)), r, st, m, n)
<1> DEFINE N == Len(Mirrors(r))
           O(i) == mirror_offsets(r, st, i)
           item == Item(r, st, n)
           at == O(n - 1)
           u == Overlay(v, at, item)
<1>1. \A i : O(i) = Run(st, presence[r], Mirrors(r), i)
  BY DEF mirror_offsets, Items, Run, SumOver, FoldLeft, MapThenFoldSet
<1>2. /\ \A i \in 0 .. N : O(i) \in Nat
      /\ \A i \in 1 .. N : O(i) = O(i - 1) + Len(Item(r, st, i))
      /\ \A i, j \in 0 .. N : i <= j => O(i) <= O(j)
      /\ O(N) <= Len(m)
  <2>1. \A i \in 1 .. N : Len(Item(r, st, i)) = Weight(st, presence[r], Mirrors(r)[i])
    BY ItemIs
  <2> HIDE DEF O
  <2>2. QED
    BY <1>1, <2>1 DEF Runs
<1> HIDE DEF O
<1>3. v \in Seq(Words) /\ Len(v) = Len(m) /\ Len(m) \in Nat /\ item \in Seq(Words)
  BY ItemIs DEF PackedTo
<1>4. /\ n \in 0 .. N /\ n - 1 \in 0 .. N /\ N \in 0 .. N /\ n <= N
      /\ Len(item) \in Nat /\ O(n) = at + Len(item) /\ at \in Nat /\ O(n) <= O(N)
      /\ O(n) \in Nat /\ O(N) \in Nat
  BY <1>2, <1>3
<1> HIDE DEF at, item
<1>5. at + Len(item) <= Len(v)
  <2> HIDE DEF N
  <2>1. QED
    BY <1>2, <1>3, <1>4
<1>6. /\ u \in Seq(Words) /\ Len(u) = Len(v)
      /\ \A i \in 1 .. Len(item) : u[at + i] = item[i]
      /\ \A i \in 1 .. Len(v) : i <= at \/ at + Len(item) < i => u[i] = v[i]
  BY <1>3, <1>4, <1>5, OverlayIs
<1> HIDE DEF u
<1>7. ASSUME NEW j \in 1 .. n, NEW i \in 1 .. Len(Item(r, st, j))
      PROVE  u[O(j - 1) + i] = Item(r, st, j)[i]
  <2>1. CASE j = n
    BY <1>6, <1>7, <2>1 DEF at, item
  <2>2. CASE j # n
    <3>1. j \in 1 .. n - 1 /\ j \in 1 .. N /\ j \in 0 .. N /\ j - 1 \in 0 .. N /\ j <= n - 1
      BY <2>2
    <3>2. v[O(j - 1) + i] = Item(r, st, j)[i]
      BY <1>7, <3>1 DEF PackedTo, O
    <3>3. /\ O(j) = O(j - 1) + Len(Item(r, st, j)) /\ O(j) \in Nat /\ O(j - 1) \in Nat
          /\ O(j) <= at
      BY <1>2, <1>4, <3>1 DEF at
    <3>4. Len(Item(r, st, j)) \in Nat
      BY <3>1, ItemIs
    <3> DEFINE p == O(j - 1) + i
    <3>5. p \in 1 .. Len(v) /\ p <= at
      <4> DEFINE a == O(j - 1)
                 b == O(j)
                 c == Len(Item(r, st, j))
                 e == Len(v)
                 f == Len(item)
      <4>1. /\ a \in Nat /\ b \in Nat /\ c \in Nat /\ e \in Nat /\ f \in Nat /\ at \in Nat
            /\ b = a + c /\ b <= at /\ at + f <= e /\ i \in 1 .. c /\ p = a + i
        BY <1>3, <1>4, <1>5, <1>7, <3>3, <3>4
      <4> HIDE DEF a, b, c, e, f, p
      <4>2. p \in 1 .. e /\ p <= at
        BY <4>1
      <4>3. QED
        BY <4>2 DEF e
    <3> HIDE DEF p
    <3>6. u[p] = v[p]
      BY <1>6, <3>5
    <3>7. QED
      BY <3>2, <3>6 DEF p
  <2>3. QED
    BY <2>1, <2>2
<1>8. QED
  BY <1>3, <1>6, <1>7 DEF PackedTo, O, u, at, item

(* Packing puts every mirror at its offset.                                 *)
LEMMA PackedIs ==
  ASSUME NEW r, NEW st \in Stages, NEW k \in Nat, Packable(r, k), Len(Mirrors(r)) \in Nat,
         Runs(st, presence[r], Mirrors(r)), NEW m \in Seq(Words),
         Run(st, presence[r], Mirrors(r), Len(Mirrors(r))) <= Len(m)
  PROVE  PackedTo(Packed(r, st, m), r, st, m, Len(Mirrors(r)))
<1> DEFINE N == Len(Mirrors(r))
           S == 1 .. N
           t == [i \in 1 .. N |-> i]
           X == {v \in Seq(Words) : Len(v) = Len(m)}
           Put(v, i) == Overlay(v, mirror_offsets(r, st, i - 1), Item(r, st, i))
           choose  == [T \in SUBSET S |-> Max(T)]
           step    == [i \in S |-> [v \in X |-> Put(v, i)]]
           rule(g) == [T \in SUBSET S |->
                          IF T = {} THEN m ELSE Put(g[T \ {Max(T)}], t[Max(T)])]
           Good(v, n) == PackedTo(v, r, st, m, n)
<1>1. N \in Nat /\ IsFiniteSet(S) /\ DOMAIN t = S /\ \A i \in S : t[i] = i
  BY FS_Interval
<1>2. \A T \in SUBSET S : T # {} => Max(T) \in T
  BY <1>1, LastPlace
<1>3. \A v \in X, i \in S : Put(v, i) \in X
  <2>1. TAKE v \in X, i \in S
  <2>2. v \in Seq(Words) /\ Len(v) = Len(m) /\ Item(r, st, i) \in Seq(Words)
    BY ItemIs
  <2>3. Put(v, i) \in Seq(Words) /\ Len(Put(v, i)) = Len(v)
    BY <2>2, OverlayType
  <2> HIDE DEF Put
  <2>4. QED
    BY <2>2, <2>3
<1>4. Good(m, 0)
  BY DEF PackedTo
<1>5. \A n \in 1 .. N : \A v : Good(v, n - 1) => Good(Put(v, n), n)
  BY PackOne
<1> HIDE DEF t, Put, Good
<1>6. \E g : g = rule(g)
  <2>1. HasFold(S, X, m, choose, step)
    <3>1. \A T \in SUBSET S : T # {} => choose[T] \in T
      BY <1>2
    <3>2. \A i \in S, v \in X : step[i][v] \in X
      BY <1>3
    <3>3. m \in X
      OBVIOUS
    <3> HIDE DEF choose, step, X, S
    <3>4. QED
      BY <1>1, <3>1, <3>2, <3>3, FoldExists
  <2>2. PICK g \in [SUBSET S -> X] :
            \A T \in SUBSET S :
               g[T] = IF T = {} THEN m ELSE step[choose[T]][g[T \ {choose[T]}]]
    BY <2>1 DEF HasFold
  <2>3. ASSUME NEW T \in SUBSET S, T # {} PROVE g[T] = Put(g[T \ {Max(T)}], t[Max(T)])
    <3>1. choose[T] = Max(T) /\ Max(T) \in S /\ T \ {Max(T)} \in SUBSET S
      BY <1>2, <2>3
    <3>2. g[T \ {Max(T)}] \in X
      BY <2>2, <3>1
    <3>3. g[T] = step[Max(T)][g[T \ {Max(T)}]]
      BY <2>2, <2>3, <3>1
    <3>4. t[Max(T)] = Max(T)
      BY <1>1, <3>1
    <3> HIDE DEF choose, X
    <3>5. QED
      BY <3>1, <3>2, <3>3, <3>4
  <2>4. QED
    BY <2>2, <2>3
<1>7. ASSUME NEW g, g = rule(g) PROVE Good(g[S], N)
  <2> DEFINE P == {n \in Nat : n <= N => Good(g[1 .. n], n)}
  <2>1. 0 \in P
    <3>1. 1 .. 0 = {} /\ {} \in SUBSET S
      OBVIOUS
    <3>2. g[{}] = m
      BY <1>7, <3>1
    <3>3. QED
      BY <1>4, <3>1, <3>2
  <2>2. ASSUME NEW n \in Nat, n \in P PROVE n + 1 \in P
    <3> DEFINE j == n + 1
    <3>1. SUFFICES ASSUME j <= N PROVE Good(g[1 .. j], j)
      OBVIOUS
    <3>2. j \in Nat /\ j >= 1 /\ j - 1 = n /\ j \in S /\ n <= N
      BY <1>1, <3>1
    <3>3. Good(g[1 .. n], n)
      BY <2>2, <3>2
    <3> HIDE DEF j
    <3>4. Max(1 .. j) = j /\ (1 .. j) \ {j} = 1 .. n
      BY <3>2, LastOfFirst
    <3>5. 1 .. j \in SUBSET S /\ 1 .. j # {}
      <4>1. \A i \in 1 .. j : i \in 1 .. N
        BY <1>1, <3>1, <3>2
      <4>2. j \in 1 .. j
        BY <3>2
      <4>3. QED
        BY <4>1, <4>2
    <3>6. t[j] = j /\ j \in 1 .. N
      BY <1>1, <3>2
    <3> HIDE DEF S
    <3>7. g[1 .. j] = Put(g[1 .. n], j)
      BY <1>7, <3>4, <3>5, <3>6
    <3>8. QED
      BY <1>5, <3>2, <3>3, <3>6, <3>7
  <2>3. N \in P
    <3> HIDE DEF P
    <3>1. QED
      BY <1>1, <2>1, <2>2, EveryNat
  <2>4. QED
    BY <1>1, <2>3
<1>8. Packed(r, st, m) = (CHOOSE g : g = rule(g))[S]
  <2>1. Packed(r, st, m) = FoldLeft(LAMBDA v, i : Put(v, i), m, t)
    BY DEF Packed, Put, t, Item
  <2>2. FoldLeft(LAMBDA v, i : Put(v, i), m, t) = (CHOOSE g : g = rule(g))[S]
    BY <1>1 DEF FoldLeft, MapThenFoldSet
  <2>3. QED
    BY <2>1, <2>2
<1> HIDE DEF rule
<1>9. QED
  BY <1>6, <1>7, <1>8 DEF Good

----------------------------------------------------------------------------
(* The inductive invariant                                                  *)

(* The leaves of rank s that rank d sees, as both list them.                *)
PartIn(g, s, d) == InMortonOrder(SharedIn(g, s, d))
Part(s, d)      == PartIn(gfq, s, d)

Messages == [st : Stages, at : Nat, len : Nat, copy : Seq(Words), buffered : BOOLEAN]

(* The number of an exchange, counted from the start of the run: two in      *)
(* each time step.                                                          *)
Exchange(k, st) == IF st = "presence" THEN 2 * k - 1 ELSE 2 * k

(* How many exchanges rank r has finished; in how many it has posted its     *)
(* sends; in how many rank d has got what rank s had for it.                *)
Done(r)   == IF pc[r] = "compute" THEN 2 * round[r] ELSE Exchange(round[r], stage[r]) - 1
Posted(r) == IF pc[r] = "wait" THEN Done(r) + 1 ELSE Done(r)
Got(s, d) == IF pc[d] = "wait" /\ s \notin recvs[d] THEN Done(d) + 1 ELSE Done(d)

(* The variables keep their shape.                                          *)
Shape ==
    /\ gfq \in Partitions
    /\ layer = ghost_new(gfq)
    /\ pc \in [Ranks -> {"compute", "pack", "post", "wait"}]
    /\ stage \in [Ranks -> Stages]
    /\ round \in [Ranks -> 0 .. MaxRounds]
    /\ DOMAIN presence = Ranks
    /\ DOMAIN block = Ranks
    /\ mem \in [Ranks -> [Stages -> Seq(Words)]]
    /\ ext \in [Ranks -> [Stages -> [send : Nat, recv : Nat]]]
    /\ recvs \in [Ranks -> SUBSET Ranks]
    /\ chan \in [Ranks -> [Ranks -> Seq(Messages)]]
    /\ meshes \in 0 .. MaxMeshes
    /\ numvars \in [1 .. MaxRounds -> NumVarsSets]

RankShape(r) ==
    /\ presence[r] \in [Local(r) -> 0 .. MaxVars]
    /\ block[r] \in [Local(r) -> Seq(Words)]
    /\ \A st \in Stages : ext[r][st].send + ext[r][st].recv <= Len(mem[r][st])
    /\ \A s \in recvs[r] : Len(Part(s, r)) > 0
    /\ pc[r] # "wait" => recvs[r] = {}
    /\ pc[r] # "compute" => round[r] \in 1 .. MaxRounds

(* Leaf l has on rank r the values of the time step the rank is in.         *)
Fresh(r, l) == block[r][l] = [i \in 1 .. numvars[round[r]][l] |-> Value(l, i, round[r])]

(* In an exchange, a rank knows the variables of its own leaves, and those   *)
(* of its ghosts after the first of the two.                                *)
Knows(r) ==
    pc[r] # "compute" =>
        /\ \A l \in Owned(r) : presence[r][l] = numvars[round[r]][l] /\ Fresh(r, l)
        /\ stage[r] = "data" => \A l \in Local(r) : presence[r][l] = numvars[round[r]][l]

(* Its send buffer holds the mirrors as long as messages may be read there.  *)
Held(r) ==
    pc[r] \in {"post", "wait"} =>
        LET st == stage[r]
            w  == numvars[round[r]]
        IN  /\ ext[r][st].send = Run(st, w, Mirrors(r), Len(Mirrors(r)))
            /\ ext[r][st].recv = Run(st, w, Ghosts(r), Len(Ghosts(r)))
            /\ Holds(mem[r][st], 0, st, round[r], w, Mirrors(r))

(* Its receive buffer holds what the ranks it does not wait for any more     *)
(* have sent.                                                               *)
Filled(r) ==
    pc[r] = "wait" =>
        LET st == stage[r]
            w  == numvars[round[r]]
        IN  \A s \in Ranks \ recvs[r] :
               Holds(mem[r][st], ext[r][st].send + Run(st, w, Ghosts(r), proc_offsets(r, s)),
                     st, round[r], w, Part(s, r))

(* After the exchanges of a step the ghosts are those of that step.         *)
Updated(r) ==
    pc[r] = "compute" /\ stage[r] = "data" => \A l \in Range(Ghosts(r)) : Fresh(r, l)

(* A message of exchange number e is as long as the leaves it is about       *)
(* need; it holds their values or is read in the buffer that does.          *)
Letter(m, e, s, d) ==
    \E k \in 1 .. MaxRounds :
        /\ e = Exchange(k, m.st)
        /\ m.len = Run(m.st, numvars[k], Part(s, d), Len(Part(s, d)))
        /\ IF m.buffered
           THEN /\ Len(m.copy) = m.len
                /\ Holds(m.copy, 0, m.st, k, numvars[k], Part(s, d))
           ELSE /\ pc[s] = "wait" /\ stage[s] = m.st /\ round[s] = k
                /\ m.at = Run(m.st, numvars[k], Mirrors(s), mirror_proc_offsets(s, d))

(* In flight are the messages the sender has posted and the receiver has     *)
(* not got, one for each exchange, in order.                                *)
InFlight(s, d) ==
    IF Len(Part(s, d)) = 0 THEN chan[s][d] = <<>>
    ELSE /\ Got(s, d) + Len(chan[s][d]) = Posted(s)
         /\ \A i \in 1 .. Len(chan[s][d]) : Letter(chan[s][d][i], Got(s, d) + i, s, d)

RankInv(r) == RankShape(r) /\ Knows(r) /\ Held(r) /\ Filled(r) /\ Updated(r)

IInv ==
    /\ Shape
    /\ \A r \in Ranks : RankInv(r)
    /\ \A s, d \in Ranks : InFlight(s, d)

----------------------------------------------------------------------------
(* What the ghost layer gives each rank                                     *)

(* Where the lists of the ghost layer have their parts, and whose leaves     *)
(* they hold.                                                               *)
LayerOf(r) ==
    /\ Owned(r) \subseteq Leaves /\ Local(r) \subseteq Leaves
    /\ Mirrors(r) \in Seq(Owned(r)) /\ Mirrors(r) \in Seq(Local(r)) /\ Mirrors(r) \in Seq(Leaves)
    /\ Ghosts(r) \in Seq(Local(r)) /\ Ghosts(r) \in Seq(Leaves)
    /\ Range(Ghosts(r)) \cap Owned(r) = {}
    /\ Range(Ghosts(r)) = {Ghosts(r)[i] : i \in 1 .. Len(Ghosts(r))}
    /\ \A d \in Ranks :
          /\ Part(r, d) \in Seq(Leaves) /\ Len(Part(r, d)) \in Nat
          /\ Part(d, r) \in Seq(Leaves) /\ Len(Part(d, r)) \in Nat
          /\ Part(r, d) \in Seq(Local(r)) /\ Part(d, r) \in Seq(Local(r))
          /\ PartAt(Mirrors(r), mirror_proc_offsets(r, d), Part(r, d))
          /\ PartAt(Ghosts(r), proc_offsets(r, d), Part(d, r))
          /\ local_num_mirrors(r, d) = Len(Part(r, d))
          /\ local_num_ghosts(r, d) = Len(Part(d, r))
    /\ \A s, d \in Ranks : s < d =>
          proc_offsets(r, s) + Len(Part(s, r)) <= proc_offsets(r, d)
    /\ \A i \in 1 .. Len(Ghosts(r)) :
          \E s \in Ranks : \E j \in 1 .. Len(Part(s, r)) : i = proc_offsets(r, s) + j

(* The numbers of the ranks and leaves.                                     *)
LEMMA Sizes ==
  /\ NumRanks \in Nat /\ NumRanks >= 1 /\ NumLeaves \in Nat
  /\ \A r \in Ranks : r \in Nat /\ r < NumRanks /\ r + 1 \in 1 .. NumRanks
                      /\ r \in 0 .. NumRanks /\ r + 1 \in 0 .. NumRanks
  /\ \A i \in 1 .. NumRanks : i - 1 \in Ranks
BY ExchangeAssumption DEF Ranks

(* A partition gives each rank leaves of its own.                           *)
LEMMA OwnedFacts ==
  ASSUME NEW g \in Partitions, NEW s \in Ranks, NEW d \in Ranks
  PROVE  OwnedIn(g, s) \subseteq Leaves /\ (s # d => OwnedIn(g, s) \cap OwnedIn(g, d) = {})
<1>1. /\ \A i \in 0 .. NumRanks : g[i] \in 0 .. NumLeaves
      /\ \A i, j \in 0 .. NumRanks : i <= j => g[i] <= g[j]
  BY DEF Partitions
<1>2. g[s] \in Nat /\ g[s + 1] \in Nat /\ g[s + 1] <= NumLeaves /\ g[d] \in Nat /\ g[d + 1] \in Nat
  BY <1>1, Sizes
<1>3. OwnedIn(g, s) \subseteq Leaves
  BY <1>2, Sizes DEF OwnedIn, Leaves
<1>4. ASSUME s # d PROVE OwnedIn(g, s) \cap OwnedIn(g, d) = {}
  <2>1. s + 1 <= d \/ d + 1 <= s
    BY <1>4, Sizes
  <2>2. g[s + 1] <= g[d] \/ g[d + 1] <= g[s]
    BY <1>1, <2>1, Sizes
  <2>3. QED
    BY <1>2, <2>2 DEF OwnedIn
<1>5. QED
  BY <1>3, <1>4

(* Each list is made of leaves of its sender.                               *)
LEMMA PartType ==
  ASSUME NEW g \in Partitions, NEW s \in Ranks, NEW d \in Ranks
  PROVE  /\ SharedIn(g, s, d) \in SUBSET Leaves
         /\ PartIn(g, s, d) \in Seq(OwnedIn(g, s)) /\ PartIn(g, s, d) \in Seq(Leaves)
         /\ Len(PartIn(g, s, d)) \in Nat
         /\ \A j \in 1 .. Len(PartIn(g, s, d)) :
               PartIn(g, s, d)[j] \in OwnedIn(g, s) /\ (s = d => FALSE)
<1>1. SharedIn(g, s, d) \subseteq OwnedIn(g, s) /\ (s = d => SharedIn(g, s, d) = {})
  BY DEF SharedIn
<1>2. SharedIn(g, s, d) \in SUBSET Leaves
  BY <1>1, OwnedFacts
<1>3. PartIn(g, s, d) \in Seq(SharedIn(g, s, d))
  BY <1>2, OrderType DEF PartIn
<1> DEFINE z == PartIn(g, s, d)
<1> HIDE DEF z
<1>4. z \in Seq(SharedIn(g, s, d))
  BY <1>3 DEF z
<1>5. \A j \in 1 .. Len(z) : z[j] \in SharedIn(g, s, d)
  BY <1>4
<1>6. z \in Seq(OwnedIn(g, s)) /\ z \in Seq(Leaves) /\ Len(z) \in Nat
  BY <1>1, <1>2, <1>4
<1>7. QED
  BY <1>1, <1>2, <1>5, <1>6 DEF z

(* The mirrors of a rank are the lists it sends.                            *)
LEMMA MirrorsSliced ==
  ASSUME gfq \in Partitions, layer = ghost_new(gfq), NEW r \in Ranks
  PROVE  Sliced(Mirrors(r), layer[r].mirror_proc_offsets, [d \in Ranks |-> Part(r, d)])
<1> DEFINE sets == [i \in 1 .. NumRanks |-> SharedIn(gfq, r, i - 1)]
<1>1. sets \in [1 .. NumRanks -> SUBSET Leaves]
  BY PartType, Sizes
<1>2. \A d \in Ranks : sets[d + 1] = SharedIn(gfq, r, d)
  <2>1. \A i \in 1 .. NumRanks : sets[i] = SharedIn(gfq, r, i - 1)
    OBVIOUS
  <2>2. TAKE d \in Ranks
  <2> DEFINE i == d + 1
  <2>3. i \in 1 .. NumRanks /\ i - 1 = d
    BY Sizes
  <2> HIDE DEF i, sets
  <2>4. sets[i] = SharedIn(gfq, r, d)
    BY <2>1, <2>3
  <2>5. QED
    BY <2>4 DEF i
<1>3. Mirrors(r) = Concatenated(sets) /\ layer[r].mirror_proc_offsets = Offsets(sets)
  BY DEF Mirrors, ghost_new
<1> HIDE DEF sets
<1>4. [d \in Ranks |-> Part(r, d)] = [d \in Ranks |-> InMortonOrder(sets[d + 1])]
  BY <1>2 DEF Part, PartIn
<1>5. QED
  BY <1>1, <1>3, <1>4, ListsSliced

(* The ghosts of a rank are the lists it is sent.                           *)
LEMMA GhostsSliced ==
  ASSUME gfq \in Partitions, layer = ghost_new(gfq), NEW r \in Ranks
  PROVE  Sliced(Ghosts(r), layer[r].proc_offsets, [s \in Ranks |-> Part(s, r)])
<1> DEFINE sets == [i \in 1 .. NumRanks |-> SharedIn(gfq, i - 1, r)]
<1>1. sets \in [1 .. NumRanks -> SUBSET Leaves]
  BY PartType, Sizes
<1>2. \A s \in Ranks : sets[s + 1] = SharedIn(gfq, s, r)
  <2>1. \A i \in 1 .. NumRanks : sets[i] = SharedIn(gfq, i - 1, r)
    OBVIOUS
  <2>2. TAKE s \in Ranks
  <2> DEFINE i == s + 1
  <2>3. i \in 1 .. NumRanks /\ i - 1 = s
    BY Sizes
  <2> HIDE DEF i, sets
  <2>4. sets[i] = SharedIn(gfq, s, r)
    BY <2>1, <2>3
  <2>5. QED
    BY <2>4 DEF i
<1>3. Ghosts(r) = Concatenated(sets) /\ layer[r].proc_offsets = Offsets(sets)
  BY DEF Ghosts, ghost_new
<1> HIDE DEF sets
<1>4. [s \in Ranks |-> Part(s, r)] = [s \in Ranks |-> InMortonOrder(sets[s + 1])]
  BY <1>2 DEF Part, PartIn
<1>5. QED
  BY <1>1, <1>3, <1>4, ListsSliced

(* A sequence of entries in a set.                                          *)
LEMMA EntriesIn ==
  ASSUME NEW X, NEW Y, NEW s \in Seq(X), \A i \in 1 .. Len(s) : s[i] \in Y
  PROVE  s \in Seq(Y)
OBVIOUS

(* The ghost layer is what both lists say.                                  *)
LEMMA LayerIs ==
  ASSUME gfq \in Partitions, layer = ghost_new(gfq), NEW r \in Ranks
  PROVE  LayerOf(r)
<1> DEFINE M == Mirrors(r)
           G == Ghosts(r)
           mo == layer[r].mirror_proc_offsets
           po == layer[r].proc_offsets
<1>1. /\ M \in Seq(Leaves) /\ mo \in [0 .. NumRanks -> Nat] /\ mo[NumRanks] = Len(M)
      /\ \A d \in Ranks : mo[d + 1] = mo[d] + Len(Part(r, d))
      /\ \A d, e \in 0 .. NumRanks : d <= e => mo[d] <= mo[e]
      /\ \A d \in Ranks : \A j \in 1 .. Len(Part(r, d)) : M[mo[d] + j] = Part(r, d)[j]
      /\ \A k \in 1 .. Len(M) : \E d \in Ranks : \E j \in 1 .. Len(Part(r, d)) : k = mo[d] + j
  <2> DEFINE z == [d \in Ranks |-> Part(r, d)]
  <2>1. \A d \in Ranks : z[d] = Part(r, d)
    OBVIOUS
  <2>2. Sliced(M, mo, z)
    BY MirrorsSliced
  <2> HIDE DEF M, mo, z
  <2>3. /\ M \in Seq(Leaves) /\ mo \in [0 .. NumRanks -> Nat] /\ mo[NumRanks] = Len(M)
        /\ \A d, e \in 0 .. NumRanks : d <= e => mo[d] <= mo[e]
    BY <2>2 DEF Sliced
  <2>4. /\ \A d \in Ranks : mo[d + 1] = mo[d] + Len(z[d])
        /\ \A d \in Ranks : \A j \in 1 .. Len(z[d]) : M[mo[d] + j] = z[d][j]
        /\ \A k \in 1 .. Len(M) : \E d \in Ranks : \E j \in 1 .. Len(z[d]) : k = mo[d] + j
    BY <2>2 DEF Sliced
  <2>5. \A k \in 1 .. Len(M) : \E d \in Ranks : \E j \in 1 .. Len(Part(r, d)) : k = mo[d] + j
    BY <2>1, <2>4
  <2>6. \A d \in Ranks : \A j \in 1 .. Len(Part(r, d)) : M[mo[d] + j] = Part(r, d)[j]
    BY <2>1, <2>4
  <2>7. \A d \in Ranks : mo[d + 1] = mo[d] + Len(Part(r, d))
    BY <2>1, <2>4
  <2>8. QED
    BY <2>3, <2>5, <2>6, <2>7
<1>2. /\ G \in Seq(Leaves) /\ po \in [0 .. NumRanks -> Nat] /\ po[NumRanks] = Len(G)
      /\ \A s \in Ranks : po[s + 1] = po[s] + Len(Part(s, r))
      /\ \A d, e \in 0 .. NumRanks : d <= e => po[d] <= po[e]
      /\ \A s \in Ranks : \A j \in 1 .. Len(Part(s, r)) : G[po[s] + j] = Part(s, r)[j]
      /\ \A k \in 1 .. Len(G) : \E s \in Ranks : \E j \in 1 .. Len(Part(s, r)) : k = po[s] + j
  <2> DEFINE z == [s \in Ranks |-> Part(s, r)]
  <2>1. \A s \in Ranks : z[s] = Part(s, r)
    OBVIOUS
  <2>2. Sliced(G, po, z)
    BY GhostsSliced
  <2> HIDE DEF G, po, z
  <2>3. /\ G \in Seq(Leaves) /\ po \in [0 .. NumRanks -> Nat] /\ po[NumRanks] = Len(G)
        /\ \A d, e \in 0 .. NumRanks : d <= e => po[d] <= po[e]
    BY <2>2 DEF Sliced
  <2>4. /\ \A d \in Ranks : po[d + 1] = po[d] + Len(z[d])
        /\ \A d \in Ranks : \A j \in 1 .. Len(z[d]) : G[po[d] + j] = z[d][j]
        /\ \A k \in 1 .. Len(G) : \E d \in Ranks : \E j \in 1 .. Len(z[d]) : k = po[d] + j
    BY <2>2 DEF Sliced
  <2>5. \A k \in 1 .. Len(G) : \E s \in Ranks : \E j \in 1 .. Len(Part(s, r)) : k = po[s] + j
    BY <2>1, <2>4
  <2>6. \A s \in Ranks : \A j \in 1 .. Len(Part(s, r)) : G[po[s] + j] = Part(s, r)[j]
    BY <2>1, <2>4
  <2>7. \A s \in Ranks : po[s + 1] = po[s] + Len(Part(s, r))
    BY <2>1, <2>4
  <2>8. QED
    BY <2>3, <2>5, <2>6, <2>7
<1>3. \A s, d \in Ranks : /\ Part(s, d) \in Seq(Owned(s)) /\ Part(s, d) \in Seq(Leaves)
                          /\ Len(Part(s, d)) \in Nat
                          /\ \A j \in 1 .. Len(Part(s, d)) : Part(s, d)[j] \in Owned(s) /\ s # d
  BY PartType DEF Part, Owned
<1>4. Owned(r) \subseteq Leaves /\ \A d \in Ranks : d # r => Owned(d) \cap Owned(r) = {}
  BY OwnedFacts DEF Owned
<1>5. Range(G) = {G[i] : i \in 1 .. Len(G)}
  BY <1>2 DEF Range
<1>6. Local(r) = Owned(r) \cup Range(G)
  BY DEF Local
<1> HIDE DEF M, G, mo, po
<1>7. Local(r) \subseteq Leaves
  BY <1>2, <1>4, <1>5, <1>6
<1>8. M \in Seq(Owned(r))
  <2>1. ASSUME NEW k \in 1 .. Len(M) PROVE M[k] \in Owned(r)
    <3>1. PICK d \in Ranks : \E j \in 1 .. Len(Part(r, d)) : k = mo[d] + j
      BY <1>1
    <3>2. PICK j \in 1 .. Len(Part(r, d)) : k = mo[d] + j
      BY <3>1
    <3>3. M[k] = Part(r, d)[j]
      BY <1>1, <3>2
    <3>4. QED
      BY <1>3, <3>3
  <2>2. QED
    BY <1>1, <2>1, EntriesIn
<1>9. M \in Seq(Local(r))
  BY <1>6, <1>8
<1>10. G \in Seq(Local(r))
  <2>1. \A i \in 1 .. Len(G) : G[i] \in Local(r)
    BY <1>5, <1>6
  <2>2. QED
    BY <1>2, <2>1, EntriesIn
<1>11. Range(G) \cap Owned(r) = {}
  <2>1. ASSUME NEW i \in 1 .. Len(G) PROVE G[i] \notin Owned(r)
    <3>1. PICK s \in Ranks : \E j \in 1 .. Len(Part(s, r)) : i = po[s] + j
      BY <1>2
    <3>2. PICK j \in 1 .. Len(Part(s, r)) : i = po[s] + j
      BY <3>1
    <3>3. G[i] = Part(s, r)[j] /\ Part(s, r)[j] \in Owned(s) /\ s # r
      BY <1>2, <1>3, <3>2
    <3>4. QED
      BY <1>4, <3>3
  <2>2. QED
    BY <1>5, <2>1
<1>12. ASSUME NEW d \in Ranks
       PROVE  /\ PartAt(M, mo[d], Part(r, d)) /\ PartAt(G, po[d], Part(d, r))
              /\ mo[d + 1] - mo[d] = Len(Part(r, d)) /\ po[d + 1] - po[d] = Len(Part(d, r))
  <2>1. d \in 0 .. NumRanks /\ d + 1 \in 0 .. NumRanks /\ NumRanks \in 0 .. NumRanks
        /\ d + 1 <= NumRanks
    BY Sizes
  <2>2. /\ mo[d] \in Nat /\ mo[d + 1] \in Nat /\ mo[d + 1] <= Len(M)
        /\ po[d] \in Nat /\ po[d + 1] \in Nat /\ po[d + 1] <= Len(G)
    BY <1>1, <1>2, <2>1
  <2>3. mo[d + 1] = mo[d] + Len(Part(r, d)) /\ po[d + 1] = po[d] + Len(Part(d, r))
    BY <1>1, <1>2
  <2>4. Len(Part(r, d)) \in Nat /\ Len(Part(d, r)) \in Nat
    BY <1>3
  <2>5. \A j \in 1 .. Len(Part(r, d)) : M[mo[d] + j] = Part(r, d)[j]
    BY <1>1
  <2>6. \A j \in 1 .. Len(Part(d, r)) : G[po[d] + j] = Part(d, r)[j]
    BY <1>2
  <2>7. PartAt(M, mo[d], Part(r, d))
    BY <2>2, <2>3, <2>5 DEF PartAt
  <2>8. PartAt(G, po[d], Part(d, r))
    BY <2>2, <2>3, <2>6 DEF PartAt
  <2>9. mo[d + 1] - mo[d] = Len(Part(r, d)) /\ po[d + 1] - po[d] = Len(Part(d, r))
    <3> DEFINE x == mo[d]
               y == po[d]
               u == Len(Part(r, d))
               v == Len(Part(d, r))
    <3>1. /\ x \in Nat /\ y \in Nat /\ u \in Nat /\ v \in Nat
          /\ mo[d + 1] = x + u /\ po[d + 1] = y + v
      BY <2>2, <2>3, <2>4
    <3> HIDE DEF x, y, u, v
    <3>2. (x + u) - x = u /\ (y + v) - y = v
      BY <3>1
    <3>3. QED
      BY <3>1, <3>2 DEF x, y, u, v
  <2>10. QED
    BY <2>7, <2>8, <2>9
<1>13. ASSUME NEW s \in Ranks, NEW d \in Ranks, s < d
       PROVE  po[s] + Len(Part(s, r)) <= po[d]
  <2>1. s + 1 <= d /\ s + 1 \in 0 .. NumRanks /\ d \in 0 .. NumRanks
    BY <1>13, Sizes
  <2>2. QED
    BY <1>2, <2>1
<1>14. \A d \in Ranks : Part(r, d) \in Seq(Local(r))
  BY <1>3, <1>6
<1>15. ASSUME NEW s \in Ranks PROVE Part(s, r) \in Seq(Local(r))
  <2>1. \A j \in 1 .. Len(Part(s, r)) : Part(s, r)[j] \in Local(r)
    <3>1. TAKE j \in 1 .. Len(Part(s, r))
    <3>2. PartAt(G, po[s], Part(s, r)) /\ Len(G) \in Nat /\ Len(Part(s, r)) \in Nat
      BY <1>2, <1>3, <1>12
    <3>3. po[s] + j \in 1 .. Len(G) /\ G[po[s] + j] = Part(s, r)[j]
      BY <3>2 DEF PartAt
    <3>4. QED
      BY <1>10, <3>3
  <2>2. QED
    BY <1>3, <2>1, EntriesIn
<1>16. QED
  BY <1>1, <1>2, <1>3, <1>4, <1>5, <1>7, <1>8, <1>9, <1>10, <1>11, <1>12, <1>13, <1>14, <1>15
     DEF LayerOf, M, G, mo, po, mirror_proc_offsets, proc_offsets, local_num_mirrors,
         local_num_ghosts

----------------------------------------------------------------------------
(* What the invariant gives                                                 *)

(* The numbers of variables of a time step are natural numbers.             *)
LEMMA NumvarsType ==
  ASSUME numvars \in [1 .. MaxRounds -> NumVarsSets], NEW k \in 1 .. MaxRounds
  PROVE  /\ k \in Nat
         /\ numvars[k] \in [Leaves -> 0 .. MaxVars]
         /\ \A l \in Leaves : numvars[k][l] \in 0 .. MaxVars /\ numvars[k][l] \in Nat
<1>1. numvars[k] \in NumVarsSets
  OBVIOUS
<1>2. numvars[k] \in [Leaves -> 0 .. MaxVars] /\ MaxVars \in Nat /\ MaxRounds \in Nat
  BY <1>1, ExchangeAssumption DEF Leaves
<1>3. QED
  BY <1>2

(* The leaves of any list have running sums in a time step.                 *)
LEMMA RunsInStep ==
  ASSUME numvars \in [1 .. MaxRounds -> NumVarsSets], NEW k \in 1 .. MaxRounds,
         NEW st, NEW z \in Seq(Leaves)
  PROVE  Runs(st, numvars[k], z)
<1>1. \A l \in Leaves : Weight(st, numvars[k], l) \in Nat
  BY NumvarsType DEF Weight
<1>2. QED
  BY <1>1, RunFacts

(* The leaves a rank knows have running sums on it.                         *)
LEMMA RunsOnRank ==
  ASSUME NEW r \in Ranks, presence[r] \in [Local(r) -> 0 .. MaxVars],
         NEW st, NEW z \in Seq(Local(r))
  PROVE  Runs(st, presence[r], z)
<1>1. MaxVars \in Nat
  BY ExchangeAssumption
<1>2. \A l \in Local(r) : Weight(st, presence[r], l) \in Nat
  BY <1>1 DEF Weight
<1>3. QED
  BY <1>2, RunFacts

(* What has not changed for a rank keeps its invariant.                     *)
LEMMA SameRank ==
  ASSUME NEW r \in Ranks, RankInv(r),
         gfq' = gfq, layer' = layer, numvars' = numvars,
         pc'[r] = pc[r], stage'[r] = stage[r], round'[r] = round[r],
         presence'[r] = presence[r], block'[r] = block[r], mem'[r] = mem[r],
         ext'[r] = ext[r], recvs'[r] = recvs[r]
  PROVE  RankInv(r)'
<1>1. /\ Mirrors(r)' = Mirrors(r) /\ Ghosts(r)' = Ghosts(r) /\ Owned(r)' = Owned(r)
      /\ Local(r)' = Local(r)
      /\ \A s : Part(s, r)' = Part(s, r) /\ proc_offsets(r, s)' = proc_offsets(r, s)
  BY DEF Mirrors, Ghosts, Owned, Local, Part, proc_offsets
<1>2. RankShape(r)'
  BY <1>1 DEF RankInv, RankShape
<1>3. Knows(r)'
  BY <1>1 DEF RankInv, Knows, Fresh
<1>4. Held(r)'
  BY <1>1 DEF RankInv, Held
<1>5. Filled(r)'
  BY <1>1 DEF RankInv, Filled
<1>6. Updated(r)'
  BY <1>1 DEF RankInv, Updated, Fresh
<1>7. QED
  BY <1>2, <1>3, <1>4, <1>5, <1>6 DEF RankInv

(* Messages in flight stay what they are, as long as neither rank finishes   *)
(* with them.                                                               *)
LEMMA SameInFlight ==
  ASSUME NEW s \in Ranks, NEW d \in Ranks, InFlight(s, d),
         gfq' = gfq, layer' = layer, numvars' = numvars,
         chan'[s][d] = chan[s][d],
         Len(Part(s, d)) # 0 => Posted(s)' = Posted(s) /\ Got(s, d)' = Got(s, d),
         \/ pc'[s] = pc[s] /\ stage'[s] = stage[s] /\ round'[s] = round[s]
         \/ pc[s] # "wait"
         \/ \A i \in 1 .. Len(chan[s][d]) : chan[s][d][i].buffered
  PROVE  InFlight(s, d)'
<1>1. Part(s, d)' = Part(s, d)
  BY DEF Part
<1>2. CASE Len(Part(s, d)) = 0
  BY <1>1, <1>2 DEF InFlight
<1>3. CASE Len(Part(s, d)) # 0
  <2>1. /\ Got(s, d) + Len(chan[s][d]) = Posted(s)
        /\ \A i \in 1 .. Len(chan[s][d]) : Letter(chan[s][d][i], Got(s, d) + i, s, d)
    BY <1>3 DEF InFlight
  <2>2. ASSUME NEW i \in 1 .. Len(chan[s][d])
        PROVE  Letter(chan[s][d][i], Got(s, d) + i, s, d)'
    <3>1. Letter(chan[s][d][i], Got(s, d) + i, s, d)
      BY <2>1
    <3>2. chan'[s][d][i] = chan[s][d][i] /\ Got(s, d)' = Got(s, d)
      BY <1>3
    <3>3. Mirrors(s)' = Mirrors(s) /\ mirror_proc_offsets(s, d)' = mirror_proc_offsets(s, d)
      BY DEF Mirrors, mirror_proc_offsets
    <3>4. QED
      BY <1>1, <3>1, <3>2, <3>3 DEF Letter
  <2>3. QED
    BY <1>1, <1>3, <2>1, <2>2 DEF InFlight
<1>4. QED
  BY <1>2, <1>3

(* In an exchange, the running sums a rank computes with what it knows are   *)
(* those of the time step.                                                  *)
LEMMA AgreedRun ==
  ASSUME Shape, NEW r \in Ranks, RankShape(r), Knows(r), pc[r] # "compute",
         NEW z \in Seq(Local(r))
  PROVE  /\ Runs(stage[r], presence[r], z) /\ Runs(stage[r], numvars[round[r]], z)
         /\ \A n \in 0 .. Len(z) :
               Run(stage[r], presence[r], z, n) = Run(stage[r], numvars[round[r]], z, n)
<1>1. LayerOf(r) /\ Local(r) \subseteq Leaves
  BY LayerIs DEF Shape, LayerOf
<1>2. z \in Seq(Leaves) /\ Len(z) \in Nat /\ \A i \in 1 .. Len(z) : z[i] \in Local(r)
  BY <1>1
<1>3. Runs(stage[r], presence[r], z)
  BY RunsOnRank DEF RankShape
<1>4. Runs(stage[r], numvars[round[r]], z)
  <2>1. round[r] \in 1 .. MaxRounds /\ numvars \in [1 .. MaxRounds -> NumVarsSets]
    BY DEF RankShape, Shape
  <2>2. QED
    BY <1>2, <2>1, RunsInStep
<1>5. \A i \in 1 .. Len(z) :
         Weight(stage[r], presence[r], z[i]) = Weight(stage[r], numvars[round[r]], z[i])
  <2>1. CASE stage[r] = "presence"
    BY <2>1 DEF Weight
  <2>2. CASE stage[r] # "presence"
    <3>1. stage[r] = "data"
      BY <2>2 DEF Shape, Stages
    <3>2. QED
      BY <1>2, <3>1 DEF Knows, Weight
  <2>3. QED
    BY <2>1, <2>2
<1>6. QED
  BY <1>2, <1>3, <1>4, <1>5, RunSame

(* The offsets of a rank in an exchange.                                    *)
LEMMA OffsetsAre ==
  ASSUME Shape, NEW r \in Ranks, RankShape(r), Knows(r), pc[r] # "compute"
  PROVE  /\ \A n \in 0 .. Len(Mirrors(r)) : mirror_offsets(r, stage[r], n)
                                               = Run(stage[r], numvars[round[r]], Mirrors(r), n)
         /\ \A n \in 0 .. Len(Ghosts(r)) : ghost_offsets(r, stage[r], n)
                                               = Run(stage[r], numvars[round[r]], Ghosts(r), n)
<1>1. Mirrors(r) \in Seq(Local(r)) /\ Ghosts(r) \in Seq(Local(r))
  BY LayerIs DEF Shape, LayerOf
<1>2. \A n : mirror_offsets(r, stage[r], n) = Run(stage[r], presence[r], Mirrors(r), n)
  BY DEF mirror_offsets, Items, Run, SumOver, FoldLeft, MapThenFoldSet
<1>3. \A n : ghost_offsets(r, stage[r], n) = Run(stage[r], presence[r], Ghosts(r), n)
  BY DEF ghost_offsets, Items, Run, SumOver, FoldLeft, MapThenFoldSet
<1>4. \A n \in 0 .. Len(Mirrors(r)) : Run(stage[r], presence[r], Mirrors(r), n)
                                         = Run(stage[r], numvars[round[r]], Mirrors(r), n)
  BY <1>1, AgreedRun
<1>5. \A n \in 0 .. Len(Ghosts(r)) : Run(stage[r], presence[r], Ghosts(r), n)
                                         = Run(stage[r], numvars[round[r]], Ghosts(r), n)
  BY <1>1, AgreedRun
<1>6. QED
  BY <1>2, <1>3, <1>4, <1>5

(* The part of a list that concerns one rank, in a buffer.                  *)
SpanOf(st, w, list, o, z) ==
    /\ Run(st, w, list, o) \in Nat
    /\ Run(st, w, z, Len(z)) \in Nat
    /\ Run(st, w, list, Len(list)) \in Nat
    /\ Run(st, w, list, o + Len(z)) = Run(st, w, list, o) + Run(st, w, z, Len(z))
    /\ Run(st, w, list, o) + Run(st, w, z, Len(z)) <= Run(st, w, list, Len(list))

(* Its running sums are a slice of those of the list.                       *)
LEMMA SpanIs ==
  ASSUME NEW st, NEW w, NEW list, NEW o, NEW z, Len(list) \in Nat, Len(z) \in Nat,
         Runs(st, w, list), Runs(st, w, z), PartAt(list, o, z)
  PROVE  SpanOf(st, w, list, o, z)
<1>1. GoesOn(st, w, list, o, z)
  BY RunSlice
<1>2. o \in Nat /\ o + Len(z) <= Len(list)
  BY DEF PartAt
<1>3. /\ o \in 0 .. Len(list) /\ Len(list) \in 0 .. Len(list) /\ Len(z) \in 0 .. Len(z)
      /\ o + Len(z) \in 0 .. Len(list)
  BY <1>2
<1>4. Run(st, w, list, o + Len(z)) = Run(st, w, list, o) + Run(st, w, z, Len(z))
  BY <1>1, <1>3 DEF GoesOn
<1>5. /\ Run(st, w, list, o) \in Nat /\ Run(st, w, z, Len(z)) \in Nat
      /\ Run(st, w, list, Len(list)) \in Nat
  BY <1>3 DEF Runs
<1>6. Run(st, w, list, o + Len(z)) <= Run(st, w, list, Len(list))
  BY <1>2, <1>3 DEF Runs
<1>7. QED
  BY <1>4, <1>5, <1>6 DEF SpanOf

(* What one rank sends comes before what the next sends.                    *)
LEMMA SpansApart ==
  ASSUME NEW st, NEW w, NEW list, NEW o, NEW z, NEW p, Len(list) \in Nat, Len(z) \in Nat,
         Runs(st, w, list), Runs(st, w, z), PartAt(list, o, z),
         p \in 0 .. Len(list), o + Len(z) <= p
  PROVE  Run(st, w, list, o) + Run(st, w, z, Len(z)) <= Run(st, w, list, p)
<1>1. SpanOf(st, w, list, o, z)
  BY SpanIs
<1>2. o \in Nat /\ o + Len(z) <= Len(list)
  BY DEF PartAt
<1>3. o + Len(z) \in 0 .. Len(list)
  BY <1>2
<1>4. Run(st, w, list, o + Len(z)) <= Run(st, w, list, p)
  BY <1>3 DEF Runs
<1>5. QED
  BY <1>1, <1>4 DEF SpanOf

(* What is known of the two ranks of a pair, in the exchange of one of them. *)
LEMMA PairRuns ==
  ASSUME Shape, NEW r \in Ranks, NEW d \in Ranks, NEW k \in 1 .. MaxRounds, NEW st
  PROVE  /\ Runs(st, numvars[k], Mirrors(r)) /\ Runs(st, numvars[k], Ghosts(r))
         /\ Runs(st, numvars[k], Part(r, d)) /\ Runs(st, numvars[k], Part(d, r))
         /\ Len(Mirrors(r)) \in Nat /\ Len(Ghosts(r)) \in Nat
         /\ Len(Part(r, d)) \in Nat /\ Len(Part(d, r)) \in Nat
         /\ PartAt(Mirrors(r), mirror_proc_offsets(r, d), Part(r, d))
         /\ PartAt(Ghosts(r), proc_offsets(r, d), Part(d, r))
         /\ SpanOf(st, numvars[k], Mirrors(r), mirror_proc_offsets(r, d), Part(r, d))
         /\ SpanOf(st, numvars[k], Ghosts(r), proc_offsets(r, d), Part(d, r))
<1>1. LayerOf(r) /\ numvars \in [1 .. MaxRounds -> NumVarsSets]
  BY LayerIs DEF Shape
<1>2. /\ Mirrors(r) \in Seq(Leaves) /\ Ghosts(r) \in Seq(Leaves)
      /\ Part(r, d) \in Seq(Leaves) /\ Part(d, r) \in Seq(Leaves)
      /\ Len(Part(r, d)) \in Nat /\ Len(Part(d, r)) \in Nat
      /\ PartAt(Mirrors(r), mirror_proc_offsets(r, d), Part(r, d))
      /\ PartAt(Ghosts(r), proc_offsets(r, d), Part(d, r))
  BY <1>1 DEF LayerOf
<1>3. Len(Mirrors(r)) \in Nat /\ Len(Ghosts(r)) \in Nat
  BY <1>2
<1>4. Runs(st, numvars[k], Mirrors(r)) /\ Runs(st, numvars[k], Ghosts(r))
  BY <1>1, <1>2, RunsInStep
<1>5. Runs(st, numvars[k], Part(r, d)) /\ Runs(st, numvars[k], Part(d, r))
  BY <1>1, <1>2, RunsInStep
<1>6. SpanOf(st, numvars[k], Mirrors(r), mirror_proc_offsets(r, d), Part(r, d))
  BY <1>2, <1>3, <1>4, <1>5, SpanIs
<1>7. SpanOf(st, numvars[k], Ghosts(r), proc_offsets(r, d), Part(d, r))
  BY <1>2, <1>3, <1>4, <1>5, SpanIs
<1>8. QED
  BY <1>2, <1>3, <1>4, <1>5, <1>6, <1>7

(* The ranges of the buffers a rank posts its requests for.                 *)
LEMMA RangesAre ==
  ASSUME Shape, NEW r \in Ranks, RankShape(r), Knows(r), pc[r] # "compute", NEW d \in Ranks
  PROVE  /\ RecvRange(r, d).at
               = Run(stage[r], numvars[round[r]], Ghosts(r), proc_offsets(r, d))
         /\ RecvRange(r, d).len
               = Run(stage[r], numvars[round[r]], Part(d, r), Len(Part(d, r)))
         /\ SendRange(r, d).at
               = Run(stage[r], numvars[round[r]], Mirrors(r), mirror_proc_offsets(r, d))
         /\ SendRange(r, d).len
               = Run(stage[r], numvars[round[r]], Part(r, d), Len(Part(r, d)))
<1> DEFINE st == stage[r]
           w == numvars[round[r]]
           po == proc_offsets(r, d)
           mo == mirror_proc_offsets(r, d)
           G == Ghosts(r)
           M == Mirrors(r)
           zg == Part(d, r)
           zm == Part(r, d)
<1>1. local_num_ghosts(r, d) = Len(zg) /\ local_num_mirrors(r, d) = Len(zm)
  BY LayerIs DEF LayerOf, Shape
<1>2. round[r] \in 1 .. MaxRounds
  BY DEF RankShape
<1>3. /\ Len(M) \in Nat /\ Len(G) \in Nat /\ Len(zm) \in Nat /\ Len(zg) \in Nat
      /\ PartAt(M, mo, zm) /\ PartAt(G, po, zg)
      /\ SpanOf(st, w, M, mo, zm) /\ SpanOf(st, w, G, po, zg)
  BY <1>2, PairRuns
<1>4. /\ po \in 0 .. Len(G) /\ po + Len(zg) \in 0 .. Len(G)
      /\ mo \in 0 .. Len(M) /\ mo + Len(zm) \in 0 .. Len(M)
  BY <1>3 DEF PartAt
<1>5. /\ \A n \in 0 .. Len(M) : mirror_offsets(r, st, n) = Run(st, w, M, n)
      /\ \A n \in 0 .. Len(G) : ghost_offsets(r, st, n) = Run(st, w, G, n)
  BY OffsetsAre
<1>6. /\ RecvRange(r, d).at = ghost_offsets(r, st, po)
      /\ RecvRange(r, d).len = ghost_offsets(r, st, po + Len(zg)) - ghost_offsets(r, st, po)
      /\ SendRange(r, d).at = mirror_offsets(r, st, mo)
      /\ SendRange(r, d).len = mirror_offsets(r, st, mo + Len(zm)) - mirror_offsets(r, st, mo)
  BY <1>1 DEF RecvRange, SendRange
<1> HIDE DEF st, w, po, mo, G, M, zg, zm
<1>7. /\ RecvRange(r, d).at = Run(st, w, G, po)
      /\ RecvRange(r, d).len = Run(st, w, G, po + Len(zg)) - Run(st, w, G, po)
      /\ SendRange(r, d).at = Run(st, w, M, mo)
      /\ SendRange(r, d).len = Run(st, w, M, mo + Len(zm)) - Run(st, w, M, mo)
  BY <1>4, <1>5, <1>6
<1>8. /\ Run(st, w, G, po + Len(zg)) - Run(st, w, G, po) = Run(st, w, zg, Len(zg))
      /\ Run(st, w, M, mo + Len(zm)) - Run(st, w, M, mo) = Run(st, w, zm, Len(zm))
  BY <1>3 DEF SpanOf
<1>9. QED
  BY <1>7, <1>8 DEF st, w, po, mo, G, M, zg, zm

----------------------------------------------------------------------------
(* Each action keeps the invariant                                          *)

(* The counts of exchanges are natural numbers.                             *)
LEMMA CountsType ==
  ASSUME Shape, NEW r \in Ranks, RankShape(r)
  PROVE  /\ round[r] \in Nat
         /\ Done(r) \in Nat /\ Posted(r) \in Nat
         /\ \A s \in Ranks : Got(s, r) \in Nat
<1>1. round[r] \in Nat /\ (pc[r] # "compute" => round[r] >= 1)
  BY ExchangeAssumption DEF Shape, RankShape
<1>2. Done(r) \in Nat
  BY <1>1 DEF Done, Exchange
<1>3. QED
  BY <1>1, <1>2 DEF Posted, Got

(* The invariant holds at the start.                                        *)
LEMMA StartsRight == Init => IInv
<1> SUFFICES ASSUME Init PROVE IInv
  OBVIOUS
<1>1. Shape
  <2>1. <<>> \in Seq(Words) /\ <<>> \in Seq(Messages) /\ 0 \in 0 .. MaxRounds
        /\ 0 \in 0 .. MaxMeshes /\ Empty \in [send : Nat, recv : Nat]
    BY ExchangeAssumption DEF Empty
  <2>2. mem \in [Ranks -> [Stages -> Seq(Words)]]
    BY <2>1 DEF Init
  <2>3. ext \in [Ranks -> [Stages -> [send : Nat, recv : Nat]]]
    BY <2>1 DEF Init
  <2>4. chan \in [Ranks -> [Ranks -> Seq(Messages)]]
    BY <2>1 DEF Init
  <2>5. /\ recvs \in [Ranks -> SUBSET Ranks]
        /\ pc \in [Ranks -> {"compute", "pack", "post", "wait"}]
        /\ stage \in [Ranks -> Stages]
        /\ round \in [Ranks -> 0 .. MaxRounds]
    BY <2>1 DEF Init, Stages
  <2>6. DOMAIN presence = Ranks /\ DOMAIN block = Ranks
    BY DEF Init
  <2>7. QED
    BY <2>1, <2>2, <2>3, <2>4, <2>5, <2>6 DEF Init, Shape
<1>2. ASSUME NEW r \in Ranks PROVE RankInv(r)
  <2>1. pc[r] = "compute" /\ stage[r] = "presence" /\ recvs[r] = {}
    BY DEF Init
  <2>2. presence[r] \in [Local(r) -> 0 .. MaxVars]
    BY ExchangeAssumption DEF Init
  <2>3. block[r] \in [Local(r) -> Seq(Words)]
    BY DEF Init
  <2>4. ASSUME NEW st \in Stages PROVE ext[r][st].send + ext[r][st].recv <= Len(mem[r][st])
    <3>1. ext[r][st] = Empty /\ mem[r][st] = <<>>
      BY DEF Init
    <3>2. QED
      BY <3>1 DEF Empty
  <2>5. RankShape(r)
    BY <2>1, <2>2, <2>3, <2>4 DEF RankShape
  <2>6. QED
    BY <2>1, <2>5 DEF RankInv, Knows, Held, Filled, Updated
<1>3. ASSUME NEW s \in Ranks, NEW d \in Ranks PROVE InFlight(s, d)
  <2>1. chan[s][d] = <<>> /\ pc[s] = "compute" /\ pc[d] = "compute" /\ round[s] = 0
        /\ round[d] = 0
    BY DEF Init
  <2>2. Got(s, d) = 0 /\ Posted(s) = 0
    BY <2>1 DEF Got, Posted, Done
  <2>3. QED
    BY <2>1, <2>2 DEF InFlight
<1>4. QED
  BY <1>1, <1>2, <1>3 DEF IInv

(* A time step gives the owned leaves their values and their numbers of      *)
(* variables; the exchanges of the step before are over on this rank.        *)
LEMMA ComputeKeeps ==
  ASSUME IInv, NEW r \in Ranks, Compute(r)
  PROVE  IInv'
<1> DEFINE k == round[r] + 1
           n == numvars[k]
<1>1. Shape /\ RankShape(r) /\ pc[r] = "compute" /\ recvs[r] = {}
  BY DEF IInv, RankInv, RankShape, Compute
<1>2. k \in 1 .. MaxRounds /\ k \in 0 .. MaxRounds /\ k \in Nat /\ round[r] \in Nat
  <2> DEFINE m == round[r]
  <2>1. m \in 0 .. MaxRounds /\ m < MaxRounds /\ MaxRounds \in Nat
    BY <1>1, ExchangeAssumption DEF Shape, Compute
  <2> HIDE DEF m
  <2>2. m + 1 \in 1 .. MaxRounds /\ m + 1 \in 0 .. MaxRounds /\ m + 1 \in Nat /\ m \in Nat
    BY <2>1
  <2>3. QED
    BY <2>2 DEF m
<1>3. \A l \in Leaves : n[l] \in 0 .. MaxVars /\ n[l] \in Nat
  BY <1>1, <1>2, NumvarsType DEF Shape
<1>4. LayerOf(r)
  BY <1>1, LayerIs DEF Shape
<1>5. /\ pc'[r] = "pack" /\ stage'[r] = "presence" /\ round'[r] = k
      /\ presence'[r] = [l \in Local(r) |-> IF l \in Owned(r) THEN n[l] ELSE presence[r][l]]
      /\ block'[r] = [l \in Local(r) |-> IF l \in Owned(r) THEN [i \in 1 .. n[l] |-> Value(l, i, k)]
                                         ELSE block[r][l]]
  BY <1>1 DEF Compute, Shape
<1>6. /\ gfq' = gfq /\ layer' = layer /\ numvars' = numvars /\ mem' = mem /\ ext' = ext
      /\ recvs' = recvs /\ chan' = chan /\ meshes' = meshes
      /\ DOMAIN presence' = Ranks /\ DOMAIN block' = Ranks
      /\ pc' = [pc EXCEPT ![r] = "pack"] /\ stage' = [stage EXCEPT ![r] = "presence"]
      /\ round' = [round EXCEPT ![r] = @ + 1]
  BY <1>1 DEF Compute, Shape
<1>7. \A q \in Ranks : q # r => /\ pc'[q] = pc[q] /\ stage'[q] = stage[q] /\ round'[q] = round[q]
                                /\ presence'[q] = presence[q] /\ block'[q] = block[q]
  BY <1>1 DEF Compute, Shape
<1> HIDE DEF k, n
<1>8. Shape'
  <2>1. stage' \in [Ranks -> Stages] /\ pc' \in [Ranks -> {"compute", "pack", "post", "wait"}]
    BY <1>1, <1>6 DEF Shape, Stages
  <2>2. round' \in [Ranks -> 0 .. MaxRounds]
    BY <1>1, <1>2, <1>6 DEF Shape, k
  <2>3. QED
    BY <1>1, <1>6, <2>1, <2>2 DEF Shape
<1>9. /\ Local(r)' = Local(r) /\ Owned(r)' = Owned(r) /\ \A s : Part(s, r)' = Part(s, r)
      /\ Owned(r) \subseteq Leaves /\ Owned(r) \subseteq Local(r)
  BY <1>4, <1>6 DEF Local, Owned, Part, Ghosts, LayerOf
<1>10. RankShape(r)'
  <2>1. presence'[r] \in [Local(r) -> 0 .. MaxVars]
    BY <1>1, <1>3, <1>5, <1>9 DEF RankShape
  <2>2. ASSUME NEW l \in Owned(r) PROVE [i \in 1 .. n[l] |-> Value(l, i, k)] \in Seq(Words)
    <3>1. l \in Leaves /\ n[l] \in Nat
      BY <1>3, <1>9
    <3>2. \A i \in 1 .. n[l] : Value(l, i, k) \in Words
      BY <1>2, <3>1 DEF Words
    <3>3. QED
      BY <3>1, <3>2
  <2>3. block'[r] \in [Local(r) -> Seq(Words)]
    BY <1>1, <1>5, <2>2 DEF RankShape
  <2>4. QED
    BY <1>1, <1>2, <1>5, <1>6, <1>9, <2>1, <2>3 DEF RankShape
<1>11. Knows(r)'
  BY <1>5, <1>6, <1>9 DEF Knows, Fresh, n
<1>12. RankInv(r)'
  BY <1>5, <1>10, <1>11 DEF RankInv, Held, Filled, Updated
<1>13. ASSUME NEW q \in Ranks, q # r PROVE RankInv(q)'
  BY <1>6, <1>7, <1>13, SameRank DEF IInv
<1>14. ASSUME NEW q \in Ranks PROVE /\ Posted(q)' = Posted(q)
                                    /\ \A s \in Ranks : Got(s, q)' = Got(s, q)
  <2>1. CASE q = r
    <3>1. Done(r)' = Done(r)
      BY <1>1, <1>2, <1>5 DEF Done, Exchange, k
    <3>2. QED
      BY <1>1, <1>5, <2>1, <3>1 DEF Posted, Got
  <2>2. CASE q # r
    BY <1>6, <1>7, <2>2 DEF Posted, Got, Done
  <2>3. QED
    BY <2>1, <2>2
<1>15. ASSUME NEW s \in Ranks, NEW d \in Ranks PROVE InFlight(s, d)'
  <2>1. \/ pc'[s] = pc[s] /\ stage'[s] = stage[s] /\ round'[s] = round[s]
        \/ pc[s] # "wait"
    BY <1>1, <1>7
  <2>2. InFlight(s, d)
    BY DEF IInv
  <2>3. QED
    BY <1>6, <1>14, <2>1, <2>2, SameInFlight
<1>16. QED
  BY <1>8, <1>12, <1>13, <1>15 DEF IInv

(* In an exchange, the extents the buffers are given are those of what is    *)
(* packed and of what is received.                                          *)
LEMMA ExtentsAre ==
  ASSUME Shape, NEW r \in Ranks, RankShape(r), Knows(r), pc[r] # "compute"
  PROVE  LET st == stage[r]
             w == numvars[round[r]]
         IN  /\ num_block_mirrors(r, st) = Run(st, w, Mirrors(r), Len(Mirrors(r)))
             /\ num_block_ghosts(r, st) = Run(st, w, Ghosts(r), Len(Ghosts(r)))
             /\ Extents(r, st) = [send |-> Run(st, w, Mirrors(r), Len(Mirrors(r))),
                                  recv |-> Run(st, w, Ghosts(r), Len(Ghosts(r)))]
             /\ Run(st, w, Mirrors(r), Len(Mirrors(r))) \in Nat
             /\ Run(st, w, Ghosts(r), Len(Ghosts(r))) \in Nat
<1> DEFINE st == stage[r]
           w == numvars[round[r]]
           M == Mirrors(r)
           G == Ghosts(r)
<1>1. round[r] \in 1 .. MaxRounds /\ st \in Stages
  BY DEF RankShape, Shape
<1>2. Len(M) \in Nat /\ Len(G) \in Nat /\ Runs(st, w, M) /\ Runs(st, w, G)
  BY <1>1, PairRuns
<1>3. Len(M) \in 0 .. Len(M) /\ Len(G) \in 0 .. Len(G)
  BY <1>2
<1>4. num_block_mirrors(r, st) = Run(st, w, M, Len(M))
  BY <1>3, OffsetsAre DEF num_block_mirrors
<1>5. num_block_ghosts(r, st) = Run(st, w, G, Len(G))
  BY <1>3, OffsetsAre DEF num_block_ghosts
<1>6. Run(st, w, M, Len(M)) \in Nat /\ Run(st, w, G, Len(G)) \in Nat
  BY <1>2, <1>3 DEF Runs
<1>7. Extents(r, st) = [send |-> Run(st, w, M, Len(M)), recv |-> Run(st, w, G, Len(G))]
  <2>1. CASE st = "data"
    BY <1>4, <1>5, <2>1 DEF Extents
  <2>2. CASE st # "data"
    <3>1. st = "presence"
      BY <1>1, <2>2 DEF Stages
    <3> HIDE DEF st, w, M, G
    <3>2. Runs("presence", w, M) /\ Runs("presence", w, G)
      BY <1>2, <3>1
    <3>3. Run("presence", w, M, Len(M)) = Len(M) /\ Run("presence", w, G, Len(G)) = Len(G)
      BY <1>2, <1>3, <3>2, RunOnes
    <3>4. QED
      BY <2>2, <3>1, <3>3 DEF Extents, M, G
  <2>3. QED
    BY <2>1, <2>2
<1>8. QED
  BY <1>4, <1>5, <1>6, <1>7

(* A buffer that is grown keeps what it holds and gets room.                *)
LEMMA ResizedIs ==
  ASSUME NEW st \in Stages, NEW a \in Seq(Words), NEW n \in Nat
  PROVE  Resized(st, a, n) \in Seq(Words) /\ Len(Resized(st, a, n)) = n
<1> DEFINE z == Resized(st, a, n)
           Put(i) == IF i \in DOMAIN a THEN a[i] ELSE Uninit(st)
<1>1. z = [i \in 1 .. n |-> Put(i)]
  BY DEF Resized
<1>2. \A i \in 1 .. n : Put(i) \in Words
  BY DEF Uninit, Words
<1> HIDE DEF Put, z
<1>3. z \in Seq(Words) /\ Len(z) = n
  BY <1>1, <1>2
<1>4. QED
  BY <1>3 DEF z

(* The memory has room for the two buffers, one behind the other.           *)
LEMMA AllocatedIs ==
  ASSUME Shape, NEW r \in Ranks, RankShape(r), Knows(r), pc[r] # "compute"
  PROVE  LET st == stage[r]
             a == Allocated(r, st)
         IN  /\ a.ext = Extents(r, st)
             /\ a.mem \in Seq(Words)
             /\ a.ext.send + a.ext.recv <= Len(a.mem)
<1> DEFINE st == stage[r]
           a == Allocated(r, st)
           new == Extents(r, st)
           need == new.send + new.recv
           m == mem[r][st]
<1>1. st \in Stages /\ m \in Seq(Words) /\ ext[r][st].send + ext[r][st].recv <= Len(m)
  BY DEF Shape, RankShape
<1>2. new.send \in Nat /\ new.recv \in Nat
  <2> DEFINE x == Run(st, numvars[round[r]], Mirrors(r), Len(Mirrors(r)))
             y == Run(st, numvars[round[r]], Ghosts(r), Len(Ghosts(r)))
  <2>1. new = [send |-> x, recv |-> y] /\ x \in Nat /\ y \in Nat
    BY ExtentsAre
  <2> HIDE DEF x, y, new
  <2>2. QED
    BY <2>1
<1>3. need \in Nat /\ Len(m) \in Nat
  BY <1>1, <1>2
<1>4. /\ Resized(st, m, need) \in Seq(Words)
      /\ Len(Resized(st, m, need)) = need
  BY <1>1, <1>3, ResizedIs
<1>5. /\ a.ext = new
      /\ a.mem = IF st = "presence"
                 THEN IF ext[r][st] = new THEN m ELSE Resized(st, m, need)
                 ELSE IF need > Len(m) THEN Resized(st, m, need) ELSE m
  BY DEF Allocated
<1> HIDE DEF m, a, st, new
<1>6. a.mem \in Seq(Words)
  BY <1>1, <1>4, <1>5
<1>7. need <= Len(a.mem)
  <2>1. CASE a.mem = Resized(st, m, need)
    BY <1>3, <1>4, <2>1
  <2>2. CASE a.mem # Resized(st, m, need)
    <3>1. a.mem = m /\ (ext[r][st] = new \/ ~(need > Len(m)))
      BY <1>5, <2>2
    <3>2. need <= Len(m)
      <4> DEFINE c == Len(m)
                 b == need
      <4>1. CASE ext[r][st] = new
        BY <1>1, <4>1
      <4>2. CASE ~(need > Len(m))
        <5>1. b \in Nat /\ c \in Nat /\ ~(b > c)
          BY <1>3, <4>2
        <5> HIDE DEF b, c
        <5>2. b <= c
          BY <5>1
        <5>3. QED
          BY <5>2 DEF b, c
      <4>3. QED
        BY <3>1, <4>1, <4>2
    <3>3. QED
      BY <3>1, <3>2
  <2>3. QED
    BY <2>1, <2>2
<1>8. a.ext = new /\ a.mem \in Seq(Words) /\ a.ext.send + a.ext.recv <= Len(a.mem)
  BY <1>5, <1>6, <1>7
<1>9. QED
  BY <1>8 DEF a, new, st

(* Once packed, the send buffer holds the mirrors.                          *)
LEMMA PackedHolds ==
  ASSUME Shape, NEW r \in Ranks, RankShape(r), Knows(r), pc[r] # "compute", NEW m \in Seq(Words),
         Run(stage[r], numvars[round[r]], Mirrors(r), Len(Mirrors(r))) <= Len(m)
  PROVE  LET st == stage[r]
         IN  /\ Packed(r, st, m) \in Seq(Words)
             /\ Len(Packed(r, st, m)) = Len(m)
             /\ Holds(Packed(r, st, m), 0, st, round[r], numvars[round[r]], Mirrors(r))
<1> DEFINE st == stage[r]
           k == round[r]
           w == numvars[k]
           v == presence[r]
           M == Mirrors(r)
           N == Len(M)
           p == Packed(r, st, m)
<1>1. k \in 1 .. MaxRounds /\ k \in Nat /\ st \in Stages
  BY ExchangeAssumption DEF RankShape, Shape
<1>2. LayerOf(r)
  BY LayerIs DEF Shape
<1>3. M \in Seq(Owned(r)) /\ M \in Seq(Local(r)) /\ Owned(r) \subseteq Leaves /\ N \in Nat
  BY <1>2 DEF LayerOf
<1>4. \A i \in 1 .. N : M[i] \in Owned(r) /\ M[i] \in Leaves
  BY <1>3
<1>5. \A l \in Leaves : w[l] \in Nat
  BY <1>1, NumvarsType DEF Shape
<1>6. Runs(st, v, M) /\ Runs(st, w, M) /\ \A n \in 0 .. N : Run(st, v, M, n) = Run(st, w, M, n)
  BY <1>3, AgreedRun
<1>7. \A i \in 1 .. N : v[M[i]] = w[M[i]]
  BY <1>4 DEF Knows
<1>8. Packable(r, k)
  <2>1. ASSUME NEW i \in 1 .. N
        PROVE  v[M[i]] \in Nat /\ block[r][M[i]] = [j \in 1 .. v[M[i]] |-> Value(M[i], j, k)]
    <3>1. Fresh(r, M[i]) /\ v[M[i]] = w[M[i]]
      BY <1>4 DEF Knows
    <3>2. w[M[i]] \in Nat
      BY <1>4, <1>5
    <3>3. QED
      BY <3>1, <3>2 DEF Fresh
  <2>2. QED
    BY <1>4, <2>1 DEF Packable
<1>9. Run(st, v, M, N) <= Len(m)
  <2>1. N \in 0 .. N
    BY <1>3
  <2>2. QED
    BY <1>6, <2>1
<1>10. PackedTo(p, r, st, m, N)
  BY <1>1, <1>3, <1>6, <1>8, <1>9, PackedIs
<1>11. \A i : mirror_offsets(r, st, i) = Run(st, v, M, i)
  BY DEF mirror_offsets, Items, Run, SumOver, FoldLeft, MapThenFoldSet
<1> HIDE DEF st, k, w, M, p
<1>12. ASSUME NEW j \in 1 .. Len(M), NEW i \in 1 .. Weight(st, v, M[j])
       PROVE  p[0 + Run(st, v, M, j - 1) + i] = Word(st, k, v, M[j], i)
  <2>1. /\ Len(Item(r, st, j)) = Weight(st, v, M[j])
        /\ \A n \in 1 .. Len(Item(r, st, j)) : Item(r, st, j)[n] = Word(st, k, v, M[j], n)
    BY <1>1, <1>8, ItemIs DEF M
  <2>2. p[mirror_offsets(r, st, j - 1) + i] = Item(r, st, j)[i]
    BY <1>10, <1>12, <2>1 DEF PackedTo
  <2>3. Run(st, v, M, j - 1) \in Nat
    BY <1>3, <1>6, <1>12, PlaceInRun
  <2>4. 0 + Run(st, v, M, j - 1) = mirror_offsets(r, st, j - 1)
    <3> DEFINE x == Run(st, v, M, j - 1)
    <3> HIDE DEF x
    <3>1. 0 + x = x
      BY <2>3 DEF x
    <3>2. x = mirror_offsets(r, st, j - 1)
      BY <1>11 DEF x
    <3>3. QED
      BY <3>1, <3>2 DEF x
  <2>5. QED
    BY <1>12, <2>1, <2>2, <2>4
<1>13. Holds(p, 0, st, k, v, M)
  BY <1>12 DEF Holds
<1>14. Holds(p, 0, st, k, w, M)
  BY <1>3, <1>6, <1>7, <1>13, HoldsSame
<1>15. p \in Seq(Words) /\ Len(p) = Len(m)
  BY <1>10 DEF PackedTo
<1>16. QED
  BY <1>14, <1>15 DEF p, st, k, w, M

(* Packing fills the send buffer of a rank none of whose messages is in      *)
(* flight unread; the program does not stop.                                *)
LEMMA PackKeeps ==
  ASSUME IInv, NEW r \in Ranks, PackMirrors(r)
  PROVE  IInv'
<1> DEFINE st == stage[r]
           k == round[r]
           w == numvars[k]
           a == Allocated(r, st)
           M == Mirrors(r)
           G == Ghosts(r)
           p == Packed(r, st, a.mem)
<1>1. Shape /\ RankShape(r) /\ Knows(r) /\ pc[r] = "pack" /\ recvs[r] = {} /\ st \in Stages
  BY DEF IInv, RankInv, RankShape, PackMirrors, Shape
<1>2. /\ num_block_mirrors(r, st) = Run(st, w, M, Len(M))
      /\ a.ext = [send |-> Run(st, w, M, Len(M)), recv |-> Run(st, w, G, Len(G))]
      /\ a.mem \in Seq(Words)
      /\ a.ext.send + a.ext.recv <= Len(a.mem)
      /\ Run(st, w, M, Len(M)) \in Nat /\ Run(st, w, G, Len(G)) \in Nat
  BY <1>1, ExtentsAre, AllocatedIs
<1>3. /\ a.ext.send = Run(st, w, M, Len(M)) /\ a.ext.recv = Run(st, w, G, Len(G))
      /\ a.ext \in [send : Nat, recv : Nat]
  BY <1>2
<1>4. Run(st, w, M, Len(M)) <= Len(a.mem) /\ Len(a.mem) \in Nat
  <2> DEFINE x == a.ext.send
             y == a.ext.recv
             z == Len(a.mem)
  <2>1. x \in Nat /\ y \in Nat /\ z \in Nat /\ x + y <= z /\ x = Run(st, w, M, Len(M))
    BY <1>2, <1>3
  <2> HIDE DEF x, y, z
  <2>2. x <= z
    BY <2>1
  <2>3. QED
    BY <2>1, <2>2 DEF z
<1>5. p \in Seq(Words) /\ Len(p) = Len(a.mem) /\ Holds(p, 0, st, k, w, M)
  BY <1>1, <1>2, <1>4, PackedHolds
<1>6. /\ ext' = [ext EXCEPT ![r][st] = a.ext]
      /\ mem' = [mem EXCEPT ![r][st] = p]
      /\ pc' = [pc EXCEPT ![r] = "post"]
      /\ UNCHANGED <<gfq, layer, stage, round, presence, block, recvs, chan, meshes, numvars>>
  BY <1>2, <1>3 DEF PackMirrors
<1> HIDE DEF a, p
<1>7. /\ ext'[r][st] = a.ext /\ mem'[r][st] = p /\ pc'[r] = "post"
      /\ \A u \in Stages : u # st => ext'[r][u] = ext[r][u] /\ mem'[r][u] = mem[r][u]
      /\ \A q \in Ranks : q # r => ext'[q] = ext[q] /\ mem'[q] = mem[q] /\ pc'[q] = pc[q]
  BY <1>1, <1>6 DEF Shape
<1>8. Shape'
  <2>1. ext' \in [Ranks -> [Stages -> [send : Nat, recv : Nat]]]
    BY <1>1, <1>3, <1>6 DEF Shape
  <2>2. mem' \in [Ranks -> [Stages -> Seq(Words)]]
    BY <1>1, <1>5, <1>6 DEF Shape
  <2>3. pc' \in [Ranks -> {"compute", "pack", "post", "wait"}]
    BY <1>1, <1>6 DEF Shape
  <2>4. QED
    BY <1>1, <1>6, <2>1, <2>2, <2>3 DEF Shape
<1>9. /\ Local(r)' = Local(r) /\ Owned(r)' = Owned(r) /\ \A s : Part(s, r)' = Part(s, r)
      /\ M' = M /\ G' = G /\ st' = st /\ k' = k /\ w' = w
  BY <1>6 DEF Local, Owned, Part, Ghosts, Mirrors
<1>10. RankShape(r)'
  <2>1. ASSUME NEW u \in Stages PROVE ext'[r][u].send + ext'[r][u].recv <= Len(mem'[r][u])
    <3>1. CASE u = st
      BY <1>2, <1>5, <1>7, <3>1
    <3>2. CASE u # st
      BY <1>1, <1>7, <3>2 DEF RankShape
    <3>3. QED
      BY <3>1, <3>2
  <2>2. QED
    BY <1>1, <1>6, <1>7, <1>9, <2>1 DEF RankShape
<1>11. Knows(r)'
  BY <1>1, <1>6, <1>9 DEF Knows, Fresh
<1>12. Held(r)'
  BY <1>3, <1>5, <1>6, <1>7, <1>9 DEF Held
<1>13. RankInv(r)'
  BY <1>7, <1>10, <1>11, <1>12 DEF RankInv, Filled, Updated
<1>14. ASSUME NEW q \in Ranks, q # r PROVE RankInv(q)'
  BY <1>6, <1>7, <1>14, SameRank DEF IInv
<1>15. ASSUME NEW q \in Ranks PROVE /\ Posted(q)' = Posted(q)
                                    /\ \A s \in Ranks : Got(s, q)' = Got(s, q)
  <2>1. CASE q = r
    BY <1>1, <1>6, <1>7, <2>1 DEF Posted, Got, Done
  <2>2. CASE q # r
    BY <1>6, <1>7, <2>2 DEF Posted, Got, Done
  <2>3. QED
    BY <2>1, <2>2
<1>16. ASSUME NEW s \in Ranks, NEW d \in Ranks PROVE InFlight(s, d)'
  <2>1. \/ pc'[s] = pc[s] /\ stage'[s] = stage[s] /\ round'[s] = round[s]
        \/ pc[s] # "wait"
    BY <1>1, <1>6, <1>7
  <2>2. InFlight(s, d)
    BY DEF IInv
  <2>3. QED
    BY <1>6, <1>15, <2>1, <2>2, SameInFlight
<1>17. QED
  BY <1>8, <1>13, <1>14, <1>16 DEF IInv

(* A rank shares no leaf with itself.                                       *)
LEMMA NoneOfItsOwn ==
  ASSUME Shape, NEW r \in Ranks
  PROVE  Len(Part(r, r)) = 0
<1>1. Len(Part(r, r)) \in Nat /\ \A j \in 1 .. Len(Part(r, r)) : FALSE
  BY PartType DEF Part, Shape
<1>2. QED
  BY <1>1

(* Posting adds one message for each rank that sees a mirror, and waits for  *)
(* each rank that owns a ghost.                                             *)
LEMMA PostKeeps ==
  ASSUME IInv, NEW r \in Ranks, PostRequests(r)
  PROVE  IInv'
<1> DEFINE st == stage[r]
           k == round[r]
           w == numvars[k]
           New(d) == [st |-> st, at |-> SendRange(r, d).at, len |-> SendRange(r, d).len,
                      copy |-> <<>>, buffered |-> FALSE]
           waited == {s \in Ranks : local_num_ghosts(r, s) > 0}
           c(d) == IF local_num_mirrors(r, d) = 0 THEN chan[r][d] ELSE Append(chan[r][d], New(d))
<1>1. /\ Shape /\ RankShape(r) /\ Knows(r) /\ Held(r) /\ pc[r] = "post" /\ st \in Stages
      /\ k \in 1 .. MaxRounds
  BY DEF IInv, RankInv, RankShape, PostRequests, Shape
<1>2. /\ pc' = [pc EXCEPT ![r] = "wait"]
      /\ recvs' = [recvs EXCEPT ![r] = waited]
      /\ chan' = [chan EXCEPT ![r] = [d \in Ranks |-> c(d)]]
      /\ UNCHANGED <<gfq, layer, stage, round, presence, block, mem, ext, meshes, numvars>>
  BY DEF PostRequests
<1>3. LayerOf(r)
  BY <1>1, LayerIs DEF Shape
<1>4. \A d \in Ranks : /\ local_num_mirrors(r, d) = Len(Part(r, d))
                       /\ local_num_ghosts(r, d) = Len(Part(d, r))
                       /\ Len(Part(r, d)) \in Nat /\ Len(Part(d, r)) \in Nat
  BY <1>3 DEF LayerOf
<1>5. ASSUME NEW d \in Ranks
      PROVE  /\ New(d).at = Run(st, w, Mirrors(r), mirror_proc_offsets(r, d))
             /\ New(d).len = Run(st, w, Part(r, d), Len(Part(r, d)))
             /\ New(d) \in Messages
  <2>1. /\ SendRange(r, d).at = Run(st, w, Mirrors(r), mirror_proc_offsets(r, d))
        /\ SendRange(r, d).len = Run(st, w, Part(r, d), Len(Part(r, d)))
    BY <1>1, RangesAre
  <2>2. SpanOf(st, w, Mirrors(r), mirror_proc_offsets(r, d), Part(r, d))
    BY <1>1, PairRuns
  <2>3. SendRange(r, d).at \in Nat /\ SendRange(r, d).len \in Nat
    BY <2>1, <2>2 DEF SpanOf
  <2>4. <<>> \in Seq(Words)
    OBVIOUS
  <2>5. QED
    BY <1>1, <2>1, <2>3, <2>4 DEF Messages
<1> HIDE DEF New, waited
<1>6. \A d \in Ranks : c(d) \in Seq(Messages)
  <2>1. \A d \in Ranks : chan[r][d] \in Seq(Messages)
    BY <1>1 DEF Shape
  <2>2. QED
    BY <1>5, <2>1
<1> HIDE DEF c
<1>7. /\ pc'[r] = "wait" /\ recvs'[r] = waited /\ \A d \in Ranks : chan'[r][d] = c(d)
      /\ \A q \in Ranks : q # r => pc'[q] = pc[q] /\ recvs'[q] = recvs[q] /\ chan'[q] = chan[q]
  BY <1>1, <1>2 DEF Shape
<1>8. Shape'
  <2>1. chan' \in [Ranks -> [Ranks -> Seq(Messages)]]
    BY <1>1, <1>2, <1>6 DEF Shape
  <2>2. recvs' \in [Ranks -> SUBSET Ranks]
    BY <1>1, <1>2 DEF Shape, waited
  <2>3. pc' \in [Ranks -> {"compute", "pack", "post", "wait"}]
    BY <1>1, <1>2 DEF Shape
  <2>4. QED
    BY <1>1, <1>2, <2>1, <2>2, <2>3 DEF Shape
<1>9. /\ Local(r)' = Local(r) /\ Owned(r)' = Owned(r) /\ \A s, d : Part(s, d)' = Part(s, d)
      /\ Mirrors(r)' = Mirrors(r) /\ Ghosts(r)' = Ghosts(r) /\ st' = st /\ k' = k /\ w' = w
      /\ \A s, d : mirror_proc_offsets(s, d)' = mirror_proc_offsets(s, d)
  BY <1>2 DEF Local, Owned, Part, Ghosts, Mirrors, mirror_proc_offsets
<1>10. RankShape(r)'
  <2>1. \A s \in waited : Len(Part(s, r)) > 0
    BY <1>4 DEF waited
  <2>2. QED
    BY <1>1, <1>2, <1>7, <1>9, <2>1 DEF RankShape
<1>11. Knows(r)'
  BY <1>1, <1>2, <1>9 DEF Knows, Fresh
<1>12. Held(r)'
  BY <1>1, <1>2, <1>9 DEF Held
<1>13. Filled(r)'
  <2>1. \A s \in Ranks \ waited : Len(Part(s, r)) = 0
    BY <1>4 DEF waited
  <2>2. \A s \in Ranks \ waited : \A j \in 1 .. Len(Part(s, r)) : FALSE
    BY <2>1
  <2>3. QED
    BY <1>7, <1>9, <2>2 DEF Filled, Holds
<1>14. RankInv(r)'
  BY <1>7, <1>10, <1>11, <1>12, <1>13 DEF RankInv, Updated
<1>15. ASSUME NEW q \in Ranks, q # r PROVE RankInv(q)'
  BY <1>2, <1>7, <1>15, SameRank DEF IInv
<1>16. Done(r)' = Done(r) /\ Done(r) \in Nat /\ Posted(r) = Done(r) /\ Posted(r)' = Done(r) + 1
  BY <1>1, <1>2, <1>7, CountsType DEF Done, Posted
<1>17. \A q \in Ranks : q # r => /\ Posted(q)' = Posted(q)
                                 /\ \A s \in Ranks : Got(s, q)' = Got(s, q)
  BY <1>2, <1>7 DEF Posted, Done, Got
<1>18. \A s \in Ranks : Len(Part(s, r)) # 0 => Got(s, r)' = Got(s, r)
  <2>1. TAKE s \in Ranks
  <2>2. HAVE Len(Part(s, r)) # 0
  <2>3. s \in recvs'[r]
    BY <1>4, <1>7, <2>2 DEF waited
  <2>4. QED
    BY <1>1, <1>7, <1>16, <2>3 DEF Got
<1>19. ASSUME NEW s \in Ranks, NEW d \in Ranks, s # r PROVE InFlight(s, d)'
  <2>1. chan'[s][d] = chan[s][d] /\ InFlight(s, d)
    BY <1>7, <1>19 DEF IInv
  <2>2. Len(Part(s, d)) # 0 => Posted(s)' = Posted(s) /\ Got(s, d)' = Got(s, d)
    BY <1>17, <1>18, <1>19
  <2>3. pc'[s] = pc[s] /\ stage'[s] = stage[s] /\ round'[s] = round[s]
    BY <1>2, <1>7, <1>19
  <2>4. QED
    BY <1>2, <2>1, <2>2, <2>3, SameInFlight
<1>20. ASSUME NEW d \in Ranks PROVE InFlight(r, d)'
  <2>1. InFlight(r, d) /\ Part(r, d)' = Part(r, d)
    BY <1>9 DEF IInv
  <2>2. CASE Len(Part(r, d)) = 0
    <3>1. chan'[r][d] = chan[r][d]
      BY <1>4, <1>7, <2>2 DEF c
    <3>2. QED
      BY <2>1, <2>2, <3>1 DEF InFlight
  <2>3. CASE Len(Part(r, d)) # 0
    <3> DEFINE old == chan[r][d]
               n == Len(old)
               g == Got(r, d)
    <3>1. d # r
      BY <1>1, <2>3, NoneOfItsOwn
    <3>2. g + n = Posted(r) /\ \A i \in 1 .. n : Letter(old[i], g + i, r, d)
      BY <2>1, <2>3 DEF InFlight
    <3>3. Got(r, d)' = g /\ g \in Nat
      BY <1>17, <3>1, CountsType DEF IInv, RankInv
    <3>4. chan'[r][d] = Append(old, New(d)) /\ old \in Seq(Messages)
      BY <1>1, <1>4, <1>7, <2>3 DEF c, Shape
    <3> HIDE DEF old, g
    <3>5. /\ n \in Nat /\ Len(chan'[r][d]) = n + 1 /\ chan'[r][d][n + 1] = New(d)
          /\ \A i \in 1 .. n : chan'[r][d][i] = old[i]
      BY <3>4
    <3>6. g + (n + 1) = Posted(r)' /\ g + (n + 1) = Exchange(k, st)
      <4>1. Done(r) = Exchange(k, st) - 1 /\ Exchange(k, st) \in Int
        BY <1>1 DEF Done, Exchange
      <4> DEFINE x == Posted(r)
                 y == Done(r)
                 z == Exchange(k, st)
                 x1 == Posted(r)'
      <4>2. g + n = x /\ x = y /\ x1 = y + 1 /\ y = z - 1 /\ z \in Int /\ y \in Nat
        BY <1>16, <3>2, <4>1
      <4> HIDE DEF x, y, z, x1, n
      <4>3. g + (n + 1) = x1 /\ g + (n + 1) = z
        BY <3>3, <3>5, <4>2
      <4>4. QED
        BY <4>3 DEF n, x1, z
    <3>7. ASSUME NEW i \in 1 .. n + 1 PROVE Letter(chan[r][d][i], Got(r, d) + i, r, d)'
      <4>1. CASE i \in 1 .. n
        <5>1. Letter(old[i], g + i, r, d) /\ chan'[r][d][i] = old[i]
          BY <3>2, <3>5, <4>1
        <5>2. QED
          BY <1>1, <1>2, <1>9, <3>3, <5>1 DEF Letter
      <4>2. CASE i \notin 1 .. n
        <5>1. i = n + 1
          BY <3>5, <4>2
        <5>2. chan'[r][d][i] = New(d) /\ g + i = Exchange(k, st)
          BY <3>5, <3>6, <5>1
        <5>3. New(d).st = st /\ New(d).buffered = FALSE
          BY DEF New
        <5>4. pc'[r] = "wait" /\ stage'[r] = st /\ round'[r] = k
          BY <1>2, <1>7
        <5>5. QED
          BY <1>1, <1>2, <1>5, <1>9, <3>3, <5>2, <5>3, <5>4 DEF Letter
      <4>3. QED
        BY <4>1, <4>2
    <3>8. QED
      BY <2>1, <2>3, <3>3, <3>5, <3>6, <3>7 DEF InFlight
  <2>4. QED
    BY <2>2, <2>3
<1>21. QED
  BY <1>8, <1>14, <1>15, <1>19, <1>20 DEF IInv

(* A message carries what its receiver is due, copied or still in the        *)
(* buffer of its sender.                                                    *)
LEMMA ContentIs ==
  ASSUME Shape, NEW s \in Ranks, NEW d \in Ranks, RankShape(s), Held(s),
         NEW m \in Messages, NEW e, Letter(m, e, s, d), NEW k \in 1 .. MaxRounds,
         e = Exchange(k, m.st)
  PROVE  /\ Content(s, m) \in Seq(Words)
         /\ Len(Content(s, m)) = m.len
         /\ m.len = Run(m.st, numvars[k], Part(s, d), Len(Part(s, d)))
         /\ Holds(Content(s, m), 0, m.st, k, numvars[k], Part(s, d))
<1> DEFINE st == m.st
           w == numvars[k]
           z == Part(s, d)
           M == Mirrors(s)
           o == mirror_proc_offsets(s, d)
           a == mem[s][st]
<1>1. /\ m.len = Run(st, w, z, Len(z))
      /\ IF m.buffered
         THEN Len(m.copy) = m.len /\ Holds(m.copy, 0, st, k, w, z)
         ELSE pc[s] = "wait" /\ stage[s] = st /\ round[s] = k /\ m.at = Run(st, w, M, o)
  <2>1. PICK j \in 1 .. MaxRounds :
               /\ e = Exchange(j, st)
               /\ m.len = Run(st, numvars[j], z, Len(z))
               /\ IF m.buffered
                  THEN Len(m.copy) = m.len /\ Holds(m.copy, 0, st, j, numvars[j], z)
                  ELSE /\ pc[s] = "wait" /\ stage[s] = st /\ round[s] = j
                       /\ m.at = Run(st, numvars[j], M, o)
    BY DEF Letter
  <2>2. j = k
    BY <2>1 DEF Exchange
  <2>3. QED
    BY <2>1, <2>2
<1>2. m.copy \in Seq(Words) /\ m.len \in Nat /\ m.at \in Nat /\ m.buffered \in BOOLEAN
      /\ st \in Stages
  BY DEF Messages
<1>3. CASE m.buffered
  BY <1>1, <1>2, <1>3 DEF Content
<1>4. CASE ~m.buffered
  <2>1. pc[s] = "wait" /\ stage[s] = st /\ round[s] = k /\ m.at = Run(st, w, M, o)
    BY <1>1, <1>4
  <2>2. a \in Seq(Words) /\ Len(a) \in Nat
    <3>1. mem \in [Ranks -> [Stages -> Seq(Words)]]
      BY DEF Shape
    <3>2. a \in Seq(Words)
      <4> HIDE DEF st
      <4>1. QED
        BY <1>2, <3>1
    <3> HIDE DEF a
    <3>3. QED
      BY <3>2
  <2>3. /\ Runs(st, w, M) /\ Runs(st, w, z) /\ Len(M) \in Nat /\ Len(z) \in Nat
        /\ PartAt(M, o, z) /\ SpanOf(st, w, M, o, z)
    BY PairRuns
  <2>4. ext[s][st].send = Run(st, w, M, Len(M)) /\ Holds(a, 0, st, k, w, M)
    BY <2>1 DEF Held
  <2>5. ext[s][st].send + ext[s][st].recv <= Len(a) /\ ext[s][st].recv \in Nat
    BY <1>2 DEF RankShape, Shape
  <2>6. Holds(a, 0 + Run(st, w, M, o), st, k, w, z)
    <3>1. 0 \in Nat
      OBVIOUS
    <3> HIDE DEF a, st, w, M, z, o
    <3>2. QED
      BY <2>3, <2>4, <3>1, HoldsSlice
  <2>7. 0 + Run(st, w, M, o) = m.at + 0
    BY <1>2, <2>1
  <2>8. m.at + m.len <= Len(a)
    <3> DEFINE x == Run(st, w, M, o)
               y == Run(st, w, z, Len(z))
               t == Run(st, w, M, Len(M))
               u == ext[s][st].recv
               v == Len(a)
    <3>1. x \in Nat /\ y \in Nat /\ t \in Nat /\ u \in Nat /\ v \in Nat /\ x + y <= t /\ t + u <= v
          /\ m.at = x /\ m.len = y
      BY <1>1, <2>1, <2>2, <2>3, <2>4, <2>5 DEF SpanOf
    <3> HIDE DEF x, y, t, u, v
    <3>2. x + y <= v
      BY <3>1
    <3>3. QED
      BY <3>1, <3>2 DEF v
  <2>9. Content(s, m) = Window(st, a, m.at, m.len)
    BY <1>4 DEF Content
  <2>10. 0 + Run(st, w, z, Len(z)) <= m.len /\ 0 \in Nat
    BY <1>1, <1>2
  <2>11. Holds(a, m.at + 0, st, k, w, z)
    BY <2>6, <2>7
  <2> HIDE DEF a, st, w, M, z, o
  <2>12. Holds(Window(st, a, m.at, m.len), 0, st, k, w, z)
    BY <1>2, <2>2, <2>3, <2>8, <2>10, <2>11, WindowHolds
  <2>13. Window(st, a, m.at, m.len) \in Seq(Words) /\ Len(Window(st, a, m.at, m.len)) = m.len
    BY <1>2, <2>2, <2>8, WindowIs
  <2>14. QED
    BY <1>1, <2>9, <2>12, <2>13 DEF st, w, z
<1>5. QED
  BY <1>2, <1>3, <1>4

(* MPI may copy a message out of the send buffer at any time: it then holds  *)
(* what the buffer held.                                                    *)
LEMMA BufferKeeps ==
  ASSUME IInv, NEW s \in Ranks, NEW d \in Ranks, Buffer(s, d)
  PROVE  IInv'
<1> DEFINE old == chan[s][d]
<1>1. PICK i \in DOMAIN chan[s][d] :
         /\ ~chan[s][d][i].buffered
         /\ chan' = [chan EXCEPT ![s][d][i] =
                        [@ EXCEPT !.buffered = TRUE, !.copy = Content(s, chan[s][d][i])]]
         /\ UNCHANGED <<gfq, layer, pc, stage, round, presence, block, mem, ext, recvs, meshes,
                        numvars>>
  BY DEF Buffer
<1> DEFINE m == old[i]
           m2 == [m EXCEPT !.buffered = TRUE, !.copy = Content(s, m)]
<1>2. Shape /\ RankShape(s) /\ Held(s) /\ InFlight(s, d) /\ RankShape(d)
  BY DEF IInv, RankInv
<1>3. old \in Seq(Messages) /\ i \in 1 .. Len(old) /\ m \in Messages
  <2>1. chan \in [Ranks -> [Ranks -> Seq(Messages)]]
    BY <1>2 DEF Shape
  <2>2. old \in Seq(Messages) /\ i \in DOMAIN old
    BY <1>1, <2>1
  <2> HIDE DEF old
  <2>3. i \in 1 .. Len(old) /\ old[i] \in Messages
    BY <2>2
  <2>4. QED
    BY <2>2, <2>3
<1>4. /\ chan' = [chan EXCEPT ![s][d][i] = m2]
      /\ UNCHANGED <<gfq, layer, pc, stage, round, presence, block, mem, ext, recvs, meshes,
                     numvars>>
  BY <1>1
<1>5. Len(Part(s, d)) # 0
  BY <1>2, <1>3 DEF InFlight
<1>6. Letter(m, Got(s, d) + i, s, d)
  BY <1>2, <1>3, <1>5 DEF InFlight
<1>7. PICK k \in 1 .. MaxRounds : Got(s, d) + i = Exchange(k, m.st)
  BY <1>6 DEF Letter
<1>8. /\ Content(s, m) \in Seq(Words)
      /\ Len(Content(s, m)) = m.len
      /\ m.len = Run(m.st, numvars[k], Part(s, d), Len(Part(s, d)))
      /\ Holds(Content(s, m), 0, m.st, k, numvars[k], Part(s, d))
  BY <1>2, <1>3, <1>6, <1>7, ContentIs
<1>9. /\ m2 \in Messages /\ m2.st = m.st /\ m2.len = m.len /\ m2.buffered
      /\ m2.copy = Content(s, m)
  BY <1>3, <1>8 DEF Messages
<1> HIDE DEF m2, m, old
<1>10. /\ \A q \in Ranks : q # s => chan'[q] = chan[q]
       /\ \A e \in Ranks : e # d => chan'[s][e] = chan[s][e]
       /\ chan'[s][d] = [old EXCEPT ![i] = m2]
  BY <1>2, <1>4 DEF Shape, old
<1>11. /\ Len(chan'[s][d]) = Len(old) /\ chan'[s][d] \in Seq(Messages)
       /\ chan'[s][d][i] = m2
       /\ \A j \in 1 .. Len(old) : j # i => chan'[s][d][j] = old[j]
  BY <1>3, <1>9, <1>10
<1>12. Shape'
  <2>1. chan' \in [Ranks -> [Ranks -> Seq(Messages)]]
    BY <1>2, <1>4, <1>10, <1>11 DEF Shape
  <2>2. QED
    BY <1>2, <1>4, <2>1 DEF Shape
<1>13. ASSUME NEW q \in Ranks PROVE RankInv(q)'
  BY <1>4, SameRank DEF IInv
<1>14. \A q \in Ranks : Posted(q)' = Posted(q) /\ \A x \in Ranks : Got(x, q)' = Got(x, q)
  BY <1>4 DEF Posted, Got, Done
<1>15. ASSUME NEW x \in Ranks, NEW y \in Ranks, x # s \/ y # d PROVE InFlight(x, y)'
  <2>1. chan'[x][y] = chan[x][y] /\ InFlight(x, y)
    BY <1>10, <1>15 DEF IInv
  <2>2. pc'[x] = pc[x] /\ stage'[x] = stage[x] /\ round'[x] = round[x]
    BY <1>4
  <2>3. QED
    BY <1>4, <1>14, <2>1, <2>2, SameInFlight
<1>16. InFlight(s, d)'
  <2>1. Part(s, d)' = Part(s, d) /\ Mirrors(s)' = Mirrors(s)
        /\ mirror_proc_offsets(s, d)' = mirror_proc_offsets(s, d)
    BY <1>4 DEF Part, Mirrors, mirror_proc_offsets
  <2>2. /\ Got(s, d) + Len(old) = Posted(s)
        /\ \A j \in 1 .. Len(old) : Letter(old[j], Got(s, d) + j, s, d)
    BY <1>2, <1>5 DEF InFlight, old
  <2>3. Got(s, d)' = Got(s, d) /\ Posted(s)' = Posted(s)
    BY <1>14
  <2>4. ASSUME NEW j \in 1 .. Len(old) PROVE Letter(chan[s][d][j], Got(s, d) + j, s, d)'
    <3>1. CASE j = i
      BY <1>4, <1>7, <1>8, <1>9, <1>11, <2>1, <2>3, <3>1 DEF Letter, m
    <3>2. CASE j # i
      <4>1. chan'[s][d][j] = old[j] /\ Letter(old[j], Got(s, d) + j, s, d)
        BY <1>11, <2>2, <3>2
      <4>2. QED
        BY <1>4, <2>1, <2>3, <4>1 DEF Letter
    <3>3. QED
      BY <3>1, <3>2
  <2>5. QED
    BY <1>5, <1>11, <2>1, <2>2, <2>3, <2>4 DEF InFlight
<1>17. QED
  BY <1>12, <1>13, <1>15, <1>16 DEF IInv

(* The message a receive is matched with is the one of its exchange, and as  *)
(* long as it expects.                                                      *)
LEMMA HeadIs ==
  ASSUME IInv, NEW s \in Ranks, NEW d \in Ranks, s \in recvs[d], chan[s][d] # <<>>
  PROVE  LET m == Head(chan[s][d])
         IN  /\ pc[d] = "wait"
             /\ m \in Messages
             /\ m.st = stage[d]
             /\ m.len = RecvRange(d, s).len
             /\ round[d] \in 1 .. MaxRounds
             /\ Letter(m, Exchange(round[d], m.st), s, d)
<1> DEFINE m == Head(chan[s][d])
           k == round[d]
           e == Got(s, d) + 1
<1>1. Shape /\ RankShape(d) /\ Knows(d) /\ InFlight(s, d)
  BY DEF IInv, RankInv
<1>2. pc[d] = "wait" /\ Len(Part(s, d)) > 0 /\ k \in 1 .. MaxRounds /\ stage[d] \in Stages
  BY <1>1 DEF RankShape, Shape
<1>3. chan[s][d] \in Seq(Messages) /\ 1 \in 1 .. Len(chan[s][d]) /\ m = chan[s][d][1]
      /\ m \in Messages
  <2> DEFINE z == chan[s][d]
  <2>1. chan \in [Ranks -> [Ranks -> Seq(Messages)]]
    BY <1>1 DEF Shape
  <2>2. z \in Seq(Messages) /\ z # <<>> /\ m = Head(z)
    BY <2>1
  <2> HIDE DEF z, m
  <2>3. 1 \in 1 .. Len(z) /\ m = z[1] /\ m \in Messages
    BY <2>2
  <2>4. QED
    BY <2>2, <2>3 DEF z
<1>4. Len(Part(s, d)) # 0
  BY <1>2
<1>5. Letter(m, e, s, d)
  BY <1>1, <1>3, <1>4 DEF InFlight
<1>6. Got(s, d) = Exchange(k, stage[d]) - 1
  BY <1>2 DEF Got, Done
<1>7. Exchange(k, stage[d]) \in Int /\ k \in Int
  BY <1>2 DEF Exchange
<1>8. e = Exchange(k, stage[d])
  BY <1>6, <1>7
<1> HIDE DEF e, m
<1>9. PICK j \in 1 .. MaxRounds : /\ e = Exchange(j, m.st)
                                  /\ m.len = Run(m.st, numvars[j], Part(s, d), Len(Part(s, d)))
  BY <1>5 DEF Letter
<1>10. m.st = stage[d] /\ j = k
  <2>1. m.st \in Stages
    BY <1>3 DEF Messages
  <2>2. QED
    BY <1>2, <1>7, <1>8, <1>9, <2>1 DEF Exchange, Stages
<1>11. RecvRange(d, s).len = Run(stage[d], numvars[k], Part(s, d), Len(Part(s, d)))
  BY <1>1, <1>2, RangesAre
<1>12. QED
  BY <1>2, <1>3, <1>5, <1>8, <1>9, <1>10, <1>11 DEF m

(* A message is written where the ghosts of its sender are, and nowhere else *)
(* in the memory of the receiver.                                           *)
LEMMA WrittenInPlace ==
  ASSUME IInv, NEW s \in Ranks, NEW d \in Ranks, s \in recvs[d], chan[s][d] # <<>>
  PROVE  LET st   == stage[d]
             k    == round[d]
             w    == numvars[k]
             cont == Content(s, Head(chan[s][d]))
             at   == ext[d][st].send + RecvRange(d, s).at
             a    == Overlay(mem[d][st], at, cont)
         IN  /\ a \in Seq(Words) /\ Len(a) = Len(mem[d][st])
             /\ Holds(a, 0, st, k, w, Mirrors(d))
             /\ \A q \in Ranks \ (recvs[d] \ {s}) :
                   Holds(a, ext[d][st].send + Run(st, w, Ghosts(d), proc_offsets(d, q)),
                         st, k, w, Part(q, d))
<1> DEFINE m == Head(chan[s][d])
           st == stage[d]
           k == round[d]
           w == numvars[k]
           G == Ghosts(d)
           M == Mirrors(d)
           po(q) == proc_offsets(d, q)
           z(q) == Part(q, d)
           b == mem[d][st]
           send == ext[d][st].send
           recv == ext[d][st].recv
           at == send + RecvRange(d, s).at
           cont == Content(s, m)
           a == Overlay(b, at, cont)
<1>1. /\ Shape /\ RankShape(d) /\ Knows(d) /\ Held(d) /\ Filled(d)
      /\ RankShape(s) /\ Held(s)
  BY DEF IInv, RankInv
<1>2. /\ pc[d] = "wait" /\ m \in Messages /\ m.st = st /\ m.len = RecvRange(d, s).len
      /\ k \in 1 .. MaxRounds /\ Letter(m, Exchange(k, m.st), s, d) /\ st \in Stages
  BY <1>1, HeadIs DEF Shape
<1>3. /\ cont \in Seq(Words) /\ Len(cont) = Run(st, w, z(s), Len(z(s)))
      /\ Holds(cont, 0, st, k, w, z(s))
  <2> HIDE DEF m
  <2>1. /\ Content(s, m) \in Seq(Words)
        /\ Len(Content(s, m)) = m.len
        /\ m.len = Run(m.st, w, Part(s, d), Len(Part(s, d)))
        /\ Holds(Content(s, m), 0, m.st, k, w, Part(s, d))
    BY <1>1, <1>2, ContentIs
  <2>2. QED
    BY <1>2, <2>1
<1>4. RecvRange(d, s).at = Run(st, w, G, po(s))
  BY <1>1, <1>2, RangesAre
<1>5. /\ send = Run(st, w, M, Len(M)) /\ recv = Run(st, w, G, Len(G)) /\ Holds(b, 0, st, k, w, M)
      /\ send \in Nat /\ recv \in Nat
  <2>1. send \in Nat /\ recv \in Nat
    BY <1>1, <1>2 DEF Shape
  <2>2. QED
    BY <1>1, <1>2, <2>1 DEF Held
<1>6. b \in Seq(Words) /\ send + recv <= Len(b) /\ Len(b) \in Nat
  <2>1. mem \in [Ranks -> [Stages -> Seq(Words)]] /\ send + recv <= Len(b)
    BY <1>1, <1>2 DEF Shape, RankShape
  <2>2. b \in Seq(Words)
    <3> HIDE DEF st
    <3>1. QED
      BY <1>2, <2>1
  <2> HIDE DEF b
  <2>3. QED
    BY <2>1, <2>2
<1>7. ASSUME NEW q \in Ranks
      PROVE  /\ Runs(st, w, G) /\ Runs(st, w, M) /\ Runs(st, w, z(q))
             /\ Len(G) \in Nat /\ Len(M) \in Nat /\ Len(z(q)) \in Nat
             /\ PartAt(G, po(q), z(q)) /\ SpanOf(st, w, G, po(q), z(q))
  BY <1>1, <1>2, PairRuns
<1>8. \A q \in Ranks : /\ Run(st, w, G, po(q)) \in Nat /\ Run(st, w, z(q), Len(z(q))) \in Nat
                       /\ Run(st, w, G, po(q)) + Run(st, w, z(q), Len(z(q))) <= recv
  BY <1>5, <1>7 DEF SpanOf
<1>9. \A q, y \in Ranks : q < y =>
         Run(st, w, G, po(q)) + Run(st, w, z(q), Len(z(q))) <= Run(st, w, G, po(y))
  <2>1. TAKE q, y \in Ranks
  <2>2. HAVE q < y
  <2>3. po(q) + Len(z(q)) <= po(y)
    BY <1>1, <2>2, LayerIs DEF LayerOf, Shape
  <2>4. Len(G) \in Nat /\ Len(z(q)) \in Nat /\ Runs(st, w, G) /\ Runs(st, w, z(q))
        /\ PartAt(G, po(q), z(q)) /\ PartAt(G, po(y), z(y)) /\ Len(z(y)) \in Nat
    BY <1>7
  <2>5. po(y) \in 0 .. Len(G)
    BY <2>4 DEF PartAt
  <2> HIDE DEF st, w, G, po, z
  <2>6. QED
    BY <2>3, <2>4, <2>5, SpansApart
<1> HIDE DEF m, st, k, w, G, M, po, z, b, send, recv, cont
<1>10. at = send + Run(st, w, G, po(s)) /\ at \in Nat /\ at + Len(cont) <= Len(b)
  <2> DEFINE x == Run(st, w, G, po(s))
             y == Run(st, w, z(s), Len(z(s)))
             t == Len(b)
  <2>1. x \in Nat /\ y \in Nat /\ x + y <= recv /\ send + recv <= t /\ t \in Nat
        /\ send \in Nat /\ recv \in Nat /\ at = send + x /\ Len(cont) = y
    BY <1>3, <1>4, <1>5, <1>6, <1>8
  <2> HIDE DEF x, y, t, at
  <2>2. at \in Nat /\ at + y <= t
    BY <2>1
  <2>3. QED
    BY <2>1, <2>2 DEF x, t
<1> HIDE DEF at
<1>11. a \in Seq(Words) /\ Len(a) = Len(b)
  BY <1>3, <1>6, <1>10, OverlayIs
<1>12. Holds(a, 0, st, k, w, M)
  <2>1. send <= at /\ 0 + Run(st, w, M, Len(M)) <= at /\ 0 + Run(st, w, M, Len(M)) <= Len(b)
    <3> DEFINE x == Run(st, w, G, po(s))
               t == Len(b)
               y == Run(st, w, M, Len(M))
    <3>1. x \in Nat /\ send \in Nat /\ recv \in Nat /\ t \in Nat /\ send + recv <= t
          /\ at = send + x /\ send = y
      BY <1>5, <1>6, <1>8, <1>10
    <3> HIDE DEF x, t, y
    <3>2. send <= at /\ 0 + y <= at /\ 0 + y <= t
      BY <3>1
    <3>3. QED
      BY <3>2 DEF t, y
  <2>2. 0 \in Nat /\ Runs(st, w, M) /\ Len(M) \in Nat
    BY <1>7
  <2>3. QED
    BY <1>3, <1>5, <1>6, <1>10, <2>1, <2>2, OverlayKeeps
<1>13. ASSUME NEW q \in Ranks \ (recvs[d] \ {s})
       PROVE  Holds(a, send + Run(st, w, G, po(q)), st, k, w, z(q))
  <2>1. CASE q = s
    <3>1. Runs(st, w, z(s)) /\ Len(z(s)) \in Nat
      BY <1>7
    <3>2. Holds(a, at, st, k, w, z(s))
      BY <1>3, <1>6, <1>10, <3>1, OverlayHolds
    <3>3. QED
      BY <1>10, <2>1, <3>2
  <2>2. CASE q # s
    <3> DEFINE o == send + Run(st, w, G, po(q))
    <3>1. q \in Ranks /\ q \notin recvs[d]
      BY <1>13, <2>2
    <3>2. Holds(b, o, st, k, w, z(q))
      BY <1>1, <1>2, <3>1 DEF Filled, b, st, k, w, G, po, z, send
    <3>3. Runs(st, w, z(q)) /\ Len(z(q)) \in Nat
      BY <1>7, <3>1
    <3>4. q < s \/ s < q
      BY <2>2, <3>1, Sizes
    <3>5. /\ o \in Nat /\ o + Run(st, w, z(q), Len(z(q))) <= Len(b)
          /\ o + Run(st, w, z(q), Len(z(q))) <= at \/ at + Len(cont) <= o
      <4> DEFINE x == Run(st, w, G, po(q))
                 y == Run(st, w, z(q), Len(z(q)))
                 u == Run(st, w, G, po(s))
                 v == Run(st, w, z(s), Len(z(s)))
                 t == Len(b)
      <4>1. /\ x \in Nat /\ y \in Nat /\ u \in Nat /\ v \in Nat /\ t \in Nat
            /\ send \in Nat /\ recv \in Nat /\ x + y <= recv /\ send + recv <= t
            /\ o = send + x /\ at = send + u /\ Len(cont) = v
        BY <1>3, <1>5, <1>6, <1>8, <1>10, <3>1
      <4>2. x + y <= u \/ u + v <= x
        BY <1>9, <3>1, <3>4
      <4> HIDE DEF x, y, u, v, t, o
      <4>3. o \in Nat /\ o + y <= t /\ (o + y <= at \/ at + v <= o)
        BY <4>1, <4>2
      <4>4. QED
        BY <4>1, <4>3 DEF y, t
    <3> HIDE DEF o
    <3>6. Holds(a, o, st, k, w, z(q))
      BY <1>3, <1>6, <1>10, <3>2, <3>3, <3>5, OverlayKeeps
    <3>7. QED
      BY <3>6 DEF o
  <2>3. QED
    BY <2>1, <2>2
<1>14. QED
  BY <1>11, <1>12, <1>13 DEF m, st, k, w, G, M, po, z, b, send, cont, at

(* A match completes one receive with what the sender had for it.           *)
LEMMA MatchKeeps ==
  ASSUME IInv, NEW s \in Ranks, NEW d \in Ranks, Match(s, d)
  PROVE  IInv'
<1> DEFINE st == stage[d]
           k == round[d]
           w == numvars[k]
           old == chan[s][d]
           a == Overlay(mem[d][st], ext[d][st].send + RecvRange(d, s).at, Content(s, Head(old)))
<1>1. /\ s \in recvs[d] /\ old # <<>>
      /\ mem' = [mem EXCEPT ![d][st] = a]
      /\ recvs' = [recvs EXCEPT ![d] = @ \ {s}]
      /\ chan' = [chan EXCEPT ![s][d] = Tail(@)]
      /\ UNCHANGED <<gfq, layer, pc, stage, round, presence, block, ext, meshes, numvars>>
  BY DEF Match
<1>2. Shape /\ RankShape(d) /\ Knows(d) /\ Held(d) /\ st \in Stages
  BY DEF IInv, RankInv, Shape
<1>3. /\ a \in Seq(Words) /\ Len(a) = Len(mem[d][st])
      /\ Holds(a, 0, st, k, w, Mirrors(d))
      /\ \A q \in Ranks \ (recvs[d] \ {s}) :
            Holds(a, ext[d][st].send + Run(st, w, Ghosts(d), proc_offsets(d, q)),
                  st, k, w, Part(q, d))
  BY <1>1, WrittenInPlace
<1>4. pc[d] = "wait"
  BY <1>1, HeadIs
<1> HIDE DEF a
<1>5. old \in Seq(Messages) /\ Len(old) \in Nat /\ Len(old) >= 1 /\ Tail(old) \in Seq(Messages)
      /\ Len(Tail(old)) = Len(old) - 1 /\ \A i \in 1 .. Len(Tail(old)) : Tail(old)[i] = old[i + 1]
  <2>1. chan \in [Ranks -> [Ranks -> Seq(Messages)]]
    BY <1>2 DEF Shape
  <2>2. old \in Seq(Messages) /\ old # <<>>
    BY <1>1, <2>1
  <2> HIDE DEF old
  <2>3. QED
    BY <2>2
<1>6. /\ mem'[d][st] = a /\ \A u \in Stages : u # st => mem'[d][u] = mem[d][u]
      /\ \A q \in Ranks : q # d => mem'[q] = mem[q] /\ recvs'[q] = recvs[q]
      /\ recvs'[d] = recvs[d] \ {s}
      /\ chan'[s][d] = Tail(old)
      /\ \A x, y \in Ranks : x # s \/ y # d => chan'[x][y] = chan[x][y]
  BY <1>1, <1>2 DEF Shape
<1>7. Shape'
  <2>1. chan' \in [Ranks -> [Ranks -> Seq(Messages)]]
    BY <1>1, <1>2, <1>5, <1>6 DEF Shape
  <2>2. recvs' \in [Ranks -> SUBSET Ranks]
    BY <1>1, <1>2 DEF Shape
  <2>3. mem' \in [Ranks -> [Stages -> Seq(Words)]]
    BY <1>1, <1>2, <1>3 DEF Shape
  <2>4. QED
    BY <1>1, <1>2, <2>1, <2>2, <2>3 DEF Shape
<1>8. /\ Local(d)' = Local(d) /\ Owned(d)' = Owned(d) /\ \A x, y : Part(x, y)' = Part(x, y)
      /\ \A x : Mirrors(x)' = Mirrors(x) /\ Ghosts(x)' = Ghosts(x) /\ st' = st /\ k' = k /\ w' = w
      /\ \A x, y : /\ proc_offsets(x, y)' = proc_offsets(x, y)
                   /\ mirror_proc_offsets(x, y)' = mirror_proc_offsets(x, y)
  BY <1>1 DEF Local, Owned, Part, Ghosts, Mirrors, proc_offsets, mirror_proc_offsets
<1>9. RankShape(d)'
  <2>1. ASSUME NEW u \in Stages PROVE ext'[d][u].send + ext'[d][u].recv <= Len(mem'[d][u])
    <3>1. CASE u = st
      BY <1>1, <1>2, <1>3, <1>6, <3>1 DEF RankShape
    <3>2. CASE u # st
      BY <1>1, <1>2, <1>6, <3>2 DEF RankShape
    <3>3. QED
      BY <3>1, <3>2
  <2>2. QED
    BY <1>1, <1>2, <1>4, <1>6, <1>8, <2>1 DEF RankShape
<1>10. Knows(d)'
  BY <1>1, <1>2, <1>8 DEF Knows, Fresh
<1>11. Held(d)'
  BY <1>1, <1>2, <1>3, <1>4, <1>6, <1>8 DEF Held
<1>12. Filled(d)'
  BY <1>1, <1>3, <1>6, <1>8 DEF Filled
<1>13. RankInv(d)'
  BY <1>1, <1>4, <1>9, <1>10, <1>11, <1>12 DEF RankInv, Updated
<1>14. ASSUME NEW q \in Ranks, q # d PROVE RankInv(q)'
  BY <1>1, <1>6, <1>14, SameRank DEF IInv
<1>15. \A q \in Ranks : Posted(q)' = Posted(q) /\ Done(q)' = Done(q)
  BY <1>1 DEF Posted, Done
<1>16. ASSUME NEW x \in Ranks, NEW y \in Ranks, x # s \/ y # d PROVE InFlight(x, y)'
  <2>1. chan'[x][y] = chan[x][y] /\ InFlight(x, y)
    BY <1>6, <1>16 DEF IInv
  <2>2. pc'[x] = pc[x] /\ stage'[x] = stage[x] /\ round'[x] = round[x]
    BY <1>1
  <2>3. x \in recvs'[y] <=> x \in recvs[y]
    BY <1>6, <1>16
  <2>4. Posted(x)' = Posted(x) /\ Got(x, y)' = Got(x, y)
    BY <1>1, <1>15, <2>3 DEF Got
  <2>5. QED
    BY <1>1, <2>1, <2>2, <2>4, SameInFlight
<1>17. InFlight(s, d)'
  <2> DEFINE g == Got(s, d)
             n == Len(old)
  <2>1. InFlight(s, d) /\ Len(Part(s, d)) # 0
    BY <1>1, <1>2 DEF IInv, RankShape
  <2>2. g + n = Posted(s) /\ \A i \in 1 .. n : Letter(old[i], g + i, s, d)
    BY <2>1 DEF InFlight
  <2>3. g = Done(d) /\ g \in Nat /\ Got(s, d)' = g + 1
    BY <1>1, <1>2, <1>4, <1>6, <1>15, CountsType DEF Got
  <2> HIDE DEF g, old
  <2>4. (g + 1) + (n - 1) = Posted(s)'
    BY <1>5, <1>15, <2>2, <2>3
  <2>5. ASSUME NEW i \in 1 .. n - 1 PROVE Letter(chan[s][d][i], Got(s, d) + i, s, d)'
    <3>1. i + 1 \in 1 .. n /\ (g + 1) + i = g + (i + 1)
      BY <1>5, <2>3
    <3>2. chan'[s][d][i] = old[i + 1]
      BY <1>5, <1>6
    <3>3. Letter(old[i + 1], g + (i + 1), s, d)
      BY <2>2, <3>1
    <3>4. Letter(old[i + 1], (g + 1) + i, s, d)
      BY <3>1, <3>3
    <3>5. QED
      BY <1>1, <1>8, <2>3, <3>2, <3>4 DEF Letter
  <2>6. QED
    BY <1>5, <1>6, <1>8, <2>1, <2>3, <2>4, <2>5 DEF InFlight
<1>18. QED
  BY <1>7, <1>13, <1>14, <1>16, <1>17 DEF IInv

(* When no receive is left, the receive buffer holds all the ghosts.        *)
LEMMA ReceivedAll ==
  ASSUME Shape, NEW r \in Ranks, RankShape(r), Knows(r), Held(r), Filled(r),
         pc[r] = "wait", recvs[r] = {}
  PROVE  LET st == stage[r]
             w  == numvars[round[r]]
         IN  /\ recv_buffer(r, st) \in Seq(Words)
             /\ Len(recv_buffer(r, st)) = Run(st, w, Ghosts(r), Len(Ghosts(r)))
             /\ Runs(st, w, Ghosts(r))
             /\ Holds(recv_buffer(r, st), 0, st, round[r], w, Ghosts(r))
             /\ Unpackable(r)
<1> DEFINE st == stage[r]
           k == round[r]
           w == numvars[k]
           G == Ghosts(r)
           po(s) == proc_offsets(r, s)
           z(s) == Part(s, r)
           b == mem[r][st]
           send == ext[r][st].send
           recv == ext[r][st].recv
<1>1. k \in 1 .. MaxRounds /\ st \in Stages
  BY DEF RankShape, Shape
<1>2. send \in Nat /\ recv \in Nat /\ recv = Run(st, w, G, Len(G))
  BY <1>1 DEF Held, Shape
<1>3. b \in Seq(Words) /\ send + recv <= Len(b) /\ Len(b) \in Nat
  <2>1. mem \in [Ranks -> [Stages -> Seq(Words)]] /\ send + recv <= Len(b)
    BY <1>1 DEF Shape, RankShape
  <2>2. b \in Seq(Words)
    <3> HIDE DEF st
    <3>1. QED
      BY <1>1, <2>1
  <2> HIDE DEF b
  <2>3. QED
    BY <2>1, <2>2
<1>4. \A s \in Ranks : /\ Runs(st, w, G) /\ Runs(st, w, z(s))
                       /\ Len(G) \in Nat /\ Len(z(s)) \in Nat
                       /\ PartAt(G, po(s), z(s))
  BY <1>1, PairRuns
<1>5. Runs(st, w, G) /\ Len(G) \in Nat
  BY <1>4, Sizes
<1>6. \A s \in Ranks : Holds(b, send + Run(st, w, G, po(s)), st, k, w, z(s))
  BY DEF Filled
<1>7. \A i \in 1 .. Len(G) : \E s \in Ranks : \E j \in 1 .. Len(z(s)) : i = po(s) + j
  BY LayerIs DEF LayerOf, Shape
<1>8. num_block_ghosts(r, st) = Run(st, w, G, Len(G))
  BY ExtentsAre
<1>9. Unpackable(r)
  BY <1>2, <1>8 DEF Unpackable
<1>10. recv_buffer(r, st) = Window(st, b, send, recv)
  BY DEF recv_buffer
<1> HIDE DEF st, k, w, G, po, z, b, send, recv
<1>11. ASSUME NEW i \in 1 .. Len(G), NEW v \in 1 .. Weight(st, w, G[i])
       PROVE  b[(send + 0) + Run(st, w, G, i - 1) + v] = Word(st, k, w, G[i], v)
  <2>1. PICK s \in Ranks : \E j \in 1 .. Len(z(s)) : i = po(s) + j
    BY <1>7
  <2>2. PICK j \in 1 .. Len(z(s)) : i = po(s) + j
    BY <2>1
  <2>3. Runs(st, w, z(s)) /\ Len(z(s)) \in Nat /\ PartAt(G, po(s), z(s))
    BY <1>4
  <2>4. GoesOn(st, w, G, po(s), z(s))
    BY <1>5, <2>3, RunSlice
  <2>5. G[i] = z(s)[j] /\ po(s) \in Nat /\ po(s) + Len(z(s)) <= Len(G)
    BY <2>2, <2>3 DEF PartAt
  <2>6. b[send + Run(st, w, G, po(s)) + Run(st, w, z(s), j - 1) + v] = Word(st, k, w, z(s)[j], v)
    BY <1>6, <1>11, <2>5 DEF Holds
  <2>7. j - 1 \in 0 .. Len(z(s)) /\ po(s) + (j - 1) = i - 1 /\ po(s) \in 0 .. Len(G)
    BY <2>2, <2>3, <2>5
  <2>8. Run(st, w, G, po(s) + (j - 1)) = Run(st, w, G, po(s)) + Run(st, w, z(s), j - 1)
    BY <2>4, <2>7 DEF GoesOn
  <2>9. /\ Run(st, w, G, po(s)) \in Nat /\ Run(st, w, z(s), j - 1) \in Nat
    BY <1>5, <2>3, <2>7 DEF Runs
  <2> DEFINE x == Run(st, w, G, po(s))
             y == Run(st, w, z(s), j - 1)
             t == Run(st, w, G, i - 1)
  <2>10. t = x + y /\ x \in Nat /\ y \in Nat
    BY <2>7, <2>8, <2>9
  <2> HIDE DEF x, y, t
  <2>11. (send + 0) + t + v = send + x + y + v
    BY <1>2, <1>11, <2>10
  <2>12. b[send + x + y + v] = Word(st, k, w, G[i], v)
    BY <2>5, <2>6 DEF x, y
  <2>13. QED
    BY <2>11, <2>12 DEF t
<1>12. Holds(b, send + 0, st, k, w, G)
  BY <1>11 DEF Holds
<1>13. 0 \in Nat /\ 0 + Run(st, w, G, Len(G)) <= recv
  BY <1>2
<1>14. Holds(Window(st, b, send, recv), 0, st, k, w, G)
  BY <1>2, <1>3, <1>5, <1>12, <1>13, WindowHolds
<1>15. Window(st, b, send, recv) \in Seq(Words) /\ Len(Window(st, b, send, recv)) = recv
  <2>1. b \in Seq(Words) /\ send \in Nat /\ recv \in Nat /\ send + recv <= Len(b)
        /\ Len(b) \in Nat
    BY <1>2, <1>3
  <2>2. QED
    BY <2>1, WindowIs
<1>16. QED
  BY <1>2, <1>5, <1>9, <1>10, <1>14, <1>15 DEF st, k, w, G

(* A ghost is found again in the list of ghosts.                            *)
LEMMA BeforeIs ==
  ASSUME Shape, NEW r \in Ranks, NEW l \in Range(Ghosts(r))
  PROVE  /\ Before(r, l) \in Nat
         /\ Before(r, l) + 1 \in 1 .. Len(Ghosts(r))
         /\ Before(r, l) \in 0 .. Len(Ghosts(r))
         /\ Before(r, l) + 1 - 1 = Before(r, l)
         /\ Ghosts(r)[Before(r, l) + 1] = l
<1> DEFINE G == Ghosts(r)
           n == Len(G)
<1>1. G \in Seq(Leaves) /\ Range(G) = {G[i] : i \in 1 .. n} /\ n \in Nat
  <2>1. G \in Seq(Leaves) /\ Range(G) = {G[i] : i \in 1 .. n}
    BY LayerIs DEF LayerOf, Shape
  <2> HIDE DEF G
  <2>2. QED
    BY <2>1
<1>2. PICK i \in 1 .. n : G[i] = l
  BY <1>1
<1>3. i - 1 \in 0 .. n - 1 /\ i - 1 + 1 = i
  BY <1>1, <1>2
<1>4. \E j \in 0 .. n - 1 : G[j + 1] = l
  BY <1>2, <1>3
<1>5. Before(r, l) \in 0 .. n - 1 /\ G[Before(r, l) + 1] = l
  BY <1>4 DEF Before
<1> DEFINE x == Before(r, l)
<1> HIDE DEF x, n
<1>6. x \in 0 .. n - 1 /\ G[x + 1] = l /\ n \in Nat
  BY <1>1, <1>5 DEF x
<1>7. x \in Nat /\ x + 1 \in 1 .. n /\ x \in 0 .. n /\ x + 1 - 1 = x
  BY <1>6
<1>8. QED
  BY <1>6, <1>7 DEF x, n

(* The presence a rank has received for a ghost is what its owner gave it.  *)
LEMMA PresenceIs ==
  ASSUME Shape, NEW r \in Ranks, RankShape(r), Knows(r), Held(r), Filled(r),
         pc[r] = "wait", recvs[r] = {}, stage[r] = "presence", NEW l \in Range(Ghosts(r))
  PROVE  PresenceReceived(r, l) = numvars[round[r]][l]
<1> DEFINE w == numvars[round[r]]
           G == Ghosts(r)
           b == recv_buffer(r, "presence")
           x == Before(r, l)
<1>1. Runs("presence", w, G) /\ Holds(b, 0, "presence", round[r], w, G)
  BY ReceivedAll
<1>2. x \in Nat /\ x + 1 \in 1 .. Len(G) /\ x \in 0 .. Len(G) /\ x + 1 - 1 = x /\ G[x + 1] = l
  BY BeforeIs
<1>3. Len(G) \in Nat
  BY LayerIs DEF LayerOf, Shape
<1>4. 1 \in 1 .. Weight("presence", w, G[x + 1])
  BY DEF Weight
<1> HIDE DEF w, G, b, x
<1>5. b[0 + Run("presence", w, G, x + 1 - 1) + 1] = Word("presence", round[r], w, G[x + 1], 1)
  BY <1>1, <1>2, <1>4 DEF Holds
<1>6. Run("presence", w, G, x) = x
  BY <1>1, <1>2, <1>3, RunOnes
<1>7. 0 + Run("presence", w, G, x + 1 - 1) + 1 = x + 1
  BY <1>2, <1>6
<1>8. b[x + 1] = w[l]
  BY <1>2, <1>5, <1>7 DEF Word
<1>9. QED
  BY <1>8 DEF PresenceReceived, w, b, x

(* The values it has received are those its owner computed.                 *)
LEMMA ValuesAre ==
  ASSUME Shape, NEW r \in Ranks, RankShape(r), Knows(r), Held(r), Filled(r),
         pc[r] = "wait", recvs[r] = {}, stage[r] = "data", NEW l \in Range(Ghosts(r))
  PROVE  Received(r, l) = [v \in 1 .. numvars[round[r]][l] |-> Value(l, v, round[r])]
<1> DEFINE k == round[r]
           w == numvars[k]
           G == Ghosts(r)
           b == recv_buffer(r, "data")
           x == Before(r, l)
           at == Run("data", w, G, x)
<1>1. /\ b \in Seq(Words) /\ Len(b) = Run("data", w, G, Len(G))
      /\ Runs("data", w, G) /\ Holds(b, 0, "data", k, w, G)
  BY ReceivedAll
<1>2. x \in Nat /\ x + 1 \in 1 .. Len(G) /\ x \in 0 .. Len(G) /\ x + 1 - 1 = x /\ G[x + 1] = l
  BY BeforeIs
<1>3. /\ Len(G) \in Nat /\ l \in Local(r) /\ l \in Leaves
  <2>1. l \in Local(r)
    BY DEF Local
  <2>2. QED
    BY <2>1, LayerIs DEF LayerOf, Shape
<1>4. ghost_offsets(r, "data", x) = at
  BY <1>2, OffsetsAre
<1>5. presence[r][l] = w[l]
  BY <1>3 DEF Knows
<1>6. k \in 1 .. MaxRounds /\ w[l] \in Nat
  <2>1. k \in 1 .. MaxRounds
    BY DEF RankShape
  <2>2. QED
    BY <1>3, <2>1, NumvarsType DEF Shape
<1>7. Received(r, l) = Window("data", b, at, w[l])
  BY <1>4, <1>5 DEF Received
<1> HIDE DEF w, G, b, x, k
<1>8. Weight("data", w, G[x + 1]) = w[l]
  BY <1>2 DEF Weight
<1>9. at + w[l] <= Len(b) /\ at \in Nat
  <2> DEFINE y == Run("data", w, G, x + 1)
             t == Run("data", w, G, Len(G))
  <2>1. y = at + w[l] /\ at \in Nat
    BY <1>1, <1>2, <1>8 DEF Runs
  <2>2. y <= t
    <3>1. x + 1 \in 0 .. Len(G) /\ Len(G) \in 0 .. Len(G) /\ x + 1 <= Len(G)
      BY <1>2, <1>3
    <3>2. QED
      BY <1>1, <3>1 DEF Runs
  <2> HIDE DEF y, t, at
  <2>3. at + w[l] <= t
    BY <2>1, <2>2
  <2>4. QED
    BY <1>1, <2>1, <2>3 DEF t
<1>10. ASSUME NEW v \in 1 .. w[l] PROVE Window("data", b, at, w[l])[v] = Value(l, v, k)
  <2>1. b[0 + Run("data", w, G, x + 1 - 1) + v] = Word("data", k, w, G[x + 1], v)
    BY <1>1, <1>2, <1>8 DEF Holds
  <2>2. 0 + Run("data", w, G, x + 1 - 1) + v = at + v
    BY <1>2, <1>9
  <2>3. Word("data", k, w, G[x + 1], v) = Value(l, v, k)
    BY <1>2 DEF Word
  <2>4. Window("data", b, at, w[l])[v] = b[at + v]
    <3>1. b \in Seq(Words) /\ at \in Nat /\ w[l] \in Nat /\ at + w[l] <= Len(b)
          /\ Len(b) \in Nat
      BY <1>1, <1>6, <1>9
    <3> HIDE DEF at
    <3>2. QED
      BY <3>1, WindowIs
  <2> HIDE DEF at
  <2>5. QED
    BY <2>1, <2>2, <2>3, <2>4
<1>11. Window("data", b, at, w[l]) = [v \in 1 .. w[l] |-> Value(l, v, k)]
  <2>1. \E f : Window("data", b, at, w[l]) = [v \in 1 .. w[l] |-> f[v]]
    <3>1. Window("data", b, at, w[l]) = [v \in 1 .. w[l] |->
             [u \in 1 .. w[l] |-> IF at + u \in DOMAIN b THEN b[at + u] ELSE Uninit("data")][v]]
      BY DEF Window
    <3>2. QED
      BY <3>1
  <2> HIDE DEF at
  <2>2. QED
    BY <1>10, <2>1
<1>12. QED
  BY <1>7, <1>11 DEF w, k

(* A rank that has finished an exchange has posted and got all of it.       *)
LEMMA UnpackCounts ==
  ASSUME Shape, NEW r \in Ranks, RankShape(r), pc[r] = "wait", recvs[r] = {}
  PROVE  /\ Posted(r) = Exchange(round[r], stage[r])
         /\ \A s \in Ranks : Got(s, r) = Exchange(round[r], stage[r])
<1>1. Exchange(round[r], stage[r]) \in Int /\ Done(r) = Exchange(round[r], stage[r]) - 1
  BY CountsType DEF Done, Exchange
<1>2. QED
  BY <1>1 DEF Posted, Got

(* After the first exchange of a step a rank knows what its ghosts hold, and *)
(* goes on to the second.                                                   *)
LEMMA UnpackPresenceKeeps ==
  ASSUME IInv, NEW r \in Ranks, UnpackPresence(r)
  PROVE  IInv'
<1> DEFINE k == round[r]
           w == numvars[k]
           known == [l \in Local(r) |-> IF l \in Owned(r) THEN presence[r][l]
                                        ELSE PresenceReceived(r, l)]
           blank == [l \in Local(r) |-> IF l \in Owned(r) THEN block[r][l]
                                        ELSE [i \in 1 .. known[l] |-> Uninit("data")]]
<1>1. /\ Shape /\ RankShape(r) /\ Knows(r) /\ Held(r) /\ Filled(r)
      /\ pc[r] = "wait" /\ stage[r] = "presence" /\ recvs[r] = {} /\ SendsComplete(r)
      /\ k \in 1 .. MaxRounds /\ k \in Nat
  BY ExchangeAssumption DEF IInv, RankInv, RankShape, UnpackPresence
<1>2. Unpackable(r)
  BY <1>1, ReceivedAll
<1>3. /\ presence' = [presence EXCEPT ![r] = known]
      /\ block' = [block EXCEPT ![r] = blank]
      /\ stage' = [stage EXCEPT ![r] = "data"]
      /\ pc' = [pc EXCEPT ![r] = "pack"]
      /\ UNCHANGED <<gfq, layer, round, mem, ext, recvs, chan, meshes, numvars>>
  <2>1. block' = [block EXCEPT ![r] = blank]
    BY DEF UnpackPresence
  <2>2. QED
    BY <1>2, <2>1 DEF UnpackPresence
<1>4. LayerOf(r)
  BY <1>1, LayerIs DEF Shape
<1>5. /\ Owned(r) \subseteq Local(r) /\ Local(r) \subseteq Leaves
      /\ \A l \in Local(r) : l \notin Owned(r) => l \in Range(Ghosts(r))
  BY <1>4 DEF Local, LayerOf
<1>6. \A l \in Leaves : w[l] \in 0 .. MaxVars /\ w[l] \in Nat
  BY <1>1, NumvarsType DEF Shape
<1>7. ASSUME NEW l \in Local(r) PROVE known[l] = w[l]
  <2>1. CASE l \in Owned(r)
    BY <1>1, <2>1 DEF Knows
  <2>2. CASE l \notin Owned(r)
    <3>1. l \in Range(Ghosts(r))
      BY <1>5, <2>2
    <3>2. PresenceReceived(r, l) = w[l]
      BY <1>1, <3>1, PresenceIs
    <3>3. QED
      BY <2>2, <3>2
  <2>3. QED
    BY <2>1, <2>2
<1>8. known \in [Local(r) -> 0 .. MaxVars]
  <2>1. DOMAIN known = Local(r) /\ known = [l \in DOMAIN known |-> known[l]]
    OBVIOUS
  <2> HIDE DEF known
  <2>2. \A l \in Local(r) : known[l] \in 0 .. MaxVars
    BY <1>5, <1>6, <1>7
  <2>3. QED
    BY <2>1, <2>2
<1> HIDE DEF known
<1>9. blank \in [Local(r) -> Seq(Words)]
  <2>1. ASSUME NEW l \in Local(r) PROVE [i \in 1 .. known[l] |-> Uninit("data")] \in Seq(Words)
    <3>1. known[l] \in Nat /\ Uninit("data") \in Words
      BY <1>5, <1>6, <1>7 DEF Uninit, Words
    <3>2. QED
      BY <3>1
  <2>2. QED
    BY <1>1, <2>1 DEF RankShape
<1>10. \A l \in Owned(r) : blank[l] = block[r][l]
  BY <1>5
<1> HIDE DEF blank
<1>11. /\ pc'[r] = "pack" /\ stage'[r] = "data" /\ presence'[r] = known /\ block'[r] = blank
       /\ DOMAIN presence' = Ranks /\ DOMAIN block' = Ranks
       /\ \A q \in Ranks : q # r => /\ pc'[q] = pc[q] /\ stage'[q] = stage[q]
                                    /\ presence'[q] = presence[q] /\ block'[q] = block[q]
  BY <1>1, <1>3 DEF Shape
<1>12. Shape'
  <2>1. /\ pc' \in [Ranks -> {"compute", "pack", "post", "wait"}]
        /\ stage' \in [Ranks -> Stages]
    BY <1>1, <1>3 DEF Shape, Stages
  <2>2. QED
    BY <1>1, <1>3, <1>11, <2>1 DEF Shape
<1>13. /\ Local(r)' = Local(r) /\ Owned(r)' = Owned(r) /\ \A s : Part(s, r)' = Part(s, r)
       /\ k' = k /\ w' = w
  BY <1>3 DEF Local, Owned, Part, Ghosts
<1>14. RankShape(r)'
  BY <1>1, <1>3, <1>8, <1>9, <1>11, <1>13 DEF RankShape
<1>15. Knows(r)'
  <2>1. \A l \in Local(r) : presence'[r][l] = w[l]
    BY <1>7, <1>11
  <2>2. ASSUME NEW l \in Owned(r) PROVE Fresh(r, l)'
    <3>1. Fresh(r, l) /\ block'[r][l] = block[r][l]
      BY <1>1, <1>10, <1>11 DEF Knows
    <3>2. QED
      BY <1>3, <3>1 DEF Fresh
  <2>3. QED
    BY <1>3, <1>5, <1>11, <1>13, <2>1, <2>2 DEF Knows
<1>16. RankInv(r)'
  BY <1>11, <1>14, <1>15 DEF RankInv, Held, Filled, Updated
<1>17. ASSUME NEW q \in Ranks, q # r PROVE RankInv(q)'
  BY <1>3, <1>11, <1>17, SameRank DEF IInv
<1>18. ASSUME NEW q \in Ranks PROVE /\ Posted(q)' = Posted(q)
                                    /\ \A s \in Ranks : Got(s, q)' = Got(s, q)
  <2>1. CASE q = r
    <3>1. Posted(r) = 2 * k - 1 /\ \A s \in Ranks : Got(s, r) = 2 * k - 1
      BY <1>1, UnpackCounts DEF Exchange
    <3>2. Done(r)' = 2 * k - 1
      BY <1>3, <1>11 DEF Done, Exchange
    <3>3. QED
      BY <1>11, <2>1, <3>1, <3>2 DEF Posted, Got
  <2>2. CASE q # r
    BY <1>3, <1>11, <2>2 DEF Posted, Got, Done
  <2>3. QED
    BY <2>1, <2>2
<1>19. ASSUME NEW s \in Ranks, NEW d \in Ranks PROVE InFlight(s, d)'
  <2>1. \/ pc'[s] = pc[s] /\ stage'[s] = stage[s] /\ round'[s] = round[s]
        \/ \A i \in 1 .. Len(chan[s][d]) : chan[s][d][i].buffered
    <3>1. CASE s = r
      <4>1. DOMAIN chan[r][d] = 1 .. Len(chan[r][d])
        <5>1. chan \in [Ranks -> [Ranks -> Seq(Messages)]]
          BY <1>1 DEF Shape
        <5>2. chan[r][d] \in Seq(Messages)
          BY <5>1
        <5>3. QED
          BY <5>2
      <4>2. QED
        BY <1>1, <3>1, <4>1 DEF SendsComplete
    <3>2. CASE s # r
      BY <1>3, <1>11, <3>2
    <3>3. QED
      BY <3>1, <3>2
  <2>2. InFlight(s, d)
    BY DEF IInv
  <2>3. QED
    BY <1>3, <1>18, <2>1, <2>2, SameInFlight
<1>20. QED
  BY <1>12, <1>16, <1>17, <1>19 DEF IInv

(* After the second exchange the ghosts are those of the step.              *)
LEMMA UnpackDataKeeps ==
  ASSUME IInv, NEW r \in Ranks, UnpackData(r)
  PROVE  IInv'
<1> DEFINE k == round[r]
           w == numvars[k]
           new == [l \in Local(r) |-> IF l \in Owned(r) THEN block[r][l] ELSE Received(r, l)]
<1>1. /\ Shape /\ RankShape(r) /\ Knows(r) /\ Held(r) /\ Filled(r)
      /\ pc[r] = "wait" /\ stage[r] = "data" /\ recvs[r] = {} /\ SendsComplete(r)
      /\ k \in 1 .. MaxRounds /\ k \in Nat
  BY ExchangeAssumption DEF IInv, RankInv, RankShape, UnpackData
<1>2. Unpackable(r)
  BY <1>1, ReceivedAll
<1>3. /\ block' = [block EXCEPT ![r] = new]
      /\ pc' = [pc EXCEPT ![r] = "compute"]
      /\ UNCHANGED <<gfq, layer, stage, round, presence, mem, ext, recvs, chan, meshes, numvars>>
  BY <1>2 DEF UnpackData
<1>4. LayerOf(r)
  BY <1>1, LayerIs DEF Shape
<1>5. /\ Local(r) \subseteq Leaves
      /\ \A l \in Local(r) : l \notin Owned(r) => l \in Range(Ghosts(r))
      /\ \A l \in Range(Ghosts(r)) : l \in Local(r) /\ l \notin Owned(r) /\ l \in Leaves
  BY <1>4 DEF Local, LayerOf
<1>6. \A l \in Leaves : w[l] \in Nat
  BY <1>1, NumvarsType DEF Shape
<1>7. \A l \in Range(Ghosts(r)) : Received(r, l) = [i \in 1 .. w[l] |-> Value(l, i, k)]
  BY <1>1, ValuesAre
<1>8. ASSUME NEW l \in Range(Ghosts(r)) PROVE Received(r, l) \in Seq(Words)
  <2>1. l \in Leaves /\ w[l] \in Nat
    BY <1>5, <1>6
  <2>2. \A i \in 1 .. w[l] : Value(l, i, k) \in Words
    BY <1>1, <2>1 DEF Words
  <2>3. QED
    BY <1>7, <2>1, <2>2
<1>9. new \in [Local(r) -> Seq(Words)]
  BY <1>1, <1>5, <1>8 DEF RankShape
<1>10. \A l \in Range(Ghosts(r)) : new[l] = Received(r, l)
  BY <1>5
<1> HIDE DEF new
<1>11. /\ pc'[r] = "compute" /\ block'[r] = new /\ DOMAIN block' = Ranks
       /\ \A q \in Ranks : q # r => pc'[q] = pc[q] /\ block'[q] = block[q]
  BY <1>1, <1>3 DEF Shape
<1>12. Shape'
  <2>1. pc' \in [Ranks -> {"compute", "pack", "post", "wait"}]
    BY <1>1, <1>3 DEF Shape
  <2>2. QED
    BY <1>1, <1>3, <1>11, <2>1 DEF Shape
<1>13. /\ Local(r)' = Local(r) /\ Owned(r)' = Owned(r) /\ \A s : Part(s, r)' = Part(s, r)
       /\ Ghosts(r)' = Ghosts(r) /\ k' = k /\ w' = w
  BY <1>3 DEF Local, Owned, Part, Ghosts
<1>14. RankShape(r)'
  BY <1>1, <1>3, <1>9, <1>11, <1>13 DEF RankShape
<1>15. Updated(r)'
  <2>1. ASSUME NEW l \in Range(Ghosts(r)) PROVE Fresh(r, l)'
    <3>1. block'[r][l] = [i \in 1 .. w[l] |-> Value(l, i, k)]
      BY <1>7, <1>10, <1>11
    <3>2. round' = round /\ numvars' = numvars
      BY <1>3
    <3>3. QED
      BY <3>1, <3>2 DEF Fresh
  <2>2. QED
    BY <1>13, <2>1 DEF Updated
<1>16. RankInv(r)'
  BY <1>11, <1>14, <1>15 DEF RankInv, Held, Filled, Knows
<1>17. ASSUME NEW q \in Ranks, q # r PROVE RankInv(q)'
  BY <1>3, <1>11, <1>17, SameRank DEF IInv
<1>18. ASSUME NEW q \in Ranks PROVE /\ Posted(q)' = Posted(q)
                                    /\ \A s \in Ranks : Got(s, q)' = Got(s, q)
  <2>1. CASE q = r
    <3>1. Posted(r) = 2 * k /\ \A s \in Ranks : Got(s, r) = 2 * k
      BY <1>1, UnpackCounts DEF Exchange
    <3>2. Done(r)' = 2 * k
      BY <1>3, <1>11 DEF Done
    <3>3. QED
      BY <1>11, <2>1, <3>1, <3>2 DEF Posted, Got
  <2>2. CASE q # r
    BY <1>3, <1>11, <2>2 DEF Posted, Got, Done
  <2>3. QED
    BY <2>1, <2>2
<1>19. ASSUME NEW s \in Ranks, NEW d \in Ranks PROVE InFlight(s, d)'
  <2>1. \/ pc'[s] = pc[s] /\ stage'[s] = stage[s] /\ round'[s] = round[s]
        \/ \A i \in 1 .. Len(chan[s][d]) : chan[s][d][i].buffered
    <3>1. CASE s = r
      <4>1. DOMAIN chan[r][d] = 1 .. Len(chan[r][d])
        <5>1. chan \in [Ranks -> [Ranks -> Seq(Messages)]]
          BY <1>1 DEF Shape
        <5>2. chan[r][d] \in Seq(Messages)
          BY <5>1
        <5>3. QED
          BY <5>2
      <4>2. QED
        BY <1>1, <3>1, <4>1 DEF SendsComplete
    <3>2. CASE s # r
      BY <1>3, <1>11, <3>2
    <3>3. QED
      BY <3>1, <3>2
  <2>2. InFlight(s, d)
    BY DEF IInv
  <2>3. QED
    BY <1>3, <1>18, <2>1, <2>2, SameInFlight
<1>20. QED
  BY <1>12, <1>16, <1>17, <1>19 DEF IInv

----------------------------------------------------------------------------
(* The mesh changes, and the theorems                                       *)

(* Every leaf has a rank that holds it.                                     *)
LEMMA HasHolder ==
  ASSUME NEW g \in Partitions, NEW l \in Leaves
  PROVE  \E r \in Ranks : l \in OwnedIn(g, r)
<1> DEFINE N == NumRanks
           Q == NumLeaves
<1>1. /\ N \in Nat /\ N >= 1 /\ Q \in Nat /\ g \in [0 .. N -> 0 .. Q] /\ g[0] = 0 /\ g[N] = Q
      /\ l \in Nat /\ l < Q
  BY ExchangeAssumption DEF Partitions, Leaves
<1>2. \E r \in 0 .. N - 1 : g[r] <= l /\ l < g[r + 1]
  <2> HIDE DEF N, Q
  <2>1. QED
    BY <1>1, SomeOwner
<1>3. PICK r \in Ranks : g[r] <= l /\ l < g[r + 1]
  BY <1>2 DEF Ranks
<1>4. g[r] \in Nat /\ g[r + 1] \in Nat
  <2>1. r \in 0 .. N /\ r + 1 \in 0 .. N
    BY Sizes
  <2>2. QED
    BY <1>1, <2>1
<1>5. l \in OwnedIn(g, r)
  BY <1>1, <1>3, <1>4 DEF OwnedIn
<1>6. QED
  BY <1>5

(* A mesh change comes when all the exchanges are over: nothing is in flight *)
(* that the new ghost layer would read otherwise.                           *)
LEMMA NewMeshKeeps ==
  ASSUME IInv, NewMesh
  PROVE  IInv'
<1> DEFINE holder(l) == CHOOSE r \in Ranks : l \in Owned(r)
<1>1. /\ Shape /\ \A r \in Ranks : RankShape(r) /\ pc[r] = "compute" /\ recvs[r] = {}
      /\ \A r, s \in Ranks : round[r] = round[s]
  <2>1. \A r, s \in Ranks : pc[r] = "compute" /\ round[r] = round[s]
    BY DEF NewMesh, Local, Owned, Ghosts
  <2>2. QED
    BY <2>1 DEF IInv, RankInv, RankShape
<1>2. /\ meshes < MaxMeshes /\ gfq' \in Partitions /\ layer' = ghost_new(gfq')
      /\ presence' = [r \in Ranks |-> [l \in Local(r)' |->
                         IF l \in Owned(r)' THEN presence[holder(l)][l] ELSE 0]]
      /\ block' = [r \in Ranks |-> [l \in Local(r)' |->
                         IF l \in Owned(r)' THEN block[holder(l)][l] ELSE <<>>]]
      /\ stage' = [r \in Ranks |-> "presence"]
      /\ meshes' = meshes + 1
      /\ UNCHANGED <<pc, round, mem, ext, recvs, chan, numvars>>
  BY DEF NewMesh, Local, Owned, Ghosts
<1>3. ASSUME NEW r \in Ranks, NEW l \in Owned(r)'
      PROVE  holder(l) \in Ranks /\ l \in Local(holder(l))
  <2>1. l \in Leaves
    <3>1. \A g \in Partitions : OwnedIn(g, r) \subseteq Leaves
      BY OwnedFacts
    <3>2. l \in OwnedIn(gfq', r)
      BY DEF Owned
    <3>3. QED
      BY <1>2, <3>1, <3>2
  <2>2. \E q \in Ranks : l \in Owned(q)
    BY <1>1, <2>1, HasHolder DEF Shape, Owned
  <2>3. holder(l) \in Ranks /\ l \in Owned(holder(l))
    BY <2>2
  <2> HIDE DEF holder
  <2>4. QED
    BY <2>3 DEF Local
<1> HIDE DEF holder
<1>4. Shape'
  <2>1. meshes' \in 0 .. MaxMeshes
    BY <1>1, <1>2, ExchangeAssumption DEF Shape
  <2>2. DOMAIN presence' = Ranks /\ DOMAIN block' = Ranks /\ stage' \in [Ranks -> Stages]
    BY <1>2 DEF Stages
  <2>3. QED
    BY <1>1, <1>2, <2>1, <2>2 DEF Shape
<1>5. ASSUME NEW r \in Ranks PROVE RankInv(r)'
  <2>1. pc'[r] = "compute" /\ stage'[r] = "presence" /\ recvs'[r] = {}
    BY <1>1, <1>2
  <2>2. presence'[r] \in [Local(r)' -> 0 .. MaxVars]
    <3>1. 0 \in 0 .. MaxVars
      BY ExchangeAssumption
    <3>2. \A l \in Owned(r)' : presence[holder(l)][l] \in 0 .. MaxVars
      BY <1>1, <1>3 DEF RankShape
    <3>3. QED
      BY <1>2, <3>1, <3>2
  <2>3. block'[r] \in [Local(r)' -> Seq(Words)]
    <3>1. <<>> \in Seq(Words)
      OBVIOUS
    <3>2. \A l \in Owned(r)' : block[holder(l)][l] \in Seq(Words)
      BY <1>1, <1>3 DEF RankShape
    <3>3. QED
      BY <1>2, <3>1, <3>2
  <2>4. \A st \in Stages : ext'[r][st].send + ext'[r][st].recv <= Len(mem'[r][st])
    BY <1>1, <1>2 DEF RankShape
  <2>5. RankShape(r)'
    BY <2>1, <2>2, <2>3, <2>4 DEF RankShape
  <2>6. QED
    BY <2>1, <2>5 DEF RankInv, Knows, Held, Filled, Updated
<1>6. ASSUME NEW s \in Ranks, NEW d \in Ranks PROVE InFlight(s, d)'
  <2>1. InFlight(s, d)
    BY DEF IInv
  <2>2. Posted(s) = 2 * round[s] /\ Got(s, d) = 2 * round[s] /\ round[s] \in Nat
    BY <1>1, CountsType DEF Posted, Got, Done
  <2>3. Posted(s)' = 2 * round[s] /\ Got(s, d)' = 2 * round[s]
    BY <1>1, <1>2 DEF Posted, Got, Done
  <2>4. chan[s][d] = <<>>
    <3> DEFINE z == chan[s][d]
    <3>1. chan \in [Ranks -> [Ranks -> Seq(Messages)]]
      BY <1>1 DEF Shape
    <3>2. z \in Seq(Messages)
      BY <3>1
    <3>3. z = <<>> \/ 2 * round[s] + Len(z) = 2 * round[s]
      BY <2>1, <2>2 DEF InFlight
    <3> DEFINE x == 2 * round[s]
    <3>4. x \in Nat
      BY <2>2
    <3> HIDE DEF z, x
    <3>5. Len(z) \in Nat
      BY <3>2
    <3>6. z = <<>> \/ Len(z) = 0
      BY <3>3, <3>4, <3>5 DEF x
    <3>7. QED
      BY <3>2, <3>6 DEF z
  <2>5. chan'[s][d] = <<>>
    BY <1>2, <2>4
  <2>6. QED
    BY <2>2, <2>3, <2>5 DEF InFlight
<1>7. QED
  BY <1>4, <1>5, <1>6 DEF IInv

(* What changes nothing keeps the invariant.                                *)
LEMMA StutterKeeps ==
  ASSUME IInv, UNCHANGED vars
  PROVE  IInv'
<1>1. UNCHANGED <<gfq, layer, pc, stage, round, presence, block, mem, ext, recvs, chan, meshes,
                  numvars>>
  BY DEF vars
<1>2. Shape'
  BY <1>1 DEF IInv, Shape
<1>3. \A r \in Ranks : RankInv(r)'
  BY <1>1, SameRank DEF IInv
<1>4. ASSUME NEW s \in Ranks, NEW d \in Ranks PROVE InFlight(s, d)'
  <2>1. Posted(s)' = Posted(s) /\ Got(s, d)' = Got(s, d)
    BY <1>1 DEF Posted, Got, Done
  <2>2. QED
    BY <1>1, <2>1, SameInFlight DEF IInv
<1>5. QED
  BY <1>2, <1>3, <1>4 DEF IInv

(* The invariant holds in every step.                                       *)
LEMMA StepsKeep == IInv /\ [Next]_vars => IInv'
<1> SUFFICES ASSUME IInv, [Next]_vars PROVE IInv'
  OBVIOUS
<1>1. CASE NewMesh
  BY <1>1, NewMeshKeeps
<1>2. ASSUME NEW r \in Ranks, Step(r) PROVE IInv'
  <2>1. CASE Compute(r)
    BY <2>1, ComputeKeeps
  <2>2. CASE PackMirrors(r)
    BY <2>2, PackKeeps
  <2>3. CASE PostRequests(r)
    BY <2>3, PostKeeps
  <2>4. CASE UnpackPresence(r)
    BY <2>4, UnpackPresenceKeeps
  <2>5. CASE UnpackData(r)
    BY <2>5, UnpackDataKeeps
  <2>6. QED
    BY <1>2, <2>1, <2>2, <2>3, <2>4, <2>5 DEF Step
<1>3. ASSUME NEW s \in Ranks, NEW d \in Ranks, Buffer(s, d) \/ Match(s, d) PROVE IInv'
  <2>1. CASE Buffer(s, d)
    BY <2>1, BufferKeeps
  <2>2. CASE Match(s, d)
    BY <2>2, MatchKeeps
  <2>3. QED
    BY <1>3, <2>1, <2>2
<1>4. CASE UNCHANGED vars
  BY <1>4, StutterKeeps
<1>5. QED
  BY <1>1, <1>2, <1>3, <1>4 DEF Next

(* The inductive invariant of the exchange.                                 *)
THEOREM Exchanging == Spec => []IInv
<1>1. QED
  BY StartsRight, StepsKeep, PTL DEF Spec

(* Each rank knows its leaves and ghosts and no other, the two buffers of an *)
(* exchange fit in its memory, and requests and messages stay between ranks  *)
(* that share leaves.                                                       *)
THEOREM TypeCorrect == Spec => []TypeOK
<1>1. IInv => TypeOK
  <2> SUFFICES ASSUME IInv PROVE TypeOK
    OBVIOUS
  <2>1. Shape
    BY DEF IInv
  <2>2. ASSUME NEW r \in Ranks
        PROVE  /\ presence[r] \in [Local(r) -> 0 .. MaxVars]
               /\ DOMAIN block[r] = Local(r)
               /\ \A st \in Stages : ext[r][st].send + ext[r][st].recv <= Len(mem[r][st])
               /\ \A s \in recvs[r] : local_num_ghosts(r, s) > 0
               /\ \A d \in Ranks : Len(chan[r][d]) > 0 => local_num_mirrors(r, d) > 0
    <3>1. RankShape(r) /\ recvs[r] \subseteq Ranks
      BY DEF IInv, RankInv, Shape
    <3>2. \A d \in Ranks : /\ local_num_mirrors(r, d) = Len(Part(r, d))
                           /\ local_num_ghosts(r, d) = Len(Part(d, r))
                           /\ Len(Part(r, d)) \in Nat
      BY <2>1, LayerIs DEF LayerOf, Shape
    <3>3. \A d \in Ranks : Len(chan[r][d]) > 0 => Len(Part(r, d)) > 0
      <4>1. \A d \in Ranks : Len(Part(r, d)) = 0 => Len(chan[r][d]) = 0
        BY DEF IInv, InFlight
      <4>2. QED
        BY <3>2, <4>1
    <3>4. \A s \in recvs[r] : local_num_ghosts(r, s) > 0
      BY <3>1, <3>2 DEF RankShape
    <3>5. \A d \in Ranks : Len(chan[r][d]) > 0 => local_num_mirrors(r, d) > 0
      BY <3>2, <3>3
    <3>6. QED
      BY <3>1, <3>4, <3>5 DEF RankShape
  <2>3. QED
    BY <2>1, <2>2 DEF TypeOK, Shape
<1>2. QED
  BY Exchanging, <1>1, PTL

(* The message a receive is matched with is of its exchange and as long as   *)
(* it expects, and no rank stops on a buffer of the wrong size, whatever the *)
(* partition, the materials and the order in which MPI moves the messages.   *)
THEOREM MessagesFit == Spec => []LengthsAgree
<1>1. IInv => LengthsAgree
  <2> SUFFICES ASSUME IInv PROVE LengthsAgree
    OBVIOUS
  <2>1. \A s, d \in Ranks : (s \in recvs[d] /\ chan[s][d] # <<>>) =>
            Head(chan[s][d]).len = RecvRange(d, s).len /\ Head(chan[s][d]).st = stage[d]
    BY HeadIs
  <2>2. \A r \in Ranks : pc[r] # "aborted"
    BY DEF IInv, Shape
  <2>3. QED
    BY <2>1, <2>2 DEF LengthsAgree
<1>2. QED
  BY Exchanging, <1>1, PTL

(* A rank that has finished the exchanges of a step has in each of its       *)
(* ghosts what the owner computed in that step.                             *)
THEOREM GhostsUpToDate == Spec => []GhostsFresh
<1>1. IInv => GhostsFresh
  BY DEF IInv, RankInv, Updated, Fresh, GhostsFresh
<1>2. QED
  BY Exchanging, <1>1, PTL

(* Something is in flight if the sender has posted more exchanges than the   *)
(* receiver has got.                                                        *)
LEMMA AheadMeansSent ==
  ASSUME IInv, NEW s \in Ranks, NEW d \in Ranks, Len(Part(s, d)) > 0, Posted(s) > Got(s, d)
  PROVE  chan[s][d] # <<>>
<1>1. Got(s, d) + Len(chan[s][d]) = Posted(s)
  BY DEF IInv, InFlight
<1>2. Posted(s) \in Int /\ Got(s, d) \in Int
  <2>1. ASSUME NEW r \in Ranks PROVE Done(r) \in Int
    <3>1. round[r] \in Nat
      BY ExchangeAssumption DEF IInv, Shape
    <3>2. QED
      BY <3>1 DEF Done, Exchange
  <2>2. QED
    BY <2>1 DEF Posted, Got
<1>3. SUFFICES ASSUME chan[s][d] = <<>> PROVE FALSE
  OBVIOUS
<1>4. Len(chan[s][d]) = 0
  BY <1>3
<1>5. QED
  BY <1>1, <1>2, <1>4

(* If no rank can go on by itself, each has done its time steps or waits;    *)
(* those that wait have finished fewer exchanges than those that are done.   *)
LEMMA WhoWaits ==
  ASSUME IInv, \A r \in Ranks : ~ CanStep(r), NEW r \in Ranks
  PROVE  /\ Done(r) \in Nat
         /\ \/ pc[r] = "compute" /\ round[r] = MaxRounds /\ Done(r) = 2 * MaxRounds
               /\ Posted(r) = Done(r) /\ \A s \in Ranks : Got(s, r) = Done(r)
            \/ pc[r] = "wait" /\ Done(r) < 2 * MaxRounds /\ Posted(r) = Done(r) + 1
               /\ \A s \in Ranks : Got(s, r) = IF s \in recvs[r] THEN Done(r) ELSE Done(r) + 1
<1>1. /\ pc[r] \in {"compute", "wait"} /\ stage[r] \in Stages
      /\ round[r] \in 0 .. MaxRounds /\ MaxRounds \in Nat
      /\ pc[r] = "wait" => round[r] \in 1 .. MaxRounds
      /\ pc[r] = "compute" => round[r] = MaxRounds
  BY ExchangeAssumption DEF IInv, Shape, RankInv, RankShape, CanStep
<1>2. CASE pc[r] = "compute"
  <2>1. Done(r) = 2 * MaxRounds
    BY <1>1, <1>2 DEF Done
  <2>2. QED
    BY <1>1, <1>2, <2>1 DEF Posted, Got
<1>3. CASE pc[r] = "wait"
  <2>1. Done(r) \in Nat /\ Done(r) < 2 * MaxRounds
    BY <1>1, <1>3 DEF Done, Exchange, Stages
  <2>2. QED
    BY <1>3, <2>1 DEF Posted, Got
<1>4. QED
  BY <1>1, <1>2, <1>3

(* Whatever MPI buffers, the ranks never wait for each other in a cycle: a    *)
(* rank that has finished the fewest exchanges waits for messages that the   *)
(* others have posted, or sends what the others wait for.                   *)
THEOREM NoDeadlock == Spec => []NeverStuck
<1>1. IInv => NeverStuck
  <2> SUFFICES ASSUME IInv, \A r \in Ranks : ~ CanStep(r),
                      NEW q \in Ranks, ~ (pc[q] = "compute" /\ round[q] = MaxRounds)
               PROVE  \E s, d \in Ranks : s \in recvs[d] /\ chan[s][d] # <<>>
    BY DEF NeverStuck
  <2>1. PICK r \in Ranks : \A s \in Ranks : Done(r) <= Done(s)
    <3> DEFINE all == {Done(s) : s \in Ranks}
    <3>1. all \subseteq Nat /\ all # {}
      BY WhoWaits
    <3>2. \E m \in all : \A n \in all : m <= n
      <4> HIDE DEF all
      <4>1. QED
        BY <3>1, LeastNat
    <3>3. QED
      BY <3>2
  <2>2. /\ pc[r] = "wait" /\ Done(r) \in Nat /\ Done(r) < 2 * MaxRounds
        /\ Posted(r) = Done(r) + 1
        /\ \A s \in Ranks : Got(s, r) = IF s \in recvs[r] THEN Done(r) ELSE Done(r) + 1
    <3>1. Done(q) < 2 * MaxRounds /\ Done(r) <= Done(q) /\ Done(q) \in Nat /\ Done(r) \in Nat
      BY WhoWaits, <2>1
    <3>2. Done(r) # 2 * MaxRounds
      BY <3>1, ExchangeAssumption
    <3>3. QED
      BY WhoWaits, <3>2
  <2>3. ASSUME NEW s \in recvs[r]
        PROVE  s \in Ranks /\ chan[s][r] # <<>>
    <3>1. s \in Ranks /\ Len(Part(s, r)) > 0
      BY DEF IInv, Shape, RankInv, RankShape
    <3>2. Got(s, r) = Done(r)
      BY <2>2, <3>1
    <3>3. Posted(s) > Done(r)
      <4>1. /\ Done(s) \in Nat
            /\ Posted(s) = Done(s) + 1 \/ (Posted(s) = Done(s) /\ Done(s) = 2 * MaxRounds)
        BY WhoWaits, <3>1
      <4>2. Done(r) <= Done(s)
        BY <2>1, <3>1
      <4>3. QED
        BY <2>2, <4>1, <4>2, ExchangeAssumption
    <3>4. QED
      BY <3>1, <3>2, <3>3, AheadMeansSent
  <2>4. ASSUME recvs[r] = {}
        PROVE  \E d \in Ranks : r \in recvs[d] /\ chan[r][d] # <<>>
    <3>1. ~ SendsComplete(r)
      BY <2>2, <2>4 DEF CanStep
    <3>2. PICK d \in Ranks : \E i \in DOMAIN chan[r][d] : ~ chan[r][d][i].buffered
      BY <3>1 DEF SendsComplete
    <3>3. chan[r][d] \in Seq(Messages) /\ chan[r][d] # <<>> /\ Len(chan[r][d]) > 0
      <4>1. chan[r][d] \in Seq(Messages)
        <5>1. chan \in [Ranks -> [Ranks -> Seq(Messages)]]
          BY DEF IInv, Shape
        <5>2. QED
          BY <5>1
      <4>2. DOMAIN chan[r][d] # {}
        BY <3>2
      <4>3. QED
        <5> DEFINE z == chan[r][d]
        <5>1. z \in Seq(Messages) /\ DOMAIN z = 1 .. Len(z) /\ Len(z) \in Nat /\ DOMAIN z # {}
          BY <4>1, <4>2
        <5> HIDE DEF z
        <5>2. Len(z) # 0 /\ z # <<>>
          BY <5>1
        <5>3. QED
          BY <5>1, <5>2 DEF z
    <3>4. Got(r, d) + Len(chan[r][d]) = Posted(r)
      BY <3>3 DEF IInv, InFlight
    <3>5. Done(r) <= Done(d)
      BY <2>1
    <3>6. /\ Done(d) \in Nat
          /\ \/ Done(d) = 2 * MaxRounds /\ Got(r, d) = Done(d)
             \/ Got(r, d) = IF r \in recvs[d] THEN Done(d) ELSE Done(d) + 1
      BY WhoWaits
    <3>7. r \in recvs[d]
      <4>1. Len(chan[r][d]) \in Nat
        BY <3>3
      <4>2. Got(r, d) \in Nat /\ Got(r, d) < Done(r) + 1
        BY <2>2, <3>3, <3>4, <3>6, <4>1
      <4>3. Got(r, d) < Done(d) + 1 /\ ~ (Done(d) = 2 * MaxRounds /\ Got(r, d) = Done(d))
        BY <2>2, <3>5, <3>6, <4>2, ExchangeAssumption
      <4>4. QED
        BY <3>6, <4>2, <4>3
    <3>8. QED
      BY <3>3, <3>7
  <2>5. QED
    BY <2>3, <2>4
<1>2. QED
  BY Exchanging, <1>1, PTL
=============================================================================

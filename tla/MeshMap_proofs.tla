--------------------------- MODULE MeshMap_proofs ---------------------------
(***************************************************************************)
(* Proofs about MeshMap.                                                    *)
(***************************************************************************)
EXTENDS MeshMap, CommonFacts

----------------------------------------------------------------------------
(* Sequences and sums                                                       *)

(* Induction on sequences.                                                  *)
LEMMA EverySeq ==
  ASSUME NEW X, NEW P, <<>> \in P,
         \A s \in Seq(X) : \A x \in X : s \in P => Append(s, x) \in P
  PROVE  \A s \in Seq(X) : s \in P
<1> DEFINE Q == {n \in Nat : \A s \in Seq(X) : Len(s) = n => s \in P}
<1>1. 0 \in Q
  <2>1. \A s \in Seq(X) : Len(s) = 0 => s = <<>>
    OBVIOUS
  <2>2. QED
    BY <2>1
<1>2. ASSUME NEW n \in Nat, n \in Q PROVE n + 1 \in Q
  <2>1. ASSUME NEW s \in Seq(X), Len(s) = n + 1 PROVE s \in P
    <3> DEFINE t == SubSeq(s, 1, n)
    <3>1. n \in 0 .. Len(s)
      BY <2>1
    <3>2. t \in Seq(X) /\ Len(t) = n /\ \A j \in 1 .. n : t[j] = s[j]
      BY <3>1, FirstPart
    <3>3. s[n + 1] \in X
      BY <2>1
    <3> HIDE DEF t
    <3>4. s = Append(t, s[n + 1])
      BY <2>1, <3>2, <3>3
    <3>5. t \in P
      BY <1>2, <3>2
    <3>6. Append(t, s[n + 1]) \in P
      BY <3>2, <3>3, <3>5
    <3>7. QED
      BY <3>4, <3>6
  <2>2. n + 1 \in Nat
    OBVIOUS
  <2>3. QED
    BY <2>1, <2>2
<1>3. \A n \in Nat : n \in Q
  <2> HIDE DEF Q
  <2>1. QED
    BY <1>1, <1>2, EveryNat
<1>4. \A s \in Seq(X) : Len(s) \in Nat
  OBVIOUS
<1>5. QED
  BY <1>3, <1>4

(* A function on the subsets of S that adds the elements up in some order.   *)
AddsUp(f, S, c) ==
    /\ c \in [SUBSET S -> Nat] /\ c[{}] = 0
    /\ \A T \in SUBSET S : T # {} => \E x \in T : c[T] = f[x] + c[T \ {x}]

(* The order does not matter.                                               *)
LEMMA AnyOrder ==
  ASSUME NEW S, IsFiniteSet(S), NEW f, \A x \in S : f[x] \in Nat, NEW c, AddsUp(f, S, c)
  PROVE  \A T \in SUBSET S : \A y \in T : c[T] = f[y] + c[T \ {y}]
<1> DEFINE P == {T \in SUBSET S : \A y \in T : c[T] = f[y] + c[T \ {y}]}
<1>1. {} \in P
  OBVIOUS
<1>2. ASSUME NEW T \in SUBSET S, T # {}, \A x \in T : T \ {x} \in P PROVE T \in P
  <2>1. PICK x \in T : c[T] = f[x] + c[T \ {x}]
    BY <1>2 DEF AddsUp
  <2>2. ASSUME NEW y \in T, y # x PROVE c[T] = f[y] + c[T \ {y}]
    <3> DEFINE R == (T \ {x}) \ {y}
    <3>1. R \in SUBSET S /\ R = (T \ {y}) \ {x} /\ y \in T \ {x} /\ x \in T \ {y}
      BY <2>2
    <3>2. c[T \ {x}] = f[y] + c[R]
      BY <1>2, <3>1
    <3>3. c[T \ {y}] = f[x] + c[(T \ {y}) \ {x}]
      BY <1>2, <3>1
    <3>4. c[T \ {y}] = f[x] + c[R]
      BY <3>1, <3>3
    <3>5. c[R] \in Nat /\ f[x] \in Nat /\ f[y] \in Nat
      BY <3>1 DEF AddsUp
    <3> HIDE DEF R
    <3>6. QED
      BY <2>1, <3>2, <3>4, <3>5
  <2>3. QED
    BY <2>1, <2>2
<1>3. \A T \in SUBSET S : T \in P
  <2> HIDE DEF P
  <2>1. QED
    BY <1>1, <1>2, EverySubset
<1>4. QED
  BY <1>3

(* Two such functions agree.                                                *)
LEMMA SameSums ==
  ASSUME NEW S, IsFiniteSet(S), NEW f, \A x \in S : f[x] \in Nat,
         NEW c, AddsUp(f, S, c), NEW R \in SUBSET S, NEW d, AddsUp(f, R, d)
  PROVE  \A T \in SUBSET R : c[T] = d[T]
<1>1. IsFiniteSet(R) /\ \A x \in R : f[x] \in Nat
  BY FS_Subset
<1> DEFINE P == {T \in SUBSET R : c[T] = d[T]}
<1>2. {} \in P
  BY DEF AddsUp
<1>3. ASSUME NEW T \in SUBSET R, T # {}, \A x \in T : T \ {x} \in P PROVE T \in P
  <2>1. PICK x \in T : d[T] = f[x] + d[T \ {x}]
    BY <1>3 DEF AddsUp
  <2>2. T \in SUBSET S /\ x \in T
    OBVIOUS
  <2>3. c[T] = f[x] + c[T \ {x}]
    BY <2>2, AnyOrder
  <2>4. c[T \ {x}] = d[T \ {x}]
    BY <1>3
  <2>5. QED
    BY <2>1, <2>3, <2>4
<1>4. \A T \in SUBSET R : T \in P
  <2> HIDE DEF P
  <2>1. QED
    BY <1>1, <1>2, <1>3, EverySubset
<1>5. QED
  BY <1>4

(* What Total adds up on one set.                                           *)
LEMMA TotalIs ==
  ASSUME NEW S, IsFiniteSet(S), NEW f, \A x \in S : f[x] \in Nat
  PROVE  \E c : AddsUp(f, S, c) /\ Total(f, S) = c[S]
<1> DEFINE choose  == [T \in SUBSET S |-> CHOOSE x \in T : TRUE]
           step    == [i \in S |-> [v \in Nat |-> f[i] + v]]
           rule(g) == [T \in SUBSET S |->
                          IF T = {} THEN 0
                          ELSE f[CHOOSE x \in T : TRUE] + g[T \ {CHOOSE x \in T : TRUE}]]
<1>1. \A T \in SUBSET S : T # {} => (CHOOSE x \in T : TRUE) \in T
  OBVIOUS
<1>2. \E g : g = rule(g)
  <2>1. HasFold(S, Nat, 0, choose, step)
    <3>1. \A T \in SUBSET S : T # {} => choose[T] \in T
      BY <1>1
    <3> DEFINE X == Nat
    <3>2. 0 \in X /\ \A i \in S, v \in X : step[i][v] \in X
      OBVIOUS
    <3> HIDE DEF choose, step, X
    <3>3. HasFold(S, X, 0, choose, step)
      BY <3>1, <3>2, FoldExists
    <3>4. QED
      BY <3>3 DEF X
  <2>2. PICK g \in [SUBSET S -> Nat] :
            \A T \in SUBSET S : g[T] = IF T = {} THEN 0 ELSE step[choose[T]][g[T \ {choose[T]}]]
    BY <2>1 DEF HasFold
  <2>3. ASSUME NEW T \in SUBSET S, T # {}
        PROVE  g[T] = f[CHOOSE x \in T : TRUE] + g[T \ {CHOOSE x \in T : TRUE}]
    <3>1. choose[T] \in S /\ T \ {choose[T]} \in SUBSET S /\ choose[T] = CHOOSE x \in T : TRUE
      BY <1>1, <2>3
    <3>2. g[T \ {choose[T]}] \in Nat
      BY <2>2, <3>1
    <3>3. g[T] = f[choose[T]] + g[T \ {choose[T]}]
      BY <2>2, <2>3, <3>1, <3>2
    <3>4. QED
      BY <3>1, <3>3
  <2>4. g = rule(g)
    BY <2>2, <2>3
  <2>5. QED
    BY <2>4
<1>3. ASSUME NEW g, g = rule(g) PROVE AddsUp(f, S, g)
  <2> DEFINE P == {T \in SUBSET S : g[T] \in Nat}
  <2>1. {} \in P
    BY <1>3
  <2>2. ASSUME NEW T \in SUBSET S, T # {}
        PROVE  \E x \in T : g[T] = f[x] + g[T \ {x}]
    BY <1>3, <2>2
  <2>3. ASSUME NEW T \in SUBSET S, T # {}, \A x \in T : T \ {x} \in P PROVE T \in P
    <3>1. PICK s \in T : g[T] = f[s] + g[T \ {s}]
      BY <2>2, <2>3
    <3>2. g[T \ {s}] \in Nat /\ f[s] \in Nat
      BY <2>3
    <3>3. QED
      BY <3>1, <3>2
  <2>4. \A T \in SUBSET S : T \in P
    <3> HIDE DEF P, rule
    <3>1. QED
      BY <2>1, <2>3, EverySubset
  <2>5. g = [T \in SUBSET S |-> g[T]] /\ g[{}] = 0
    BY <1>3
  <2>6. g \in [SUBSET S -> Nat]
    BY <2>4, <2>5
  <2> HIDE DEF rule
  <2>7. QED
    BY <2>2, <2>5, <2>6 DEF AddsUp
<1>4. Total(f, S) = (CHOOSE g : g = rule(g))[S]
  BY DEF Total, MapThenSumSet, MapThenFoldSet
<1> HIDE DEF rule
<1>5. QED
  BY <1>2, <1>3, <1>4

(* A sum, less one of its terms.                                            *)
LEMMA TotalStep ==
  ASSUME NEW S, IsFiniteSet(S), NEW f, \A x \in S : f[x] \in Nat
  PROVE  /\ Total(f, S) \in Nat
         /\ S = {} => Total(f, S) = 0
         /\ \A x \in S : Total(f, S) = f[x] + Total(f, S \ {x})
<1>1. PICK c : AddsUp(f, S, c) /\ Total(f, S) = c[S]
  BY TotalIs
<1>2. c[S] \in Nat /\ c[{}] = 0
  BY <1>1 DEF AddsUp
<1>3. ASSUME NEW x \in S PROVE Total(f, S) = f[x] + Total(f, S \ {x})
  <2> DEFINE R == S \ {x}
  <2>1. R \in SUBSET S /\ IsFiniteSet(R) /\ \A y \in R : f[y] \in Nat
    BY FS_Subset
  <2> HIDE DEF R
  <2>2. PICK d : AddsUp(f, R, d) /\ Total(f, R) = d[R]
    BY <2>1, TotalIs
  <2>3. c[R] = d[R]
    BY <1>1, <2>1, <2>2, SameSums
  <2>4. c[S] = f[x] + c[S \ {x}]
    BY <1>1, AnyOrder
  <2>5. QED
    BY <1>1, <2>2, <2>3, <2>4 DEF R
<1>4. QED
  BY <1>1, <1>2, <1>3

(* Equal terms, equal sums.                                                 *)
LEMMA TotalSame ==
  ASSUME NEW S, IsFiniteSet(S), NEW f, NEW g, \A x \in S : f[x] \in Nat /\ g[x] = f[x]
  PROVE  Total(f, S) = Total(g, S)
<1>1. PICK c : AddsUp(f, S, c) /\ Total(f, S) = c[S]
  BY TotalIs
<1>2. \A x \in S : g[x] \in Nat
  OBVIOUS
<1>3. PICK d : AddsUp(g, S, d) /\ Total(g, S) = d[S]
  BY <1>2, TotalIs
<1>4. AddsUp(f, S, d)
  BY <1>3, ZenonT(40) DEF AddsUp
<1>5. c[S] = d[S]
  BY <1>1, <1>4, SameSums
<1>6. QED
  BY <1>1, <1>3, <1>5

(* The sum of nothing but zeros.                                            *)
LEMMA TotalZero ==
  ASSUME NEW S, IsFiniteSet(S), NEW f, \A x \in S : f[x] = 0
  PROVE  Total(f, S) = 0
<1> DEFINE P == {T \in SUBSET S : Total(f, T) = 0}
<1>1. \A T \in SUBSET S : IsFiniteSet(T) /\ \A x \in T : f[x] \in Nat
  BY FS_Subset
<1>2. {} \in P
  BY <1>1, TotalStep
<1>3. ASSUME NEW T \in SUBSET S, T # {}, \A x \in T : T \ {x} \in P PROVE T \in P
  <2>1. PICK x \in T : TRUE
    BY <1>3
  <2>2. Total(f, T) = f[x] + Total(f, T \ {x})
    BY <1>1, TotalStep
  <2>3. QED
    BY <1>3, <2>2
<1>4. \A T \in SUBSET S : T \in P
  <2> HIDE DEF P
  <2>1. QED
    BY <1>2, <1>3, EverySubset
<1>5. QED
  BY <1>4

----------------------------------------------------------------------------
(* What a loop chooses                                                      *)

(* What has been chosen after each turn of the loop.                        *)
Chooses(s, S, c) ==
    /\ c[0] = <<>>
    /\ \A k \in 1 .. Len(s) : c[k] = IF s[k] \in S THEN Append(c[k - 1], s[k]) ELSE c[k - 1]

LEMMA ChosenIs ==
  ASSUME NEW X, NEW s \in Seq(X), NEW S
  PROVE  \E c : Chooses(s, S, c) /\ Chosen(s, S) = c[Len(s)]
<1> DEFINE D == DOMAIN s
           Y == Seq(X)
           Keep(v, x) == IF x \in S THEN Append(v, x) ELSE v
           choose  == [T \in SUBSET D |-> Max(T)]
           step    == [i \in D |-> [v \in Y |-> Keep(v, s[i])]]
           rule(g) == [T \in SUBSET D |->
                          IF T = {} THEN <<>> ELSE Keep(g[T \ {Max(T)}], s[Max(T)])]
<1>1. D = 1 .. Len(s) /\ Len(s) \in Nat /\ IsFiniteSet(D)
  BY FS_Interval
<1>2. \A T \in SUBSET D : T # {} => Max(T) \in T
  BY <1>1, LastPlace
<1>3. \E g : g = rule(g)
  <2>1. HasFold(D, Y, <<>>, choose, step)
    <3>1. \A T \in SUBSET D : T # {} => choose[T] \in T
      BY <1>2
    <3>2. \A i \in D, v \in Y : step[i][v] \in Y
      BY <1>1
    <3>3. <<>> \in Y
      OBVIOUS
    <3> HIDE DEF choose, step, Y, D
    <3>4. QED
      BY <1>1, <3>1, <3>2, <3>3, FoldExists
  <2>2. PICK g \in [SUBSET D -> Y] :
            \A T \in SUBSET D : g[T] = IF T = {} THEN <<>> ELSE step[choose[T]][g[T \ {choose[T]}]]
    BY <2>1 DEF HasFold
  <2>3. ASSUME NEW T \in SUBSET D, T # {} PROVE g[T] = Keep(g[T \ {Max(T)}], s[Max(T)])
    <3>1. choose[T] = Max(T) /\ Max(T) \in D /\ T \ {Max(T)} \in SUBSET D
      BY <1>2, <2>3
    <3>2. g[T \ {Max(T)}] \in Y
      BY <2>2, <3>1
    <3>3. g[T] = step[Max(T)][g[T \ {Max(T)}]]
      BY <2>2, <2>3, <3>1
    <3> HIDE DEF Keep, choose
    <3>4. QED
      BY <3>1, <3>2, <3>3
  <2>4. g = rule(g)
    <3> HIDE DEF Keep
    <3>1. QED
      BY <2>2, <2>3
  <2>5. QED
    BY <2>4
<1>4. ASSUME NEW g, g = rule(g)
      PROVE  \E c : Chooses(s, S, c) /\ g[D] = c[Len(s)]
  <2> DEFINE c == [k \in 0 .. Len(s) |-> g[1 .. k]]
  <2>1. ASSUME NEW k \in 1 .. Len(s) PROVE c[k] = Keep(c[k - 1], s[k])
    <3>1. 1 .. k \in SUBSET D /\ 1 .. k # {} /\ k \in Nat /\ k >= 1
      <4>1. k \in Nat /\ k >= 1 /\ k <= Len(s)
        BY <1>1
      <4>2. k \in 1 .. k /\ \A i \in 1 .. k : i \in 1 .. Len(s)
        BY <1>1, <4>1
      <4>3. 1 .. k \subseteq D
        BY <1>1, <4>2
      <4> HIDE DEF D
      <4>4. QED
        BY <4>1, <4>2, <4>3
    <3>2. Max(1 .. k) = k /\ (1 .. k) \ {k} = 1 .. k - 1
      BY <3>1, LastOfFirst
    <3>3. g[1 .. k] = Keep(g[(1 .. k) \ {Max(1 .. k)}], s[Max(1 .. k)])
      <4> HIDE DEF Keep
      <4>1. QED
        BY <1>4, <3>1
    <3>4. c[k] = g[1 .. k] /\ c[k - 1] = g[1 .. k - 1]
      BY <1>1
    <3> HIDE DEF c, Keep
    <3>5. QED
      BY <3>2, <3>3, <3>4
  <2>2. c[0] = <<>>
    BY <1>1, <1>4
  <2>3. c[Len(s)] = g[D]
    BY <1>1
  <2> HIDE DEF c
  <2>4. QED
    BY <2>1, <2>2, <2>3 DEF Chooses
<1>5. Chosen(s, S) = (CHOOSE g : g = rule(g))[D]
  BY DEF Chosen, FoldLeft, MapThenFoldSet
<1> HIDE DEF rule
<1>6. QED
  BY <1>3, <1>4, <1>5

(* Nothing is chosen of nothing; the last element is chosen last.           *)
LEMMA ChosenEmpty ==
  ASSUME NEW S
  PROVE  Chosen(<<>>, S) = <<>>
<1> DEFINE s == <<>>
           X == {}
<1>1. s \in Seq(X) /\ Len(s) = 0
  OBVIOUS
<1> HIDE DEF s, X
<1>2. PICK c : Chooses(s, S, c) /\ Chosen(s, S) = c[Len(s)]
  BY <1>1, ChosenIs
<1>3. Chosen(s, S) = <<>>
  BY <1>1, <1>2 DEF Chooses
<1>4. QED
  BY <1>3 DEF s

LEMMA ChosenAppend ==
  ASSUME NEW X, NEW s \in Seq(X), NEW x \in X, NEW S
  PROVE  Chosen(Append(s, x), S) = IF x \in S THEN Append(Chosen(s, S), x) ELSE Chosen(s, S)
<1> DEFINE t == Append(s, x)
           n == Len(s)
<1>1. t \in Seq(X) /\ Len(t) = n + 1 /\ n \in Nat /\ t[n + 1] = x /\ \A k \in 1 .. n : t[k] = s[k]
  OBVIOUS
<1> HIDE DEF t
<1>2. PICK c : Chooses(t, S, c) /\ Chosen(t, S) = c[Len(t)]
  BY <1>1, ChosenIs
<1>3. PICK d : Chooses(s, S, d) /\ Chosen(s, S) = d[Len(s)]
  BY ChosenIs
<1> DEFINE P == {k \in Nat : k <= n => c[k] = d[k]}
<1>4. 0 \in P
  BY <1>2, <1>3 DEF Chooses
<1>5. ASSUME NEW k \in Nat, k \in P PROVE k + 1 \in P
  <2>1. ASSUME k + 1 <= n PROVE c[k + 1] = d[k + 1]
    <3>1. k + 1 \in 1 .. n /\ k + 1 \in 1 .. Len(t) /\ k + 1 - 1 = k
      BY <1>1, <2>1
    <3>2. c[k] = d[k] /\ t[k + 1] = s[k + 1]
      BY <1>1, <1>5, <2>1, <3>1
    <3>3. c[k + 1] = IF t[k + 1] \in S THEN Append(c[k + 1 - 1], t[k + 1]) ELSE c[k + 1 - 1]
      BY <1>2, <3>1 DEF Chooses
    <3>4. d[k + 1] = IF s[k + 1] \in S THEN Append(d[k + 1 - 1], s[k + 1]) ELSE d[k + 1 - 1]
      BY <1>3, <3>1 DEF Chooses
    <3>5. QED
      BY <3>1, <3>2, <3>3, <3>4
  <2>2. k + 1 \in Nat
    OBVIOUS
  <2>3. QED
    BY <2>1, <2>2
<1>6. \A k \in Nat : k \in P
  <2> HIDE DEF P
  <2>1. QED
    BY <1>4, <1>5, EveryNat
<1>7. c[n] = d[n]
  BY <1>1, <1>6
<1>8. n + 1 \in 1 .. Len(t) /\ n + 1 - 1 = n
  BY <1>1
<1>9. c[n + 1] = IF x \in S THEN Append(c[n], x) ELSE c[n]
  BY <1>1, <1>2, <1>8 DEF Chooses
<1>10. QED
  BY <1>1, <1>2, <1>3, <1>7, <1>9 DEF t

(* Of which elements it consists.                                           *)
LEMMA ChosenType ==
  ASSUME NEW X, NEW s \in Seq(X), NEW S
  PROVE  Chosen(s, S) \in Seq(X \cap S) /\ Chosen(s, S) \in Seq(X)
<1> DEFINE P == {t \in Seq(X) : Chosen(t, S) \in Seq(X \cap S)}
<1>1. <<>> \in P
  <2>1. Chosen(<<>>, S) \in Seq(X \cap S)
    <3>1. Chosen(<<>>, S) = <<>>
      BY ChosenEmpty
    <3> DEFINE Y == X \cap S
    <3>2. <<>> \in Seq(Y)
      OBVIOUS
    <3>3. QED
      BY <3>1, <3>2
  <2>2. QED
    BY <2>1
<1>2. ASSUME NEW t \in Seq(X), NEW x \in X, t \in P PROVE Append(t, x) \in P
  <2> DEFINE Y == X \cap S
             u == Chosen(t, S)
  <2>1. u \in Seq(Y)
    BY <1>2
  <2>2. Chosen(Append(t, x), S) = IF x \in S THEN Append(u, x) ELSE u
    BY ChosenAppend
  <2>3. x \in S => x \in Y
    OBVIOUS
  <2> HIDE DEF Y, u
  <2>4. Chosen(Append(t, x), S) \in Seq(Y)
    BY <2>1, <2>2, <2>3
  <2>5. QED
    BY <2>4 DEF Y
<1>3. \A t \in Seq(X) : t \in P
  <2> HIDE DEF P
  <2>1. QED
    BY <1>1, <1>2, EverySeq
<1>4. Chosen(s, S) \in Seq(X \cap S)
  BY <1>3
<1> DEFINE Z == X \cap S
<1>5. Z \subseteq X /\ Chosen(s, S) \in Seq(Z)
  BY <1>4
<1> HIDE DEF Z
<1>6. Chosen(s, S) \in Seq(X)
  BY <1>5
<1>7. QED
  BY <1>4, <1>6

(* It depends only on which elements of s are in S.                          *)
LEMMA ChosenSame ==
  ASSUME NEW X, NEW s \in Seq(X), NEW S, NEW T, X \cap S = X \cap T
  PROVE  Chosen(s, S) = Chosen(s, T)
<1> DEFINE P == {t \in Seq(X) : Chosen(t, S) = Chosen(t, T)}
<1>1. <<>> \in P
  BY ChosenEmpty
<1>2. ASSUME NEW t \in Seq(X), NEW x \in X, t \in P PROVE Append(t, x) \in P
  <2>1. x \in S <=> x \in T
    OBVIOUS
  <2>2. /\ Chosen(Append(t, x), S) = IF x \in S THEN Append(Chosen(t, S), x) ELSE Chosen(t, S)
        /\ Chosen(Append(t, x), T) = IF x \in T THEN Append(Chosen(t, T), x) ELSE Chosen(t, T)
    BY ChosenAppend
  <2>3. Chosen(t, S) = Chosen(t, T)
    BY <1>2
  <2>4. Chosen(Append(t, x), S) = Chosen(Append(t, x), T)
    BY <2>1, <2>2, <2>3
  <2>5. QED
    BY <2>4
<1>3. \A t \in Seq(X) : t \in P
  <2> HIDE DEF P
  <2>1. QED
    BY <1>1, <1>2, EverySeq
<1>4. QED
  BY <1>3

(* All elements, or none.                                                   *)
LEMMA ChosenNone ==
  ASSUME NEW X, NEW s \in Seq(X), NEW S, X \cap S = {}
  PROVE  Chosen(s, S) = <<>>
<1>1. Chosen(s, S) \in Seq(X \cap S)
  BY ChosenType
<1>2. QED
  BY <1>1

(* Choosing twice.                                                          *)
LEMMA ChosenTwice ==
  ASSUME NEW X, NEW s \in Seq(X), NEW S, NEW T
  PROVE  Chosen(Chosen(s, S), T) = Chosen(s, S \cap T)
<1> DEFINE P == {t \in Seq(X) : Chosen(Chosen(t, S), T) = Chosen(t, S \cap T)}
<1>1. <<>> \in P
  BY ChosenEmpty
<1>2. ASSUME NEW t \in Seq(X), NEW x \in X, t \in P PROVE Append(t, x) \in P
  <2>1. Chosen(t, S) \in Seq(X)
    BY ChosenType
  <2>2. Chosen(Append(t, x), S \cap T)
            = IF x \in S \cap T THEN Append(Chosen(t, S \cap T), x) ELSE Chosen(t, S \cap T)
    BY ChosenAppend
  <2>3. CASE x \in S
    <3>1. Chosen(Append(t, x), S) = Append(Chosen(t, S), x)
      BY <2>3, ChosenAppend
    <3>2. Chosen(Append(Chosen(t, S), x), T)
              = IF x \in T THEN Append(Chosen(Chosen(t, S), T), x) ELSE Chosen(Chosen(t, S), T)
      BY <2>1, ChosenAppend
    <3>3. Chosen(Chosen(t, S), T) = Chosen(t, S \cap T) /\ (x \in T <=> x \in S \cap T)
      BY <1>2, <2>3
    <3>4. Chosen(Chosen(Append(t, x), S), T) = Chosen(Append(t, x), S \cap T)
      BY <2>2, <3>1, <3>2, <3>3
    <3>5. QED
      BY <3>4
  <2>4. CASE x \notin S
    <3>1. Chosen(Append(t, x), S) = Chosen(t, S)
      BY <2>4, ChosenAppend
    <3>2. QED
      BY <1>2, <2>2, <2>4, <3>1
  <2>5. QED
    BY <2>3, <2>4
<1>3. \A t \in Seq(X) : t \in P
  <2> HIDE DEF P
  <2>1. QED
    BY <1>1, <1>2, EverySeq
<1>4. QED
  BY <1>3

(* An element appended to a concatenation.                                  *)
LEMMA AppendJoined ==
  ASSUME NEW X, NEW a \in Seq(X), NEW b \in Seq(X), NEW x \in X
  PROVE  a \o Append(b, x) = Append(a \o b, x)
OBVIOUS

(* Of a concatenation.                                                      *)
LEMMA ChosenJoined ==
  ASSUME NEW X, NEW s \in Seq(X), NEW t \in Seq(X), NEW S
  PROVE  Chosen(s \o t, S) = Chosen(s, S) \o Chosen(t, S)
<1> DEFINE P == {u \in Seq(X) : Chosen(s \o u, S) = Chosen(s, S) \o Chosen(u, S)}
<1>1. <<>> \in P
  <2>1. Chosen(s, S) \in Seq(X)
    BY ChosenType
  <2>2. s \o <<>> = s /\ Chosen(s, S) \o <<>> = Chosen(s, S)
    BY <2>1
  <2>3. Chosen(<<>>, S) = <<>>
    BY ChosenEmpty
  <2>4. Chosen(s \o <<>>, S) = Chosen(s, S) \o Chosen(<<>>, S)
    BY <2>2, <2>3
  <2>5. QED
    BY <2>4
<1>2. ASSUME NEW u \in Seq(X), NEW x \in X, u \in P PROVE Append(u, x) \in P
  <2>1. s \o Append(u, x) = Append(s \o u, x) /\ s \o u \in Seq(X)
    OBVIOUS
  <2>2. Chosen(Append(s \o u, x), S)
            = IF x \in S THEN Append(Chosen(s \o u, S), x) ELSE Chosen(s \o u, S)
    BY <2>1, ChosenAppend
  <2>3. Chosen(Append(u, x), S) = IF x \in S THEN Append(Chosen(u, S), x) ELSE Chosen(u, S)
    BY ChosenAppend
  <2> DEFINE v == Chosen(s, S)
             w == Chosen(u, S)
  <2>4. v \in Seq(X) /\ w \in Seq(X)
    BY ChosenType
  <2>5. Chosen(s \o u, S) = v \o w
    BY <1>2
  <2> HIDE DEF v, w
  <2>6. v \o Append(w, x) = Append(v \o w, x)
    BY <2>4, AppendJoined
  <2>7. Chosen(s \o Append(u, x), S) = v \o Chosen(Append(u, x), S)
    BY <2>1, <2>2, <2>3, <2>5, <2>6 DEF w
  <2>8. QED
    BY <2>7 DEF v
<1>3. \A u \in Seq(X) : u \in P
  <2> HIDE DEF P
  <2>1. QED
    BY <1>1, <1>2, EverySeq
<1>4. QED
  BY <1>3

(* What is chosen.                                                          *)
LEMMA ChosenElements ==
  ASSUME NEW X, NEW s \in Seq(X), NEW S
  PROVE  ToSet(Chosen(s, S)) = ToSet(s) \cap S
<1> DEFINE P == {t \in Seq(X) : ToSet(Chosen(t, S)) = ToSet(t) \cap S}
<1>1. <<>> \in P
  BY ChosenEmpty DEF ToSet
<1>2. ASSUME NEW t \in Seq(X), NEW x \in X, t \in P PROVE Append(t, x) \in P
  <2>1. Chosen(t, S) \in Seq(X)
    BY ChosenType
  <2>2. \A u \in Seq(X) : ToSet(Append(u, x)) = ToSet(u) \cup {x}
    <3>1. ASSUME NEW u \in Seq(X) PROVE ToSet(Append(u, x)) = ToSet(u) \cup {x}
      <4>1. /\ DOMAIN Append(u, x) = DOMAIN u \cup {Len(u) + 1}
            /\ Append(u, x)[Len(u) + 1] = x
            /\ \A i \in DOMAIN u : Append(u, x)[i] = u[i]
        OBVIOUS
      <4>2. QED
        BY <4>1 DEF ToSet
    <3>2. QED
      BY <3>1
  <2>3. Chosen(Append(t, x), S) = IF x \in S THEN Append(Chosen(t, S), x) ELSE Chosen(t, S)
    BY ChosenAppend
  <2>4. ToSet(Append(t, x)) = ToSet(t) \cup {x}
    BY <2>2
  <2>5. ToSet(Append(Chosen(t, S), x)) = ToSet(Chosen(t, S)) \cup {x}
    BY <2>1, <2>2
  <2>6. ToSet(Chosen(t, S)) = ToSet(t) \cap S
    BY <1>2
  <2>7. ToSet(Chosen(Append(t, x), S)) = ToSet(Append(t, x)) \cap S
    <3>1. CASE x \in S
      BY <2>3, <2>4, <2>5, <2>6, <3>1
    <3>2. CASE x \notin S
      BY <2>3, <2>4, <2>6, <3>2
    <3>3. QED
      BY <3>1, <3>2
  <2>8. QED
    BY <2>7
<1>3. \A t \in Seq(X) : t \in P
  <2> HIDE DEF P
  <2>1. QED
    BY <1>1, <1>2, EverySeq
<1>4. QED
  BY <1>3

(* A list without repetition.                                               *)
Once(s) == \A i, j \in DOMAIN s : s[i] = s[j] => i = j

LEMMA OnceAppend ==
  ASSUME NEW X, NEW s \in Seq(X), NEW x \in X
  PROVE  Once(Append(s, x)) <=> Once(s) /\ x \notin ToSet(s)
<1> DEFINE t == Append(s, x)
           n == Len(s)
<1>1. /\ n \in Nat /\ DOMAIN s = 1 .. n /\ DOMAIN t = 1 .. n + 1
      /\ t[n + 1] = x /\ \A i \in 1 .. n : t[i] = s[i]
  OBVIOUS
<1>2. n + 1 \notin 1 .. n /\ DOMAIN t = 1 .. n \cup {n + 1}
  BY <1>1
<1> HIDE DEF t, n
<1>3. ASSUME Once(t) PROVE Once(s) /\ x \notin ToSet(s)
  BY <1>1, <1>2, <1>3 DEF Once, ToSet
<1>4. ASSUME Once(s), x \notin ToSet(s) PROVE Once(t)
  BY <1>1, <1>2, <1>4 DEF Once, ToSet
<1>5. QED
  BY <1>3, <1>4 DEF t

LEMMA ChosenOnce ==
  ASSUME NEW X, NEW s \in Seq(X), NEW S, Once(s)
  PROVE  Once(Chosen(s, S))
<1> DEFINE P == {t \in Seq(X) : Once(t) => Once(Chosen(t, S))}
<1>1. <<>> \in P
  BY ChosenEmpty DEF Once
<1>2. ASSUME NEW t \in Seq(X), NEW x \in X, t \in P PROVE Append(t, x) \in P
  <2>1. ASSUME Once(Append(t, x)) PROVE Once(Chosen(Append(t, x), S))
    <3>1. Once(t) /\ x \notin ToSet(t)
      BY <2>1, OnceAppend
    <3>2. Once(Chosen(t, S)) /\ Chosen(t, S) \in Seq(X) /\ x \notin ToSet(Chosen(t, S))
      BY <1>2, <3>1, ChosenType, ChosenElements
    <3>3. Once(Append(Chosen(t, S), x))
      BY <3>2, OnceAppend
    <3>4. QED
      BY <3>2, <3>3, ChosenAppend
  <2>2. QED
    BY <2>1
<1>3. \A t \in Seq(X) : t \in P
  <2> HIDE DEF P
  <2>1. QED
    BY <1>1, <1>2, EverySeq
<1>4. QED
  BY <1>3

----------------------------------------------------------------------------
(* Powers of two and divisions                                              *)

(* The powers of two a key needs; the provers know them as numerals only.    *)
LEMMA Powers ==
  /\ 2 ^ 0 = 1
  /\ \A k \in 0 .. 22 : 2 ^ k \in Nat /\ 2 ^ k >= 1
  /\ \A k \in 0 .. 21 : 2 ^ (k + 1) = 2 * 2 ^ k
<1>1. ASSUME NEW k \in 0 .. 10 PROVE 2 ^ k \in Nat /\ 2 ^ k >= 1 /\ 2 ^ (k + 1) = 2 * 2 ^ k
  <2>0. CASE k = 0
    BY <2>0
  <2>1. CASE k = 1
    BY <2>1
  <2>2. CASE k = 2
    BY <2>2
  <2>3. CASE k = 3
    BY <2>3
  <2>4. CASE k = 4
    BY <2>4
  <2>5. CASE k = 5
    BY <2>5
  <2>6. CASE k = 6
    BY <2>6
  <2>7. CASE k = 7
    BY <2>7
  <2>8. CASE k = 8
    BY <2>8
  <2>9. CASE k = 9
    BY <2>9
  <2>10. CASE k = 10
    BY <2>10
  <2>11. QED
    BY <2>0, <2>1, <2>2, <2>3, <2>4, <2>5, <2>6, <2>7, <2>8, <2>9, <2>10
<1>2. ASSUME NEW k \in 11 .. 21 PROVE 2 ^ k \in Nat /\ 2 ^ k >= 1 /\ 2 ^ (k + 1) = 2 * 2 ^ k
  <2>0. CASE k = 11
    BY <2>0
  <2>1. CASE k = 12
    BY <2>1
  <2>2. CASE k = 13
    BY <2>2
  <2>3. CASE k = 14
    BY <2>3
  <2>4. CASE k = 15
    BY <2>4
  <2>5. CASE k = 16
    BY <2>5
  <2>6. CASE k = 17
    BY <2>6
  <2>7. CASE k = 18
    BY <2>7
  <2>8. CASE k = 19
    BY <2>8
  <2>9. CASE k = 20
    BY <2>9
  <2>10. CASE k = 21
    BY <2>10
  <2>11. QED
    BY <2>0, <2>1, <2>2, <2>3, <2>4, <2>5, <2>6, <2>7, <2>8, <2>9, <2>10
<1>3. ASSUME NEW k \in 0 .. 22, k = 22 PROVE 2 ^ k \in Nat /\ 2 ^ k >= 1
  BY <1>3
<1>4. 2 ^ 0 = 1
  OBVIOUS
<1>5. \A k \in 0 .. 21 : k \in 0 .. 10 \/ k \in 11 .. 21
  OBVIOUS
<1>6. \A k \in 0 .. 21 : 2 ^ k \in Nat /\ 2 ^ k >= 1 /\ 2 ^ (k + 1) = 2 * 2 ^ k
  BY <1>1, <1>2, <1>5
<1>7. \A k \in 0 .. 22 : k \in 0 .. 21 \/ k = 22
  OBVIOUS
<1>8. QED
  BY <1>3, <1>4, <1>6, <1>7

(* Exponents add up.                                                        *)
LEMMA PowerSum ==
  ASSUME NEW a \in Nat, NEW b \in Nat, a + b <= 22
  PROVE  2 ^ (a + b) = 2 ^ a * 2 ^ b
<1> DEFINE P == {n \in Nat : a + n <= 22 => 2 ^ (a + n) = 2 ^ a * 2 ^ n}
<1>1. 0 \in P
  <2>1. ASSUME a <= 22 PROVE 2 ^ (a + 0) = 2 ^ a * 2 ^ 0
    <3>1. a \in 0 .. 22 /\ a + 0 = a
      BY <2>1
    <3>2. 2 ^ a \in Nat /\ 2 ^ 0 = 1
      BY <3>1, Powers
    <3>3. QED
      BY <3>1, <3>2
  <2>2. QED
    BY <2>1
<1>2. ASSUME NEW n \in Nat, n \in P PROVE n + 1 \in P
  <2>1. ASSUME a + (n + 1) <= 22 PROVE 2 ^ (a + (n + 1)) = 2 ^ a * 2 ^ (n + 1)
    <3>1. 2 ^ (a + n) = 2 ^ a * 2 ^ n
      BY <1>2, <2>1
    <3>2. 2 ^ ((a + n) + 1) = 2 * 2 ^ (a + n) /\ 2 ^ (n + 1) = 2 * 2 ^ n
      <4>1. a + n \in 0 .. 21 /\ n \in 0 .. 21
        BY <2>1
      <4>2. QED
        BY <4>1, Powers
    <3>3. a + (n + 1) = (a + n) + 1
      OBVIOUS
    <3>4. 2 ^ a \in Nat /\ 2 ^ n \in Nat
      <4>1. a \in 0 .. 22 /\ n \in 0 .. 22
        BY <2>1
      <4>2. QED
        BY <4>1, Powers
    <3>5. 2 ^ (a + (n + 1)) = 2 * (2 ^ a * 2 ^ n)
      BY <3>1, <3>2, <3>3
    <3>6. 2 ^ a * (2 * 2 ^ n) = 2 * (2 ^ a * 2 ^ n)
      BY <3>4
    <3>7. QED
      BY <3>2, <3>5, <3>6
  <2>2. QED
    BY <2>1
<1>3. \A n \in Nat : n \in P
  <2> HIDE DEF P
  <2>1. QED
    BY <1>1, <1>2, EveryNat
<1>4. QED
  BY <1>3

(* Quotient and remainder are unique.                                       *)
LEMMA Division ==
  ASSUME NEW m \in Nat, m >= 1, NEW q \in Int, NEW r \in 0 .. m - 1
  PROVE  (q * m + r) \div m = q /\ (q * m + r) % m = r
  OBVIOUS

LEMMA Divided ==
  ASSUME NEW m \in Nat, m >= 1, NEW x \in Int
  PROVE  x \div m \in Int /\ x % m \in 0 .. m - 1 /\ x = (x \div m) * m + (x % m)
  OBVIOUS

LEMMA DividedNat ==
  ASSUME NEW m \in Nat, m >= 1, NEW x \in Nat
  PROVE  x \div m \in Nat
  OBVIOUS

LEMMA DividedTwice ==
  ASSUME NEW a \in Nat, a >= 1, NEW b \in Nat, b >= 1, NEW x \in Nat
  PROVE  (x \div a) \div b = x \div (a * b)
  OBVIOUS

----------------------------------------------------------------------------
(* The numbers of the trees                                                 *)

Bit(x, k) == (x \div 2 ^ k) % 2

(* Every w-th bit of x from bit k on, n of them.                             *)
Slice(x, w, k, n) == Total([j \in 0 .. n - 1 |-> ((x \div 2 ^ (w * j + k)) % 2) * 2 ^ j], 0 .. n - 1)

(* The sum, one more bit at a time.                                         *)
LEMMA SliceGrows ==
  ASSUME NEW x \in Nat, NEW w \in 1 .. 3, NEW k \in 0 .. w - 1, NEW n \in Nat, w * n + k <= 22
  PROVE  /\ Slice(x, w, k, 0) = 0
         /\ Slice(x, w, k, n) \in Nat
         /\ w * n + w <= 22 => Slice(x, w, k, n + 1) = Slice(x, w, k, n) + Bit(x, w * n + k) * 2 ^ n
<1> DEFINE f(m) == [j \in 0 .. m - 1 |-> ((x \div 2 ^ (w * j + k)) % 2) * 2 ^ j]
<1>1. ASSUME NEW m \in Nat, w * m + k <= 22 + w
      PROVE  /\ IsFiniteSet(0 .. m - 1)
             /\ \A j \in 0 .. m - 1 : f(m)[j] \in Nat /\ f(m)[j] = Bit(x, w * j + k) * 2 ^ j
  <2>1. IsFiniteSet(0 .. m - 1)
    BY FS_Interval
  <2>2. ASSUME NEW j \in 0 .. m - 1
        PROVE  f(m)[j] \in Nat /\ f(m)[j] = Bit(x, w * j + k) * 2 ^ j
    <3>1. w * j + k \in 0 .. 22 /\ j \in 0 .. 22
      <4>1. CASE w = 1
        BY <1>1, <4>1
      <4>2. CASE w = 2
        BY <1>1, <4>2
      <4>3. CASE w = 3
        BY <1>1, <4>3
      <4>4. QED
        BY <4>1, <4>2, <4>3
    <3>2. 2 ^ (w * j + k) \in Nat /\ 2 ^ (w * j + k) >= 1 /\ 2 ^ j \in Nat
      BY <3>1, Powers
    <3>3. (x \div 2 ^ (w * j + k)) % 2 \in {0, 1}
      BY <3>2
    <3>4. ((x \div 2 ^ (w * j + k)) % 2) * 2 ^ j \in Nat
      BY <3>2, <3>3
    <3>5. QED
      BY <3>4 DEF Bit
  <2>3. QED
    BY <2>1, <2>2
<1>2. Slice(x, w, k, 0) = 0
  <2>1. 0 .. 0 - 1 = {} /\ w * 0 + k <= 22 + w
    OBVIOUS
  <2>2. IsFiniteSet(0 .. 0 - 1) /\ \A j \in 0 .. 0 - 1 : f(0)[j] \in Nat
    BY <1>1, <2>1
  <2> HIDE DEF f
  <2>3. Total(f(0), 0 .. 0 - 1) = 0
    BY <2>1, <2>2, TotalStep
  <2>4. QED
    BY <2>3 DEF f, Slice
<1>3. Slice(x, w, k, n) \in Nat
  <2>0. w * n + k <= 22 + w
    OBVIOUS
  <2>1. IsFiniteSet(0 .. n - 1) /\ \A j \in 0 .. n - 1 : f(n)[j] \in Nat
    <3> HIDE DEF f
    <3>1. QED
      BY <1>1, <2>0
  <2> HIDE DEF f
  <2>2. Total(f(n), 0 .. n - 1) \in Nat
    BY <2>1, TotalStep
  <2>3. QED
    BY <2>2 DEF f, Slice
<1>4. ASSUME w * n + w <= 22
      PROVE  Slice(x, w, k, n + 1) = Slice(x, w, k, n) + Bit(x, w * n + k) * 2 ^ n
  <2>1. n + 1 \in Nat /\ w * (n + 1) + k <= 22 + w
    BY <1>4
  <2>2. /\ IsFiniteSet(0 .. (n + 1) - 1)
        /\ \A j \in 0 .. (n + 1) - 1 : /\ f(n + 1)[j] \in Nat
                                       /\ f(n + 1)[j] = Bit(x, w * j + k) * 2 ^ j
    BY <1>1, <2>1
  <2>3. /\ IsFiniteSet(0 .. n - 1)
        /\ \A j \in 0 .. n - 1 : /\ f(n)[j] \in Nat
                                 /\ f(n)[j] = Bit(x, w * j + k) * 2 ^ j
    <3>1. w * n + k <= 22 + w
      OBVIOUS
    <3> HIDE DEF f
    <3>2. QED
      BY <1>1, <3>1
  <2>4. n \in 0 .. (n + 1) - 1 /\ (0 .. (n + 1) - 1) \ {n} = 0 .. n - 1
    OBVIOUS
  <2> HIDE DEF f
  <2>5. Total(f(n + 1), 0 .. (n + 1) - 1)
          = f(n + 1)[n] + Total(f(n + 1), (0 .. (n + 1) - 1) \ {n})
    BY <2>2, <2>4, TotalStep
  <2>6. \A j \in 0 .. n - 1 : f(n)[j] \in Nat /\ f(n + 1)[j] = f(n)[j]
    BY <2>2, <2>3, <2>4
  <2>7. Total(f(n), 0 .. n - 1) = Total(f(n + 1), 0 .. n - 1)
    BY <2>3, <2>6, TotalSame
  <2>8. f(n + 1)[n] = Bit(x, w * n + k) * 2 ^ n /\ f(n + 1)[n] \in Nat
    BY <2>2, <2>4
  <2>9. Total(f(n + 1), 0 .. (n + 1) - 1) = Bit(x, w * n + k) * 2 ^ n + Total(f(n), 0 .. n - 1)
    BY <2>4, <2>5, <2>7, <2>8
  <2>10. Total(f(n), 0 .. n - 1) \in Nat
    BY <2>3, TotalStep
  <2>11. QED
    BY <2>8, <2>9, <2>10 DEF f, Slice
<1>5. QED
  BY <1>2, <1>3, <1>4

(* The sum, the lowest bit first.                                           *)
LEMMA SlicePeeled ==
  ASSUME NEW w \in 1 .. 3, NEW k \in 0 .. w - 1, NEW n \in Nat, w * n + w <= 22, NEW x \in Nat
  PROVE  Slice(x, w, k, n + 1) = Bit(x, k) + 2 * Slice(x \div 2 ^ w, w, k, n)
<1> DEFINE y == x \div 2 ^ w
<1>0. 2 ^ w \in Nat /\ 2 ^ w >= 1 /\ y \in Nat
  <2>1. w \in 0 .. 22
    OBVIOUS
  <2>2. 2 ^ w \in Nat /\ 2 ^ w >= 1
    BY <2>1, Powers
  <2>3. QED
    BY <2>2
<1> DEFINE P == {m \in Nat : w * m + w <= 22 =>
                     Slice(x, w, k, m + 1) = Bit(x, k) + 2 * Slice(y, w, k, m)}
<1>1. 0 \in P
  <2>0. w * 0 + w <= 22 /\ w * 0 + k <= 22 /\ 0 \in Nat
    OBVIOUS
  <2>1. /\ Slice(x, w, k, 0) = 0
        /\ Slice(x, w, k, 0 + 1) = Slice(x, w, k, 0) + Bit(x, w * 0 + k) * 2 ^ 0
    BY <2>0, SliceGrows
  <2>2. Slice(y, w, k, 0) = 0
    <3> HIDE DEF y
    <3>1. QED
      BY <1>0, <2>0, SliceGrows
  <2>3. w * 0 + k = k /\ 2 ^ 0 = 1
    OBVIOUS
  <2>4. Bit(x, k) \in Nat
    <3>1. 2 ^ k \in Nat /\ 2 ^ k >= 1
      <4>1. k \in 0 .. 22
        OBVIOUS
      <4>2. QED
        BY <4>1, Powers
    <3>2. QED
      BY <3>1 DEF Bit
  <2>5. QED
    BY <2>1, <2>2, <2>3, <2>4
<1>2. ASSUME NEW m \in Nat, m \in P PROVE m + 1 \in P
  <2>1. ASSUME w * (m + 1) + w <= 22
        PROVE  Slice(x, w, k, (m + 1) + 1) = Bit(x, k) + 2 * Slice(y, w, k, m + 1)
    <3>1. /\ w * m + w <= 22 /\ w * m + k <= 22 /\ w * (m + 1) + k <= 22 /\ w * (m + 1) + k = w + (w * m + k)
          /\ w * m + k \in 0 .. 22 /\ k \in 0 .. 22 /\ m \in 0 .. 21 /\ w * m + k \in Nat
      <4>1. CASE w = 1
        BY <2>1, <4>1
      <4>2. CASE w = 2
        BY <2>1, <4>2
      <4>3. CASE w = 3
        BY <2>1, <4>3
      <4>4. QED
        BY <4>1, <4>2, <4>3
    <3>2. Slice(x, w, k, (m + 1) + 1) = Slice(x, w, k, m + 1) + Bit(x, w * (m + 1) + k) * 2 ^ (m + 1)
      <4>1. m + 1 \in Nat
        OBVIOUS
      <4>2. QED
        BY <2>1, <3>1, <4>1, SliceGrows
    <3> HIDE DEF y
    <3>3. Slice(y, w, k, m + 1) = Slice(y, w, k, m) + Bit(y, w * m + k) * 2 ^ m
      BY <1>0, <3>1, SliceGrows, ZenonT(40)
    <3>4. Slice(x, w, k, m + 1) = Bit(x, k) + 2 * Slice(y, w, k, m)
      BY <1>2, <3>1
    <3>5. 2 ^ (w * m + k) \in Nat /\ 2 ^ (w * m + k) >= 1 /\ 2 ^ k \in Nat /\ 2 ^ k >= 1
          /\ 2 ^ m \in Nat /\ 2 ^ (m + 1) = 2 * 2 ^ m
      <4>1. m \in 0 .. 22
        BY <3>1
      <4>2. QED
        BY <3>1, <4>1, Powers
    <3>6. Bit(y, w * m + k) = Bit(x, w * (m + 1) + k) /\ Bit(y, w * m + k) \in {0, 1}
      <4>1. 2 ^ (w + (w * m + k)) = 2 ^ w * 2 ^ (w * m + k)
        BY <2>1, <3>1, PowerSum
      <4>2. y \div 2 ^ (w * m + k) = x \div (2 ^ w * 2 ^ (w * m + k))
        BY <1>0, <3>5, DividedTwice DEF y
      <4>3. y \div 2 ^ (w * m + k) = x \div 2 ^ (w * (m + 1) + k)
        BY <3>1, <4>1, <4>2
      <4>4. y \div 2 ^ (w * m + k) \in Int
        BY <1>0, <3>5
      <4>5. \A z \in Int : z % 2 \in {0, 1}
        OBVIOUS
      <4>6. (y \div 2 ^ (w * m + k)) % 2 \in {0, 1}
        BY <4>4, <4>5
      <4>7. (y \div 2 ^ (w * m + k)) % 2 = (x \div 2 ^ (w * (m + 1) + k)) % 2
        BY <4>3, Zenon
      <4>8. QED
        BY <4>6, <4>7 DEF Bit
    <3>7. Bit(x, k) \in Nat
      BY <3>5 DEF Bit
    <3>8. Slice(y, w, k, m) \in Nat
      BY <1>0, <3>1, SliceGrows
    <3>9. QED
      BY <3>2, <3>3, <3>4, <3>5, <3>6, <3>7, <3>8
  <2>2. QED
    BY <2>1
<1>3. \A m \in Nat : m \in P
  <2> HIDE DEF P
  <2>1. QED
    BY <1>1, <1>2, EveryNat
<1>4. QED
  BY <1>3

(* The lowest bits of a number and the rest of it.                          *)
LEMMA LowBits ==
  ASSUME NEW w \in 1 .. 3
  PROVE  /\ \A x, y \in Nat : (\A k \in 0 .. w - 1 : Bit(x, k) = Bit(y, k)) /\ x \div 2 ^ w = y \div 2 ^ w
                                  => x = y
         /\ \A q \in Nat : \A b \in [0 .. w - 1 -> {0, 1}] :
               \E x \in Nat : x \div 2 ^ w = q /\ \A k \in 0 .. w - 1 : Bit(x, k) = b[k]
         /\ \A x \in Nat : \A k \in 0 .. w - 1 : Bit(x, k) \in {0, 1}
         /\ \A x \in Nat : x \div 2 ^ w \in Nat
<1> DEFINE Same   == \A x, y \in Nat : (\A k \in 0 .. w - 1 : Bit(x, k) = Bit(y, k))
                                      /\ x \div 2 ^ w = y \div 2 ^ w => x = y
           Exist  == \A q \in Nat : \A b \in [0 .. w - 1 -> {0, 1}] :
                        \E x \in Nat : x \div 2 ^ w = q /\ \A k \in 0 .. w - 1 : Bit(x, k) = b[k]
           Binary == \A x \in Nat : \A k \in 0 .. w - 1 : Bit(x, k) \in {0, 1}
           Rest   == \A x \in Nat : x \div 2 ^ w \in Nat
<1>0. 2 ^ 0 = 1 /\ 2 ^ 1 = 2 /\ 2 ^ 2 = 4 /\ 2 ^ 3 = 8
  OBVIOUS
<1>1. ASSUME w = 1 PROVE Same /\ Exist /\ Binary /\ Rest
  <2>1. 0 .. w - 1 = {0} /\ 2 ^ w = 2
    BY <1>1
  <2>2. Same
    <3>1. \A x, y \in Nat : Bit(x, 0) = Bit(y, 0)
                           /\ x \div 2 = y \div 2 => x = y
      BY <1>0 DEF Bit
    <3>2. QED
      BY <2>1, <3>1
  <2>3. Exist
    <3>1. ASSUME NEW q \in Nat, NEW b \in [0 .. w - 1 -> {0, 1}]
          PROVE  \E x \in Nat : x \div 2 ^ w = q /\ \A k \in 0 .. w - 1 : Bit(x, k) = b[k]
      <4>1. b[0] \in {0, 1}
        BY <2>1
      <4>2. \A b0 \in {0, 1} : \E x \in Nat : x = 2 * q + b0
        OBVIOUS
      <4>3. \A b0 \in {0, 1} : \A x \in Nat : x = 2 * q + b0
               => x \div 2 = q /\ Bit(x, 0) = b0
        BY <1>0 DEF Bit
      <4>4. \E x \in Nat : x \div 2 = q /\ Bit(x, 0) = b[0]
        BY <4>1, <4>2, <4>3
      <4>5. QED
        BY <2>1, <4>4
    <3>2. QED
      BY <3>1
  <2>4. Binary /\ Rest
    <3>1. \A x \in Nat : Bit(x, 0) \in {0, 1}
                        /\ x \div 2 \in Nat
      BY <1>0 DEF Bit
    <3>2. QED
      BY <2>1, <3>1
  <2> HIDE DEF Same, Exist, Binary, Rest
  <2>5. QED
    BY <2>2, <2>3, <2>4
<1>2. ASSUME w = 2 PROVE Same /\ Exist /\ Binary /\ Rest
  <2>1. 0 .. w - 1 = {0, 1} /\ 2 ^ w = 4
    BY <1>2
  <2>2. Same
    <3>1. \A x, y \in Nat : Bit(x, 0) = Bit(y, 0) /\ Bit(x, 1) = Bit(y, 1)
                           /\ x \div 4 = y \div 4 => x = y
      BY <1>0 DEF Bit
    <3>2. QED
      BY <2>1, <3>1
  <2>3. Exist
    <3>1. ASSUME NEW q \in Nat, NEW b \in [0 .. w - 1 -> {0, 1}]
          PROVE  \E x \in Nat : x \div 2 ^ w = q /\ \A k \in 0 .. w - 1 : Bit(x, k) = b[k]
      <4>1. b[0] \in {0, 1} /\ b[1] \in {0, 1}
        BY <2>1
      <4>2. \A b0, b1 \in {0, 1} : \E x \in Nat : x = 4 * q + 2 * b1 + b0
        OBVIOUS
      <4>3. \A b0, b1 \in {0, 1} : \A x \in Nat : x = 4 * q + 2 * b1 + b0
               => x \div 4 = q /\ Bit(x, 0) = b0 /\ Bit(x, 1) = b1
        BY <1>0 DEF Bit
      <4>4. \E x \in Nat : x \div 4 = q /\ Bit(x, 0) = b[0] /\ Bit(x, 1) = b[1]
        BY <4>1, <4>2, <4>3
      <4>5. QED
        BY <2>1, <4>4
    <3>2. QED
      BY <3>1
  <2>4. Binary /\ Rest
    <3>1. \A x \in Nat : Bit(x, 0) \in {0, 1} /\ Bit(x, 1) \in {0, 1}
                        /\ x \div 4 \in Nat
      BY <1>0 DEF Bit
    <3>2. QED
      BY <2>1, <3>1
  <2> HIDE DEF Same, Exist, Binary, Rest
  <2>5. QED
    BY <2>2, <2>3, <2>4
<1>3. ASSUME w = 3 PROVE Same /\ Exist /\ Binary /\ Rest
  <2>1. 0 .. w - 1 = {0, 1, 2} /\ 2 ^ w = 8
    BY <1>3
  <2>2. Same
    <3>1. \A x, y \in Nat : Bit(x, 0) = Bit(y, 0) /\ Bit(x, 1) = Bit(y, 1) /\ Bit(x, 2) = Bit(y, 2)
                           /\ x \div 8 = y \div 8 => x = y
      BY <1>0 DEF Bit
    <3>2. QED
      BY <2>1, <3>1
  <2>3. Exist
    <3>1. ASSUME NEW q \in Nat, NEW b \in [0 .. w - 1 -> {0, 1}]
          PROVE  \E x \in Nat : x \div 2 ^ w = q /\ \A k \in 0 .. w - 1 : Bit(x, k) = b[k]
      <4>1. b[0] \in {0, 1} /\ b[1] \in {0, 1} /\ b[2] \in {0, 1}
        BY <2>1
      <4>2. \A b0, b1, b2 \in {0, 1} : \E x \in Nat : x = 8 * q + 4 * b2 + 2 * b1 + b0
        OBVIOUS
      <4>3. \A b0, b1, b2 \in {0, 1} : \A x \in Nat : x = 8 * q + 4 * b2 + 2 * b1 + b0
               => x \div 8 = q /\ Bit(x, 0) = b0 /\ Bit(x, 1) = b1 /\ Bit(x, 2) = b2
        BY <1>0 DEF Bit
      <4>4. \E x \in Nat : x \div 8 = q /\ Bit(x, 0) = b[0] /\ Bit(x, 1) = b[1] /\ Bit(x, 2) = b[2]
        BY <4>1, <4>2, <4>3
      <4>5. QED
        BY <2>1, <4>4
    <3>2. QED
      BY <3>1
  <2>4. Binary /\ Rest
    <3>1. \A x \in Nat : Bit(x, 0) \in {0, 1} /\ Bit(x, 1) \in {0, 1} /\ Bit(x, 2) \in {0, 1}
                        /\ x \div 8 \in Nat
      BY <1>0 DEF Bit
    <3>2. QED
      BY <2>1, <3>1
  <2> HIDE DEF Same, Exist, Binary, Rest
  <2>5. QED
    BY <2>2, <2>3, <2>4
<1>4. Same /\ Exist /\ Binary /\ Rest
  <2> HIDE DEF Same, Exist, Binary, Rest
  <2>1. QED
    BY <1>1, <1>2, <1>3
<1>5. QED
  BY <1>4

(* A number is given by its slices and what is left of it.                  *)
LEMMA SlicesSame ==
  ASSUME NEW w \in 1 .. 3, NEW n \in Nat, w * n <= 22, NEW x \in Nat, NEW y \in Nat,
         \A k \in 0 .. w - 1 : Slice(x, w, k, n) = Slice(y, w, k, n),
         x \div 2 ^ (w * n) = y \div 2 ^ (w * n)
  PROVE  x = y
<1> DEFINE P == {m \in Nat : w * m <= 22 =>
                   \A u, v \in Nat :
                     (\A k \in 0 .. w - 1 : Slice(u, w, k, m) = Slice(v, w, k, m))
                     /\ u \div 2 ^ (w * m) = v \div 2 ^ (w * m) => u = v}
<1>1. 0 \in P
  <2>1. \A u \in Nat : u \div 2 ^ (w * 0) = u
    <3>1. w * 0 = 0 /\ 2 ^ 0 = 1
      OBVIOUS
    <3>2. \A u \in Nat : u \div 1 = u
      OBVIOUS
    <3>3. 2 ^ (w * 0) = 1
      BY <3>1
    <3>4. QED
      BY <3>2, <3>3
  <2>2. QED
    BY <2>1
<1>2. ASSUME NEW m \in Nat, m \in P PROVE m + 1 \in P
  <2>1. ASSUME w * (m + 1) <= 22, NEW u \in Nat, NEW v \in Nat,
               \A k \in 0 .. w - 1 : Slice(u, w, k, m + 1) = Slice(v, w, k, m + 1),
               u \div 2 ^ (w * (m + 1)) = v \div 2 ^ (w * (m + 1))
        PROVE  u = v
    <3> DEFINE a == u \div 2 ^ w
               b == v \div 2 ^ w
    <3>1. w * m + w <= 22 /\ w * m <= 22 /\ w * (m + 1) = w + w * m /\ w * m \in 0 .. 22 /\ w \in 0 .. 22
      <4>1. CASE w = 1
        BY <2>1, <4>1
      <4>2. CASE w = 2
        BY <2>1, <4>2
      <4>3. CASE w = 3
        BY <2>1, <4>3
      <4>4. QED
        BY <4>1, <4>2, <4>3
    <3>2. a \in Nat /\ b \in Nat
      BY LowBits
    <3>3. \A k \in 0 .. w - 1 : Bit(u, k) = Bit(v, k) /\ Slice(a, w, k, m) = Slice(b, w, k, m)
      <4>1. ASSUME NEW k \in 0 .. w - 1
            PROVE  Bit(u, k) = Bit(v, k) /\ Slice(a, w, k, m) = Slice(b, w, k, m)
        <5>1. Slice(u, w, k, m + 1) = Bit(u, k) + 2 * Slice(a, w, k, m)
          BY <3>1, SlicePeeled
        <5>2. Slice(v, w, k, m + 1) = Bit(v, k) + 2 * Slice(b, w, k, m)
          BY <3>1, SlicePeeled
        <5>3. Bit(u, k) \in {0, 1} /\ Bit(v, k) \in {0, 1}
          BY LowBits
        <5> HIDE DEF a, b
        <5>4. w * m + k <= 22
          BY <3>1
        <5>5. Slice(a, w, k, m) \in Nat /\ Slice(b, w, k, m) \in Nat
          BY <3>2, <5>4, SliceGrows
        <5>6. QED
          BY <2>1, <5>1, <5>2, <5>3, <5>5
      <4>2. QED
        BY <4>1
    <3>4. a \div 2 ^ (w * m) = b \div 2 ^ (w * m)
      <4>1. 2 ^ w \in Nat /\ 2 ^ w >= 1 /\ 2 ^ (w * m) \in Nat /\ 2 ^ (w * m) >= 1
        BY <3>1, Powers
      <4>2. 2 ^ (w + w * m) = 2 ^ w * 2 ^ (w * m)
        BY <3>1, PowerSum
      <4>3. /\ a \div 2 ^ (w * m) = u \div (2 ^ w * 2 ^ (w * m))
            /\ b \div 2 ^ (w * m) = v \div (2 ^ w * 2 ^ (w * m))
        BY <4>1, DividedTwice
      <4>4. u \div (2 ^ w * 2 ^ (w * m)) = v \div (2 ^ w * 2 ^ (w * m))
        BY <2>1, <3>1, <4>2, Zenon
      <4>5. QED
        BY <4>3, <4>4, Zenon
    <3>5. a = b
      <4> HIDE DEF a, b
      <4>1. QED
        BY <1>2, <3>1, <3>2, <3>3, <3>4
    <3>6. \A p, r \in Nat : (\A k \in 0 .. w - 1 : Bit(p, k) = Bit(r, k)) /\ p \div 2 ^ w = r \div 2 ^ w
                            => p = r
      BY LowBits
    <3>7. QED
      BY <3>3, <3>5, <3>6
  <2>2. QED
    BY <2>1
<1>3. \A m \in Nat : m \in P
  <2> HIDE DEF P
  <2>1. QED
    BY <1>1, <1>2, EveryNat
<1>4. QED
  BY <1>3

(* Whatever the slices and the rest, some number has them.                  *)
LEMMA SlicesExist ==
  ASSUME NEW w \in 1 .. 3, NEW n \in Nat, w * n <= 22,
         NEW c \in [0 .. w - 1 -> 0 .. 2 ^ n - 1], NEW q \in Nat
  PROVE  \E x \in Nat : x \div 2 ^ (w * n) = q /\ \A k \in 0 .. w - 1 : Slice(x, w, k, n) = c[k]
<1> DEFINE P == {m \in Nat : w * m <= 22 =>
                   \A s \in [0 .. w - 1 -> 0 .. 2 ^ m - 1] :
                     \E x \in Nat : x \div 2 ^ (w * m) = q
                                    /\ \A k \in 0 .. w - 1 : Slice(x, w, k, m) = s[k]}
<1>1. 0 \in P
  <2>1. ASSUME NEW s \in [0 .. w - 1 -> 0 .. 2 ^ 0 - 1]
        PROVE  \E x \in Nat : x \div 2 ^ (w * 0) = q /\ \A k \in 0 .. w - 1 : Slice(x, w, k, 0) = s[k]
    <3>1. w * 0 = 0 /\ 2 ^ 0 = 1 /\ q \div 1 = q /\ 0 \in Nat
      OBVIOUS
    <3>2. 2 ^ (w * 0) = 1
      BY <3>1
    <3>3. q \div 2 ^ (w * 0) = q
      BY <3>1, <3>2
    <3>4. \A k \in 0 .. w - 1 : s[k] = 0
      BY <3>1
    <3>5. \A k \in 0 .. w - 1 : w * 0 + k <= 22
      BY <3>1
    <3>6. \A k \in 0 .. w - 1 : Slice(q, w, k, 0) = 0
      BY <3>1, <3>5, SliceGrows
    <3>7. QED
      BY <3>3, <3>4, <3>6
  <2>2. QED
    BY <2>1
<1>2. ASSUME NEW m \in Nat, m \in P PROVE m + 1 \in P
  <2>1. ASSUME w * (m + 1) <= 22, NEW s \in [0 .. w - 1 -> 0 .. 2 ^ (m + 1) - 1]
        PROVE  \E x \in Nat : x \div 2 ^ (w * (m + 1)) = q
                              /\ \A k \in 0 .. w - 1 : Slice(x, w, k, m + 1) = s[k]
    <3>1. w * m + w <= 22 /\ w * m <= 22 /\ w * (m + 1) = w + w * m /\ w * m \in 0 .. 22 /\ w \in 0 .. 22
          /\ m \in 0 .. 21
      <4>1. CASE w = 1
        BY <2>1, <4>1
      <4>2. CASE w = 2
        BY <2>1, <4>2
      <4>3. CASE w = 3
        BY <2>1, <4>3
      <4>4. QED
        BY <4>1, <4>2, <4>3
    <3>2. 2 ^ w \in Nat /\ 2 ^ w >= 1 /\ 2 ^ (w * m) \in Nat /\ 2 ^ (w * m) >= 1
          /\ 2 ^ m \in Nat /\ 2 ^ (m + 1) = 2 * 2 ^ m
      <4>1. m \in 0 .. 22
        BY <3>1
      <4>2. QED
        BY <3>1, <4>1, Powers
    <3> DEFINE high == [k \in 0 .. w - 1 |-> s[k] \div 2]
               low  == [k \in 0 .. w - 1 |-> s[k] % 2]
    <3>3. \A k \in 0 .. w - 1 : s[k] \in Nat /\ s[k] < 2 * 2 ^ m
      BY <3>2
    <3>4. high \in [0 .. w - 1 -> 0 .. 2 ^ m - 1]
      <4>1. \A z \in Nat : z < 2 * 2 ^ m => z \div 2 \in 0 .. 2 ^ m - 1
        BY <3>2
      <4>2. QED
        BY <3>3, <4>1
    <3>5. low \in [0 .. w - 1 -> {0, 1}]
      BY <3>3
    <3>6. PICK y \in Nat : /\ y \div 2 ^ (w * m) = q
                           /\ \A k \in 0 .. w - 1 : Slice(y, w, k, m) = high[k]
      <4> HIDE DEF high
      <4>1. QED
        BY <1>2, <3>1, <3>4
    <3>7. PICK x \in Nat : x \div 2 ^ w = y /\ \A k \in 0 .. w - 1 : Bit(x, k) = low[k]
      <4> HIDE DEF low
      <4>1. QED
        BY <3>5, LowBits, ZenonT(40)
    <3>8. x \div 2 ^ (w * (m + 1)) = q
      <4>1. 2 ^ (w + w * m) = 2 ^ w * 2 ^ (w * m)
        BY <3>1, PowerSum
      <4>2. (x \div 2 ^ w) \div 2 ^ (w * m) = x \div (2 ^ w * 2 ^ (w * m))
        BY <3>2, DividedTwice
      <4>3. y \div 2 ^ (w * m) = x \div 2 ^ (w * (m + 1))
        BY <3>1, <3>7, <4>1, <4>2, Zenon
      <4>4. QED
        BY <3>6, <4>3, Zenon
    <3>9. ASSUME NEW k \in 0 .. w - 1 PROVE Slice(x, w, k, m + 1) = s[k]
      <4>1. Slice(x, w, k, m + 1) = Bit(x, k) + 2 * Slice(x \div 2 ^ w, w, k, m)
        BY <3>1, SlicePeeled
      <4>2. Slice(x, w, k, m + 1) = (s[k] % 2) + 2 * (s[k] \div 2)
        BY <3>6, <3>7, <4>1
      <4>3. \A z \in Nat : (z % 2) + 2 * (z \div 2) = z
        OBVIOUS
      <4>4. s[k] \in Nat
        BY <3>3
      <4>5. QED
        BY <4>2, <4>3, <4>4
    <3>10. QED
      BY <3>8, <3>9
  <2>2. QED
    BY <2>1, SMTT(30)
<1>3. \A m \in Nat : m \in P
  <2> HIDE DEF P
  <2>1. QED
    BY <1>1, <1>2, EveryNat
<1>4. QED
  BY <1>3

(* A slice of n bits.                                                       *)
LEMMA SliceRange ==
  ASSUME NEW w \in 1 .. 3, NEW k \in 0 .. w - 1, NEW n \in Nat, w * n <= 22, NEW x \in Nat
  PROVE  Slice(x, w, k, n) \in 0 .. 2 ^ n - 1
<1> DEFINE P == {m \in Nat : w * m <= 22 => \A u \in Nat : Slice(u, w, k, m) \in 0 .. 2 ^ m - 1}
<1>1. 0 \in P
  <2>1. 2 ^ 0 = 1 /\ w * 0 + k <= 22 /\ 0 \in Nat
    OBVIOUS
  <2>2. \A u \in Nat : Slice(u, w, k, 0) = 0
    BY <2>1, SliceGrows
  <2>3. QED
    BY <2>1, <2>2
<1>2. ASSUME NEW m \in Nat, m \in P PROVE m + 1 \in P
  <2>1. ASSUME w * (m + 1) <= 22, NEW u \in Nat PROVE Slice(u, w, k, m + 1) \in 0 .. 2 ^ (m + 1) - 1
    <3>1. w * m + w <= 22 /\ w * m <= 22 /\ m \in 0 .. 21
      <4>1. CASE w = 1
        BY <2>1, <4>1
      <4>2. CASE w = 2
        BY <2>1, <4>2
      <4>3. CASE w = 3
        BY <2>1, <4>3
      <4>4. QED
        BY <4>1, <4>2, <4>3
    <3> DEFINE v == u \div 2 ^ w
    <3>2. v \in Nat /\ Bit(u, k) \in {0, 1}
      BY LowBits
    <3>3. Slice(u, w, k, m + 1) = Bit(u, k) + 2 * Slice(v, w, k, m)
      BY <3>1, SlicePeeled
    <3> HIDE DEF v
    <3>4. Slice(v, w, k, m) \in 0 .. 2 ^ m - 1
      BY <1>2, <3>1, <3>2
    <3>5. 2 ^ m \in Nat /\ 2 ^ (m + 1) = 2 * 2 ^ m
      <4>1. m \in 0 .. 22
        BY <3>1
      <4>2. QED
        BY <3>1, <4>1, Powers
    <3>6. QED
      BY <3>2, <3>3, <3>4, <3>5
  <2>2. QED
    BY <2>1
<1>3. \A m \in Nat : m \in P
  <2> HIDE DEF P
  <2>1. QED
    BY <1>1, <1>2, EveryNat
<1>4. QED
  BY <1>3

(* The bits a brick needs in a direction.                                   *)
LEMMA Log2Is ==
  ASSUME NEW n \in 1 .. 64
  PROVE  Log2(n) \in 0 .. 6 /\ 2 ^ Log2(n) >= n /\ (n <= 32 => Log2(n) <= 5)
<1> DEFINE S == {l \in 0 .. n : 2 ^ l >= n}
<1>1. S \subseteq Nat
  OBVIOUS
<1>2. 2 ^ 0 = 1 /\ 2 ^ 1 = 2 /\ 2 ^ 2 = 4 /\ 2 ^ 3 = 8 /\ 2 ^ 4 = 16 /\ 2 ^ 5 = 32 /\ 2 ^ 6 = 64
  OBVIOUS
<1>3. \E l \in S : l <= 6 /\ (n <= 32 => l <= 5)
  <2>1. CASE n = 1
    <3>1. 0 \in S
      BY <1>2, <2>1
    <3> HIDE DEF S
    <3>2. QED
      BY <3>1
  <2>2. CASE n \in 2 .. 4
    <3>1. 2 \in S
      BY <1>2, <2>2
    <3> HIDE DEF S
    <3>2. QED
      BY <3>1
  <2>3. CASE n \in 5 .. 32
    <3>1. 5 \in S
      BY <1>2, <2>3
    <3> HIDE DEF S
    <3>2. QED
      BY <3>1
  <2>4. CASE n \in 33 .. 64
    <3>1. 6 \in S
      BY <1>2, <2>4
    <3> HIDE DEF S
    <3>2. QED
      BY <2>4, <3>1
  <2>5. QED
    BY <2>1, <2>2, <2>3, <2>4
<1>4. \E m \in S : \A l \in S : m <= l
  <2> HIDE DEF S
  <2>1. QED
    BY <1>1, <1>3, LeastNat
<1>5. Log2(n) \in S /\ \A l \in S : Log2(n) <= l
  BY <1>4 DEF Log2, Min
<1>6. 2 ^ Log2(n) >= n /\ Log2(n) \in Nat
  BY <1>5
<1>7. QED
  <2> HIDE DEF S
  <2>1. QED
    BY <1>3, <1>5, <1>6, <1>1

(* Counting the members of a set of directions.                             *)
LEMMA Counted ==
  ASSUME NEW T, IsFiniteSet(T), NEW x
  PROVE  /\ IsFiniteSet(T \ {x}) /\ Cardinality(T) \in Nat
         /\ Cardinality(T) = Cardinality(T \ {x}) + IF x \in T THEN 1 ELSE 0
<1>1. IsFiniteSet(T \ {x}) /\ Cardinality(T) \in Nat /\ Cardinality(T \ {x}) \in Nat
  BY FS_Subset, FS_CardinalityType
<1>2. CASE x \in T
  <2>1. Cardinality(T \ {x}) = Cardinality(T) - 1
    BY <1>2, FS_RemoveElement
  <2>2. QED
    BY <1>1, <1>2, <2>1
<1>3. CASE x \notin T
  <2>1. Cardinality(T \ {x}) = Cardinality(T)
    BY <1>3, FS_RemoveElement
  <2>2. QED
    BY <1>1, <1>3, <2>1
<1>4. QED
  BY <1>2, <1>3

LEMMA CountedTo3 ==
  ASSUME NEW T \in SUBSET (1 .. 3)
  PROVE  /\ IsFiniteSet(T)
         /\ Cardinality(T) = (IF 1 \in T THEN 1 ELSE 0) + (IF 2 \in T THEN 1 ELSE 0)
                              + (IF 3 \in T THEN 1 ELSE 0)
<1> DEFINE A == T \ {1}
           B == A \ {2}
           C == B \ {3}
<1>1. IsFiniteSet(T)
  <2>1. IsFiniteSet(1 .. 3)
    <3>1. PICK b \in Int : b = 3
      OBVIOUS
    <3>2. IsFiniteSet(1 .. b)
      BY FS_Interval
    <3>3. 1 .. b = 1 .. 3
      BY <3>1
    <3>4. QED
      BY <3>2, <3>3
  <2>2. QED
    BY <2>1, FS_Subset
<1>2. IsFiniteSet(A) /\ Cardinality(T) = Cardinality(A) + IF 1 \in T THEN 1 ELSE 0
  BY <1>1, Counted
<1>3. IsFiniteSet(B) /\ Cardinality(A) = Cardinality(B) + IF 2 \in A THEN 1 ELSE 0
  <2> HIDE DEF A
  <2>1. QED
    BY <1>2, Counted
<1>4. Cardinality(B) = Cardinality(C) + IF 3 \in B THEN 1 ELSE 0
  <2> HIDE DEF A, B
  <2>1. QED
    BY <1>3, Counted
<1>5. C = {}
  OBVIOUS
<1>6. Cardinality(C) = 0
  BY <1>5, FS_EmptySet
<1>7. (2 \in A <=> 2 \in T) /\ (3 \in B <=> 3 \in T)
  OBVIOUS
<1> HIDE DEF A, B, C
<1>8. QED
  BY <1>1, <1>2, <1>3, <1>4, <1>6, <1>7

(* The directions of a brick.                                               *)
IsSize(size, d) == d \in {2, 3} /\ size \in [1 .. d -> 1 .. MAX_NB_TREES_PER_DIR(d)]

LEMMA SizeIs ==
  ASSUME NEW d, NEW size, IsSize(size, d)
  PROVE  /\ Len(size) = d /\ DOMAIN size = 1 .. d
         /\ \A i \in 1 .. d : /\ size[i] \in 1 .. 64
                              /\ Log2(size[i]) \in 0 .. 6
                              /\ 2 ^ Log2(size[i]) >= size[i]
                              /\ d = 3 => Log2(size[i]) <= 5
<1>1. \A i \in 1 .. d : size[i] \in 1 .. 64 /\ (d = 3 => size[i] <= 32)
  <2>1. CASE d = 2
    BY <2>1 DEF IsSize, MAX_NB_TREES_PER_DIR
  <2>2. CASE d = 3
    BY <2>2 DEF IsSize, MAX_NB_TREES_PER_DIR
  <2>3. QED
    BY <2>1, <2>2 DEF IsSize
<1>2. size \in Seq(1 .. 64) /\ Len(size) = d /\ DOMAIN size = 1 .. d
  BY <1>1 DEF IsSize
<1>3. QED
  BY <1>1, <1>2, Log2Is

(* rankx sorts the directions.                                              *)
LEMMA RankIs ==
  ASSUME NEW d, NEW size, IsSize(size, d)
  PROVE  LET rank == rankx(size)
         IN  /\ rank \in [1 .. d -> 1 .. d]
             /\ \A i, j \in 1 .. d : rank[i] = rank[j] => i = j
             /\ \A i, j \in 1 .. d : i <= j => Log2(size[rank[i]]) <= Log2(size[rank[j]])
<1> DEFINE before(e, g) == \/ Log2(size[e]) < Log2(size[g])
                           \/ Log2(size[e]) = Log2(size[g]) /\ e < g
           count(g) == Cardinality({e \in 1 .. d : before(e, g)})
           rank == [k \in 1 .. d |-> CHOOSE g \in 1 .. d : count(g) = k - 1]
<1>1. rankx(size) = rank
  <2>1. DOMAIN size = 1 .. d
    BY SizeIs
  <2>2. QED
    BY <2>1 DEF rankx
<1>2. d \in {2, 3} /\ \A e \in 1 .. d : Log2(size[e]) \in Nat
  BY SizeIs DEF IsSize
<1>3. \A g \in 1 .. d : count(g) = (IF before(1, g) THEN 1 ELSE 0) + (IF before(2, g) THEN 1 ELSE 0)
                                    + (IF d = 3 /\ before(3, g) THEN 1 ELSE 0)
  <2> HIDE DEF before
  <2>1. ASSUME NEW g \in 1 .. d
        PROVE count(g) = (IF before(1, g) THEN 1 ELSE 0) + (IF before(2, g) THEN 1 ELSE 0)
                                    + (IF d = 3 /\ before(3, g) THEN 1 ELSE 0)
    <3> DEFINE T == {e \in 1 .. d : before(e, g)}
    <3>1. /\ T \in SUBSET (1 .. 3) /\ (1 \in T <=> before(1, g)) /\ (2 \in T <=> before(2, g))
          /\ (3 \in T <=> d = 3 /\ before(3, g))
      BY <1>2
    <3>2. count(g) = Cardinality(T)
      OBVIOUS
    <3> HIDE DEF T, count
    <3>3. Cardinality(T) = (IF 1 \in T THEN 1 ELSE 0) + (IF 2 \in T THEN 1 ELSE 0)
                              + (IF 3 \in T THEN 1 ELSE 0)
      BY <3>1, CountedTo3
    <3>4. QED
      BY <3>1, <3>2, <3>3
  <2>2. QED
    BY <2>1
<1> HIDE DEF count
<1>4. \A k \in 1 .. d : \E g \in 1 .. d : count(g) = k - 1
  <2>1. CASE d = 2
    BY <1>2, <1>3, <2>1
  <2>2. CASE d = 3
    BY <1>2, <1>3, <2>2
  <2>3. QED
    BY <1>2, <2>1, <2>2
<1>5. \A e, g \in 1 .. d : count(e) < count(g) => Log2(size[e]) <= Log2(size[g])
  <2>1. CASE d = 2
    BY <1>2, <1>3, <2>1
  <2>2. CASE d = 3
    BY <1>2, <1>3, <2>2
  <2>3. QED
    BY <1>2, <2>1, <2>2
<1> HIDE DEF before
<1>6. \A k \in 1 .. d : rank[k] \in 1 .. d /\ count(rank[k]) = k - 1
  BY <1>4
<1>7. rank \in [1 .. d -> 1 .. d]
  BY <1>6
<1>8. d \in Nat
  BY <1>2
<1> HIDE DEF rank
<1>9. ASSUME NEW i \in 1 .. d, NEW j \in 1 .. d
      PROVE  (rank[i] = rank[j] => i = j) /\ (i <= j => Log2(size[rank[i]]) <= Log2(size[rank[j]]))
  <2>1. count(rank[i]) = i - 1 /\ count(rank[j]) = j - 1 /\ rank[i] \in 1 .. d /\ rank[j] \in 1 .. d
    BY <1>6
  <2>2. rank[i] = rank[j] => i = j
    BY <1>8, <2>1
  <2>3. CASE i < j
    <3>1. Log2(size[rank[i]]) <= Log2(size[rank[j]])
      BY <1>5, <1>8, <2>1, <2>3
    <3>2. QED
      BY <2>2, <3>1
  <2>4. CASE i >= j
    <3>1. i = j \/ ~ (i <= j)
      BY <1>8, <2>4
    <3>2. Log2(size[rank[i]]) \in Nat
      BY <1>2, <2>1
    <3>3. QED
      BY <2>2, <3>1, <3>2
  <2>5. QED
    BY <1>8, <2>3, <2>4
<1>10. QED
  BY <1>1, <1>7, <1>9

(* The directions that still have bits in a turn of toXYZ, and the place of   *)
(* the bits of each of them.                                                *)
IsRank(rank, d) ==
    rank \in [1 .. d -> 1 .. d] /\ \A i, j \in 1 .. d : rank[i] = rank[j] => i = j

Left(rank, d, i) == {rank[k] : k \in i .. d}

Place(rank, d, i, e) == Cardinality({g \in Left(rank, d, i) : g < e})

LEMMA DirectionsLeft ==
  ASSUME NEW d \in {2, 3}, NEW rank, IsRank(rank, d), NEW i \in 1 .. d - 1
  PROVE  /\ Left(rank, d, i) \subseteq 1 .. d
         /\ Cardinality(Left(rank, d, i)) = d - i + 1
         /\ \A e \in Left(rank, d, i) : Place(rank, d, i, e) \in 0 .. d - i
         /\ \A e, g \in Left(rank, d, i) : Place(rank, d, i, e) = Place(rank, d, i, g) => e = g
         /\ \A j \in 0 .. d - i : \E e \in Left(rank, d, i) : Place(rank, d, i, e) = j
<1> DEFINE ds == {rank[k] : k \in i .. d}
           idx(e) == Cardinality({g \in ds : g < e})
<1>1. ds \subseteq 1 .. d /\ ds \subseteq 1 .. 3
  <2>1. \A k \in i .. d : k \in 1 .. d
    OBVIOUS
  <2>2. \A k \in 1 .. d : rank[k] \in 1 .. d
    BY DEF IsRank
  <2>3. \A e \in 1 .. d : e \in 1 .. 3
    OBVIOUS
  <2>4. \A k \in i .. d : rank[k] \in 1 .. d /\ rank[k] \in 1 .. 3
    BY <2>1, <2>2, <2>3
  <2>5. QED
    BY <2>4
<1>2. ASSUME NEW e
      PROVE  idx(e) = (IF 1 \in ds /\ 1 < e THEN 1 ELSE 0) + (IF 2 \in ds /\ 2 < e THEN 1 ELSE 0)
                      + (IF 3 \in ds /\ 3 < e THEN 1 ELSE 0)
  <2> DEFINE T == {g \in ds : g < e}
  <2>1. T \in SUBSET (1 .. 3) /\ (1 \in T <=> 1 \in ds /\ 1 < e) /\ (2 \in T <=> 2 \in ds /\ 2 < e)
        /\ (3 \in T <=> 3 \in ds /\ 3 < e)
    BY <1>1
  <2>2. idx(e) = Cardinality(T)
    OBVIOUS
  <2> HIDE DEF T, idx
  <2>3. Cardinality(T) = (IF 1 \in T THEN 1 ELSE 0) + (IF 2 \in T THEN 1 ELSE 0)
                            + (IF 3 \in T THEN 1 ELSE 0)
    BY <2>1, CountedTo3
  <2>4. QED
    BY <2>1, <2>2, <2>3
<1>3. Cardinality(ds) = (IF 1 \in ds THEN 1 ELSE 0) + (IF 2 \in ds THEN 1 ELSE 0)
                            + (IF 3 \in ds THEN 1 ELSE 0)
  <2> HIDE DEF ds
  <2>1. QED
    BY <1>1, CountedTo3
<1> HIDE DEF idx
<1> DEFINE Goal == /\ Cardinality(ds) = d - i + 1
                   /\ \A e \in ds : idx(e) \in 0 .. d - i
                   /\ \A e, g \in ds : idx(e) = idx(g) => e = g
                   /\ \A j \in 0 .. d - i : \E e \in ds : idx(e) = j
<1>4. ASSUME d = 2 PROVE Goal
  <2>1. i = 1 /\ rank[1] \in {1, 2} /\ rank[2] \in {1, 2} /\ rank[1] # rank[2]
    BY <1>4 DEF IsRank
  <2>2. ds = {1, 2}
    <3>1. ds = {rank[1], rank[2]}
      BY <1>4, <2>1
    <3>2. QED
      BY <2>1, <3>1
  <2> HIDE DEF ds
  <2>3. Cardinality(ds) = 2 /\ idx(1) = 0 /\ idx(2) = 1
    BY <1>2, <1>3, <2>2
  <2>4. QED
    BY <1>4, <2>1, <2>2, <2>3
<1>5. ASSUME d = 3, i = 1 PROVE Goal
  <2>1. /\ rank[1] \in {1, 2, 3} /\ rank[2] \in {1, 2, 3} /\ rank[3] \in {1, 2, 3}
        /\ rank[1] # rank[2] /\ rank[1] # rank[3] /\ rank[2] # rank[3]
    BY <1>5 DEF IsRank
  <2>2. ds = {1, 2, 3}
    <3>1. ds = {rank[1], rank[2], rank[3]}
      BY <1>5
    <3>2. QED
      BY <2>1, <3>1
  <2> HIDE DEF ds
  <2>3. Cardinality(ds) = 3 /\ idx(1) = 0 /\ idx(2) = 1 /\ idx(3) = 2
    BY <1>2, <1>3, <2>2
  <2>4. QED
    BY <1>5, <2>2, <2>3
<1>6. ASSUME d = 3, i = 2 PROVE Goal
  <2>1. rank[2] \in {1, 2, 3} /\ rank[3] \in {1, 2, 3} /\ rank[2] # rank[3]
    BY <1>6 DEF IsRank
  <2>2. ds = {rank[2], rank[3]}
    BY <1>6
  <2> HIDE DEF ds
  <2>3. PICK a \in {1, 2, 3} : \E b \in {1, 2, 3} : a < b /\ ds = {a, b}
    BY <2>1, <2>2
  <2>4. PICK b \in {1, 2, 3} : a < b /\ ds = {a, b}
    BY <2>3
  <2>5. Cardinality(ds) = 2 /\ idx(a) = 0 /\ idx(b) = 1
    BY <1>2, <1>3, <2>4
  <2>6. QED
    BY <1>6, <2>4, <2>5
<1>7. Goal
  <2>1. (d = 2 /\ i = 1) \/ (d = 3 /\ i = 1) \/ (d = 3 /\ i = 2)
    OBVIOUS
  <2> HIDE DEF Goal
  <2>2. QED
    BY <1>4, <1>5, <1>6, <2>1
<1>8. Left(rank, d, i) = ds /\ \A e : Place(rank, d, i, e) = idx(e)
  BY DEF Left, Place, idx
<1> HIDE DEF ds
<1>9. \A e \in ds : Place(rank, d, i, e) = idx(e)
  BY <1>8
<1>10. /\ \A e \in ds : Place(rank, d, i, e) \in 0 .. d - i
       /\ \A e, g \in ds : Place(rank, d, i, e) = Place(rank, d, i, g) => e = g
  BY <1>7, <1>9
<1>11. ASSUME NEW j \in 0 .. d - i PROVE \E e \in ds : Place(rank, d, i, e) = j
  <2>1. PICK e \in ds : idx(e) = j
    BY <1>7
  <2>2. QED
    BY <1>9, <2>1
<1>12. QED
  BY <1>1, <1>7, <1>8, <1>10, <1>11

(* The states of toXYZ after i turns: the bits decoded so far, and less than  *)
(* 2^B of the number left.                                                  *)
Decoded(size, rank, i, l, B) ==
    {s \in [tx : [DOMAIN size -> Nat], treeId : 0 .. 2 ^ B - 1, lastlog : {l}] :
        \A k \in DOMAIN size : s.tx[rank[k]] < 2 ^ (IF k <= i THEN Log2(size[rank[k]]) ELSE l)}

LEMMA DecodeIs ==
  ASSUME NEW d, NEW size, IsSize(size, d), NEW rank, IsRank(rank, d), NEW i \in 1 .. d - 1,
         NEW s, s.lastlog \in Nat, s.lastlog <= Log2(size[rank[i]])
  PROVE  LET n == Log2(size[rank[i]]) - s.lastlog
             w == d - i + 1
             t == Decode(size, rank, s, i)
         IN  /\ n \in Nat /\ w \in 1 .. 3
             /\ t = [tx |-> [e \in 1 .. d |-> s.tx[e] +
                               IF e \in Left(rank, d, i)
                               THEN Slice(s.treeId, w, Place(rank, d, i, e), n) * 2 ^ s.lastlog
                               ELSE 0],
                     treeId |-> s.treeId \div 2 ^ (w * n),
                     lastlog |-> Log2(size[rank[i]])]
<1> DEFINE n == Log2(size[rank[i]]) - s.lastlog
           w == d - i + 1
           ds == {rank[k] : k \in i .. d}
<1>1. d \in {2, 3} /\ Len(size) = d /\ DOMAIN size = 1 .. d
  BY SizeIs DEF IsSize
<1>2. rank[i] \in 1 .. d
  BY <1>1 DEF IsRank
<1>3. Log2(size[rank[i]]) \in Nat
  <2>1. \A e \in 1 .. d : Log2(size[e]) \in 0 .. 6
    BY SizeIs
  <2>2. QED
    BY <1>2, <2>1
<1>4. n \in Nat /\ w \in 1 .. 3 /\ s.lastlog + n = Log2(size[rank[i]])
  BY <1>1, <1>3
<1>5. {rank[k] : k \in i .. Len(size)} = ds /\ ds = Left(rank, d, i)
  BY <1>1 DEF Left
<1>6. Cardinality(ds) = w
  <2> HIDE DEF ds
  <2>1. QED
    BY <1>1, <1>5, DirectionsLeft
<1>7. \A e : Coordinate(s.treeId, ds, e, n) = Slice(s.treeId, w, Place(rank, d, i, e), n)
  <2>1. ASSUME NEW e
        PROVE Coordinate(s.treeId, ds, e, n) = Slice(s.treeId, w, Place(rank, d, i, e), n)
    <3> HIDE DEF ds, w, n
    <3>1. Cardinality({g \in ds : g < e}) = Place(rank, d, i, e)
      BY <1>5 DEF Place
    <3>2. QED
      BY <1>6, <3>1 DEF Coordinate, Slice
  <2>2. QED
    BY <2>1
<1>8. Decode(size, rank, s, i)
        = [tx |-> [e \in 1 .. d |-> s.tx[e] +
                     IF e \in ds THEN Coordinate(s.treeId, ds, e, n) * 2 ^ s.lastlog ELSE 0],
           treeId |-> s.treeId \div 2 ^ (Cardinality(ds) * n),
           lastlog |-> s.lastlog + n]
  BY <1>1, <1>5 DEF Decode
<1> HIDE DEF ds, n, w
<1>9. QED
  BY <1>4, <1>5, <1>6, <1>7, <1>8 DEF n, w

LEMMA DividedBelow ==
  ASSUME NEW m \in Nat, m >= 1, NEW q \in Nat, NEW x \in Nat
  PROVE  x \div m < q <=> x < m * q
  OBVIOUS

(* The bits a turn takes from the number, and what it does to the states.     *)
Bits(size, rank, d, i, l) == (d - i + 1) * (Log2(size[rank[i]]) - l)

IsTurn(size, rank, i, from, to) ==
    /\ \A s \in from : Decode(size, rank, s, i) \in to
    /\ \A r, s \in from : Decode(size, rank, r, i) = Decode(size, rank, s, i) => r = s
    /\ \A t \in to : \E s \in from : Decode(size, rank, s, i) = t

(* A turn of toXYZ loses nothing and leaves nothing out.                    *)
LEMMA DecodeTurn ==
  ASSUME NEW d, NEW size, IsSize(size, d), NEW rank, IsRank(rank, d), NEW i \in 1 .. d - 1,
         NEW l \in Nat, l <= Log2(size[rank[i]]), NEW B \in 0 .. 22,
         NEW C \in Nat, C = B - Bits(size, rank, d, i, l)
  PROVE  IsTurn(size, rank, i, Decoded(size, rank, i - 1, l, B),
                Decoded(size, rank, i, Log2(size[rank[i]]), C))
<1> DEFINE L == Log2(size[rank[i]])
           n == L - l
           w == d - i + 1
           from == Decoded(size, rank, i - 1, l, B)
           to   == Decoded(size, rank, i, L, C)
           ds == Left(rank, d, i)
           place(e) == Place(rank, d, i, e)
<1>1. d \in {2, 3} /\ DOMAIN size = 1 .. d /\ \A e \in 1 .. d : Log2(size[e]) \in 0 .. 6
  BY SizeIs DEF IsSize
<1>2. \A k \in 1 .. d : rank[k] \in 1 .. d
  BY DEF IsRank
<1>3. L \in 0 .. 6 /\ l \in 0 .. 6 /\ n \in 0 .. 6 /\ w \in 1 .. 3 /\ l + n = L
  <2>1. L \in 0 .. 6
    BY <1>1, <1>2
  <2>2. QED
    BY <1>1, <2>1
<1>4. C \in 0 .. 22 /\ w * n \in 0 .. 22 /\ w * n + C = B
  <2>1. w * n \in Nat
    BY <1>3
  <2>2. w * n = Bits(size, rank, d, i, l)
    BY DEF Bits
  <2> HIDE DEF w, n
  <2>3. QED
    BY <2>1, <2>2
<1>5. /\ 2 ^ l \in Nat /\ 2 ^ l >= 1 /\ 2 ^ n \in Nat /\ 2 ^ n >= 1 /\ 2 ^ L = 2 ^ l * 2 ^ n
      /\ 2 ^ (w * n) \in Nat /\ 2 ^ (w * n) >= 1 /\ 2 ^ C \in Nat
      /\ 2 ^ B = 2 ^ (w * n) * 2 ^ C
  <2> HIDE DEF n, w, L
  <2>1. l \in 0 .. 22 /\ n \in 0 .. 22 /\ l + n <= 22 /\ w * n + C <= 22 /\ w * n \in Nat /\ C \in Nat
        /\ n \in Nat
    <3>1. l \in 0 .. 22 /\ n \in 0 .. 22 /\ l + n <= 22 /\ n \in Nat
      BY <1>3
    <3>2. B <= 22 /\ w * n \in Nat /\ C \in Nat /\ w * n + C = B
      BY <1>4
    <3> HIDE DEF w, n
    <3>3. QED
      BY <3>1, <3>2
  <2>2. 2 ^ l \in Nat /\ 2 ^ l >= 1 /\ 2 ^ n \in Nat /\ 2 ^ n >= 1
        /\ 2 ^ (w * n) \in Nat /\ 2 ^ (w * n) >= 1 /\ 2 ^ C \in Nat
    BY <1>4, <2>1, Powers
  <2>3. 2 ^ (l + n) = 2 ^ l * 2 ^ n
    BY <2>1, PowerSum
  <2>4. 2 ^ (w * n + C) = 2 ^ (w * n) * 2 ^ C
    BY <2>1, PowerSum
  <2>5. QED
    BY <1>3, <1>4, <2>2, <2>3, <2>4
<1>6. /\ ds \subseteq 1 .. d
      /\ \A e \in ds : place(e) \in 0 .. w - 1
      /\ \A e, g \in ds : place(e) = place(g) => e = g
      /\ \A j \in 0 .. w - 1 : \E e \in ds : place(e) = j
  <2>1. d - i = w - 1
    BY <1>1
  <2> HIDE DEF w
  <2>2. QED
    BY <1>1, <2>1, DirectionsLeft
<1>7. \A k \in 1 .. d : rank[k] \in ds <=> k >= i
  <2>1. \A k \in 1 .. d : \A j \in i .. d : j \in 1 .. d /\ (rank[j] = rank[k] => j = k)
    BY <1>1 DEF IsRank
  <2>2. ASSUME NEW k \in 1 .. d PROVE rank[k] \in ds <=> k >= i
    <3>1. k >= i <=> k \in i .. d
      BY <1>1
    <3>2. rank[k] \in ds <=> \E j \in i .. d : rank[j] = rank[k]
      BY DEF Left
    <3>3. QED
      BY <2>1, <3>1, <3>2
  <2>3. QED
    BY <2>2
<1>8. ASSUME NEW s \in from
      PROVE  /\ Decode(size, rank, s, i)
                  = [tx |-> [e \in 1 .. d |-> s.tx[e] +
                               IF e \in ds THEN Slice(s.treeId, w, place(e), n) * 2 ^ l ELSE 0],
                     treeId |-> s.treeId \div 2 ^ (w * n),
                     lastlog |-> L]
             /\ s \in [tx : [1 .. d -> Nat], treeId : 0 .. 2 ^ B - 1, lastlog : {l}]
             /\ \A e \in ds : s.tx[e] < 2 ^ l
             /\ \A k \in 1 .. d : k <= i - 1 => s.tx[rank[k]] < 2 ^ Log2(size[rank[k]])
             /\ \A j \in 0 .. w - 1 : Slice(s.treeId, w, j, n) \in 0 .. 2 ^ n - 1
  <2>1. /\ s \in [tx : [1 .. d -> Nat], treeId : 0 .. 2 ^ B - 1, lastlog : {l}]
        /\ \A k \in 1 .. d : s.tx[rank[k]] < 2 ^ (IF k <= i - 1 THEN Log2(size[rank[k]]) ELSE l)
    BY <1>1 DEF Decoded
  <2>2. s.lastlog = l
    BY <2>1
  <2>3. Decode(size, rank, s, i)
           = [tx |-> [e \in 1 .. d |-> s.tx[e] +
                        IF e \in ds THEN Slice(s.treeId, w, place(e), n) * 2 ^ l ELSE 0],
              treeId |-> s.treeId \div 2 ^ (w * n),
              lastlog |-> L]
    BY <2>2, DecodeIs
  <2>4. ASSUME NEW e \in ds PROVE s.tx[e] < 2 ^ l
    <3>1. PICK k \in i .. d : e = rank[k]
      BY DEF Left
    <3>2. k \in 1 .. d /\ ~ (k <= i - 1)
      BY <1>1
    <3>3. QED
      BY <2>1, <3>1, <3>2
  <2>5. \A k \in 1 .. d : k <= i - 1 => s.tx[rank[k]] < 2 ^ Log2(size[rank[k]])
    BY <2>1
  <2>6. s.treeId \in Nat
    BY <2>1
  <2>7. ASSUME NEW j \in 0 .. w - 1 PROVE Slice(s.treeId, w, j, n) \in 0 .. 2 ^ n - 1
    <3> HIDE DEF w, n
    <3>1. n \in Nat /\ w * n <= 22
      BY <1>3, <1>4
    <3>2. QED
      BY <1>3, <2>6, <3>1, SliceRange
  <2>8. QED
    BY <2>1, <2>3, <2>4, <2>5, <2>7
<1> HIDE DEF n, w, ds, place, L
<1>9. ASSUME NEW s \in from PROVE Decode(size, rank, s, i) \in to
  <2> DEFINE t == Decode(size, rank, s, i)
  <2>1. t = [tx |-> [e \in 1 .. d |-> s.tx[e] +
                       IF e \in ds THEN Slice(s.treeId, w, place(e), n) * 2 ^ l ELSE 0],
             treeId |-> s.treeId \div 2 ^ (w * n),
             lastlog |-> L]
    BY <1>8
  <2>2. /\ s.tx \in [1 .. d -> Nat] /\ s.treeId \in Nat /\ s.treeId < 2 ^ B
    <3>1. 2 ^ B \in Nat
      BY Powers
    <3>2. s.tx \in [1 .. d -> Nat] /\ s.treeId \in 0 .. 2 ^ B - 1
      BY <1>1 DEF Decoded
    <3>3. QED
      BY <3>1, <3>2
  <2>3. ASSUME NEW e \in ds
        PROVE  t.tx[e] \in Nat /\ t.tx[e] < 2 ^ L
    <3>1. e \in 1 .. d /\ place(e) \in 0 .. w - 1
      BY <1>6
    <3> DEFINE a == s.tx[e]
               c == Slice(s.treeId, w, place(e), n)
    <3>2. a \in Nat /\ a < 2 ^ l /\ c \in 0 .. 2 ^ n - 1
      BY <1>8, <2>2, <3>1
    <3>3. t.tx[e] = a + c * 2 ^ l
      BY <2>1, <3>1
    <3> HIDE DEF a, c, t
    <3>4. c * 2 ^ l \in Nat /\ c * 2 ^ l <= (2 ^ n - 1) * 2 ^ l
      BY <1>5, <3>2
    <3>5. (2 ^ n - 1) * 2 ^ l = 2 ^ L - 2 ^ l
      BY <1>5
    <3>6. QED
      BY <1>5, <3>2, <3>3, <3>4, <3>5
  <2>4. ASSUME NEW e \in 1 .. d, e \notin ds PROVE t.tx[e] = s.tx[e]
    <3>1. t.tx[e] = s.tx[e] + 0
      BY <2>1, <2>4
    <3>2. s.tx[e] \in Nat
      BY <2>2
    <3>3. QED
      BY <3>1, <3>2
  <2>5. t.tx \in [1 .. d -> Nat]
    <3>1. \A e \in 1 .. d : t.tx[e] \in Nat
      BY <2>2, <2>3, <2>4
    <3>2. t.tx = [e \in 1 .. d |-> t.tx[e]]
      BY <2>1
    <3>3. QED
      BY <3>1, <3>2
  <2>6. t.treeId \in 0 .. 2 ^ C - 1 /\ t.lastlog = L
    <3>1. t.treeId = s.treeId \div 2 ^ (w * n) /\ t.lastlog = L
      BY <2>1
    <3>2. s.treeId \div 2 ^ (w * n) \in Nat
      BY <1>5, <2>2, DividedNat
    <3>3. s.treeId \div 2 ^ (w * n) < 2 ^ C
      BY <1>5, <2>2, DividedBelow
    <3>4. QED
      BY <1>5, <3>1, <3>2, <3>3
  <2>7. ASSUME NEW k \in 1 .. d
        PROVE  t.tx[rank[k]] < 2 ^ (IF k <= i THEN Log2(size[rank[k]]) ELSE L)
    <3>1. CASE k > i
      <4>1. rank[k] \in ds /\ ~ (k <= i)
        BY <1>1, <1>7, <3>1
      <4>2. QED
        BY <2>3, <4>1
    <3>2. CASE k = i
      <4>1. rank[k] \in ds /\ k <= i /\ Log2(size[rank[k]]) = L
        BY <1>1, <1>7, <3>2 DEF L
      <4>2. QED
        BY <2>3, <4>1
    <3>3. CASE k < i
      <4>1. rank[k] \notin ds /\ k <= i - 1 /\ k <= i /\ rank[k] \in 1 .. d
        BY <1>1, <1>2, <1>7, <3>3
      <4>2. t.tx[rank[k]] = s.tx[rank[k]]
        BY <2>4, <4>1
      <4>3. QED
        BY <1>8, <4>1, <4>2
    <3>4. QED
      BY <1>1, <3>1, <3>2, <3>3
  <2>8. t = [tx |-> t.tx, treeId |-> t.treeId, lastlog |-> t.lastlog]
    BY <2>1
  <2> HIDE DEF t
  <2>9. t \in [tx : [1 .. d -> Nat], treeId : 0 .. 2 ^ C - 1, lastlog : {L}]
    BY <2>5, <2>6, <2>8
  <2>10. t \in to
    BY <1>1, <2>7, <2>9 DEF Decoded
  <2>11. QED
    BY <2>10 DEF t
<1>10. ASSUME NEW r \in from, NEW s \in from, Decode(size, rank, r, i) = Decode(size, rank, s, i)
       PROVE  r = s
  <2>1. /\ r.tx \in [1 .. d -> Nat] /\ r.treeId \in Nat
        /\ s.tx \in [1 .. d -> Nat] /\ s.treeId \in Nat
    BY <1>8
  <2>2. /\ [e \in 1 .. d |-> r.tx[e] +
              IF e \in ds THEN Slice(r.treeId, w, place(e), n) * 2 ^ l ELSE 0]
            = [e \in 1 .. d |-> s.tx[e] +
                 IF e \in ds THEN Slice(s.treeId, w, place(e), n) * 2 ^ l ELSE 0]
        /\ r.treeId \div 2 ^ (w * n) = s.treeId \div 2 ^ (w * n)
    <3> DEFINE f == [e \in 1 .. d |-> r.tx[e] +
                       IF e \in ds THEN Slice(r.treeId, w, place(e), n) * 2 ^ l ELSE 0]
               g == [e \in 1 .. d |-> s.tx[e] +
                       IF e \in ds THEN Slice(s.treeId, w, place(e), n) * 2 ^ l ELSE 0]
    <3>1. /\ Decode(size, rank, r, i)
               = [tx |-> f, treeId |-> r.treeId \div 2 ^ (w * n), lastlog |-> L]
          /\ Decode(size, rank, s, i)
               = [tx |-> g, treeId |-> s.treeId \div 2 ^ (w * n), lastlog |-> L]
      BY <1>8
    <3> HIDE DEF f, g
    <3>2. /\ Decode(size, rank, r, i).tx = f /\ Decode(size, rank, s, i).tx = g
          /\ Decode(size, rank, r, i).treeId = r.treeId \div 2 ^ (w * n)
          /\ Decode(size, rank, s, i).treeId = s.treeId \div 2 ^ (w * n)
      BY <3>1
    <3>3. f = g /\ r.treeId \div 2 ^ (w * n) = s.treeId \div 2 ^ (w * n)
      BY <1>10, <3>2, Zenon
    <3>4. QED
      BY <3>3 DEF f, g
  <2>3. ASSUME NEW e \in ds
        PROVE  r.tx[e] = s.tx[e]
               /\ Slice(r.treeId, w, place(e), n) = Slice(s.treeId, w, place(e), n)
    <3>1. e \in 1 .. d /\ place(e) \in 0 .. w - 1
      BY <1>6
    <3> DEFINE a == r.tx[e]
               b == s.tx[e]
               x == Slice(r.treeId, w, place(e), n)
               y == Slice(s.treeId, w, place(e), n)
    <3>2. a \in 0 .. 2 ^ l - 1 /\ b \in 0 .. 2 ^ l - 1 /\ x \in Int /\ y \in Int
      <4>1. r.tx[e] \in Nat /\ s.tx[e] \in Nat /\ r.tx[e] < 2 ^ l /\ s.tx[e] < 2 ^ l
        BY <1>8, <2>1, <3>1
      <4>2. x \in 0 .. 2 ^ n - 1 /\ y \in 0 .. 2 ^ n - 1
        BY <1>8, <3>1
      <4>3. QED
        BY <1>5, <4>1, <4>2
    <3>3. a + x * 2 ^ l = b + y * 2 ^ l
      BY <2>2, <3>1
    <3> HIDE DEF a, b, x, y
    <3>4. x * 2 ^ l + a = y * 2 ^ l + b
      BY <1>5, <3>2, <3>3
    <3>5. (x * 2 ^ l + a) \div 2 ^ l = x /\ (x * 2 ^ l + a) % 2 ^ l = a
      BY <1>5, <3>2, Division
    <3>6. (y * 2 ^ l + b) \div 2 ^ l = y /\ (y * 2 ^ l + b) % 2 ^ l = b
      BY <1>5, <3>2, Division
    <3>7. x = y /\ a = b
      BY <3>4, <3>5, <3>6
    <3>8. QED
      BY <3>7 DEF a, b, x, y
  <2>4. ASSUME NEW e \in 1 .. d, e \notin ds PROVE r.tx[e] = s.tx[e]
    <3>1. r.tx[e] + 0 = s.tx[e] + 0
      BY <2>2, <2>4
    <3>2. r.tx[e] \in Nat /\ s.tx[e] \in Nat
      BY <2>1
    <3>3. QED
      BY <3>1, <3>2
  <2>5. r.tx = s.tx
    <3> DEFINE a == r.tx
               b == s.tx
    <3>1. \A e \in 1 .. d : a[e] = b[e]
      BY <2>3, <2>4
    <3>2. a \in [1 .. d -> Nat] /\ b \in [1 .. d -> Nat]
      BY <2>1
    <3>3. a = [e \in 1 .. d |-> a[e]] /\ b = [e \in 1 .. d |-> b[e]]
      BY <3>2
    <3> HIDE DEF a, b
    <3>4. a = b
      BY <3>1, <3>3
    <3>5. QED
      BY <3>4 DEF a, b
  <2>6. \A j \in 0 .. w - 1 : Slice(r.treeId, w, j, n) = Slice(s.treeId, w, j, n)
    BY <1>6, <2>3
  <2>7. r.treeId = s.treeId
    <3>1. n \in Nat /\ w * n <= 22
      BY <1>3, <1>4
    <3>2. QED
      BY <1>3, <2>1, <2>2, <2>6, <3>1, SlicesSame
  <2>8. QED
    BY <1>8, <2>5, <2>7
<1>11. ASSUME NEW t \in to PROVE \E s \in from : Decode(size, rank, s, i) = t
  <2>1. /\ t \in [tx : [1 .. d -> Nat], treeId : 0 .. 2 ^ C - 1, lastlog : {L}]
        /\ \A k \in 1 .. d : t.tx[rank[k]] < 2 ^ (IF k <= i THEN Log2(size[rank[k]]) ELSE L)
    BY <1>1 DEF Decoded
  <2>2. /\ t.tx \in [1 .. d -> Nat] /\ t.treeId \in Nat /\ t.treeId < 2 ^ C /\ t.lastlog = L
        /\ t = [tx |-> t.tx, treeId |-> t.treeId, lastlog |-> L]
    BY <1>5, <2>1, SMTT(30)
  <2>3. ASSUME NEW e \in ds PROVE e \in 1 .. d /\ t.tx[e] \in Nat /\ t.tx[e] < 2 ^ L
    <3>1. PICK k \in i .. d : e = rank[k]
      BY DEF ds, Left
    <3>2. k \in 1 .. d
      BY <1>1
    <3>3. t.tx[e] < 2 ^ (IF k <= i THEN Log2(size[e]) ELSE L)
      BY <2>1, <3>1, <3>2
    <3>4. k = i => Log2(size[e]) = L
      BY <3>1 DEF L
    <3>5. k <= i <=> k = i
      BY <1>1
    <3>6. t.tx[e] < 2 ^ L
      BY <3>3, <3>4, <3>5
    <3>7. QED
      BY <1>6, <2>2, <3>6
  <2> DEFINE owner == [j \in 0 .. w - 1 |-> CHOOSE e \in ds : place(e) = j]
             c     == [j \in 0 .. w - 1 |-> t.tx[owner[j]] \div 2 ^ l]
  <2>4. \A j \in 0 .. w - 1 : owner[j] \in ds /\ place(owner[j]) = j
    BY <1>6
  <2>5. \A e \in ds : owner[place(e)] = e
    <3>1. ASSUME NEW e \in ds PROVE owner[place(e)] = e
      <4>1. place(e) \in 0 .. w - 1
        BY <1>6
      <4>2. owner[place(e)] \in ds /\ place(owner[place(e)]) = place(e)
        BY <2>4, <4>1
      <4> HIDE DEF owner
      <4>3. QED
        BY <1>6, <4>2
    <3>2. QED
      BY <3>1
  <2> HIDE DEF owner
  <2>6. c \in [0 .. w - 1 -> 0 .. 2 ^ n - 1]
    <3>1. ASSUME NEW j \in 0 .. w - 1 PROVE c[j] \in 0 .. 2 ^ n - 1
      <4> DEFINE x == t.tx[owner[j]]
      <4>1. x \in Nat /\ x < 2 ^ l * 2 ^ n
        BY <1>5, <2>3, <2>4
      <4> HIDE DEF x
      <4>2. x \div 2 ^ l < 2 ^ n
        BY <1>5, <4>1, DividedBelow
      <4>3. x \div 2 ^ l \in Nat
        BY <1>5, <4>1
      <4>4. x \div 2 ^ l \in 0 .. 2 ^ n - 1
        BY <1>5, <4>2, <4>3
      <4>5. QED
        BY <4>4 DEF x
    <3>2. QED
      BY <3>1
  <2>7. PICK x \in Nat : /\ x \div 2 ^ (w * n) = t.treeId
                         /\ \A j \in 0 .. w - 1 : Slice(x, w, j, n) = c[j]
    <3>1. n \in Nat /\ w * n <= 22
      BY <1>3, <1>4
    <3> HIDE DEF c
    <3>2. QED
      BY <1>3, <2>2, <2>6, <3>1, SlicesExist, ZenonT(40)
  <2>8. x < 2 ^ B
    BY <1>5, <2>2, <2>7, DividedBelow, SMTT(30)
  <2> DEFINE tx == [e \in 1 .. d |-> IF e \in ds THEN t.tx[e] % 2 ^ l ELSE t.tx[e]]
             s  == [tx |-> tx, treeId |-> x, lastlog |-> l]
  <2>9. \A e \in ds : /\ tx[e] \in 0 .. 2 ^ l - 1
                      /\ t.tx[e] = (t.tx[e] \div 2 ^ l) * 2 ^ l + tx[e]
    <3>1. ASSUME NEW e \in ds
          PROVE  tx[e] \in 0 .. 2 ^ l - 1 /\ t.tx[e] = (t.tx[e] \div 2 ^ l) * 2 ^ l + tx[e]
      <4> DEFINE z == t.tx[e]
      <4>1. z \in Int /\ e \in 1 .. d
        BY <2>3
      <4>2. tx[e] = z % 2 ^ l
        BY <4>1
      <4> HIDE DEF z, tx
      <4>3. z % 2 ^ l \in 0 .. 2 ^ l - 1 /\ z = (z \div 2 ^ l) * 2 ^ l + (z % 2 ^ l)
        BY <1>5, <4>1, Divided
      <4>4. QED
        BY <4>2, <4>3 DEF z
    <3>2. QED
      BY <3>1
  <2>10. s \in from
    <3>1. \A e \in 1 .. d : tx[e] \in Nat
      <4>1. \A e \in 1 .. d : e \notin ds => tx[e] = t.tx[e]
        OBVIOUS
      <4>2. \A e \in 1 .. d : t.tx[e] \in Nat
        BY <2>2
      <4> HIDE DEF tx
      <4>3. \A e \in ds : tx[e] \in Nat
        BY <1>5, <2>9
      <4>4. QED
        BY <4>1, <4>2, <4>3
    <3>2. tx \in [1 .. d -> Nat]
      BY <3>1
    <3>3. x \in 0 .. 2 ^ B - 1
      BY <1>4, <1>5, <2>8
    <3>4. s.tx = tx
      OBVIOUS
    <3>5. ASSUME NEW k \in 1 .. d
          PROVE  tx[rank[k]] < 2 ^ (IF k <= i - 1 THEN Log2(size[rank[k]]) ELSE l)
      <4>1. CASE k <= i - 1
        <5>1. rank[k] \notin ds /\ k <= i /\ rank[k] \in 1 .. d
          BY <1>1, <1>2, <1>7, <4>1
        <5>2. tx[rank[k]] = t.tx[rank[k]]
          BY <5>1
        <5>3. t.tx[rank[k]] < 2 ^ Log2(size[rank[k]])
          BY <2>1, <5>1
        <5>4. QED
          BY <4>1, <5>2, <5>3
      <4>2. CASE ~ (k <= i - 1)
        <5>1. rank[k] \in ds
          BY <1>1, <1>7, <4>2
        <5> HIDE DEF tx
        <5>2. tx[rank[k]] < 2 ^ l
          BY <1>5, <2>9, <5>1
        <5>3. QED
          BY <4>2, <5>2
      <4>3. QED
        BY <4>1, <4>2
    <3> HIDE DEF tx
    <3>6. s \in [tx : [1 .. d -> Nat], treeId : 0 .. 2 ^ B - 1, lastlog : {l}]
      BY <3>2, <3>3
    <3>7. \A k \in 1 .. d : s.tx[rank[k]] < 2 ^ (IF k <= i - 1 THEN Log2(size[rank[k]]) ELSE l)
      BY <3>4, <3>5
    <3> HIDE DEF s
    <3>8. QED
      BY <1>1, <3>6, <3>7 DEF Decoded
  <2>11. Decode(size, rank, s, i) = t
    <3>1. s.treeId = x /\ s.tx = tx
      OBVIOUS
    <3> DEFINE f == [e \in 1 .. d |-> s.tx[e] +
                       IF e \in ds THEN Slice(s.treeId, w, place(e), n) * 2 ^ l ELSE 0]
    <3>2. Decode(size, rank, s, i)
             = [tx |-> f, treeId |-> s.treeId \div 2 ^ (w * n), lastlog |-> L]
      <4> HIDE DEF s
      <4>1. QED
        BY <1>8, <2>10
    <3>3. ASSUME NEW e \in 1 .. d PROVE f[e] = t.tx[e]
      <4>1. CASE e \in ds
        <5>1. place(e) \in 0 .. w - 1 /\ owner[place(e)] = e
          BY <1>6, <2>5, <4>1
        <5>2. Slice(x, w, place(e), n) = t.tx[e] \div 2 ^ l
          BY <2>7, <5>1
        <5>3. f[e] = tx[e] + (t.tx[e] \div 2 ^ l) * 2 ^ l
          BY <3>1, <4>1, <5>2
        <5> HIDE DEF tx, f
        <5>4. t.tx[e] \div 2 ^ l \in Int /\ tx[e] \in Int
          BY <1>5, <2>3, <2>9, <4>1
        <5>5. (t.tx[e] \div 2 ^ l) * 2 ^ l \in Int
          BY <1>5, <5>4
        <5>6. t.tx[e] = (t.tx[e] \div 2 ^ l) * 2 ^ l + tx[e]
          BY <2>9, <4>1
        <5>7. QED
          BY <5>3, <5>4, <5>5, <5>6
      <4>2. CASE e \notin ds
        <5>1. f[e] = t.tx[e] + 0
          BY <3>1, <4>2
        <5>2. t.tx[e] \in Nat
          BY <2>2
        <5> HIDE DEF f
        <5>3. QED
          BY <5>1, <5>2
      <4>3. QED
        BY <4>1, <4>2
    <3>4. f = t.tx
      <4>1. f = [e \in 1 .. d |-> f[e]]
        OBVIOUS
      <4> HIDE DEF f
      <4>2. QED
        BY <2>2, <3>3, <4>1
    <3> HIDE DEF f, s
    <3>5. QED
      BY <2>2, <2>7, <3>1, <3>2, <3>4
  <2>12. QED
    BY <2>10, <2>11
<1>12. QED
  BY <1>9, <1>10, <1>11 DEF L, IsTurn

(* Every direction has a rank.                                              *)
LEMMA RankOnto ==
  ASSUME NEW d \in {2, 3}, NEW rank, IsRank(rank, d)
  PROVE  \A e \in 1 .. d : \E k \in 1 .. d : rank[k] = e
<1>1. CASE d = 2
  <2>1. rank[1] \in {1, 2} /\ rank[2] \in {1, 2} /\ rank[1] # rank[2]
    BY <1>1 DEF IsRank
  <2>2. \A e \in {1, 2} : e = rank[1] \/ e = rank[2]
    BY <2>1
  <2>3. QED
    BY <1>1, <2>2
<1>2. CASE d = 3
  <2>1. /\ rank[1] \in {1, 2, 3} /\ rank[2] \in {1, 2, 3} /\ rank[3] \in {1, 2, 3}
        /\ rank[1] # rank[2] /\ rank[1] # rank[3] /\ rank[2] # rank[3]
    BY <1>2 DEF IsRank
  <2>2. \A e \in {1, 2, 3} : e = rank[1] \/ e = rank[2] \/ e = rank[3]
    BY <2>1
  <2>3. QED
    BY <1>2, <2>2
<1>3. QED
  BY <1>1, <1>2

(* The state before the first turn.                                         *)
Undecoded(d, x) == [tx |-> [e \in 1 .. d |-> 0], treeId |-> x, lastlog |-> 0]

(* What is left goes to the longest direction.                              *)
Rest(rank, d, s) == [s.tx EXCEPT ![rank[d]] = @ + s.treeId * 2 ^ s.lastlog]

LEMMA ToXYZIs ==
  ASSUME NEW d, NEW size, IsSize(size, d), NEW rank, NEW x
  PROVE  /\ d = 2 => toXYZ(size, rank, x) = Rest(rank, d, Decode(size, rank, Undecoded(d, x), 1))
         /\ d = 3 => toXYZ(size, rank, x)
                       = Rest(rank, d, Decode(size, rank, Decode(size, rank, Undecoded(d, x), 1), 2))
<1>1. d \in {2, 3} /\ Len(size) = d
  BY SizeIs DEF IsSize
<1> DEFINE s0 == Undecoded(d, x)
           s1 == Decode(size, rank, s0, 1)
           s2 == Decode(size, rank, s1, 2)
           rule(g) == [i \in 0 .. d - 1 |->
                         IF i = 0 THEN [tx |-> [e \in 1 .. d |-> 0], treeId |-> x, lastlog |-> 0]
                         ELSE Decode(size, rank, g[i - 1], i)]
           turn == CHOOSE g : g = rule(g)
<1>2. toXYZ(size, rank, x) = Rest(rank, d, turn[d - 1])
  BY <1>1 DEF toXYZ, Rest
<1>3. \E g : g = rule(g)
  <2> DEFINE h == [i \in 0 .. d - 1 |-> CASE i = 0 -> s0 [] i = 1 -> s1 [] i = 2 -> s2]
  <2>1. ASSUME NEW i \in 0 .. d - 1 PROVE h[i] = rule(h)[i]
    <3>1. CASE i = 0
      BY <3>1 DEF Undecoded
    <3>2. CASE i = 1
      <4>1. h[0] = s0 /\ h[1] = s1
        BY <1>1
      <4> HIDE DEF h, s0
      <4>2. rule(h)[1] = Decode(size, rank, h[0], 1)
        BY <1>1
      <4>3. QED
        BY <3>2, <4>1, <4>2
    <3>3. CASE i = 2
      <4>1. h[1] = s1 /\ h[2] = s2
        BY <1>1, <3>3
      <4> HIDE DEF h, s1
      <4>2. rule(h)[2] = Decode(size, rank, h[1], 2)
        BY <1>1, <3>3
      <4>3. QED
        BY <3>3, <4>1, <4>2
    <3>4. QED
      BY <1>1, <3>1, <3>2, <3>3
  <2>2. h = [i \in 0 .. d - 1 |-> h[i]]
    <3> DEFINE v(i) == CASE i = 0 -> s0 [] i = 1 -> s1 [] i = 2 -> s2
    <3>1. h = [i \in 0 .. d - 1 |-> v(i)]
      OBVIOUS
    <3> HIDE DEF v, h
    <3>2. QED
      BY <3>1
  <2> HIDE DEF h
  <2>3. h = rule(h)
    BY <2>1, <2>2
  <2>4. QED
    BY <2>3
<1>4. turn = rule(turn)
  <2> HIDE DEF rule
  <2>1. QED
    BY <1>3
<1> HIDE DEF turn
<1>5. turn[0] = s0
  <2>1. turn[0] = rule(turn)[0]
    BY <1>4
  <2>2. QED
    BY <1>1, <2>1 DEF Undecoded
<1> HIDE DEF s0
<1>6. turn[1] = s1
  <2>1. turn[1] = rule(turn)[1]
    BY <1>4
  <2>2. rule(turn)[1] = Decode(size, rank, turn[0], 1)
    BY <1>1
  <2>3. QED
    BY <1>5, <2>1, <2>2
<1> HIDE DEF s1
<1>7. d = 3 => turn[2] = s2
  <2>1. ASSUME d = 3 PROVE turn[2] = s2
    <3>1. turn[2] = rule(turn)[2]
      BY <1>4
    <3>2. rule(turn)[2] = Decode(size, rank, turn[1], 2)
      BY <2>1
    <3>3. QED
      BY <1>6, <3>1, <3>2
  <2>2. QED
    BY <2>1
<1>8. QED
  BY <1>2, <1>6, <1>7 DEF s0, s1, s2

(* The coordinates in the smallest box whose sizes are powers of two.       *)
BoxOf(size) == {c \in [DOMAIN size -> Nat] : \A e \in DOMAIN size : c[e] < 2 ^ Log2(size[e])}

LEMMA RestTurn ==
  ASSUME NEW d, NEW size, IsSize(size, d), NEW rank, IsRank(rank, d),
         NEW l \in Nat, l <= Log2(size[rank[d]])
  PROVE  LET from == Decoded(size, rank, d - 1, l, Log2(size[rank[d]]) - l)
         IN  /\ \A s \in from : Rest(rank, d, s) \in BoxOf(size)
             /\ \A r, s \in from : Rest(rank, d, r) = Rest(rank, d, s) => r = s
             /\ \A c \in BoxOf(size) : \E s \in from : Rest(rank, d, s) = c
<1> DEFINE L == Log2(size[rank[d]])
           B == L - l
           f == rank[d]
           from == Decoded(size, rank, d - 1, l, B)
<1>1. d \in {2, 3} /\ DOMAIN size = 1 .. d /\ \A e \in 1 .. d : Log2(size[e]) \in 0 .. 6
  BY SizeIs DEF IsSize
<1>2. /\ \A k \in 1 .. d : rank[k] \in 1 .. d
      /\ \A j, k \in 1 .. d : rank[j] = rank[k] => j = k
      /\ \A e \in 1 .. d : \E k \in 1 .. d : rank[k] = e
      /\ f \in 1 .. d /\ d \in 1 .. d
  <2>1. d \in 1 .. d
    BY <1>1
  <2>2. \A e \in 1 .. d : \E k \in 1 .. d : rank[k] = e
    BY <1>1, RankOnto
  <2>3. QED
    BY <2>1, <2>2 DEF IsRank
<1>3. L \in 0 .. 6 /\ B \in 0 .. 6 /\ l \in 0 .. 6 /\ l + B = L
  <2>1. L \in 0 .. 6
    BY <1>1, <1>2
  <2>2. QED
    BY <2>1
<1>4. /\ 2 ^ l \in Nat /\ 2 ^ l >= 1 /\ 2 ^ B \in Nat /\ 2 ^ B >= 1 /\ 2 ^ L = 2 ^ l * 2 ^ B
  <2> HIDE DEF B, L
  <2>1. l \in 0 .. 22 /\ B \in 0 .. 22 /\ B \in Nat /\ l + B <= 22
    BY <1>3
  <2>2. 2 ^ l \in Nat /\ 2 ^ l >= 1 /\ 2 ^ B \in Nat /\ 2 ^ B >= 1
    BY <2>1, Powers
  <2>3. 2 ^ (l + B) = 2 ^ l * 2 ^ B
    BY <2>1, PowerSum
  <2>4. QED
    BY <1>3, <2>2, <2>3
<1>5. ASSUME NEW s \in from
      PROVE  /\ s \in [tx : [1 .. d -> Nat], treeId : 0 .. 2 ^ B - 1, lastlog : {l}]
             /\ s.tx \in [1 .. d -> Nat] /\ s.treeId \in 0 .. 2 ^ B - 1 /\ s.lastlog = l
             /\ s.tx[f] \in 0 .. 2 ^ l - 1
             /\ \A e \in 1 .. d : e # f => s.tx[e] < 2 ^ Log2(size[e])
             /\ Rest(rank, d, s) = [e \in 1 .. d |-> IF e = f THEN s.treeId * 2 ^ l + s.tx[f] ELSE s.tx[e]]
  <2>1. /\ s \in [tx : [1 .. d -> Nat], treeId : 0 .. 2 ^ B - 1, lastlog : {l}]
        /\ \A k \in 1 .. d : s.tx[rank[k]] < 2 ^ (IF k <= d - 1 THEN Log2(size[rank[k]]) ELSE l)
    BY <1>1 DEF Decoded
  <2>2. s.tx \in [1 .. d -> Nat] /\ s.treeId \in 0 .. 2 ^ B - 1 /\ s.lastlog = l
    BY <2>1
  <2>3. s.tx[f] \in 0 .. 2 ^ l - 1
    <3>1. ~ (d <= d - 1)
      BY <1>1
    <3>2. s.tx[f] < 2 ^ l
      BY <1>2, <2>1, <3>1
    <3>3. s.tx[f] \in Nat
      BY <1>2, <2>2
    <3>4. QED
      BY <1>4, <3>2, <3>3
  <2>4. ASSUME NEW e \in 1 .. d, e # f PROVE s.tx[e] < 2 ^ Log2(size[e])
    <3>1. PICK k \in 1 .. d : rank[k] = e
      BY <1>2
    <3>2. k <= d - 1
      BY <1>1, <2>4, <3>1
    <3>3. QED
      BY <2>1, <3>1, <3>2
  <2>5. Rest(rank, d, s) = [e \in 1 .. d |-> IF e = f THEN s.treeId * 2 ^ l + s.tx[f] ELSE s.tx[e]]
    <3>1. Rest(rank, d, s) = [s.tx EXCEPT ![f] = s.tx[f] + s.treeId * 2 ^ l]
      BY <2>2 DEF Rest
    <3>2. s.tx[f] + s.treeId * 2 ^ l = s.treeId * 2 ^ l + s.tx[f]
      BY <1>4, <2>2, <2>3
    <3>3. [s.tx EXCEPT ![f] = s.tx[f] + s.treeId * 2 ^ l]
            = [e \in 1 .. d |-> IF e = f THEN s.tx[f] + s.treeId * 2 ^ l ELSE s.tx[e]]
      BY <1>2, <2>2
    <3>4. QED
      BY <3>1, <3>2, <3>3
  <2>6. QED
    BY <2>1, <2>2, <2>3, <2>4, <2>5
<1> HIDE DEF L, B, f
<1>6. ASSUME NEW s \in from PROVE Rest(rank, d, s) \in BoxOf(size)
  <2> DEFINE c == Rest(rank, d, s)
  <2>1. c = [e \in 1 .. d |-> IF e = f THEN s.treeId * 2 ^ l + s.tx[f] ELSE s.tx[e]]
    BY <1>5
  <2>2. s.treeId * 2 ^ l + s.tx[f] \in Nat /\ s.treeId * 2 ^ l + s.tx[f] < 2 ^ L
    <3> DEFINE x == s.treeId
               a == s.tx[f]
    <3>1. x \in 0 .. 2 ^ B - 1 /\ a \in 0 .. 2 ^ l - 1
      BY <1>5
    <3> HIDE DEF x, a
    <3>2. x * 2 ^ l \in Nat /\ x * 2 ^ l <= (2 ^ B - 1) * 2 ^ l
      BY <1>4, <3>1
    <3>3. (2 ^ B - 1) * 2 ^ l = 2 ^ L - 2 ^ l
      BY <1>4
    <3>4. x * 2 ^ l + a \in Nat /\ x * 2 ^ l + a < 2 ^ L
      BY <1>4, <3>1, <3>2, <3>3
    <3>5. QED
      BY <3>4 DEF x, a
  <2>3. ASSUME NEW e \in 1 .. d PROVE c[e] \in Nat /\ c[e] < 2 ^ Log2(size[e])
    <3>1. CASE e = f
      <4>1. c[e] = s.treeId * 2 ^ l + s.tx[f] /\ Log2(size[e]) = L
        BY <2>1, <3>1 DEF f, L
      <4>2. QED
        BY <2>2, <4>1
    <3>2. CASE e # f
      <4>1. c[e] = s.tx[e]
        BY <2>1, <3>2
      <4>2. s.tx[e] \in Nat /\ s.tx[e] < 2 ^ Log2(size[e])
        BY <1>5, <3>2
      <4>3. QED
        BY <4>1, <4>2
    <3>3. QED
      BY <3>1, <3>2
  <2>4. c = [e \in 1 .. d |-> c[e]]
    BY <2>1
  <2> HIDE DEF c
  <2>5. c \in BoxOf(size)
    BY <1>1, <2>3, <2>4 DEF BoxOf
  <2>6. QED
    BY <2>5 DEF c
<1>7. ASSUME NEW r \in from, NEW s \in from, Rest(rank, d, r) = Rest(rank, d, s) PROVE r = s
  <2> DEFINE g == Rest(rank, d, r)
             h == Rest(rank, d, s)
             a == r.tx
             b == s.tx
  <2>1. /\ g = [e \in 1 .. d |-> IF e = f THEN r.treeId * 2 ^ l + a[f] ELSE a[e]]
        /\ h = [e \in 1 .. d |-> IF e = f THEN s.treeId * 2 ^ l + b[f] ELSE b[e]]
    BY <1>5
  <2>2. \A e \in 1 .. d : e # f => a[e] = b[e]
    <3>1. ASSUME NEW e \in 1 .. d, e # f PROVE a[e] = b[e]
      <4>1. g[e] = a[e] /\ h[e] = b[e]
        BY <2>1, <3>1
      <4>2. QED
        BY <1>7, <4>1
    <3>2. QED
      BY <3>1
  <2>3. r.treeId = s.treeId /\ a[f] = b[f]
    <3> DEFINE x == r.treeId
               y == s.treeId
    <3>1. g[f] = x * 2 ^ l + a[f] /\ h[f] = y * 2 ^ l + b[f]
      BY <1>2, <2>1
    <3>2. x \in Int /\ y \in Int /\ a[f] \in 0 .. 2 ^ l - 1 /\ b[f] \in 0 .. 2 ^ l - 1
      BY <1>5
    <3>3. x * 2 ^ l + a[f] = y * 2 ^ l + b[f]
      BY <1>7, <3>1
    <3> HIDE DEF x, y, a, b
    <3>4. (x * 2 ^ l + a[f]) \div 2 ^ l = x /\ (x * 2 ^ l + a[f]) % 2 ^ l = a[f]
      BY <1>4, <3>2, Division
    <3>5. (y * 2 ^ l + b[f]) \div 2 ^ l = y /\ (y * 2 ^ l + b[f]) % 2 ^ l = b[f]
      BY <1>4, <3>2, Division
    <3>6. x = y /\ a[f] = b[f]
      BY <3>3, <3>4, <3>5
    <3>7. QED
      BY <3>6 DEF x, y
  <2>4. a \in [1 .. d -> Nat] /\ b \in [1 .. d -> Nat]
    BY <1>5
  <2>5. a = b
    <3>1. a = [e \in 1 .. d |-> a[e]] /\ b = [e \in 1 .. d |-> b[e]]
      BY <2>4
    <3> HIDE DEF a, b
    <3>2. \A e \in 1 .. d : a[e] = b[e]
      BY <2>2, <2>3
    <3>3. QED
      BY <3>1, <3>2
  <2>6. QED
    BY <1>5, <2>3, <2>5
<1>8. ASSUME NEW c \in BoxOf(size) PROVE \E s \in from : Rest(rank, d, s) = c
  <2>1. c \in [1 .. d -> Nat] /\ \A e \in 1 .. d : c[e] < 2 ^ Log2(size[e])
    BY <1>1 DEF BoxOf
  <2> DEFINE tx == [e \in 1 .. d |-> IF e = f THEN c[f] % 2 ^ l ELSE c[e]]
             s  == [tx |-> tx, treeId |-> c[f] \div 2 ^ l, lastlog |-> l]
  <2>2. c[f] \in Nat /\ c[f] < 2 ^ l * 2 ^ B
    <3>1. c[f] \in Nat /\ c[f] < 2 ^ Log2(size[f])
      BY <1>2, <2>1
    <3>2. Log2(size[f]) = L
      BY DEF f, L
    <3>3. QED
      BY <1>4, <3>1, <3>2
  <2>3. c[f] \div 2 ^ l \in 0 .. 2 ^ B - 1
    <3>1. c[f] \div 2 ^ l \in Nat
      BY <1>4, <2>2, DividedNat
    <3>2. c[f] \div 2 ^ l < 2 ^ B
      BY <1>4, <2>2, DividedBelow
    <3>3. QED
      BY <1>4, <3>1, <3>2
  <2>4. c[f] % 2 ^ l \in 0 .. 2 ^ l - 1 /\ c[f] = (c[f] \div 2 ^ l) * 2 ^ l + (c[f] % 2 ^ l)
    <3> DEFINE z == c[f]
    <3>1. z \in Int
      BY <2>2
    <3> HIDE DEF z
    <3>2. z % 2 ^ l \in 0 .. 2 ^ l - 1 /\ z = (z \div 2 ^ l) * 2 ^ l + (z % 2 ^ l)
      BY <1>4, <3>1, Divided
    <3>3. QED
      BY <3>2 DEF z
  <2>5. tx[f] = c[f] % 2 ^ l /\ \A e \in 1 .. d : e # f => tx[e] = c[e]
    BY <1>2
  <2>6. tx \in [1 .. d -> Nat]
    <3>1. \A e \in 1 .. d : tx[e] \in Nat
      <4>1. tx[f] \in Nat
        BY <1>4, <2>4, <2>5
      <4>2. \A e \in 1 .. d : c[e] \in Nat
        BY <2>1
      <4> HIDE DEF tx
      <4>3. QED
        BY <2>5, <4>1, <4>2
    <3>2. QED
      BY <3>1
  <2>7. s \in from
    <3>1. ASSUME NEW k \in 1 .. d
          PROVE  tx[rank[k]] < 2 ^ (IF k <= d - 1 THEN Log2(size[rank[k]]) ELSE l)
      <4>1. CASE k = d
        <5>1. rank[k] = f /\ ~ (k <= d - 1)
          BY <1>1, <4>1 DEF f
        <5>2. tx[f] < 2 ^ l
          BY <1>4, <2>4, <2>5
        <5> HIDE DEF tx
        <5>3. QED
          BY <5>1, <5>2
      <4>2. CASE k # d
        <5>1. rank[k] # f /\ k <= d - 1 /\ rank[k] \in 1 .. d
          <6>1. rank[k] \in 1 .. d /\ rank[k] # rank[d]
            BY <1>2, <4>2
          <6>2. QED
            BY <1>1, <4>2, <6>1 DEF f
        <5> HIDE DEF tx
        <5>2. tx[rank[k]] = c[rank[k]] /\ c[rank[k]] < 2 ^ Log2(size[rank[k]])
          BY <2>1, <2>5, <5>1
        <5>3. QED
          BY <5>1, <5>2
      <4>3. QED
        BY <4>1, <4>2
    <3>2. s.tx = tx
      OBVIOUS
    <3> HIDE DEF tx
    <3>3. s \in [tx : [1 .. d -> Nat], treeId : 0 .. 2 ^ B - 1, lastlog : {l}]
      BY <2>3, <2>6
    <3> HIDE DEF s
    <3>4. QED
      BY <1>1, <3>1, <3>2, <3>3 DEF Decoded
  <2>8. Rest(rank, d, s) = c
    <3>1. s.treeId = c[f] \div 2 ^ l /\ s.tx = tx
      OBVIOUS
    <3> HIDE DEF s
    <3>2. Rest(rank, d, s) = [e \in 1 .. d |-> IF e = f THEN s.treeId * 2 ^ l + s.tx[f] ELSE s.tx[e]]
      BY <1>5, <2>7
    <3> HIDE DEF tx
    <3>3. \A e \in 1 .. d : (IF e = f THEN s.treeId * 2 ^ l + s.tx[f] ELSE s.tx[e]) = c[e]
      BY <2>4, <2>5, <3>1
    <3>4. c = [e \in 1 .. d |-> c[e]]
      BY <2>1
    <3>5. QED
      BY <3>2, <3>3, <3>4
  <2>9. QED
    BY <2>7, <2>8
<1>9. QED
  BY <1>6, <1>7, <1>8 DEF B, L

LEMMA TermsTo2 ==
  ASSUME NEW f, \A i \in 1 .. 2 : f[i] \in Nat
  PROVE  Total(f, 1 .. 2) = f[1] + f[2]
<1> DEFINE A == {1, 2}
           B == A \ {2}
           C == B \ {1}
<1>1. 1 .. 2 = A /\ A \in SUBSET (1 .. 3)
  OBVIOUS
<1>2. IsFiniteSet(A)
  BY <1>1, CountedTo3
<1>3. IsFiniteSet(B) /\ IsFiniteSet(C) /\ C = {} /\ 2 \in A /\ 1 \in B /\ B \subseteq A
  BY <1>2, FS_RemoveElement
<1>4. f[1] \in Nat /\ f[2] \in Nat /\ \A x \in A : f[x] \in Nat
  OBVIOUS
<1>5. \A x \in B : f[x] \in Nat
  BY <1>3, <1>4
<1>6. \A x \in C : f[x] \in Nat
  BY <1>3
<1> HIDE DEF A, B, C
<1>7. Total(f, A) = f[2] + Total(f, A \ {2}) /\ Total(f, B) = f[1] + Total(f, B \ {1})
  BY <1>2, <1>3, <1>4, <1>5, TotalStep
<1>8. Total(f, C) = 0
  BY <1>3, <1>6, TotalStep
<1>9. Total(f, A) = f[2] + (f[1] + 0)
  BY <1>7, <1>8 DEF B, C
<1>10. QED
  BY <1>1, <1>4, <1>9

LEMMA TermsTo3 ==
  ASSUME NEW f, \A i \in 1 .. 3 : f[i] \in Nat
  PROVE  Total(f, 1 .. 3) = f[1] + f[2] + f[3]
<1> DEFINE A == {1, 2, 3}
           B == A \ {3}
<1>1. 1 .. 3 = A /\ A \in SUBSET (1 .. 3)
  OBVIOUS
<1>2. IsFiniteSet(A)
  BY <1>1, CountedTo3
<1>3. 3 \in A /\ B = 1 .. 2
  OBVIOUS
<1>4. f[1] \in Nat /\ f[2] \in Nat /\ f[3] \in Nat /\ \A x \in A : f[x] \in Nat
  OBVIOUS
<1>5. \A i \in 1 .. 2 : f[i] \in Nat
  OBVIOUS
<1> HIDE DEF A, B
<1>6. Total(f, A) = f[3] + Total(f, A \ {3})
  BY <1>2, <1>3, <1>4, TotalStep
<1>7. Total(f, 1 .. 2) = f[1] + f[2]
  BY <1>5, TermsTo2
<1>8. Total(f, A) = f[3] + (f[1] + f[2])
  BY <1>3, <1>6, <1>7 DEF B
<1>9. QED
  BY <1>1, <1>4, <1>8

(* The states toXYZ starts from.                                            *)
LEMMA FirstTurn ==
  ASSUME NEW d, NEW size, IsSize(size, d), NEW rank, IsRank(rank, d), NEW B \in 0 .. 22
  PROVE  /\ \A x \in 0 .. 2 ^ B - 1 : Undecoded(d, x) \in Decoded(size, rank, 0, 0, B)
         /\ \A s \in Decoded(size, rank, 0, 0, B) :
               s.treeId \in 0 .. 2 ^ B - 1 /\ s = Undecoded(d, s.treeId)
<1>1. d \in {2, 3} /\ DOMAIN size = 1 .. d /\ 2 ^ 0 = 1 /\ 2 ^ B \in Nat /\ 2 ^ B >= 1
  BY Powers, SizeIs DEF IsSize
<1>2. \A k \in 1 .. d : rank[k] \in 1 .. d
  BY DEF IsRank
<1>3. \A e \in 1 .. d : \E k \in 1 .. d : rank[k] = e
  BY <1>1, RankOnto
<1>4. ASSUME NEW x \in 0 .. 2 ^ B - 1 PROVE Undecoded(d, x) \in Decoded(size, rank, 0, 0, B)
  <2> DEFINE s == Undecoded(d, x)
  <2>1. s \in [tx : [1 .. d -> Nat], treeId : 0 .. 2 ^ B - 1, lastlog : {0}]
    BY DEF Undecoded
  <2>2. ASSUME NEW k \in 1 .. d
        PROVE  s.tx[rank[k]] < 2 ^ (IF k <= 0 THEN Log2(size[rank[k]]) ELSE 0)
    <3>1. s.tx[rank[k]] = 0
      BY <1>2 DEF Undecoded
    <3>2. ~ (k <= 0)
      BY <1>1
    <3> HIDE DEF s
    <3>3. QED
      BY <1>1, <3>1, <3>2
  <2> HIDE DEF s
  <2>3. s \in Decoded(size, rank, 0, 0, B)
    BY <1>1, <2>1, <2>2 DEF Decoded
  <2>4. QED
    BY <2>3 DEF s
<1>5. ASSUME NEW s \in Decoded(size, rank, 0, 0, B)
      PROVE  s.treeId \in 0 .. 2 ^ B - 1 /\ s = Undecoded(d, s.treeId)
  <2>1. /\ s \in [tx : [1 .. d -> Nat], treeId : 0 .. 2 ^ B - 1, lastlog : {0}]
        /\ \A k \in 1 .. d : s.tx[rank[k]] < 2 ^ (IF k <= 0 THEN Log2(size[rank[k]]) ELSE 0)
    BY <1>1 DEF Decoded
  <2>2. /\ s.tx \in [1 .. d -> Nat] /\ s.treeId \in 0 .. 2 ^ B - 1
        /\ s = [tx |-> s.tx, treeId |-> s.treeId, lastlog |-> 0]
    BY <2>1
  <2>3. ASSUME NEW e \in 1 .. d PROVE s.tx[e] = 0
    <3>1. PICK k \in 1 .. d : rank[k] = e
      BY <1>3
    <3>2. ~ (k <= 0)
      BY <1>1
    <3>3. s.tx[e] < 1
      BY <1>1, <2>1, <3>1, <3>2
    <3>4. s.tx[e] \in Nat
      BY <2>2
    <3>5. QED
      BY <3>3, <3>4
  <2>4. s.tx = [e \in 1 .. d |-> 0]
    BY <2>2, <2>3
  <2>5. QED
    BY <2>2, <2>4 DEF Undecoded
<1>6. QED
  BY <1>4, <1>5

(* Together: toXYZ is a bijection between the numbers and the box.            *)
LEMMA ToXYZOnto ==
  ASSUME NEW d, NEW size, IsSize(size, d)
  PROVE  LET rank == rankx(size)
             N    == n_iter(size)
         IN  /\ N \in Nat
             /\ \A x \in 0 .. N - 1 : toXYZ(size, rank, x) \in BoxOf(size)
             /\ \A x, y \in 0 .. N - 1 : toXYZ(size, rank, x) = toXYZ(size, rank, y) => x = y
             /\ \A c \in BoxOf(size) : \E x \in 0 .. N - 1 : toXYZ(size, rank, x) = c
<1> DEFINE rank == rankx(size)
           N    == n_iter(size)
           L(k) == Log2(size[rank[k]])
           Onto == /\ N \in Nat
                   /\ \A x \in 0 .. N - 1 : toXYZ(size, rank, x) \in BoxOf(size)
                   /\ \A x, y \in 0 .. N - 1 : toXYZ(size, rank, x) = toXYZ(size, rank, y) => x = y
                   /\ \A c \in BoxOf(size) : \E x \in 0 .. N - 1 : toXYZ(size, rank, x) = c
<1>1. d \in {2, 3} /\ Len(size) = d /\ DOMAIN size = 1 .. d /\ \A e \in 1 .. d : Log2(size[e]) \in 0 .. 6
  BY SizeIs DEF IsSize
<1>2. d = 3 => \A e \in 1 .. d : Log2(size[e]) <= 5
  BY SizeIs
<1>3. IsRank(rank, d) /\ \A i, j \in 1 .. d : i <= j => L(i) <= L(j)
  BY RankIs DEF IsRank
<1>4. \A k \in 1 .. d : rank[k] \in 1 .. d
  BY <1>3 DEF IsRank
<1> DEFINE bits == [e \in 1 .. d |-> Log2(size[e])]
<1>5. N = 2 ^ Total(bits, 1 .. d)
  BY <1>1 DEF n_iter
<1> HIDE DEF rank, N
<1>6. ASSUME d = 2 PROVE Onto
  <2> DEFINE B == L(1) + L(2)
             D0 == Decoded(size, rank, 0, 0, B)
             D1 == Decoded(size, rank, 1, L(1), L(2) - L(1))
  <2>1. /\ 1 \in 1 .. d /\ 2 \in 1 .. d /\ d - 1 = 1 /\ 1 - 1 = 0 /\ 1 \in 1 .. d - 1 /\ d - 1 + 1 = 2
        /\ L(1) \in 0 .. 6 /\ L(2) \in 0 .. 6 /\ L(1) <= L(2)
    BY <1>1, <1>3, <1>4, <1>6
  <2>2. B \in 0 .. 22 /\ 2 * (L(1) - 0) <= B /\ B - 2 * (L(1) - 0) = L(2) - L(1)
    BY <2>1
  <2>3. N = 2 ^ B
    <3>1. \A i \in 1 .. 2 : bits[i] \in Nat
      BY <1>1, <1>6
    <3>2. Total(bits, 1 .. 2) = bits[1] + bits[2]
      <4> HIDE DEF bits
      <4>1. QED
        BY <3>1, TermsTo2
    <3>3. rank[1] \in {1, 2} /\ rank[2] \in {1, 2} /\ rank[1] # rank[2]
      BY <1>3, <1>6 DEF IsRank
    <3>4. bits[1] = Log2(size[1]) /\ bits[2] = Log2(size[2]) /\ bits[1] \in Nat /\ bits[2] \in Nat
      BY <1>1, <1>6
    <3> HIDE DEF bits
    <3>5. bits[1] + bits[2] = B
      BY <3>3, <3>4
    <3>6. QED
      BY <1>5, <1>6, <3>2, <3>5
  <2>4. /\ \A x \in 0 .. N - 1 : Undecoded(d, x) \in D0
        /\ \A s \in D0 : s.treeId \in 0 .. N - 1 /\ s = Undecoded(d, s.treeId)
        /\ N \in Nat
    <3> HIDE DEF B
    <3>1. 2 ^ B \in Nat
      BY <2>2, Powers
    <3>2. QED
      BY <1>3, <2>2, <2>3, <3>1, FirstTurn
  <2>5. /\ \A s \in D0 : Decode(size, rank, s, 1) \in D1
        /\ \A r, s \in D0 : Decode(size, rank, r, 1) = Decode(size, rank, s, 1) => r = s
        /\ \A t \in D1 : \E s \in D0 : Decode(size, rank, s, 1) = t
    <3>1. Bits(size, rank, d, 1, 0) = 2 * (L(1) - 0)
      BY <1>6 DEF Bits
    <3>2. L(2) - L(1) \in Nat /\ L(2) - L(1) = B - Bits(size, rank, d, 1, 0)
      BY <2>1, <2>2, <3>1
    <3>3. 0 \in Nat /\ 0 <= L(1)
      BY <2>1
    <3> HIDE DEF B
    <3>4. IsTurn(size, rank, 1, Decoded(size, rank, 1 - 1, 0, B), D1)
      BY <1>3, <2>1, <2>2, <3>2, <3>3, DecodeTurn
    <3>5. QED
      BY <2>1, <3>4 DEF IsTurn
  <2>6. /\ \A s \in D1 : Rest(rank, d, s) \in BoxOf(size)
        /\ \A r, s \in D1 : Rest(rank, d, r) = Rest(rank, d, s) => r = s
        /\ \A c \in BoxOf(size) : \E s \in D1 : Rest(rank, d, s) = c
    <3>1. L(1) \in Nat /\ L(1) <= Log2(size[rank[d]]) /\ Log2(size[rank[d]]) - L(1) = L(2) - L(1)
      BY <1>6, <2>1
    <3>2. QED
      BY <1>3, <2>1, <3>1, RestTurn
  <2>7. \A x : toXYZ(size, rank, x) = Rest(rank, d, Decode(size, rank, Undecoded(d, x), 1))
    BY <1>6, ToXYZIs
  <2> HIDE DEF B, D0, D1
  <2>8. \A x, y \in 0 .. N - 1 : Undecoded(d, x) = Undecoded(d, y) => x = y
    <3>1. \A x : Undecoded(d, x).treeId = x
      BY DEF Undecoded
    <3>2. QED
      BY <3>1
  <2>9. \A x \in 0 .. N - 1 : toXYZ(size, rank, x) \in BoxOf(size)
    BY <2>4, <2>5, <2>6, <2>7
  <2>10. \A x, y \in 0 .. N - 1 : toXYZ(size, rank, x) = toXYZ(size, rank, y) => x = y
    BY <2>4, <2>5, <2>6, <2>7, <2>8
  <2>11. ASSUME NEW c \in BoxOf(size) PROVE \E x \in 0 .. N - 1 : toXYZ(size, rank, x) = c
    <3>1. PICK t \in D1 : Rest(rank, d, t) = c
      BY <2>6
    <3>2. PICK s \in D0 : Decode(size, rank, s, 1) = t
      BY <2>5
    <3>3. QED
      BY <2>4, <2>7, <3>1, <3>2
  <2>12. QED
    BY <2>4, <2>9, <2>10, <2>11
<1>7. ASSUME d = 3 PROVE Onto
  <2> DEFINE B == L(1) + L(2) + L(3)
             C == (L(2) - L(1)) + (L(3) - L(1))
             D0 == Decoded(size, rank, 0, 0, B)
             D1 == Decoded(size, rank, 1, L(1), C)
             D2 == Decoded(size, rank, 2, L(2), L(3) - L(2))
  <2>1. /\ 1 \in 1 .. d /\ 2 \in 1 .. d /\ 3 \in 1 .. d /\ d - 1 = 2 /\ 1 - 1 = 0 /\ 2 - 1 = 1
        /\ 1 \in 1 .. d - 1 /\ 2 \in 1 .. d - 1 /\ d - 1 + 1 = 3 /\ d - 2 + 1 = 2
        /\ L(1) \in 0 .. 5 /\ L(2) \in 0 .. 5 /\ L(3) \in 0 .. 5 /\ L(1) <= L(2) /\ L(2) <= L(3)
    BY <1>1, <1>2, <1>3, <1>4, <1>7
  <2>2. /\ B \in 0 .. 22 /\ 3 * (L(1) - 0) <= B /\ B - 3 * (L(1) - 0) = C
        /\ C \in 0 .. 22 /\ 2 * (L(2) - L(1)) <= C /\ C - 2 * (L(2) - L(1)) = L(3) - L(2)
    BY <2>1
  <2>3. N = 2 ^ B
    <3>1. \A i \in 1 .. 3 : bits[i] \in Nat
      BY <1>1, <1>7
    <3>2. Total(bits, 1 .. 3) = bits[1] + bits[2] + bits[3]
      <4> HIDE DEF bits
      <4>1. QED
        BY <3>1, TermsTo3
    <3>3. /\ rank[1] \in {1, 2, 3} /\ rank[2] \in {1, 2, 3} /\ rank[3] \in {1, 2, 3}
          /\ rank[1] # rank[2] /\ rank[1] # rank[3] /\ rank[2] # rank[3]
      BY <1>3, <1>7 DEF IsRank
    <3>4. /\ bits[1] = Log2(size[1]) /\ bits[2] = Log2(size[2]) /\ bits[3] = Log2(size[3])
          /\ bits[1] \in Nat /\ bits[2] \in Nat /\ bits[3] \in Nat
      BY <1>1, <1>7
    <3> HIDE DEF bits
    <3>5. bits[1] + bits[2] + bits[3] = B
      BY <3>3, <3>4
    <3>6. QED
      BY <1>5, <1>7, <3>2, <3>5
  <2>4. /\ \A x \in 0 .. N - 1 : Undecoded(d, x) \in D0
        /\ \A s \in D0 : s.treeId \in 0 .. N - 1 /\ s = Undecoded(d, s.treeId)
        /\ N \in Nat
    <3> HIDE DEF B
    <3>1. 2 ^ B \in Nat
      BY <2>2, Powers
    <3>2. QED
      BY <1>3, <2>2, <2>3, <3>1, FirstTurn
  <2>5. /\ \A s \in D0 : Decode(size, rank, s, 1) \in D1
        /\ \A r, s \in D0 : Decode(size, rank, r, 1) = Decode(size, rank, s, 1) => r = s
        /\ \A t \in D1 : \E s \in D0 : Decode(size, rank, s, 1) = t
    <3>1. Bits(size, rank, d, 1, 0) = 3 * (L(1) - 0)
      BY <1>7 DEF Bits
    <3>2. C \in Nat /\ C = B - Bits(size, rank, d, 1, 0)
      BY <2>1, <2>2, <3>1
    <3>3. 0 \in Nat /\ 0 <= L(1)
      BY <2>1
    <3> HIDE DEF B, C
    <3>4. IsTurn(size, rank, 1, Decoded(size, rank, 1 - 1, 0, B), D1)
      BY <1>3, <2>1, <2>2, <3>2, <3>3, DecodeTurn
    <3>5. QED
      BY <2>1, <3>4 DEF IsTurn
  <2>6. /\ \A s \in D1 : Decode(size, rank, s, 2) \in D2
        /\ \A r, s \in D1 : Decode(size, rank, r, 2) = Decode(size, rank, s, 2) => r = s
        /\ \A t \in D2 : \E s \in D1 : Decode(size, rank, s, 2) = t
    <3>1. Bits(size, rank, d, 2, L(1)) = 2 * (L(2) - L(1))
      BY <1>7 DEF Bits
    <3>2. L(3) - L(2) \in Nat /\ L(3) - L(2) = C - Bits(size, rank, d, 2, L(1))
      BY <2>1, <2>2, <3>1
    <3>3. L(1) \in Nat
      BY <2>1
    <3> HIDE DEF C
    <3>4. IsTurn(size, rank, 2, Decoded(size, rank, 2 - 1, L(1), C), D2)
      BY <1>3, <2>1, <2>2, <3>2, <3>3, DecodeTurn
    <3>5. QED
      BY <2>1, <3>4 DEF IsTurn
  <2>7. /\ \A s \in D2 : Rest(rank, d, s) \in BoxOf(size)
        /\ \A r, s \in D2 : Rest(rank, d, r) = Rest(rank, d, s) => r = s
        /\ \A c \in BoxOf(size) : \E s \in D2 : Rest(rank, d, s) = c
    <3>1. L(2) \in Nat /\ L(2) <= Log2(size[rank[d]]) /\ Log2(size[rank[d]]) - L(2) = L(3) - L(2)
      BY <1>7, <2>1
    <3>2. QED
      BY <1>3, <2>1, <3>1, RestTurn
  <2>8. \A x : toXYZ(size, rank, x)
                 = Rest(rank, d, Decode(size, rank, Decode(size, rank, Undecoded(d, x), 1), 2))
    BY <1>7, ToXYZIs
  <2> HIDE DEF B, C, D0, D1, D2
  <2>9. \A x, y \in 0 .. N - 1 : Undecoded(d, x) = Undecoded(d, y) => x = y
    <3>1. \A x : Undecoded(d, x).treeId = x
      BY DEF Undecoded
    <3>2. QED
      BY <3>1
  <2>10. \A x \in 0 .. N - 1 : toXYZ(size, rank, x) \in BoxOf(size)
    BY <2>4, <2>5, <2>6, <2>7, <2>8
  <2>11. \A x, y \in 0 .. N - 1 : toXYZ(size, rank, x) = toXYZ(size, rank, y) => x = y
    BY <2>4, <2>5, <2>6, <2>7, <2>8, <2>9
  <2>12. ASSUME NEW c \in BoxOf(size) PROVE \E x \in 0 .. N - 1 : toXYZ(size, rank, x) = c
    <3>1. PICK u \in D2 : Rest(rank, d, u) = c
      BY <2>7
    <3>2. PICK t \in D1 : Decode(size, rank, t, 2) = u
      BY <2>6
    <3>3. PICK s \in D0 : Decode(size, rank, s, 1) = t
      BY <2>5
    <3>4. QED
      BY <2>4, <2>8, <3>1, <3>2, <3>3
  <2>13. QED
    BY <2>4, <2>10, <2>11, <2>12
<1>8. Onto
  <2> HIDE DEF Onto
  <2>1. QED
    BY <1>1, <1>6, <1>7
<1>9. QED
  BY <1>8 DEF N, rank

(* BrickConnectivityData::init: every tree of the brick has one number.      *)
THEOREM TreesNumbered ==
  ASSUME NEW d, NEW size, IsSize(size, d)
  PROVE  IsNumbering(m_brick_coords(size), TreesOf(size))
<1> DEFINE rank == rankx(size)
           N    == n_iter(size)
           all  == [i \in 1 .. N |-> toXYZ(size, rank, i - 1)]
<1>1. /\ N \in Nat
      /\ \A x \in 0 .. N - 1 : toXYZ(size, rank, x) \in BoxOf(size)
      /\ \A x, y \in 0 .. N - 1 : toXYZ(size, rank, x) = toXYZ(size, rank, y) => x = y
      /\ \A c \in BoxOf(size) : \E x \in 0 .. N - 1 : toXYZ(size, rank, x) = c
  BY ToXYZOnto
<1>2. m_brick_coords(size) = Chosen(all, TreesOf(size))
  BY DEF m_brick_coords
<1> HIDE DEF rank, N
<1>3. all \in Seq(BoxOf(size)) /\ DOMAIN all = 1 .. N
  BY <1>1
<1>4. Once(all)
  <2>1. ASSUME NEW i \in 1 .. N, NEW j \in 1 .. N, all[i] = all[j] PROVE i = j
    <3>1. i - 1 \in 0 .. N - 1 /\ j - 1 \in 0 .. N - 1
      BY <1>1
    <3>2. i - 1 = j - 1
      BY <1>1, <2>1, <3>1
    <3>3. QED
      BY <1>1, <3>2
  <2>2. QED
    BY <1>3, <2>1 DEF Once
<1>5. TreesOf(size) \subseteq BoxOf(size)
  <2>1. ASSUME NEW c \in TreesOf(size) PROVE c \in BoxOf(size)
    <3>1. /\ DOMAIN size = 1 .. d
          /\ \A e \in 1 .. d : size[e] \in Nat /\ 2 ^ Log2(size[e]) >= size[e]
                               /\ 2 ^ Log2(size[e]) \in Nat
      <4>1. /\ DOMAIN size = 1 .. d
            /\ \A e \in 1 .. d : size[e] \in 1 .. 64 /\ 2 ^ Log2(size[e]) >= size[e]
                                 /\ Log2(size[e]) \in 0 .. 6
        BY SizeIs
      <4>2. \A x : x \in 1 .. 64 => x \in Nat
        OBVIOUS
      <4>3. \A x : x \in 0 .. 6 => x \in 0 .. 22
        OBVIOUS
      <4>4. \A e \in 1 .. d : size[e] \in Nat /\ 2 ^ Log2(size[e]) \in Nat
        BY <4>1, <4>2, <4>3, Powers
      <4>5. QED
        BY <4>1, <4>4
    <3>2. c \in [1 .. d -> 0 .. Max(ToSet(size)) - 1] /\ \A e \in 1 .. d : c[e] < size[e]
      BY <3>1 DEF TreesOf
    <3>3. \A e \in 1 .. d : c[e] \in Nat
      BY <3>2
    <3>4. \A e \in 1 .. d : c[e] < 2 ^ Log2(size[e])
      BY <3>1, <3>2, <3>3
    <3>5. c \in [1 .. d -> Nat]
      BY <3>2, <3>3
    <3>6. QED
      BY <3>1, <3>4, <3>5 DEF BoxOf
  <2>2. QED
    BY <2>1
<1>6. ToSet(all) = BoxOf(size)
  <2>1. \A c \in BoxOf(size) : \E i \in 1 .. N : all[i] = c
    <3>1. ASSUME NEW c \in BoxOf(size) PROVE \E i \in 1 .. N : all[i] = c
      <4>1. PICK x \in 0 .. N - 1 : toXYZ(size, rank, x) = c
        BY <1>1
      <4>2. x + 1 \in 1 .. N /\ x + 1 - 1 = x
        BY <1>1
      <4>3. all[x + 1] = toXYZ(size, rank, x + 1 - 1)
        BY <4>2
      <4>4. QED
        BY <4>1, <4>2, <4>3
    <3>2. QED
      BY <3>1
  <2> HIDE DEF all
  <2>2. \A i \in 1 .. N : all[i] \in BoxOf(size)
    <3>1. \A i \in 1 .. N : i - 1 \in 0 .. N - 1
      BY <1>1
    <3>2. \A i \in 1 .. N : all[i] = toXYZ(size, rank, i - 1)
      BY DEF all
    <3>3. QED
      BY <1>1, <3>1, <3>2
  <2>3. ToSet(all) = {all[i] : i \in 1 .. N}
    BY <1>3, Zenon DEF ToSet
  <2>4. QED
    BY <2>1, <2>2, <2>3, Zenon
<1> DEFINE kept == Chosen(all, TreesOf(size))
<1> HIDE DEF all
<1>7. kept \in Seq(BoxOf(size) \cap TreesOf(size)) /\ Once(kept)
      /\ ToSet(kept) = ToSet(all) \cap TreesOf(size)
  BY <1>3, <1>4, ChosenType, ChosenOnce, ChosenElements
<1>8. BoxOf(size) \cap TreesOf(size) = TreesOf(size)
  BY <1>5
<1>9. QED
  <2> HIDE DEF kept
  <2>1. kept \in Seq(TreesOf(size)) /\ ToSet(kept) = TreesOf(size)
    BY <1>6, <1>7, <1>8
  <2>2. m_brick_coords(size) = kept
    BY <1>2 DEF kept
  <2>3. QED
    BY <1>7, <2>1, <2>2 DEF IsNumbering, Once

(* Two numberings have the same length.                                     *)
LEMMA OneEach ==
  ASSUME NEW S, NEW s, NEW t, IsNumbering(s, S), IsNumbering(t, S)
  PROVE  Len(s) = Len(t)
<1>1. ASSUME NEW u, IsNumbering(u, S) PROVE IsFiniteSet(S) /\ Cardinality(S) = Len(u)
  <2>1. u \in Seq(S) /\ ToSet(u) = S /\ \A i, j \in DOMAIN u : u[i] = u[j] => i = j
    BY <1>1 DEF IsNumbering
  <2>2. Len(u) \in Nat /\ DOMAIN u = 1 .. Len(u) /\ u \in [1 .. Len(u) -> S]
    BY <2>1
  <2>3. IsFiniteSet(1 .. Len(u)) /\ Cardinality(1 .. Len(u)) = Len(u)
    BY <2>2, FS_Interval, SMTT(30)
  <2>4. u \in Bijection(1 .. Len(u), S)
    <3>1. \A x \in S : \E i \in 1 .. Len(u) : u[i] = x
      BY <2>1, <2>2 DEF ToSet
    <3>2. QED
      BY <2>1, <2>2, <3>1 DEF Bijection, Injection, Surjection, IsInjective
  <2>5. QED
    BY <2>3, <2>4, FS_Bijection DEF ExistsBijection
<1>2. QED
  BY <1>1

----------------------------------------------------------------------------
(* Keys and their neighbours                                                *)

KeyLength(brick, l) == 2 ^ (MAX_LEVEL(Len(brick.size)) - l)

(* Keys whose corner is in the brick.                                       *)
AnyKey(brick) ==
    LET d == Len(brick.size)
    IN  {k \in [out : SUBSET (1 .. d), level : 0 .. MAX_LEVEL(d),
                xyz : [1 .. d -> Nat], tree : [1 .. d -> Nat]] :
            \A i \in 1 .. d : k.xyz[i] < ROOT_LENGTH(d) /\ k.tree[i] < brick.size[i]}

(* The keys of the octants of a brick, inside of it and outside: each lies in *)
(* its tree.                                                                *)
Key(brick) ==
    {k \in AnyKey(brick) :
        \A i \in 1 .. Len(brick.size) :
            k.xyz[i] <= ROOT_LENGTH(Len(brick.size)) - KeyLength(brick, k.level)}

LEMMA BrickIs ==
  ASSUME NEW brick, IsBrick(brick)
  PROVE  LET d == Len(brick.size)
         IN  /\ d \in {2, 3} /\ IsSize(brick.size, d) /\ DOMAIN brick.size = 1 .. d
             /\ \A i \in 1 .. d : /\ brick.size[i] \in Nat /\ brick.size[i] >= 1
                                  /\ brick.periodic[i] \in BOOLEAN
             /\ MAX_LEVEL(d) \in 0 .. 22
             /\ ROOT_LENGTH(d) \in Nat /\ ROOT_LENGTH(d) >= 1
             /\ \A l \in 0 .. MAX_LEVEL(d) : KeyLength(brick, l) \in 1 .. ROOT_LENGTH(d)
<1> DEFINE d == Len(brick.size)
<1>1. /\ d \in {2, 3} /\ brick.size \in [1 .. d -> 1 .. MAX_NB_TREES_PER_DIR(d)]
      /\ brick.periodic \in [1 .. d -> BOOLEAN]
  BY DEF IsBrick
<1> HIDE DEF d
<1>2. MAX_NB_TREES_PER_DIR(d) \in Nat /\ MAX_LEVEL(d) \in 0 .. 22
  BY <1>1 DEF MAX_NB_TREES_PER_DIR, MAX_LEVEL
<1>3. \A i \in 1 .. d : brick.size[i] \in Nat /\ brick.size[i] >= 1 /\ brick.periodic[i] \in BOOLEAN
  BY <1>1, <1>2
<1>4. ROOT_LENGTH(d) \in Nat /\ ROOT_LENGTH(d) >= 1
  BY <1>2, Powers DEF ROOT_LENGTH
<1>5. ASSUME NEW l \in 0 .. MAX_LEVEL(d)
      PROVE  KeyLength(brick, l) \in 1 .. ROOT_LENGTH(d)
  <2> DEFINE k == MAX_LEVEL(d) - l
  <2>1. k \in 0 .. 22 /\ l \in 0 .. 22 /\ k \in Nat /\ l \in Nat /\ k + l = MAX_LEVEL(d) /\ k + l <= 22
    BY <1>2
  <2>2. KeyLength(brick, l) = 2 ^ k
    BY DEF KeyLength, d
  <2> HIDE DEF k
  <2>3. 2 ^ k \in Nat /\ 2 ^ k >= 1 /\ 2 ^ l \in Nat /\ 2 ^ l >= 1
    BY <2>1, Powers
  <2>4. 2 ^ (k + l) = 2 ^ k * 2 ^ l
    BY <2>1, PowerSum
  <2>5. ROOT_LENGTH(d) = 2 ^ k * 2 ^ l
    BY <2>1, <2>4 DEF ROOT_LENGTH
  <2>6. \A x, y \in Nat : y >= 1 => x * y >= x
    OBVIOUS
  <2>7. QED
    BY <1>4, <2>2, <2>3, <2>5, <2>6
<1>6. IsSize(brick.size, d)
  BY <1>1 DEF IsSize
<1>7. QED
  BY <1>1, <1>2, <1>3, <1>4, <1>5, <1>6 DEF d

LEMMA Wrapped ==
  ASSUME NEW m \in Nat, m >= 1, NEW x \in 0 .. m - 1, NEW a \in 0 .. m
  PROVE  /\ (x + a) % m = IF x + a < m THEN x + a ELSE x + a - m
         /\ (x - a) % m = IF x - a >= 0 THEN x - a ELSE x - a + m
         /\ x % m = x
<1>1. \A y \in 0 .. m - 1 : y % m = y /\ (m + y) % m = y /\ (y - m) % m = y
  <2>1. TAKE y \in 0 .. m - 1
  <2>2. (0 * m + y) % m = y /\ (1 * m + y) % m = y /\ (-1 * m + y) % m = y
    BY Division
  <2>3. 0 * m + y = y /\ 1 * m + y = m + y /\ -1 * m + y = y - m
    OBVIOUS
  <2>4. QED
    BY <2>2, <2>3
<1>2. CASE x + a < m
  BY <1>1, <1>2
<1>3. QED
  OBVIOUS

(* What a key is made of.                                                   *)
LEMMA KeyIs ==
  ASSUME NEW brick, IsBrick(brick), NEW k \in AnyKey(brick)
  PROVE  LET d == Len(brick.size)
             m == ROOT_LENGTH(d)
             l == KeyLength(brick, k.level)
         IN  /\ k = [out |-> k.out, level |-> k.level, xyz |-> k.xyz, tree |-> k.tree]
             /\ k.out \subseteq 1 .. d /\ k.level \in 0 .. MAX_LEVEL(d)
             /\ DOMAIN k.xyz = 1 .. d /\ DOMAIN k.tree = 1 .. d
             /\ k.xyz = [i \in 1 .. d |-> k.xyz[i]] /\ k.tree = [i \in 1 .. d |-> k.tree[i]]
             /\ \A i \in 1 .. d : k.xyz[i] \in 0 .. m - 1 /\ k.tree[i] \in 0 .. brick.size[i] - 1
             /\ DIM(k) = d /\ octantLength(k) = l /\ last_offset(k) = m - l
             /\ m \in Nat /\ m >= 1 /\ l \in 1 .. m
<1> DEFINE d == Len(brick.size)
           m == ROOT_LENGTH(d)
           l == KeyLength(brick, k.level)
<1>1. /\ k \in [out : SUBSET (1 .. d), level : 0 .. MAX_LEVEL(d), xyz : [1 .. d -> Nat], tree : [1 .. d -> Nat]]
      /\ \A i \in 1 .. d : k.xyz[i] < m /\ k.tree[i] < brick.size[i]
  BY DEF AnyKey
<1>2. /\ d \in {2, 3} /\ \A i \in 1 .. d : brick.size[i] \in Nat
      /\ m \in Nat /\ m >= 1 /\ \A n \in 0 .. MAX_LEVEL(d) : KeyLength(brick, n) \in 1 .. m
  BY BrickIs
<1>3. KeyLength(brick, k.level) = 2 ^ (MAX_LEVEL(d) - k.level)
  BY DEF KeyLength
<1> HIDE DEF d, m
<1>4. k = [out |-> k.out, level |-> k.level, xyz |-> k.xyz, tree |-> k.tree]
  BY <1>1
<1>5. k.out \subseteq 1 .. d /\ k.level \in 0 .. MAX_LEVEL(d) /\ k.xyz \in [1 .. d -> Nat] /\ k.tree \in [1 .. d -> Nat]
  BY <1>1
<1>6. l \in 1 .. m
  BY <1>2, <1>5
<1> HIDE DEF l
<1>7. \A i \in 1 .. d : k.xyz[i] \in 0 .. m - 1 /\ k.tree[i] \in 0 .. brick.size[i] - 1
  <2>1. ASSUME NEW i \in 1 .. d PROVE k.xyz[i] \in 0 .. m - 1 /\ k.tree[i] \in 0 .. brick.size[i] - 1
    <3>1. k.xyz[i] \in Nat /\ k.tree[i] \in Nat /\ k.xyz[i] < m /\ k.tree[i] < brick.size[i]
          /\ brick.size[i] \in Nat
      BY <1>1, <1>2, <1>5
    <3>2. QED
      BY <1>2, <3>1
  <2>2. QED
    BY <2>1
<1>8. DIM(k) = d
  <2>1. DOMAIN k.tree = 1 .. d /\ d \in Nat
    BY <1>2, <1>5
  <2>2. \A f \in [1 .. d -> Nat] : f \in Seq(Nat)
    BY <2>1
  <2>3. \A f \in Seq(Nat) : DOMAIN f = 1 .. d => Len(f) = d
    BY <2>1
  <2>4. QED
    BY <1>5, <2>1, <2>2, <2>3 DEF DIM
<1>9. octantLength(k) = l /\ last_offset(k) = m - l
  BY <1>3, <1>8 DEF octantLength, last_offset, m, l
<1>10. QED
  BY <1>2, <1>4, <1>5, <1>6, <1>7, <1>8, <1>9 DEF d, m, l

(* A neighbour, direction by direction: the key leaves its tree, or crosses a *)
(* border of the brick.                                                     *)
Leaves(m, l, k, displ, i) ==
    \/ displ[i] = -1 /\ k.xyz[i] = 0
    \/ displ[i] = 1 /\ k.xyz[i] = m - l

Crosses(brick, m, l, k, displ, i) ==
    /\ ~ brick.periodic[i] /\ Leaves(m, l, k, displ, i)
    /\ k.tree[i] = IF displ[i] = 1 THEN brick.size[i] - 1 ELSE 0

IsNeighbor(brick, d, m, l, k, displ, n) ==
    /\ n = [out |-> n.out, level |-> n.level, xyz |-> n.xyz, tree |-> n.tree]
    /\ n.level = k.level
    /\ n.out = SymDiff(k.out, {i \in 1 .. d : Crosses(brick, m, l, k, displ, i)})
    /\ n.xyz = [i \in 1 .. d |-> n.xyz[i]] /\ n.tree = [i \in 1 .. d |-> n.tree[i]]
    /\ \A i \in 1 .. d :
          /\ n.xyz[i] = (k.xyz[i] + displ[i] * l) % m
          /\ n.tree[i] = IF Leaves(m, l, k, displ, i) THEN (k.tree[i] + displ[i]) % brick.size[i]
                         ELSE k.tree[i]

LEMMA NeighborIs ==
  ASSUME NEW brick, IsBrick(brick), NEW k \in AnyKey(brick),
         NEW displ \in [1 .. Len(brick.size) -> -1 .. 1]
  PROVE  IsNeighbor(brick, Len(brick.size), ROOT_LENGTH(Len(brick.size)), KeyLength(brick, k.level),
                    k, displ, get_neighbor_key_same_level(k, displ, brick))
<1> DEFINE d == Len(brick.size)
           m == ROOT_LENGTH(d)
           l == KeyLength(brick, k.level)
           n == get_neighbor_key_same_level(k, displ, brick)
<1>1. /\ k = [out |-> k.out, level |-> k.level, xyz |-> k.xyz, tree |-> k.tree]
      /\ DOMAIN k.xyz = 1 .. d /\ DOMAIN k.tree = 1 .. d
      /\ DIM(k) = d /\ octantLength(k) = l /\ last_offset(k) = m - l
  BY KeyIs
<1>2. DOMAIN displ = 1 .. d
  OBVIOUS
<1> HIDE DEF d, m, l
<1>3. ROOT_LENGTH(DIM(k)) = m
  BY <1>1 DEF m
<1>4. n = [k EXCEPT
            !.xyz  = [i \in 1 .. d |-> (k.xyz[i] + displ[i] * l) % m],
            !.tree = [i \in 1 .. d |-> IF LeavesTree(k, displ, i) THEN (k.tree[i] + displ[i]) % brick.size[i]
                                       ELSE k.tree[i]],
            !.out  = SymDiff(k.out, {i \in 1 .. d : ~ brick.periodic[i] /\ LeavesBrick(k, displ, i, brick)})]
  BY <1>1, <1>2, <1>3 DEF get_neighbor_key_same_level
<1>5. \A i \in 1 .. d : LeavesTree(k, displ, i) <=> Leaves(m, l, k, displ, i)
  BY <1>1 DEF LeavesTree, Leaves
<1>6. \A i \in 1 .. d : ~ brick.periodic[i] /\ LeavesBrick(k, displ, i, brick)
                            <=> Crosses(brick, m, l, k, displ, i)
  BY <1>5 DEF LeavesBrick, Crosses
<1> HIDE DEF n
<1>7. /\ n = [out |-> n.out, level |-> n.level, xyz |-> n.xyz, tree |-> n.tree]
      /\ n.level = k.level
      /\ n.out = SymDiff(k.out, {i \in 1 .. d : ~ brick.periodic[i] /\ LeavesBrick(k, displ, i, brick)})
      /\ n.xyz = [i \in 1 .. d |-> (k.xyz[i] + displ[i] * l) % m]
      /\ n.tree = [i \in 1 .. d |-> IF LeavesTree(k, displ, i) THEN (k.tree[i] + displ[i]) % brick.size[i]
                                     ELSE k.tree[i]]
  BY <1>1, <1>4
<1>8. {i \in 1 .. d : ~ brick.periodic[i] /\ LeavesBrick(k, displ, i, brick)}
        = {i \in 1 .. d : Crosses(brick, m, l, k, displ, i)}
  BY <1>6
<1>9. \A i \in 1 .. d :
          /\ n.xyz[i] = (k.xyz[i] + displ[i] * l) % m
          /\ n.tree[i] = IF Leaves(m, l, k, displ, i) THEN (k.tree[i] + displ[i]) % brick.size[i]
                         ELSE k.tree[i]
  BY <1>5, <1>7
<1>10. n.xyz = [i \in 1 .. d |-> n.xyz[i]] /\ n.tree = [i \in 1 .. d |-> n.tree[i]]
  BY <1>7
<1>11. QED
  BY <1>7, <1>8, <1>9, <1>10 DEF IsNeighbor, d, m, l, n

(* There and back, in one direction.                                        *)
Reversed(m, l, x, n, t, a, y, b) ==
    LET leaves == (a = -1 /\ x = 0) \/ (a = 1 /\ x = m - l)
        u      == IF leaves THEN (t + a) % n ELSE t
    IN  /\ y \in 0 .. m - 1 /\ (y + b * l) % m = x
        /\ leaves <=> (b = -1 /\ y = 0) \/ (b = 1 /\ y = m - l)
        /\ u \in 0 .. n - 1
        /\ leaves => (u + b) % n = t
        /\ leaves => (t = (IF a = 1 THEN n - 1 ELSE 0) <=> u = IF b = 1 THEN n - 1 ELSE 0)

LEMMA BackAgain ==
  ASSUME NEW m \in Nat, m >= 1, NEW l \in 1 .. m, NEW x \in 0 .. m - l,
         NEW n \in Nat, n >= 1, NEW t \in 0 .. n - 1, NEW a \in -1 .. 1,
         NEW y, y = (x + a * l) % m, NEW b, b = -a
  PROVE  Reversed(m, l, x, n, t, a, y, b)
<1>1. /\ x \in 0 .. m - 1 /\ l \in 0 .. m /\ 1 \in 0 .. n
  OBVIOUS
<1>2. /\ (x + l) % m = IF x + l < m THEN x + l ELSE x + l - m
      /\ (x - l) % m = IF x - l >= 0 THEN x - l ELSE x - l + m
      /\ x % m = x
  BY <1>1, Wrapped
<1>3. \A z \in 0 .. m - 1 : /\ (z + l) % m = IF z + l < m THEN z + l ELSE z + l - m
                            /\ (z - l) % m = IF z - l >= 0 THEN z - l ELSE z - l + m
  BY <1>1, Wrapped
<1>4. \A z \in 0 .. n - 1 : /\ (z + 1) % n = IF z + 1 < n THEN z + 1 ELSE z + 1 - n
                            /\ (z - 1) % n = IF z - 1 >= 0 THEN z - 1 ELSE z - 1 + n
  BY <1>1, Wrapped
<1>5. CASE a = 0
  BY <1>2, <1>5 DEF Reversed
<1>6. CASE a = 1
  <2>1. y = (x + l) % m /\ b = -1
    BY <1>6
  <2>2. y = IF x + l < m THEN x + l ELSE x + l - m
    BY <1>2, <2>1
  <2>3. (y + b * l) % m = (y - l) % m
    BY <2>1, <2>2
  <2>4. y \in 0 .. m - 1 /\ (y - l) % m = x
    BY <1>3, <2>2
  <2>5. (t + a) % n = IF t + 1 < n THEN t + 1 ELSE t + 1 - n
    BY <1>4, <1>6
  <2> DEFINE u == (t + a) % n
  <2>6. u \in 0 .. n - 1 /\ (u - 1) % n = t /\ u + b = u - 1
    BY <1>4, <2>1, <2>5
  <2>7. t = n - 1 <=> u = 0
    BY <2>5
  <2> HIDE DEF u
  <2>8. x = m - l <=> y = 0
    BY <2>2
  <2>9. QED
    BY <1>6, <2>1, <2>3, <2>4, <2>6, <2>7, <2>8 DEF u, Reversed
<1>7. CASE a = -1
  <2>1. y = (x - l) % m /\ b = 1
    <3>1. l \in Int /\ a \in Int /\ b \in Int /\ a + b = 0 /\ a + 1 = 0
      BY <1>7
    <3>2. b = 1
      BY <3>1
    <3>3. \A z \in Int : z + 1 = 0 => x + z * l = x - l
      OBVIOUS
    <3>4. QED
      BY <3>1, <3>2, <3>3
  <2>2. y = IF x - l >= 0 THEN x - l ELSE x - l + m
    BY <1>2, <2>1
  <2>3. (y + b * l) % m = (y + l) % m
    BY <2>1, <2>2
  <2>4. y \in 0 .. m - 1 /\ (y + l) % m = x
    BY <1>3, <2>2
  <2>5. (t + a) % n = IF t - 1 >= 0 THEN t - 1 ELSE t - 1 + n
    BY <1>4, <1>7
  <2> DEFINE u == (t + a) % n
  <2>6. u \in 0 .. n - 1 /\ (u + 1) % n = t /\ u + b = u + 1
    BY <1>4, <2>1, <2>5
  <2>7. t = 0 <=> u = n - 1
    BY <2>5
  <2> HIDE DEF u
  <2>8. x = 0 <=> y = m - l
    BY <2>2
  <2> DEFINE leaves == (a = -1 /\ x = 0) \/ (a = 1 /\ x = m - l)
             w == IF leaves THEN (t + a) % n ELSE t
  <2>9. (leaves <=> x = 0) /\ ((b = -1 /\ y = 0) \/ (b = 1 /\ y = m - l) <=> y = m - l)
        /\ a # 1 /\ b = 1
    <3>1. a # 1 /\ b # -1
      BY <1>7, <2>1
    <3>2. leaves <=> x = 0
      BY <1>7, <3>1, Zenon
    <3>3. (b = -1 /\ y = 0) \/ (b = 1 /\ y = m - l) <=> y = m - l
      BY <2>1, <3>1, Zenon
    <3>4. QED
      BY <2>1, <3>1, <3>2, <3>3
  <2> HIDE DEF leaves
  <2>10. /\ w \in 0 .. n - 1
         /\ leaves => (w + b) % n = t
         /\ leaves => (t = (IF a = 1 THEN n - 1 ELSE 0) <=> w = IF b = 1 THEN n - 1 ELSE 0)
    BY <2>6, <2>7, <2>9 DEF u
  <2> HIDE DEF w
  <2>11. QED
    BY <2>3, <2>4, <2>8, <2>9, <2>10 DEF Reversed, leaves, w
<1>8. QED
  BY <1>5, <1>6, <1>7

(* The opposite displacement leads back.                                    *)
LEMMA ThereAndBack ==
  ASSUME NEW brick, IsBrick(brick), NEW k \in Key(brick),
         NEW displ \in [1 .. Len(brick.size) -> -1 .. 1],
         NEW back, back = [i \in 1 .. Len(brick.size) |-> -displ[i]]
  PROVE  LET n == get_neighbor_key_same_level(k, displ, brick)
         IN  n \in AnyKey(brick) /\ get_neighbor_key_same_level(n, back, brick) = k
<1> DEFINE d == Len(brick.size)
           m == ROOT_LENGTH(d)
           l == KeyLength(brick, k.level)
           n == get_neighbor_key_same_level(k, displ, brick)
           b == get_neighbor_key_same_level(n, back, brick)
<1>1. k \in AnyKey(brick) /\ \A i \in 1 .. d : k.xyz[i] <= m - l
  BY DEF Key
<1>2. /\ k = [out |-> k.out, level |-> k.level, xyz |-> k.xyz, tree |-> k.tree]
      /\ k.out \subseteq 1 .. d /\ k.level \in 0 .. MAX_LEVEL(d)
      /\ DOMAIN k.xyz = 1 .. d /\ DOMAIN k.tree = 1 .. d
      /\ k.xyz = [i \in 1 .. d |-> k.xyz[i]] /\ k.tree = [i \in 1 .. d |-> k.tree[i]]
      /\ \A i \in 1 .. d : k.xyz[i] \in 0 .. m - 1 /\ k.tree[i] \in 0 .. brick.size[i] - 1
      /\ m \in Nat /\ m >= 1 /\ l \in 1 .. m
  BY <1>1, KeyIs
<1>3. IsNeighbor(brick, d, m, l, k, displ, n)
  BY <1>1, NeighborIs
<1>4. \A i \in 1 .. d : brick.size[i] \in Nat /\ brick.size[i] >= 1
  BY BrickIs
<1>5. back \in [1 .. d -> -1 .. 1] /\ \A i \in 1 .. d : back[i] = -displ[i] /\ displ[i] \in -1 .. 1
  OBVIOUS
<1> HIDE DEF d, m, l, n
<1>6. /\ n = [out |-> n.out, level |-> n.level, xyz |-> n.xyz, tree |-> n.tree]
      /\ n.level = k.level
      /\ n.out = SymDiff(k.out, {i \in 1 .. d : Crosses(brick, m, l, k, displ, i)})
      /\ n.xyz = [i \in 1 .. d |-> n.xyz[i]] /\ n.tree = [i \in 1 .. d |-> n.tree[i]]
      /\ \A i \in 1 .. d :
            /\ n.xyz[i] = (k.xyz[i] + displ[i] * l) % m
            /\ n.tree[i] = IF Leaves(m, l, k, displ, i) THEN (k.tree[i] + displ[i]) % brick.size[i]
                           ELSE k.tree[i]
  BY <1>3 DEF IsNeighbor
<1>7. ASSUME NEW i \in 1 .. d
      PROVE  /\ n.xyz[i] \in 0 .. m - 1 /\ (n.xyz[i] + back[i] * l) % m = k.xyz[i]
             /\ Leaves(m, l, k, displ, i) <=> Leaves(m, l, n, back, i)
             /\ n.tree[i] \in 0 .. brick.size[i] - 1
             /\ Leaves(m, l, k, displ, i) => (n.tree[i] + back[i]) % brick.size[i] = k.tree[i]
             /\ Crosses(brick, m, l, k, displ, i) <=> Crosses(brick, m, l, n, back, i)
  <2> DEFINE x == k.xyz[i]
             t == k.tree[i]
             s == brick.size[i]
             a == displ[i]
             c == back[i]
             y == n.xyz[i]
             u == n.tree[i]
  <2>1. /\ x \in 0 .. m - l /\ t \in 0 .. s - 1 /\ a \in -1 .. 1 /\ c = -a
        /\ s \in Nat /\ s >= 1 /\ y = (x + a * l) % m
    <3>1. x \in 0 .. m - 1 /\ x <= m - l
      BY <1>1, <1>2 DEF d, m, l
    <3>2. x \in 0 .. m - l
      BY <1>2, <3>1
    <3>3. QED
      BY <1>2, <1>4, <1>5, <1>6, <3>2
  <2>2. u = IF Leaves(m, l, k, displ, i) THEN (t + a) % s ELSE t
    BY <1>6
  <2> HIDE DEF x, t, s, a, c, y, u
  <2>3. Reversed(m, l, x, s, t, a, y, c)
    BY <1>2, <2>1, BackAgain
  <2>4. /\ Leaves(m, l, k, displ, i) <=> (a = -1 /\ x = 0) \/ (a = 1 /\ x = m - l)
        /\ Leaves(m, l, n, back, i) <=> (c = -1 /\ y = 0) \/ (c = 1 /\ y = m - l)
        /\ Crosses(brick, m, l, k, displ, i) <=> /\ ~ brick.periodic[i] /\ Leaves(m, l, k, displ, i)
                                                 /\ t = IF a = 1 THEN s - 1 ELSE 0
        /\ Crosses(brick, m, l, n, back, i) <=> /\ ~ brick.periodic[i] /\ Leaves(m, l, n, back, i)
                                                /\ u = IF c = 1 THEN s - 1 ELSE 0
    BY DEF Leaves, Crosses, x, t, s, a, c, y, u
  <2> DEFINE lv == (a = -1 /\ x = 0) \/ (a = 1 /\ x = m - l)
             w  == IF lv THEN (t + a) % s ELSE t
  <2>5. /\ y \in 0 .. m - 1 /\ (y + c * l) % m = x
        /\ lv <=> (c = -1 /\ y = 0) \/ (c = 1 /\ y = m - l)
        /\ w \in 0 .. s - 1
        /\ lv => (w + c) % s = t
        /\ lv => (t = (IF a = 1 THEN s - 1 ELSE 0) <=> w = IF c = 1 THEN s - 1 ELSE 0)
    BY <2>3 DEF Reversed
  <2>6. u = w /\ (Leaves(m, l, k, displ, i) <=> lv)
    BY <2>2, <2>4
  <2> HIDE DEF lv, w
  <2>7. /\ y \in 0 .. m - 1 /\ (y + c * l) % m = x
        /\ Leaves(m, l, k, displ, i) <=> Leaves(m, l, n, back, i)
        /\ u \in 0 .. s - 1
        /\ Leaves(m, l, k, displ, i) => (u + c) % s = t
    BY <2>4, <2>5, <2>6
  <2>8. Crosses(brick, m, l, k, displ, i) <=> Crosses(brick, m, l, n, back, i)
    BY <2>4, <2>5, <2>6, <2>7
  <2>9. QED
    BY <2>7, <2>8 DEF x, t, s, c, y, u
<1>8. n \in AnyKey(brick)
  <2>1. n.out \in SUBSET (1 .. d)
    BY <1>2, <1>6 DEF SymDiff
  <2>2. n.xyz \in [1 .. d -> Nat] /\ n.tree \in [1 .. d -> Nat]
    <3>1. \A i \in 1 .. d : n.xyz[i] \in Nat /\ n.tree[i] \in Nat
      <4>1. \A i \in 1 .. d : n.xyz[i] \in 0 .. m - 1 /\ n.tree[i] \in 0 .. brick.size[i] - 1
        BY <1>7
      <4>2. QED
        BY <4>1
    <3>2. QED
      BY <1>6, <3>1
  <2>3. \A i \in 1 .. d : n.xyz[i] < m /\ n.tree[i] < brick.size[i]
    <3>1. TAKE i \in 1 .. d
    <3>2. n.xyz[i] \in 0 .. m - 1 /\ n.tree[i] \in 0 .. brick.size[i] - 1
      BY <1>7
    <3>3. QED
      BY <1>2, <1>4, <3>2, SMTT(30)
  <2>4. n.level \in 0 .. MAX_LEVEL(d)
    BY <1>2, <1>6
  <2>5. n \in [out : SUBSET (1 .. d), level : 0 .. MAX_LEVEL(d), xyz : [1 .. d -> Nat], tree : [1 .. d -> Nat]]
    BY <1>6, <2>1, <2>2, <2>4
  <2>6. QED
    BY <2>3, <2>5 DEF AnyKey, d, m
<1>9. IsNeighbor(brick, d, m, l, n, back, b)
  <2>1. IsNeighbor(brick, Len(brick.size), ROOT_LENGTH(Len(brick.size)), KeyLength(brick, n.level),
                   n, back, b)
    BY <1>5, <1>8, NeighborIs DEF d
  <2>2. KeyLength(brick, n.level) = l
    BY <1>6 DEF l
  <2>3. QED
    BY <2>1, <2>2 DEF d, m
<1> HIDE DEF b
<1>10. /\ b = [out |-> b.out, level |-> b.level, xyz |-> b.xyz, tree |-> b.tree]
       /\ b.level = n.level
       /\ b.out = SymDiff(n.out, {i \in 1 .. d : Crosses(brick, m, l, n, back, i)})
       /\ b.xyz = [i \in 1 .. d |-> b.xyz[i]] /\ b.tree = [i \in 1 .. d |-> b.tree[i]]
       /\ \A i \in 1 .. d :
             /\ b.xyz[i] = (n.xyz[i] + back[i] * l) % m
             /\ b.tree[i] = IF Leaves(m, l, n, back, i) THEN (n.tree[i] + back[i]) % brick.size[i]
                            ELSE n.tree[i]
  BY <1>9 DEF IsNeighbor
<1>11. b.out = k.out
  <2>1. {i \in 1 .. d : Crosses(brick, m, l, n, back, i)} = {i \in 1 .. d : Crosses(brick, m, l, k, displ, i)}
    BY <1>7
  <2> DEFINE C == {i \in 1 .. d : Crosses(brick, m, l, k, displ, i)}
  <2>2. b.out = SymDiff(n.out, C) /\ n.out = SymDiff(k.out, C)
    BY <1>6, <1>10, <2>1
  <2> HIDE DEF C
  <2>3. QED
    BY <2>2 DEF SymDiff
<1>12. \A i \in 1 .. d : b.xyz[i] = k.xyz[i] /\ b.tree[i] = k.tree[i]
  <2>1. TAKE i \in 1 .. d
  <2>2. b.xyz[i] = k.xyz[i]
    BY <1>7, <1>10
  <2>3. b.tree[i] = k.tree[i]
    BY <1>6, <1>7, <1>10, ZenonT(40)
  <2>4. QED
    BY <2>2, <2>3
<1>13. b.xyz = k.xyz /\ b.tree = k.tree
  BY <1>2, <1>10, <1>12
<1>14. b = k
  BY <1>2, <1>6, <1>10, <1>11, <1>13
<1>15. QED
  BY <1>8, <1>14 DEF b, n

----------------------------------------------------------------------------
(* Faces, edges and corners                                                 *)

(* Faces of different directions.                                           *)
FaceSets(d) == {F \in SUBSET Faces(d) : F # {} /\ \A f, g \in F : Dir(f) = Dir(g) => f = g}

LEMMA FaceIs ==
  ASSUME NEW d \in {2, 3}
  PROVE  /\ \A i \in 1 .. d : \A b \in {0, 1} :
               LET f == 2 * (i - 1) + b
               IN  f \in Faces(d) /\ Dir(f) = i /\ Sign(f) = IF b = 1 THEN 1 ELSE -1
         /\ \A f \in Faces(d) :
               /\ Dir(f) \in 1 .. d /\ Sign(f) \in {-1, 1}
               /\ f = 2 * (Dir(f) - 1) + IF Sign(f) = 1 THEN 1 ELSE 0
<1>1. ASSUME NEW i \in 1 .. d, NEW b \in {0, 1}
      PROVE  LET f == 2 * (i - 1) + b
             IN  f \in Faces(d) /\ Dir(f) = i /\ Sign(f) = IF b = 1 THEN 1 ELSE -1
  BY <1>1 DEF Faces, Dir, Sign
<1>2. ASSUME NEW f \in Faces(d)
      PROVE  /\ Dir(f) \in 1 .. d /\ Sign(f) \in {-1, 1}
             /\ f = 2 * (Dir(f) - 1) + IF Sign(f) = 1 THEN 1 ELSE 0
  <2>1. f \in 0 .. 2 * d - 1
    BY DEF Faces
  <2>2. f \div 2 \in 0 .. d - 1 /\ f % 2 \in {0, 1} /\ f = 2 * (f \div 2) + (f % 2)
    BY <2>1
  <2>3. Sign(f) = (IF f % 2 = 1 THEN 1 ELSE -1) /\ Dir(f) = f \div 2 + 1
    BY DEF Sign, Dir
  <2> DEFINE q == f \div 2
             r == f % 2
  <2> HIDE DEF q, r
  <2>4. q \in 0 .. d - 1 /\ r \in {0, 1} /\ f = 2 * q + r /\ Dir(f) = q + 1
        /\ Sign(f) = IF r = 1 THEN 1 ELSE -1
    BY <2>2, <2>3 DEF q, r
  <2>5. (Sign(f) = 1 <=> r = 1) /\ Sign(f) \in {-1, 1}
    BY <2>4
  <2>6. r = (IF Sign(f) = 1 THEN 1 ELSE 0) /\ q = Dir(f) - 1 /\ Dir(f) \in 1 .. d
    BY <2>4, <2>5
  <2>7. f = 2 * (Dir(f) - 1) + r
    BY <2>4, <2>6
  <2>8. QED
    BY <2>5, <2>6, <2>7
<1>3. QED
  BY <1>1, <1>2

LEMMA FaceBits ==
  ASSUME NEW x \in Nat
  PROVE  x % 2 \in {0, 1} /\ (x \div 2) % 2 \in {0, 1} /\ \A k \in 0 .. 2 : (x \div 2 ^ k) % 2 \in {0, 1}
<1>1. 2 ^ 0 = 1 /\ 2 ^ 1 = 2 /\ 2 ^ 2 = 4
  OBVIOUS
<1>2. ASSUME NEW k \in 0 .. 2 PROVE (x \div 2 ^ k) % 2 \in {0, 1}
  <2>1. k = 0 \/ k = 1 \/ k = 2
    OBVIOUS
  <2>2. QED
    BY <1>1, <2>1
<1>3. QED
  BY <1>2

(* The lists of faces, edges and corners.                                   *)
FaceItems(d)   == [f \in 1 .. 2 * d |-> {f - 1}]
EdgeItems(d)   == IF d = 3 THEN [e \in 1 .. 12 |-> edge_to_faces(e - 1)] ELSE <<>>
CornerItems(d) == [c \in 1 .. 2 ^ d |-> corner_to_faces(d, c - 1)]

LEMMA ItemsAre ==
  ASSUME NEW d \in {2, 3}
  PROVE  /\ Items(d) = FaceItems(d) \o EdgeItems(d) \o CornerItems(d)
         /\ FaceItems(d) \in Seq(FaceSets(d)) /\ EdgeItems(d) \in Seq(FaceSets(d))
         /\ CornerItems(d) \in Seq(FaceSets(d)) /\ Items(d) \in Seq(FaceSets(d))
<1>1. Items(d) = FaceItems(d) \o EdgeItems(d) \o CornerItems(d)
  BY DEF Items, FaceItems, EdgeItems, CornerItems
<1>2. FaceItems(d) \in Seq(FaceSets(d))
  <2>1. \A f \in 1 .. 2 * d : {f - 1} \in FaceSets(d)
    BY DEF FaceSets, Faces
  <2>2. 2 * d \in Nat
    OBVIOUS
  <2>3. QED
    BY <2>1, <2>2 DEF FaceItems
<1>3. EdgeItems(d) \in Seq(FaceSets(d))
  <2>1. ASSUME d = 3, NEW e \in 0 .. 11 PROVE edge_to_faces(e) \in FaceSets(d)
    <3> DEFINE lo == e % 2
               hi == (e \div 2) % 2
    <3>1. lo \in {0, 1} /\ hi \in {0, 1}
      BY FaceBits
    <3>2. \/ e < 4 /\ edge_to_faces(e) = {0 + lo, 2 + hi}
          \/ e \in 4 .. 7 /\ edge_to_faces(e) = {2 + lo, 4 + hi}
          \/ e > 7 /\ edge_to_faces(e) = {0 + lo, 4 + hi}
      <4>1. CASE e < 4
        BY <4>1 DEF edge_to_faces
      <4>2. CASE e \in 4 .. 7
        <5>1. ~ (e < 4) /\ ~ (e > 7)
          BY <4>2
        <5>2. QED
          BY <4>2, <5>1 DEF edge_to_faces
      <4>3. CASE e > 7
        <5>1. ~ (e < 4) /\ e \notin 4 .. 7
          BY <4>3
        <5>2. QED
          BY <4>3, <5>1 DEF edge_to_faces
      <4>4. QED
        BY <4>1, <4>2, <4>3
    <3> HIDE DEF lo, hi
    <3>3. \A b, c \in {0, 1} : {0 + b, 2 + c} \in FaceSets(3) /\ {2 + b, 4 + c} \in FaceSets(3)
                               /\ {0 + b, 4 + c} \in FaceSets(3)
      <4>1. \A b \in {0, 1} : Dir(0 + b) = 1 /\ Dir(2 + b) = 2 /\ Dir(4 + b) = 3
        BY DEF Dir
      <4>2. \A b \in {0, 1} : 0 + b \in Faces(3) /\ 2 + b \in Faces(3) /\ 4 + b \in Faces(3)
        BY DEF Faces
      <4>3. \A x, y \in Faces(3) : Dir(x) # Dir(y) => {x, y} \in FaceSets(3)
        BY DEF FaceSets
      <4>4. QED
        BY <4>1, <4>2, <4>3
    <3>4. QED
      BY <2>1, <3>1, <3>2, <3>3
  <2>2. CASE d = 3
    <3>1. \A e \in 1 .. 12 : e - 1 \in 0 .. 11
      OBVIOUS
    <3>2. \A e \in 1 .. 12 : edge_to_faces(e - 1) \in FaceSets(d)
      BY <2>1, <2>2, <3>1
    <3>3. QED
      BY <2>2, <3>2 DEF EdgeItems
  <2>3. CASE d # 3
    BY <2>3 DEF EdgeItems
  <2>4. QED
    BY <2>2, <2>3
<1>4. CornerItems(d) \in Seq(FaceSets(d))
  <2>1. 2 ^ d \in Nat
    <3>1. d \in 0 .. 22
      OBVIOUS
    <3>2. QED
      BY <3>1, Powers
  <2>2. ASSUME NEW c \in 1 .. 2 ^ d PROVE corner_to_faces(d, c - 1) \in FaceSets(d)
    <3> DEFINE x == c - 1
               face(i) == 2 * (i - 1) + ChildSide(x, i)
    <3>1. x \in Nat
      BY <2>1
    <3>2. \A i \in 1 .. d : ChildSide(x, i) \in {0, 1}
      <4>1. \A i \in 1 .. d : i - 1 \in 0 .. 2
        OBVIOUS
      <4> HIDE DEF x
      <4>2. QED
        BY <3>1, <4>1, FaceBits DEF ChildSide
    <3>3. \A i \in 1 .. d : face(i) \in Faces(d) /\ Dir(face(i)) = i
      BY <3>2, FaceIs
    <3>4. corner_to_faces(d, x) = {face(i) : i \in 1 .. d}
      BY DEF corner_to_faces
    <3> HIDE DEF face, x
    <3>5. 1 \in 1 .. d
      OBVIOUS
    <3>6. corner_to_faces(d, x) \in FaceSets(d)
      BY <3>3, <3>4, <3>5 DEF FaceSets
    <3>7. QED
      BY <3>6 DEF x
  <2>3. QED
    BY <2>1, <2>2 DEF CornerItems
<1>5. QED
  BY <1>1, <1>2, <1>3, <1>4

(* A displacement goes in the directions of its faces.                       *)
IsDisplacement(d, F, displ) ==
    /\ displ \in [1 .. d -> -1 .. 1]
    /\ \A f \in F : Dir(f) \in 1 .. d /\ displ[Dir(f)] = Sign(f) /\ Sign(f) \in {-1, 1}
    /\ \A i \in 1 .. d : displ[i] # 0 => \E f \in F : Dir(f) = i

LEMMA DisplacementIs ==
  ASSUME NEW d \in {2, 3}, NEW F \in FaceSets(d)
  PROVE  IsDisplacement(d, F, face_to_displacement(d, F))
<1> DEFINE displ == face_to_displacement(d, F)
           face(i) == CHOOSE f \in F : Dir(f) = i
<1>1. displ = [i \in 1 .. d |-> IF \E f \in F : Dir(f) = i THEN Sign(face(i)) ELSE 0]
  BY DEF face_to_displacement
<1>2. F \subseteq Faces(d) /\ \A f, g \in F : Dir(f) = Dir(g) => f = g
  BY DEF FaceSets
<1>3. \A f \in F : Dir(f) \in 1 .. d /\ Sign(f) \in {-1, 1}
  BY <1>2, FaceIs
<1>4. \A f \in F : face(Dir(f)) = f
  <2>1. TAKE f \in F
  <2>2. face(Dir(f)) \in F /\ Dir(face(Dir(f))) = Dir(f)
    OBVIOUS
  <2>3. QED
    BY <1>2, <2>2
<1> HIDE DEF face, displ
<1>5. \A f \in F : displ[Dir(f)] = Sign(f)
  BY <1>1, <1>3, <1>4
<1>6. \A i \in 1 .. d : displ[i] # 0 => \E f \in F : Dir(f) = i
  BY <1>1
<1>7. \A i \in 1 .. d : displ[i] \in -1 .. 1
  <2>1. TAKE i \in 1 .. d
  <2>2. displ[i] = 0 \/ \E f \in F : Dir(f) = i
    BY <1>6
  <2>3. CASE displ[i] = 0
    BY <2>3
  <2>4. ASSUME NEW f \in F, Dir(f) = i PROVE displ[i] \in -1 .. 1
    <3>1. displ[i] = Sign(f) /\ Sign(f) \in {-1, 1}
      BY <1>3, <1>5, <2>4
    <3>2. QED
      BY <3>1
  <2>5. QED
    BY <2>2, <2>3, <2>4
<1>8. displ \in [1 .. d -> -1 .. 1]
  <2>1. displ = [i \in 1 .. d |-> displ[i]]
    BY <1>1
  <2>2. QED
    BY <1>7, <2>1
<1>9. QED
  BY <1>3, <1>5, <1>6, <1>8 DEF displ, IsDisplacement

(* All faces of F lie on the border of the brick, one of them not periodic.  *)
OnBorder(brick, k, F) ==
    /\ \A f \in F : is_at_domain_border(k, f, brick)
    /\ \E f \in F : ~ brick.periodic[Dir(f)]

(* The octant outside of the brick: on the other side in the directions of    *)
(* its faces, in place in the others.                                       *)
IsOutward(brick, d, m, l, k, displ, n) ==
    /\ n.level = k.level
    /\ \A i \in 1 .. d :
          /\ i \in n.out <=> displ[i] # 0 /\ ~ brick.periodic[i]
          /\ displ[i] = 0 => n.xyz[i] = k.xyz[i] /\ n.tree[i] = k.tree[i]
          /\ displ[i] = 1 => /\ k.xyz[i] = m - l /\ k.tree[i] = brick.size[i] - 1
                             /\ n.xyz[i] = 0 /\ n.tree[i] = 0
          /\ displ[i] = -1 => /\ k.xyz[i] = 0 /\ k.tree[i] = 0
                              /\ n.xyz[i] = m - l /\ n.tree[i] = brick.size[i] - 1

LEMMA OutwardIs ==
  ASSUME NEW brick, IsBrick(brick), NEW k \in Key(brick), k.out = {},
         NEW F \in FaceSets(Len(brick.size)), OnBorder(brick, k, F)
  PROVE  LET d     == Len(brick.size)
             displ == face_to_displacement(d, F)
             n     == get_neighbor_key_same_level(k, displ, brick)
         IN  /\ n \in Key(brick) /\ n.out # {}
             /\ IsOutward(brick, d, ROOT_LENGTH(d), KeyLength(brick, k.level), k, displ, n)
<1> DEFINE d == Len(brick.size)
           m == ROOT_LENGTH(d)
           l == KeyLength(brick, k.level)
           displ == face_to_displacement(d, F)
           n == get_neighbor_key_same_level(k, displ, brick)
<1>1. k \in AnyKey(brick) /\ \A i \in 1 .. d : k.xyz[i] <= m - l
  BY DEF Key
<1>2. /\ \A i \in 1 .. d : k.xyz[i] \in 0 .. m - 1 /\ k.tree[i] \in 0 .. brick.size[i] - 1
      /\ m \in Nat /\ m >= 1 /\ l \in 1 .. m
      /\ last_offset(k) = m - l
  BY <1>1, KeyIs
<1>3. d \in {2, 3} /\ \A i \in 1 .. d : brick.size[i] \in Nat /\ brick.size[i] >= 1
                                        /\ brick.periodic[i] \in BOOLEAN
  BY BrickIs
<1>4. /\ displ \in [1 .. d -> -1 .. 1]
      /\ \A f \in F : Dir(f) \in 1 .. d /\ displ[Dir(f)] = Sign(f) /\ Sign(f) \in {-1, 1}
      /\ \A i \in 1 .. d : displ[i] # 0 => \E f \in F : Dir(f) = i
  <2>1. F \in FaceSets(d) /\ d \in {2, 3}
    BY <1>3
  <2> HIDE DEF d
  <2>2. QED
    <3>1. IsDisplacement(d, F, face_to_displacement(d, F))
      BY <2>1, DisplacementIs
    <3>2. QED
      BY <3>1 DEF IsDisplacement
<1> HIDE DEF displ
<1>5. IsNeighbor(brick, d, m, l, k, displ, n) /\ n \in AnyKey(brick)
  BY <1>1, <1>4, NeighborIs, ThereAndBack
<1> HIDE DEF d, m, l, n
<1>6. \A i \in 1 .. d :
         /\ displ[i] = 1 => k.tree[i] = brick.size[i] - 1 /\ k.xyz[i] = m - l
         /\ displ[i] = -1 => k.tree[i] = 0 /\ k.xyz[i] = 0
  <2>1. TAKE i \in 1 .. d
  <2>2. ASSUME displ[i] # 0
        PROVE  /\ displ[i] = 1 => k.tree[i] = brick.size[i] - 1 /\ k.xyz[i] = m - l
               /\ displ[i] = -1 => k.tree[i] = 0 /\ k.xyz[i] = 0
    <3>1. PICK f \in F : Dir(f) = i
      BY <1>4, <2>2
    <3>2. is_at_domain_border(k, f, brick) /\ Sign(f) = displ[i]
      BY <1>4, <3>1 DEF OnBorder
    <3>3. /\ k.tree[i] = (IF Sign(f) = 1 THEN brick.size[i] - 1 ELSE 0)
          /\ k.xyz[i] = (IF Sign(f) = 1 THEN m - l ELSE 0)
      BY <1>2, <3>1, <3>2 DEF is_at_domain_border, is_at_tree_border
    <3>4. QED
      BY <3>2, <3>3
  <2>3. displ[i] = 1 \/ displ[i] = -1 => displ[i] # 0
    OBVIOUS
  <2>4. QED
    BY <2>2, <2>3
<1>7. /\ n.level = k.level
      /\ n.out = SymDiff(k.out, {i \in 1 .. d : Crosses(brick, m, l, k, displ, i)})
      /\ \A i \in 1 .. d :
            /\ n.xyz[i] = (k.xyz[i] + displ[i] * l) % m
            /\ n.tree[i] = IF Leaves(m, l, k, displ, i) THEN (k.tree[i] + displ[i]) % brick.size[i]
                           ELSE k.tree[i]
  BY <1>5 DEF IsNeighbor
<1>8. n.out = {i \in 1 .. d : Crosses(brick, m, l, k, displ, i)}
  BY <1>7 DEF SymDiff
<1>9. ASSUME NEW i \in 1 .. d
      PROVE  /\ Crosses(brick, m, l, k, displ, i) <=> displ[i] # 0 /\ ~ brick.periodic[i]
             /\ displ[i] = 0 => n.xyz[i] = k.xyz[i] /\ n.tree[i] = k.tree[i]
             /\ displ[i] = 1 => n.xyz[i] = 0 /\ n.tree[i] = 0
             /\ displ[i] = -1 => n.xyz[i] = m - l /\ n.tree[i] = brick.size[i] - 1
  <2>1. /\ k.xyz[i] \in 0 .. m - 1 /\ l \in 0 .. m /\ l >= 1 /\ l <= m /\ m \in Nat /\ m >= 1
        /\ brick.size[i] \in Nat /\ brick.size[i] >= 1 /\ k.tree[i] \in 0 .. brick.size[i] - 1
    BY <1>2, <1>3
  <2>2. displ[i] \in -1 .. 1
    BY <1>4
  <2>3. CASE displ[i] = 0
    <3>1. ~ Leaves(m, l, k, displ, i)
      BY <2>3 DEF Leaves
    <3>2. k.xyz[i] + displ[i] * l = k.xyz[i]
      BY <2>1, <2>3
    <3>3. k.xyz[i] % m = k.xyz[i]
      BY <2>1, Wrapped
    <3>4. n.xyz[i] = k.xyz[i] /\ n.tree[i] = k.tree[i]
      BY <1>7, <3>1, <3>2, <3>3
    <3>5. QED
      BY <2>3, <3>1, <3>4 DEF Crosses
  <2>4. CASE displ[i] = 1
    <3>1. k.tree[i] = brick.size[i] - 1 /\ k.xyz[i] = m - l
      BY <1>6, <2>4
    <3>2. Leaves(m, l, k, displ, i)
      BY <2>4, <3>1 DEF Leaves
    <3>3. k.xyz[i] + displ[i] * l = m /\ k.tree[i] + displ[i] = brick.size[i]
      BY <2>1, <2>4, <3>1
    <3>4. \A s \in Nat : s >= 1 => s % s = 0
      <4>1. ASSUME NEW s \in Nat, s >= 1 PROVE s % s = 0
        <5>1. (1 * s + 0) % s = 0
          BY <4>1, Division
        <5>2. QED
          BY <4>1, <5>1
      <4>2. QED
        BY <4>1
    <3>5. n.xyz[i] = 0 /\ n.tree[i] = 0
      BY <1>7, <2>1, <3>2, <3>3, <3>4
    <3>6. Crosses(brick, m, l, k, displ, i) <=> ~ brick.periodic[i]
      BY <2>4, <3>1, <3>2 DEF Crosses
    <3>7. displ[i] # 0 /\ displ[i] # -1
      BY <2>4
    <3>8. QED
      BY <2>4, <3>5, <3>6, <3>7
  <2>5. CASE displ[i] = -1
    <3>1. k.tree[i] = 0 /\ k.xyz[i] = 0
      BY <1>6, <2>5
    <3>2. Leaves(m, l, k, displ, i)
      BY <2>5, <3>1 DEF Leaves
    <3>3. k.xyz[i] + displ[i] * l = 0 - l /\ k.tree[i] + displ[i] = 0 - 1
      <4>1. \A z, y \in Int : z + 1 = 0 => 0 + z * y = 0 - y /\ 0 + z = 0 - 1
        OBVIOUS
      <4>2. displ[i] \in Int /\ displ[i] + 1 = 0 /\ l \in Int
        BY <2>1, <2>5
      <4>3. QED
        BY <3>1, <4>1, <4>2
    <3>4. \A s \in Nat : \A x \in 1 .. s : (0 - x) % s = s - x
      <4>1. ASSUME NEW s \in Nat, NEW x \in 1 .. s PROVE (0 - x) % s = s - x
        <5>1. s >= 1 /\ 0 \in 0 .. s - 1 /\ x \in 0 .. s /\ ~ (0 - x >= 0) /\ 0 - x + s = s - x
          OBVIOUS
        <5>2. QED
          BY <5>1, Wrapped
      <4>2. QED
        BY <4>1
    <3>5. l \in 1 .. m /\ 1 \in 1 .. brick.size[i]
      BY <2>1
    <3>6. n.xyz[i] = m - l /\ n.tree[i] = brick.size[i] - 1
      BY <1>7, <2>1, <3>2, <3>3, <3>4, <3>5
    <3>7. displ[i] # 0 /\ displ[i] # 1
      BY <2>5
    <3>8. Crosses(brick, m, l, k, displ, i) <=> ~ brick.periodic[i]
      BY <3>1, <3>2, <3>7 DEF Crosses
    <3>9. QED
      BY <2>5, <3>6, <3>7, <3>8
  <2>6. QED
    BY <2>2, <2>3, <2>4, <2>5
<1>10. IsOutward(brick, d, m, l, k, displ, n)
  BY <1>6, <1>7, <1>8, <1>9 DEF IsOutward
<1>11. n.out # {}
  <2>1. PICK f \in F : ~ brick.periodic[Dir(f)]
    BY DEF OnBorder
  <2>2. Dir(f) \in 1 .. d /\ displ[Dir(f)] # 0
    <3>1. displ[Dir(f)] \in {-1, 1} /\ Dir(f) \in 1 .. d
      BY <1>4
    <3>2. QED
      BY <3>1
  <2>3. QED
    BY <1>8, <1>9, <2>1, <2>2
<1>12. n \in Key(brick)
  <2>1. \A i \in 1 .. d : n.xyz[i] <= m - l
    <3>1. TAKE i \in 1 .. d
    <3>2. displ[i] = 0 \/ displ[i] = 1 \/ displ[i] = -1
      BY <1>4
    <3>3. m - l \in Int /\ m - l >= 0
      BY <1>2
    <3>4. k.xyz[i] <= m - l
      BY <1>1 DEF d, m, l
    <3>5. QED
      BY <1>9, <3>2, <3>3, <3>4
  <2>2. KeyLength(brick, n.level) = l
    BY <1>7 DEF l
  <2>3. QED
    BY <1>5, <2>1, <2>2 DEF Key, d, m
<1>13. QED
  BY <1>10, <1>11, <1>12 DEF d, m, l, displ, n

----------------------------------------------------------------------------
(* The lists of keys                                                        *)

(* The leaves a forest of the brick may have.                               *)
Leaf(brick) ==
    LET d == Len(brick.size)
    IN  {q \in [tree : 0 .. Len(brick.trees) - 1, level : 0 .. MAX_LEVEL(d),
                xyz : [1 .. d -> 0 .. ROOT_LENGTH(d)]] :
            \A i \in 1 .. d : q.xyz[i] <= ROOT_LENGTH(d) - KeyLength(brick, q.level)}

LEMMA LeafIs ==
  ASSUME NEW brick, IsBrick(brick), NEW q, IsLeaf(q, brick)
  PROVE  q \in Leaf(brick)
<1> DEFINE d == Len(brick.size)
           m == ROOT_LENGTH(d)
           l == KeyLength(brick, q.level)
<1>1. q \in [tree : 0 .. Len(brick.trees) - 1, level : 0 .. MAX_LEVEL(d), xyz : [1 .. d -> 0 .. m - l]]
  BY DEF IsLeaf, KeyLength
<1>2. m \in Nat /\ \A n \in 0 .. MAX_LEVEL(d) : KeyLength(brick, n) \in 1 .. m
  BY BrickIs
<1> HIDE DEF d, m
<1>3. q.level \in 0 .. MAX_LEVEL(d)
  BY <1>1
<1>4. l \in 1 .. m
  BY <1>2, <1>3
<1> HIDE DEF l
<1>5. q.xyz \in [1 .. d -> 0 .. m - l] /\ q.tree \in 0 .. Len(brick.trees) - 1
      /\ q = [tree |-> q.tree, level |-> q.level, xyz |-> q.xyz]
  BY <1>1
<1>6. \A x \in 0 .. m - l : x \in 0 .. m /\ x <= m - l
  BY <1>2, <1>4
<1>7. q.xyz \in [1 .. d -> 0 .. m] /\ \A i \in 1 .. d : q.xyz[i] <= m - l
  BY <1>5, <1>6
<1>8. q \in [tree : 0 .. Len(brick.trees) - 1, level : 0 .. MAX_LEVEL(d), xyz : [1 .. d -> 0 .. m]]
  BY <1>3, <1>5, <1>7
<1>9. QED
  BY <1>7, <1>8 DEF Leaf, d, m, l

KeyOf(brick, q) ==
    [out |-> {}, level |-> q.level, xyz |-> q.xyz, tree |-> m_brick_coords(brick.size)[q.tree + 1]]

(* The key of a leaf names it.                                              *)
LEMMA KeyOfIs ==
  ASSUME NEW brick, IsBrick(brick)
  PROVE  /\ \A q \in Leaf(brick) : KeyOf(brick, q) \in Key(brick) /\ KeyOf(brick, q).out = {}
         /\ \A p, q \in Leaf(brick) : KeyOf(brick, p) = KeyOf(brick, q) => p = q
<1> DEFINE d == Len(brick.size)
           m == ROOT_LENGTH(d)
           trees == TreesOf(brick.size)
           coords == m_brick_coords(brick.size)
<1>1. d \in {2, 3} /\ IsSize(brick.size, d) /\ DOMAIN brick.size = 1 .. d /\ m \in Nat
      /\ \A n \in 0 .. MAX_LEVEL(d) : KeyLength(brick, n) \in 1 .. m
      /\ \A i \in 1 .. d : brick.size[i] \in Nat /\ brick.size[i] >= 1
  BY BrickIs
<1>2. IsNumbering(coords, trees) /\ IsNumbering(brick.trees, trees)
  BY <1>1, TreesNumbered DEF IsBrick
<1>3. Len(coords) = Len(brick.trees)
  BY <1>2, OneEach
<1>4. \A c \in trees : /\ c = [i \in 1 .. d |-> c[i]] /\ DOMAIN c = 1 .. d
                       /\ \A i \in 1 .. d : c[i] \in Nat /\ c[i] < brick.size[i]
  <2>1. TAKE c \in trees
  <2>2. c \in [1 .. d -> 0 .. Max(ToSet(brick.size)) - 1] /\ \A i \in 1 .. d : c[i] < brick.size[i]
    BY <1>1 DEF TreesOf
  <2>3. QED
    BY <2>2
<1>5. coords \in Seq(trees) /\ DOMAIN coords = 1 .. Len(brick.trees)
      /\ \A i, j \in DOMAIN coords : coords[i] = coords[j] => i = j
  <2> HIDE DEF coords, trees
  <2>1. QED
    BY <1>2, <1>3 DEF IsNumbering
<1> HIDE DEF d, m, coords, trees
<1>6. \A q \in Leaf(brick) :
         /\ q = [tree |-> q.tree, level |-> q.level, xyz |-> q.xyz]
         /\ q.tree \in Int /\ q.tree + 1 \in 1 .. Len(brick.trees) /\ q.level \in 0 .. MAX_LEVEL(d)
         /\ q.xyz \in [1 .. d -> Nat]
         /\ \A i \in 1 .. d : q.xyz[i] <= m - KeyLength(brick, q.level) /\ q.xyz[i] < m
  <2>1. TAKE q \in Leaf(brick)
  <2>2. /\ q \in [tree : 0 .. Len(brick.trees) - 1, level : 0 .. MAX_LEVEL(d), xyz : [1 .. d -> 0 .. m]]
        /\ \A i \in 1 .. d : q.xyz[i] <= m - KeyLength(brick, q.level)
    BY DEF Leaf, d, m
  <2>3. /\ q = [tree |-> q.tree, level |-> q.level, xyz |-> q.xyz]
        /\ q.tree \in 0 .. Len(brick.trees) - 1 /\ q.level \in 0 .. MAX_LEVEL(d)
        /\ q.xyz \in [1 .. d -> 0 .. m]
    BY <2>2
  <2>4. Len(brick.trees) \in Nat
    BY <1>2 DEF IsNumbering
  <2>5. q.tree \in Int /\ q.tree + 1 \in 1 .. Len(brick.trees)
    BY <2>3, <2>4
  <2>6. q.xyz \in [1 .. d -> Nat]
    BY <1>1, <2>3
  <2>7. KeyLength(brick, q.level) \in 1 .. m
    BY <1>1, <2>3
  <2>8. \A i \in 1 .. d : q.xyz[i] < m
    <3>1. TAKE i \in 1 .. d
    <3>2. q.xyz[i] \in Nat /\ q.xyz[i] <= m - KeyLength(brick, q.level)
      BY <2>2, <2>6
    <3>3. QED
      BY <1>1, <2>7, <3>2
  <2>9. QED
    BY <2>2, <2>3, <2>5, <2>6, <2>8
<1>7. ASSUME NEW q \in Leaf(brick)
      PROVE  KeyOf(brick, q) \in Key(brick) /\ KeyOf(brick, q).out = {}
  <2> DEFINE k == KeyOf(brick, q)
             c == coords[q.tree + 1]
  <2>1. k = [out |-> {}, level |-> q.level, xyz |-> q.xyz, tree |-> c]
    BY DEF KeyOf, coords
  <2>2. c \in trees
    BY <1>5, <1>6
  <2> HIDE DEF c, k
  <2>3. c \in [1 .. d -> Nat] /\ \A i \in 1 .. d : c[i] < brick.size[i]
    BY <1>4, <2>2
  <2>4. k \in [out : SUBSET (1 .. d), level : 0 .. MAX_LEVEL(d), xyz : [1 .. d -> Nat], tree : [1 .. d -> Nat]]
    BY <1>6, <2>1, <2>3
  <2>5. \A i \in 1 .. d : /\ k.xyz[i] < m /\ k.tree[i] < brick.size[i]
                          /\ k.xyz[i] <= m - KeyLength(brick, k.level)
    BY <1>6, <2>1, <2>3
  <2>6. k \in Key(brick) /\ k.out = {}
    BY <2>1, <2>4, <2>5 DEF Key, AnyKey, d, m
  <2>7. QED
    BY <2>6 DEF k
<1>8. ASSUME NEW p \in Leaf(brick), NEW q \in Leaf(brick), KeyOf(brick, p) = KeyOf(brick, q)
      PROVE  p = q
  <2>1. p.level = q.level /\ p.xyz = q.xyz /\ coords[p.tree + 1] = coords[q.tree + 1]
    BY <1>8 DEF KeyOf, coords
  <2>2. p.tree + 1 = q.tree + 1
    BY <1>5, <1>6, <2>1
  <2>3. p.tree = q.tree
    BY <1>6, <2>2
  <2>4. QED
    BY <1>6, <2>1, <2>3
<1>9. QED
  BY <1>7, <1>8

(* What the rank's lists are, as functions of the forest and of the ghosts.   *)
KeysIn(brick, s) == [i \in DOMAIN s |-> KeyOf(brick, s[i])]

Bordered(brick) == \E i \in 1 .. Len(brick.size) : ~ brick.periodic[i]

OutwardItems(brick, k) ==
    Chosen(Items(Len(brick.size)), {F \in ToSet(Items(Len(brick.size))) : OnBorder(brick, k, F)})

Outward(brick, k, F) ==
    get_neighbor_key_same_level(k, face_to_displacement(Len(brick.size), F), brick)

OutwardKeys(brick, k) ==
    [n \in DOMAIN OutwardItems(brick, k) |-> Outward(brick, k, OutwardItems(brick, k)[n])]

InsideKeys(brick, f, g) == KeysIn(brick, f) \o KeysIn(brick, g)

BorderKeys(brick, inside) ==
    IF Bordered(brick) THEN FlattenSeq([i \in DOMAIN inside |-> OutwardKeys(brick, inside[i])])
    ELSE <<>>

AllKeys(brick, f, g) == InsideKeys(brick, f, g) \o BorderKeys(brick, InsideKeys(brick, f, g))

(* They are what the model computes.                                        *)
LEMMA KeysOfIs ==
  \A s : KeysOf(s) = KeysIn(domain, s)
BY DEF KeysOf, KeysIn, KeyOf

LEMMA OutsideItemsIs ==
  \A k : OutsideItems(k) = OutwardItems(domain, k)
BY DEF OutsideItems, OutwardItems, TouchesOutside, OnBorder, dim

LEMMA OutsideKeysIs ==
  \A k : OutsideKeys(k) = OutwardKeys(domain, k)
BY OutsideItemsIs DEF OutsideKeys, OutwardKeys, Outward, dim

LEMMA ViewIs ==
  \A r : compute_orchard_keys_view_host(r) = AllKeys(domain, forest[r], ghost[r])
BY KeysOfIs, OutsideKeysIs
   DEF compute_orchard_keys_view_host, AllKeys, InsideKeys, BorderKeys, HasNonPeriodicBorder, Bordered, dim

(* The keys of the leaves and those outside of them.                         *)
LEMMA KeysInIs ==
  ASSUME NEW brick, IsBrick(brick), NEW s \in Seq(Leaf(brick))
  PROVE  /\ KeysIn(brick, s) \in Seq(Key(brick))
         /\ Len(KeysIn(brick, s)) = Len(s) /\ DOMAIN KeysIn(brick, s) = 1 .. Len(s)
         /\ \A i \in 1 .. Len(s) : /\ s[i] \in Leaf(brick)
                                   /\ KeysIn(brick, s)[i] = KeyOf(brick, s[i])
                                   /\ KeysIn(brick, s)[i].out = {}
<1>1. DOMAIN s = 1 .. Len(s) /\ \A i \in 1 .. Len(s) : s[i] \in Leaf(brick)
  OBVIOUS
<1>2. \A i \in 1 .. Len(s) : KeyOf(brick, s[i]) \in Key(brick) /\ KeyOf(brick, s[i]).out = {}
  BY <1>1, KeyOfIs
<1>3. KeysIn(brick, s) = [i \in 1 .. Len(s) |-> KeyOf(brick, s[i])]
  BY <1>1 DEF KeysIn
<1>4. \A i \in 1 .. Len(s) : KeysIn(brick, s)[i] = KeyOf(brick, s[i])
  BY <1>3
<1>5. QED
  BY <1>1, <1>2, <1>3, <1>4

LEMMA OutwardKeysIs ==
  ASSUME NEW brick, IsBrick(brick), NEW k \in Key(brick), k.out = {}
  PROVE  /\ OutwardItems(brick, k) \in Seq({F \in FaceSets(Len(brick.size)) : OnBorder(brick, k, F)})
         /\ OutwardKeys(brick, k) \in Seq({n \in Key(brick) : n.out # {}})
         /\ Len(OutwardKeys(brick, k)) = Len(OutwardItems(brick, k))
         /\ DOMAIN OutwardKeys(brick, k) = 1 .. Len(OutwardItems(brick, k))
         /\ \A n \in 1 .. Len(OutwardItems(brick, k)) :
               OutwardKeys(brick, k)[n] = Outward(brick, k, OutwardItems(brick, k)[n])
         /\ ~ Bordered(brick) => OutwardItems(brick, k) = <<>>
<1> DEFINE d == Len(brick.size)
           X == FaceSets(d)
           S == {F \in ToSet(Items(d)) : OnBorder(brick, k, F)}
           Y == {F \in X : OnBorder(brick, k, F)}
           items == OutwardItems(brick, k)
<1>1. d \in {2, 3}
  BY BrickIs
<1>2. Items(d) \in Seq(X)
  BY <1>1, ItemsAre
<1>3. items \in Seq(X \cap S)
  BY <1>2, ChosenType DEF OutwardItems
<1>4. X \cap S \subseteq Y
  OBVIOUS
<1> HIDE DEF X, items, S
<1>5. items \in Seq(Y)
  BY <1>3, <1>4
<1>6. \A F \in Y : Outward(brick, k, F) \in {n \in Key(brick) : n.out # {}}
  BY OutwardIs DEF Outward, X, d
<1>7. OutwardKeys(brick, k) = [n \in 1 .. Len(items) |-> Outward(brick, k, items[n])]
  <2>1. DOMAIN items = 1 .. Len(items)
    BY <1>5
  <2>2. QED
    BY <2>1 DEF OutwardKeys, items
<1>8. \A n \in 1 .. Len(items) : items[n] \in Y
  BY <1>5
<1>9. ASSUME ~ Bordered(brick) PROVE items = <<>>
  <2>1. \A F \in X : ~ OnBorder(brick, k, F)
    <3>1. SUFFICES ASSUME NEW F \in X, OnBorder(brick, k, F) PROVE FALSE
      OBVIOUS
    <3>2. PICK f \in F : ~ brick.periodic[Dir(f)]
      BY <3>1 DEF OnBorder
    <3>3. Dir(f) \in 1 .. d
      BY <1>1, <3>2, FaceIs DEF X, FaceSets
    <3>4. QED
      BY <1>9, <3>2, <3>3 DEF Bordered
  <2>2. X \cap S = {}
    BY <2>1 DEF S
  <2>3. QED
    BY <1>2, <2>2, ChosenNone DEF items, OutwardItems, S, X
<1>10. QED
  BY <1>5, <1>6, <1>7, <1>8, <1>9 DEF items, X

(* Sums and lengths of lists that are joined.                                *)
LEMMA TotalTo ==
  ASSUME NEW n \in Nat, NEW f, \A i \in 1 .. n + 1 : f[i] \in Nat
  PROVE  Total(f, 1 .. n) \in Nat /\ Total(f, 1 .. n + 1) = Total(f, 1 .. n) + f[n + 1]
<1>1. IsFiniteSet(1 .. n + 1) /\ IsFiniteSet(1 .. n)
  BY FS_Interval
<1>2. (1 .. n + 1) \ {n + 1} = 1 .. n /\ n + 1 \in 1 .. n + 1
  OBVIOUS
<1>3. Total(f, 1 .. n + 1) = f[n + 1] + Total(f, (1 .. n + 1) \ {n + 1})
  BY <1>1, <1>2, TotalStep
<1>4. Total(f, 1 .. n) \in Nat
  BY <1>1, TotalStep
<1>5. f[n + 1] \in Nat
  OBVIOUS
<1>6. Total(f, 1 .. n + 1) = f[n + 1] + Total(f, 1 .. n)
  BY <1>2, <1>3
<1> HIDE <1>3
<1>7. QED
  BY <1>4, <1>5, <1>6

LEMMA TotalNone ==
  ASSUME NEW f
  PROVE  Total(f, 1 .. 0) = 0
<1>1. IsFiniteSet({}) /\ 1 .. 0 = {} /\ \A x \in {} : f[x] \in Nat
  BY FS_EmptySet
<1>2. QED
  BY <1>1, TotalStep

LEMMA TotalSplit ==
  ASSUME NEW m \in Nat, NEW N \in Nat, NEW f, \A i \in 1 .. m + N : f[i] \in Nat
  PROVE  /\ Total(f, 1 .. m) \in Nat /\ Total([j \in 1 .. N |-> f[m + j]], 1 .. N) \in Nat
         /\ Total(f, 1 .. m + N) = Total(f, 1 .. m) + Total([j \in 1 .. N |-> f[m + j]], 1 .. N)
<1> DEFINE g == [j \in 1 .. N |-> f[m + j]]
           P == {n \in Nat : n <= N =>
                    /\ Total(f, 1 .. m) \in Nat /\ Total(g, 1 .. n) \in Nat
                    /\ Total(f, 1 .. m + n) = Total(f, 1 .. m) + Total(g, 1 .. n)}
<1>1. \A j \in 1 .. N : g[j] = f[m + j] /\ m + j \in 1 .. m + N
  OBVIOUS
<1>2. \A j \in 1 .. N : g[j] \in Nat
  BY <1>1
<1> HIDE DEF g
<1>3. 0 \in P
  <2>1. Total(g, 1 .. 0) = 0 /\ m + 0 = m
    BY TotalNone
  <2>2. IsFiniteSet(1 .. m) /\ \A i \in 1 .. m : f[i] \in Nat
    BY FS_Interval
  <2>3. Total(f, 1 .. m) \in Nat
    BY <2>2, TotalStep
  <2>4. QED
    BY <2>1, <2>3
<1>4. ASSUME NEW n \in Nat, n \in P PROVE n + 1 \in P
  <2>1. SUFFICES ASSUME n + 1 <= N
                 PROVE  /\ Total(f, 1 .. m) \in Nat /\ Total(g, 1 .. n + 1) \in Nat
                        /\ Total(f, 1 .. m + (n + 1)) = Total(f, 1 .. m) + Total(g, 1 .. n + 1)
    OBVIOUS
  <2>2. /\ Total(f, 1 .. m) \in Nat /\ Total(g, 1 .. n) \in Nat
        /\ Total(f, 1 .. m + n) = Total(f, 1 .. m) + Total(g, 1 .. n)
    BY <1>4, <2>1
  <2>3. m + n \in Nat /\ m + (n + 1) = (m + n) + 1 /\ n + 1 \in 1 .. N
    BY <2>1
  <2>4. \A i \in 1 .. (m + n) + 1 : f[i] \in Nat
    BY <2>1
  <2>5. \A i \in 1 .. n + 1 : g[i] \in Nat
    BY <1>2, <2>1
  <2>6. Total(f, 1 .. (m + n) + 1) = Total(f, 1 .. m + n) + f[(m + n) + 1]
    BY <2>3, <2>4, TotalTo
  <2>7. Total(g, 1 .. n + 1) = Total(g, 1 .. n) + g[n + 1]
    BY <2>5, TotalTo
  <2>8. g[n + 1] = f[(m + n) + 1] /\ g[n + 1] \in Nat
    BY <1>1, <1>2, <2>3
  <2> HIDE DEF P
  <2>9. Total(f, 1 .. m + (n + 1)) = Total(f, 1 .. (m + n) + 1)
    BY <2>3
  <2>10. QED
    BY <2>2, <2>6, <2>7, <2>8, <2>9
<1> HIDE DEF P
<1>5. \A n \in Nat : n \in P
  BY <1>3, <1>4, EveryNat
<1>6. N \in P
  BY <1>5
<1>7. QED
  BY <1>6 DEF P, g

LEMMA FlattenLength ==
  ASSUME NEW X, NEW seqs \in Seq(Seq(X))
  PROVE  /\ FlattenSeq(seqs) \in Seq(X)
         /\ Len(FlattenSeq(seqs)) = Total([i \in 1 .. Len(seqs) |-> Len(seqs[i])], 1 .. Len(seqs))
<1> DEFINE N == Len(seqs)
           f == [i \in 1 .. N |-> Len(seqs[i])]
<1>1. PICK c : FlattensTo(seqs, X, c)
  BY FlattenChain
<1> DEFINE P == {n \in Nat : n <= N => Len(c[n]) = Total(f, 1 .. n)}
<1>2. N \in Nat /\ \A i \in 1 .. N : seqs[i] \in Seq(X)
  OBVIOUS
<1>3. /\ \A n \in 0 .. N : c[n] \in Seq(X)
      /\ c[0] = <<>> /\ \A i \in 1 .. N : c[i] = c[i - 1] \o seqs[i]
  BY <1>1, <1>2 DEF FlattensTo
<1>4. FlattenSeq(seqs) = c[N]
  <2>1. \A n \in 0 .. N : FlattenSeq([i \in 1 .. n |-> seqs[i]]) = c[n]
    BY <1>1, Zenon DEF FlattensTo
  <2>2. N \in 0 .. N /\ seqs = [i \in 1 .. N |-> seqs[i]]
    BY <1>2
  <2> HIDE DEF N
  <2>3. FlattenSeq([i \in 1 .. N |-> seqs[i]]) = c[N]
    BY <2>1, <2>2
  <2>4. QED
    BY <2>2, <2>3
<1>5. \A i \in 1 .. N : f[i] = Len(seqs[i]) /\ f[i] \in Nat
  OBVIOUS
<1> HIDE DEF f
<1>6. 0 \in P
  BY <1>3, TotalNone
<1>7. ASSUME NEW n \in Nat, n \in P PROVE n + 1 \in P
  <2>1. SUFFICES ASSUME n + 1 <= N PROVE Len(c[n + 1]) = Total(f, 1 .. n + 1)
    OBVIOUS
  <2>2. n \in 0 .. N /\ n + 1 \in 1 .. N /\ (n + 1) - 1 = n
    BY <1>2, <2>1
  <2>3. Len(c[n]) = Total(f, 1 .. n)
    BY <1>7, <2>2
  <2>4. c[n] \in Seq(X) /\ c[n + 1] = c[n] \o seqs[n + 1] /\ seqs[n + 1] \in Seq(X)
    BY <1>2, <1>3, <2>2
  <2>5. Len(c[n + 1]) = Len(c[n]) + Len(seqs[n + 1])
    BY <2>4
  <2>6. Total(f, 1 .. n + 1) = Total(f, 1 .. n) + f[n + 1]
    BY <1>5, <2>1, TotalTo
  <2>7. QED
    BY <1>5, <2>2, <2>3, <2>5, <2>6
<1> HIDE DEF P
<1>8. N \in P
  BY <1>2, <1>6, <1>7, EveryNat
<1>9. Len(c[N]) = Total(f, 1 .. N)
  BY <1>2, <1>8 DEF P
<1>10. c[N] \in Seq(X)
  BY <1>2, <1>3
<1>11. QED
  BY <1>4, <1>9, <1>10 DEF f

(* The outside octants of a list of leaves, counted.                         *)
CountOut(brick, s) ==
    LET keys == KeysIn(brick, s)
    IN  Total([i \in DOMAIN keys |-> Len(OutwardItems(brick, keys[i]))], DOMAIN keys)

LEMMA NumOutsideIs ==
  \A s : NumOutside(s) = CountOut(domain, s)
BY KeysOfIs, OutsideItemsIs DEF NumOutside, CountOut

LEMMA CountIs ==
  ASSUME NEW brick, IsBrick(brick), NEW s \in Seq(Leaf(brick))
  PROVE  /\ CountOut(brick, s) \in Nat
         /\ CountOut(brick, s)
              = Total([i \in 1 .. Len(s) |-> Len(OutwardKeys(brick, KeysIn(brick, s)[i]))], 1 .. Len(s))
         /\ ~ Bordered(brick) => CountOut(brick, s) = 0
<1> DEFINE keys == KeysIn(brick, s)
           f == [i \in 1 .. Len(s) |-> Len(OutwardItems(brick, keys[i]))]
           g == [i \in 1 .. Len(s) |-> Len(OutwardKeys(brick, keys[i]))]
<1>1. DOMAIN keys = 1 .. Len(s) /\ \A i \in 1 .. Len(s) : keys[i] \in Key(brick) /\ keys[i].out = {}
  BY KeysInIs
<1> HIDE DEF keys
<1>2. \A i \in 1 .. Len(s) :
         /\ Len(OutwardKeys(brick, keys[i])) = Len(OutwardItems(brick, keys[i]))
         /\ Len(OutwardItems(brick, keys[i])) \in Nat
         /\ ~ Bordered(brick) => Len(OutwardItems(brick, keys[i])) = 0
  <2>1. TAKE i \in 1 .. Len(s)
  <2> DEFINE X == {F \in FaceSets(Len(brick.size)) : OnBorder(brick, keys[i], F)}
  <2>2. /\ OutwardItems(brick, keys[i]) \in Seq(X)
        /\ Len(OutwardKeys(brick, keys[i])) = Len(OutwardItems(brick, keys[i]))
        /\ ~ Bordered(brick) => OutwardItems(brick, keys[i]) = <<>>
    BY <1>1, OutwardKeysIs
  <2> HIDE DEF X
  <2>3. QED
    BY <2>2
<1>3. \A i \in 1 .. Len(s) : f[i] = g[i] /\ f[i] \in Nat /\ (~ Bordered(brick) => f[i] = 0)
  BY <1>2
<1>4. CountOut(brick, s) = Total(f, 1 .. Len(s))
  BY <1>1 DEF CountOut, keys
<1> HIDE DEF f, g
<1>5. IsFiniteSet(1 .. Len(s))
  BY FS_Interval
<1>6. Total(f, 1 .. Len(s)) = Total(g, 1 .. Len(s)) /\ Total(f, 1 .. Len(s)) \in Nat
  BY <1>3, <1>5, TotalSame, TotalStep
<1>7. ~ Bordered(brick) => Total(f, 1 .. Len(s)) = 0
  BY <1>3, <1>5, TotalZero
<1>8. QED
  BY <1>4, <1>6, <1>7 DEF g, keys

LEMMA InsideKeysIs ==
  ASSUME NEW brick, IsBrick(brick), NEW f \in Seq(Leaf(brick)), NEW g \in Seq(Leaf(brick))
  PROVE  /\ InsideKeys(brick, f, g) \in Seq(Key(brick))
         /\ Len(InsideKeys(brick, f, g)) = Len(f) + Len(g)
         /\ \A i \in 1 .. Len(f) : InsideKeys(brick, f, g)[i] = KeysIn(brick, f)[i]
         /\ \A i \in 1 .. Len(g) : InsideKeys(brick, f, g)[Len(f) + i] = KeysIn(brick, g)[i]
         /\ \A i \in 1 .. Len(f) + Len(g) : InsideKeys(brick, f, g)[i].out = {}
<1> DEFINE a == KeysIn(brick, f)
           b == KeysIn(brick, g)
           K == Key(brick)
<1>1. a \in Seq(K) /\ Len(a) = Len(f) /\ \A i \in 1 .. Len(f) : a[i].out = {}
  BY KeysInIs
<1>2. b \in Seq(K) /\ Len(b) = Len(g) /\ \A i \in 1 .. Len(g) : b[i].out = {}
  BY KeysInIs
<1> HIDE DEF a, b, K
<1>3. /\ a \o b \in Seq(K) /\ Len(a \o b) = Len(a) + Len(b)
      /\ \A j \in 1 .. Len(b) : (a \o b)[Len(a) + j] = b[j]
      /\ \A j \in 1 .. Len(a) : (a \o b)[j] = a[j]
  <2>1. a \in Seq(K) /\ b \in Seq(K)
    BY <1>1, <1>2
  <2>2. /\ a \o b \in Seq(K) /\ Len(a \o b) = Len(a) + Len(b)
        /\ \A j \in 1 .. Len(b) : (a \o b)[Len(a) + j] = b[j]
    BY <2>1, Joined, Zenon
  <2>3. \A j \in 1 .. Len(a) : (a \o b)[j] = a[j]
    BY <2>1, JoinedFirst, Zenon
  <2>4. QED
    BY <2>2, <2>3
<1>4. Len(f) \in Nat /\ Len(g) \in Nat
  OBVIOUS
<1>5. ASSUME NEW i \in 1 .. Len(f) + Len(g) PROVE (a \o b)[i].out = {}
  <2>1. CASE i \in 1 .. Len(f)
    BY <1>1, <1>3, <2>1
  <2>2. CASE i \notin 1 .. Len(f)
    <3>1. i - Len(f) \in 1 .. Len(g) /\ Len(f) + (i - Len(f)) = i
      BY <1>4, <2>2
    <3>2. (a \o b)[Len(f) + (i - Len(f))] = b[i - Len(f)]
      BY <1>1, <1>2, <1>3, <3>1
    <3>3. QED
      BY <1>2, <3>1, <3>2
  <2>3. QED
    BY <2>1, <2>2
<1>6. InsideKeys(brick, f, g) = a \o b
  BY DEF InsideKeys, a, b
<1>7. QED
  BY <1>1, <1>2, <1>3, <1>5, <1>6 DEF a, b, K

LEMMA BorderKeysIs ==
  ASSUME NEW brick, IsBrick(brick), NEW f \in Seq(Leaf(brick)), NEW g \in Seq(Leaf(brick))
  PROVE  LET border == BorderKeys(brick, InsideKeys(brick, f, g))
         IN  /\ border \in Seq({k \in Key(brick) : k.out # {}})
             /\ Len(border) = CountOut(brick, f) + CountOut(brick, g)
<1> DEFINE inside == InsideKeys(brick, f, g)
           X == {k \in Key(brick) : k.out # {}}
           m == Len(f)
           n == Len(g)
           seqs == [i \in 1 .. m + n |-> OutwardKeys(brick, inside[i])]
           len == [i \in 1 .. m + n |-> Len(seqs[i])]
           lenf == [i \in 1 .. m |-> Len(OutwardKeys(brick, KeysIn(brick, f)[i]))]
           leng == [i \in 1 .. n |-> Len(OutwardKeys(brick, KeysIn(brick, g)[i]))]
           shift == [j \in 1 .. n |-> len[m + j]]
<1>1. m \in Nat /\ n \in Nat
  OBVIOUS
<1>2. /\ inside \in Seq(Key(brick)) /\ Len(inside) = m + n
      /\ \A i \in 1 .. m + n : inside[i].out = {}
      /\ \A i \in 1 .. m : inside[i] = KeysIn(brick, f)[i]
      /\ \A i \in 1 .. n : inside[m + i] = KeysIn(brick, g)[i]
  BY InsideKeysIs
<1>3. CountOut(brick, f) = Total(lenf, 1 .. m) /\ CountOut(brick, g) = Total(leng, 1 .. n)
      /\ CountOut(brick, f) \in Nat /\ CountOut(brick, g) \in Nat
      /\ (~ Bordered(brick) => CountOut(brick, f) = 0 /\ CountOut(brick, g) = 0)
  BY CountIs
<1>4. \A i \in 1 .. m + n : OutwardKeys(brick, inside[i]) \in Seq(X)
  <2>1. TAKE i \in 1 .. m + n
  <2>2. inside[i] \in Key(brick) /\ inside[i].out = {}
    BY <1>2
  <2>3. QED
    BY <2>2, OutwardKeysIs
<1> HIDE DEF inside, m, n, X
<1>5. seqs \in Seq(Seq(X)) /\ Len(seqs) = m + n /\ \A i \in 1 .. m + n : seqs[i] = OutwardKeys(brick, inside[i])
  <2>1. seqs \in [1 .. m + n -> Seq(X)]
    BY <1>4
  <2> HIDE DEF seqs
  <2>2. seqs \in Seq(Seq(X)) /\ Len(seqs) = m + n
    BY <1>1, <2>1
  <2>3. QED
    BY <2>2 DEF seqs
<1>6. \A i \in 1 .. m + n : len[i] \in Nat /\ len[i] = Len(OutwardKeys(brick, inside[i]))
  BY <1>4
<1>7. FlattenSeq(seqs) \in Seq(X) /\ Len(FlattenSeq(seqs)) = Total(len, 1 .. m + n)
  <2> HIDE DEF seqs
  <2>1. FlattenSeq(seqs) \in Seq(X)
        /\ Len(FlattenSeq(seqs)) = Total([i \in 1 .. Len(seqs) |-> Len(seqs[i])], 1 .. Len(seqs))
    BY <1>5, FlattenLength
  <2>2. QED
    BY <1>5, <2>1
<1> HIDE DEF len
<1>8. Total(len, 1 .. m + n) = Total(len, 1 .. m) + Total(shift, 1 .. n)
  BY <1>1, <1>6, TotalSplit
<1>9. \A i \in 1 .. m : len[i] \in Nat /\ lenf[i] = len[i]
  BY <1>1, <1>2, <1>6
<1>10. \A i \in 1 .. n : shift[i] \in Nat /\ leng[i] = shift[i]
  <2>1. TAKE i \in 1 .. n
  <2>2. m + i \in 1 .. m + n
    BY <1>1
  <2>3. QED
    BY <1>2, <1>6, <2>2
<1> HIDE DEF lenf, leng, shift
<1>11. IsFiniteSet(1 .. m) /\ IsFiniteSet(1 .. n)
  BY <1>1, FS_Interval
<1>12. Total(len, 1 .. m) = Total(lenf, 1 .. m) /\ Total(shift, 1 .. n) = Total(leng, 1 .. n)
  BY <1>9, <1>10, <1>11, TotalSame
<1>13. Len(FlattenSeq(seqs)) = CountOut(brick, f) + CountOut(brick, g)
  <2> HIDE DEF seqs
  <2>1. QED
    BY <1>3, <1>7, <1>8, <1>12
<1>14. CASE Bordered(brick)
  <2>1. DOMAIN inside = 1 .. m + n
    BY <1>1, <1>2
  <2>2. BorderKeys(brick, inside) = FlattenSeq(seqs)
    BY <1>14, <2>1 DEF BorderKeys
  <2> HIDE DEF seqs
  <2>3. QED
    BY <1>7, <1>13, <2>2 DEF X, inside
<1>15. CASE ~ Bordered(brick)
  <2>1. BorderKeys(brick, inside) = <<>>
    BY <1>15 DEF BorderKeys
  <2>2. QED
    BY <1>3, <1>15, <2>1 DEF X, inside
<1>16. QED
  BY <1>14, <1>15

(* The list of keys: its length, the inside keys first, then the others.     *)
LEMMA AllKeysIs ==
  ASSUME NEW brick, IsBrick(brick), NEW f \in Seq(Leaf(brick)), NEW g \in Seq(Leaf(brick))
  PROVE  /\ AllKeys(brick, f, g) \in Seq(Key(brick))
         /\ Len(AllKeys(brick, f, g)) = Len(f) + Len(g) + CountOut(brick, f) + CountOut(brick, g)
         /\ \A i \in 1 .. Len(f) : AllKeys(brick, f, g)[i] = KeysIn(brick, f)[i]
         /\ \A i \in 1 .. Len(g) : AllKeys(brick, f, g)[Len(f) + i] = KeysIn(brick, g)[i]
         /\ \A i \in 1 .. Len(AllKeys(brick, f, g)) :
               AllKeys(brick, f, g)[i].out # {} <=> i > Len(f) + Len(g)
<1> DEFINE a == InsideKeys(brick, f, g)
           b == BorderKeys(brick, InsideKeys(brick, f, g))
           K == Key(brick)
           X == {k \in K : k.out # {}}
           m == Len(f)
           n == Len(g)
<1>1. m \in Nat /\ n \in Nat /\ CountOut(brick, f) \in Nat /\ CountOut(brick, g) \in Nat
  <2>1. m \in Nat /\ n \in Nat
    OBVIOUS
  <2>2. CountOut(brick, f) \in Nat /\ CountOut(brick, g) \in Nat
    BY CountIs, Zenon
  <2>3. QED
    BY <2>1, <2>2
<1>2. /\ a \in Seq(K)
      /\ Len(a) = m + n
      /\ \A i \in 1 .. m : a[i] = KeysIn(brick, f)[i]
      /\ \A i \in 1 .. n : a[m + i] = KeysIn(brick, g)[i]
      /\ \A i \in 1 .. m + n : a[i].out = {}
  BY InsideKeysIs, Zenon
<1>3. b \in Seq(X) /\ Len(b) = CountOut(brick, f) + CountOut(brick, g)
  BY BorderKeysIs
<1>4. AllKeys(brick, f, g) = a \o b
  BY DEF AllKeys
<1> HIDE DEF a, b, K, m, n
<1>5. b \in Seq(K) /\ Len(b) \in Nat /\ \A i \in 1 .. Len(b) : b[i].out # {}
  BY <1>3
<1> HIDE DEF X
<1>5a. a \in Seq(K) /\ b \in Seq(K)
  BY <1>2, <1>5
<1>6. /\ a \o b \in Seq(K) /\ Len(a \o b) = Len(a) + Len(b)
      /\ \A j \in 1 .. Len(b) : (a \o b)[Len(a) + j] = b[j]
  BY <1>5a, Joined, Zenon
<1>7. \A j \in 1 .. Len(a) : (a \o b)[j] = a[j]
  BY <1>5a, JoinedFirst, Zenon
<1>8. \A j \in 1 .. m + n : (a \o b)[j] = a[j]
  BY <1>2, <1>7
<1>9. \A i \in 1 .. m : (a \o b)[i] = KeysIn(brick, f)[i]
  BY <1>1, <1>2, <1>8
<1>10. \A i \in 1 .. n : (a \o b)[m + i] = KeysIn(brick, g)[i]
  BY <1>1, <1>2, <1>8
<1>11. ASSUME NEW i \in 1 .. Len(a \o b) PROVE (a \o b)[i].out # {} <=> i > m + n
  <2>1. CASE i <= m + n
    BY <1>1, <1>2, <1>8, <2>1
  <2>2. CASE i > m + n
    <3>1. i - (m + n) \in 1 .. Len(b) /\ (m + n) + (i - (m + n)) = i
      BY <1>1, <1>2, <1>5, <1>6, <2>2
    <3>2. (a \o b)[(m + n) + (i - (m + n))] = b[i - (m + n)]
      BY <1>2, <1>6, <3>1
    <3>3. QED
      BY <1>5, <2>2, <3>1, <3>2
  <2>3. i \in Int /\ m + n \in Int
    BY <1>1
  <2>4. QED
    BY <2>1, <2>2, <2>3
<1>12. Len(a \o b) = m + n + CountOut(brick, f) + CountOut(brick, g)
  BY <1>1, <1>2, <1>3, <1>6
<1>13. QED
  BY <1>4, <1>6, <1>9, <1>10, <1>11, <1>12 DEF K, m, n

----------------------------------------------------------------------------
(* The forest and its ghosts                                                *)

LEMMA CutEvenly ==
  ASSUME NEW N \in Nat, N >= 1, NEW n \in Nat
  PROVE  /\ (0 * n) \div N = 0 /\ (N * n) \div N = n
         /\ \A r \in 0 .. N : (r * n) \div N \in 0 .. n
         /\ \A r \in 0 .. N - 1 : (r * n) \div N <= ((r + 1) * n) \div N
<1>1. (0 * n) \div N = 0 /\ (N * n) \div N = n
  OBVIOUS
<1>2. ASSUME NEW r \in 0 .. N PROVE (r * n) \div N \in 0 .. n
  <2>1. r * n \in Nat /\ r * n <= N * n
    BY <1>2
  <2>2. QED
    BY <2>1
<1>3. ASSUME NEW r \in 0 .. N - 1 PROVE (r * n) \div N <= ((r + 1) * n) \div N
  <2>1. r * n \in Nat /\ (r + 1) * n = r * n + n
    OBVIOUS
  <2>2. \A x \in Nat : x \div N <= (x + n) \div N
    OBVIOUS
  <2>3. QED
    BY <2>1, <2>2
<1>4. QED
  BY <1>1, <1>2, <1>3

LEMMA Rises ==
  ASSUME NEW N \in Nat, NEW c \in [0 .. N -> Nat], \A r \in 0 .. N - 1 : c[r] <= c[r + 1]
  PROVE  \A i, j \in 0 .. N : i <= j => c[i] <= c[j]
<1> DEFINE P == {k \in Nat : \A i \in 0 .. N : i + k <= N => c[i] <= c[i + k]}
<1>1. 0 \in P
  OBVIOUS
<1>2. ASSUME NEW k \in Nat, k \in P PROVE k + 1 \in P
  <2>1. SUFFICES ASSUME NEW i \in 0 .. N, i + (k + 1) <= N PROVE c[i] <= c[i + (k + 1)]
    OBVIOUS
  <2>2. c[i] <= c[i + k] /\ i + k \in 0 .. N - 1 /\ i + (k + 1) = (i + k) + 1 /\ (i + k) + 1 \in 0 .. N
    BY <1>2, <2>1
  <2>3. c[i + k] <= c[(i + k) + 1] /\ c[i] \in Nat /\ c[i + k] \in Nat /\ c[(i + k) + 1] \in Nat
    BY <2>2
  <2>4. QED
    BY <2>2, <2>3
<1>3. \A k \in Nat : k \in P
  <2> HIDE DEF P
  <2>1. QED
    BY <1>1, <1>2, EveryNat
<1>4. ASSUME NEW i \in 0 .. N, NEW j \in 0 .. N, i <= j PROVE c[i] <= c[j]
  <2>1. j - i \in Nat /\ i + (j - i) = j
    BY <1>4
  <2>2. j - i \in P
    BY <1>3, <2>1
  <2>3. QED
    BY <2>1, <2>2
<1>5. QED
  BY <1>4

(* Lists, element by element.                                               *)
LEMMA SameLists ==
  ASSUME NEW X, NEW s \in Seq(X), NEW Y, NEW t \in Seq(Y), Len(s) = Len(t),
         \A i \in 1 .. Len(s) : s[i] = t[i]
  PROVE  s = t
<1>1. s = [i \in 1 .. Len(s) |-> s[i]] /\ t = [i \in 1 .. Len(t) |-> t[i]]
  OBVIOUS
<1>2. QED
  BY <1>1

LEMMA ElementsIs ==
  ASSUME NEW X, NEW s \in Seq(X)
  PROVE  /\ ToSet(s) \subseteq X
         /\ \A i \in 1 .. Len(s) : s[i] \in ToSet(s)
         /\ \A x \in ToSet(s) : \E i \in 1 .. Len(s) : s[i] = x
<1>1. DOMAIN s = 1 .. Len(s) /\ \A i \in 1 .. Len(s) : s[i] \in X
  OBVIOUS
<1>2. ToSet(s) = {s[i] : i \in 1 .. Len(s)}
  BY <1>1 DEF ToSet
<1>3. QED
  BY <1>1, <1>2

LEMMA PartsJoin ==
  ASSUME NEW X, NEW s \in Seq(X), NEW k \in Nat, NEW m \in Nat, NEW n \in Nat,
         k <= m, m <= n, n <= Len(s)
  PROVE  SubSeq(s, k + 1, m) \o SubSeq(s, m + 1, n) = SubSeq(s, k + 1, n)
<1> DEFINE a == SubSeq(s, k + 1, m)
           b == SubSeq(s, m + 1, n)
           c == SubSeq(s, k + 1, n)
<1>1. a \in Seq(X) /\ Len(a) = m - k /\ \A j \in 1 .. m - k : a[j] = s[k + j]
  <2>1. Len(s) \in Nat /\ m <= Len(s)
    OBVIOUS
  <2>2. QED
    BY <2>1, PartOfSeq
<1>2. b \in Seq(X) /\ Len(b) = n - m /\ \A j \in 1 .. n - m : b[j] = s[m + j]
  BY PartOfSeq
<1>3. c \in Seq(X) /\ Len(c) = n - k /\ \A j \in 1 .. n - k : c[j] = s[k + j]
  <2>1. k <= n
    OBVIOUS
  <2>2. QED
    BY <2>1, PartOfSeq
<1> HIDE DEF a, b, c
<1>4. /\ a \o b \in Seq(X) /\ Len(a \o b) = Len(a) + Len(b)
      /\ \A j \in 1 .. Len(b) : (a \o b)[Len(a) + j] = b[j]
  <2>1. a \in Seq(X) /\ b \in Seq(X)
    BY <1>1, <1>2
  <2>2. QED
    BY <2>1, Joined, Zenon
<1>5. \A j \in 1 .. Len(a) : (a \o b)[j] = a[j]
  <2>1. a \in Seq(X) /\ b \in Seq(X)
    BY <1>1, <1>2
  <2>2. QED
    BY <2>1, JoinedFirst, Zenon
<1>6. Len(a \o b) = n - k
  BY <1>1, <1>2, <1>4
<1>7. ASSUME NEW j \in 1 .. n - k PROVE (a \o b)[j] = c[j]
  <2>1. CASE j <= m - k
    BY <1>1, <1>3, <1>5, <2>1
  <2>2. CASE j > m - k
    <3>1. j - (m - k) \in 1 .. n - m /\ (m - k) + (j - (m - k)) = j /\ m + (j - (m - k)) = k + j
      BY <2>2
    <3>2. (a \o b)[(m - k) + (j - (m - k))] = b[j - (m - k)]
      BY <1>1, <1>2, <1>4, <3>1
    <3>3. b[j - (m - k)] = s[k + j]
      BY <1>2, <3>1
    <3>4. QED
      BY <1>3, <3>1, <3>2, <3>3
  <2>3. j <= m - k \/ j > m - k
    OBVIOUS
  <2>4. QED
    BY <2>1, <2>2, <2>3
<1>8. a \o b = c
  BY <1>3, <1>4, <1>6, <1>7, SameLists
<1>9. QED
  BY <1>8 DEF a, b, c

LEMMA WholePart ==
  ASSUME NEW X, NEW s \in Seq(X)
  PROVE  SubSeq(s, 1, Len(s)) = s
<1>1. Len(s) \in 0 .. Len(s)
  OBVIOUS
<1>2. /\ SubSeq(s, 1, Len(s)) \in Seq(X) /\ Len(SubSeq(s, 1, Len(s))) = Len(s)
      /\ \A j \in 1 .. Len(s) : SubSeq(s, 1, Len(s))[j] = s[j]
  BY <1>1, FirstPart
<1>3. QED
  BY <1>2, SameLists

(* A part of a list without repetition is what is chosen from it.            *)
LEMMA ChosenAll ==
  ASSUME NEW X, NEW s \in Seq(X), NEW S, \A i \in 1 .. Len(s) : s[i] \in S
  PROVE  Chosen(s, S) = s
<1> DEFINE P == {t \in Seq(X) : (\A i \in 1 .. Len(t) : t[i] \in S) => Chosen(t, S) = t}
<1>1. <<>> \in P
  BY ChosenEmpty
<1>2. ASSUME NEW t \in Seq(X), NEW x \in X, t \in P PROVE Append(t, x) \in P
  <2>1. SUFFICES ASSUME \A i \in 1 .. Len(Append(t, x)) : Append(t, x)[i] \in S
                 PROVE  Chosen(Append(t, x), S) = Append(t, x)
    <3>1. Append(t, x) \in Seq(X)
      OBVIOUS
    <3>2. QED
      BY <3>1
  <2>2. /\ Len(Append(t, x)) = Len(t) + 1 /\ Append(t, x)[Len(t) + 1] = x /\ Len(t) \in Nat
        /\ \A i \in 1 .. Len(t) : Append(t, x)[i] = t[i]
    OBVIOUS
  <2>3. x \in S /\ \A i \in 1 .. Len(t) : t[i] \in S
    BY <2>1, <2>2
  <2>4. Chosen(t, S) = t
    BY <1>2, <2>3
  <2>5. Chosen(Append(t, x), S) = IF x \in S THEN Append(Chosen(t, S), x) ELSE Chosen(t, S)
    BY ChosenAppend
  <2>6. QED
    BY <2>3, <2>4, <2>5
<1> HIDE DEF P
<1>3. \A t \in Seq(X) : t \in P
  BY <1>1, <1>2, EverySeq
<1>4. QED
  BY <1>3 DEF P

LEMMA ChosenPart ==
  ASSUME NEW X, NEW s \in Seq(X), Once(s), NEW m \in Nat, NEW n \in Nat, m <= n, n <= Len(s)
  PROVE  Chosen(s, ToSet(SubSeq(s, m + 1, n))) = SubSeq(s, m + 1, n)
<1> DEFINE L == Len(s)
           a == SubSeq(s, 1, m)
           b == SubSeq(s, m + 1, n)
           c == SubSeq(s, n + 1, L)
           S == ToSet(b)
<1>1. L \in Nat /\ DOMAIN s = 1 .. L /\ \A i, j \in 1 .. L : s[i] = s[j] => i = j
  BY DEF Once
<1>2. a \in Seq(X) /\ Len(a) = m /\ \A j \in 1 .. m : a[j] = s[j]
  BY FirstPart
<1>3. b \in Seq(X) /\ Len(b) = n - m /\ \A j \in 1 .. n - m : b[j] = s[m + j]
  BY PartOfSeq
<1>4. c \in Seq(X) /\ Len(c) = L - n /\ \A j \in 1 .. L - n : c[j] = s[n + j]
  <2>1. n <= Len(s) /\ Len(s) \in Nat /\ Len(s) <= Len(s)
    BY <1>1
  <2>2. QED
    BY <2>1, PartOfSeq
<1>5. s = (a \o b) \o c
  <2>1. 0 \in Nat /\ 0 <= m /\ 0 <= n /\ n <= L /\ L \in Nat /\ L <= Len(s) /\ 0 + 1 = 1
    BY <1>1
  <2>2. SubSeq(s, 0 + 1, m) \o b = SubSeq(s, 0 + 1, n)
    BY <2>1, PartsJoin
  <2>3. SubSeq(s, 0 + 1, n) \o c = SubSeq(s, 0 + 1, L)
    BY <2>1, PartsJoin
  <2>4. SubSeq(s, 1, L) = s
    BY WholePart
  <2> HIDE DEF L, b, c
  <2>5. QED
    BY <2>1, <2>2, <2>3, <2>4
<1> HIDE DEF a, b, c, L
<1>6. S = {s[k] : k \in m + 1 .. n}
  <2>1. S = {b[j] : j \in 1 .. n - m}
    <3>1. DOMAIN b = 1 .. n - m
      BY <1>3
    <3>2. QED
      BY <3>1 DEF ToSet
  <2>2. \A j \in 1 .. n - m : b[j] = s[m + j] /\ m + j \in m + 1 .. n
    BY <1>3
  <2>3. \A k \in m + 1 .. n : k - m \in 1 .. n - m /\ b[k - m] = s[k]
    <3>1. TAKE k \in m + 1 .. n
    <3>2. k - m \in 1 .. n - m /\ m + (k - m) = k
      OBVIOUS
    <3>3. QED
      BY <1>3, <3>2
  <2> HIDE DEF S
  <2>4. \A x : x \in S => x \in {s[k] : k \in m + 1 .. n}
    BY <2>1, <2>2
  <2>5. \A k \in m + 1 .. n : s[k] \in S
    BY <2>1, <2>3
  <2>6. QED
    BY <2>4, <2>5
<1> HIDE DEF S
<1>7. \A k \in 1 .. L : s[k] \in S => k \in m + 1 .. n
  BY <1>1, <1>6
<1>8. Chosen(b, S) = b
  <2>1. \A i \in 1 .. Len(b) : b[i] \in S
    BY <1>3, ElementsIs DEF S
  <2>2. QED
    BY <1>3, <2>1, ChosenAll
<1>9. Chosen(a, S) = <<>>
  <2>1. \A i \in 1 .. m : a[i] \in X /\ a[i] \notin S
    BY <1>1, <1>2, <1>7
  <2>2. a \in Seq(X \ S)
    BY <1>2, <2>1
  <2>3. QED
    BY <2>2, ChosenNone
<1>10. Chosen(c, S) = <<>>
  <2>1. \A i \in 1 .. L - n : c[i] \in X /\ c[i] \notin S
    <3>1. TAKE i \in 1 .. L - n
    <3>2. n + i \in 1 .. L /\ n + i \notin m + 1 .. n
      BY <1>1
    <3>3. QED
      BY <1>4, <1>7, <3>2
  <2>2. c \in Seq(X \ S)
    BY <1>4, <2>1
  <2>3. QED
    BY <2>2, ChosenNone
<1>11. a \o b \in Seq(X)
  BY <1>2, <1>3
<1>12. Chosen(s, S) = (Chosen(a, S) \o Chosen(b, S)) \o Chosen(c, S)
  <2>1. Chosen((a \o b) \o c, S) = Chosen(a \o b, S) \o Chosen(c, S)
    <3> DEFINE ab == a \o b
    <3>1. ab \in Seq(X)
      BY <1>11
    <3> HIDE DEF ab
    <3>2. Chosen(ab \o c, S) = Chosen(ab, S) \o Chosen(c, S)
      BY <1>4, <3>1, ChosenJoined, SMTT(30)
    <3>3. QED
      BY <3>2 DEF ab
  <2>2. Chosen(a \o b, S) = Chosen(a, S) \o Chosen(b, S)
    BY <1>2, <1>3, ChosenJoined, SMTT(30)
  <2>3. QED
    BY <1>5, <2>1, <2>2
<1>13. QED
  BY <1>3, <1>8, <1>9, <1>10, <1>12 DEF S, b

(* The ranks share the leaves of a mesh, in its order.                       *)
IsForest(brick, mesh, f) ==
    /\ mesh \in Seq(Leaf(brick)) /\ Once(mesh)
    /\ f \in [Ranks -> Seq(Leaf(brick))]
    /\ \A r \in Ranks : f[r] = Chosen(mesh, ToSet(f[r]))
    /\ \A r, s \in Ranks : r # s => ToSet(f[r]) \cap ToSet(f[s]) = {}
    /\ FlattenSeq([s \in 1 .. NumRanks |-> f[s - 1]]) = mesh

(* Where the segments of the ranks begin.                                    *)
IsCut(c, n) ==
    /\ c \in [0 .. NumRanks -> 0 .. n]
    /\ c[0] = 0 /\ c[NumRanks] = n
    /\ \A r \in Ranks : c[r] <= c[r + 1]

LEMMA CutsAre ==
  ASSUME NEW X, NEW mesh \in Seq(X), NEW f \in Cuts(mesh)
  PROVE  \E c : IsCut(c, Len(mesh)) /\ f = [r \in Ranks |-> SubSeq(mesh, c[r] + 1, c[r + 1])]
<1> DEFINE n == Len(mesh)
           even == [r \in 0 .. NumRanks |-> (r * n) \div NumRanks]
           all == {c \in [0 .. NumRanks -> 0 .. n] :
                      /\ c[0] = 0 /\ c[NumRanks] = n
                      /\ \A r \in Ranks : c[r] <= c[r + 1]}
<1>1. n \in Nat /\ NumRanks \in Nat /\ NumRanks >= 1
  BY MeshMapAssumption
<1> HIDE DEF n
<1>2. PICK c \in IF n <= MaxCut THEN all ELSE {even} :
         f = [r \in Ranks |-> SubSeq(mesh, c[r] + 1, c[r + 1])]
  BY DEF Cuts, n
<1>3. \A e \in all : IsCut(e, n)
  BY DEF IsCut
<1>4. IsCut(even, n)
  <2>1. /\ (0 * n) \div NumRanks = 0 /\ (NumRanks * n) \div NumRanks = n
        /\ \A r \in 0 .. NumRanks : (r * n) \div NumRanks \in 0 .. n
        /\ \A r \in 0 .. NumRanks - 1 : (r * n) \div NumRanks <= ((r + 1) * n) \div NumRanks
    BY <1>1, CutEvenly
  <2>2. even \in [0 .. NumRanks -> 0 .. n]
    BY <2>1
  <2>3. even[0] = 0 /\ even[NumRanks] = n
    BY <1>1, <2>1
  <2>4. \A r \in Ranks : even[r] <= even[r + 1]
    <3>1. TAKE r \in Ranks
    <3>2. r \in 0 .. NumRanks /\ r + 1 \in 0 .. NumRanks /\ r \in 0 .. NumRanks - 1
      BY <1>1 DEF Ranks
    <3>3. even[r] = (r * n) \div NumRanks /\ even[r + 1] = ((r + 1) * n) \div NumRanks
      BY <3>2
    <3> HIDE DEF even
    <3>4. QED
      BY <2>1, <3>2, <3>3
  <2> HIDE DEF even
  <2>5. QED
    BY <2>2, <2>3, <2>4 DEF IsCut
<1> HIDE DEF all, even
<1>5. IsCut(c, n)
  BY <1>2, <1>3, <1>4
<1>6. QED
  BY <1>2, <1>5 DEF n

LEMMA ForestIs ==
  ASSUME NEW brick \in DOMAIN Meshes, NEW mesh \in Meshes[brick], NEW f \in Cuts(mesh)
  PROVE  IsBrick(brick) /\ IsForest(brick, mesh, f)
<1> DEFINE X == Leaf(brick)
           n == Len(mesh)
<1>1. IsBrick(brick) /\ IsMesh(mesh, brick) /\ NumRanks \in Nat /\ NumRanks >= 1
  BY MeshMapAssumption
<1>2. mesh \in Seq(X) /\ Once(mesh)
  <2>1. mesh \in Seq(ToSet(mesh)) /\ (\A i \in DOMAIN mesh : IsLeaf(mesh[i], brick))
        /\ \A i, j \in DOMAIN mesh : mesh[i] = mesh[j] => i = j
    BY <1>1 DEF IsMesh
  <2>2. \A i \in DOMAIN mesh : mesh[i] \in X
    BY <1>1, <2>1, LeafIs
  <2> HIDE DEF X
  <2>3. mesh \in Seq(X)
    BY <2>1, <2>2
  <2>4. QED
    BY <2>1, <2>3 DEF Once
<1>3. PICK c : IsCut(c, n) /\ f = [r \in Ranks |-> SubSeq(mesh, c[r] + 1, c[r + 1])]
  BY <1>2, CutsAre
<1> HIDE DEF X
<1>4. n \in Nat /\ n <= Len(mesh)
  BY <1>2
<1>5. \A r \in Ranks : /\ r \in 0 .. NumRanks /\ r + 1 \in 0 .. NumRanks
                       /\ c[r] \in Nat /\ c[r + 1] \in Nat /\ c[r] <= c[r + 1] /\ c[r + 1] <= n
  BY <1>1, <1>3, <1>4, SMTT(30) DEF IsCut, Ranks
<1>6. ASSUME NEW r \in Ranks
      PROVE  /\ f[r] = SubSeq(mesh, c[r] + 1, c[r + 1]) /\ f[r] \in Seq(X)
             /\ Len(f[r]) = c[r + 1] - c[r]
             /\ \A j \in 1 .. c[r + 1] - c[r] : f[r][j] = mesh[c[r] + j]
             /\ f[r] = Chosen(mesh, ToSet(f[r]))
  <2>1. f[r] = SubSeq(mesh, c[r] + 1, c[r + 1])
    BY <1>3
  <2>2. c[r] \in Nat /\ c[r + 1] \in Nat /\ c[r] <= c[r + 1] /\ c[r + 1] <= Len(mesh)
    BY <1>4, <1>5
  <2>3. /\ SubSeq(mesh, c[r] + 1, c[r + 1]) \in Seq(X)
        /\ Len(SubSeq(mesh, c[r] + 1, c[r + 1])) = c[r + 1] - c[r]
        /\ \A j \in 1 .. c[r + 1] - c[r] : SubSeq(mesh, c[r] + 1, c[r + 1])[j] = mesh[c[r] + j]
    BY <1>2, <2>2, PartOfSeq, SMTT(30)
  <2>4. Chosen(mesh, ToSet(SubSeq(mesh, c[r] + 1, c[r + 1]))) = SubSeq(mesh, c[r] + 1, c[r + 1])
    BY <1>2, <2>2, ChosenPart
  <2>5. QED
    BY <2>1, <2>3, <2>4
<1>7. f \in [Ranks -> Seq(X)]
  <2>1. f = [r \in Ranks |-> f[r]]
    BY <1>3
  <2>2. QED
    BY <1>6, <2>1
<1>8. \A i, j \in 0 .. NumRanks : i <= j => c[i] <= c[j]
  <2>1. c \in [0 .. NumRanks -> Nat]
    BY <1>3, <1>4 DEF IsCut
  <2>2. \A r \in 0 .. NumRanks - 1 : c[r] <= c[r + 1]
    BY <1>5 DEF Ranks
  <2>3. QED
    BY <1>1, <2>1, <2>2, Rises
<1>9. ASSUME NEW r \in Ranks, NEW s \in Ranks, r < s
      PROVE  ToSet(f[r]) \cap ToSet(f[s]) = {}
  <2>1. SUFFICES ASSUME NEW x \in ToSet(f[r]), x \in ToSet(f[s]) PROVE FALSE
    OBVIOUS
  <2>2. f[r] \in Seq(X) /\ f[s] \in Seq(X)
    BY <1>6
  <2>3. PICK i \in 1 .. Len(f[r]) : f[r][i] = x
    BY <2>1, <2>2, ElementsIs
  <2>4. PICK j \in 1 .. Len(f[s]) : f[s][j] = x
    BY <2>1, <2>2, ElementsIs
  <2>5. i \in 1 .. c[r + 1] - c[r] /\ mesh[c[r] + i] = x
    BY <1>6, <2>3
  <2>6. j \in 1 .. c[s + 1] - c[s] /\ mesh[c[s] + j] = x
    BY <1>6, <2>4
  <2>7. c[r + 1] <= c[s]
    <3>1. r + 1 <= s /\ r + 1 \in 0 .. NumRanks /\ s \in 0 .. NumRanks
      BY <1>5, <1>9 DEF Ranks
    <3>2. QED
      BY <1>8, <3>1
  <2>8. c[r] + i \in 1 .. n /\ c[s] + j \in 1 .. n /\ c[r] + i < c[s] + j
    <3> HIDE DEF n
    <3>1. /\ c[r] \in Nat /\ c[r + 1] \in Nat /\ c[r] <= c[r + 1] /\ c[r + 1] <= n
          /\ c[s] \in Nat /\ c[s + 1] \in Nat /\ c[s] <= c[s + 1] /\ c[s + 1] <= n
          /\ i \in 1 .. c[r + 1] - c[r] /\ j \in 1 .. c[s + 1] - c[s] /\ n \in Nat
      BY <1>4, <1>5, <2>5, <2>6
    <3>2. \A a, b, k \in Nat : \A g \in 1 .. b - a : b <= k => a + g \in 1 .. k /\ a + g <= b
      OBVIOUS
    <3>3. c[r] + i \in 1 .. n /\ c[r] + i <= c[r + 1] /\ c[s] + j \in 1 .. n
      BY <3>1, <3>2
    <3>4. c[s] < c[s] + j
      BY <3>1
    <3>5. QED
      BY <2>7, <3>1, <3>3, <3>4
  <2>9. DOMAIN mesh = 1 .. n
    BY <1>2
  <2>10. c[r] + i = c[s] + j
    <3> HIDE DEF n
    <3>1. c[r] + i \in DOMAIN mesh /\ c[s] + j \in DOMAIN mesh
      BY <2>8, <2>9
    <3>2. QED
      BY <1>2, <2>5, <2>6, <3>1 DEF Once
  <2>11. QED
    BY <1>5, <2>5, <2>6, <2>8, <2>10
<1>10. \A r, s \in Ranks : r # s => ToSet(f[r]) \cap ToSet(f[s]) = {}
  <2>1. TAKE r, s \in Ranks
  <2>2. r = s \/ r < s \/ s < r
    BY <1>1 DEF Ranks
  <2>3. r < s => ToSet(f[r]) \cap ToSet(f[s]) = {}
    BY <1>9
  <2>4. s < r => ToSet(f[s]) \cap ToSet(f[r]) = {}
    BY <1>9
  <2>5. QED
    BY <2>2, <2>3, <2>4
<1>11. FlattenSeq([s \in 1 .. NumRanks |-> f[s - 1]]) = mesh
  <2> DEFINE seqs == [s \in 1 .. NumRanks |-> f[s - 1]]
             sets == [s \in 1 .. NumRanks |-> {SubSeq(mesh, 1, c[s])}]
  <2>1. \A s \in 1 .. NumRanks : s - 1 \in Ranks /\ (s - 1) + 1 = s
    BY <1>1 DEF Ranks
  <2>2. \A s \in 1 .. NumRanks :
           seqs[s] = SubSeq(mesh, c[s - 1] + 1, c[s]) /\ seqs[s] \in Seq(X)
    BY <1>6, <2>1
  <2>3. seqs \in Seq(Seq(X)) /\ Len(seqs) = NumRanks
    <3>1. seqs \in [1 .. NumRanks -> Seq(X)]
      BY <2>2
    <3> HIDE DEF seqs
    <3>2. QED
      BY <1>1, <3>1
  <2>4. \A s \in 1 .. NumRanks : sets[s] = {SubSeq(mesh, 1, c[s])}
    OBVIOUS
  <2> HIDE DEF seqs, sets
  <2>5. seqs[1] \in sets[1]
    <3>1. 1 \in 1 .. NumRanks /\ 1 - 1 = 0
      BY <1>1
    <3>2. seqs[1] = SubSeq(mesh, 1, c[1])
      <4>1. c[0] = 0 /\ seqs[1] = SubSeq(mesh, c[1 - 1] + 1, c[1])
        BY <1>3, <2>2, <3>1 DEF IsCut
      <4>2. c[1 - 1] + 1 = 1
        BY <3>1, <4>1
      <4>3. QED
        BY <4>1, <4>2
    <3>3. QED
      BY <2>4, <3>1, <3>2
  <2>6. ASSUME NEW s \in 2 .. NumRanks, NEW v \in sets[s - 1] PROVE v \o seqs[s] \in sets[s]
    <3>1. s \in 1 .. NumRanks /\ s - 1 \in 1 .. NumRanks /\ s - 1 \in Ranks /\ (s - 1) + 1 = s
      BY <1>1, <2>6 DEF Ranks
    <3>2. v = SubSeq(mesh, 1, c[s - 1])
      BY <2>4, <2>6, <3>1
    <3>3. c[s - 1] \in Nat /\ c[s] \in Nat /\ c[s - 1] <= c[s] /\ c[s] <= n
      BY <1>5, <3>1
    <3>4. SubSeq(mesh, 0 + 1, c[s - 1]) \o SubSeq(mesh, c[s - 1] + 1, c[s]) = SubSeq(mesh, 0 + 1, c[s])
      <4>1. 0 \in Nat /\ 0 <= c[s - 1] /\ c[s] <= Len(mesh)
        BY <3>3
      <4>2. QED
        BY <1>2, <3>3, <4>1, PartsJoin
    <3>5. v \o seqs[s] = SubSeq(mesh, 1, c[s])
      <4>1. 0 + 1 = 1
        OBVIOUS
      <4>2. seqs[s] = SubSeq(mesh, c[s - 1] + 1, c[s])
        BY <2>2, <3>1
      <4>3. QED
        BY <3>2, <3>4, <4>1, <4>2
    <3>6. QED
      BY <2>4, <3>1, <3>5
  <2>7. FlattenSeq(seqs) \in sets[NumRanks]
    BY <1>1, <2>3, <2>5, <2>6, FlattenIn
  <2>8. NumRanks \in 1 .. NumRanks /\ c[NumRanks] = n
    BY <1>1, <1>3 DEF IsCut
  <2>9. FlattenSeq(seqs) = SubSeq(mesh, 1, n)
    BY <2>4, <2>7, <2>8
  <2>10. SubSeq(mesh, 1, n) = mesh
    BY <1>2, WholePart
  <2>11. QED
    BY <2>9, <2>10 DEF seqs
<1>12. QED
  BY <1>1, <1>2, <1>6, <1>7, <1>10, <1>11 DEF IsForest, X

IsGhost(brick, mesh, own, g) ==
    /\ g \in Seq(Leaf(brick)) /\ Once(g)
    /\ g = Chosen(mesh, ToSet(g))
    /\ ToSet(g) \cap ToSet(own) = {}

LEMMA GhostIs ==
  ASSUME NEW brick, NEW mesh, NEW f, IsForest(brick, mesh, f), NEW r \in Ranks
  PROVE  IsGhost(brick, mesh, f[r], GhostLayer(f, brick, r))
<1> DEFINE X == Leaf(brick)
           own == ToSet(f[r])
           box == [q \in ToSet(mesh) |-> Box(q, brick)]
           S == {q \in ToSet(mesh) \ own : \E p \in own : Adjacent(box[p], box[q], brick)}
           g == Chosen(mesh, S)
<1>1. /\ mesh \in Seq(X) /\ Once(mesh)
      /\ FlattenSeq([s \in 1 .. NumRanks |-> f[s - 1]]) = mesh
  BY DEF IsForest
<1>2. GhostLayer(f, brick, r) = g
  BY <1>1 DEF GhostLayer
<1>3. S \cap own = {}
  OBVIOUS
<1> HIDE DEF X, own, S
<1>4. g \in Seq(X) /\ g \in Seq(X \cap S)
  BY <1>1, ChosenType
<1>5. Once(g)
  BY <1>1, ChosenOnce
<1>6. ToSet(g) = ToSet(mesh) \cap S
  BY <1>1, ChosenElements
<1>7. g = Chosen(mesh, ToSet(g))
  <2>1. mesh \in Seq(ToSet(mesh))
    <3>1. \A i \in 1 .. Len(mesh) : mesh[i] \in ToSet(mesh)
      BY <1>1, ElementsIs
    <3>2. QED
      BY <1>1, <3>1
  <2>2. ToSet(mesh) \cap S = ToSet(mesh) \cap ToSet(g)
    BY <1>6
  <2> HIDE DEF g
  <2>3. Chosen(mesh, S) = Chosen(mesh, ToSet(g))
    BY <2>1, <2>2, ChosenSame
  <2>4. QED
    BY <2>3 DEF g
<1> HIDE DEF g
<1>8. ToSet(g) \cap own = {}
  BY <1>3, <1>6
<1>9. QED
  BY <1>2, <1>4, <1>5, <1>7, <1>8 DEF IsGhost, X, own

----------------------------------------------------------------------------
(* The inductive invariant                                                  *)

(* The forest is a mesh of the brick, with its ghosts.                       *)
Built ==
    /\ domain \in DOMAIN Meshes
    /\ \E mesh \in Meshes[domain] : forest \in Cuts(mesh)
    /\ ghost = [r \in Ranks |-> GhostLayer(forest, domain, r)]

(* What is then known of it.                                                *)
IsShared(brick, f, g) ==
    /\ IsBrick(brick)
    /\ f \in [Ranks -> Seq(Leaf(brick))] /\ g \in [Ranks -> Seq(Leaf(brick))]
    /\ \E mesh : /\ IsForest(brick, mesh, f)
                 /\ \A r \in Ranks : IsGhost(brick, mesh, f[r], g[r])

LEMMA BuiltIs ==
  ASSUME Built
  PROVE  IsShared(domain, forest, ghost)
<1>1. domain \in DOMAIN Meshes /\ ghost = [r \in Ranks |-> GhostLayer(forest, domain, r)]
  BY DEF Built
<1>2. PICK mesh \in Meshes[domain] : forest \in Cuts(mesh)
  BY DEF Built
<1>3. IsBrick(domain) /\ IsForest(domain, mesh, forest)
  BY <1>1, <1>2, ForestIs
<1>4. \A r \in Ranks : IsGhost(domain, mesh, forest[r], ghost[r])
  <2>1. TAKE r \in Ranks
  <2>2. ghost[r] = GhostLayer(forest, domain, r)
    BY <1>1
  <2>3. QED
    BY <1>3, <2>2, GhostIs
<1>5. ghost \in [Ranks -> Seq(Leaf(domain))]
  <2>1. \A r \in Ranks : ghost[r] \in Seq(Leaf(domain))
    BY <1>4 DEF IsGhost
  <2>2. ghost = [r \in Ranks |-> ghost[r]]
    BY <1>1
  <2>3. QED
    BY <2>1, <2>2
<1>6. forest \in [Ranks -> Seq(Leaf(domain))]
  BY <1>3 DEF IsForest
<1>7. QED
  BY <1>3, <1>4, <1>5, <1>6 DEF IsShared

(* The operations of update_amr_mesh_info and compute_outside_quad_info.      *)
CountingOps == {1, 2, 3, 4, 8, 9, 10}

OutsideInfo == [local : Nat, global : Nat, first : Nat, ghosts : Nat, outside_ghosts : Nat]

MeshInfos ==
    [quadrants : Nat, first : Nat, ghosts : Nat, mirrors : Nat, outside : Nat,
     global_outside : Nat, first_outside : Nat, outside_ghosts : Nat]

Typed ==
    /\ at \in [Ranks -> 1 .. 13]
    /\ phase \in [Ranks -> {"begin", "allreduce", "exscan"}]
    /\ m_outside_quads_info \in [Ranks -> OutsideInfo]
    /\ m_amr_mesh_info \in [Ranks -> MeshInfos]
    /\ DOMAIN m_orchard_keys = Ranks /\ DOMAIN m_amr_hashmap = Ranks
    /\ DOMAIN m_mirror_orchard_keys = Ranks
    /\ rebuilds \in 1 .. MaxRebuilds

(* A rank is in a collective in a counting operation only.                   *)
InCollective ==
    \A r \in Ranks : phase[r] # "begin" => at[r] \in CountingOps /\ Bordered(domain)

(* What the counts of a rank are when it has made them, and when it has gone  *)
(* through the first reduction and the first scan since the mesh is new; the  *)
(* ranks go through the reduction together.                                  *)
Counts(brick, f) == [s \in Ranks |-> CountOut(brick, f[s])]

HasCounted(r) == at[r] > 1 \/ phase[r] # "begin"
HasReduced(r)  == at[r] > 1 \/ phase[r] = "exscan"

LocalRight ==
    \A r \in Ranks : HasCounted(r) =>
        /\ m_outside_quads_info[r].local = CountOut(domain, forest[r])
        /\ m_outside_quads_info[r].outside_ghosts = CountOut(domain, ghost[r])

GlobalRight ==
    \A r \in Ranks : HasReduced(r) =>
        m_outside_quads_info[r].global = Total(Counts(domain, forest), Ranks)

FirstRight ==
    \A r \in Ranks : at[r] > 1 =>
        m_outside_quads_info[r].first = Total(Counts(domain, forest), 0 .. r - 1)

Together == \A r, s \in Ranks : HasReduced(r) => HasReduced(s)

OutsideKnown ==
    /\ Bordered(domain) => LocalRight /\ GlobalRight /\ FirstRight /\ Together
    /\ ~ Bordered(domain) => \A r \in Ranks : m_outside_quads_info[r] = NoOutside
    /\ m_outside_quads_info[0].first = 0

IsInfo(brick, f, g, r, info) ==
    /\ info.quadrants = Len(f[r]) /\ info.ghosts = Len(g[r])
    /\ info.outside = CountOut(brick, f[r]) /\ info.outside_ghosts = CountOut(brick, g[r])
    /\ info.global_outside = Total(Counts(brick, f), Ranks)
    /\ info.first_outside = Total(Counts(brick, f), 0 .. r - 1)

InfoKnown ==
    \A r \in Ranks : at[r] > 2 => IsInfo(domain, forest, ghost, r, m_amr_mesh_info[r])

(* What is filled after the counts: keys, map, mirrors.                      *)
KeysKnown ==
    \A r \in Ranks : at[r] > 5 => m_orchard_keys[r] = AllKeys(domain, forest[r], ghost[r])

MapKnown ==
    \A r \in Ranks : at[r] > 6 =>
        m_amr_hashmap[r] \in Insertions(AllKeys(domain, forest[r], ghost[r]))

MirrorIndices(f, g, r, p) ==
    LET of == Chosen(f[r], UNION {ToSet(g[q]) : q \in Ranks \ {r}})
    IN  Chosen([i \in DOMAIN of |-> i], {i \in DOMAIN of : of[i] \in ToSet(g[p])})

(* The mirrors rank p has as ghosts.                                         *)
MirrorKeysFor(brick, f, g, r, p) ==
    LET of      == Chosen(f[r], UNION {ToSet(g[q]) : q \in Ranks \ {r}})
        indices == MirrorIndices(f, g, r, p)
    IN  [n \in DOMAIN indices |-> KeysIn(brick, of)[indices[n]]]

MirrorKeys(brick, f, g, r) ==
    FlattenSeq([p \in 1 .. NumRanks |->
                   IF p - 1 = r THEN <<>> ELSE MirrorKeysFor(brick, f, g, r, p - 1)])

MirrorsKnown ==
    \A r \in Ranks : at[r] > 7 => m_mirror_orchard_keys[r] = MirrorKeys(domain, forest, ghost, r)

MeshInv ==
    /\ Built /\ Typed /\ InCollective /\ OutsideKnown
    /\ InfoKnown /\ KeysKnown /\ MapKnown /\ MirrorsKnown

LEMMA RankSets ==
  /\ IsFiniteSet(Ranks) /\ 0 \in Ranks
  /\ \A r \in Ranks : /\ r \in Nat /\ 0 .. r - 1 \subseteq Ranks /\ IsFiniteSet(0 .. r - 1)
                      /\ IsFiniteSet(Ranks \ {r}) /\ r \notin 0 .. r - 1
  /\ 0 .. 0 - 1 = {}
<1>1. NumRanks \in Nat /\ NumRanks >= 1
  BY MeshMapAssumption
<1>2. IsFiniteSet(Ranks) /\ 0 \in Ranks
  BY <1>1, FS_Interval DEF Ranks
<1>3. ASSUME NEW r \in Ranks
      PROVE  /\ r \in Nat /\ 0 .. r - 1 \subseteq Ranks /\ IsFiniteSet(0 .. r - 1)
             /\ IsFiniteSet(Ranks \ {r}) /\ r \notin 0 .. r - 1
  <2>1. r \in Nat /\ 0 .. r - 1 \subseteq Ranks /\ r \notin 0 .. r - 1
    BY <1>1 DEF Ranks
  <2>2. IsFiniteSet(0 .. r - 1)
    BY <2>1, FS_Interval
  <2>3. IsFiniteSet(Ranks \ {r})
    BY <1>2, FS_Subset
  <2>4. QED
    BY <2>1, <2>2, <2>3
<1>4. 0 .. 0 - 1 = {}
  OBVIOUS
<1>5. QED
  BY <1>2, <1>3, <1>4

(* The counts of the ranks, added up.                                        *)
LEMMA CountsAre ==
  ASSUME NEW brick, NEW f, NEW g, IsShared(brick, f, g)
  PROVE  /\ \A r \in Ranks : /\ f[r] \in Seq(Leaf(brick)) /\ g[r] \in Seq(Leaf(brick))
                             /\ CountOut(brick, f[r]) \in Nat /\ CountOut(brick, g[r]) \in Nat
                             /\ Total(Counts(brick, f), 0 .. r - 1) \in Nat
         /\ Total(Counts(brick, f), Ranks) \in Nat
         /\ Total(Counts(brick, f), 0 .. 0 - 1) = 0
         /\ ~ Bordered(brick) =>
               /\ Total(Counts(brick, f), Ranks) = 0
               /\ \A r \in Ranks : /\ CountOut(brick, f[r]) = 0 /\ CountOut(brick, g[r]) = 0
                                   /\ Total(Counts(brick, f), 0 .. r - 1) = 0
<1> DEFINE c == Counts(brick, f)
<1>1. IsBrick(brick) /\ \A r \in Ranks : f[r] \in Seq(Leaf(brick)) /\ g[r] \in Seq(Leaf(brick))
  BY DEF IsShared
<1>2. \A r \in Ranks :
         /\ CountOut(brick, f[r]) \in Nat /\ CountOut(brick, g[r]) \in Nat
         /\ ~ Bordered(brick) => CountOut(brick, f[r]) = 0 /\ CountOut(brick, g[r]) = 0
  BY <1>1, CountIs
<1>3. \A r \in Ranks : c[r] = CountOut(brick, f[r])
  BY DEF Counts
<1> HIDE DEF c
<1>4. \A r \in Ranks : c[r] \in Nat /\ (~ Bordered(brick) => c[r] = 0)
  BY <1>2, <1>3
<1>5. Total(c, Ranks) \in Nat /\ (~ Bordered(brick) => Total(c, Ranks) = 0)
  BY <1>4, RankSets, TotalStep, TotalZero
<1>6. ASSUME NEW r \in Ranks
      PROVE  Total(c, 0 .. r - 1) \in Nat /\ (~ Bordered(brick) => Total(c, 0 .. r - 1) = 0)
  <2>1. \A s \in 0 .. r - 1 : c[s] \in Nat /\ (~ Bordered(brick) => c[s] = 0)
    BY <1>4, RankSets
  <2>2. IsFiniteSet(0 .. r - 1)
    BY RankSets
  <2>3. QED
    BY <2>1, <2>2, TotalStep, TotalZero
<1>7. Total(c, 0 .. 0 - 1) = 0
  <2>1. IsFiniteSet({}) /\ \A s \in {} : c[s] = 0
    BY FS_EmptySet
  <2>2. Total(c, {}) = 0
    BY <2>1, TotalZero
  <2>3. QED
    BY <2>2, RankSets
<1>8. QED
  BY <1>1, <1>2, <1>5, <1>6, <1>7 DEF c

(* What update_amr_mesh_info writes.                                        *)
LEMMA MirrorIndicesIs ==
  \A r, p : /\ mirrors(r) = Chosen(forest[r], UNION {ToSet(ghost[q]) : q \in Ranks \ {r}})
            /\ mirror_proc_mirrors(r, p) = MirrorIndices(forest, ghost, r, p)
BY DEF mirrors, mirror_proc_mirrors, MirrorIndices

LEMMA IndicesAre ==
  ASSUME NEW X, NEW s \in Seq(X), NEW S
  PROVE  Chosen([i \in DOMAIN s |-> i], S) \in Seq((1 .. Len(s)) \cap S)
<1> DEFINE all == [i \in DOMAIN s |-> i]
<1>1. all \in Seq(1 .. Len(s))
  OBVIOUS
<1> HIDE DEF all
<1>2. Chosen(all, S) \in Seq((1 .. Len(s)) \cap S)
  BY <1>1, ChosenType
<1>3. QED
  BY <1>2 DEF all

LEMMA MirrorsCounted ==
  ASSUME NEW brick, NEW f, NEW g, IsShared(brick, f, g), NEW r \in Ranks, NEW p
  PROVE  /\ MirrorIndices(f, g, r, p) \in Seq(Nat)
         /\ Len(MirrorIndices(f, g, r, p)) \in Nat
<1> DEFINE of == Chosen(f[r], UNION {ToSet(g[q]) : q \in Ranks \ {r}})
           S == {i \in DOMAIN of : of[i] \in ToSet(g[p])}
<1>1. f[r] \in Seq(Leaf(brick))
  BY DEF IsShared
<1>2. of \in Seq(Leaf(brick))
  BY <1>1, ChosenType
<1>3. MirrorIndices(f, g, r, p) = Chosen([i \in DOMAIN of |-> i], S)
  BY DEF MirrorIndices
<1> HIDE DEF of, S
<1>4. MirrorIndices(f, g, r, p) \in Seq((1 .. Len(of)) \cap S)
  BY <1>2, <1>3, IndicesAre
<1>5. (1 .. Len(of)) \cap S \subseteq Nat
  BY <1>2
<1> HIDE DEF of
<1>6. MirrorIndices(f, g, r, p) \in Seq(Nat)
  BY <1>4, <1>5
<1>7. QED
  BY <1>6

LEMMA InfoIs ==
  ASSUME Built, NEW r \in Ranks, NEW outside \in OutsideInfo
  PROVE  /\ MeshInfo(r, outside) \in MeshInfos
         /\ MeshInfo(r, outside).quadrants = Len(forest[r])
         /\ MeshInfo(r, outside).ghosts = Len(ghost[r])
         /\ MeshInfo(r, outside).outside = outside.local
         /\ MeshInfo(r, outside).global_outside = outside.global
         /\ MeshInfo(r, outside).first_outside = outside.first
         /\ MeshInfo(r, outside).outside_ghosts = outside.outside_ghosts
<1>1. IsShared(domain, forest, ghost)
  BY BuiltIs
<1>2. \A s \in Ranks : forest[s] \in Seq(Leaf(domain)) /\ ghost[s] \in Seq(Leaf(domain))
  BY <1>1, CountsAre
<1>3. \A s \in Ranks : Len(forest[s]) \in Nat /\ Len(ghost[s]) \in Nat
  BY <1>2
<1>4. Total([s \in Ranks |-> Len(forest[s])], 0 .. r - 1) \in Nat
  <2> DEFINE lens == [s \in Ranks |-> Len(forest[s])]
  <2>1. \A s \in 0 .. r - 1 : lens[s] \in Nat
    BY <1>3, RankSets
  <2> HIDE DEF lens
  <2>2. IsFiniteSet(0 .. r - 1)
    BY RankSets
  <2>3. Total(lens, 0 .. r - 1) \in Nat
    BY <2>1, <2>2, TotalStep
  <2>4. QED
    BY <2>3 DEF lens
<1>5. num_mirrors(r) \in Nat
  <2> DEFINE lens == [p \in Ranks |-> Len(mirror_proc_mirrors(r, p))]
  <2>1. \A p \in Ranks : lens[p] \in Nat
    BY <1>1, MirrorIndicesIs, MirrorsCounted
  <2> HIDE DEF lens
  <2>2. IsFiniteSet(Ranks \ {r}) /\ \A p \in Ranks \ {r} : lens[p] \in Nat
    BY <2>1, RankSets
  <2>3. Total(lens, Ranks \ {r}) \in Nat
    BY <2>2, TotalStep
  <2>4. QED
    BY <2>3 DEF lens, num_mirrors
<1>6. /\ outside.local \in Nat /\ outside.global \in Nat /\ outside.first \in Nat
      /\ outside.outside_ghosts \in Nat
  BY DEF OutsideInfo
<1>7. QED
  BY <1>3, <1>4, <1>5, <1>6 DEF MeshInfo, MeshInfos

(* The script, operation by operation.                                       *)
LEMMA OpIs ==
  ASSUME NEW r, at[r] \in 1 .. 13
  PROVE  /\ Counting(r) <=> at[r] \in CountingOps
         /\ Op(r) = "info" <=> at[r] \in CountingOps \ {1}
         /\ Op(r) = "keys" <=> at[r] \in {5, 11}
         /\ Op(r) = "hashmap" <=> at[r] = 6
         /\ Op(r) = "mirrors" <=> at[r] = 7
         /\ Op(r) = "status" <=> at[r] = 12
         /\ Op(r) = "done" <=> at[r] = 13
<1>1. DOMAIN Script = 1 .. 12
  BY DEF Script
<1>2. /\ Script[1] = "outside" /\ Script[2] = "info" /\ Script[3] = "info" /\ Script[4] = "info"
      /\ Script[5] = "keys" /\ Script[6] = "hashmap" /\ Script[7] = "mirrors" /\ Script[8] = "info"
      /\ Script[9] = "info" /\ Script[10] = "info" /\ Script[11] = "keys" /\ Script[12] = "status"
  BY DEF Script
<1>3. \/ at[r] = 1 \/ at[r] = 2 \/ at[r] = 3 \/ at[r] = 4 \/ at[r] = 5 \/ at[r] = 6 \/ at[r] = 7
      \/ at[r] = 8 \/ at[r] = 9 \/ at[r] = 10 \/ at[r] = 11 \/ at[r] = 12 \/ at[r] = 13
  OBVIOUS
<1>4. Op(r) = IF at[r] \in 1 .. 12 THEN Script[at[r]] ELSE "done"
  BY <1>1 DEF Op
<1> HIDE <1>1
<1>5. QED
  BY <1>2, <1>3, <1>4 DEF Counting, CountingOps

LEMMA MeshStart ==
  Init => MeshInv
<1> SUFFICES ASSUME Init PROVE MeshInv
  OBVIOUS
<1>1. Built
  BY DEF Init, Built
<1>2. NoOutside \in OutsideInfo
  BY DEF NoOutside, OutsideInfo
<1>3. /\ at = [r \in Ranks |-> 1] /\ phase = [r \in Ranks |-> "begin"]
      /\ m_outside_quads_info = [r \in Ranks |-> NoOutside]
      /\ m_amr_mesh_info = [r \in Ranks |-> MeshInfo(r, NoOutside)]
      /\ DOMAIN m_orchard_keys = Ranks /\ DOMAIN m_amr_hashmap = Ranks
      /\ DOMAIN m_mirror_orchard_keys = Ranks /\ rebuilds = 1
  BY DEF Init
<1>4. m_amr_mesh_info \in [Ranks -> MeshInfos]
  <2>1. \A r \in Ranks : MeshInfo(r, NoOutside) \in MeshInfos
    BY <1>1, <1>2, InfoIs
  <2>2. QED
    BY <1>3, <2>1
<1>5. rebuilds \in 1 .. MaxRebuilds
  BY <1>3, MeshMapAssumption
<1>6. Typed
  BY <1>2, <1>3, <1>4, <1>5 DEF Typed
<1>7. \A r \in Ranks : at[r] = 1 /\ phase[r] = "begin" /\ m_outside_quads_info[r] = NoOutside
  BY <1>3
<1>8. InCollective /\ InfoKnown /\ KeysKnown /\ MapKnown /\ MirrorsKnown
  BY <1>7 DEF InCollective, InfoKnown, KeysKnown, MapKnown, MirrorsKnown
<1>9. OutsideKnown
  <2>1. \A r \in Ranks : ~ HasCounted(r) /\ ~ HasReduced(r) /\ ~ (at[r] > 1)
    BY <1>7 DEF HasCounted, HasReduced
  <2>2. LocalRight /\ GlobalRight /\ FirstRight /\ Together
    BY <2>1 DEF LocalRight, GlobalRight, FirstRight, Together
  <2>3. m_outside_quads_info[0].first = 0
    BY <1>7, RankSets DEF NoOutside
  <2>4. QED
    BY <1>7, <2>2, <2>3 DEF OutsideKnown
<1>10. QED
  BY <1>1, <1>6, <1>8, <1>9 DEF MeshInv

(* The end of a counting operation.                                          *)
RightOutside(r, outside) ==
    /\ outside \in OutsideInfo
    /\ outside.local = CountOut(domain, forest[r])
    /\ outside.outside_ghosts = CountOut(domain, ghost[r])
    /\ outside.global = Total(Counts(domain, forest), Ranks)
    /\ outside.first = Total(Counts(domain, forest), 0 .. r - 1)
    /\ ~ Bordered(domain) => outside = NoOutside
    /\ Bordered(domain) => \A s \in Ranks : HasReduced(s)

LEMMA EndStep ==
  ASSUME MeshInv, NEW r \in Ranks, Counting(r), NEW outside, RightOutside(r, outside),
         EndCount(r, outside),
         UNCHANGED <<domain, forest, ghost, m_orchard_keys, m_amr_hashmap, m_mirror_orchard_keys, rebuilds>>
  PROVE  MeshInv'
<1> USE DEF MeshInv
<1>1. /\ at \in [Ranks -> 1 .. 13] /\ phase \in [Ranks -> {"begin", "allreduce", "exscan"}]
      /\ m_outside_quads_info \in [Ranks -> OutsideInfo] /\ m_amr_mesh_info \in [Ranks -> MeshInfos]
  BY DEF Typed
<1>2. at[r] \in CountingOps /\ at[r] \in 1 .. 13
  BY <1>1, OpIs
<1>3. at[r] \in {1, 2, 3, 4, 8, 9, 10}
  BY <1>2 DEF CountingOps
<1>4. /\ m_outside_quads_info' = [m_outside_quads_info EXCEPT ![r] = outside]
      /\ at' = [at EXCEPT ![r] = @ + 1] /\ phase' = [phase EXCEPT ![r] = "begin"]
      /\ m_amr_mesh_info' = IF Op(r) = "info"
                            THEN [m_amr_mesh_info EXCEPT ![r] = MeshInfo(r, outside)] ELSE m_amr_mesh_info
  BY DEF EndCount
<1>5. outside \in OutsideInfo
  BY DEF RightOutside
<1>6. Built'
  BY DEF Built
<1>7. /\ MeshInfo(r, outside) \in MeshInfos
      /\ IsInfo(domain, forest, ghost, r, MeshInfo(r, outside))
  BY <1>5, InfoIs DEF RightOutside, IsInfo
<1>8. /\ at' \in [Ranks -> 1 .. 13] /\ at'[r] = at[r] + 1 /\ phase'[r] = "begin"
      /\ m_outside_quads_info'[r] = outside
      /\ \A s \in Ranks : s # r => /\ at'[s] = at[s] /\ phase'[s] = phase[s]
                                   /\ m_outside_quads_info'[s] = m_outside_quads_info[s]
  BY <1>1, <1>3, <1>4
<1>9. /\ \A s \in Ranks : s # r => m_amr_mesh_info'[s] = m_amr_mesh_info[s]
      /\ at[r] # 1 => m_amr_mesh_info'[r] = MeshInfo(r, outside)
  <2>1. at[r] # 1 => Op(r) = "info"
    BY <1>2, OpIs
  <2>2. QED
    BY <1>1, <1>4, <2>1
<1>10. Typed'
  <2>1. phase' \in [Ranks -> {"begin", "allreduce", "exscan"}]
    BY <1>1, <1>4
  <2>2. m_outside_quads_info' \in [Ranks -> OutsideInfo]
    BY <1>1, <1>4, <1>5
  <2>3. m_amr_mesh_info' \in [Ranks -> MeshInfos]
    BY <1>1, <1>4, <1>7
  <2>4. QED
    BY <1>8, <2>1, <2>2, <2>3 DEF Typed
<1>11. InCollective'
  BY <1>8 DEF InCollective
<1>12. OutsideKnown'
  <2>1. ASSUME ~ Bordered(domain) PROVE \A s \in Ranks : m_outside_quads_info'[s] = NoOutside
    BY <1>8, <2>1 DEF OutsideKnown, RightOutside
  <2>2. m_outside_quads_info'[0].first = 0
    <3>1. CASE r = 0
      <4>1. outside.first = 0
        <5>1. IsShared(domain, forest, ghost)
          BY BuiltIs
        <5>2. Total(Counts(domain, forest), 0 .. 0 - 1) = 0
          BY <5>1, CountsAre
        <5>3. QED
          BY <3>1, <5>2 DEF RightOutside
      <4>2. QED
        BY <1>8, <3>1, <4>1
    <3>2. CASE r # 0
      BY <1>8, <3>2, RankSets DEF OutsideKnown
    <3>3. QED
      BY <3>1, <3>2
  <2>3. ASSUME Bordered(domain) PROVE LocalRight' /\ GlobalRight' /\ FirstRight' /\ Together'
    <3>1. LocalRight /\ GlobalRight /\ FirstRight /\ Together /\ \A s \in Ranks : HasReduced(s)
      BY <2>3 DEF OutsideKnown, RightOutside
    <3>2. LocalRight'
      BY <1>8, <3>1 DEF LocalRight, HasCounted, RightOutside
    <3>3. GlobalRight'
      BY <1>8, <3>1 DEF GlobalRight, HasReduced, RightOutside
    <3>4. FirstRight'
      BY <1>8, <3>1 DEF FirstRight, RightOutside
    <3>5. Together'
      <4>1. \A s \in Ranks : at'[s] > 1 \/ phase'[s] = "exscan"
        BY <1>3, <1>8, <3>1 DEF HasReduced
      <4>2. QED
        BY <4>1 DEF Together, HasReduced
    <3>6. QED
      BY <3>2, <3>3, <3>4, <3>5
  <2>4. QED
    BY <2>1, <2>2, <2>3 DEF OutsideKnown
<1>13. InfoKnown'
  BY <1>3, <1>7, <1>8, <1>9 DEF InfoKnown
<1>14. KeysKnown'
  BY <1>3, <1>8 DEF KeysKnown
<1>15. MapKnown'
  BY <1>3, <1>8 DEF MapKnown
<1>16. MirrorsKnown'
  BY <1>3, <1>8 DEF MirrorsKnown
<1>17. QED
  BY <1>6, <1>10, <1>11, <1>12, <1>13, <1>14, <1>15, <1>16

LEMMA ResetStep ==
  ASSUME MeshInv, NEW r \in Ranks, ResetOutside(r)
  PROVE  MeshInv'
<1>1. /\ Counting(r) /\ EndCount(r, NoOutside)
      /\ UNCHANGED <<domain, forest, ghost, m_orchard_keys, m_amr_hashmap, m_mirror_orchard_keys, rebuilds>>
  BY DEF ResetOutside
<1>2. ~ Bordered(domain)
  BY DEF ResetOutside, HasNonPeriodicBorder, Bordered, dim
<1>3. IsShared(domain, forest, ghost)
  BY BuiltIs DEF MeshInv
<1>4. RightOutside(r, NoOutside)
  <2>1. /\ CountOut(domain, forest[r]) = 0 /\ CountOut(domain, ghost[r]) = 0
        /\ Total(Counts(domain, forest), Ranks) = 0 /\ Total(Counts(domain, forest), 0 .. r - 1) = 0
    BY <1>2, <1>3, CountsAre
  <2>2. NoOutside \in OutsideInfo /\ NoOutside.local = 0 /\ NoOutside.outside_ghosts = 0
        /\ NoOutside.global = 0 /\ NoOutside.first = 0
    BY DEF NoOutside, OutsideInfo
  <2>3. QED
    BY <1>2, <2>1, <2>2 DEF RightOutside
<1>5. QED
  BY <1>1, <1>4, EndStep

(* The ranks below have made their counts, which the scan adds up.           *)
LEMMA ExscanStep ==
  ASSUME MeshInv, NEW r \in Ranks, Exscan(r)
  PROVE  MeshInv'
<1> DEFINE outside == [m_outside_quads_info[r] EXCEPT !.first = FirstOutside(r), !.ghosts = Len(ghost[r])]
<1>1. /\ phase[r] = "exscan" /\ EndCount(r, outside)
      /\ UNCHANGED <<domain, forest, ghost, m_orchard_keys, m_amr_hashmap, m_mirror_orchard_keys, rebuilds>>
  BY DEF Exscan
<1>2. /\ at \in [Ranks -> 1 .. 13] /\ m_outside_quads_info \in [Ranks -> OutsideInfo]
  BY DEF MeshInv, Typed
<1>3. at[r] \in CountingOps /\ Bordered(domain)
  BY <1>1 DEF MeshInv, InCollective
<1>4. Counting(r)
  BY <1>2, <1>3, OpIs
<1>5. LocalRight /\ GlobalRight /\ FirstRight /\ Together /\ m_outside_quads_info[0].first = 0
  BY <1>3 DEF MeshInv, OutsideKnown
<1>6. HasReduced(r)
  BY <1>1 DEF HasReduced
<1>7. \A s \in Ranks : HasReduced(s)
  BY <1>5, <1>6 DEF Together
<1>8. \A s \in Ranks : HasCounted(s)
  BY <1>7 DEF HasReduced, HasCounted
<1>9. IsShared(domain, forest, ghost)
  BY BuiltIs DEF MeshInv
<1>10. Len(ghost[r]) \in Nat
  BY <1>9, CountsAre
<1>11. FirstOutside(r) = Total(Counts(domain, forest), 0 .. r - 1)
  <2>1. CASE r = 0
    BY <1>5, <1>9, <2>1, CountsAre DEF FirstOutside
  <2>2. CASE r # 0
    <3>1. \A s \in 0 .. r - 1 : /\ Counts(domain, forest)[s] \in Nat
                                /\ LocalOutside[s] = Counts(domain, forest)[s]
      <4>1. TAKE s \in 0 .. r - 1
      <4>2. s \in Ranks
        BY RankSets
      <4>3. Counts(domain, forest)[s] = CountOut(domain, forest[s]) /\ CountOut(domain, forest[s]) \in Nat
        BY <1>9, <4>2, CountsAre DEF Counts
      <4>4. LocalOutside[s] = m_outside_quads_info[s].local
        BY <4>2 DEF LocalOutside
      <4>5. m_outside_quads_info[s].local = CountOut(domain, forest[s])
        BY <1>5, <1>8, <4>2 DEF LocalRight
      <4>6. QED
        BY <4>3, <4>4, <4>5
    <3>2. IsFiniteSet(0 .. r - 1)
      BY RankSets
    <3>3. Total(Counts(domain, forest), 0 .. r - 1) = Total(LocalOutside, 0 .. r - 1)
      BY <3>1, <3>2, TotalSame
    <3>4. QED
      BY <2>2, <3>3 DEF FirstOutside
  <2>3. QED
    BY <2>1, <2>2
<1>12. Total(Counts(domain, forest), 0 .. r - 1) \in Nat
  BY <1>9, CountsAre
<1>13. RightOutside(r, outside)
  <2>1. m_outside_quads_info[r] \in OutsideInfo
    BY <1>2
  <2>2. /\ outside \in OutsideInfo /\ outside.first = FirstOutside(r)
        /\ outside.local = m_outside_quads_info[r].local
        /\ outside.global = m_outside_quads_info[r].global
        /\ outside.outside_ghosts = m_outside_quads_info[r].outside_ghosts
    BY <1>10, <1>11, <1>12, <2>1 DEF OutsideInfo
  <2>3. /\ m_outside_quads_info[r].local = CountOut(domain, forest[r])
        /\ m_outside_quads_info[r].outside_ghosts = CountOut(domain, ghost[r])
        /\ m_outside_quads_info[r].global = Total(Counts(domain, forest), Ranks)
    BY <1>5, <1>7, <1>8 DEF LocalRight, GlobalRight
  <2> HIDE DEF outside
  <2>4. QED
    BY <1>3, <1>7, <1>11, <2>2, <2>3 DEF RightOutside
<1> HIDE DEF outside
<1>14. QED
  BY <1>1, <1>4, <1>13, EndStep

LEMMA CountStep ==
  ASSUME MeshInv, NEW r \in Ranks, CountOutside(r)
  PROVE  MeshInv'
<1> USE DEF MeshInv
<1>1. /\ at \in [Ranks -> 1 .. 13] /\ phase \in [Ranks -> {"begin", "allreduce", "exscan"}]
      /\ m_outside_quads_info \in [Ranks -> OutsideInfo] /\ m_amr_mesh_info \in [Ranks -> MeshInfos]
  BY DEF Typed
<1>2. /\ Counting(r) /\ phase[r] = "begin" /\ Bordered(domain)
      /\ UNCHANGED <<domain, forest, ghost, at, m_amr_mesh_info, m_orchard_keys, m_amr_hashmap,
                     m_mirror_orchard_keys, rebuilds>>
      /\ phase' = [phase EXCEPT ![r] = "allreduce"]
  BY DEF CountOutside, HasNonPeriodicBorder, Bordered, dim
<1> DEFINE outside == [m_outside_quads_info[r] EXCEPT !.local = CountOut(domain, forest[r]),
                                                      !.outside_ghosts = CountOut(domain, ghost[r])]
<1>3. m_outside_quads_info' = [m_outside_quads_info EXCEPT ![r] = outside]
  <2>1. m_outside_quads_info' = [m_outside_quads_info EXCEPT
                                    ![r].local = CountOut(domain, forest[r]),
                                    ![r].outside_ghosts = CountOut(domain, ghost[r])]
    BY NumOutsideIs DEF CountOutside, compute_number_outside_quads, compute_number_outside_ghosts
  <2>2. QED
    BY <1>1, <2>1
<1>4. IsShared(domain, forest, ghost)
  BY BuiltIs
<1>5. CountOut(domain, forest[r]) \in Nat /\ CountOut(domain, ghost[r]) \in Nat
  BY <1>4, CountsAre
<1>6. m_outside_quads_info[r] \in OutsideInfo
  BY <1>1
<1>7. /\ outside \in OutsideInfo
      /\ outside.local = CountOut(domain, forest[r])
      /\ outside.outside_ghosts = CountOut(domain, ghost[r])
      /\ outside.global = m_outside_quads_info[r].global
      /\ outside.first = m_outside_quads_info[r].first
  BY <1>5, <1>6 DEF OutsideInfo
<1> HIDE DEF outside
<1>8. at[r] \in CountingOps
  BY <1>1, <1>2, OpIs
<1>9. /\ phase'[r] = "allreduce" /\ m_outside_quads_info'[r] = outside
      /\ \A s \in Ranks : s # r => /\ phase'[s] = phase[s]
                                   /\ m_outside_quads_info'[s] = m_outside_quads_info[s]
  BY <1>1, <1>2, <1>3
<1>10. Built'
  BY <1>2 DEF Built
<1>11. Typed'
  <2>1. phase' \in [Ranks -> {"begin", "allreduce", "exscan"}]
    BY <1>1, <1>2
  <2>2. m_outside_quads_info' \in [Ranks -> OutsideInfo]
    BY <1>1, <1>3, <1>7
  <2>3. QED
    BY <1>1, <1>2, <2>1, <2>2 DEF Typed
<1>12. InCollective'
  BY <1>2, <1>8, <1>9 DEF InCollective
<1>13. OutsideKnown'
  <2>1. LocalRight /\ GlobalRight /\ FirstRight /\ Together /\ m_outside_quads_info[0].first = 0
    BY <1>2 DEF OutsideKnown
  <2>2. LocalRight'
    BY <1>2, <1>7, <1>9, <2>1 DEF LocalRight, HasCounted
  <2>3. GlobalRight'
    BY <1>2, <1>7, <1>9, <2>1 DEF GlobalRight, HasReduced
  <2>4. FirstRight'
    BY <1>2, <1>7, <1>9, <2>1 DEF FirstRight
  <2>5. Together'
    BY <1>2, <1>9, <2>1 DEF Together, HasReduced
  <2>6. m_outside_quads_info'[0].first = 0
    BY <1>7, <1>9, <2>1, RankSets
  <2>7. QED
    BY <1>2, <2>2, <2>3, <2>4, <2>5, <2>6 DEF OutsideKnown
<1>14. InfoKnown' /\ KeysKnown' /\ MapKnown' /\ MirrorsKnown'
  BY <1>2 DEF InfoKnown, KeysKnown, MapKnown, MirrorsKnown
<1>15. QED
  BY <1>10, <1>11, <1>12, <1>13, <1>14

(* All ranks have made their counts, and leave the reduction with their sum. *)
LEMMA AllreduceStep ==
  ASSUME MeshInv, Allreduce
  PROVE  MeshInv'
<1> USE DEF MeshInv
<1> DEFINE sum == Total(LocalOutside, Ranks)
<1>1. /\ at \in [Ranks -> 1 .. 13] /\ m_outside_quads_info \in [Ranks -> OutsideInfo]
  BY DEF Typed
<1>2. /\ \A r \in Ranks : phase[r] = "allreduce"
      /\ m_outside_quads_info' = [r \in Ranks |-> [m_outside_quads_info[r] EXCEPT !.global = sum]]
      /\ phase' = [r \in Ranks |-> "exscan"]
      /\ UNCHANGED <<domain, forest, ghost, at, m_amr_mesh_info, m_orchard_keys, m_amr_hashmap,
                     m_mirror_orchard_keys, rebuilds>>
  BY DEF Allreduce
<1>3. Bordered(domain) /\ \A r \in Ranks : at[r] \in CountingOps
  BY <1>2, RankSets DEF InCollective
<1>4. LocalRight /\ FirstRight /\ m_outside_quads_info[0].first = 0
  BY <1>3 DEF OutsideKnown
<1>5. \A r \in Ranks : m_outside_quads_info[r].local = CountOut(domain, forest[r])
  BY <1>2, <1>4 DEF LocalRight, HasCounted
<1>6. IsShared(domain, forest, ghost)
  BY BuiltIs
<1>7. sum = Total(Counts(domain, forest), Ranks) /\ sum \in Nat
  <2>1. \A r \in Ranks : LocalOutside[r] \in Nat /\ Counts(domain, forest)[r] = LocalOutside[r]
    <3>1. TAKE r \in Ranks
    <3>2. CountOut(domain, forest[r]) \in Nat
      BY <1>6, CountsAre
    <3>3. LocalOutside[r] = CountOut(domain, forest[r])
      BY <1>5 DEF LocalOutside
    <3>4. Counts(domain, forest)[r] = CountOut(domain, forest[r])
      BY DEF Counts
    <3>5. QED
      BY <3>2, <3>3, <3>4
  <2>2. QED
    BY <2>1, RankSets, TotalSame, TotalStep
<1> HIDE DEF sum
<1>8. \A r \in Ranks : /\ m_outside_quads_info'[r] \in OutsideInfo
                       /\ m_outside_quads_info'[r].global = sum
                       /\ m_outside_quads_info'[r].local = m_outside_quads_info[r].local
                       /\ m_outside_quads_info'[r].first = m_outside_quads_info[r].first
                       /\ m_outside_quads_info'[r].outside_ghosts = m_outside_quads_info[r].outside_ghosts
  <2>1. TAKE r \in Ranks
  <2>2. m_outside_quads_info[r] \in OutsideInfo
    BY <1>1
  <2>3. m_outside_quads_info'[r] = [m_outside_quads_info[r] EXCEPT !.global = sum]
    BY <1>2
  <2>4. QED
    BY <1>7, <2>2, <2>3 DEF OutsideInfo
<1>9. Built'
  BY <1>2 DEF Built
<1>10. Typed'
  <2>1. m_outside_quads_info' \in [Ranks -> OutsideInfo]
    <3>1. m_outside_quads_info' = [r \in Ranks |-> m_outside_quads_info'[r]]
      BY <1>2
    <3>2. QED
      BY <1>8, <3>1
  <2>2. phase' \in [Ranks -> {"begin", "allreduce", "exscan"}]
    BY <1>2
  <2>3. QED
    BY <1>2, <2>1, <2>2 DEF Typed
<1>11. InCollective'
  BY <1>2, <1>3 DEF InCollective
<1>12. OutsideKnown'
  <2>1. LocalRight'
    BY <1>2, <1>4, <1>8 DEF LocalRight, HasCounted
  <2>2. GlobalRight'
    BY <1>2, <1>7, <1>8 DEF GlobalRight
  <2>3. FirstRight'
    BY <1>2, <1>4, <1>8 DEF FirstRight
  <2>4. Together'
    BY <1>2 DEF Together, HasReduced
  <2>5. m_outside_quads_info'[0].first = 0
    BY <1>4, <1>8, RankSets
  <2>6. QED
    BY <1>2, <1>3, <2>1, <2>2, <2>3, <2>4, <2>5 DEF OutsideKnown
<1>13. InfoKnown' /\ KeysKnown' /\ MapKnown' /\ MirrorsKnown'
  BY <1>2 DEF InfoKnown, KeysKnown, MapKnown, MirrorsKnown
<1>14. QED
  BY <1>9, <1>10, <1>11, <1>12, <1>13

(* An operation that counts nothing leaves the counts as they are.           *)
LEMMA ReturnStep ==
  ASSUME MeshInv, NEW r \in Ranks, at[r] \in {5, 6, 7, 11, 12}, at' = [at EXCEPT ![r] = @ + 1],
         UNCHANGED <<domain, forest, ghost, phase, m_outside_quads_info, m_amr_mesh_info, rebuilds>>,
         DOMAIN m_orchard_keys' = Ranks, DOMAIN m_amr_hashmap' = Ranks,
         DOMAIN m_mirror_orchard_keys' = Ranks
  PROVE  /\ Built' /\ Typed' /\ InCollective' /\ OutsideKnown' /\ InfoKnown'
         /\ at'[r] = at[r] + 1 /\ \A s \in Ranks : s # r => at'[s] = at[s]
<1> USE DEF MeshInv
<1>1. at \in [Ranks -> 1 .. 13]
  BY DEF Typed
<1>2. at' \in [Ranks -> 1 .. 13] /\ at'[r] = at[r] + 1 /\ \A s \in Ranks : s # r => at'[s] = at[s]
  BY <1>1
<1>3. phase[r] = "begin"
  BY DEF InCollective, CountingOps
<1>4. Built'
  BY DEF Built
<1>5. Typed'
  BY <1>2 DEF Typed
<1>6. InCollective'
  BY <1>2, <1>3 DEF InCollective
<1>7. OutsideKnown'
  <2>1. \A s \in Ranks : /\ HasCounted(s)' => HasCounted(s)
                         /\ HasReduced(s)' <=> HasReduced(s)
                         /\ at'[s] > 1 => at[s] > 1
    BY <1>2 DEF HasCounted, HasReduced
  <2>2. LocalRight => LocalRight'
    BY <2>1 DEF LocalRight, HasCounted
  <2>3. GlobalRight => GlobalRight'
    BY <2>1 DEF GlobalRight, HasReduced
  <2>4. FirstRight => FirstRight'
    BY <2>1 DEF FirstRight
  <2>5. Together => Together'
    BY <2>1 DEF Together, HasReduced
  <2>6. QED
    BY <2>2, <2>3, <2>4, <2>5 DEF OutsideKnown
<1>8. InfoKnown'
  BY <1>2 DEF InfoKnown
<1>9. QED
  BY <1>2, <1>4, <1>5, <1>6, <1>7, <1>8

LEMMA KeysStep ==
  ASSUME MeshInv, NEW r \in Ranks, UpdateOrchardKeys(r)
  PROVE  MeshInv'
<1>1. /\ at \in [Ranks -> 1 .. 13] /\ DOMAIN m_orchard_keys = Ranks
      /\ DOMAIN m_amr_hashmap = Ranks /\ DOMAIN m_mirror_orchard_keys = Ranks
  BY DEF MeshInv, Typed
<1>2. /\ Op(r) = "keys" /\ at' = [at EXCEPT ![r] = @ + 1]
      /\ UNCHANGED <<domain, forest, ghost, phase, m_outside_quads_info, m_amr_mesh_info, rebuilds>>
      /\ UNCHANGED <<m_amr_hashmap, m_mirror_orchard_keys>>
      /\ m_orchard_keys' = [m_orchard_keys EXCEPT ![r] = AllKeys(domain, forest[r], ghost[r])]
  BY ViewIs DEF UpdateOrchardKeys, Return
<1>3. at[r] \in {5, 11}
  BY <1>1, <1>2, OpIs
<1>4. DOMAIN m_orchard_keys' = Ranks
  BY <1>1, <1>2
<1>5. /\ Built' /\ Typed' /\ InCollective' /\ OutsideKnown' /\ InfoKnown'
      /\ at'[r] = at[r] + 1 /\ \A s \in Ranks : s # r => at'[s] = at[s]
  BY <1>1, <1>2, <1>3, <1>4, ReturnStep
<1>6. KeysKnown'
  BY <1>1, <1>2, <1>5 DEF MeshInv, KeysKnown
<1>7. MapKnown'
  BY <1>2, <1>3, <1>5 DEF MeshInv, MapKnown
<1>8. MirrorsKnown'
  BY <1>2, <1>3, <1>5 DEF MeshInv, MirrorsKnown
<1>9. QED
  BY <1>5, <1>6, <1>7, <1>8 DEF MeshInv

LEMMA HashmapStep ==
  ASSUME MeshInv, NEW r \in Ranks, UpdateHashmap(r)
  PROVE  MeshInv'
<1>1. /\ at \in [Ranks -> 1 .. 13] /\ DOMAIN m_orchard_keys = Ranks
      /\ DOMAIN m_amr_hashmap = Ranks /\ DOMAIN m_mirror_orchard_keys = Ranks
  BY DEF MeshInv, Typed
<1>2. /\ Op(r) = "hashmap" /\ at' = [at EXCEPT ![r] = @ + 1]
      /\ UNCHANGED <<domain, forest, ghost, phase, m_outside_quads_info, m_amr_mesh_info, rebuilds>>
      /\ UNCHANGED <<m_orchard_keys, m_mirror_orchard_keys>>
  BY DEF UpdateHashmap, Return
<1>3. PICK map \in Insertions(m_orchard_keys[r]) : m_amr_hashmap' = [m_amr_hashmap EXCEPT ![r] = map]
  BY DEF UpdateHashmap
<1>4. at[r] = 6
  BY <1>1, <1>2, OpIs
<1>5. DOMAIN m_amr_hashmap' = Ranks
  BY <1>1, <1>3
<1>6. /\ Built' /\ Typed' /\ InCollective' /\ OutsideKnown' /\ InfoKnown'
      /\ at'[r] = at[r] + 1 /\ \A s \in Ranks : s # r => at'[s] = at[s]
  BY <1>1, <1>2, <1>4, <1>5, ReturnStep
<1>7. m_orchard_keys[r] = AllKeys(domain, forest[r], ghost[r])
  BY <1>4 DEF MeshInv, KeysKnown
<1>8. KeysKnown'
  BY <1>2, <1>4, <1>6 DEF MeshInv, KeysKnown
<1>9. MapKnown'
  <2>1. m_amr_hashmap'[r] = map /\ \A s \in Ranks : s # r => m_amr_hashmap'[s] = m_amr_hashmap[s]
    BY <1>1, <1>3
  <2>2. QED
    BY <1>2, <1>3, <1>6, <1>7, <2>1 DEF MeshInv, MapKnown
<1>10. MirrorsKnown'
  BY <1>2, <1>4, <1>6 DEF MeshInv, MirrorsKnown
<1>11. QED
  BY <1>6, <1>8, <1>9, <1>10 DEF MeshInv

LEMMA MirrorKeysAre ==
  \A r : compute_mirror_orchard_keys_view_host(r) = MirrorKeys(domain, forest, ghost, r)
BY KeysOfIs, MirrorIndicesIs DEF compute_mirror_orchard_keys_view_host, MirrorKeys, MirrorKeysFor

LEMMA MirrorsStep ==
  ASSUME MeshInv, NEW r \in Ranks, UpdateMirrors(r)
  PROVE  MeshInv'
<1>1. /\ at \in [Ranks -> 1 .. 13] /\ DOMAIN m_orchard_keys = Ranks
      /\ DOMAIN m_amr_hashmap = Ranks /\ DOMAIN m_mirror_orchard_keys = Ranks
  BY DEF MeshInv, Typed
<1>2. /\ Op(r) = "mirrors" /\ at' = [at EXCEPT ![r] = @ + 1]
      /\ UNCHANGED <<domain, forest, ghost, phase, m_outside_quads_info, m_amr_mesh_info, rebuilds>>
      /\ UNCHANGED <<m_orchard_keys, m_amr_hashmap>>
      /\ m_mirror_orchard_keys' =
            [m_mirror_orchard_keys EXCEPT ![r] = MirrorKeys(domain, forest, ghost, r)]
  BY MirrorKeysAre DEF UpdateMirrors, Return
<1>3. at[r] = 7
  BY <1>1, <1>2, OpIs
<1>4. DOMAIN m_mirror_orchard_keys' = Ranks
  BY <1>1, <1>2
<1>5. /\ Built' /\ Typed' /\ InCollective' /\ OutsideKnown' /\ InfoKnown'
      /\ at'[r] = at[r] + 1 /\ \A s \in Ranks : s # r => at'[s] = at[s]
  BY <1>1, <1>2, <1>3, <1>4, ReturnStep
<1>6. KeysKnown' /\ MapKnown'
  BY <1>2, <1>3, <1>5 DEF MeshInv, KeysKnown, MapKnown
<1>7. MirrorsKnown'
  BY <1>1, <1>2, <1>5 DEF MeshInv, MirrorsKnown
<1>8. QED
  BY <1>5, <1>6, <1>7 DEF MeshInv

LEMMA StatusStep ==
  ASSUME MeshInv, NEW r \in Ranks, UpdateConformalStatus(r)
  PROVE  MeshInv'
<1>1. /\ at \in [Ranks -> 1 .. 13] /\ DOMAIN m_orchard_keys = Ranks
      /\ DOMAIN m_amr_hashmap = Ranks /\ DOMAIN m_mirror_orchard_keys = Ranks
  BY DEF MeshInv, Typed
<1>2. /\ Op(r) = "status" /\ at' = [at EXCEPT ![r] = @ + 1]
      /\ UNCHANGED <<domain, forest, ghost, phase, m_outside_quads_info, m_amr_mesh_info, rebuilds>>
      /\ UNCHANGED <<m_orchard_keys, m_amr_hashmap, m_mirror_orchard_keys>>
  BY DEF UpdateConformalStatus, Return
<1>3. at[r] = 12
  BY <1>1, <1>2, OpIs
<1>4. /\ Built' /\ Typed' /\ InCollective' /\ OutsideKnown' /\ InfoKnown'
      /\ at'[r] = at[r] + 1 /\ \A s \in Ranks : s # r => at'[s] = at[s]
  BY <1>1, <1>2, <1>3, ReturnStep
<1>5. KeysKnown' /\ MapKnown' /\ MirrorsKnown'
  BY <1>2, <1>3, <1>4 DEF MeshInv, KeysKnown, MapKnown, MirrorsKnown
<1>6. QED
  BY <1>4, <1>5 DEF MeshInv

(* A new mesh: no rank is in a collective, and what was known is forgotten.   *)
LEMMA RemeshStep ==
  ASSUME MeshInv, Remesh
  PROVE  MeshInv'
<1> USE DEF MeshInv
<1>1. /\ Rebuilt /\ rebuilds < MaxRebuilds /\ rebuilds' = rebuilds + 1
      /\ at' = [r \in Ranks |-> 1] /\ ghost' = [r \in Ranks |-> GhostLayer(forest', domain, r)]
      /\ UNCHANGED <<domain, phase, m_outside_quads_info, m_amr_mesh_info, m_orchard_keys,
                     m_amr_hashmap, m_mirror_orchard_keys>>
      /\ \E mesh \in Meshes[domain] : forest' \in Cuts(mesh)
  BY DEF Remesh
<1>2. \A r \in Ranks : at'[r] = 1
  BY <1>1
<1>3. \A r \in Ranks : phase'[r] = "begin"
  <2>1. TAKE r \in Ranks
  <2>2. at[r] \in 1 .. 13
    BY DEF Typed
  <2>3. at[r] = 13
    BY <1>1, <2>2, OpIs DEF Rebuilt
  <2>4. QED
    BY <1>1, <2>3 DEF InCollective, CountingOps
<1>4. Built'
  BY <1>1 DEF Built
<1>5. Typed'
  <2>1. rebuilds' \in 1 .. MaxRebuilds
    BY <1>1, MeshMapAssumption DEF Typed
  <2>2. at' \in [Ranks -> 1 .. 13]
    BY <1>1
  <2>3. QED
    BY <1>1, <2>1, <2>2 DEF Typed
<1>6. InCollective'
  BY <1>3 DEF InCollective
<1>7. OutsideKnown'
  <2>1. LocalRight' /\ GlobalRight' /\ FirstRight' /\ Together'
    BY <1>2, <1>3 DEF LocalRight, GlobalRight, FirstRight, Together, HasCounted, HasReduced
  <2>2. QED
    BY <1>1, <2>1 DEF OutsideKnown
<1>8. InfoKnown' /\ KeysKnown' /\ MapKnown' /\ MirrorsKnown'
  BY <1>2 DEF InfoKnown, KeysKnown, MapKnown, MirrorsKnown
<1>9. QED
  BY <1>4, <1>5, <1>6, <1>7, <1>8

LEMMA MeshStep ==
  MeshInv /\ [Next]_vars => MeshInv'
<1> SUFFICES ASSUME MeshInv, [Next]_vars PROVE MeshInv'
  OBVIOUS
<1>1. ASSUME NEW r \in Ranks, Step(r) PROVE MeshInv'
  BY <1>1, ResetStep, CountStep, ExscanStep, KeysStep, HashmapStep, MirrorsStep, StatusStep DEF Step
<1>2. ASSUME UNCHANGED vars PROVE MeshInv'
  <2>1. UNCHANGED <<domain, forest, ghost, at, phase, m_outside_quads_info, m_amr_mesh_info,
                    m_orchard_keys, m_amr_hashmap, m_mirror_orchard_keys, rebuilds>>
    BY <1>2 DEF vars
  <2>2. Built' /\ Typed' /\ InCollective'
    BY <2>1 DEF MeshInv, Built, Typed, InCollective
  <2>3. OutsideKnown'
    BY <2>1 DEF MeshInv, OutsideKnown, LocalRight, GlobalRight, FirstRight, Together, HasCounted, HasReduced
  <2>4. InfoKnown' /\ KeysKnown' /\ MapKnown' /\ MirrorsKnown'
    BY <2>1 DEF MeshInv, InfoKnown, KeysKnown, MapKnown, MirrorsKnown
  <2>5. QED
    BY <2>2, <2>3, <2>4 DEF MeshInv
<1>3. QED
  BY <1>1, <1>2, AllreduceStep, RemeshStep DEF Next

THEOREM MeshInvariant ==
  Spec => []MeshInv
BY MeshStart, MeshStep, PTL DEF Spec

----------------------------------------------------------------------------
(* What follows for a rank that has filled its arrays                       *)

LEMMA RebuiltIs ==
  ASSUME MeshInv, Rebuilt
  PROVE  /\ IsBrick(domain) /\ IsShared(domain, forest, ghost)
         /\ \A r \in Ranks : /\ at[r] = 13
                             /\ IsInfo(domain, forest, ghost, r, m_amr_mesh_info[r])
                             /\ m_orchard_keys[r] = AllKeys(domain, forest[r], ghost[r])
                             /\ m_amr_hashmap[r] \in Insertions(m_orchard_keys[r])
                             /\ m_mirror_orchard_keys[r] = MirrorKeys(domain, forest, ghost, r)
<1>1. \A r \in Ranks : at[r] = 13
  <2>1. TAKE r \in Ranks
  <2>2. at[r] \in 1 .. 13
    BY DEF MeshInv, Typed
  <2>3. Op(r) = "done"
    BY DEF Rebuilt
  <2>4. QED
    BY <2>2, <2>3, OpIs
<1>2. IsShared(domain, forest, ghost)
  BY BuiltIs DEF MeshInv
<1>3. QED
  BY <1>1, <1>2 DEF MeshInv, InfoKnown, KeysKnown, MapKnown, MirrorsKnown, IsShared

(* A rank's keys are keys of the brick.                                      *)
LEMMA KeysTyped ==
  ASSUME MeshInv, NEW r \in Ranks, m_orchard_keys[r] = AllKeys(domain, forest[r], ghost[r])
  PROVE  /\ m_orchard_keys[r] \in Seq(Key(domain))
         /\ Len(m_orchard_keys[r]) = Len(forest[r]) + Len(ghost[r])
                                      + CountOut(domain, forest[r]) + CountOut(domain, ghost[r])
         /\ forest[r] \in Seq(Leaf(domain)) /\ ghost[r] \in Seq(Leaf(domain)) /\ IsBrick(domain)
<1>1. IsShared(domain, forest, ghost)
  BY BuiltIs DEF MeshInv
<1>2. IsBrick(domain) /\ forest[r] \in Seq(Leaf(domain)) /\ ghost[r] \in Seq(Leaf(domain))
  BY <1>1 DEF IsShared
<1>3. /\ AllKeys(domain, forest[r], ghost[r]) \in Seq(Key(domain))
      /\ Len(AllKeys(domain, forest[r], ghost[r]))
           = Len(forest[r]) + Len(ghost[r]) + CountOut(domain, forest[r]) + CountOut(domain, ghost[r])
  BY <1>2, AllKeysIs, Zenon
<1>4. QED
  BY <1>2, <1>3

(* NeighborsInvertible, from MeshInv: every key a rank lists, inside of the   *)
(* brick or outside, is a key of the brick, and ThereAndBack is of those.     *)
LEMMA MeshNeighbors ==
  MeshInv => NeighborsInvertible
<1> SUFFICES ASSUME MeshInv, Rebuilt, NEW r \in Ranks, NEW key \in ToSet(m_orchard_keys[r]),
                    NEW displ \in Displacements(dim)
             PROVE  LET neigh == get_neighbor_key_same_level(key, displ, domain)
                        back  == [i \in 1 .. dim |-> -displ[i]]
                    IN  get_neighbor_key_same_level(neigh, back, domain) = key
  BY DEF NeighborsInvertible
<1>1. m_orchard_keys[r] \in Seq(Key(domain)) /\ IsBrick(domain)
  BY RebuiltIs, KeysTyped
<1>2. key \in Key(domain)
  BY <1>1, ElementsIs
<1>3. displ \in [1 .. Len(domain.size) -> -1 .. 1]
  BY DEF Displacements, dim
<1> DEFINE back == [i \in 1 .. Len(domain.size) |-> -displ[i]]
<1>4. back = [i \in 1 .. Len(domain.size) |-> -displ[i]]
  OBVIOUS
<1> HIDE DEF back
<1>5. get_neighbor_key_same_level(get_neighbor_key_same_level(key, displ, domain), back, domain) = key
  BY <1>1, <1>2, <1>3, <1>4, ThereAndBack
<1>6. QED
  BY <1>5 DEF back, dim

(* Where a rank goes and looks for the neighbour of an octant, and looks from *)
(* there in the opposite direction, it finds the octant again: across the    *)
(* periodic borders, and outside and in again through the others             *)
(* (get_neighbor_key_same_level of the two orchard key implementations).     *)
THEOREM NeighborsFound ==
  Spec => []NeighborsInvertible
BY MeshInvariant, MeshNeighbors, PTL

(* The octants outside, as numbered by the owned leaves.                     *)
LEMMA OwnedIs ==
  ASSUME NEW r, IsBrick(domain), forest[r] \in Seq(Leaf(domain))
  PROVE  NumOutsideOwned(r) = CountOut(domain, forest[r])
<1> DEFINE keys == KeysIn(domain, forest[r])
<1>1. DOMAIN keys = 1 .. Len(forest[r])
  BY KeysInIs
<1>2. NumOutsideOwned(r) = Total([i \in DOMAIN keys |-> Len(OutwardKeys(domain, keys[i]))], DOMAIN keys)
  BY KeysOfIs, OutsideKeysIs DEF NumOutsideOwned
<1>3. CountOut(domain, forest[r])
        = Total([i \in 1 .. Len(forest[r]) |-> Len(OutwardKeys(domain, keys[i]))], 1 .. Len(forest[r]))
  BY CountIs
<1> HIDE DEF keys
<1>4. QED
  BY <1>1, <1>2, <1>3

LEMMA ScriptIs ==
  \A r : /\ Before(r, "keys") <=> at[r] <= 5
         /\ Before(r, "hashmap") <=> at[r] <= 6
<1> DEFINE of(op) == {i \in 1 .. Len(Script) : Script[i] = op}
<1>1. \A i \in 1 .. Len(Script) : /\ Script[i] = "keys" <=> i \in {5, 11}
                                  /\ Script[i] = "hashmap" <=> i = 6
  BY DEF Script
<1>2. of("keys") = {5, 11} /\ of("hashmap") = {6}
  <2>1. {5, 6, 11} \subseteq 1 .. Len(Script)
    BY DEF Script
  <2>2. QED
    BY <1>1, <2>1
<1>3. Min({5, 11}) = 5 /\ Min({6}) = 6
  BY DEF Min
<1>4. /\ SelectInSeq(Script, LAMBDA o : o = "keys") = Min(of("keys"))
      /\ SelectInSeq(Script, LAMBDA o : o = "hashmap") = Min(of("hashmap"))
  <2>1. of("keys") # {} /\ of("hashmap") # {}
    BY <1>2
  <2>2. QED
    BY <2>1 DEF SelectInSeq
<1> HIDE DEF of
<1>5. QED
  BY <1>2, <1>3, <1>4 DEF Before

(* OutsideCounted, from MeshInv: the counts are those of the lists.          *)
LEMMA MeshOutside ==
  MeshInv => OutsideCounted
<1> SUFFICES ASSUME MeshInv, NEW r \in Ranks, ~ Before(r, "keys")
             PROVE  LET info == m_amr_mesh_info[r]
                        keys == m_orchard_keys[r]
                    IN  /\ Len(keys) = NumTotal(info)
                        /\ \A i \in DOMAIN keys : is_outside(keys[i]) <=> i > Inside(r)
                        /\ Rebuilt => LET owned == [s \in Ranks |-> NumOutsideOwned(s)]
                                      IN  /\ info.first_outside = Total(owned, 0 .. r - 1)
                                          /\ info.global_outside = Total(owned, Ranks)
  BY DEF OutsideCounted
<1> DEFINE info == m_amr_mesh_info[r]
           keys == m_orchard_keys[r]
           f == forest[r]
           g == ghost[r]
<1>1. at[r] \in 1 .. 13
  BY DEF MeshInv, Typed
<1>2. at[r] > 5 /\ at[r] > 2
  BY <1>1, ScriptIs
<1>3. IsInfo(domain, forest, ghost, r, info) /\ keys = AllKeys(domain, f, g)
  BY <1>2 DEF MeshInv, InfoKnown, KeysKnown
<1>4. IsShared(domain, forest, ghost)
  BY BuiltIs DEF MeshInv
<1>5. /\ IsBrick(domain) /\ f \in Seq(Leaf(domain)) /\ g \in Seq(Leaf(domain))
      /\ \A s \in Ranks : forest[s] \in Seq(Leaf(domain))
      /\ CountOut(domain, f) \in Nat /\ CountOut(domain, g) \in Nat
  <2>1. IsBrick(domain)
    BY <1>4 DEF IsShared
  <2>2. QED
    BY <1>4, <2>1, CountsAre
<1>6. /\ AllKeys(domain, f, g) \in Seq(Key(domain))
      /\ Len(AllKeys(domain, f, g)) = Len(f) + Len(g) + CountOut(domain, f) + CountOut(domain, g)
  BY <1>5, AllKeysIs, Zenon
<1>7. \A i \in 1 .. Len(AllKeys(domain, f, g)) :
         AllKeys(domain, f, g)[i].out # {} <=> i > Len(f) + Len(g)
  BY <1>5, AllKeysIs, Zenon
<1>8. DOMAIN keys = 1 .. Len(keys)
  <2>1. keys \in Seq(Key(domain))
    BY <1>3, <1>6
  <2> HIDE DEF keys
  <2>2. QED
    BY <2>1
<1>9. Inside(r) = Len(f) + Len(g)
      /\ NumTotal(info) = Len(f) + Len(g) + CountOut(domain, f) + CountOut(domain, g)
  BY <1>3 DEF Inside, NumTotal, IsInfo
<1> HIDE DEF keys, f, g
<1>10. Len(keys) = NumTotal(info)
  BY <1>3, <1>6, <1>9
<1>11. \A i \in DOMAIN keys : is_outside(keys[i]) <=> i > Inside(r)
  BY <1>3, <1>7, <1>8, <1>9 DEF is_outside
<1>12. [s \in Ranks |-> NumOutsideOwned(s)] = Counts(domain, forest)
  BY <1>5, OwnedIs DEF Counts
<1>13. /\ info.first_outside = Total(Counts(domain, forest), 0 .. r - 1)
       /\ info.global_outside = Total(Counts(domain, forest), Ranks)
  BY <1>3 DEF IsInfo
<1>14. QED
  BY <1>10, <1>11, <1>12, <1>13 DEF keys

(* The counts OutsideQuadsInfo makes in loops of its own, and adds up over    *)
(* the ranks in a reduction and a scan, are those of the lists that are       *)
(* allocated from them, whichever rank waits for which.                      *)
THEOREM OutsideNumbered ==
  Spec => []OutsideCounted
BY MeshInvariant, MeshOutside, PTL

----------------------------------------------------------------------------
(* The hash map                                                             *)

(* Maps with an index for every key of a list, at which the key is.          *)
IndexMaps(keys) ==
    {m \in [ToSet(keys) -> Int] : \A key \in ToSet(keys) : m[key] + 1 \in IndicesOf(keys, key)}

LEMMA IndicesHave ==
  ASSUME NEW X, NEW keys \in Seq(X), NEW key \in ToSet(keys)
  PROVE  /\ IndicesOf(keys, key) \in SUBSET (1 .. Len(keys)) /\ IndicesOf(keys, key) # {}
         /\ \A i \in IndicesOf(keys, key) : keys[i] = key
         /\ Min(IndicesOf(keys, key)) \in IndicesOf(keys, key)
         /\ Max(IndicesOf(keys, key)) \in IndicesOf(keys, key)
<1> DEFINE I == IndicesOf(keys, key)
<1>1. I \in SUBSET (1 .. Len(keys)) /\ \A i \in I : keys[i] = key
  BY DEF IndicesOf
<1>2. I # {}
  <2>1. PICK i \in 1 .. Len(keys) : keys[i] = key
    BY ElementsIs
  <2>2. i \in I
    BY <2>1 DEF IndicesOf
  <2>3. QED
    BY <2>2
<1> HIDE DEF I
<1>3. Max(I) \in I
  <2>1. Len(keys) \in Nat
    OBVIOUS
  <2>2. QED
    BY <1>1, <1>2, <2>1, LastPlace
<1>4. Min(I) \in I
  <2>1. I \subseteq Nat
    BY <1>1
  <2>2. PICK m \in I : \A n \in I : m <= n
    BY <1>2, <2>1, LeastNat
  <2>3. QED
    BY <2>2 DEF Min
<1>5. QED
  BY <1>1, <1>2, <1>3, <1>4 DEF I

(* The maps from one of the given maps: g[T] has those in which the keys of   *)
(* T were inserted.                                                         *)
Inserting(of, twice, base, g) ==
    [T \in SUBSET twice |->
        IF T = {} THEN base
        ELSE {[m EXCEPT ![CHOOSE x \in T : TRUE] = i - 1] :
                 m \in g[T \ {CHOOSE x \in T : TRUE}], i \in of[CHOOSE x \in T : TRUE]}]

Inserted(of, twice, base) == (CHOOSE g : g = Inserting(of, twice, base, g))[twice]

LEMMA InsertionsIs ==
  ASSUME NEW keys
  PROVE  LET of    == [key \in ToSet(keys) |-> IndicesOf(keys, key)]
             twice == {key \in DOMAIN of : Cardinality(of[key]) > 1}
             first == [key \in DOMAIN of |-> Min(of[key]) - 1]
             last  == [key \in DOMAIN of |-> Max(of[key]) - 1]
         IN  Insertions(keys) \in {{first, last}, Inserted(of, twice, {first})}
BY DEF Insertions, FoldSet, MapThenFoldSet, Inserted, Inserting

LEMMA InsertionsAre ==
  ASSUME NEW X, NEW keys \in Seq(X)
  PROVE  Insertions(keys) \subseteq IndexMaps(keys)
<1> DEFINE S     == ToSet(keys)
           of    == [key \in S |-> IndicesOf(keys, key)]
           twice == {key \in DOMAIN of : Cardinality(of[key]) > 1}
           first == [key \in DOMAIN of |-> Min(of[key]) - 1]
           last  == [key \in DOMAIN of |-> Max(of[key]) - 1]
           M     == SUBSET IndexMaps(keys)
           more(key, maps) == {[m EXCEPT ![key] = i - 1] : m \in maps, i \in of[key]}
           rule(g) == Inserting(of, twice, {first}, g)
           choose == [T \in SUBSET twice |-> CHOOSE x \in T : TRUE]
           step   == [key \in twice |-> [maps \in M |-> more(key, maps)]]
<1>1. IsFiniteSet(S)
  <2>1. DOMAIN keys = 1 .. Len(keys) /\ Len(keys) \in Nat
    OBVIOUS
  <2>2. IsFiniteSet(1 .. Len(keys))
    BY <2>1, FS_Interval
  <2>3. [i \in 1 .. Len(keys) |-> keys[i]] \in Surjection(1 .. Len(keys), S)
    BY <2>1, ElementsIs DEF Surjection
  <2>4. QED
    BY <2>2, <2>3, FS_Surjection
<1>2. \A key \in S : /\ of[key] = IndicesOf(keys, key) /\ of[key] \subseteq 1 .. Len(keys)
                     /\ Min(of[key]) \in of[key] /\ Max(of[key]) \in of[key]
  BY IndicesHave
<1>3. DOMAIN of = S
  OBVIOUS
<1>4. Insertions(keys) \in {{first, last}, (CHOOSE g : g = rule(g))[twice]}
  BY InsertionsIs DEF Inserted
<1>5. first = [key \in S |-> Min(of[key]) - 1] /\ last = [key \in S |-> Max(of[key]) - 1]
  OBVIOUS
<1>6. twice \subseteq S
  OBVIOUS
<1> HIDE DEF of, twice, S, first, last
<1>7. first \in IndexMaps(keys)
  <2>1. \A key \in S : first[key] = Min(of[key]) - 1 /\ first[key] \in Int
                       /\ first[key] + 1 \in IndicesOf(keys, key)
    <3>1. TAKE key \in S
    <3>2. first[key] = Min(of[key]) - 1 /\ Min(of[key]) \in of[key] /\ of[key] \subseteq 1 .. Len(keys)
      BY <1>2, <1>5
    <3>3. Min(of[key]) \in Int
      BY <3>2
    <3>4. first[key] \in Int /\ first[key] + 1 = Min(of[key])
      BY <3>2, <3>3
    <3>5. QED
      BY <1>2, <3>2, <3>4
  <2>2. first \in [S -> Int]
    BY <1>5, <2>1
  <2>3. QED
    BY <2>1, <2>2 DEF IndexMaps, S
<1>8. last \in IndexMaps(keys)
  <2>1. \A key \in S : last[key] = Max(of[key]) - 1 /\ last[key] \in Int
                       /\ last[key] + 1 \in IndicesOf(keys, key)
    <3>1. TAKE key \in S
    <3>2. last[key] = Max(of[key]) - 1 /\ Max(of[key]) \in of[key] /\ of[key] \subseteq 1 .. Len(keys)
      BY <1>2, <1>5
    <3>3. Max(of[key]) \in Int
      BY <3>2
    <3>4. last[key] \in Int /\ last[key] + 1 = Max(of[key])
      BY <3>2, <3>3
    <3>5. QED
      BY <1>2, <3>2, <3>4
  <2>2. last \in [S -> Int]
    BY <1>5, <2>1
  <2>3. QED
    BY <2>1, <2>2 DEF IndexMaps, S
<1>9. ASSUME NEW key \in twice, NEW maps \in M PROVE more(key, maps) \in M
  <2>1. SUFFICES ASSUME NEW m \in maps, NEW i \in of[key]
                 PROVE  [m EXCEPT ![key] = i - 1] \in IndexMaps(keys)
    OBVIOUS
  <2> DEFINE n == [m EXCEPT ![key] = i - 1]
  <2>2. key \in S /\ i \in Int /\ (i - 1) + 1 = i /\ i \in IndicesOf(keys, key)
    BY <1>2, <1>6, <2>1
  <2>3. m \in [S -> Int] /\ \A k \in S : m[k] + 1 \in IndicesOf(keys, k)
    BY <2>1 DEF IndexMaps, S
  <2>4. n \in [S -> Int] /\ n[key] = i - 1 /\ \A k \in S : k # key => n[k] = m[k]
    BY <2>2, <2>3
  <2> HIDE DEF n
  <2>5. \A k \in S : n[k] + 1 \in IndicesOf(keys, k)
    BY <2>2, <2>3, <2>4
  <2>6. n \in IndexMaps(keys)
    BY <2>4, <2>5 DEF IndexMaps, S
  <2>7. QED
    BY <2>6 DEF n
<1> DEFINE rules(g) == [T \in SUBSET twice |->
                          IF T = {} THEN {first}
                          ELSE more(CHOOSE x \in T : TRUE, g[T \ {CHOOSE x \in T : TRUE}])]
<1>18. \A g : rule(g) = rules(g)
  BY DEF Inserting
<1> HIDE DEF more, rule
<1>10. IsFiniteSet(twice)
  BY <1>1, <1>6, FS_Subset
<1>11. \A T \in SUBSET twice : T # {} => (CHOOSE x \in T : TRUE) \in T
  OBVIOUS
<1>12. {first} \in M
  BY <1>7
<1> HIDE DEF M
<1>13. \E g : g = rule(g)
  <2>1. HasFold(twice, M, {first}, choose, step)
    <3>1. \A T \in SUBSET twice : T # {} => choose[T] \in T
      BY <1>11
    <3>2. \A key \in twice, maps \in M : step[key][maps] \in M
      BY <1>9
    <3> HIDE DEF choose, step
    <3>3. QED
      BY <1>10, <1>12, <3>1, <3>2, FoldExists
  <2>2. PICK g \in [SUBSET twice -> M] :
            \A T \in SUBSET twice : g[T] = IF T = {} THEN {first} ELSE step[choose[T]][g[T \ {choose[T]}]]
    BY <2>1 DEF HasFold
  <2>3. ASSUME NEW T \in SUBSET twice, T # {}
        PROVE  g[T] = more(CHOOSE x \in T : TRUE, g[T \ {CHOOSE x \in T : TRUE}])
    <3>1. choose[T] \in twice /\ T \ {choose[T]} \in SUBSET twice /\ choose[T] = CHOOSE x \in T : TRUE
      BY <1>11, <2>3
    <3>2. g[T \ {choose[T]}] \in M
      BY <2>2, <3>1
    <3>3. g[T] = step[choose[T]][g[T \ {choose[T]}]]
      BY <2>2, <2>3
    <3>4. step[choose[T]][g[T \ {choose[T]}]] = more(choose[T], g[T \ {choose[T]}])
      <4> HIDE DEF choose
      <4>1. QED
        BY <3>1, <3>2
    <3>5. QED
      BY <3>1, <3>3, <3>4
  <2>4. g = [T \in SUBSET twice |-> g[T]] /\ g[{}] = {first}
    BY <2>2
  <2>5. g = rules(g)
    <3> HIDE DEF choose, step
    <3>1. QED
      BY <2>3, <2>4
  <2>6. QED
    BY <1>18, <2>5
<1>14. ASSUME NEW g, g = rule(g) PROVE g[twice] \in M
  <2>0. g = rules(g)
    BY <1>14, <1>18
  <2> DEFINE P == {T \in SUBSET twice : g[T] \in M}
  <2>1. {} \in P
    BY <1>12, <2>0
  <2>2. ASSUME NEW T \in SUBSET twice, T # {}, \A x \in T : T \ {x} \in P PROVE T \in P
    <3>1. (CHOOSE x \in T : TRUE) \in T
      BY <1>11, <2>2
    <3>2. g[T] = more(CHOOSE x \in T : TRUE, g[T \ {CHOOSE x \in T : TRUE}])
      BY <2>0, <2>2
    <3>3. g[T \ {CHOOSE x \in T : TRUE}] \in M
      BY <2>2, <3>1
    <3>4. QED
      BY <1>9, <3>1, <3>2, <3>3
  <2> HIDE DEF P, rule
  <2>3. \A T \in SUBSET twice : T \in P
    BY <1>10, <2>1, <2>2, EverySubset
  <2>4. QED
    BY <2>3 DEF P
<1>15. (CHOOSE g : g = rule(g))[twice] \in M
  BY <1>13, <1>14
<1>16. QED
  BY <1>4, <1>7, <1>8, <1>15 DEF M

(* The counts of a rank, and those it copies from them, are numbers.         *)
LEMMA FieldsAre ==
  /\ \A info \in OutsideInfo : \A n \in DOMAIN NoOutside : info[n] \in Nat
  /\ \A info \in MeshInfos : \A n \in DOMAIN info : info[n] \in Nat
<1>1. ASSUME NEW info \in OutsideInfo, NEW n \in DOMAIN NoOutside PROVE info[n] \in Nat
  <2>1. DOMAIN NoOutside = {"local", "global", "first", "ghosts", "outside_ghosts"}
    BY DEF NoOutside
  <2>2. /\ info.local \in Nat /\ info.global \in Nat /\ info.first \in Nat /\ info.ghosts \in Nat
        /\ info.outside_ghosts \in Nat
    BY DEF OutsideInfo
  <2>3. QED
    BY <2>1, <2>2
<1>2. ASSUME NEW info \in MeshInfos, NEW n \in DOMAIN info PROVE info[n] \in Nat
  <2>1. DOMAIN info = {"quadrants", "first", "ghosts", "mirrors", "outside", "global_outside",
                       "first_outside", "outside_ghosts"}
    BY DEF MeshInfos
  <2>2. /\ info.quadrants \in Nat /\ info.first \in Nat /\ info.ghosts \in Nat /\ info.mirrors \in Nat
        /\ info.outside \in Nat /\ info.global_outside \in Nat /\ info.first_outside \in Nat
        /\ info.outside_ghosts \in Nat
    BY DEF MeshInfos
  <2>3. QED
    BY <2>1, <2>2
<1>3. QED
  BY <1>1, <1>2

LEMMA MeshTypes ==
  MeshInv => TypeOK
<1> SUFFICES ASSUME MeshInv PROVE TypeOK
  OBVIOUS
<1>1. IsShared(domain, forest, ghost)
  BY BuiltIs DEF MeshInv
<1>2. dim \in {2, 3}
  BY <1>1, BrickIs DEF IsShared, dim
<1>3. rebuilds \in 1 .. MaxRebuilds
  BY DEF MeshInv, Typed
<1>4. ASSUME NEW r \in Ranks
      PROVE  /\ at[r] \in 1 .. Len(Script) + 1
             /\ phase[r] \in {"begin", "allreduce", "exscan"}
             /\ \A n \in DOMAIN NoOutside : m_outside_quads_info[r][n] \in Nat
             /\ \A n \in DOMAIN m_amr_mesh_info[r] : m_amr_mesh_info[r][n] \in Nat
  <2>1. Len(Script) + 1 = 13
    BY DEF Script
  <2>2. /\ at[r] \in 1 .. 13 /\ phase[r] \in {"begin", "allreduce", "exscan"}
        /\ m_outside_quads_info[r] \in OutsideInfo /\ m_amr_mesh_info[r] \in MeshInfos
    BY DEF MeshInv, Typed
  <2>3. QED
    BY <2>1, <2>2, FieldsAre
<1>5. ASSUME Rebuilt, NEW r \in Ranks, NEW i \in DOMAIN m_orchard_keys[r]
      PROVE  IsKey(m_orchard_keys[r][i])
  <2> DEFINE k == m_orchard_keys[r][i]
  <2>1. m_orchard_keys[r] \in Seq(Key(domain)) /\ IsBrick(domain)
    BY <1>5, RebuiltIs, KeysTyped
  <2>2. k \in Key(domain)
    BY <1>5, <2>1
  <2>3. k \in AnyKey(domain)
        /\ \A e \in 1 .. Len(domain.size) :
              k.xyz[e] <= ROOT_LENGTH(Len(domain.size)) - KeyLength(domain, k.level)
    BY <2>2 DEF Key
  <2> HIDE DEF k
  <2>4. LET d == Len(domain.size)
            m == ROOT_LENGTH(d)
            l == KeyLength(domain, k.level)
        IN  /\ k.out \subseteq 1 .. d /\ k.level \in 0 .. MAX_LEVEL(d)
            /\ \A e \in 1 .. d : k.xyz[e] \in 0 .. m - 1 /\ k.tree[e] \in 0 .. domain.size[e] - 1
            /\ last_offset(k) = m - l
            /\ m \in Nat /\ m >= 1 /\ l \in 1 .. m
    BY <2>1, <2>3, KeyIs
  <2>5. QED
    BY <2>3, <2>4 DEF IsKey, dim, k
<1>6. ASSUME Rebuilt, NEW r \in Ranks, NEW key \in DOMAIN m_amr_hashmap[r]
      PROVE  m_amr_hashmap[r][key] \in 0 .. NumTotal(m_amr_mesh_info[r]) - 1
  <2> DEFINE keys == m_orchard_keys[r]
             map == m_amr_hashmap[r]
  <2>1. /\ keys \in Seq(Key(domain)) /\ map \in Insertions(keys)
        /\ Len(keys) = Len(forest[r]) + Len(ghost[r])
                         + CountOut(domain, forest[r]) + CountOut(domain, ghost[r])
        /\ IsInfo(domain, forest, ghost, r, m_amr_mesh_info[r])
        /\ forest[r] \in Seq(Leaf(domain)) /\ ghost[r] \in Seq(Leaf(domain)) /\ IsBrick(domain)
    BY <1>6, RebuiltIs, KeysTyped
  <2>2. map \in IndexMaps(keys)
    BY <2>1, InsertionsAre
  <2>3. key \in DOMAIN map
    BY <1>6
  <2>4. Len(keys) \in Nat
    <3>1. keys \in Seq(Key(domain))
      BY <2>1
    <3> HIDE DEF keys
    <3>2. QED
      BY <3>1
  <2>5. NumTotal(m_amr_mesh_info[r]) = Len(keys)
    <3>1. /\ Len(forest[r]) \in Nat /\ Len(ghost[r]) \in Nat
          /\ CountOut(domain, forest[r]) \in Nat /\ CountOut(domain, ghost[r]) \in Nat
      <4>1. forest[r] \in Seq(Leaf(domain)) /\ ghost[r] \in Seq(Leaf(domain)) /\ IsBrick(domain)
        BY <2>1
      <4>2. Len(forest[r]) \in Nat /\ Len(ghost[r]) \in Nat
        BY <4>1
      <4>3. CountOut(domain, forest[r]) \in Nat /\ CountOut(domain, ghost[r]) \in Nat
        BY <4>1, CountIs
      <4>4. QED
        BY <4>2, <4>3
    <3>2. NumTotal(m_amr_mesh_info[r]) = Len(forest[r]) + Len(ghost[r])
                         + CountOut(domain, forest[r]) + CountOut(domain, ghost[r])
      BY <2>1 DEF NumTotal, IsInfo
    <3>3. QED
      BY <2>1, <3>1, <3>2
  <2> HIDE DEF map, keys
  <2>6. map[key] \in Int /\ key \in ToSet(keys) /\ map[key] + 1 \in IndicesOf(keys, key)
    BY <2>2, <2>3 DEF IndexMaps
  <2>7. map[key] + 1 \in 1 .. Len(keys)
    BY <2>1, <2>6, IndicesHave
  <2>8. map[key] \in 0 .. Len(keys) - 1
    BY <2>4, <2>6, <2>7
  <2>9. QED
    BY <2>5, <2>8 DEF map
<1>7. QED
  BY <1>2, <1>3, <1>4, <1>5, <1>6 DEF TypeOK

(* The state has its types, and so have keys and map once they are complete:  *)
(* no octant outside, made from a leaf at the border, leaves the range of its *)
(* fields, and no index in the map is beyond the list.                       *)
THEOREM MeshTypeOK ==
  Spec => []TypeOK
BY MeshInvariant, MeshTypes, PTL

----------------------------------------------------------------------------
(* Lists without repetition                                                 *)

LEMMA OnceJoined ==
  ASSUME NEW X, NEW s \in Seq(X), NEW t \in Seq(X), Once(s), Once(t), ToSet(s) \cap ToSet(t) = {}
  PROVE  Once(s \o t)
<1>1. s \in Seq(X) /\ t \in Seq(X)
  OBVIOUS
<1>2. /\ s \o t \in Seq(X) /\ Len(s \o t) = Len(s) + Len(t)
      /\ \A j \in 1 .. Len(t) : (s \o t)[Len(s) + j] = t[j]
  BY <1>1, Joined, Zenon
<1>3. \A j \in 1 .. Len(s) : (s \o t)[j] = s[j]
  BY <1>1, JoinedFirst, Zenon
<1>4. Len(s) \in Nat /\ Len(t) \in Nat /\ DOMAIN s = 1 .. Len(s) /\ DOMAIN t = 1 .. Len(t)
  OBVIOUS
<1> DEFINE u == s \o t
           m == Len(s)
           n == Len(t)
<1>5. DOMAIN u = 1 .. m + n
  <2>1. u \in Seq(X) /\ Len(u) = m + n
    BY <1>2
  <2> HIDE DEF u
  <2>2. QED
    BY <2>1
<1>6. /\ \A j \in 1 .. m : s[j] \in ToSet(s) /\ u[j] = s[j]
      /\ \A j \in 1 .. n : t[j] \in ToSet(t) /\ u[m + j] = t[j]
  BY <1>2, <1>3, <1>4, ElementsIs
<1>7. \A i, j \in 1 .. m : s[i] = s[j] => i = j
  BY <1>4 DEF Once
<1>8. \A i, j \in 1 .. n : t[i] = t[j] => i = j
  BY <1>4 DEF Once
<1>9. m \in Nat /\ n \in Nat
  BY <1>4
<1> HIDE DEF u, m, n
<1>10. ASSUME NEW i \in 1 .. m + n, NEW j \in 1 .. m + n, u[i] = u[j] PROVE i = j
  <2>1. \A k \in 1 .. m + n : \/ k \in 1 .. m /\ u[k] = s[k] /\ u[k] \in ToSet(s)
                              \/ k - m \in 1 .. n /\ u[k] = t[k - m] /\ u[k] \in ToSet(t)
    <3>1. TAKE k \in 1 .. m + n
    <3>2. k <= m \/ k > m
      BY <1>9
    <3>3. CASE k <= m
      <4>1. k \in 1 .. m
        BY <1>9, <3>3
      <4>2. QED
        BY <1>6, <4>1
    <3>4. CASE k > m
      <4>1. k - m \in 1 .. n /\ m + (k - m) = k
        BY <1>9, <3>4
      <4>2. QED
        BY <1>6, <4>1
    <3>5. QED
      BY <3>2, <3>3, <3>4
  <2>2. \/ i \in 1 .. m /\ j \in 1 .. m /\ s[i] = s[j]
        \/ i - m \in 1 .. n /\ j - m \in 1 .. n /\ t[i - m] = t[j - m]
    BY <1>10, <2>1
  <2>3. i = j \/ (i - m = j - m)
    BY <1>7, <1>8, <2>2
  <2>4. QED
    BY <1>9, <2>3
<1>11. QED
  BY <1>5, <1>10 DEF Once, u

LEMMA JoinedElements ==
  ASSUME NEW X, NEW s \in Seq(X), NEW t \in Seq(X)
  PROVE  ToSet(s \o t) = ToSet(s) \cup ToSet(t)
<1>1. s \in Seq(X) /\ t \in Seq(X)
  OBVIOUS
<1>2. /\ s \o t \in Seq(X) /\ Len(s \o t) = Len(s) + Len(t)
      /\ \A j \in 1 .. Len(t) : (s \o t)[Len(s) + j] = t[j]
  BY <1>1, Joined, Zenon
<1>3. \A j \in 1 .. Len(s) : (s \o t)[j] = s[j]
  BY <1>1, JoinedFirst, Zenon
<1>4. Len(s) \in Nat /\ Len(t) \in Nat
  OBVIOUS
<1> DEFINE u == s \o t
           m == Len(s)
           n == Len(t)
<1>5. u \in Seq(X) /\ Len(u) = m + n /\ m \in Nat /\ n \in Nat
  BY <1>2, <1>4
<1>6. /\ \A j \in 1 .. m : u[j] = s[j]
      /\ \A j \in 1 .. n : u[m + j] = t[j]
  BY <1>2, <1>3
<1>7. /\ \A j \in 1 .. m : s[j] \in ToSet(s)
      /\ \A x \in ToSet(s) : \E j \in 1 .. m : s[j] = x
      /\ \A j \in 1 .. n : t[j] \in ToSet(t)
      /\ \A x \in ToSet(t) : \E j \in 1 .. n : t[j] = x
  BY ElementsIs
<1> HIDE DEF u, m, n
<1>8. /\ \A j \in 1 .. m + n : u[j] \in ToSet(u)
      /\ \A x \in ToSet(u) : \E j \in 1 .. m + n : u[j] = x
  BY <1>5, ElementsIs
<1>9. \A j \in 1 .. m : j \in 1 .. m + n
  BY <1>5
<1>10. \A j \in 1 .. n : m + j \in 1 .. m + n
  BY <1>5
<1>11. ASSUME NEW x \in ToSet(u) PROVE x \in ToSet(s) \cup ToSet(t)
  <2>1. PICK k \in 1 .. m + n : u[k] = x
    BY <1>8
  <2>2. k <= m \/ k > m
    BY <1>5
  <2>3. CASE k <= m
    <3>1. k \in 1 .. m
      BY <1>5, <2>3
    <3>2. QED
      BY <1>6, <1>7, <2>1, <3>1
  <2>4. CASE k > m
    <3>1. k - m \in 1 .. n /\ m + (k - m) = k
      BY <1>5, <2>4
    <3>2. u[k] = t[k - m]
      BY <1>6, <3>1
    <3>3. QED
      BY <1>7, <2>1, <3>1, <3>2
  <2>5. QED
    BY <2>2, <2>3, <2>4
<1>12. ASSUME NEW x \in ToSet(s) \cup ToSet(t) PROVE x \in ToSet(u)
  <2>1. CASE x \in ToSet(s)
    BY <1>6, <1>7, <1>8, <1>9, <2>1
  <2>2. CASE x \in ToSet(t)
    BY <1>6, <1>7, <1>8, <1>10, <2>2
  <2>3. QED
    BY <2>1, <2>2
<1>13. QED
  BY <1>11, <1>12 DEF u

(* Lists without repetition that have nothing in common, one after another.   *)
LEMMA OnceFlattened ==
  ASSUME NEW X, NEW seqs \in Seq(Seq(X)), \A i \in 1 .. Len(seqs) : Once(seqs[i]),
         \A i, j \in 1 .. Len(seqs) : i # j => ToSet(seqs[i]) \cap ToSet(seqs[j]) = {}
  PROVE  /\ Once(FlattenSeq(seqs))
         /\ \A x \in ToSet(FlattenSeq(seqs)) : \E i \in 1 .. Len(seqs) : x \in ToSet(seqs[i])
<1> DEFINE N == Len(seqs)
           of(n) == UNION {ToSet(seqs[i]) : i \in 1 .. n}
<1>1. PICK c : FlattensTo(seqs, X, c)
  BY FlattenChain
<1> DEFINE P == {n \in Nat : n <= N => Once(c[n]) /\ ToSet(c[n]) = of(n)}
<1>2. N \in Nat /\ \A i \in 1 .. N : seqs[i] \in Seq(X)
  OBVIOUS
<1>3. /\ \A n \in 0 .. N : c[n] \in Seq(X)
      /\ c[0] = <<>> /\ \A i \in 1 .. N : c[i] = c[i - 1] \o seqs[i]
  BY <1>1, <1>2 DEF FlattensTo
<1>4. FlattenSeq(seqs) = c[N]
  <2>1. \A n \in 0 .. N : FlattenSeq([i \in 1 .. n |-> seqs[i]]) = c[n]
    BY <1>1, Zenon DEF FlattensTo
  <2>2. N \in 0 .. N /\ seqs = [i \in 1 .. N |-> seqs[i]]
    BY <1>2
  <2> HIDE DEF N
  <2>3. FlattenSeq([i \in 1 .. N |-> seqs[i]]) = c[N]
    BY <2>1, <2>2
  <2>4. QED
    BY <2>2, <2>3
<1>5. \A i, j \in 1 .. N : i # j => ToSet(seqs[i]) \cap ToSet(seqs[j]) = {}
  OBVIOUS
<1>6. \A i \in 1 .. N : Once(seqs[i])
  OBVIOUS
<1> HIDE DEF N
<1>7. 0 \in P
  <2>1. Once(<<>>) /\ ToSet(<<>>) = {}
    BY DEF Once, ToSet
  <2>2. of(0) = {}
    OBVIOUS
  <2> HIDE DEF of
  <2>3. QED
    BY <1>3, <2>1, <2>2
<1>8. ASSUME NEW n \in Nat, n \in P PROVE n + 1 \in P
  <2>1. SUFFICES ASSUME n + 1 <= N PROVE Once(c[n + 1]) /\ ToSet(c[n + 1]) = of(n + 1)
    OBVIOUS
  <2>2. n \in 0 .. N /\ n + 1 \in 1 .. N /\ (n + 1) - 1 = n /\ 1 .. n \subseteq 1 .. N
        /\ 1 .. n + 1 = (1 .. n) \cup {n + 1} /\ n + 1 \notin 1 .. n
    BY <1>2, <2>1, SMTT(30)
  <2>3. Once(c[n]) /\ ToSet(c[n]) = of(n)
    BY <1>8, <2>2
  <2>4. c[n] \in Seq(X) /\ c[n + 1] = c[n] \o seqs[n + 1] /\ seqs[n + 1] \in Seq(X)
    BY <1>2, <1>3, <2>2
  <2>5. of(n) \cap ToSet(seqs[n + 1]) = {}
    <3>1. \A i \in 1 .. n : i \in 1 .. N /\ i # n + 1
      BY <2>2
    <3>2. \A i \in 1 .. n : ToSet(seqs[i]) \cap ToSet(seqs[n + 1]) = {}
      BY <1>5, <2>2, <3>1
    <3>3. QED
      BY <3>2
  <2>6. of(n + 1) = of(n) \cup ToSet(seqs[n + 1])
    BY <2>2
  <2> HIDE DEF of
  <2>7. Once(c[n] \o seqs[n + 1])
    BY <1>6, <2>2, <2>3, <2>4, <2>5, OnceJoined
  <2>8. ToSet(c[n] \o seqs[n + 1]) = of(n + 1)
    <3>1. ToSet(c[n] \o seqs[n + 1]) = ToSet(c[n]) \cup ToSet(seqs[n + 1])
      BY <2>4, JoinedElements
    <3>2. QED
      BY <2>3, <2>6, <3>1
  <2>9. QED
    BY <2>4, <2>7, <2>8
<1> HIDE DEF P
<1>9. N \in P
  BY <1>2, <1>7, <1>8, EveryNat
<1>10. Once(c[N]) /\ ToSet(c[N]) = of(N)
  BY <1>2, <1>9 DEF P
<1>11. QED
  BY <1>4, <1>10 DEF N

LEMMA OnceCounted ==
  ASSUME NEW X, NEW s \in Seq(X), Once(s)
  PROVE  Cardinality(ToSet(s)) = Len(s)
<1> DEFINE n == Len(s)
           f == [i \in 1 .. n |-> s[i]]
<1>1. n \in Nat /\ DOMAIN s = 1 .. n
  OBVIOUS
<1>2. IsFiniteSet(1 .. n) /\ Cardinality(1 .. n) = n
  <2>1. IsFiniteSet(1 .. n) /\ Cardinality(1 .. n) = IF 1 > n THEN 0 ELSE n - 1 + 1
    BY <1>1, FS_Interval
  <2>2. QED
    BY <1>1, <2>1
<1>3. f \in Surjection(1 .. n, ToSet(s))
  BY ElementsIs DEF Surjection
<1>4. f \in Injection(1 .. n, ToSet(s))
  <2>1. \A i, j \in 1 .. n : s[i] = s[j] => i = j
    BY <1>1 DEF Once
  <2>2. f \in [1 .. n -> ToSet(s)]
    BY ElementsIs
  <2>3. QED
    BY <2>1, <2>2 DEF Injection, IsInjective
<1> HIDE DEF f
<1>5. QED
  BY <1>2, <1>3, <1>4, FS_Surjection

(* The faces of an edge, its number in three parts.                          *)
EdgeFaces(q, lo, hi) == {(IF q = 1 THEN 2 ELSE 0) + lo, (IF q = 0 THEN 2 ELSE 4) + hi}

LEMMA EdgeIs ==
  /\ \A e \in 0 .. 11 : \E q \in 0 .. 2, lo, hi \in {0, 1} :
        e = 4 * q + 2 * hi + lo /\ edge_to_faces(e) = EdgeFaces(q, lo, hi)
  /\ \A q, r \in 0 .. 2 : \A a, b, x, y \in {0, 1} :
        EdgeFaces(q, a, b) = EdgeFaces(r, x, y) => q = r /\ a = x /\ b = y
<1>1. ASSUME NEW e \in 0 .. 11
      PROVE  \E q \in 0 .. 2, lo, hi \in {0, 1} :
                e = 4 * q + 2 * hi + lo /\ edge_to_faces(e) = EdgeFaces(q, lo, hi)
  <2> DEFINE lo == e % 2
             hi == (e \div 2) % 2
             q  == e \div 4
  <2>1. e = 4 * q + 2 * hi + lo /\ q \in 0 .. 2 /\ lo \in {0, 1} /\ hi \in {0, 1}
        /\ (e < 4 <=> q = 0) /\ (e \in 4 .. 7 <=> q = 1) /\ (e > 7 <=> q = 2)
    OBVIOUS
  <2>2. edge_to_faces(e) = EdgeFaces(q, lo, hi)
    <3>1. edge_to_faces(e) = CASE e < 4 -> {0 + lo, 2 + hi}
                               [] e \in 4 .. 7 -> {2 + lo, 4 + hi}
                               [] e > 7 -> {0 + lo, 4 + hi}
      BY DEF edge_to_faces
    <3> HIDE DEF lo, hi, q
    <3>2. q = 0 \/ q = 1 \/ q = 2
      BY <2>1
    <3>3. CASE q = 0
      <4>1. e < 4 /\ ~ (e \in 4 .. 7) /\ ~ (e > 7)
        BY <2>1, <3>3
      <4>2. edge_to_faces(e) = {0 + lo, 2 + hi}
        BY <3>1, <4>1
      <4>3. QED
        BY <3>3, <4>2 DEF EdgeFaces
    <3>4. CASE q = 1
      <4>1. ~ (e < 4) /\ e \in 4 .. 7 /\ ~ (e > 7)
        BY <2>1, <3>4
      <4>2. edge_to_faces(e) = {2 + lo, 4 + hi}
        BY <3>1, <4>1
      <4>3. QED
        BY <3>4, <4>2 DEF EdgeFaces
    <3>5. CASE q = 2
      <4>1. ~ (e < 4) /\ ~ (e \in 4 .. 7) /\ e > 7
        BY <2>1, <3>5
      <4>2. edge_to_faces(e) = {0 + lo, 4 + hi}
        BY <3>1, <4>1
      <4>3. QED
        BY <3>5, <4>2 DEF EdgeFaces
    <3>6. QED
      BY <3>2, <3>3, <3>4, <3>5
  <2> HIDE DEF lo, hi, q
  <2>3. QED
    BY <2>1, <2>2
<1>2. ASSUME NEW q \in 0 .. 2, NEW r \in 0 .. 2, NEW a \in {0, 1}, NEW b \in {0, 1},
             NEW x \in {0, 1}, NEW y \in {0, 1}, EdgeFaces(q, a, b) = EdgeFaces(r, x, y)
      PROVE  q = r /\ a = x /\ b = y
  <2> DEFINE k == (IF q = 1 THEN 2 ELSE 0) + a
             l == (IF q = 0 THEN 2 ELSE 4) + b
             m == (IF r = 1 THEN 2 ELSE 0) + x
             n == (IF r = 0 THEN 2 ELSE 4) + y
  <2>1. {k, l} = {m, n}
    BY <1>2 DEF EdgeFaces
  <2>2. k \in Nat /\ l \in Nat /\ m \in Nat /\ n \in Nat /\ k < l /\ m < n
    OBVIOUS
  <2>3. (k >= 2 <=> q = 1) /\ (m >= 2 <=> r = 1) /\ (l < 4 <=> q = 0) /\ (n < 4 <=> r = 0)
    OBVIOUS
  <2>4. k = m /\ l = n
    <3> HIDE DEF k, l, m, n
    <3>1. (k = m \/ k = n) /\ (l = m \/ l = n)
      BY <2>1
    <3>2. QED
      BY <2>2, <3>1
  <2>5. (q = 1 <=> r = 1) /\ (q = 0 <=> r = 0)
    <3> HIDE DEF k, l, m, n
    <3>1. QED
      BY <2>3, <2>4
  <2>6. QED
    BY <2>4, <2>5
<1>3. QED
  BY <1>1, <1>2

(* A face has one direction, an edge two of three, a corner all.             *)
OneDirection(F) == \A f, g \in F : Dir(f) = Dir(g)

AllDirections(d, F) == \A i \in 1 .. d : \E f \in F : Dir(f) = i

LEMMA CornerIs ==
  ASSUME NEW d \in {2, 3}
  PROVE  /\ 2 ^ d \in Nat
         /\ \A c \in 1 .. 2 ^ d : AllDirections(d, corner_to_faces(d, c - 1))
         /\ \A b, c \in 1 .. 2 ^ d :
               corner_to_faces(d, b - 1) = corner_to_faces(d, c - 1) => b = c
<1> DEFINE face(x, i) == 2 * (i - 1) + ChildSide(x, i)
<1>1. 2 ^ d \in Nat /\ 2 ^ d >= 1
  <2>1. d \in 0 .. 22
    OBVIOUS
  <2>2. QED
    BY <2>1, Powers
<1>2. \A x \in Nat : \A i \in 1 .. d : ChildSide(x, i) \in {0, 1} /\ ChildSide(x, i) = Bit(x, i - 1)
  <2>1. \A i \in 1 .. d : i - 1 \in 0 .. 2
    OBVIOUS
  <2>2. QED
    BY <2>1, FaceBits DEF ChildSide, Bit
<1>3. \A x \in Nat : \A i \in 1 .. d : face(x, i) \in Faces(d) /\ Dir(face(x, i)) = i
  BY <1>2, FaceIs
<1>4. \A x : corner_to_faces(d, x) = {face(x, i) : i \in 1 .. d}
  BY DEF corner_to_faces
<1> HIDE DEF face
<1>5. ASSUME NEW x \in Nat, NEW y \in Nat, x < 2 ^ d, y < 2 ^ d,
             corner_to_faces(d, x) = corner_to_faces(d, y)
      PROVE  x = y
  <2>1. \A i \in 1 .. d : face(x, i) = face(y, i)
    <3>1. TAKE i \in 1 .. d
    <3>0. {face(x, j) : j \in 1 .. d} = {face(y, j) : j \in 1 .. d}
      <4>1. /\ corner_to_faces(d, x) = {face(x, j) : j \in 1 .. d}
            /\ corner_to_faces(d, y) = {face(y, j) : j \in 1 .. d}
        BY <1>4
      <4>2. QED
        BY <1>5, <4>1
    <3>6. face(x, i) \in {face(y, j) : j \in 1 .. d}
      BY <3>0
    <3>2. PICK j \in 1 .. d : face(x, i) = face(y, j)
      BY <3>6
    <3>3. Dir(face(x, i)) = i /\ Dir(face(y, j)) = j
      BY <1>3
    <3>4. i = j
      BY <3>2, <3>3
    <3>5. QED
      BY <3>2, <3>4
  <2>2. \A i \in 1 .. d : Bit(x, i - 1) = Bit(y, i - 1)
    <3>1. TAKE i \in 1 .. d
    <3>2. 2 * (i - 1) + ChildSide(x, i) = 2 * (i - 1) + ChildSide(y, i)
      BY <2>1 DEF face
    <3>3. ChildSide(x, i) \in {0, 1} /\ ChildSide(y, i) \in {0, 1}
      BY <1>2
    <3>4. ChildSide(x, i) = ChildSide(y, i)
      BY <3>2, <3>3
    <3>5. QED
      BY <1>2, <3>4
  <2>3. \A k \in 0 .. d - 1 : Bit(x, k) = Bit(y, k)
    <3>1. TAKE k \in 0 .. d - 1
    <3>2. k + 1 \in 1 .. d /\ (k + 1) - 1 = k
      OBVIOUS
    <3>3. QED
      BY <2>2, <3>2
  <2>4. x \div 2 ^ d = 0 /\ y \div 2 ^ d = 0
    <3> DEFINE p == 2 ^ d
    <3>1. p \in Nat /\ p >= 1 /\ x < p /\ y < p
      BY <1>1, <1>5
    <3> HIDE DEF p
    <3>2. x \div p = 0 /\ y \div p = 0
      BY <3>1
    <3>3. QED
      BY <3>2 DEF p
  <2>5. d \in 1 .. 3
    OBVIOUS
  <2>6. \A v, w \in Nat : (\A k \in 0 .. d - 1 : Bit(v, k) = Bit(w, k)) /\ v \div 2 ^ d = w \div 2 ^ d
                             => v = w
    BY <2>5, LowBits
  <2>7. QED
    BY <2>3, <2>4, <2>6
<1>6. ASSUME NEW c \in 1 .. 2 ^ d PROVE AllDirections(d, corner_to_faces(d, c - 1))
  <2>1. c - 1 \in Nat
    BY <1>1
  <2>2. QED
    BY <1>3, <1>4, <2>1 DEF AllDirections
<1>7. ASSUME NEW b \in 1 .. 2 ^ d, NEW c \in 1 .. 2 ^ d,
             corner_to_faces(d, b - 1) = corner_to_faces(d, c - 1)
      PROVE  b = c
  <2>1. b - 1 \in Nat /\ c - 1 \in Nat /\ b - 1 < 2 ^ d /\ c - 1 < 2 ^ d
    BY <1>1
  <2>2. b - 1 = c - 1
    BY <1>5, <1>7, <2>1
  <2>3. QED
    BY <1>1, <2>2
<1>8. QED
  BY <1>1, <1>6, <1>7

(* No item is listed twice.                                                  *)
LEMMA ItemsOnce ==
  ASSUME NEW d \in {2, 3}
  PROVE  Once(Items(d)) /\ Items(d) \in Seq(FaceSets(d))
<1> DEFINE fs == FaceItems(d)
           es == EdgeItems(d)
           cs == CornerItems(d)
           X  == FaceSets(d)
<1>1. /\ Items(d) = fs \o es \o cs
      /\ fs \in Seq(X) /\ es \in Seq(X) /\ cs \in Seq(X) /\ Items(d) \in Seq(X)
  BY ItemsAre
<1>2. Once(fs) /\ \A F \in ToSet(fs) : OneDirection(F) /\ ~ AllDirections(d, F)
  <2>1. DOMAIN fs = 1 .. 2 * d /\ \A f \in 1 .. 2 * d : fs[f] = {f - 1}
    BY DEF FaceItems
  <2> HIDE DEF fs
  <2>2. \A f, g \in DOMAIN fs : fs[f] = fs[g] => f = g
    <3>1. \A f, g \in DOMAIN fs : fs[f] = fs[g] => f - 1 = g - 1
      BY <2>1
    <3>2. QED
      BY <2>1, <3>1
  <2>3. \A F \in ToSet(fs) : \E f \in 1 .. 2 * d : F = {f - 1}
    BY <2>1 DEF ToSet
  <2>4. ASSUME NEW F \in ToSet(fs) PROVE OneDirection(F) /\ ~ AllDirections(d, F)
    <3>1. PICK f : F = {f}
      BY <2>3
    <3>2. OneDirection(F)
      BY <3>1 DEF OneDirection
    <3>3. 1 \in 1 .. d /\ 2 \in 1 .. d /\ 1 # 2
      OBVIOUS
    <3>4. QED
      BY <3>2, <3>3 DEF AllDirections, OneDirection
  <2>5. QED
    BY <2>2, <2>4 DEF Once
<1>3. Once(es) /\ \A F \in ToSet(es) : ~ OneDirection(F) /\ ~ AllDirections(d, F)
  <2>1. CASE d = 2
    <3>1. es = <<>>
      BY <2>1 DEF EdgeItems
    <3>2. QED
      BY <3>1 DEF Once, ToSet
  <2>2. CASE d = 3
    <3>1. DOMAIN es = 1 .. 12 /\ \A e \in 1 .. 12 : es[e] = edge_to_faces(e - 1)
      BY <2>2 DEF EdgeItems
    <3> HIDE DEF es
    <3>2. \A e \in 1 .. 12 : \E q \in 0 .. 2, lo, hi \in {0, 1} :
             e - 1 = 4 * q + 2 * hi + lo /\ es[e] = EdgeFaces(q, lo, hi)
      <4>1. \A e \in 1 .. 12 : e - 1 \in 0 .. 11
        OBVIOUS
      <4>2. QED
        BY <3>1, <4>1, EdgeIs
    <3>3. ASSUME NEW e \in 1 .. 12, NEW f \in 1 .. 12, es[e] = es[f] PROVE e = f
      <4>1. PICK q \in 0 .. 2, a \in {0, 1}, b \in {0, 1} :
               e - 1 = 4 * q + 2 * b + a /\ es[e] = EdgeFaces(q, a, b)
        BY <3>2
      <4>2. PICK r \in 0 .. 2, x \in {0, 1}, y \in {0, 1} :
               f - 1 = 4 * r + 2 * y + x /\ es[f] = EdgeFaces(r, x, y)
        BY <3>2
      <4>3. EdgeFaces(q, a, b) = EdgeFaces(r, x, y)
        BY <3>3, <4>1, <4>2
      <4>4. q = r /\ a = x /\ b = y
        BY <4>3, EdgeIs
      <4>5. e - 1 = f - 1
        BY <4>1, <4>2, <4>4
      <4>6. QED
        BY <4>5
    <3>4. \A F \in ToSet(es) : \E q \in 0 .. 2, lo, hi \in {0, 1} : F = EdgeFaces(q, lo, hi)
      BY <3>1, <3>2 DEF ToSet
    <3>5. ASSUME NEW F \in ToSet(es) PROVE ~ OneDirection(F) /\ ~ AllDirections(d, F)
      <4>1. PICK q \in 0 .. 2, lo \in {0, 1}, hi \in {0, 1} : F = EdgeFaces(q, lo, hi)
        BY <3>4
      <4> DEFINE k == (IF q = 1 THEN 2 ELSE 0) + lo
                 l == (IF q = 0 THEN 2 ELSE 4) + hi
      <4>2. F = {k, l}
        BY <4>1 DEF EdgeFaces
      <4>3. Dir(k) = (IF q = 1 THEN 2 ELSE 1) /\ Dir(l) = (IF q = 0 THEN 2 ELSE 3)
        <5>1. q = 0 \/ q = 1 \/ q = 2
          OBVIOUS
        <5>2. QED
          BY <5>1 DEF Dir
      <4> HIDE DEF k, l
      <4>4. Dir(k) # Dir(l) /\ \E i \in 1 .. 3 : i # Dir(k) /\ i # Dir(l)
        <5>1. q = 0 \/ q = 1 \/ q = 2
          OBVIOUS
        <5>2. 1 \in 1 .. 3 /\ 2 \in 1 .. 3 /\ 3 \in 1 .. 3
          OBVIOUS
        <5>3. QED
          BY <4>3, <5>1, <5>2
      <4>5. ~ OneDirection(F)
        BY <4>2, <4>4 DEF OneDirection
      <4>6. ~ AllDirections(d, F)
        BY <2>2, <4>2, <4>4 DEF AllDirections
      <4>7. QED
        BY <4>5, <4>6
    <3>6. QED
      BY <3>1, <3>3, <3>5 DEF Once
  <2>3. QED
    BY <2>1, <2>2
<1>4. Once(cs) /\ \A F \in ToSet(cs) : AllDirections(d, F)
  <2> DEFINE p == 2 ^ d
  <2>1. DOMAIN cs = 1 .. p /\ \A c \in 1 .. p : cs[c] = corner_to_faces(d, c - 1)
    BY DEF CornerItems
  <2>2. /\ \A c \in 1 .. p : AllDirections(d, corner_to_faces(d, c - 1))
        /\ \A b, c \in 1 .. p : corner_to_faces(d, b - 1) = corner_to_faces(d, c - 1) => b = c
    BY CornerIs
  <2> HIDE DEF p, cs
  <2>3. QED
    BY <2>1, <2>2 DEF Once, ToSet
<1> HIDE DEF fs, es, cs, X
<1>5. fs \o es \in Seq(X) /\ ToSet(fs \o es) = ToSet(fs) \cup ToSet(es) /\ Once(fs \o es)
  <2>1. ToSet(fs) \cap ToSet(es) = {}
    BY <1>2, <1>3
  <2>2. fs \in Seq(X) /\ es \in Seq(X)
    BY <1>1
  <2>3. fs \o es \in Seq(X)
    BY <2>2
  <2>4. ToSet(fs \o es) = ToSet(fs) \cup ToSet(es)
    BY <2>2, JoinedElements
  <2>5. Once(fs \o es)
    BY <1>2, <1>3, <2>1, <2>2, OnceJoined
  <2>6. QED
    BY <2>3, <2>4, <2>5
<1>6. ToSet(fs \o es) \cap ToSet(cs) = {}
  BY <1>2, <1>3, <1>4, <1>5
<1>7. Once((fs \o es) \o cs)
  BY <1>1, <1>4, <1>5, <1>6, OnceJoined
<1>8. QED
  BY <1>1, <1>7 DEF X

(* In a brick that is periodic in no direction, with room for two leaves in   *)
(* each, an octant outside is that of one leaf, across one item.             *)
IsOpen(brick) == \A i \in 1 .. Len(brick.size) : ~ brick.periodic[i] /\ brick.size[i] > 1

HasOutside(brick, k, F) ==
    k \in Key(brick) /\ k.out = {} /\ F \in FaceSets(Len(brick.size)) /\ OnBorder(brick, k, F)

LEMMA OutwardPlain ==
  ASSUME NEW brick, IsBrick(brick), IsOpen(brick),
         NEW j, NEW F, HasOutside(brick, j, F), NEW k, NEW G, HasOutside(brick, k, G),
         Outward(brick, j, F) = Outward(brick, k, G)
  PROVE  j = k /\ F = G
<1> DEFINE d == Len(brick.size)
           a == face_to_displacement(d, F)
           b == face_to_displacement(d, G)
           n == get_neighbor_key_same_level(j, a, brick)
           m == ROOT_LENGTH(d)
<1>0. /\ j \in Key(brick) /\ j.out = {} /\ F \in FaceSets(Len(brick.size)) /\ OnBorder(brick, j, F)
      /\ k \in Key(brick) /\ k.out = {} /\ G \in FaceSets(Len(brick.size)) /\ OnBorder(brick, k, G)
  BY DEF HasOutside
<1>1. d \in {2, 3}
  BY BrickIs
<1>2. IsDisplacement(d, F, a) /\ IsDisplacement(d, G, b)
  <2>1. F \in FaceSets(d) /\ G \in FaceSets(d)
    BY <1>0
  <2> HIDE DEF d
  <2>2. QED
    BY <1>1, <2>1, DisplacementIs
<1>3. n = get_neighbor_key_same_level(k, b, brick)
  BY DEF Outward
<1>4. /\ IsOutward(brick, d, m, KeyLength(brick, j.level), j, a, n)
      /\ IsOutward(brick, d, m, KeyLength(brick, k.level), k, b, n)
  <2>1. IsOutward(brick, d, m, KeyLength(brick, j.level), j, a, n)
    BY <1>0, OutwardIs
  <2>2. IsOutward(brick, d, m, KeyLength(brick, k.level), k, b, get_neighbor_key_same_level(k, b, brick))
    BY <1>0, OutwardIs
  <2>3. QED
    BY <1>3, <2>1, <2>2
<1> HIDE DEF a, b, n, m
<1>5. \A i \in 1 .. d : brick.size[i] \in Nat /\ ~ brick.periodic[i] /\ brick.size[i] > 1
  BY BrickIs DEF IsOpen
<1>6. a \in [1 .. d -> -1 .. 1] /\ b \in [1 .. d -> -1 .. 1]
  BY <1>2 DEF IsDisplacement
<1> HIDE DEF d
<1>7. ASSUME NEW i \in 1 .. d PROVE a[i] = b[i]
  <2>1. a[i] \in -1 .. 1 /\ b[i] \in -1 .. 1
    BY <1>6
  <2>2. (i \in n.out <=> a[i] # 0) /\ (i \in n.out <=> b[i] # 0)
    BY <1>4, <1>5 DEF IsOutward
  <2>3. /\ a[i] = 1 => n.tree[i] = 0
        /\ a[i] = -1 => n.tree[i] = brick.size[i] - 1
        /\ b[i] = 1 => n.tree[i] = 0
        /\ b[i] = -1 => n.tree[i] = brick.size[i] - 1
    BY <1>4 DEF IsOutward
  <2>4. brick.size[i] - 1 # 0
    BY <1>5
  <2>5. \A x \in -1 .. 1 : x = 0 \/ x = 1 \/ x = -1
    OBVIOUS
  <2>6. (a[i] = 0 \/ a[i] = 1 \/ a[i] = -1) /\ (b[i] = 0 \/ b[i] = 1 \/ b[i] = -1)
    BY <2>1, <2>5
  <2>7. CASE a[i] = 0
    BY <2>2, <2>7
  <2>8. CASE a[i] = 1
    <3>1. b[i] # 0
      <4>1. a[i] # 0
        BY <2>8
      <4>2. QED
        BY <2>2, <4>1
    <3>2. b[i] # -1
      BY <2>3, <2>4, <2>8
    <3>3. QED
      BY <2>6, <2>8, <3>1, <3>2
  <2>9. CASE a[i] = -1
    <3>1. b[i] # 0
      <4>1. a[i] # 0
        BY <2>9
      <4>2. QED
        BY <2>2, <4>1
    <3>2. b[i] # 1
      BY <2>3, <2>4, <2>9
    <3>3. QED
      BY <2>6, <2>9, <3>1, <3>2
  <2>10. QED
    BY <2>6, <2>7, <2>8, <2>9
<1>8. a = b
  <2>1. a = [i \in 1 .. d |-> a[i]] /\ b = [i \in 1 .. d |-> b[i]]
    BY <1>6
  <2>2. [i \in 1 .. d |-> a[i]] = [i \in 1 .. d |-> b[i]]
    BY <1>7
  <2>3. QED
    BY <2>1, <2>2
<1>9. j = k
  <2> DEFINE back == [i \in 1 .. d |-> -a[i]]
  <2>1. get_neighbor_key_same_level(n, back, brick) = j
    <3>1. a \in [1 .. Len(brick.size) -> -1 .. 1] /\ back = [i \in 1 .. Len(brick.size) |-> -a[i]]
      BY <1>6 DEF d
    <3> HIDE DEF back
    <3>2. get_neighbor_key_same_level(get_neighbor_key_same_level(j, a, brick), back, brick) = j
      BY <1>0, <3>1, ThereAndBack
    <3>3. QED
      BY <3>2 DEF n
  <2>2. get_neighbor_key_same_level(n, back, brick) = k
    <3>1. a \in [1 .. Len(brick.size) -> -1 .. 1] /\ back = [i \in 1 .. Len(brick.size) |-> -a[i]]
      BY <1>6 DEF d
    <3> HIDE DEF back
    <3>2. get_neighbor_key_same_level(get_neighbor_key_same_level(k, a, brick), back, brick) = k
      BY <1>0, <3>1, ThereAndBack
    <3>3. QED
      BY <1>3, <1>8, <3>2
  <2>3. QED
    BY <2>1, <2>2
<1>10. \A f, g \in Faces(d) : Dir(f) = Dir(g) /\ Sign(f) = Sign(g) => f = g
  BY <1>1, FaceIs
<1>11. F \subseteq Faces(d) /\ G \subseteq Faces(d)
  BY <1>0 DEF FaceSets, d
<1>12. ASSUME NEW f \in F PROVE f \in G
  <2>1. Dir(f) \in 1 .. d /\ a[Dir(f)] = Sign(f) /\ Sign(f) # 0
    BY <1>2 DEF IsDisplacement
  <2>2. PICK g \in G : Dir(g) = Dir(f)
    BY <1>2, <1>8, <2>1 DEF IsDisplacement
  <2>3. Sign(g) = Sign(f)
    BY <1>2, <1>8, <2>1, <2>2 DEF IsDisplacement
  <2>4. f = g
    BY <1>10, <1>11, <2>2, <2>3
  <2>5. QED
    BY <2>4
<1>13. ASSUME NEW g \in G PROVE g \in F
  <2>1. Dir(g) \in 1 .. d /\ b[Dir(g)] = Sign(g) /\ Sign(g) # 0
    BY <1>2 DEF IsDisplacement
  <2>2. PICK f \in F : Dir(g) = Dir(f)
    BY <1>2, <1>8, <2>1 DEF IsDisplacement
  <2>3. Sign(g) = Sign(f)
    BY <1>2, <1>8, <2>1, <2>2 DEF IsDisplacement
  <2>4. f = g
    BY <1>10, <1>11, <2>2, <2>3
  <2>5. QED
    BY <2>4
<1>14. QED
  BY <1>9, <1>12, <1>13

(* Leaves of different ranks have different keys.                            *)
LEMMA InsideOnce ==
  ASSUME NEW brick, IsBrick(brick), NEW f \in Seq(Leaf(brick)), NEW g \in Seq(Leaf(brick)),
         Once(f), Once(g), ToSet(g) \cap ToSet(f) = {}
  PROVE  Once(InsideKeys(brick, f, g))
<1>1. f \in Seq(Leaf(brick)) /\ g \in Seq(Leaf(brick))
  OBVIOUS
<1>2. \A s \in Seq(Leaf(brick)) :
         /\ KeysIn(brick, s) \in Seq(Key(brick))
         /\ DOMAIN KeysIn(brick, s) = 1 .. Len(s) /\ DOMAIN s = 1 .. Len(s)
         /\ \A i \in 1 .. Len(s) : s[i] \in Leaf(brick) /\ KeysIn(brick, s)[i] = KeyOf(brick, s[i])
  <2>1. TAKE s \in Seq(Leaf(brick))
  <2>2. DOMAIN s = 1 .. Len(s)
    OBVIOUS
  <2>3. /\ KeysIn(brick, s) \in Seq(Key(brick))
        /\ Len(KeysIn(brick, s)) = Len(s) /\ DOMAIN KeysIn(brick, s) = 1 .. Len(s)
        /\ \A i \in 1 .. Len(s) : /\ s[i] \in Leaf(brick)
                                  /\ KeysIn(brick, s)[i] = KeyOf(brick, s[i])
                                  /\ KeysIn(brick, s)[i].out = {}
    BY Zenon, KeysInIs
  <2>4. QED
    BY <2>2, <2>3
<1>3. \A p, q \in Leaf(brick) : KeyOf(brick, p) = KeyOf(brick, q) => p = q
  BY KeyOfIs
<1>4. ASSUME NEW s \in Seq(Leaf(brick)), Once(s) PROVE Once(KeysIn(brick, s))
  <2>1. /\ DOMAIN KeysIn(brick, s) = 1 .. Len(s)
        /\ \A i \in 1 .. Len(s) : s[i] \in Leaf(brick) /\ KeysIn(brick, s)[i] = KeyOf(brick, s[i])
    BY <1>2
  <2>2. \A i, j \in 1 .. Len(s) : s[i] = s[j] => i = j
    BY <1>2, <1>4, Zenon DEF Once
  <2>3. \A i, j \in 1 .. Len(s) : KeysIn(brick, s)[i] = KeysIn(brick, s)[j] => s[i] = s[j]
    BY <1>3, <2>1
  <2>4. QED
    BY <2>1, <2>2, <2>3, Zenon DEF Once
<1>5. ASSUME NEW x \in ToSet(KeysIn(brick, f)), x \in ToSet(KeysIn(brick, g)) PROVE FALSE
  <2>1. PICK i \in 1 .. Len(f) : x = KeyOf(brick, f[i])
    BY <1>1, <1>2 DEF ToSet
  <2>2. PICK j \in 1 .. Len(g) : x = KeyOf(brick, g[j])
    BY <1>1, <1>2, <1>5 DEF ToSet
  <2>3. f[i] \in Leaf(brick) /\ g[j] \in Leaf(brick) /\ f[i] \in ToSet(f) /\ g[j] \in ToSet(g)
    BY <1>1, <1>2, ElementsIs
  <2>4. f[i] = g[j]
    BY <1>3, <2>1, <2>2, <2>3
  <2>5. QED
    BY <2>3, <2>4
<1>6. ToSet(KeysIn(brick, f)) \cap ToSet(KeysIn(brick, g)) = {}
  BY <1>5
<1>7. /\ KeysIn(brick, f) \in Seq(Key(brick)) /\ KeysIn(brick, g) \in Seq(Key(brick))
      /\ Once(KeysIn(brick, f)) /\ Once(KeysIn(brick, g))
  BY <1>1, <1>2, <1>4
<1>8. QED
  BY <1>6, <1>7, OnceJoined DEF InsideKeys

IsPlain(brick) ==
    /\ \A i, j \in 1 .. Len(brick.size) : brick.periodic[i] = brick.periodic[j]
    /\ \A i \in 1 .. Len(brick.size) : brick.size[i] > 1

(* In a plain brick, no key is listed twice.                                 *)
LEMMA PlainOnce ==
  ASSUME NEW brick, IsBrick(brick), IsPlain(brick),
         NEW f \in Seq(Leaf(brick)), NEW g \in Seq(Leaf(brick)),
         Once(InsideKeys(brick, f, g))
  PROVE  Once(AllKeys(brick, f, g))
<1> DEFINE d == Len(brick.size)
           inside == InsideKeys(brick, f, g)
           border == BorderKeys(brick, inside)
           n == Len(inside)
           X == {k \in Key(brick) : k.out # {}}
<1>1. /\ inside \in Seq(Key(brick)) /\ n = Len(f) + Len(g)
      /\ \A i \in 1 .. Len(f) + Len(g) : inside[i].out = {}
  BY InsideKeysIs
<1>2. DOMAIN inside = 1 .. n /\ n \in Nat /\ \A i \in 1 .. n : inside[i] \in Key(brick)
  <2>1. inside \in Seq(Key(brick))
    BY <1>1
  <2> HIDE DEF inside
  <2>2. QED
    BY <2>1
<1>3. \A i \in 1 .. n : inside[i].out = {}
  BY <1>1
<1>4. \A i, j \in 1 .. n : inside[i] = inside[j] => i = j
  BY <1>2, Zenon DEF Once
<1>5. border \in Seq(X)
  BY BorderKeysIs
<1>6. border \in Seq(Key(brick)) /\ \A x \in ToSet(border) : x.out # {}
  <2> HIDE DEF border
  <2>1. ToSet(border) \subseteq X
    BY <1>5, ElementsIs
  <2>2. X \subseteq Key(brick)
    OBVIOUS
  <2>3. border \in Seq(Key(brick))
    <3> HIDE DEF X
    <3>1. QED
      BY <1>5, <2>2
  <2>4. QED
    BY <2>1, <2>3
<1> HIDE DEF inside, border, n
<1>7. Once(border)
  <2>1. CASE ~ Bordered(brick)
    <3>1. border = <<>>
      BY <2>1 DEF border, BorderKeys
    <3>2. QED
      BY <3>1 DEF Once
  <2>2. CASE Bordered(brick)
    <3> DEFINE seqs == [i \in 1 .. n |-> OutwardKeys(brick, inside[i])]
    <3>1. border = FlattenSeq(seqs)
      BY <1>2, <2>2 DEF border, BorderKeys
    <3>2. IsOpen(brick)
      BY <2>2 DEF Bordered, IsPlain, IsOpen
    <3>3. \A i \in 1 .. n :
             LET items == OutwardItems(brick, inside[i])
             IN  /\ items \in Seq({F \in FaceSets(d) : OnBorder(brick, inside[i], F)})
                 /\ OutwardKeys(brick, inside[i]) \in Seq(X)
                 /\ DOMAIN OutwardKeys(brick, inside[i]) = 1 .. Len(items)
                 /\ \A e \in 1 .. Len(items) :
                       OutwardKeys(brick, inside[i])[e] = Outward(brick, inside[i], items[e])
      BY <1>2, <1>3, OutwardKeysIs
    <3>4. ASSUME NEW i \in 1 .. n, NEW j \in 1 .. n,
                 NEW p \in DOMAIN OutwardKeys(brick, inside[i]),
                 NEW q \in DOMAIN OutwardKeys(brick, inside[j]),
                 OutwardKeys(brick, inside[i])[p] = OutwardKeys(brick, inside[j])[q]
          PROVE  i = j /\ p = q
      <4> DEFINE F == OutwardItems(brick, inside[i])[p]
                 G == OutwardItems(brick, inside[j])[q]
      <4>0. \A e \in 1 .. n : \A h \in DOMAIN OutwardKeys(brick, inside[e]) :
               LET H == OutwardItems(brick, inside[e])[h]
               IN  /\ H \in FaceSets(d) /\ OnBorder(brick, inside[e], H)
                   /\ h \in 1 .. Len(OutwardItems(brick, inside[e]))
                   /\ OutwardKeys(brick, inside[e])[h] = Outward(brick, inside[e], H)
        <5>1. TAKE e \in 1 .. n
        <5>2. TAKE h \in DOMAIN OutwardKeys(brick, inside[e])
        <5> DEFINE items == OutwardItems(brick, inside[e])
                   Y == {H \in FaceSets(d) : OnBorder(brick, inside[e], H)}
        <5>3. items \in Seq(Y) /\ h \in 1 .. Len(items)
              /\ OutwardKeys(brick, inside[e])[h] = Outward(brick, inside[e], items[h])
          BY <3>3, Zenon
        <5> HIDE DEF items, Y
        <5>4. items[h] \in Y
          BY <5>3
        <5>5. QED
          BY <5>3, <5>4 DEF items, Y
      <4>1. /\ F \in FaceSets(d) /\ OnBorder(brick, inside[i], F)
            /\ p \in 1 .. Len(OutwardItems(brick, inside[i]))
            /\ OutwardKeys(brick, inside[i])[p] = Outward(brick, inside[i], F)
        BY <4>0
      <4>2. /\ G \in FaceSets(d) /\ OnBorder(brick, inside[j], G)
            /\ q \in 1 .. Len(OutwardItems(brick, inside[j]))
            /\ OutwardKeys(brick, inside[j])[q] = Outward(brick, inside[j], G)
        BY <4>0
      <4> HIDE DEF F, G
      <4>3. inside[i] = inside[j] /\ F = G
        <5>1. /\ inside[i] \in Key(brick) /\ inside[i].out = {}
              /\ inside[j] \in Key(brick) /\ inside[j].out = {}
          BY <1>2, <1>3
        <5>2. Outward(brick, inside[i], F) = Outward(brick, inside[j], G)
          BY <3>4, <4>1, <4>2
        <5> DEFINE u == inside[i]
                   v == inside[j]
        <5>3. HasOutside(brick, u, F) /\ HasOutside(brick, v, G)
          BY <4>1, <4>2, <5>1 DEF d, HasOutside
        <5>6. Outward(brick, u, F) = Outward(brick, v, G)
          BY <5>2
        <5> HIDE DEF u, v
        <5>4. u = v /\ F = G
          BY <3>2, <5>3, <5>6, OutwardPlain
        <5>5. QED
          BY <5>4 DEF u, v
      <4>4. i = j
        BY <1>4, <4>3
      <4>5. Once(OutwardItems(brick, inside[i]))
        <5>1. d \in {2, 3}
          BY BrickIs
        <5>2. Once(Items(d)) /\ Items(d) \in Seq(FaceSets(d))
          BY <5>1, ItemsOnce
        <5>3. QED
          BY <5>2, ChosenOnce DEF OutwardItems
      <4>6. OutwardItems(brick, inside[i])[p] = OutwardItems(brick, inside[i])[q]
        BY <4>3, <4>4 DEF F, G
      <4>7. DOMAIN OutwardItems(brick, inside[i]) = 1 .. Len(OutwardItems(brick, inside[i]))
        BY <3>3
      <4>8. q \in 1 .. Len(OutwardItems(brick, inside[i]))
        BY <4>2, <4>4
      <4>9. p = q
        BY <4>1, <4>5, <4>6, <4>7, <4>8, Zenon DEF Once
      <4>10. QED
        BY <4>4, <4>9
    <3>5. seqs \in Seq(Seq(X)) /\ Len(seqs) = n /\ \A i \in 1 .. n : seqs[i] = OutwardKeys(brick, inside[i])
      <4>1. \A i \in 1 .. n : OutwardKeys(brick, inside[i]) \in Seq(X)
        BY <3>3
      <4> HIDE DEF X
      <4>2. seqs \in [1 .. n -> Seq(X)]
        BY <4>1
      <4>3. \A i \in 1 .. n : seqs[i] = OutwardKeys(brick, inside[i])
        OBVIOUS
      <4> HIDE DEF seqs
      <4>4. seqs \in Seq(Seq(X)) /\ Len(seqs) = n
        BY <1>2, <4>2
      <4>5. QED
        BY <4>3, <4>4
    <3> HIDE DEF seqs, X
    <3>10. \A i, j \in 1 .. n : \A p \in DOMAIN seqs[i], q \in DOMAIN seqs[j] :
              seqs[i][p] = seqs[j][q] => i = j /\ p = q
      <4>1. ASSUME NEW i \in 1 .. n, NEW j \in 1 .. n, NEW p \in DOMAIN seqs[i], NEW q \in DOMAIN seqs[j],
                   seqs[i][p] = seqs[j][q]
            PROVE  i = j /\ p = q
        <5>1. seqs[i] = OutwardKeys(brick, inside[i]) /\ seqs[j] = OutwardKeys(brick, inside[j])
          BY <3>5
        <5>2. /\ p \in DOMAIN OutwardKeys(brick, inside[i]) /\ q \in DOMAIN OutwardKeys(brick, inside[j])
              /\ OutwardKeys(brick, inside[i])[p] = OutwardKeys(brick, inside[j])[q]
          BY <4>1, <5>1
        <5>3. QED
          BY <3>4, <5>2, Zenon
      <4>2. QED
        BY <4>1
    <3>6. \A i \in 1 .. Len(seqs) : Once(seqs[i])
      <4>1. ASSUME NEW i \in 1 .. n PROVE Once(seqs[i])
        BY <3>10 DEF Once
      <4>2. QED
        BY <3>5, <4>1
    <3>7. \A i, j \in 1 .. Len(seqs) : i # j => ToSet(seqs[i]) \cap ToSet(seqs[j]) = {}
      <4>1. ASSUME NEW i \in 1 .. n, NEW j \in 1 .. n, i # j
            PROVE  ToSet(seqs[i]) \cap ToSet(seqs[j]) = {}
        BY <3>10, <4>1 DEF ToSet
      <4>2. QED
        BY <3>5, <4>1
    <3>8. Once(FlattenSeq(seqs))
      BY <3>5, <3>6, <3>7, OnceFlattened
    <3>9. QED
      BY <3>1, <3>8
  <2>3. QED
    BY <2>1, <2>2
<1>8. ToSet(inside) \cap ToSet(border) = {}
  <2>1. \A x \in ToSet(inside) : x.out = {}
    BY <1>2, <1>3 DEF ToSet
  <2>2. QED
    BY <1>6, <2>1
<1>9. inside \in Seq(Key(brick)) /\ Once(inside)
  BY <1>1 DEF inside
<1>10. Once(inside \o border)
  BY <1>6, <1>7, <1>8, <1>9, OnceJoined
<1>11. QED
  BY <1>10 DEF AllKeys, inside, border

(* Dictionary, from MeshInv: the map has an index at which the key is, for    *)
(* every key of the list, whichever insertion came first; the key of a leaf   *)
(* is at no other place, since those outside have another part.              *)
LEMMA MeshDictionary ==
  MeshInv => Dictionary
<1> SUFFICES ASSUME MeshInv, NEW r \in Ranks, ~ Before(r, "hashmap")
             PROVE  LET map  == m_amr_hashmap[r]
                        keys == m_orchard_keys[r]
                    IN  /\ \A i \in 1 .. Inside(r) : valid(map, keys[i]) /\ map[keys[i]] = i - 1
                        /\ DOMAIN map = ToSet(keys)
                        /\ \A key \in DOMAIN map : keys[map[key] + 1] = key
                        /\ Plain => Cardinality(DOMAIN map) = Len(keys)
  BY DEF Dictionary
<1> DEFINE map  == m_amr_hashmap[r]
           keys == m_orchard_keys[r]
           f == forest[r]
           g == ghost[r]
           N == Len(f) + Len(g)
<1>1. at[r] > 6 /\ at[r] > 5 /\ at[r] > 2
  <2>1. at[r] \in 1 .. 13
    BY DEF MeshInv, Typed
  <2>2. ~ (at[r] <= 6)
    BY ScriptIs
  <2>3. QED
    BY <2>1, <2>2
<1>2. /\ keys = AllKeys(domain, f, g) /\ map \in Insertions(AllKeys(domain, f, g))
      /\ IsInfo(domain, forest, ghost, r, m_amr_mesh_info[r])
  BY <1>1 DEF MeshInv, KeysKnown, MapKnown, InfoKnown
<1>3. IsShared(domain, forest, ghost)
  BY BuiltIs DEF MeshInv
<1>4. /\ IsBrick(domain) /\ f \in Seq(Leaf(domain)) /\ g \in Seq(Leaf(domain))
      /\ Once(f) /\ Once(g) /\ ToSet(g) \cap ToSet(f) = {}
  <2>1. PICK mesh : /\ IsForest(domain, mesh, forest)
                    /\ \A s \in Ranks : IsGhost(domain, mesh, forest[s], ghost[s])
    BY <1>3 DEF IsShared
  <2>2. mesh \in Seq(Leaf(domain)) /\ Once(mesh) /\ f = Chosen(mesh, ToSet(f))
    BY <2>1 DEF IsForest
  <2>3. Once(Chosen(mesh, ToSet(f)))
    BY <2>2, ChosenOnce
  <2>4. Once(f)
    BY <2>2, <2>3
  <2>5. Once(g) /\ ToSet(g) \cap ToSet(f) = {}
    BY <2>1 DEF IsGhost
  <2>6. IsBrick(domain) /\ f \in Seq(Leaf(domain)) /\ g \in Seq(Leaf(domain))
    BY <1>3 DEF IsShared
  <2>7. QED
    BY <2>4, <2>5, <2>6
<1>5. Once(InsideKeys(domain, f, g))
  BY <1>4, InsideOnce
<1>6. /\ AllKeys(domain, f, g) \in Seq(Key(domain))
      /\ \A i \in 1 .. Len(AllKeys(domain, f, g)) :
            AllKeys(domain, f, g)[i].out # {} <=> i > Len(f) + Len(g)
      /\ Len(AllKeys(domain, f, g)) = N + CountOut(domain, f) + CountOut(domain, g)
  BY <1>4, AllKeysIs
<1>7. map \in IndexMaps(keys)
  BY <1>2, <1>6, InsertionsAre
<1>8. Inside(r) = N /\ N \in Nat
  <2>1. Inside(r) = N
    BY <1>2 DEF Inside, IsInfo
  <2>2. Len(f) \in Nat /\ Len(g) \in Nat
    <3>1. f \in Seq(Leaf(domain)) /\ g \in Seq(Leaf(domain))
      BY <1>4
    <3> HIDE DEF f, g
    <3>2. QED
      BY <3>1
  <2> DEFINE a == Len(f)
             b == Len(g)
  <2>3. a \in Nat /\ b \in Nat /\ Inside(r) = a + b
    BY <2>1, <2>2
  <2>4. N = a + b
    OBVIOUS
  <2> HIDE DEF a, b, N
  <2>5. QED
    BY <2>3, <2>4
<1>9. keys \in Seq(Key(domain))
  BY <1>2, <1>6
<1>10. \A i, j \in 1 .. N : keys[i] = keys[j] => i = j
  <2> DEFINE inside == InsideKeys(domain, f, g)
             border == BorderKeys(domain, inside)
  <2>1. inside \in Seq(Key(domain)) /\ Len(inside) = N
    <3>1. f \in Seq(Leaf(domain)) /\ g \in Seq(Leaf(domain)) /\ IsBrick(domain)
      BY <1>4
    <3> HIDE DEF f, g
    <3>2. InsideKeys(domain, f, g) \in Seq(Key(domain)) /\ Len(InsideKeys(domain, f, g)) = Len(f) + Len(g)
      BY <3>1, InsideKeysIs
    <3>3. QED
      BY <3>2
  <2>2. border \in Seq(Key(domain))
    <3>1. border \in Seq({k \in Key(domain) : k.out # {}})
      BY <1>4, BorderKeysIs
    <3> HIDE DEF border
    <3> DEFINE Y == {k \in Key(domain) : k.out # {}}
    <3>2. Y \subseteq Key(domain)
      OBVIOUS
    <3> HIDE DEF Y
    <3>3. border \in Seq(Y)
      BY <3>1 DEF Y
    <3>4. QED
      BY <3>2, <3>3
  <2>3. inside \in Seq(Key(domain)) /\ border \in Seq(Key(domain))
    BY <2>1, <2>2
  <2>4. \A i \in 1 .. Len(inside) : (inside \o border)[i] = inside[i]
    BY <2>3, JoinedFirst, Zenon
  <2>5. keys = inside \o border
    BY <1>2 DEF AllKeys
  <2>6. Once(inside)
    BY <1>5
  <2> HIDE DEF inside, border, keys, N
  <2>7. DOMAIN inside = 1 .. N
    BY <2>1
  <2>8. \A i \in 1 .. N : keys[i] = inside[i]
    BY <2>1, <2>4, <2>5
  <2>9. QED
    BY <2>6, <2>7, <2>8 DEF Once
<1>11. Len(keys) \in Nat /\ Len(keys) >= N /\ \A i \in 1 .. Len(keys) : keys[i].out # {} <=> i > N
  <2>1. CountOut(domain, f) \in Nat /\ CountOut(domain, g) \in Nat
    BY <1>4, CountIs
  <2>2. Len(keys) = N + CountOut(domain, f) + CountOut(domain, g)
    BY <1>2, <1>6
  <2>3. \A i \in 1 .. Len(keys) : keys[i].out # {} <=> i > N
    BY <1>2, <1>6
  <2> HIDE DEF keys, N
  <2>4. QED
    BY <1>8, <2>1, <2>2, <2>3
<1>12. Plain => Once(keys)
  <2>1. Plain => IsPlain(domain)
    BY DEF Plain, IsPlain, dim
  <2>2. QED
    BY <1>2, <1>4, <1>5, <2>1, PlainOnce
<1> HIDE DEF map, keys, f, g, N
<1>13. DOMAIN map = ToSet(keys) /\ \A key \in ToSet(keys) : map[key] \in Int
         /\ map[key] + 1 \in 1 .. Len(keys) /\ keys[map[key] + 1] = key
  <2>1. /\ DOMAIN map = ToSet(keys)
        /\ \A key \in ToSet(keys) : map[key] \in Int /\ map[key] + 1 \in IndicesOf(keys, key)
    BY <1>7 DEF IndexMaps
  <2>2. ASSUME NEW key \in ToSet(keys)
        PROVE  map[key] + 1 \in 1 .. Len(keys) /\ keys[map[key] + 1] = key
    <3>1. /\ IndicesOf(keys, key) \in SUBSET (1 .. Len(keys))
          /\ \A i \in IndicesOf(keys, key) : keys[i] = key
      BY <1>9, IndicesHave
    <3>2. QED
      BY <2>1, <3>1
  <2>3. QED
    BY <2>1, <2>2
<1>14. ASSUME NEW i \in 1 .. N PROVE valid(map, keys[i]) /\ map[keys[i]] = i - 1
  <2>1. i \in 1 .. Len(keys)
    BY <1>8, <1>11
  <2>2. keys[i] \in ToSet(keys)
    BY <1>9, <2>1, ElementsIs
  <2>3. valid(map, keys[i])
    BY <1>13, <2>2 DEF valid
  <2> DEFINE j == map[keys[i]] + 1
  <2>4. j \in 1 .. Len(keys) /\ keys[j] = keys[i] /\ map[keys[i]] \in Int
    BY <1>13, <2>2
  <2>5. map[keys[i]] = j - 1
    BY <2>4
  <2> HIDE DEF j
  <2>6. ~ (i > N)
    BY <1>8
  <2>7. ~ (j > N)
    BY <1>11, <2>1, <2>4, <2>6
  <2>8. j \in 1 .. N
    BY <1>8, <1>11, <2>4, <2>7
  <2>9. i = j
    BY <1>10, <2>4, <2>8
  <2>10. QED
    BY <2>3, <2>5, <2>9
<1>15. Plain => Cardinality(DOMAIN map) = Len(keys)
  BY <1>9, <1>12, <1>13, OnceCounted
<1>16. QED
  BY <1>8, <1>13, <1>14, <1>15 DEF map, keys

(* Once a rank has filled its map, an owned leaf and a ghost are found at     *)
(* their own index, whichever of the concurrent insertions of UpdateHashmap   *)
(* came first, and nothing of an earlier mesh is found.                      *)
THEOREM DictionaryKept ==
  Spec => []Dictionary
BY MeshInvariant, MeshDictionary, PTL

----------------------------------------------------------------------------
(* The mirrors                                                              *)

Mapped(m, s) == [i \in DOMAIN s |-> m[s[i]]]

(* m maps the elements of X to elements of Y.                               *)
MapsTo(m, X, Y) == \A x \in X : m[x] \in Y

LEMMA MappedIs ==
  ASSUME NEW X, NEW s \in Seq(X), NEW Y, NEW m, MapsTo(m, X, Y)
  PROVE  /\ Mapped(m, s) \in Seq(Y) /\ Len(Mapped(m, s)) = Len(s)
         /\ \A i \in 1 .. Len(s) : Mapped(m, s)[i] = m[s[i]]
<1> DEFINE n == Len(s)
           t == Mapped(m, s)
<1>1. n \in Nat /\ DOMAIN s = 1 .. n /\ \A i \in 1 .. n : s[i] \in X
  OBVIOUS
<1>2. t = [i \in 1 .. n |-> m[s[i]]]
  BY <1>1 DEF Mapped
<1> HIDE DEF n, t
<1>3. t \in [1 .. n -> Y] /\ \A i \in 1 .. n : t[i] = m[s[i]]
  BY <1>1, <1>2 DEF MapsTo
<1>4. t \in Seq(Y) /\ Len(t) = n
  BY <1>1, <1>3
<1>5. QED
  BY <1>3, <1>4 DEF t, n

LEMMA MappedAppend ==
  ASSUME NEW X, NEW s \in Seq(X), NEW x \in X, NEW Y, NEW m, MapsTo(m, X, Y)
  PROVE  Mapped(m, Append(s, x)) = Append(Mapped(m, s), m[x])
<1> DEFINE n == Len(s)
           a == Append(s, x)
           t == Mapped(m, s)
           u == Mapped(m, a)
           v == Append(t, m[x])
<1>1. n \in Nat /\ a \in Seq(X) /\ Len(a) = n + 1 /\ a[n + 1] = x /\ \A i \in 1 .. n : a[i] = s[i]
  OBVIOUS
<1>2. t \in Seq(Y) /\ Len(t) = n /\ \A i \in 1 .. n : t[i] = m[s[i]]
  BY MappedIs
<1> HIDE DEF a, t
<1>3. u \in Seq(Y) /\ Len(u) = n + 1 /\ \A i \in 1 .. n + 1 : u[i] = m[a[i]]
  <2>1. u \in Seq(Y) /\ Len(u) = Len(a) /\ \A i \in 1 .. Len(a) : u[i] = m[a[i]]
    BY <1>1, MappedIs
  <2> HIDE DEF u
  <2>2. QED
    BY <1>1, <2>1
<1>4. m[x] \in Y
  BY DEF MapsTo
<1>5. v \in Seq(Y) /\ Len(v) = n + 1 /\ v[n + 1] = m[x] /\ \A i \in 1 .. n : v[i] = t[i]
  <2> HIDE DEF n
  <2>1. QED
    BY <1>1, <1>2, <1>4
<1> HIDE DEF n, u, v
<1>6. ASSUME NEW i \in 1 .. n + 1 PROVE u[i] = v[i]
  <2>1. i \in 1 .. n \/ i = n + 1
    BY <1>1
  <2>2. CASE i \in 1 .. n
    <3>1. u[i] = m[a[i]] /\ a[i] = s[i]
      BY <1>1, <1>3, <2>2
    <3>2. v[i] = t[i] /\ t[i] = m[s[i]]
      BY <1>2, <1>5, <2>2
    <3>3. QED
      BY <3>1, <3>2
  <2>3. CASE i = n + 1
    BY <1>1, <1>3, <1>5, <2>3
  <2>4. QED
    BY <2>1, <2>2, <2>3
<1>7. u = v
  BY <1>3, <1>5, <1>6, SameLists
<1>8. QED
  BY <1>7 DEF u, v, a, t

(* To choose from what elements are mapped to is to choose from them.        *)
LEMMA ChosenMapped ==
  ASSUME NEW X, NEW s \in Seq(X), NEW Y, NEW m, MapsTo(m, X, Y),
         NEW S, NEW T, \A x \in X : m[x] \in T <=> x \in S
  PROVE  Chosen(Mapped(m, s), T) = Mapped(m, Chosen(s, S))
<1> DEFINE P == {q \in Seq(X) : Chosen(Mapped(m, q), T) = Mapped(m, Chosen(q, S))}
<1>1. <<>> \in P
  <2>1. Mapped(m, <<>>) = <<>>
    BY DEF Mapped
  <2>2. Chosen(<<>>, T) = <<>> /\ Chosen(<<>>, S) = <<>>
    BY ChosenEmpty
  <2>3. <<>> \in Seq(X)
    OBVIOUS
  <2>4. QED
    BY <2>1, <2>2, <2>3
<1>2. ASSUME NEW q \in Seq(X), NEW x \in X, q \in P PROVE Append(q, x) \in P
  <2>1. Append(q, x) \in Seq(X)
    OBVIOUS
  <2>2. Mapped(m, Append(q, x)) = Append(Mapped(m, q), m[x])
    BY MappedAppend
  <2>3. Mapped(m, q) \in Seq(Y) /\ m[x] \in Y
    BY MappedIs DEF MapsTo
  <2> DEFINE y == m[x]
             t == Mapped(m, q)
  <2>4. Chosen(Append(t, y), T) = IF y \in T THEN Append(Chosen(t, T), y) ELSE Chosen(t, T)
    <3>1. t \in Seq(Y) /\ y \in Y
      BY <2>3
    <3> HIDE DEF t, y
    <3>2. QED
      BY <3>1, ChosenAppend
  <2>5. Chosen(Append(q, x), S) = IF x \in S THEN Append(Chosen(q, S), x) ELSE Chosen(q, S)
    BY ChosenAppend
  <2>6. Chosen(Mapped(m, q), T) = Mapped(m, Chosen(q, S))
    BY <1>2
  <2>7. Mapped(m, Append(Chosen(q, S), x)) = Append(Mapped(m, Chosen(q, S)), m[x])
    <3>1. Chosen(q, S) \in Seq(X)
      BY ChosenType
    <3>2. QED
      BY <3>1, MappedAppend
  <2>8. m[x] \in T <=> x \in S
    OBVIOUS
  <2>9. Chosen(Mapped(m, Append(q, x)), T) = Mapped(m, Chosen(Append(q, x), S))
    BY <2>2, <2>4, <2>5, <2>6, <2>7, <2>8
  <2>10. QED
    BY <2>1, <2>9
<1> HIDE DEF P
<1>3. s \in P
  BY <1>1, <1>2, EverySeq
<1>4. QED
  BY <1>3 DEF P

(* What a part of a list is.                                                 *)
IsPart(t, s, X, m, n) ==
  t \in Seq(X) /\ Len(t) = n - m /\ \A j \in 1 .. n - m : t[j] = s[m + j]

LEMMA PartOf ==
  ASSUME NEW X, NEW s \in Seq(X), NEW m \in Nat, NEW n \in Nat, m <= n, n <= Len(s)
  PROVE  IsPart(SubSeq(s, m + 1, n), s, X, m, n)
<1>1. /\ SubSeq(s, m + 1, n) \in Seq(X)
      /\ Len(SubSeq(s, m + 1, n)) = n - m
      /\ \A j \in 1 .. n - m : SubSeq(s, m + 1, n)[j] = s[m + j]
  BY PartOfSeq, Zenon
<1>2. QED
  BY <1>1, Zenon DEF IsPart

(* One list of a flattened sequence of lists.                                *)
LEMMA FlattenPart ==
  ASSUME NEW X, NEW seqs \in Seq(Seq(X)), NEW i \in 1 .. Len(seqs),
         NEW b, b = Total([j \in 1 .. Len(seqs) |-> Len(seqs[j])], 1 .. i - 1)
  PROVE  /\ b \in Nat /\ b + Len(seqs[i]) <= Len(FlattenSeq(seqs))
         /\ SubSeq(FlattenSeq(seqs), b + 1, b + Len(seqs[i])) = seqs[i]
<1> DEFINE N == Len(seqs)
           f == [j \in 1 .. N |-> Len(seqs[j])]
           l == Len(seqs[i])
<1>1. PICK c : FlattensTo(seqs, X, c)
  BY FlattenChain
<1> DEFINE P == {n \in Nat : n <= N => Len(c[n]) = Total(f, 1 .. n)}
           Q == {n \in Nat : i + n <= N =>
                    /\ Len(c[i]) <= Len(c[i + n])
                    /\ \A k \in 1 .. Len(c[i]) : c[i + n][k] = c[i][k]}
<1>2. N \in Nat /\ i \in 1 .. N /\ \A j \in 1 .. N : seqs[j] \in Seq(X)
  OBVIOUS
<1>3. /\ \A n \in 0 .. N : c[n] \in Seq(X)
      /\ c[0] = <<>> /\ \A j \in 1 .. N : c[j] = c[j - 1] \o seqs[j]
  BY <1>1, <1>2 DEF FlattensTo
<1>4. FlattenSeq(seqs) = c[N]
  <2>1. \A n \in 0 .. N : FlattenSeq([j \in 1 .. n |-> seqs[j]]) = c[n]
    BY <1>1, Zenon DEF FlattensTo
  <2>2. N \in 0 .. N /\ seqs = [j \in 1 .. N |-> seqs[j]]
    BY <1>2
  <2> HIDE DEF N
  <2>3. FlattenSeq([j \in 1 .. N |-> seqs[j]]) = c[N]
    BY <2>1, <2>2
  <2>4. QED
    BY <2>2, <2>3
<1>5. \A j \in 1 .. N : f[j] = Len(seqs[j]) /\ f[j] \in Nat
  OBVIOUS
<1>6. b = Total(f, 1 .. i - 1)
  OBVIOUS
<1> HIDE DEF f, N, l
<1>7. ASSUME NEW j \in 1 .. N
      PROVE  /\ c[j - 1] \in Seq(X) /\ seqs[j] \in Seq(X) /\ c[j] = c[j - 1] \o seqs[j] /\ c[j] \in Seq(X)
             /\ Len(c[j]) = Len(c[j - 1]) + Len(seqs[j])
             /\ \A k \in 1 .. Len(c[j - 1]) : c[j][k] = c[j - 1][k]
             /\ \A k \in 1 .. Len(seqs[j]) : c[j][Len(c[j - 1]) + k] = seqs[j][k]
             /\ Len(c[j - 1]) \in Nat /\ Len(seqs[j]) \in Nat
  <2>1. j \in 0 .. N /\ j - 1 \in 0 .. N
    BY <1>2
  <2>2. c[j - 1] \in Seq(X) /\ seqs[j] \in Seq(X)
    BY <1>2, <1>3, <2>1
  <2>3. /\ c[j - 1] \o seqs[j] \in Seq(X)
        /\ Len(c[j - 1] \o seqs[j]) = Len(c[j - 1]) + Len(seqs[j])
        /\ \A k \in 1 .. Len(seqs[j]) : (c[j - 1] \o seqs[j])[Len(c[j - 1]) + k] = seqs[j][k]
    BY <2>2, Joined, ZenonT(40)
  <2>4. \A k \in 1 .. Len(c[j - 1]) : (c[j - 1] \o seqs[j])[k] = c[j - 1][k]
    BY <2>2, JoinedFirst, Zenon
  <2>5. c[j] = c[j - 1] \o seqs[j]
    BY <1>3
  <2>6. Len(c[j - 1]) \in Nat /\ Len(seqs[j]) \in Nat
    BY <2>2
  <2>7. QED
    BY <2>2, <2>3, <2>4, <2>5, <2>6
<1>8. i - 1 \in P
  <2>1. 0 \in P
    BY <1>3, TotalNone
  <2>2. ASSUME NEW n \in Nat, n \in P PROVE n + 1 \in P
    <3>1. SUFFICES ASSUME n + 1 <= N PROVE Len(c[n + 1]) = Total(f, 1 .. n + 1)
      OBVIOUS
    <3>2. n + 1 \in 1 .. N /\ (n + 1) - 1 = n
      BY <1>2, <3>1
    <3>3. Len(c[n]) = Total(f, 1 .. n)
      BY <1>2, <2>2, <3>1
    <3>4. Len(c[n + 1]) = Len(c[n]) + Len(seqs[n + 1])
      BY <1>7, <3>2
    <3>7. \A k \in 1 .. n + 1 : f[k] \in Nat
      BY <1>2, <1>5, <3>1
    <3>5. Total(f, 1 .. n + 1) = Total(f, 1 .. n) + f[n + 1]
      BY <3>7, TotalTo
    <3>6. QED
      BY <1>5, <3>2, <3>3, <3>4, <3>5
  <2> HIDE DEF P
  <2>3. i - 1 \in Nat
    BY <1>2
  <2>4. QED
    BY <2>1, <2>2, <2>3, EveryNat
<1>9. Len(c[i - 1]) = b
  <2>1. i - 1 <= N
    BY <1>2
  <2>2. QED
    BY <1>6, <1>8, <2>1
<1>10. N - i \in Q
  <2>1. 0 \in Q
    <3>1. i + 0 = i
      BY <1>2
    <3>2. Len(c[i]) \in Nat
      <4>1. c[i] \in Seq(X)
        BY <1>2, <1>7
      <4>2. QED
        BY <4>1
    <3>3. QED
      BY <3>1, <3>2
  <2>2. ASSUME NEW n \in Nat, n \in Q PROVE n + 1 \in Q
    <3>1. SUFFICES ASSUME i + (n + 1) <= N
                   PROVE  /\ Len(c[i]) <= Len(c[i + (n + 1)])
                          /\ \A k \in 1 .. Len(c[i]) : c[i + (n + 1)][k] = c[i][k]
      OBVIOUS
    <3> DEFINE j == i + (n + 1)
    <3>2. j \in 1 .. N /\ j - 1 = i + n /\ i + n <= N
      BY <1>2, <3>1
    <3>3. Len(c[i]) <= Len(c[j - 1]) /\ \A k \in 1 .. Len(c[i]) : c[j - 1][k] = c[i][k]
      BY <2>2, <3>2
    <3>4. Len(c[i]) \in Nat
      <4>1. c[i] \in Seq(X)
        BY <1>2, <1>7
      <4>2. QED
        BY <4>1
    <3> HIDE DEF j
    <3>5. /\ Len(c[j]) = Len(c[j - 1]) + Len(seqs[j]) /\ Len(c[j - 1]) \in Nat /\ Len(seqs[j]) \in Nat
          /\ \A k \in 1 .. Len(c[j - 1]) : c[j][k] = c[j - 1][k]
      BY <1>7, <3>2
    <3>6. Len(c[i]) <= Len(c[j])
      <4>1. \A x, y, z \in Nat : x <= y => x <= y + z
        OBVIOUS
      <4>2. QED
        BY <3>3, <3>4, <3>5, <4>1, Zenon
    <3>7. ASSUME NEW k \in 1 .. Len(c[i]) PROVE c[j][k] = c[i][k]
      <4>1. k \in 1 .. Len(c[j - 1])
        BY <3>3, <3>4, <3>5
      <4>2. QED
        BY <3>3, <3>5, <4>1
    <3>8. QED
      BY <3>6, <3>7 DEF j
  <2> HIDE DEF Q
  <2>3. N - i \in Nat
    BY <1>2
  <2>4. QED
    BY <2>1, <2>2, <2>3, EveryNat
<1>11. Len(c[i]) <= Len(c[N]) /\ \A k \in 1 .. Len(c[i]) : c[N][k] = c[i][k]
  <2>1. i + (N - i) = N /\ N <= N
    BY <1>2
  <2>2. QED
    BY <1>10, <2>1
<1> HIDE DEF P, Q
<1>12. /\ seqs[i] \in Seq(X) /\ c[i] \in Seq(X) /\ Len(c[i]) = b + l /\ b \in Nat /\ l \in Nat
       /\ \A k \in 1 .. l : c[i][b + k] = seqs[i][k]
  BY <1>2, <1>7, <1>9, ZenonT(40) DEF l
<1>13. c[N] \in Seq(X) /\ Len(c[N]) \in Nat
  <2>1. c[N] \in Seq(X)
    BY <1>2, <1>3
  <2>2. QED
    BY <2>1
<1>14. b + l <= Len(c[N])
  BY <1>11, <1>12
<1> DEFINE t == SubSeq(c[N], b + 1, b + l)
<1>15. t \in Seq(X) /\ Len(t) = l /\ \A j \in 1 .. l : t[j] = c[N][b + j]
  <2>1. c[N] \in Seq(X) /\ b \in Nat /\ b + l \in Nat /\ b <= b + l /\ b + l <= Len(c[N])
        /\ b + l - b = l
    BY <1>12, <1>13, <1>14
  <2>2. IsPart(SubSeq(c[N], b + 1, b + l), c[N], X, b, b + l)
    BY <2>1, PartOf, Zenon
  <2> DEFINE e == b + l
  <2>3. e - b = l
    BY <1>12
  <2>4. IsPart(t, c[N], X, b, e)
    BY <2>2
  <2> HIDE DEF e, t
  <2>5. QED
    BY <2>3, <2>4 DEF IsPart
<1> HIDE DEF t
<1>16. ASSUME NEW j \in 1 .. l PROVE t[j] = seqs[i][j]
  <2>1. b + j \in 1 .. Len(c[i])
    BY <1>12
  <2>2. QED
    BY <1>11, <1>12, <1>15, <2>1
<1>17. t = seqs[i]
  BY <1>12, <1>15, <1>16, SameLists DEF l
<1>18. QED
  BY <1>4, <1>12, <1>14, <1>17 DEF t, l

(* The elements of a list with the indices that are chosen.                   *)
LEMMA ChosenIndices ==
  ASSUME NEW X, NEW s \in Seq(X), NEW T
  PROVE  LET all == [i \in DOMAIN s |-> i]
             S   == {i \in DOMAIN s : s[i] \in T}
         IN  Chosen(s, T) = Mapped(s, Chosen(all, S))
<1> DEFINE I == 1 .. Len(s)
           all == [i \in DOMAIN s |-> i]
           S == {i \in DOMAIN s : s[i] \in T}
<1>1. DOMAIN s = I /\ s = [i \in DOMAIN s |-> s[i]] /\ \A i \in I : s[i] \in X
  OBVIOUS
<1>2. all \in Seq(I) /\ DOMAIN all = I /\ \A i \in I : all[i] = i
  BY <1>1
<1>3. MapsTo(s, I, X)
  BY <1>1, Zenon DEF MapsTo
<1>4. \A i \in I : s[i] \in T <=> i \in S
  BY <1>1
<1> HIDE DEF I, all, S
<1>5. Chosen(Mapped(s, all), T) = Mapped(s, Chosen(all, S))
  BY <1>2, <1>3, <1>4, ChosenMapped
<1>6. Mapped(s, all) = s
  BY <1>1, <1>2 DEF Mapped
<1>7. QED
  BY <1>5, <1>6 DEF all, S

(* The keys of the mirrors sent to a rank: those of the leaves it has as     *)
(* ghosts.                                                                  *)
LEMMA MirrorKeysForIs ==
  ASSUME NEW brick, NEW f, NEW g, IsShared(brick, f, g), NEW r \in Ranks, NEW p \in Ranks, r # p
  PROVE  /\ MirrorKeysFor(brick, f, g, r, p) = KeysIn(brick, Chosen(f[r], ToSet(g[p])))
         /\ MirrorKeysFor(brick, f, g, r, p) \in Seq(Key(brick))
         /\ Len(MirrorKeysFor(brick, f, g, r, p)) = Len(MirrorIndices(f, g, r, p))
<1> DEFINE X == Leaf(brick)
           U == UNION {ToSet(g[q]) : q \in Ranks \ {r}}
           T == ToSet(g[p])
           of == Chosen(f[r], U)
           all == [i \in DOMAIN of |-> i]
           S == {i \in DOMAIN of : of[i] \in T}
           idx == Chosen(all, S)
<1>1. IsBrick(brick) /\ f[r] \in Seq(X)
  BY DEF IsShared
<1>2. of \in Seq(X)
  BY <1>1, ChosenType
<1>3. Chosen(of, T) = Mapped(of, idx)
  <2> HIDE DEF of, T
  <2>1. QED
    BY <1>2, ChosenIndices
<1>4. Chosen(of, T) = Chosen(f[r], T)
  <2>1. T \subseteq U
    OBVIOUS
  <2> HIDE DEF T, U, X
  <2>2. Chosen(of, T) = Chosen(f[r], U \cap T)
    BY <1>1, ChosenTwice
  <2>3. U \cap T = T
    BY <2>1
  <2>4. QED
    BY <2>2, <2>3
<1>5. MirrorIndices(f, g, r, p) = idx
  BY DEF MirrorIndices
<1>6. MirrorKeysFor(brick, f, g, r, p) = [n \in DOMAIN idx |-> KeysIn(brick, of)[idx[n]]]
  BY <1>5 DEF MirrorKeysFor
<1>7. idx \in Seq(1 .. Len(of)) /\ DOMAIN of = 1 .. Len(of)
  <2> HIDE DEF S
  <2>1. DOMAIN of = 1 .. Len(of)
    <3> HIDE DEF of
    <3>1. QED
      BY <1>2
  <2>2. idx \in Seq((1 .. Len(of)) \cap S)
    <3> HIDE DEF of
    <3>1. QED
      BY <1>2, IndicesAre
  <2> HIDE DEF of, idx
  <2>3. QED
    BY <2>1, <2>2
<1> HIDE DEF U, of, idx
<1>8. \A n \in DOMAIN idx : KeysIn(brick, of)[idx[n]] = KeyOf(brick, of[idx[n]])
  <2>1. TAKE n \in DOMAIN idx
  <2>2. idx[n] \in DOMAIN of
    BY <1>7
  <2>3. QED
    BY <2>2 DEF KeysIn
<1>9. KeysIn(brick, Mapped(of, idx)) = [n \in DOMAIN idx |-> KeyOf(brick, of[idx[n]])]
  <2>1. DOMAIN Mapped(of, idx) = DOMAIN idx /\ \A n \in DOMAIN idx : Mapped(of, idx)[n] = of[idx[n]]
    BY DEF Mapped
  <2>2. QED
    BY <2>1 DEF KeysIn
<1>10. MirrorKeysFor(brick, f, g, r, p) = KeysIn(brick, Chosen(f[r], T))
  <2>1. [n \in DOMAIN idx |-> KeysIn(brick, of)[idx[n]]] = [n \in DOMAIN idx |-> KeyOf(brick, of[idx[n]])]
    BY <1>8
  <2>2. QED
    BY <1>3, <1>4, <1>6, <1>9, <2>1
<1>11. Chosen(f[r], T) \in Seq(X)
  BY <1>1, ChosenType
<1> HIDE DEF T, X
<1>12. KeysIn(brick, Chosen(f[r], T)) \in Seq(Key(brick))
  <2> DEFINE c == Chosen(f[r], T)
  <2>1. c \in Seq(Leaf(brick))
    BY <1>11 DEF X
  <2> HIDE DEF c
  <2>2. /\ KeysIn(brick, c) \in Seq(Key(brick))
        /\ Len(KeysIn(brick, c)) = Len(c) /\ DOMAIN KeysIn(brick, c) = 1 .. Len(c)
        /\ \A i \in 1 .. Len(c) : /\ c[i] \in Leaf(brick)
                                  /\ KeysIn(brick, c)[i] = KeyOf(brick, c[i])
                                  /\ KeysIn(brick, c)[i].out = {}
    BY <1>1, <2>1, Zenon, KeysInIs
  <2>3. QED
    BY <2>2 DEF c
<1>13. Len(MirrorKeysFor(brick, f, g, r, p)) = Len(idx)
  <2>1. DOMAIN MirrorKeysFor(brick, f, g, r, p) = DOMAIN idx
    BY <1>6
  <2>2. MirrorKeysFor(brick, f, g, r, p) \in Seq(Key(brick))
    BY <1>10, <1>12
  <2> DEFINE a == MirrorKeysFor(brick, f, g, r, p)
  <2> HIDE DEF a
  <2>3. a \in Seq(Key(brick)) /\ DOMAIN a = DOMAIN idx
    BY <2>1, <2>2 DEF a
  <2>4. Len(a) = Len(idx)
    BY <1>7, <2>3
  <2>5. QED
    BY <2>4 DEF a
<1>14. QED
  BY <1>5, <1>10, <1>12, <1>13 DEF T

(* The sum over the ranks before p, without r, as one over the lists that    *)
(* are sent.                                                                *)
LEMMA SentBefore ==
  ASSUME NEW r \in Ranks, NEW p \in Ranks, NEW n, \A q \in Ranks : n[q] \in Nat,
         NEW m, \A i \in 1 .. NumRanks : m[i] = IF i - 1 = r THEN 0 ELSE n[i - 1]
  PROVE  Total(n, (0 .. p - 1) \ {r}) = Total(m, 1 .. p)
<1> DEFINE P == {k \in Nat : k <= NumRanks => Total(n, (0 .. k - 1) \ {r}) = Total(m, 1 .. k)}
<1>1. NumRanks \in Nat /\ Ranks = 0 .. NumRanks - 1
  BY MeshMapAssumption DEF Ranks
<1>2. 0 \in P
  <2>1. (0 .. 0 - 1) \ {r} = {} /\ 1 .. 0 = {}
    OBVIOUS
  <2>2. Total(n, {}) = 0 /\ Total(m, {}) = 0
    BY FS_EmptySet, TotalStep
  <2>3. QED
    BY <2>1, <2>2
<1>3. ASSUME NEW k \in Nat, k \in P PROVE k + 1 \in P
  <2>1. SUFFICES ASSUME k + 1 <= NumRanks
                 PROVE  Total(n, (0 .. (k + 1) - 1) \ {r}) = Total(m, 1 .. k + 1)
    OBVIOUS
  <2>2. Total(n, (0 .. k - 1) \ {r}) = Total(m, 1 .. k)
    BY <1>1, <1>3, <2>1
  <2>3. \A i \in 1 .. k + 1 : i - 1 \in Ranks /\ m[i] = IF i - 1 = r THEN 0 ELSE n[i - 1]
    BY <1>1, <2>1
  <2>4. \A i \in 1 .. k + 1 : m[i] \in Nat
    BY <2>3
  <2>5. Total(m, 1 .. k + 1) = Total(m, 1 .. k) + m[k + 1]
    BY <2>4, TotalTo
  <2> DEFINE R == (0 .. (k + 1) - 1) \ {r}
             Q == (0 .. k - 1) \ {r}
  <2>6. m[k + 1] = IF k = r THEN 0 ELSE n[k]
    BY <2>3
  <2>7. CASE k = r
    <3>1. R = Q
      BY <2>7
    <3>3. Total(m, 1 .. k) \in Nat
      BY <2>4, TotalTo
    <3> HIDE DEF R, Q
    <3>4. Total(n, R) = Total(n, Q)
      BY <3>1
    <3>5. QED
      BY <2>2, <2>5, <2>6, <2>7, <3>3, <3>4 DEF R, Q
  <2>8. CASE k # r
    <3>1. R \ {k} = Q /\ k \in R /\ R \subseteq Ranks
      BY <1>1, <2>1, <2>8
    <3>2. IsFiniteSet(R)
      <4>1. IsFiniteSet(Ranks)
        BY RankSets
      <4> HIDE DEF R
      <4>2. QED
        BY <3>1, <4>1, FS_Subset
    <3> HIDE DEF R, Q
    <3>3. \A q \in R : n[q] \in Nat
      BY <3>1
    <3>4. Total(n, R) = n[k] + Total(n, R \ {k}) /\ Total(n, R) \in Nat
      BY <3>1, <3>2, <3>3, TotalStep
    <3>5. Total(n, Q) \in Nat /\ n[k] \in Nat
      <4>1. IsFiniteSet(Q) /\ \A q \in Q : n[q] \in Nat
        BY <3>1, <3>2, <3>3, FS_Subset
      <4>2. QED
        BY <3>1, <3>3, <4>1, TotalStep
    <3>6. Total(n, R) = Total(n, Q) + n[k]
      BY <3>1, <3>4, <3>5
    <3>7. Total(n, Q) = Total(m, 1 .. k)
      BY <2>2 DEF Q
    <3>8. Total(n, R) = Total(m, 1 .. k + 1)
      BY <2>5, <2>6, <2>8, <3>6, <3>7
    <3>9. QED
      BY <3>8 DEF R
  <2>9. QED
    BY <2>7, <2>8
<1> HIDE DEF P
<1>4. p \in P
  BY <1>1, <1>2, <1>3, EveryNat
<1>5. QED
  BY <1>1, <1>4 DEF P

(* The owned leaves and the ghosts in the list of keys.                       *)
LEMMA KeyParts ==
  ASSUME NEW brick, IsBrick(brick), NEW f \in Seq(Leaf(brick)), NEW g \in Seq(Leaf(brick))
  PROVE  /\ SubSeq(AllKeys(brick, f, g), 1, Len(f)) = KeysIn(brick, f)
         /\ SubSeq(AllKeys(brick, f, g), Len(f) + 1, Len(f) + Len(g)) = KeysIn(brick, g)
<1> DEFINE a == AllKeys(brick, f, g)
           u == KeysIn(brick, f)
           v == KeysIn(brick, g)
           m == Len(f)
           n == Len(g)
           K == Key(brick)
<1>1. /\ a \in Seq(K)
      /\ Len(a) = m + n + CountOut(brick, f) + CountOut(brick, g)
      /\ \A i \in 1 .. m : a[i] = u[i]
      /\ \A i \in 1 .. n : a[m + i] = v[i]
  BY AllKeysIs
<1>2. CountOut(brick, f) \in Nat /\ CountOut(brick, g) \in Nat
  BY CountIs
<1>3. m \in Nat /\ n \in Nat
  OBVIOUS
<1>4. u \in Seq(K) /\ Len(u) = m /\ v \in Seq(K) /\ Len(v) = n
  <2>1. u \in Seq(K) /\ Len(u) = m
    BY KeysInIs
  <2>2. v \in Seq(K) /\ Len(v) = n
    BY KeysInIs
  <2>3. QED
    BY <2>1, <2>2
<1> HIDE DEF a, u, v, m, n, K
<1>5. m + n \in Nat /\ m <= m + n /\ m + n <= Len(a) /\ 0 <= m /\ m <= Len(a)
  BY <1>1, <1>2, <1>3
<1> DEFINE x == SubSeq(a, 0 + 1, m)
           y == SubSeq(a, m + 1, m + n)
<1>6. IsPart(x, a, K, 0, m)
  BY <1>1, <1>3, <1>5, PartOf
<1>7. IsPart(y, a, K, m, m + n)
  BY <1>1, <1>3, <1>5, PartOf
<1>8. m - 0 = m /\ (m + n) - m = n /\ 0 + 1 = 1 /\ \A i \in 1 .. m : 0 + i = i
  BY <1>3
<1> HIDE DEF x, y
<1>9. x \in Seq(K) /\ Len(x) = m /\ \A i \in 1 .. m : x[i] = u[i]
  BY <1>1, <1>6, <1>8 DEF IsPart
<1>10. y \in Seq(K) /\ Len(y) = n /\ \A i \in 1 .. n : y[i] = v[i]
  <2> DEFINE e == m + n
  <2>1. e - m = n /\ IsPart(y, a, K, m, e)
    BY <1>7, <1>8
  <2> HIDE DEF e
  <2>2. y \in Seq(K) /\ Len(y) = n /\ \A i \in 1 .. n : y[i] = a[m + i]
    BY <2>1 DEF IsPart
  <2>3. QED
    BY <1>1, <2>2
<1>11. x = u /\ y = v
  BY <1>4, <1>9, <1>10, SameLists
<1>12. QED
  BY <1>8, <1>11 DEF x, y, a, u, v, m, n

(* The keys of the leaves of f that p has as ghosts are, in the list of keys *)
(* of the ghosts of p, those of the leaves of f.                            *)
LEMMA KeysShared ==
  ASSUME NEW brick, IsBrick(brick), NEW mesh \in Seq(Leaf(brick)),
         NEW f, f = Chosen(mesh, ToSet(f)), NEW g, g = Chosen(mesh, ToSet(g)),
         f \in Seq(Leaf(brick)), g \in Seq(Leaf(brick))
  PROVE  KeysIn(brick, Chosen(f, ToSet(g))) = Chosen(KeysIn(brick, g), ToSet(KeysIn(brick, f)))
<1> DEFINE X == Leaf(brick)
           F == ToSet(f)
           G == ToSet(g)
           key == [q \in X |-> KeyOf(brick, q)]
           T == ToSet(KeysIn(brick, f))
<1>1. Chosen(f, G) = Chosen(mesh, F \cap G) /\ Chosen(g, F) = Chosen(mesh, G \cap F)
  <2> HIDE DEF F, G, X
  <2>1. Chosen(Chosen(mesh, F), G) = Chosen(mesh, F \cap G)
    BY ChosenTwice
  <2>2. Chosen(Chosen(mesh, G), F) = Chosen(mesh, G \cap F)
    BY ChosenTwice
  <2>3. f = Chosen(mesh, F) /\ g = Chosen(mesh, G)
    BY DEF F, G
  <2>4. QED
    BY <2>1, <2>2, <2>3
<1>2. Chosen(f, G) = Chosen(g, F)
  <2>1. F \cap G = G \cap F
    OBVIOUS
  <2> HIDE DEF F, G
  <2>2. QED
    BY <1>1, <2>1
<1>3. \A s \in Seq(X) : KeysIn(brick, s) = Mapped(key, s)
  <2>1. TAKE s \in Seq(X)
  <2>2. \A i \in DOMAIN s : key[s[i]] = KeyOf(brick, s[i])
    <3>1. \A i \in DOMAIN s : s[i] \in X
      OBVIOUS
    <3>2. QED
      BY <3>1
  <2> HIDE DEF key
  <2>3. QED
    BY <2>2 DEF KeysIn, Mapped
<1>4. MapsTo(key, X, Key(brick))
  BY KeyOfIs DEF MapsTo
<1>5. \A q \in X : key[q] \in T <=> q \in F
  <2>1. TAKE q \in X
  <2>2. /\ DOMAIN KeysIn(brick, f) = 1 .. Len(f) /\ DOMAIN f = 1 .. Len(f)
        /\ \A i \in 1 .. Len(f) : f[i] \in X /\ KeysIn(brick, f)[i] = KeyOf(brick, f[i])
    <3>1. DOMAIN f = 1 .. Len(f)
      OBVIOUS
    <3>2. QED
      BY <3>1, KeysInIs
  <2>3. T = {KeyOf(brick, f[i]) : i \in 1 .. Len(f)}
    BY <2>2 DEF ToSet
  <2>4. F = {f[i] : i \in 1 .. Len(f)}
    BY <2>2 DEF ToSet
  <2>5. \A i \in 1 .. Len(f) : KeyOf(brick, q) = KeyOf(brick, f[i]) <=> q = f[i]
    BY <2>2, KeyOfIs
  <2>6. key[q] = KeyOf(brick, q)
    OBVIOUS
  <2> HIDE DEF T, F, key
  <2>7. QED
    BY <2>3, <2>4, <2>5, <2>6
<1>6. Chosen(g, F) \in Seq(X) /\ g \in Seq(X)
  BY ChosenType
<1> HIDE DEF X, F, key, T
<1>7. Chosen(Mapped(key, g), T) = Mapped(key, Chosen(g, F))
  BY <1>4, <1>5, <1>6, ChosenMapped
<1>8. QED
  BY <1>2, <1>3, <1>6, <1>7 DEF T, F

(* The mirrors of a rank, list by list.                                       *)
LEMMA MirrorsSplit ==
  ASSUME NEW brick, NEW f, NEW g, IsShared(brick, f, g), NEW r \in Ranks, NEW p \in Ranks, r # p,
         NEW b, b = Total([q \in Ranks |-> Len(MirrorIndices(f, g, r, q))], (0 .. p - 1) \ {r})
  PROVE  LET sent == MirrorKeys(brick, f, g, r)
             len  == Len(MirrorIndices(f, g, r, p))
         IN  /\ b + len <= Len(sent)
             /\ SubSeq(sent, b + 1, b + len) = KeysIn(brick, Chosen(f[r], ToSet(g[p])))
<1> DEFINE K == Key(brick)
           seqs == [i \in 1 .. NumRanks |->
                       IF i - 1 = r THEN <<>> ELSE MirrorKeysFor(brick, f, g, r, i - 1)]
           n == [q \in Ranks |-> Len(MirrorIndices(f, g, r, q))]
           m == [i \in 1 .. Len(seqs) |-> Len(seqs[i])]
           len == Len(MirrorIndices(f, g, r, p))
<1>1. NumRanks \in Nat /\ Ranks = 0 .. NumRanks - 1 /\ \A i \in 1 .. NumRanks : i - 1 \in Ranks
  BY MeshMapAssumption DEF Ranks
<1>2. \A q \in Ranks : n[q] \in Nat /\ n[q] = Len(MirrorIndices(f, g, r, q))
  BY MirrorsCounted
<1>3. \A q \in Ranks : r # q =>
         /\ MirrorKeysFor(brick, f, g, r, q) = KeysIn(brick, Chosen(f[r], ToSet(g[q])))
         /\ MirrorKeysFor(brick, f, g, r, q) \in Seq(K)
         /\ Len(MirrorKeysFor(brick, f, g, r, q)) = Len(MirrorIndices(f, g, r, q))
  BY MirrorKeysForIs
<1>4. ASSUME NEW i \in 1 .. NumRanks
      PROVE  seqs[i] \in Seq(K) /\ Len(seqs[i]) = IF i - 1 = r THEN 0 ELSE n[i - 1]
  <2>1. i - 1 \in Ranks /\ seqs[i] = IF i - 1 = r THEN <<>> ELSE MirrorKeysFor(brick, f, g, r, i - 1)
    BY <1>1
  <2> HIDE DEF seqs, n, K
  <2>2. CASE i - 1 = r
    BY <2>1, <2>2
  <2>3. CASE i - 1 # r
    BY <1>2, <1>3, <2>1, <2>3
  <2>4. QED
    BY <2>2, <2>3
<1>5. seqs \in Seq(Seq(K)) /\ Len(seqs) = NumRanks
  <2>1. DOMAIN seqs = 1 .. NumRanks /\ seqs = [i \in 1 .. NumRanks |-> seqs[i]]
    OBVIOUS
  <2> HIDE DEF seqs, K
  <2>2. seqs \in [1 .. NumRanks -> Seq(K)]
    BY <1>4, <2>1
  <2>3. QED
    BY <1>1, <2>2
<1>6. p + 1 \in 1 .. NumRanks /\ (p + 1) - 1 = p /\ p \in Nat
  BY <1>1
<1>7. seqs[p + 1] = MirrorKeysFor(brick, f, g, r, p)
  BY <1>6
<1>8. \A i \in 1 .. NumRanks : m[i] = IF i - 1 = r THEN 0 ELSE n[i - 1]
  <2> HIDE DEF seqs, n
  <2>1. QED
    BY <1>4, <1>5
<1>9. b = Total(n, (0 .. p - 1) \ {r}) /\ MirrorKeys(brick, f, g, r) = FlattenSeq(seqs)
  BY DEF MirrorKeys
<1>10. m = [i \in 1 .. Len(seqs) |-> Len(seqs[i])]
  OBVIOUS
<1> HIDE DEF seqs, n, m, K
<1>11. Total(n, (0 .. p - 1) \ {r}) = Total(m, 1 .. p)
  BY <1>2, <1>8, SentBefore
<1> DEFINE i == p + 1
<1>12. i \in 1 .. Len(seqs) /\ b = Total(m, 1 .. i - 1)
  <2>1. i - 1 = p
    BY <1>6
  <2> HIDE DEF i
  <2>2. b = Total(m, 1 .. i - 1)
    BY <1>9, <1>11, <2>1
  <2>3. i \in 1 .. Len(seqs)
    BY <1>5, <1>6 DEF i
  <2>4. QED
    BY <2>2, <2>3
<1> HIDE DEF i
<1>13. /\ b \in Nat /\ b + Len(seqs[i]) <= Len(FlattenSeq(seqs))
       /\ SubSeq(FlattenSeq(seqs), b + 1, b + Len(seqs[i])) = seqs[i]
  BY <1>5, <1>10, <1>12, FlattenPart
<1>14. seqs[i] = KeysIn(brick, Chosen(f[r], ToSet(g[p]))) /\ Len(seqs[i]) = len
  <2>1. seqs[i] = MirrorKeysFor(brick, f, g, r, p)
    BY <1>7 DEF i
  <2>2. QED
    BY <1>3, <2>1
<1> HIDE DEF len
<1>15. QED
  BY <1>9, <1>13, <1>14 DEF len

SentRight(r, p) ==
    LET begin == Total([q \in Ranks |-> Len(mirror_proc_mirrors(r, q))], (0 .. p - 1) \ {r})
        len   == Len(mirror_proc_mirrors(r, p))
        owned == ToSet(SubSeq(m_orchard_keys[r], 1, m_amr_mesh_info[r].quadrants))
    IN  /\ Len(m_mirror_orchard_keys[r]) >= begin + len
        /\ SubSeq(m_mirror_orchard_keys[r], begin + 1, begin + len) = Chosen(GhostKeys(p), owned)

(* MirrorsMatchGhosts, from MeshInv: what a rank sends to another one are the *)
(* keys of the leaves it owns that the other has as ghosts, in the order of  *)
(* the mesh, and so are the ghosts the other finds in its list.              *)
LEMMA MeshMirrors ==
  MeshInv => MirrorsMatchGhosts
<1>1. SUFFICES ASSUME MeshInv, Rebuilt, NEW r \in Ranks, NEW p \in Ranks, r # p
               PROVE  SentRight(r, p)
  BY DEF MirrorsMatchGhosts, SentRight
<1> DEFINE b == Total([q \in Ranks |-> Len(mirror_proc_mirrors(r, q))], (0 .. p - 1) \ {r})
           len == Len(mirror_proc_mirrors(r, p))
           sent == MirrorKeys(domain, forest, ghost, r)
           f == forest[r]
           g == ghost[p]
<1>2. IsBrick(domain) /\ IsShared(domain, forest, ghost)
  BY <1>1, RebuiltIs
<1>3. \A s \in Ranks : /\ IsInfo(domain, forest, ghost, s, m_amr_mesh_info[s])
                       /\ m_orchard_keys[s] = AllKeys(domain, forest[s], ghost[s])
                       /\ m_mirror_orchard_keys[s] = MirrorKeys(domain, forest, ghost, s)
  BY <1>1, RebuiltIs
<1>4. \A s \in Ranks : forest[s] \in Seq(Leaf(domain)) /\ ghost[s] \in Seq(Leaf(domain))
  BY <1>2 DEF IsShared
<1>5. \A q : mirror_proc_mirrors(r, q) = MirrorIndices(forest, ghost, r, q)
  BY MirrorIndicesIs
<1>6. /\ len = Len(MirrorIndices(forest, ghost, r, p))
      /\ b = Total([q \in Ranks |-> Len(MirrorIndices(forest, ghost, r, q))], (0 .. p - 1) \ {r})
  BY <1>5
<1>7. b + len <= Len(sent) /\ SubSeq(sent, b + 1, b + len) = KeysIn(domain, Chosen(f, ToSet(g)))
  <2> HIDE DEF b
  <2>1. LET l == Len(MirrorIndices(forest, ghost, r, p))
        IN  /\ b + l <= Len(sent)
            /\ SubSeq(sent, b + 1, b + l) = KeysIn(domain, Chosen(forest[r], ToSet(ghost[p])))
    BY <1>1, <1>2, <1>6, MirrorsSplit
  <2>2. QED
    BY <1>6, <2>1
<1>8. ToSet(SubSeq(m_orchard_keys[r], 1, m_amr_mesh_info[r].quadrants)) = ToSet(KeysIn(domain, f))
  <2>1. m_amr_mesh_info[r].quadrants = Len(f) /\ m_orchard_keys[r] = AllKeys(domain, f, ghost[r])
    BY <1>3 DEF IsInfo
  <2>2. SubSeq(AllKeys(domain, f, ghost[r]), 1, Len(f)) = KeysIn(domain, f)
    BY <1>2, <1>4, KeyParts
  <2>3. QED
    BY <2>1, <2>2
<1>9. GhostKeys(p) = KeysIn(domain, g)
  <2>1. /\ m_amr_mesh_info[p].quadrants = Len(forest[p]) /\ m_amr_mesh_info[p].ghosts = Len(g)
        /\ m_orchard_keys[p] = AllKeys(domain, forest[p], g)
    BY <1>3 DEF IsInfo
  <2>2. SubSeq(AllKeys(domain, forest[p], g), Len(forest[p]) + 1, Len(forest[p]) + Len(g)) = KeysIn(domain, g)
    BY <1>2, <1>4, KeyParts
  <2>3. QED
    BY <2>1, <2>2 DEF GhostKeys, Inside
<1>10. KeysIn(domain, Chosen(f, ToSet(g))) = Chosen(KeysIn(domain, g), ToSet(KeysIn(domain, f)))
  <2>1. PICK mesh : /\ IsForest(domain, mesh, forest)
                    /\ \A s \in Ranks : IsGhost(domain, mesh, forest[s], ghost[s])
    BY <1>2 DEF IsShared
  <2>2. mesh \in Seq(Leaf(domain)) /\ f = Chosen(mesh, ToSet(f))
    BY <2>1 DEF IsForest
  <2>3. g = Chosen(mesh, ToSet(g))
    BY <2>1 DEF IsGhost
  <2>4. f \in Seq(Leaf(domain)) /\ g \in Seq(Leaf(domain))
    BY <1>4
  <2> HIDE DEF f, g
  <2>5. QED
    BY <1>2, <2>2, <2>3, <2>4, KeysShared
<1>11. Len(sent) >= b + len
  BY <1>7
<1>12. QED
  BY <1>3, <1>7, <1>8, <1>9, <1>10, <1>11 DEF SentRight

(* A rank sends its mirrors, a slice to every rank: the slice for p holds the *)
(* ghosts p expects from it, in the same order, after every rebuild, however *)
(* the mesh is cut (MeshMap::update_mirror_orchard_keys).                    *)
THEOREM MirrorsSent ==
  Spec => []MirrorsMatchGhosts
BY MeshInvariant, MeshMirrors, PTL
=============================================================================

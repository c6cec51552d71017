--------------------------- MODULE AMRAdapt_proofs ---------------------------
(***************************************************************************)
(* Proofs about AMRAdapt, for any mesh, any number of ranks and either       *)
(* dimension.  First the passes of one rank: what is counted and indexed     *)
(* during the refinement and the coarsening fits the leaves, so that the     *)
(* flags of the refined mesh fill tmp_flags exactly and the assertions of    *)
(* adapt_mesh hold; and since no leaf contains another, the flag the         *)
(* coarsening reads is the one that was asked of the leaf it looks at.  Then *)
(* the whole cycle: what the three passes do to the leaves is what the flags *)
(* ask, every cycle ends on a balanced mesh, also when adapt_mesh skips the  *)
(* balance, and the three searches of remap_leaf_data give every new leaf    *)
(* the old leaves it covers.                                                 *)
(***************************************************************************)
EXTENDS AMRAdapt, CommonFacts

(* Leaves of rank r that p4est has not gone past.                           *)
Ahead(r) == Len(forest[r]) - pos[r]

(* The refinement: the flags ahead are those of the leaves ahead, the ones   *)
(* behind are cleared, and the leaves behind are as many as the flags        *)
(* written to tmp_flags.                                                     *)
Refining(r) ==
    /\ Ahead(r) \in Nat
    /\ Len(amrflags_h[r]) = Len(amrflags_d[r])
    /\ inside_counter[r] + Ahead(r) = Len(amrflags_h[r])
    /\ \A i \in 1 .. inside_counter[r] : amrflags_h[r][i] = DO_NOTHING
    /\ \A j \in 1 .. Ahead(r) :
          amrflags_h[r][inside_counter[r] + j] \in FlagsAllowed(forest[r][pos[r] + j])
    /\ num_replaced[r] + NumRefine(amrflags_h[r]) = NumRefine(amrflags_d[r])
    /\ pos[r] = TmpIndex(r)
    /\ DOMAIN tmp_flags[r] = 0 .. TmpSize(amrflags_d[r]) - 1
    /\ \A i \in DOMAIN tmp_flags[r] : (tmp_flags[r][i] = DO_REFINE) <=> i >= pos[r]

(* The coarsening: the counter has moved by NB_CHILDREN for every leaf that  *)
(* replaced a family, and by 1 for every other.                              *)
Coarsening(r) ==
    /\ Ahead(r) \in Nat
    /\ inside_counter[r] = pos[r] + (NB_CHILDREN - 1) * num_replaced[r]
    /\ Len(forest[r]) + (NB_CHILDREN - 1) * num_replaced[r] = TmpSize(amrflags_d[r])
    /\ \A i \in DOMAIN tmp_flags[r] : tmp_flags[r][i] # DO_REFINE

(* The pass of each rank; a cycle that has begun is one the bound allows.    *)
Pass(r) ==
    /\ pc[r] = "refine" => Refining(r)
    /\ pc[r] = "coarsen" => Coarsening(r)
    /\ pc[r] \in {"refine", "coarsen", "balance", "rebuild"} => cycles < MaxCycles

PassInv == TypeOK /\ \A r \in Ranks : Pass(r)

(* What tmp_flags is to hold for a leaf of the refined mesh.                *)
Wanted(r, q) == IF q \in Asked(r, DO_COARSEN) THEN DO_COARSEN ELSE DO_NOTHING

(* The refinement lays out tmp_flags: the leaves ahead and their flags are   *)
(* those the cycle began with, and the leaves behind have theirs written.    *)
Laying(r) ==
    /\ Len(amrflags_d[r]) <= Len(old_keys[r])
    /\ Separate(OldLeaves(r))
    /\ \A j \in 1 .. Ahead(r) :
          /\ forest[r][pos[r] + j] = OldLeaves(r)[inside_counter[r] + j]
          /\ amrflags_h[r][inside_counter[r] + j] = amrflags_d[r][inside_counter[r] + j]
    /\ \A i \in 1 .. pos[r] : tmp_flags[r][i - 1] = Wanted(r, forest[r][i])

(* The coarsening reads tmp_flags: the flags ahead are those of the leaves   *)
(* ahead.                                                                    *)
Reading(r) ==
    \A j \in 1 .. Ahead(r) :
        TmpFlag(r, inside_counter[r] + (j - 1)) = Wanted(r, forest[r][pos[r] + j])

(* No leaf contains another, so that a leaf is only once in the old mesh and *)
(* a new one is not in it.                                                   *)
Follows(r) ==
    /\ Separate(forest[r])
    /\ pc[r] = "refine" => Laying(r)
    /\ pc[r] = "coarsen" => Reading(r)

FollowInv == PassInv /\ \A r \in Ranks : Follows(r)

----------------------------------------------------------------------------
(* Quadrants and sequences of them                                          *)

(* A quadrant has 4 or 8 children.                                          *)
LEMMA ChildrenCount == NB_CHILDREN \in {4, 8}
<1>1. 2 ^ 2 = 4 /\ 2 ^ 3 = 8
  OBVIOUS
<1>2. CASE Dim = 2
  BY <1>1, <1>2, Zenon DEF NB_CHILDREN
<1>3. CASE Dim = 3
  BY <1>1, <1>3, Zenon DEF NB_CHILDREN
<1>4. QED
  BY <1>2, <1>3, QuadAssumption

(* A quadrant is a sequence of at most LevelMax child numbers.              *)
LEMMA QuadIsPath ==
  \A q : q \in Quads <=> q \in Seq(ChildIds) /\ Len(q) <= LevelMax
<1>1. LevelMax \in Nat
  BY QuadAssumption
<1>2. ASSUME NEW q, q \in Quads PROVE q \in Seq(ChildIds) /\ Len(q) <= LevelMax
  <2>1. PICK l \in 0 .. LevelMax : q \in [1 .. l -> ChildIds]
    BY <1>2 DEF Quads, QuadsAt
  <2>2. l \in Nat
    BY <1>1, <2>1
  <2>3. q \in Seq(ChildIds) /\ Len(q) = l
    BY <2>1, <2>2
  <2>4. QED
    BY <1>1, <2>1, <2>3
<1>3. ASSUME NEW q, q \in Seq(ChildIds), Len(q) <= LevelMax PROVE q \in Quads
  <2>1. Len(q) \in 0 .. LevelMax /\ q \in [1 .. Len(q) -> ChildIds]
    BY <1>1, <1>3
  <2>2. QED
    BY <2>1 DEF Quads, QuadsAt
<1>4. QED
  BY <1>2, <1>3

(* The children of a quadrant that is not of the finest level.              *)
LEMMA ChildrenType ==
  ASSUME NEW q \in Quads, level(q) < LevelMax
  PROVE  all_children(q) \in Seq(Quads) /\ Len(all_children(q)) = NB_CHILDREN
<1>1. NB_CHILDREN \in Nat
  BY ChildrenCount
<1>2. q \in Seq(ChildIds)
  BY QuadIsPath
<1>3. ASSUME NEW k \in 1 .. NB_CHILDREN PROVE Append(q, k - 1) \in Quads
  <2>1. k - 1 \in ChildIds
    BY <1>1 DEF ChildIds
  <2>2. Append(q, k - 1) \in Seq(ChildIds) /\ Len(Append(q, k - 1)) = Len(q) + 1
    BY <1>2, <2>1
  <2>3. Len(q) + 1 <= LevelMax
    BY <1>2, QuadAssumption DEF level
  <2>4. QED
    BY <2>2, <2>3, QuadIsPath
<1>4. all_children(q) \in [1 .. NB_CHILDREN -> Quads]
  BY <1>3 DEF all_children
<1>5. QED
  BY <1>1, <1>4

(* The father of a quadrant that is not the root.                           *)
LEMMA FatherType ==
  ASSUME NEW q \in Quads, level(q) > 0
  PROVE  father(q) \in Quads
<1>1. q \in Seq(ChildIds) /\ Len(q) <= LevelMax
  BY QuadIsPath
<1>2. SubSeq(q, 1, Len(q) - 1) \in Seq(ChildIds) /\ Len(SubSeq(q, 1, Len(q) - 1)) = Len(q) - 1
  <2>1. Len(q) \in Nat /\ Len(q) >= 1 /\ \A i \in 1 .. Len(q) - 1 : q[i] \in ChildIds
    BY <1>1 DEF level
  <2> DEFINE n == Len(q) - 1
  <2>2. n \in Nat /\ \A i \in 1 .. n : q[i] \in ChildIds
    BY <2>1
  <2> HIDE DEF n
  <2>3. /\ SubSeq(q, 1, n) \in Seq(ChildIds)
        /\ Len(SubSeq(q, 1, n)) = IF 1 <= n THEN n - 1 + 1 ELSE 0
    BY <2>2, SubSeqProperties
  <2>4. Len(SubSeq(q, 1, n)) = n
    BY <2>2, <2>3
  <2>5. QED
    BY <2>3, <2>4 DEF n
<1>3. Len(q) - 1 <= LevelMax
  BY <1>1, QuadAssumption
<1>4. QED
  BY <1>2, <1>3, QuadIsPath DEF father

(* A sequence is a prefix of another when it agrees with it.                *)
LEMMA PrefixAgrees ==
  ASSUME NEW X, NEW s \in Seq(X), NEW t \in Seq(X)
  PROVE  IsPrefix(s, t) <=> Len(s) <= Len(t) /\ \A i \in 1 .. Len(s) : s[i] = t[i]
<1> DEFINE n == Len(s)
           a == SubSeq(s, 1, n)
           b == SubSeq(t, 1, n)
<1>1. n \in Nat /\ Len(t) \in Nat
  OBVIOUS
<1>2. 0 \in Nat /\ 0 <= n /\ 0 + 1 = 1 /\ n - 0 = n /\ \A i \in Int : 0 + i = i
  BY <1>1
<1>3. a \in Seq(X) /\ Len(a) = n /\ \A i \in 1 .. n : a[i] = s[i]
  <2> HIDE DEF n
  <2>1. /\ SubSeq(s, 0 + 1, n) \in Seq(X) /\ Len(SubSeq(s, 0 + 1, n)) = n - 0
        /\ \A j \in 1 .. n - 0 : SubSeq(s, 0 + 1, n)[j] = s[0 + j]
    <3>1. n <= Len(s)
      BY <1>1 DEF n
    <3>2. QED
      BY <1>1, <1>2, <3>1, PartOfSeq
  <2>2. QED
    BY <1>2, <2>1
<1>4. ASSUME n <= Len(t)
      PROVE  b \in Seq(X) /\ Len(b) = n /\ \A i \in 1 .. n : b[i] = t[i]
  <2> HIDE DEF n
  <2>1. /\ SubSeq(t, 0 + 1, n) \in Seq(X) /\ Len(SubSeq(t, 0 + 1, n)) = n - 0
        /\ \A j \in 1 .. n - 0 : SubSeq(t, 0 + 1, n)[j] = t[0 + j]
    BY <1>1, <1>2, <1>4, PartOfSeq
  <2>2. QED
    BY <1>2, <2>1
<1>5. IsPrefix(s, t) <=> n <= Len(t) /\ a = b
  BY DEF IsPrefix
<1> HIDE DEF n, a, b
<1>6. ASSUME n <= Len(t), \A i \in 1 .. n : s[i] = t[i] PROVE a = b
  <2>1. b \in Seq(X) /\ Len(b) = n /\ \A i \in 1 .. n : a[i] = b[i]
    BY <1>3, <1>4, <1>6
  <2>2. QED
    BY <1>3, <2>1, SeqEqual
<1>7. ASSUME n <= Len(t), a = b PROVE \A i \in 1 .. n : s[i] = t[i]
  BY <1>3, <1>4, <1>7
<1>8. QED
  BY <1>5, <1>6, <1>7 DEF n

(* A quadrant contains itself and what is in one that it contains; two that *)
(* contain the same one overlap.                                            *)
LEMMA Containment ==
  ASSUME NEW a \in Quads, NEW b \in Quads, NEW c \in Quads
  PROVE  /\ IsPrefix(a, a)
         /\ IsPrefix(a, b) /\ IsPrefix(b, c) => IsPrefix(a, c)
         /\ IsPrefix(a, c) /\ IsPrefix(b, c) => Overlap(a, b)
<1>1. a \in Seq(ChildIds) /\ b \in Seq(ChildIds) /\ c \in Seq(ChildIds)
  BY QuadIsPath
<1>2. Len(a) \in Nat /\ Len(b) \in Nat /\ Len(c) \in Nat
  BY <1>1
<1>3. \A s, t \in Seq(ChildIds) :
         IsPrefix(s, t) <=> Len(s) <= Len(t) /\ \A i \in 1 .. Len(s) : s[i] = t[i]
  BY PrefixAgrees
<1>4. IsPrefix(a, a)
  BY <1>1, <1>2, <1>3
<1>5. ASSUME IsPrefix(a, b), IsPrefix(b, c) PROVE IsPrefix(a, c)
  <2>1. Len(a) <= Len(b) /\ Len(b) <= Len(c)
    BY <1>1, <1>3, <1>5
  <2>2. \A i \in 1 .. Len(a) : a[i] = c[i]
    BY <1>1, <1>2, <1>3, <1>5, <2>1
  <2>3. QED
    BY <1>1, <1>2, <1>3, <2>1, <2>2
<1>6. ASSUME IsPrefix(a, c), IsPrefix(b, c) PROVE Overlap(a, b)
  <2>1. /\ \A i \in 1 .. Len(a) : a[i] = c[i]
        /\ \A i \in 1 .. Len(b) : b[i] = c[i]
    BY <1>1, <1>3, <1>6
  <2>2. CASE Len(a) <= Len(b)
    <3>1. \A i \in 1 .. Len(a) : a[i] = b[i]
      BY <1>2, <2>1, <2>2
    <3>2. QED
      BY <1>1, <1>3, <2>2, <3>1 DEF Overlap
  <2>3. CASE Len(b) <= Len(a)
    <3>1. \A i \in 1 .. Len(b) : b[i] = a[i]
      BY <1>2, <2>1, <2>3
    <3>2. QED
      BY <1>1, <1>3, <2>3, <3>1 DEF Overlap
  <2>4. QED
    BY <1>2, <2>2, <2>3
<1>7. QED
  BY <1>4, <1>5, <1>6

(* Quadrants in two that do not overlap do not overlap.                     *)
LEMMA ApartBelow ==
  ASSUME NEW a \in Quads, NEW b \in Quads, ~ Overlap(a, b),
         NEW x \in Quads, NEW y \in Quads, IsPrefix(a, x), IsPrefix(b, y)
  PROVE  ~ Overlap(x, y)
<1>1. CASE IsPrefix(x, y)
  <2>1. IsPrefix(a, y)
    BY <1>1, Containment
  <2>2. QED
    BY <2>1, Containment
<1>2. CASE IsPrefix(y, x)
  <2>1. IsPrefix(b, x)
    BY <1>2, Containment
  <2>2. QED
    BY <2>1, Containment
<1>3. QED
  BY <1>1, <1>2 DEF Overlap

(* A quadrant that comes before another does not overlap it, so quadrants in *)
(* Morton order are separate.                                               *)
LEMMA BeforeApart ==
  ASSUME NEW a \in Quads, NEW b \in Quads, Before(a, b)
  PROVE  ~ Overlap(a, b)
<1>1. a \in Seq(ChildIds) /\ b \in Seq(ChildIds)
  BY QuadIsPath
<1>2. PICK n \in 1 .. Len(a) : n <= Len(b) /\ a[n] < b[n]
  BY DEF Before
<1>3. n \in 1 .. Len(a) /\ n \in 1 .. Len(b) /\ a[n] \in Nat /\ b[n] \in Nat
  BY <1>1, <1>2, ChildrenCount DEF ChildIds
<1>4. a[n] # b[n]
  BY <1>2, <1>3
<1>5. QED
  BY <1>1, <1>3, <1>4, PrefixAgrees DEF Overlap

LEMMA OrderApart ==
  ASSUME NEW s \in Seq(Quads), InOrder(s)
  PROVE  Separate(s)
<1>1. ASSUME NEW i \in DOMAIN s, NEW j \in DOMAIN s, i # j PROVE ~ Overlap(s[i], s[j])
  <2>1. i \in Nat /\ j \in Nat /\ s[i] \in Quads /\ s[j] \in Quads
    OBVIOUS
  <2>2. CASE i < j
    BY <2>1, <2>2, BeforeApart DEF InOrder
  <2>3. CASE j < i
    <3>1. ~ Overlap(s[j], s[i])
      BY <2>1, <2>3, BeforeApart DEF InOrder
    <3>2. QED
      BY <3>1 DEF Overlap
  <2>4. QED
    BY <1>1, <2>1, <2>2, <2>3
<1>2. QED
  BY <1>1 DEF Separate

(* The children of a quadrant are in it, and none contains another; what    *)
(* overlaps none of them does not overlap the quadrant.                     *)
LEMMA ChildrenApart ==
  ASSUME NEW q \in Quads, level(q) < LevelMax
  PROVE  /\ Separate(all_children(q))
         /\ \A k \in 1 .. NB_CHILDREN : IsPrefix(q, all_children(q)[k]) /\ all_children(q)[k] # q
         /\ \A p \in Quads :
               (\A k \in 1 .. NB_CHILDREN : ~ Overlap(all_children(q)[k], p)) => ~ Overlap(q, p)
<1> DEFINE l == Len(q)
           children == all_children(q)
<1>1. q \in Seq(ChildIds) /\ l \in Nat /\ NB_CHILDREN \in Nat
  BY QuadIsPath, ChildrenCount
<1>2. ASSUME NEW k \in 1 .. NB_CHILDREN
      PROVE  /\ children[k] \in Seq(ChildIds) /\ Len(children[k]) = l + 1
             /\ children[k][l + 1] = k - 1
             /\ \A i \in 1 .. l : children[k][i] = q[i]
  <2>1. children[k] = Append(q, k - 1) /\ k - 1 \in ChildIds
    BY <1>1 DEF all_children, ChildIds
  <2>2. QED
    BY <1>1, <2>1
<1>3. DOMAIN children = 1 .. NB_CHILDREN
  BY DEF all_children
<1> HIDE DEF l, children
<1>4. ASSUME NEW k \in 1 .. NB_CHILDREN PROVE IsPrefix(q, children[k]) /\ children[k] # q
  <2>1. l <= Len(children[k]) /\ \A i \in 1 .. l : q[i] = children[k][i]
    BY <1>1, <1>2
  <2>2. IsPrefix(q, children[k])
    BY <1>1, <1>2, <2>1, PrefixAgrees DEF l
  <2>3. Len(children[k]) # Len(q)
    BY <1>1, <1>2 DEF l
  <2>4. QED
    BY <2>2, <2>3
<1>5. ASSUME NEW i \in 1 .. NB_CHILDREN, NEW j \in 1 .. NB_CHILDREN, i # j
      PROVE  ~ IsPrefix(children[i], children[j])
  <2>1. SUFFICES ASSUME IsPrefix(children[i], children[j]) PROVE FALSE
    OBVIOUS
  <2>2. \A m \in 1 .. Len(children[i]) : children[i][m] = children[j][m]
    BY <1>2, <2>1, PrefixAgrees
  <2>3. l + 1 \in 1 .. Len(children[i])
    BY <1>1, <1>2
  <2>4. i - 1 = j - 1
    BY <1>2, <2>2, <2>3
  <2>5. QED
    BY <1>5, <2>4
<1>6. Separate(children)
  BY <1>3, <1>5 DEF Separate, Overlap
<1>7. ASSUME NEW p \in Quads, \A k \in 1 .. NB_CHILDREN : ~ Overlap(children[k], p), Overlap(q, p)
      PROVE  FALSE
  <2>1. p \in Seq(ChildIds) /\ Len(p) \in Nat
    BY QuadIsPath
  <2>2. 1 \in 1 .. NB_CHILDREN
    BY ChildrenCount
  <2>3. CASE Len(p) <= l
    <3>1. \A i \in 1 .. Len(p) : p[i] = q[i]
      <4>1. CASE IsPrefix(p, q)
        BY <1>1, <2>1, <4>1, PrefixAgrees
      <4>2. CASE IsPrefix(q, p)
        <5>1. l <= Len(p) /\ \A i \in 1 .. l : q[i] = p[i]
          BY <1>1, <2>1, <4>2, PrefixAgrees DEF l
        <5>2. QED
          BY <1>1, <2>1, <2>3, <5>1
      <4>3. QED
        BY <1>7, <4>1, <4>2 DEF Overlap
    <3>2. Len(p) <= Len(children[1]) /\ \A i \in 1 .. Len(p) : p[i] = children[1][i]
      BY <1>1, <1>2, <2>1, <2>2, <2>3, <3>1
    <3>3. IsPrefix(p, children[1])
      BY <1>2, <2>1, <2>2, <3>2, PrefixAgrees
    <3>4. QED
      BY <1>7, <2>2, <3>3 DEF Overlap
  <2>4. CASE Len(p) > l
    <3>1. IsPrefix(q, p)
      <4>1. ~ IsPrefix(p, q)
        <5>1. ~ (Len(p) <= Len(q))
          BY <1>1, <2>1, <2>4 DEF l
        <5>2. QED
          BY <1>1, <2>1, <5>1, PrefixAgrees
      <4>2. QED
        BY <1>7, <4>1 DEF Overlap
    <3>2. \A i \in 1 .. l : q[i] = p[i]
      BY <1>1, <2>1, <3>1, PrefixAgrees DEF l
    <3>3. l + 1 \in 1 .. Len(p) /\ p[l + 1] \in ChildIds
      BY <1>1, <2>1, <2>4
    <3> DEFINE k == p[l + 1] + 1
    <3>4. k \in 1 .. NB_CHILDREN /\ k - 1 = p[l + 1]
      BY <1>1, <3>3 DEF ChildIds
    <3> HIDE DEF k
    <3>5. Len(children[k]) <= Len(p) /\ \A i \in 1 .. Len(children[k]) : children[k][i] = p[i]
      <4>1. Len(children[k]) = l + 1 /\ children[k][l + 1] = p[l + 1]
            /\ \A i \in 1 .. l : children[k][i] = p[i]
        BY <1>2, <3>2, <3>4
      <4>2. \A i \in 1 .. l + 1 : i = l + 1 \/ i \in 1 .. l
        BY <1>1
      <4>3. QED
        BY <1>1, <2>1, <2>4, <4>1, <4>2
    <3>6. IsPrefix(children[k], p)
      BY <1>2, <2>1, <3>4, <3>5, PrefixAgrees
    <3>7. QED
      BY <1>7, <3>4, <3>6 DEF Overlap
  <2>5. QED
    BY <1>1, <2>1, <2>3, <2>4
<1>8. QED
  BY <1>4, <1>6, <1>7 DEF children

(* Two sequences of separate quadrants that do not overlap, joined.         *)
LEMMA JoinedApart ==
  ASSUME NEW s \in Seq(Quads), NEW t \in Seq(Quads), Separate(s), Separate(t),
         \A i \in DOMAIN s : \A j \in DOMAIN t : ~ Overlap(s[i], t[j])
  PROVE  Separate(s \o t)
<1> DEFINE u == s \o t
<1>1. /\ u \in Seq(Quads) /\ Len(u) = Len(s) + Len(t)
      /\ \A j \in 1 .. Len(t) : u[Len(s) + j] = t[j]
  BY Joined, Zenon
<1>2. \A j \in 1 .. Len(s) : u[j] = s[j]
  BY JoinedFirst
<1>3. Len(s) \in Nat /\ Len(t) \in Nat /\ DOMAIN s = 1 .. Len(s) /\ DOMAIN t = 1 .. Len(t)
  OBVIOUS
<1> HIDE DEF u
<1>4. DOMAIN u = 1 .. Len(s) + Len(t)
  BY <1>1
<1>5. ASSUME NEW i \in DOMAIN u, i > Len(s)
      PROVE  i - Len(s) \in DOMAIN t /\ u[i] = t[i - Len(s)]
  <2> DEFINE j == i - Len(s)
  <2>1. j \in 1 .. Len(t) /\ Len(s) + j = i
    BY <1>3, <1>4, <1>5
  <2>2. u[Len(s) + j] = t[j]
    BY <1>1, <2>1
  <2>3. QED
    BY <1>3, <2>1, <2>2
<1>6. ASSUME NEW i \in DOMAIN u, ~ (i > Len(s)) PROVE i \in DOMAIN s /\ u[i] = s[i]
  BY <1>2, <1>3, <1>4, <1>6
<1>7. ASSUME NEW i \in DOMAIN u, NEW j \in DOMAIN u, i # j PROVE ~ Overlap(u[i], u[j])
  <2>1. CASE i > Len(s) /\ j > Len(s)
    <3>1. i - Len(s) # j - Len(s)
      BY <1>3, <1>4, <1>7
    <3>2. QED
      BY <1>5, <2>1, <3>1 DEF Separate
  <2>2. CASE i > Len(s) /\ ~ (j > Len(s))
    BY <1>5, <1>6, <2>2 DEF Overlap
  <2>3. CASE ~ (i > Len(s)) /\ j > Len(s)
    BY <1>5, <1>6, <2>3 DEF Overlap
  <2>4. CASE ~ (i > Len(s)) /\ ~ (j > Len(s))
    BY <1>6, <1>7, <2>4 DEF Separate
  <2>5. QED
    BY <2>1, <2>2, <2>3, <2>4
<1>8. QED
  BY <1>7 DEF Separate, u

(* A sequence of sequences, flattened.                                      *)
LEMMA FlattenType ==
  ASSUME NEW X, NEW seqs \in Seq(Seq(X))
  PROVE  FlattenSeq(seqs) \in Seq(X)
<1>1. CASE Len(seqs) = 0
  <2>1. seqs = <<>> /\ <<>> \in Seq(X)
    BY <1>1
  <2>2. QED
    BY <1>1, <2>1 DEF FlattenSeq
<1>2. CASE Len(seqs) # 0
  <2> DEFINE n == Len(seqs)
             sets == [i \in 1 .. n |-> Seq(X)]
  <2>1. n \in Nat /\ 1 <= n /\ \A i \in 1 .. n : seqs[i] \in Seq(X) /\ sets[i] = Seq(X)
    BY <1>2
  <2>2. seqs[1] \in sets[1]
    BY <2>1
  <2>3. ASSUME NEW i \in 2 .. n, NEW v \in sets[i - 1] PROVE v \o seqs[i] \in sets[i]
    <3>1. i \in 1 .. n /\ i - 1 \in 1 .. n
      BY <2>1
    <3>2. v \in Seq(X) /\ seqs[i] \in Seq(X) /\ sets[i] = Seq(X)
      BY <2>1, <3>1
    <3> HIDE DEF sets
    <3>3. QED
      BY <3>2
  <2> HIDE DEF sets
  <2>4. FlattenSeq(seqs) \in sets[n]
    BY <1>2, <2>2, <2>3, FlattenIn
  <2>5. QED
    BY <2>1, <2>4
<1>3. QED
  BY <1>1, <1>2

(* The sequences of separate leaves in a quadrant.                          *)
Pieces(q) == {s \in Seq(Quads) : Separate(s) /\ \A k \in DOMAIN s : IsPrefix(q, s[k])}

(* The leaves in separate quadrants, one after the other, are separate.     *)
LEMMA FlattenPieces ==
  ASSUME NEW roots \in Seq(Quads), Separate(roots),
         NEW seqs \in Seq(Seq(Quads)), Len(seqs) = Len(roots),
         \A i \in 1 .. Len(roots) : seqs[i] \in Pieces(roots[i])
  PROVE  /\ FlattenSeq(seqs) \in Seq(Quads)
         /\ Separate(FlattenSeq(seqs))
         /\ \A k \in DOMAIN FlattenSeq(seqs) :
               \E i \in 1 .. Len(roots) : IsPrefix(roots[i], FlattenSeq(seqs)[k])
<1>1. CASE Len(seqs) = 0
  <2>1. seqs = <<>> /\ <<>> \in Seq(Quads)
    BY <1>1
  <2>2. FlattenSeq(seqs) = <<>>
    BY <1>1, <2>1 DEF FlattenSeq
  <2>3. DOMAIN <<>> = {}
    OBVIOUS
  <2>4. QED
    BY <2>1, <2>2, <2>3 DEF Separate
<1>2. CASE Len(seqs) # 0
  <2> DEFINE n == Len(seqs)
             Under(s, i) == \A k \in DOMAIN s : \E m \in 1 .. i : IsPrefix(roots[m], s[k])
             sets == [i \in 1 .. n |-> {s \in Seq(Quads) : Separate(s) /\ Under(s, i)}]
  <2>1. n \in Nat /\ 1 <= n /\ DOMAIN roots = 1 .. n /\ \A i \in 1 .. n : roots[i] \in Quads
    BY <1>2
  <2>2. \A i \in 1 .. n : /\ seqs[i] \in Seq(Quads) /\ Separate(seqs[i])
                          /\ \A k \in DOMAIN seqs[i] : IsPrefix(roots[i], seqs[i][k])
    BY <2>1 DEF Pieces
  <2>3. seqs[1] \in sets[1]
    <3>1. 1 \in 1 .. n /\ 1 \in 1 .. 1
      BY <2>1
    <3>2. Under(seqs[1], 1)
      BY <2>2, <3>1
    <3> HIDE DEF Under
    <3>3. QED
      BY <2>2, <3>1, <3>2
  <2>4. ASSUME NEW i \in 2 .. n, NEW v \in sets[i - 1] PROVE v \o seqs[i] \in sets[i]
    <3> DEFINE w == seqs[i]
    <3>1. i \in 1 .. n /\ i - 1 \in 1 .. n
      BY <2>1
    <3>2. v \in Seq(Quads) /\ Separate(v) /\ Under(v, i - 1)
      <4> HIDE DEF Under
      <4>1. QED
        BY <3>1
    <3>3. w \in Seq(Quads) /\ Separate(w) /\ \A k \in DOMAIN w : IsPrefix(roots[i], w[k])
      BY <2>2, <3>1
    <3> HIDE DEF w
    <3>4. ASSUME NEW a \in DOMAIN v, NEW b \in DOMAIN w PROVE ~ Overlap(v[a], w[b])
      <4>1. PICK m \in 1 .. i - 1 : IsPrefix(roots[m], v[a])
        BY <3>2
      <4>2. m \in 1 .. n /\ m # i
        BY <2>1, <3>1, <4>1
      <4>3. ~ Overlap(roots[m], roots[i])
        BY <2>1, <3>1, <4>2 DEF Separate
      <4>4. v[a] \in Quads /\ w[b] \in Quads
        BY <3>2, <3>3
      <4>5. QED
        BY <2>1, <3>1, <3>3, <4>1, <4>2, <4>3, <4>4, ApartBelow
    <3>5. Separate(v \o w)
      BY <3>2, <3>3, <3>4, JoinedApart
    <3>6. /\ v \o w \in Seq(Quads) /\ Len(v \o w) = Len(v) + Len(w)
          /\ \A j \in 1 .. Len(w) : (v \o w)[Len(v) + j] = w[j]
      BY <3>2, <3>3, Joined
    <3>7. \A j \in 1 .. Len(v) : (v \o w)[j] = v[j]
      BY <3>2, <3>3, JoinedFirst
    <3>8. Under(v \o w, i)
      <4>1. SUFFICES ASSUME NEW k \in DOMAIN (v \o w)
                     PROVE  \E m \in 1 .. i : IsPrefix(roots[m], (v \o w)[k])
        OBVIOUS
      <4>2. Len(v) \in Nat /\ Len(w) \in Nat /\ k \in 1 .. Len(v) + Len(w)
        BY <3>2, <3>3, <3>6
      <4>3. CASE k <= Len(v)
        <5>1. k \in DOMAIN v /\ (v \o w)[k] = v[k]
          BY <3>2, <3>7, <4>2, <4>3
        <5>2. PICK m \in 1 .. i - 1 : IsPrefix(roots[m], v[k])
          BY <3>2, <5>1
        <5>3. m \in 1 .. i
          BY <3>1
        <5>4. QED
          BY <5>1, <5>2, <5>3
      <4>4. CASE ~ (k <= Len(v))
        <5> DEFINE j == k - Len(v)
        <5>1. j \in 1 .. Len(w) /\ Len(v) + j = k
          <6> DEFINE x == Len(v)
                     y == Len(w)
          <6>1. x \in Nat /\ y \in Nat /\ k \in 1 .. x + y /\ ~ (k <= x)
            BY <4>2, <4>4
          <6> HIDE DEF x, y
          <6>2. k - x \in 1 .. y /\ x + (k - x) = k
            BY <6>1
          <6>3. QED
            BY <6>2 DEF x, y
        <5>0. j \in DOMAIN w
          BY <3>3, <5>1
        <5> HIDE DEF j
        <5>2. (v \o w)[Len(v) + j] = w[j]
          BY <3>6, <5>1
        <5>3. IsPrefix(roots[i], (v \o w)[k]) /\ i \in 1 .. i
          BY <3>1, <3>3, <5>1, <5>2, <5>0
        <5>4. QED
          BY <5>3
      <4>5. QED
        BY <4>3, <4>4
    <3> HIDE DEF Under
    <3>9. v \o w \in sets[i]
      BY <3>1, <3>5, <3>6, <3>8
    <3>10. QED
      BY <3>9 DEF w
  <2>5. FlattenSeq(seqs) \in sets[n]
    <3> HIDE DEF sets
    <3>1. QED
      BY <1>2, <2>3, <2>4, FlattenIn
  <2>6. n \in 1 .. n
    BY <2>1
  <2>7. /\ FlattenSeq(seqs) \in Seq(Quads) /\ Separate(FlattenSeq(seqs))
        /\ Under(FlattenSeq(seqs), n)
    <3> HIDE DEF Under
    <3>1. QED
      BY <2>5, <2>6
  <2>8. QED
    BY <2>7
<1>3. QED
  BY <1>1, <1>2

(* The leaves that are not own and touch one that is.                       *)
LEMMA KeptType ==
  ASSUME NEW own, NEW all, NEW leaves \in Seq(all)
  PROVE  LeavesTouching(own, leaves) \in Seq(all \ own)
<1> DEFINE S == DOMAIN leaves
           Keep(found, q) == IF q \notin own /\ own \cap Touching[q] # {}
                            THEN Append(found, q) ELSE found
           X == Seq(all \ own)
           choose  == [T \in SUBSET S |-> Max(T)]
           step    == [i \in S |-> [v \in X |-> Keep(v, leaves[i])]]
           rule(g) == [T \in SUBSET S |->
                          IF T = {} THEN <<>> ELSE Keep(g[T \ {Max(T)}], leaves[Max(T)])]
<1>1. S = 1 .. Len(leaves) /\ Len(leaves) \in Nat /\ IsFiniteSet(S)
  BY FS_Interval
<1>2. \A T \in SUBSET S : T # {} => Max(T) \in T
  BY <1>1, LastPlace
<1>3. \A i \in S : \A v \in X : Keep(v, leaves[i]) \in X
  BY <1>1
<1>4. \E g : g = rule(g)
  <2>1. HasFold(S, X, <<>>, choose, step)
    <3>1. \A T \in SUBSET S : T # {} => choose[T] \in T
      BY <1>2
    <3>2. \A i \in S, v \in X : step[i][v] \in X
      <4> HIDE DEF Keep
      <4>1. QED
        BY <1>3
    <3>3. <<>> \in X
      OBVIOUS
    <3> HIDE DEF choose, step, X, S
    <3>4. QED
      BY <1>1, <3>1, <3>2, <3>3, FoldExists
  <2>2. PICK g \in [SUBSET S -> X] :
            \A T \in SUBSET S :
               g[T] = IF T = {} THEN <<>> ELSE step[choose[T]][g[T \ {choose[T]}]]
    BY <2>1 DEF HasFold
  <2>3. ASSUME NEW T \in SUBSET S, T # {} PROVE g[T] = Keep(g[T \ {Max(T)}], leaves[Max(T)])
    <3>1. choose[T] = Max(T) /\ Max(T) \in S /\ T \ {Max(T)} \in SUBSET S
      BY <1>2, <2>3
    <3>2. g[T \ {Max(T)}] \in X
      BY <2>2, <3>1
    <3>3. g[T] = step[Max(T)][g[T \ {Max(T)}]]
      BY <2>2, <2>3, <3>1
    <3> HIDE DEF Keep, choose
    <3>4. QED
      BY <3>1, <3>2, <3>3
  <2>4. g = rule(g)
    <3> HIDE DEF Keep
    <3>1. QED
      BY <2>2, <2>3
  <2>5. QED
    BY <2>4
<1>5. ASSUME NEW g, g = rule(g) PROVE g[S] \in X
  <2> DEFINE P == {T \in SUBSET S : g[T] \in X}
  <2>1. {} \in P
    BY <1>5
  <2>2. ASSUME NEW T \in SUBSET S, T # {}, \A x \in T : T \ {x} \in P PROVE T \in P
    <3>1. Max(T) \in T /\ Max(T) \in S
      BY <1>2, <2>2
    <3>2. g[T] = Keep(g[T \ {Max(T)}], leaves[Max(T)])
      BY <1>5, <2>2
    <3>3. g[T \ {Max(T)}] \in X
      BY <2>2, <3>1
    <3>4. g[T] \in X
      <4> HIDE DEF Keep
      <4>1. QED
        BY <1>3, <3>1, <3>2, <3>3
    <3>5. QED
      BY <3>4
  <2>3. \A T \in SUBSET S : T \in P
    <3>1. IsFiniteSet(S)
      BY <1>1
    <3> HIDE DEF P, S, rule, choose, step, X
    <3>2. \A T \in SUBSET S : T # {} /\ (\A x \in T : T \ {x} \in P) => T \in P
      BY <2>2
    <3>3. QED
      BY <2>1, <3>1, <3>2, EverySubset
  <2>4. QED
    BY <2>3
<1>6. LeavesTouching(own, leaves) = (CHOOSE g : g = rule(g))[S]
  BY DEF LeavesTouching, FoldLeft, MapThenFoldSet
<1> HIDE DEF rule
<1>7. QED
  BY <1>4, <1>5, <1>6

(* The leaves of all ranks, one after the other.                            *)
LEMMA WholeMesh ==
  ASSUME NEW f \in [Ranks -> Seq(Quads)]
  PROVE  FlattenSeq([i \in 1 .. NumRanks |-> f[i - 1]]) \in Seq(Leaves(f)) /\ Leaves(f) \subseteq Quads
<1>1. NumRanks \in Nat
  BY AdaptAssumption
<1> DEFINE X == Leaves(f)
<1>2. ASSUME NEW r \in Ranks PROVE f[r] \in Seq(X) /\ ToSet(f[r]) \subseteq Quads
  <2>1. f[r] \in Seq(Quads)
    OBVIOUS
  <2>2. \A i \in 1 .. Len(f[r]) : f[r][i] \in ToSet(f[r]) /\ f[r][i] \in Quads
    BY <2>1 DEF ToSet
  <2>3. ToSet(f[r]) \subseteq X
    BY DEF Leaves
  <2> HIDE DEF X
  <2>4. \A i \in 1 .. Len(f[r]) : f[r][i] \in X
    BY <2>2, <2>3
  <2>5. f[r] = [i \in 1 .. Len(f[r]) |-> f[r][i]] /\ Len(f[r]) \in Nat
    BY <2>1
  <2>6. f[r] \in [1 .. Len(f[r]) -> X]
    BY <2>4, <2>5
  <2>7. f[r] \in Seq(X)
    BY <2>5, <2>6
  <2>8. QED
    BY <2>1, <2>7 DEF ToSet
<1>3. ASSUME NEW i \in 1 .. NumRanks PROVE f[i - 1] \in Seq(X)
  <2>1. i - 1 \in Ranks
    BY <1>1 DEF Ranks
  <2>2. QED
    BY <1>2, <2>1
<1>4. X \subseteq Quads
  BY <1>2 DEF Leaves
<1> HIDE DEF X
<1>5. [i \in 1 .. NumRanks |-> f[i - 1]] \in [1 .. NumRanks -> Seq(X)]
  BY <1>3
<1>6. [i \in 1 .. NumRanks |-> f[i - 1]] \in Seq(Seq(X))
  BY <1>1, <1>5
<1>7. FlattenSeq([i \in 1 .. NumRanks |-> f[i - 1]]) \in Seq(X)
  BY <1>6, FlattenType
<1>8. QED
  BY <1>4, <1>7 DEF X

(* The ghosts are leaves of other ranks.                                    *)
LEMMA GhostsOf ==
  ASSUME NEW f \in [Ranks -> Seq(Quads)], NEW r \in Ranks
  PROVE  GhostLeaves(f, r) \in Seq(Leaves(f) \ ToSet(f[r])) /\ Leaves(f) \subseteq Quads
<1> DEFINE all == FlattenSeq([i \in 1 .. NumRanks |-> f[i - 1]])
<1>1. all \in Seq(Leaves(f)) /\ Leaves(f) \subseteq Quads
  BY WholeMesh
<1> HIDE DEF all
<1>2. all \in Seq(Quads)
  BY <1>1
<1>3. GhostLeaves(f, r) = LeavesTouching(ToSet(f[r]), all)
  BY <1>2 DEF GhostLeaves, all
<1>4. LeavesTouching(ToSet(f[r]), all) \in Seq(Leaves(f) \ ToSet(f[r]))
  BY <1>1, KeptType
<1>5. QED
  BY <1>1, <1>3, <1>4

(* The ghosts are quadrants.                                                *)
LEMMA GhostType ==
  ASSUME NEW f \in [Ranks -> Seq(Quads)], NEW r \in Ranks
  PROVE  GhostLeaves(f, r) \in Seq(Quads)
<1>1. GhostLeaves(f, r) \in Seq(Leaves(f) \ ToSet(f[r])) /\ Leaves(f) \subseteq Quads
  BY GhostsOf
<1> DEFINE X == Leaves(f) \ ToSet(f[r])
           g == GhostLeaves(f, r)
<1>2. g \in Seq(X) /\ X \subseteq Quads
  BY <1>1
<1> HIDE DEF X, g
<1>3. g \in Seq(Quads)
  BY <1>2
<1>4. QED
  BY <1>3 DEF g

(* The count of the quadrants, rank after rank.                             *)
Counts(f, c) ==
    /\ c \in [SUBSET Ranks -> Nat] /\ c[{}] = 0
    /\ \A T \in SUBSET Ranks :
          T # {} => c[T] = Len(f[CHOOSE x \in T : TRUE]) + c[T \ {CHOOSE x \in T : TRUE}]

(* It is what the count adds up.                                            *)
LEMMA CountIs ==
  ASSUME NEW f \in [Ranks -> Seq(Quads)]
  PROVE  \E c : Counts(f, c) /\ NumQuadrants(f) = c[Ranks]
<1> DEFINE choose  == [T \in SUBSET Ranks |-> CHOOSE x \in T : TRUE]
           step    == [i \in Ranks |-> [v \in Nat |-> Len(f[i]) + v]]
           rule(g) == [T \in SUBSET Ranks |->
                          IF T = {} THEN 0
                          ELSE Len(f[CHOOSE x \in T : TRUE]) + g[T \ {CHOOSE x \in T : TRUE}]]
<1>1. IsFiniteSet(Ranks)
  BY AdaptAssumption, FS_Interval DEF Ranks
<1>2. \A T \in SUBSET Ranks : T # {} => (CHOOSE x \in T : TRUE) \in T
  OBVIOUS
<1>3. \A i \in Ranks : Len(f[i]) \in Nat
  OBVIOUS
<1>4. \E g : g = rule(g)
  <2>1. HasFold(Ranks, Nat, 0, choose, step)
    <3>1. \A T \in SUBSET Ranks : T # {} => choose[T] \in T
      BY <1>2
    <3>2. \A i \in Ranks, v \in Nat : step[i][v] \in Nat
      BY <1>3
    <3>3. QED
      <4> DEFINE X == Nat
      <4>1. 0 \in X /\ \A i \in Ranks, v \in X : step[i][v] \in X
        BY <3>2
      <4> HIDE DEF choose, step, X
      <4>2. HasFold(Ranks, X, 0, choose, step)
        BY <1>1, <3>1, <4>1, FoldExists
      <4>3. QED
        BY <4>2 DEF X
  <2>2. PICK g \in [SUBSET Ranks -> Nat] :
            \A T \in SUBSET Ranks :
               g[T] = IF T = {} THEN 0 ELSE step[choose[T]][g[T \ {choose[T]}]]
    BY <2>1 DEF HasFold
  <2>3. ASSUME NEW T \in SUBSET Ranks, T # {}
        PROVE  g[T] = Len(f[CHOOSE x \in T : TRUE]) + g[T \ {CHOOSE x \in T : TRUE}]
    <3>1. choose[T] \in Ranks /\ T \ {choose[T]} \in SUBSET Ranks /\ choose[T] = CHOOSE x \in T : TRUE
      BY <1>2, <2>3
    <3>2. g[T \ {choose[T]}] \in Nat
      BY <2>2, <3>1
    <3>3. g[T] = Len(f[choose[T]]) + g[T \ {choose[T]}]
      BY <2>2, <2>3, <3>1, <3>2
    <3>4. QED
      BY <3>1, <3>3
  <2>4. g = rule(g)
    BY <2>2, <2>3
  <2>5. QED
    BY <2>4
<1>5. ASSUME NEW g, g = rule(g) PROVE \A T \in SUBSET Ranks : g[T] \in Nat
  <2> DEFINE P == {T \in SUBSET Ranks : g[T] \in Nat}
  <2>1. {} \in P
    BY <1>5
  <2>2. ASSUME NEW T \in SUBSET Ranks, T # {}, \A x \in T : T \ {x} \in P PROVE T \in P
    <3>1. PICK s \in T : s = CHOOSE x \in T : TRUE
      BY <2>2
    <3>2. g[T] = Len(f[s]) + g[T \ {s}]
      BY <1>5, <2>2, <3>1
    <3>3. g[T \ {s}] \in Nat /\ Len(f[s]) \in Nat
      BY <1>3, <2>2
    <3>4. QED
      BY <3>2, <3>3
  <2>3. \A T \in SUBSET Ranks : T \in P
    <3> HIDE DEF P
    <3>1. QED
      BY <1>1, <2>1, <2>2, EverySubset
  <2>4. QED
    BY <2>3
<1>6. NumQuadrants(f) = (CHOOSE g : g = rule(g))[Ranks]
  <2>1. DOMAIN f = Ranks
    OBVIOUS
  <2>2. QED
    BY <2>1 DEF NumQuadrants, FoldFunction, FoldFunctionOnSet, MapThenFoldSet
<1>7. ASSUME NEW g, g = rule(g) PROVE Counts(f, g)
  <2>1. g[{}] = 0 /\ DOMAIN g = SUBSET Ranks
    BY <1>7
  <2>2. ASSUME NEW T \in SUBSET Ranks, T # {}
        PROVE  g[T] = Len(f[CHOOSE x \in T : TRUE]) + g[T \ {CHOOSE x \in T : TRUE}]
    BY <1>7, <2>2
  <2>3. g = [T \in SUBSET Ranks |-> g[T]]
    BY <1>7
  <2>4. \A T \in SUBSET Ranks : g[T] \in Nat
    BY <1>5, <1>7
  <2>5. g \in [SUBSET Ranks -> Nat]
    BY <2>3, <2>4
  <2>6. QED
    BY <2>1, <2>2, <2>5 DEF Counts
<1> HIDE DEF rule
<1>8. QED
  BY <1>4, <1>6, <1>7

(* The count of the quadrants of all ranks.                                 *)
LEMMA CountType ==
  ASSUME NEW f \in [Ranks -> Seq(Quads)]
  PROVE  NumQuadrants(f) \in Nat
<1>1. PICK c : Counts(f, c) /\ NumQuadrants(f) = c[Ranks]
  BY CountIs
<1>2. c \in [SUBSET Ranks -> Nat]
  BY <1>1 DEF Counts
<1>3. QED
  BY <1>1, <1>2

----------------------------------------------------------------------------
(* The balance                                                              *)

(* The quadrants of a mesh that are not leaves of it, and what the balance   *)
(* splits, level by level.                                                  *)
Inner(leaves) == UNION {{SubSeq(q, 1, n) : n \in 0 .. level(q) - 1} : q \in leaves}

SplitBy(leaves, h) ==
    h = [l \in 0 .. LevelMax |->
            IF l = LevelMax THEN {}
            ELSE {p \in QuadsAt(l) : p \in Inner(leaves) \/ Touching[p] \cap h[l + 1] # {}}]

(* The levels exist, and what the balance splits is what they split.        *)
LEMMA SplitLevels ==
  ASSUME NEW leaves
  PROVE  \E h : SplitBy(leaves, h) /\ Split(leaves) = UNION {h[l] : l \in 0 .. LevelMax}
<1> DEFINE inner == UNION {{SubSeq(q, 1, n) : n \in 0 .. level(q) - 1} : q \in leaves}
           Below(p, s) == p \in inner \/ Touching[p] \cap s # {}
           rule(g) == [l \in 0 .. LevelMax |->
                          IF l = LevelMax THEN {}
                          ELSE {p \in QuadsAt(l) : Below(p, g[l + 1])}]
           sets == [n \in 0 .. LevelMax |-> SUBSET QuadsAt(LevelMax - n)]
           step == [n \in 0 .. LevelMax |->
                       [s \in SUBSET Quads |-> {p \in QuadsAt(LevelMax - n) : Below(p, s)}]]
<1>1. LevelMax \in Nat
  BY QuadAssumption
<1>2. \A l \in 0 .. LevelMax : QuadsAt(l) \in SUBSET Quads
  BY DEF Quads
<1> HIDE DEF Below
<1>3. HasChain(0, LevelMax, sets, {}, step)
  <2>1. ASSUME NEW n \in 0 + 1 .. LevelMax, NEW s \in sets[n - 1] PROVE step[n][s] \in sets[n]
    <3>1. n \in 0 .. LevelMax /\ n - 1 \in 0 .. LevelMax /\ LevelMax - (n - 1) \in 0 .. LevelMax
      BY <1>1
    <3>2. s \in SUBSET Quads
      BY <1>2, <3>1
    <3>3. step[n][s] = {p \in QuadsAt(LevelMax - n) : Below(p, s)}
      BY <3>1, <3>2
    <3>4. sets[n] = SUBSET QuadsAt(LevelMax - n)
      BY <3>1
    <3>5. QED
      BY <3>3, <3>4
  <2>2. {} \in sets[0] /\ 0 <= LevelMax
    BY <1>1
  <2> HIDE DEF sets, step
  <2>3. QED
    BY <1>1, <2>1, <2>2, ChainExists
<1>4. PICK c : /\ c = [n \in 0 .. LevelMax |-> IF n = 0 THEN {} ELSE step[n][c[n - 1]]]
               /\ \A n \in 0 .. LevelMax : c[n] \in sets[n]
  BY <1>3 DEF HasChain
<1> DEFINE g == [l \in 0 .. LevelMax |-> c[LevelMax - l]]
<1>5. g = rule(g)
  <2>1. ASSUME NEW l \in 0 .. LevelMax
        PROVE  g[l] = IF l = LevelMax THEN {} ELSE {p \in QuadsAt(l) : Below(p, g[l + 1])}
    <3>1. CASE l = LevelMax
      <4>1. g[l] = c[0] /\ 0 \in 0 .. LevelMax
        BY <1>1, <3>1
      <4>2. QED
        BY <1>4, <3>1, <4>1
    <3>2. CASE l # LevelMax
      <4> DEFINE n == LevelMax - l
      <4>1. n \in 0 .. LevelMax /\ n # 0 /\ n - 1 \in 0 .. LevelMax /\ LevelMax - n = l
            /\ LevelMax - (n - 1) = l + 1 /\ n - 1 = LevelMax - (l + 1) /\ l + 1 \in 0 .. LevelMax
        BY <1>1, <3>2
      <4>2. g[l] = c[n] /\ g[l + 1] = c[n - 1]
        BY <4>1
      <4> HIDE DEF n, g
      <4>3. c[n] = step[n][c[n - 1]]
        BY <1>4, <4>1
      <4>4. c[n - 1] \in SUBSET QuadsAt(l + 1)
        BY <1>4, <4>1
      <4>5. c[n - 1] \in SUBSET Quads
        BY <1>2, <4>1, <4>4
      <4>6. step[n][c[n - 1]] = {p \in QuadsAt(l) : Below(p, c[n - 1])}
        BY <4>1, <4>5
      <4>7. QED
        BY <3>2, <4>2, <4>3, <4>6
    <3>3. QED
      BY <3>1, <3>2
  <2>2. g = [l \in 0 .. LevelMax |-> g[l]]
    OBVIOUS
  <2> HIDE DEF g
  <2>3. QED
    BY <2>1, <2>2
<1>6. Split(leaves) = UNION {(CHOOSE h : h = rule(h))[l] : l \in 0 .. LevelMax}
  BY DEF Split, Below
<1>7. ASSUME NEW h, h = rule(h) PROVE SplitBy(leaves, h)
  BY <1>7 DEF SplitBy, Inner, Below
<1> HIDE DEF rule, g
<1>8. PICK h : h = rule(h) /\ h = CHOOSE k : k = rule(k)
  BY <1>5
<1>9. Split(leaves) = UNION {h[l] : l \in 0 .. LevelMax}
  BY <1>6, <1>8
<1>10. SplitBy(leaves, h)
  BY <1>7, <1>8
<1>11. QED
  BY <1>9, <1>10

(* What the balance splits are quadrants.                                   *)
LEMMA SplitType ==
  ASSUME NEW leaves
  PROVE  Split(leaves) \in SUBSET Quads
<1>1. PICK h : SplitBy(leaves, h) /\ Split(leaves) = UNION {h[l] : l \in 0 .. LevelMax}
  BY SplitLevels
<1>2. \A l \in 0 .. LevelMax : h[l] \in SUBSET QuadsAt(l)
  BY <1>1 DEF SplitBy
<1>3. QED
  BY <1>1, <1>2 DEF Quads

(* What the balance makes of the quadrants of each level.                   *)
Parts(split) ==
    CHOOSE g : g =
        [n \in 0 .. LevelMax |->
            [q \in QuadsAt(LevelMax - n) |->
                IF n > 0 /\ q \in split
                THEN FlattenSeq([k \in 1 .. NB_CHILDREN |-> g[n - 1][Append(q, k - 1)]])
                ELSE <<q>>]]

(* A kind of sequence for each quadrant that the balance keeps: that of the *)
(* quadrant alone, if it is not split, and of what is made of its children.  *)
KeptByCut(split, good) ==
    /\ \A q \in Quads : good[q] \subseteq Seq(Quads)
    /\ \A q \in Quads : level(q) = LevelMax \/ q \notin split => <<q>> \in good[q]
    /\ \A q \in Quads : level(q) < LevelMax /\ q \in split =>
          \A s \in Seq(Seq(Quads)) :
             /\ Len(s) = NB_CHILDREN
             /\ \A k \in 1 .. NB_CHILDREN : s[k] \in good[all_children(q)[k]]
             => FlattenSeq(s) \in good[q]

(* Quadrant by quadrant, sequences of that kind.                            *)
PartsOf(good, l) ==
    {v \in [QuadsAt(l) -> Seq(Quads)] : \A q \in QuadsAt(l) : v[q] \in good[q]}

(* A function of that kind, from its values.                                *)
LEMMA PartsMade ==
  ASSUME NEW split, NEW good, KeptByCut(split, good),
         NEW l \in 0 .. LevelMax, NEW v, v = [q \in QuadsAt(l) |-> v[q]],
         \A q \in QuadsAt(l) : v[q] \in good[q]
  PROVE  v \in PartsOf(good, l)
<1>1. \A q \in QuadsAt(l) : v[q] \in Seq(Quads)
  BY DEF KeptByCut, Quads
<1>2. QED
  BY <1>1 DEF PartsOf

(* A quadrant alone.                                                        *)
LEMMA OnePiece ==
  ASSUME NEW q \in Quads
  PROVE  <<q>> \in Pieces(q)
<1>1. <<q>> \in Seq(Quads) /\ DOMAIN <<q>> = {1} /\ <<q>>[1] = q
  OBVIOUS
<1>2. IsPrefix(q, q)
  BY Containment
<1>3. QED
  BY <1>1, <1>2 DEF Pieces, Separate

(* What the balance makes of a quadrant is of such a kind.                  *)
LEMMA PartsKept ==
  ASSUME NEW split, NEW good, KeptByCut(split, good)
  PROVE  \A n \in 0 .. LevelMax : \A q \in QuadsAt(LevelMax - n) : Parts(split)[n][q] \in good[q]
<1> DEFINE Cut(v, n, q) == IF n > 0 /\ q \in split
                           THEN FlattenSeq([k \in 1 .. NB_CHILDREN |-> v[Append(q, k - 1)]])
                           ELSE <<q>>
           rule(g) == [n \in 0 .. LevelMax |->
                          [q \in QuadsAt(LevelMax - n) |-> Cut(g[n - 1], n, q)]]
           sets == [n \in 0 .. LevelMax |-> PartsOf(good, LevelMax - n)]
           base == [q \in QuadsAt(LevelMax) |-> <<q>>]
           step == [n \in 0 .. LevelMax |->
                       [v \in UNION {sets[i] : i \in 0 .. LevelMax} |->
                           [q \in QuadsAt(LevelMax - n) |-> Cut(v, n, q)]]]
<1>1. LevelMax \in Nat /\ NB_CHILDREN \in Nat
  BY QuadAssumption, ChildrenCount
<1>2. \A l \in 0 .. LevelMax : QuadsAt(l) \in SUBSET Quads
  BY DEF Quads
<1>3. ASSUME NEW n \in 1 .. LevelMax, NEW q \in QuadsAt(LevelMax - n), NEW k \in 1 .. NB_CHILDREN
      PROVE  Append(q, k - 1) \in QuadsAt(LevelMax - (n - 1))
  <2> DEFINE l == LevelMax - n
  <2>1. l \in Nat /\ LevelMax - (n - 1) = l + 1 /\ k - 1 \in ChildIds
    BY <1>1 DEF ChildIds
  <2>2. q \in [1 .. l -> ChildIds]
    BY DEF QuadsAt
  <2> HIDE DEF l
  <2>3. q \in Seq(ChildIds) /\ Len(q) = l
    BY <2>1, <2>2
  <2>4. Append(q, k - 1) \in Seq(ChildIds) /\ Len(Append(q, k - 1)) = l + 1
    BY <2>1, <2>3
  <2>5. Append(q, k - 1) \in [1 .. l + 1 -> ChildIds]
    BY <2>4, LenProperties
  <2>6. QED
    BY <2>1, <2>5 DEF QuadsAt
<1>4. ASSUME NEW n \in 0 .. LevelMax, NEW q \in QuadsAt(LevelMax - n),
             NEW v, n > 0 => v \in PartsOf(good, LevelMax - (n - 1))
      PROVE  Cut(v, n, q) \in good[q]
  <2> DEFINE s == [k \in 1 .. NB_CHILDREN |-> v[Append(q, k - 1)]]
  <2>1. LevelMax - n \in 0 .. LevelMax /\ q \in Quads /\ level(q) = LevelMax - n
    <3>1. LevelMax - n \in 0 .. LevelMax
      BY <1>1
    <3>2. q \in Quads
      BY <1>2, <3>1
    <3>3. level(q) = LevelMax - n
      BY <3>1 DEF level, QuadsAt
    <3>4. QED
      BY <3>1, <3>2, <3>3
  <2>2. CASE n > 0 /\ q \in split
    <3>1. n \in 1 .. LevelMax /\ level(q) < LevelMax
      BY <1>1, <2>1, <2>2
    <3>2. \A k \in 1 .. NB_CHILDREN : v[Append(q, k - 1)] \in good[all_children(q)[k]]
      <4>1. ASSUME NEW k \in 1 .. NB_CHILDREN
            PROVE  v[Append(q, k - 1)] \in good[all_children(q)[k]]
        <5>1. all_children(q)[k] = Append(q, k - 1)
          BY DEF all_children
        <5>2. Append(q, k - 1) \in QuadsAt(LevelMax - (n - 1))
          BY <1>3, <3>1
        <5>3. QED
          BY <1>4, <2>2, <5>1, <5>2 DEF PartsOf
      <4>2. QED
        BY <4>1
    <3>3. \A k \in 1 .. NB_CHILDREN : v[Append(q, k - 1)] \in Seq(Quads)
      <4>1. ASSUME NEW k \in 1 .. NB_CHILDREN PROVE v[Append(q, k - 1)] \in Seq(Quads)
        <5>1. Append(q, k - 1) \in QuadsAt(LevelMax - (n - 1))
          BY <1>3, <3>1
        <5>2. QED
          BY <1>4, <2>2, <5>1 DEF PartsOf
      <4>2. QED
        BY <4>1
    <3>4. s \in Seq(Seq(Quads)) /\ Len(s) = NB_CHILDREN
      <4>1. s \in [1 .. NB_CHILDREN -> Seq(Quads)]
        BY <3>3
      <4> HIDE DEF s
      <4>2. QED
        BY <1>1, <4>1
    <3>5. \A k \in 1 .. NB_CHILDREN : s[k] \in good[all_children(q)[k]]
      BY <3>2
    <3>6. Cut(v, n, q) = FlattenSeq(s)
      BY <2>2
    <3> HIDE DEF s, Cut
    <3>7. FlattenSeq(s) \in good[q]
      BY <2>1, <2>2, <3>1, <3>4, <3>5 DEF KeptByCut
    <3>8. QED
      BY <3>6, <3>7
  <2>3. CASE ~ (n > 0 /\ q \in split)
    <3>1. level(q) = LevelMax \/ q \notin split
      BY <1>1, <2>1, <2>3
    <3>2. Cut(v, n, q) = <<q>>
      BY <2>3
    <3> HIDE DEF Cut
    <3>3. QED
      BY <2>1, <3>1, <3>2 DEF KeptByCut
  <2>4. QED
    BY <2>2, <2>3
<1>5. base \in sets[0]
  <2> DEFINE Q == QuadsAt(LevelMax)
  <2>1. 0 \in 0 .. LevelMax /\ LevelMax - 0 = LevelMax /\ LevelMax \in 0 .. LevelMax
    BY <1>1
  <2>2. ASSUME NEW q \in Q PROVE q \in Quads /\ level(q) = LevelMax
    <3>1. q \in Quads
      BY <1>2, <2>1
    <3>2. q \in [1 .. LevelMax -> ChildIds]
      BY DEF QuadsAt
    <3>3. QED
      BY <1>1, <3>1, <3>2 DEF level
  <2>3. \A q \in Q : base[q] \in good[q]
    BY <2>2 DEF KeptByCut
  <2>4. base = [q \in Q |-> base[q]]
    OBVIOUS
  <2>5. sets[0] = PartsOf(good, LevelMax)
    BY <2>1
  <2> HIDE DEF base, sets
  <2>6. base \in PartsOf(good, LevelMax)
    BY <2>1, <2>3, <2>4, PartsMade
  <2>7. QED
    BY <2>5, <2>6
<1>6. ASSUME NEW n \in 0 + 1 .. LevelMax, NEW v \in sets[n - 1]
      PROVE  /\ step[n][v] = [q \in QuadsAt(LevelMax - n) |-> Cut(v, n, q)]
             /\ step[n][v] \in sets[n]
  <2>1. n \in 0 .. LevelMax /\ n - 1 \in 0 .. LevelMax /\ n > 0
    BY <1>1
  <2>2. v \in PartsOf(good, LevelMax - (n - 1))
    BY <2>1
  <2>3. v \in UNION {sets[i] : i \in 0 .. LevelMax}
    BY <2>1
  <2>4. \A q \in QuadsAt(LevelMax - n) : Cut(v, n, q) \in good[q]
    <3> HIDE DEF Cut
    <3>1. QED
      BY <1>4, <2>1, <2>2
  <2>5. sets[n] = PartsOf(good, LevelMax - n)
    BY <2>1
  <2>6. step[n][v] = [q \in QuadsAt(LevelMax - n) |-> Cut(v, n, q)]
    <3> HIDE DEF Cut, sets
    <3>1. QED
      BY <2>1, <2>3
  <2> HIDE DEF Cut, sets, step
  <2>7. step[n][v] \in PartsOf(good, LevelMax - n)
    <3> DEFINE l == LevelMax - n
               w == step[n][v]
    <3>1. l \in 0 .. LevelMax
      BY <1>1, <2>1
    <3> HIDE DEF l, w
    <3>2. w = [q \in QuadsAt(l) |-> w[q]] /\ \A q \in QuadsAt(l) : w[q] \in good[q]
      BY <2>4, <2>6 DEF l, w
    <3>3. w \in PartsOf(good, l)
      BY <3>1, <3>2, PartsMade
    <3>4. QED
      BY <3>3 DEF l, w
  <2>8. QED
    BY <2>5, <2>6, <2>7
<1>7. PICK c : /\ c = [n \in 0 .. LevelMax |-> IF n = 0 THEN base ELSE step[n][c[n - 1]]]
               /\ \A n \in 0 .. LevelMax : c[n] \in sets[n]
  <2> HIDE DEF sets, base, step
  <2>1. \A n \in 0 + 1 .. LevelMax : \A v \in sets[n - 1] : step[n][v] \in sets[n]
    BY <1>6
  <2>2. HasChain(0, LevelMax, sets, base, step)
    BY <1>1, <1>5, <2>1, ChainExists
  <2>3. QED
    BY <2>2 DEF HasChain
<1>8. c = rule(c)
  <2>1. ASSUME NEW n \in 0 .. LevelMax
        PROVE  c[n] = [q \in QuadsAt(LevelMax - n) |-> Cut(c[n - 1], n, q)]
    <3>1. CASE n = 0
      <4>1. \A q : Cut(c[n - 1], n, q) = <<q>>
        BY <3>1
      <4>2. c[n] = base /\ LevelMax - n = LevelMax
        BY <1>1, <1>7, <3>1
      <4> HIDE DEF Cut
      <4>3. QED
        BY <4>1, <4>2
    <3>2. CASE n # 0
      <4>1. n \in 0 + 1 .. LevelMax /\ n - 1 \in 0 .. LevelMax
        BY <1>1, <3>2
      <4> HIDE DEF Cut, sets, step, base
      <4>2. c[n] = step[n][c[n - 1]] /\ c[n - 1] \in sets[n - 1]
        BY <1>7, <3>2, <4>1
      <4>3. QED
        BY <1>6, <4>1, <4>2
    <3>3. QED
      BY <3>1, <3>2
  <2>2. c = [n \in 0 .. LevelMax |-> c[n]]
    BY <1>7
  <2> HIDE DEF Cut
  <2>3. QED
    BY <2>1, <2>2
<1>9. Parts(split) = rule(Parts(split))
  <2>1. Parts(split) = CHOOSE g : g = rule(g)
    BY DEF Parts
  <2> HIDE DEF rule
  <2>2. QED
    BY <1>8, <2>1
<1> DEFINE Typed(n) == Parts(split)[n] \in PartsOf(good, LevelMax - n)
           P == {n \in Nat : n <= LevelMax => Typed(n)}
<1>10. ASSUME NEW n \in 0 .. LevelMax, n > 0 => Typed(n - 1) PROVE Typed(n)
  <2>1. n > 0 => Parts(split)[n - 1] \in PartsOf(good, LevelMax - (n - 1))
    BY <1>10
  <2>2. \A q \in QuadsAt(LevelMax - n) : Cut(Parts(split)[n - 1], n, q) \in good[q]
    <3> HIDE DEF Cut, Typed
    <3>1. QED
      BY <1>4, <2>1
  <2>3. Parts(split)[n] = [q \in QuadsAt(LevelMax - n) |-> Cut(Parts(split)[n - 1], n, q)]
    <3> HIDE DEF Cut, Typed
    <3>1. QED
      BY <1>9
  <2> DEFINE l == LevelMax - n
             w == Parts(split)[n]
  <2>4. l \in 0 .. LevelMax
    BY <1>1
  <2> HIDE DEF Cut, l, w
  <2>5. w = [q \in QuadsAt(l) |-> w[q]] /\ \A q \in QuadsAt(l) : w[q] \in good[q]
    BY <2>2, <2>3 DEF l, w
  <2>6. w \in PartsOf(good, l)
    BY <2>4, <2>5, PartsMade
  <2>7. QED
    BY <2>6 DEF l, w
<1> HIDE DEF Typed, Cut, rule, sets, base, step
<1>11. 0 \in P
  <2>1. 0 \in 0 .. LevelMax /\ ~ (0 > 0)
    BY <1>1
  <2>2. Typed(0)
    BY <1>10, <2>1
  <2>3. QED
    BY <2>2
<1>12. ASSUME NEW n \in Nat, n \in P PROVE n + 1 \in P
  <2>1. CASE n + 1 <= LevelMax
    <3>1. n + 1 \in 0 .. LevelMax /\ n + 1 - 1 = n /\ n <= LevelMax
      BY <1>1, <2>1
    <3>2. Typed(n + 1)
      BY <1>10, <1>12, <3>1
    <3>3. QED
      BY <3>2
  <2>2. CASE ~ (n + 1 <= LevelMax)
    BY <2>2
  <2>3. QED
    BY <2>1, <2>2
<1>13. \A n \in Nat : n \in P
  <2> HIDE DEF P
  <2>1. QED
    BY <1>11, <1>12, EveryNat
<1>14. \A n \in 0 .. LevelMax : Typed(n)
  BY <1>1, <1>13
<1>15. QED
  BY <1>14 DEF Typed, PartsOf

(* Pieces are such a kind.                                                  *)
LEMMA PiecesKept ==
  ASSUME NEW split
  PROVE  KeptByCut(split, [q \in Quads |-> Pieces(q)])
<1> DEFINE good == [q \in Quads |-> Pieces(q)]
<1>1. \A q \in Quads : good[q] \subseteq Seq(Quads) /\ <<q>> \in good[q]
  BY OnePiece DEF Pieces
<1>2. ASSUME NEW q \in Quads, level(q) < LevelMax, NEW s \in Seq(Seq(Quads)), Len(s) = NB_CHILDREN,
             \A k \in 1 .. NB_CHILDREN : s[k] \in good[all_children(q)[k]]
      PROVE  FlattenSeq(s) \in good[q]
  <2> DEFINE children == all_children(q)
  <2>1. /\ children \in Seq(Quads) /\ Len(children) = NB_CHILDREN /\ Separate(children)
        /\ \A k \in 1 .. NB_CHILDREN : IsPrefix(q, children[k])
    BY <1>2, ChildrenType, ChildrenApart
  <2>2. \A k \in 1 .. Len(children) : s[k] \in Pieces(children[k])
    <3>1. \A k \in 1 .. NB_CHILDREN : children[k] \in Quads
      BY <2>1
    <3> HIDE DEF children
    <3>2. QED
      BY <1>2, <2>1, <3>1 DEF children
  <2> HIDE DEF children
  <2>3. /\ FlattenSeq(s) \in Seq(Quads) /\ Separate(FlattenSeq(s))
        /\ \A k \in DOMAIN FlattenSeq(s) :
              \E i \in 1 .. Len(children) : IsPrefix(children[i], FlattenSeq(s)[k])
    BY <1>2, <2>1, <2>2, FlattenPieces
  <2>4. ASSUME NEW k \in DOMAIN FlattenSeq(s) PROVE IsPrefix(q, FlattenSeq(s)[k])
    <3>1. PICK i \in 1 .. NB_CHILDREN : IsPrefix(children[i], FlattenSeq(s)[k])
      BY <2>1, <2>3
    <3>2. children[i] \in Quads /\ FlattenSeq(s)[k] \in Quads /\ IsPrefix(q, children[i])
      BY <2>1, <2>3, <3>1
    <3>3. QED
      BY <3>1, <3>2, Containment
  <2>5. FlattenSeq(s) \in Pieces(q)
    BY <2>3, <2>4 DEF Pieces
  <2>6. QED
    BY <2>5
<1> HIDE DEF good
<1>3. KeptByCut(split, good)
  BY <1>1, <1>2 DEF KeptByCut
<1>4. QED
  BY <1>3 DEF good

(* What the balance makes of the leaves of a rank.                          *)
BalancedOf(f, r) ==
    [i \in DOMAIN f[r] |-> Parts(Split(Leaves(f)))[LevelMax - level(f[r][i])][f[r][i]]]

LEMMA BalancedIs ==
  ASSUME NEW f
  PROVE  Balanced(f) = [r \in Ranks |-> FlattenSeq(BalancedOf(f, r))]
<1> DEFINE split == Split(Leaves(f))
<1>1. split \in SUBSET Quads
  BY SplitType
<1> HIDE DEF split
<1>2. QED
  BY <1>1 DEF Balanced, BalancedOf, Parts, split

(* Leaf by leaf, it is of any kind the balance keeps.                       *)
LEMMA BalancedKept ==
  ASSUME NEW f \in [Ranks -> Seq(Quads)], NEW r \in Ranks,
         NEW good, KeptByCut(Split(Leaves(f)), good)
  PROVE  /\ BalancedOf(f, r) \in Seq(Seq(Quads)) /\ Len(BalancedOf(f, r)) = Len(f[r])
         /\ \A i \in 1 .. Len(f[r]) : BalancedOf(f, r)[i] \in good[f[r][i]]
<1> DEFINE parts == Parts(Split(Leaves(f)))
           pieces == BalancedOf(f, r)
<1>1. \A n \in 0 .. LevelMax : \A q \in QuadsAt(LevelMax - n) : parts[n][q] \in good[q]
  BY PartsKept
<1>2. pieces = [i \in DOMAIN f[r] |-> parts[LevelMax - level(f[r][i])][f[r][i]]]
  BY DEF BalancedOf
<1> HIDE DEF parts, pieces
<1>3. ASSUME NEW q \in Quads PROVE parts[LevelMax - level(q)][q] \in good[q]
  <2>1. PICK l \in 0 .. LevelMax : q \in QuadsAt(l)
    BY DEF Quads
  <2>2. LevelMax \in Nat /\ l \in Nat
    BY <2>1, QuadAssumption
  <2>3. level(q) = l
    BY <2>1, <2>2 DEF level, QuadsAt
  <2>4. LevelMax - l \in 0 .. LevelMax /\ LevelMax - (LevelMax - l) = l
    BY <2>2
  <2>5. QED
    BY <1>1, <2>1, <2>3, <2>4
<1>4. f[r] \in Seq(Quads)
  OBVIOUS
<1>5. Len(f[r]) \in Nat /\ DOMAIN f[r] = 1 .. Len(f[r]) /\ \A i \in DOMAIN f[r] : f[r][i] \in Quads
  BY <1>4
<1>6. \A i \in 1 .. Len(f[r]) : pieces[i] \in good[f[r][i]] /\ pieces[i] \in Seq(Quads)
  BY <1>2, <1>3, <1>5 DEF KeptByCut
<1>7. DOMAIN pieces = 1 .. Len(f[r]) /\ pieces = [i \in 1 .. Len(f[r]) |-> pieces[i]]
  BY <1>2, <1>5
<1>8. pieces \in [1 .. Len(f[r]) -> Seq(Quads)]
  BY <1>6, <1>7
<1>9. pieces \in Seq(Seq(Quads)) /\ Len(pieces) = Len(f[r])
  BY <1>5, <1>8
<1>10. QED
  BY <1>6, <1>9 DEF pieces

(* The balance makes quadrants of every rank, separate if its leaves were.  *)
LEMMA BalancedType ==
  ASSUME NEW f \in [Ranks -> Seq(Quads)]
  PROVE  /\ Balanced(f) \in [Ranks -> Seq(Quads)]
         /\ \A r \in Ranks : Separate(f[r]) => Separate(Balanced(f)[r])
<1> DEFINE good == [q \in Quads |-> Pieces(q)]
<1>1. KeptByCut(Split(Leaves(f)), good)
  BY PiecesKept
<1>2. ASSUME NEW r \in Ranks
      PROVE  /\ FlattenSeq(BalancedOf(f, r)) \in Seq(Quads)
             /\ Separate(f[r]) => Separate(FlattenSeq(BalancedOf(f, r)))
  <2> DEFINE pieces == BalancedOf(f, r)
  <2>1. f[r] \in Seq(Quads) /\ \A i \in 1 .. Len(f[r]) : f[r][i] \in Quads
    OBVIOUS
  <2> HIDE DEF good, pieces
  <2>2. /\ pieces \in Seq(Seq(Quads)) /\ Len(pieces) = Len(f[r])
        /\ \A i \in 1 .. Len(f[r]) : pieces[i] \in good[f[r][i]]
    BY <1>1, BalancedKept DEF pieces
  <2>3. \A i \in 1 .. Len(f[r]) : pieces[i] \in Pieces(f[r][i])
    BY <2>1, <2>2 DEF good
  <2>4. FlattenSeq(pieces) \in Seq(Quads)
    BY <2>2, FlattenType
  <2>5. ASSUME Separate(f[r]) PROVE Separate(FlattenSeq(pieces))
    BY <2>1, <2>2, <2>3, <2>5, FlattenPieces
  <2>6. QED
    BY <2>4, <2>5 DEF pieces
<1>3. QED
  BY <1>2, BalancedIs

----------------------------------------------------------------------------
(* What the steps do to the leaves and the flags of a rank                   *)

(* The leaves f with quads in the place of the n leaves after p.            *)
Replaced(f, p, n, quads) == SubSeq(f, 1, p) \o quads \o SubSeq(f, p + n + 1, Len(f))

(* The leaves after those that are replaced stay in order.                  *)
LEMMA Substituted ==
  ASSUME NEW f \in Seq(Quads), NEW p \in Nat, NEW n \in Nat, p + n <= Len(f),
         NEW quads \in Seq(Quads)
  PROVE  /\ Replaced(f, p, n, quads) \in Seq(Quads)
         /\ Len(Replaced(f, p, n, quads)) = Len(f) - n + Len(quads)
         /\ \A j \in 1 .. Len(f) - (p + n) :
               Replaced(f, p, n, quads)[p + Len(quads) + j] = f[p + n + j]
<1> DEFINE a == SubSeq(f, 1, p)
           b == a \o quads
           m == p + n
           c == SubSeq(f, m + 1, Len(f))
           g == Replaced(f, p, n, quads)
<1>1. Len(f) \in Nat /\ m \in Nat /\ m <= Len(f) /\ p <= Len(f)
  OBVIOUS
<1>2. a \in Seq(Quads) /\ Len(a) = p
  <2>1. 0 \in Nat /\ 0 <= p /\ 0 + 1 = 1 /\ p - 0 = p
    OBVIOUS
  <2>2. SubSeq(f, 0 + 1, p) \in Seq(Quads) /\ Len(SubSeq(f, 0 + 1, p)) = p - 0
    BY <1>1, <2>1, PartOfSeq
  <2>3. QED
    BY <2>1, <2>2
<1>3. g = b \o c
  BY DEF Replaced
<1> HIDE DEF a, m, g
<1>4. /\ c \in Seq(Quads) /\ Len(c) = Len(f) - m
      /\ \A j \in 1 .. Len(f) - m : c[j] = f[m + j]
  BY <1>1, PartOfSeq
<1>5. b \in Seq(Quads) /\ Len(b) = p + Len(quads)
  BY <1>2, Joined
<1> HIDE DEF b, c
<1>6. /\ g \in Seq(Quads)
      /\ Len(g) = Len(b) + Len(c)
      /\ \A j \in 1 .. Len(c) : g[Len(b) + j] = c[j]
  <2>1. b \in Seq(Quads) /\ c \in Seq(Quads)
    BY <1>4, <1>5
  <2>2. /\ b \o c \in Seq(Quads)
        /\ Len(b \o c) = Len(b) + Len(c)
        /\ \A j \in 1 .. Len(c) : (b \o c)[Len(b) + j] = c[j]
    BY <2>1, Joined, Zenon
  <2>3. QED
    BY <1>3, <2>2
<1>7. \A j \in 1 .. Len(f) - m : g[p + Len(quads) + j] = f[m + j]
  <2>1. TAKE j \in 1 .. Len(f) - m
  <2>2. g[Len(b) + j] = c[j] /\ c[j] = f[m + j]
    BY <1>4, <1>6
  <2>3. QED
    BY <1>5, <2>2
<1>8. Len(g) = Len(f) - n + Len(quads)
  <2>1. Len(g) = p + Len(quads) + (Len(f) - (p + n))
    BY <1>4, <1>5, <1>6 DEF m
  <2>2. Len(quads) \in Int /\ Len(f) \in Int /\ p \in Int /\ n \in Int
    OBVIOUS
  <2>3. QED
    BY <2>1, <2>2
<1>9. \A j \in 1 .. Len(f) - (p + n) : g[p + Len(quads) + j] = f[p + n + j]
  BY <1>7 DEF m
<1>10. QED
  BY <1>6, <1>8, <1>9 DEF g

(* The leaves before those that are replaced stay, the new ones follow.     *)
LEMMA ReplacedPlaces ==
  ASSUME NEW f \in Seq(Quads), NEW p \in Nat, NEW n \in Nat, p + n <= Len(f),
         NEW quads \in Seq(Quads)
  PROVE  /\ \A i \in 1 .. p : Replaced(f, p, n, quads)[i] = f[i]
         /\ \A k \in 1 .. Len(quads) : Replaced(f, p, n, quads)[p + k] = quads[k]
<1> DEFINE a == SubSeq(f, 1, p)
           b == a \o quads
           m == p + n
           c == SubSeq(f, m + 1, Len(f))
           g == Replaced(f, p, n, quads)
<1>1. Len(f) \in Nat /\ m \in Nat /\ m <= Len(f) /\ p <= Len(f) /\ Len(quads) \in Nat
  OBVIOUS
<1>2. a \in Seq(Quads) /\ Len(a) = p /\ \A i \in 1 .. p : a[i] = f[i]
  <2>1. 0 \in Nat /\ 0 <= p /\ 0 + 1 = 1 /\ p - 0 = p /\ \A i \in Int : 0 + i = i
    OBVIOUS
  <2>2. /\ SubSeq(f, 0 + 1, p) \in Seq(Quads) /\ Len(SubSeq(f, 0 + 1, p)) = p - 0
        /\ \A i \in 1 .. p - 0 : SubSeq(f, 0 + 1, p)[i] = f[0 + i]
    BY <1>1, <2>1, PartOfSeq
  <2>3. QED
    BY <2>1, <2>2
<1>3. g = b \o c
  BY DEF Replaced
<1>4. c \in Seq(Quads)
  <2> HIDE DEF m
  <2>1. QED
    BY <1>1, PartOfSeq
<1> HIDE DEF a, m, g, c
<1>5. /\ b \in Seq(Quads) /\ Len(b) = p + Len(quads)
      /\ \A k \in 1 .. Len(quads) : b[p + k] = quads[k]
  <2>1. a \in Seq(Quads) /\ quads \in Seq(Quads)
    BY <1>2
  <2>2. /\ a \o quads \in Seq(Quads) /\ Len(a \o quads) = Len(a) + Len(quads)
        /\ \A k \in 1 .. Len(quads) : (a \o quads)[Len(a) + k] = quads[k]
    BY <2>1, Joined, Zenon
  <2>3. QED
    BY <1>2, <2>2
<1>6. \A i \in 1 .. p : b[i] = f[i]
  BY <1>2, JoinedFirst
<1> HIDE DEF b
<1>7. \A i \in 1 .. Len(b) : g[i] = b[i]
  BY <1>3, <1>4, <1>5, JoinedFirst
<1>8. \A i \in 1 .. p : g[i] = f[i]
  BY <1>1, <1>5, <1>6, <1>7
<1>9. ASSUME NEW k \in 1 .. Len(quads) PROVE g[p + k] = quads[k]
  <2>1. p + k \in 1 .. Len(b)
    BY <1>1, <1>5
  <2>2. QED
    BY <1>5, <1>7, <2>1
<1>10. QED
  BY <1>8, <1>9 DEF g

(* Both at once: what stands where after a replacement.                     *)
ReplacedAt(f, p, n, quads) ==
    LET g == Replaced(f, p, n, quads)
    IN  /\ g \in Seq(Quads)
        /\ Len(g) = Len(f) - n + Len(quads)
        /\ \A i \in 1 .. p : g[i] = f[i]
        /\ \A k \in 1 .. Len(quads) : g[p + k] = quads[k]
        /\ \A j \in 1 .. Len(f) - (p + n) : g[p + Len(quads) + j] = f[p + n + j]

(* What the entries of the new sequence are: before, in, after the part.    *)
LEMMA ReplacedIs ==
  ASSUME NEW f \in Seq(Quads), NEW p \in Nat, NEW n \in Nat, p + n <= Len(f),
         NEW quads \in Seq(Quads)
  PROVE  ReplacedAt(f, p, n, quads)
<1>1. /\ Replaced(f, p, n, quads) \in Seq(Quads)
      /\ Len(Replaced(f, p, n, quads)) = Len(f) - n + Len(quads)
      /\ \A j \in 1 .. Len(f) - (p + n) :
            Replaced(f, p, n, quads)[p + Len(quads) + j] = f[p + n + j]
  BY Substituted, ZenonT(60)
<1>2. /\ \A i \in 1 .. p : Replaced(f, p, n, quads)[i] = f[i]
      /\ \A k \in 1 .. Len(quads) : Replaced(f, p, n, quads)[p + k] = quads[k]
  BY ReplacedPlaces, ZenonT(60)
<1>3. QED
  BY <1>1, <1>2, Zenon DEF ReplacedAt

(* Leaves replaced by quadrants that overlap no other leaf stay separate.   *)
LEMMA ReplacedApart ==
  ASSUME NEW f \in Seq(Quads), NEW p \in Nat, NEW n \in Nat, p + n <= Len(f),
         NEW quads \in Seq(Quads), Separate(f), Separate(quads),
         \A k \in DOMAIN quads : \A j \in DOMAIN f :
            j \notin p + 1 .. p + n => ~ Overlap(quads[k], f[j])
  PROVE  Separate(Replaced(f, p, n, quads))
<1> DEFINE g == Replaced(f, p, n, quads)
           m == Len(quads)
<1>1. Len(f) \in Nat /\ m \in Nat /\ DOMAIN f = 1 .. Len(f) /\ DOMAIN quads = 1 .. m
  OBVIOUS
<1>0. ReplacedAt(f, p, n, quads)
  BY ReplacedIs
<1>2. /\ g \in Seq(Quads) /\ Len(g) = Len(f) - n + m
      /\ \A j \in 1 .. Len(f) - (p + n) : g[p + m + j] = f[p + n + j]
  BY <1>0 DEF ReplacedAt
<1>3. /\ \A i \in 1 .. p : g[i] = f[i]
      /\ \A k \in 1 .. m : g[p + k] = quads[k]
  BY <1>0 DEF ReplacedAt
<1> HIDE DEF g, m
<1>4. DOMAIN g = 1 .. Len(f) - n + m
  BY <1>1, <1>2
<1> DEFINE New(i) == i \in p + 1 .. p + m
           old(i) == IF i <= p THEN i ELSE i - m + n
<1>5. ASSUME NEW i \in DOMAIN g, New(i) PROVE i - p \in DOMAIN quads /\ g[i] = quads[i - p]
  <2>1. i - p \in 1 .. m /\ p + (i - p) = i
    BY <1>1, <1>4, <1>5
  <2> DEFINE k == i - p
  <2>2. g[p + k] = quads[k]
    BY <1>3, <2>1
  <2>3. QED
    BY <1>1, <2>1, <2>2
<1>6. ASSUME NEW i \in DOMAIN g, ~ New(i)
      PROVE  old(i) \in DOMAIN f /\ old(i) \notin p + 1 .. p + n /\ g[i] = f[old(i)]
  <2>1. CASE i <= p
    <3>1. i \in 1 .. p
      BY <1>1, <1>4, <2>1
    <3>2. QED
      BY <1>1, <1>3, <2>1, <3>1
  <2>2. CASE ~ (i <= p)
    <3> DEFINE j == i - (p + m)
    <3> DEFINE k == Len(f)
    <3>1. j \in 1 .. Len(f) - (p + n) /\ p + m + j = i /\ p + n + j = i - m + n
      <4>1. k \in Nat /\ m \in Nat /\ i \in 1 .. k - n + m /\ i > p /\ ~ (i <= p + m)
        BY <1>1, <1>4, <1>6, <2>2
      <4> HIDE DEF k
      <4>2. QED
        BY <4>1 DEF k
    <3>2. g[p + m + j] = f[p + n + j]
      BY <1>2, <3>1
    <3>3. g[i] = f[i - m + n]
      BY <3>1, <3>2
    <3>4. i - m + n \in DOMAIN f /\ i - m + n \notin p + 1 .. p + n
      BY <1>1, <3>1
    <3>5. QED
      BY <2>2, <3>3, <3>4
  <2>3. QED
    BY <2>1, <2>2
<1>7. ASSUME NEW i \in DOMAIN g, ~ New(i), NEW j \in DOMAIN g, ~ New(j), i # j
      PROVE  old(i) # old(j)
  <2> DEFINE k == Len(f) - n + m
  <2>1. i \in 1 .. k /\ j \in 1 .. k /\ m \in Nat /\ k \in Int
    BY <1>1, <1>4
  <2> HIDE DEF k
  <2>2. i \in Nat /\ j \in Nat /\ (i <= p \/ i > p + m) /\ (j <= p \/ j > p + m)
    BY <1>7, <2>1
  <2>3. QED
    BY <1>7, <2>1, <2>2
<1> HIDE DEF New, old
<1>8. ASSUME NEW i \in DOMAIN g, NEW j \in DOMAIN g, i # j PROVE ~ Overlap(g[i], g[j])
  <2>1. CASE New(i) /\ New(j)
    <3>1. i - p # j - p
      BY <1>1, <1>4, <1>8
    <3>2. QED
      BY <1>5, <2>1, <3>1 DEF Separate
  <2>2. CASE New(i) /\ ~ New(j)
    BY <1>5, <1>6, <2>2
  <2>3. CASE ~ New(i) /\ New(j)
    BY <1>5, <1>6, <2>3 DEF Overlap
  <2>4. CASE ~ New(i) /\ ~ New(j)
    BY <1>6, <1>7, <1>8, <2>4 DEF Separate
  <2>5. QED
    BY <2>1, <2>2, <2>3, <2>4
<1>9. QED
  BY <1>8 DEF Separate, g
(* How many flags ask for a refinement.                                     *)
LEMMA RefineCount ==
  ASSUME NEW flags \in Seq(Flags)
  PROVE  /\ NumRefine(flags) \in Nat
         /\ NumRefine(flags) <= Len(flags)
         /\ (\A i \in DOMAIN flags : flags[i] = DO_NOTHING) => NumRefine(flags) = 0
<1> DEFINE S == {i \in DOMAIN flags : flags[i] = DO_REFINE}
<1>1. Len(flags) \in Nat /\ DOMAIN flags = 1 .. Len(flags)
  OBVIOUS
<1>2. IsFiniteSet(1 .. Len(flags)) /\ Cardinality(1 .. Len(flags)) = Len(flags)
  <2> DEFINE k == Len(flags)
  <2>1. k \in Nat
    BY <1>1
  <2> HIDE DEF k
  <2>2. IsFiniteSet(1 .. k) /\ Cardinality(1 .. k) = IF 1 > k THEN 0 ELSE k - 1 + 1
    BY <2>1, FS_Interval
  <2>3. Cardinality(1 .. k) = k
    BY <2>1, <2>2
  <2>4. QED
    BY <2>2, <2>3 DEF k
<1>3. S \subseteq 1 .. Len(flags) /\ NumRefine(flags) = Cardinality(S)
  BY <1>1 DEF NumRefine
<1>4. Cardinality(S) \in Nat /\ Cardinality(S) <= Len(flags)
  <2> DEFINE k == Len(flags)
  <2>1. IsFiniteSet(1 .. k) /\ Cardinality(1 .. k) = k /\ S \subseteq 1 .. k
    BY <1>2, <1>3
  <2> HIDE DEF S, k
  <2>2. IsFiniteSet(S) /\ Cardinality(S) <= Cardinality(1 .. k)
    BY <2>1, FS_Subset
  <2>3. QED
    BY <2>1, <2>2, FS_CardinalityType DEF k
<1>5. ASSUME \A i \in DOMAIN flags : flags[i] = DO_NOTHING PROVE Cardinality(S) = 0
  <2>1. S = {}
    BY <1>5 DEF DO_NOTHING, DO_REFINE
  <2>2. QED
    BY <2>1, FS_EmptySet
<1>6. QED
  BY <1>3, <1>4, <1>5

(* The size of tmp_flags.                                                   *)
LEMMA TmpSizeType ==
  ASSUME NEW flags \in Seq(Flags)
  PROVE  TmpSize(flags) \in Nat /\ Len(flags) <= TmpSize(flags)
<1> DEFINE n == NumRefine(flags)
           m == NB_CHILDREN - 1
<1>1. n \in Nat /\ Len(flags) \in Nat /\ m \in {3, 7}
  BY RefineCount, ChildrenCount
<1>2. TmpSize(flags) = Len(flags) + m * n
  BY DEF TmpSize
<1> HIDE DEF m, n
<1>3. m * n \in Nat
  BY <1>1
<1>4. QED
  BY <1>1, <1>2, <1>3

(* Clearing a flag.                                                         *)
LEMMA ClearFlag ==
  ASSUME NEW flags \in Seq(Flags), NEW i \in DOMAIN flags,
         NEW new, new = [flags EXCEPT ![i] = DO_NOTHING]
  PROVE  /\ new \in Seq(Flags) /\ Len(new) = Len(flags)
         /\ flags[i] # DO_REFINE => NumRefine(new) = NumRefine(flags)
         /\ flags[i] = DO_REFINE => NumRefine(new) + 1 = NumRefine(flags)
<1> DEFINE S == {j \in DOMAIN flags : flags[j] = DO_REFINE}
           T == {j \in DOMAIN new : new[j] = DO_REFINE}
<1>1. DO_NOTHING \in Flags /\ DO_NOTHING # DO_REFINE
  BY DEF Flags, DO_NOTHING, DO_REFINE
<1>2. new \in Seq(Flags) /\ Len(new) = Len(flags) /\ DOMAIN new = DOMAIN flags
  BY <1>1, ExceptSeq
<1>3. new[i] = DO_NOTHING /\ \A j \in DOMAIN flags : j # i => new[j] = flags[j]
  OBVIOUS
<1>4. T = S \ {i}
  BY <1>1, <1>2, <1>3
<1>5. IsFiniteSet(DOMAIN flags)
  <2>1. DOMAIN flags = 1 .. Len(flags) /\ Len(flags) \in Int
    OBVIOUS
  <2>2. QED
    BY <2>1, FS_Interval
<1>6. IsFiniteSet(S) /\ NumRefine(flags) = Cardinality(S) /\ NumRefine(new) = Cardinality(T)
  BY <1>5, FS_Subset DEF NumRefine
<1>7. flags[i] # DO_REFINE => S \ {i} = S
  OBVIOUS
<1>8. ASSUME flags[i] = DO_REFINE PROVE Cardinality(S \ {i}) + 1 = Cardinality(S)
  <2>1. i \in S
    BY <1>8
  <2> HIDE DEF S
  <2>2. Cardinality(S \ {i}) = Cardinality(S) - 1 /\ Cardinality(S) \in Nat
    BY <1>6, <2>1, FS_RemoveElement, FS_CardinalityType
  <2>3. QED
    BY <2>2
<1> HIDE DEF S, T
<1>9. QED
  BY <1>2, <1>4, <1>6, <1>7, <1>8

----------------------------------------------------------------------------
(* The first cycle starts from the segments of a mesh.                      *)
LEMMA PassInit == Init => PassInv
<1> SUFFICES ASSUME Init PROVE PassInv
  OBVIOUS
<1>1. forest \in [Ranks -> Seq(Quads)]
  <2>1. PICK m \in Meshes : forest \in Cuts(m)
    BY DEF Init
  <2>2. m \in Seq(Quads) /\ NumRanks \in Nat
    BY AdaptAssumption
  <2>3. PICK c \in [0 .. NumRanks -> 0 .. Len(m)] :
            /\ \A r \in Ranks : c[r] <= c[r + 1]
            /\ forest = [r \in Ranks |-> SubSeq(m, c[r] + 1, c[r + 1])]
    BY <2>1 DEF Cuts
  <2>4. ASSUME NEW r \in Ranks PROVE SubSeq(m, c[r] + 1, c[r + 1]) \in Seq(Quads)
    <3>1. r \in 0 .. NumRanks /\ r + 1 \in 0 .. NumRanks
      BY <2>2 DEF Ranks
    <3>2. c[r] \in Nat /\ c[r + 1] \in Nat /\ c[r] <= c[r + 1] /\ c[r + 1] <= Len(m)
      BY <2>2, <2>3, <3>1
    <3>3. QED
      BY <2>2, <3>2, PartOfSeq
  <2>5. QED
    BY <2>3, <2>4
<1>2. ghost \in [Ranks -> Seq(Quads)]
  BY <1>1, GhostType DEF Init
<1>3. global_num_quadrants \in Nat
  BY <1>1, CountType DEF Init
<1>4. data \in [Ranks -> Seq(SUBSET Quads)]
  <2>1. ASSUME NEW r \in Ranks
        PROVE  [i \in DOMAIN forest[r] |-> {forest[r][i]}] \in Seq(SUBSET Quads)
    <3>1. forest[r] \in Seq(Quads)
      BY <1>1
    <3>2. QED
      BY <3>1
  <2>2. QED
    BY <2>1 DEF Init
<1>5. TypeOK
  <2>1. /\ amrflags_d \in [Ranks -> Seq(Flags)] /\ amrflags_h \in [Ranks -> Seq(Flags)]
        /\ old_keys \in [Ranks -> Seq(Quads)]
    BY DEF Init
  <2>2. DOMAIN tmp_flags = Ranks /\ \A r \in Ranks : tmp_flags[r] \in [DOMAIN tmp_flags[r] -> Flags]
    <3>1. <<>> \in [DOMAIN <<>> -> Flags]
      OBVIOUS
    <3>2. QED
      BY <3>1 DEF Init
  <2>3. cycles \in 0 .. MaxCycles
    BY AdaptAssumption DEF Init
  <2>4. /\ pc \in [Ranks -> {"flags", "refine", "coarsen", "balance", "rebuild", "remap"}]
        /\ pos \in [Ranks -> Nat] /\ inside_counter \in [Ranks -> Nat]
        /\ num_replaced \in [Ranks -> Nat] /\ mesh_changed \in [Ranks -> BOOLEAN]
    BY DEF Init
  <2>5. QED
    BY <1>1, <1>2, <1>3, <1>4, <2>1, <2>2, <2>3, <2>4 DEF TypeOK
<1>6. \A r \in Ranks : Pass(r)
  BY DEF Init, Pass
<1>7. QED
  BY <1>5, <1>6 DEF PassInv

----------------------------------------------------------------------------
(* The steps of one rank                                                    *)

(* What a rank has in a pass.                                               *)
Mine(r) == <<pc[r], forest[r], pos[r], amrflags_d[r], amrflags_h[r], tmp_flags[r],
             inside_counter[r], num_replaced[r], old_keys[r]>>

(* A rank whose pass does not move keeps what is true of it.                *)
LEMMA StayPut ==
  ASSUME NEW r, Pass(r), Mine(r)' = Mine(r), cycles' = cycles
  PROVE  Pass(r)'
BY DEF Mine, Pass, Refining, Coarsening, Ahead, TmpIndex

(* A step of a rank does not touch the others.                              *)
LEMMA OthersStay ==
  ASSUME TypeOK, NEW s \in Ranks, Step(s), NEW r \in Ranks, r # s
  PROVE  Mine(r)' = Mine(r) /\ cycles' = cycles
<1> USE DEF Mine, TypeOK
<1>1. CASE ComputeFlags(s)
  <2>1. PICK flags :
            /\ amrflags_d' = [amrflags_d EXCEPT ![s] = flags]
            /\ amrflags_h' = [amrflags_h EXCEPT ![s] = flags]
            /\ tmp_flags' = [tmp_flags EXCEPT ![s] = [i \in 0 .. TmpSize(flags) - 1 |-> DO_REFINE]]
    BY <1>1 DEF ComputeFlags
  <2>2. /\ pc'[r] = pc[r] /\ forest'[r] = forest[r] /\ pos'[r] = pos[r]
        /\ inside_counter'[r] = inside_counter[r] /\ num_replaced'[r] = num_replaced[r]
        /\ old_keys'[r] = old_keys[r] /\ cycles' = cycles
    BY <1>1 DEF ComputeFlags
  <2>3. QED
    BY <2>1, <2>2
<1>2. CASE KeepLeaf(s)
  BY <1>2 DEF KeepLeaf, Substitute, SetTmp
<1>3. CASE RefineLeaf(s)
  BY <1>3 DEF RefineLeaf, Substitute, SetTmp
<1>4. CASE SkipLeaf(s)
  BY <1>4 DEF SkipLeaf, Substitute
<1>5. CASE CoarsenFamily(s)
  BY <1>5 DEF CoarsenFamily, Substitute
<1>6. CASE Remap(s)
  BY <1>6 DEF Remap
<1>7. QED
  BY <1>1, <1>2, <1>3, <1>4, <1>5, <1>6 DEF Step

(* The cycle of a rank starts.                                              *)
LEMMA ComputeFlagsPass ==
  ASSUME PassInv, NEW s \in Ranks, ComputeFlags(s)
  PROVE  TypeOK' /\ Pass(s)'
<1>1. TypeOK /\ forest[s] \in Seq(Quads)
  BY DEF PassInv, TypeOK
<1>2. PICK flags \in [DOMAIN forest[s] -> UNION {FlagsAllowed(q) : q \in ToSet(forest[s])}] :
          /\ \A i \in DOMAIN flags : flags[i] \in FlagsAllowed(forest[s][i])
          /\ amrflags_d' = [amrflags_d EXCEPT ![s] = flags]
          /\ amrflags_h' = [amrflags_h EXCEPT ![s] = flags]
          /\ tmp_flags' = [tmp_flags EXCEPT ![s] = [i \in 0 .. TmpSize(flags) - 1 |-> DO_REFINE]]
  BY DEF ComputeFlags
<1>3. \A q : FlagsAllowed(q) \subseteq Flags
  BY DEF FlagsAllowed, Flags
<1>4. flags \in Seq(Flags) /\ Len(flags) = Len(forest[s])
  <2>1. Len(forest[s]) \in Nat /\ DOMAIN forest[s] = 1 .. Len(forest[s])
    BY <1>1
  <2>2. flags \in [1 .. Len(forest[s]) -> Flags]
    BY <1>3, <2>1
  <2>3. QED
    BY <2>1, <2>2
<1>5. TypeOK'
  <2>1. amrflags_d' \in [Ranks -> Seq(Flags)] /\ amrflags_h' \in [Ranks -> Seq(Flags)]
    BY <1>1, <1>2, <1>4 DEF TypeOK
  <2>2. /\ DOMAIN tmp_flags' = Ranks
        /\ \A r \in Ranks : tmp_flags'[r] \in [DOMAIN tmp_flags'[r] -> Flags]
    BY <1>1, <1>2 DEF TypeOK, Flags
  <2>3. old_keys' \in [Ranks -> Seq(Quads)]
    <3>1. CloneKeys(s) \in Seq(Quads)
      BY <1>1 DEF CloneKeys, TypeOK
    <3>2. QED
      BY <1>1, <3>1 DEF ComputeFlags, TypeOK
  <2>4. data' \in [Ranks -> Seq(SUBSET Quads)]
    <3>1. [i \in DOMAIN forest[s] |-> {forest[s][i]}] \in Seq(SUBSET Quads)
      BY <1>1
    <3>2. QED
      BY <1>1, <3>1 DEF ComputeFlags, TypeOK
  <2>5. /\ pc' \in [Ranks -> {"flags", "refine", "coarsen", "balance", "rebuild", "remap"}]
        /\ pos' \in [Ranks -> Nat] /\ inside_counter' \in [Ranks -> Nat]
        /\ num_replaced' \in [Ranks -> Nat]
    BY <1>1 DEF ComputeFlags, TypeOK
  <2>6. QED
    BY <1>1, <2>1, <2>2, <2>3, <2>4, <2>5 DEF ComputeFlags, TypeOK
<1>6. /\ pc'[s] = "refine" /\ forest' = forest /\ pos'[s] = 0 /\ inside_counter'[s] = 0
      /\ num_replaced'[s] = 0 /\ cycles' = cycles /\ cycles < MaxCycles
      /\ amrflags_d'[s] = flags /\ amrflags_h'[s] = flags
      /\ tmp_flags'[s] = [i \in 0 .. TmpSize(flags) - 1 |-> DO_REFINE]
  BY <1>1, <1>2 DEF ComputeFlags, Again, TypeOK
<1>7. Refining(s)'
  <2>1. Ahead(s)' = Len(flags) /\ Len(flags) \in Nat
    BY <1>1, <1>4, <1>6 DEF Ahead
  <2>2. pos'[s] = TmpIndex(s)'
    BY <1>6, ChildrenCount DEF TmpIndex
  <2>3. num_replaced'[s] + NumRefine(amrflags_h'[s]) = NumRefine(amrflags_d'[s])
    BY <1>4, <1>6, RefineCount
  <2>4. ASSUME NEW j \in 1 .. Len(flags)
        PROVE  amrflags_h'[s][inside_counter'[s] + j] \in FlagsAllowed(forest'[s][pos'[s] + j])
    BY <1>2, <1>4, <1>6, <2>1
  <2>5. inside_counter'[s] + Ahead(s)' = Len(amrflags_h'[s])
    BY <1>6, <2>1
  <2>6. \A i \in DOMAIN tmp_flags'[s] : (tmp_flags'[s][i] = DO_REFINE) <=> i >= pos'[s]
    BY <1>6
  <2>7. DOMAIN tmp_flags'[s] = 0 .. TmpSize(amrflags_d'[s]) - 1
    BY <1>6
  <2>8. \A i \in 1 .. inside_counter'[s] : amrflags_h'[s][i] = DO_NOTHING
    BY <1>6
  <2>9. QED
    BY <1>6, <2>1, <2>2, <2>3, <2>4, <2>5, <2>6, <2>7, <2>8 DEF Refining
<1>8. QED
  BY <1>5, <1>6, <1>7 DEF Pass

(* The leaf the refinement looks at has its flag right after those that     *)
(* have been used.                                                          *)
LEMMA FlagAhead ==
  ASSUME PassInv, NEW s \in Ranks, pc[s] = "refine", pos[s] < Len(forest[s])
  PROVE  /\ Refining(s)
         /\ forest[s] \in Seq(Quads) /\ pos[s] \in Nat /\ pos[s] + 1 <= Len(forest[s])
         /\ amrflags_h[s] \in Seq(Flags) /\ amrflags_d[s] \in Seq(Flags)
         /\ inside_counter[s] \in Nat /\ num_replaced[s] \in Nat
         /\ Ahead(s) \in Nat /\ Ahead(s) >= 1
         /\ inside_counter[s] + 1 \in DOMAIN amrflags_h[s]
         /\ Current(s) \in Quads
         /\ amrflags_h[s][inside_counter[s] + 1] \in FlagsAllowed(Current(s))
<1>1. Refining(s)
  BY DEF PassInv, Pass
<1>2. /\ forest[s] \in Seq(Quads) /\ pos[s] \in Nat
      /\ amrflags_h[s] \in Seq(Flags) /\ amrflags_d[s] \in Seq(Flags)
      /\ inside_counter[s] \in Nat /\ num_replaced[s] \in Nat
  BY DEF PassInv, TypeOK
<1>3. Len(forest[s]) \in Nat /\ pos[s] + 1 <= Len(forest[s])
  BY <1>2
<1>4. Ahead(s) \in Nat /\ Ahead(s) >= 1
  BY <1>2, <1>3 DEF Ahead
<1>5. inside_counter[s] + Ahead(s) = Len(amrflags_h[s])
  BY <1>1 DEF Refining
<1>6. inside_counter[s] + 1 \in DOMAIN amrflags_h[s]
  BY <1>2, <1>4, <1>5
<1>7. Current(s) \in Quads
  BY <1>2, <1>3 DEF Current
<1>8. amrflags_h[s][inside_counter[s] + 1] \in FlagsAllowed(Current(s))
  <2>1. 1 \in 1 .. Ahead(s)
    BY <1>4
  <2>2. QED
    BY <1>1, <2>1 DEF Refining, Current
<1>9. QED
  BY <1>1, <1>2, <1>3, <1>4, <1>6, <1>7, <1>8

(* The refinement has gone past a leaf of rank s and left quads in its      *)
(* place.                                                                   *)
GonePast(s, quads) ==
    /\ forest' = [forest EXCEPT ![s] = Replaced(forest[s], pos[s], 1, quads)]
    /\ pos' = [pos EXCEPT ![s] = pos[s] + Len(quads)]
    /\ amrflags_h' = [amrflags_h EXCEPT ![s] =
                         [amrflags_h[s] EXCEPT ![inside_counter[s] + 1] = DO_NOTHING]]
    /\ inside_counter' = [inside_counter EXCEPT ![s] = inside_counter[s] + 1]
    /\ amrflags_d' = amrflags_d

(* The flags ahead are still those of the leaves ahead.                     *)
LEMMA GonePastAligned ==
  ASSUME PassInv, NEW s \in Ranks, pc[s] = "refine", pos[s] < Len(forest[s]),
         NEW quads \in Seq(Quads), GonePast(s, quads)
  PROVE  /\ Ahead(s)' \in Nat
         /\ Len(amrflags_h'[s]) = Len(amrflags_d'[s])
         /\ inside_counter'[s] + Ahead(s)' = Len(amrflags_h'[s])
         /\ \A i \in 1 .. inside_counter'[s] : amrflags_h'[s][i] = DO_NOTHING
         /\ \A j \in 1 .. Ahead(s)' :
               amrflags_h'[s][inside_counter'[s] + j] \in FlagsAllowed(forest'[s][pos'[s] + j])
         /\ forest'[s] \in Seq(Quads) /\ amrflags_h'[s] \in Seq(Flags)
         /\ pos'[s] = pos[s] + Len(quads)
         /\ inside_counter'[s] = inside_counter[s] + 1
<1> DEFINE f == forest[s]
           p == pos[s]
           c == inside_counter[s]
           h == amrflags_h[s]
           new == [h EXCEPT ![c + 1] = DO_NOTHING]
           g == Replaced(f, p, 1, quads)
<1>1. /\ f \in Seq(Quads) /\ p \in Nat /\ p + 1 <= Len(f) /\ c \in Nat
      /\ h \in Seq(Flags) /\ c + 1 \in DOMAIN h
      /\ Len(h) = Len(amrflags_d[s])
      /\ c + (Len(f) - p) = Len(h)
      /\ \A i \in 1 .. c : h[i] = DO_NOTHING
      /\ \A j \in 1 .. Len(f) - p : h[c + j] \in FlagsAllowed(f[p + j])
  BY FlagAhead DEF Refining, Ahead
<1>2. forest'[s] = g /\ pos'[s] = p + Len(quads) /\ amrflags_h'[s] = new
      /\ inside_counter'[s] = c + 1 /\ amrflags_d'[s] = amrflags_d[s]
  BY DEF PassInv, TypeOK, GonePast
<1>3. Ahead(s)' = Len(g) - (p + Len(quads))
  BY <1>2 DEF Ahead
<1>4. new \in Seq(Flags) /\ Len(new) = Len(h) /\ new[c + 1] = DO_NOTHING
      /\ \A i \in DOMAIN h : i # c + 1 => new[i] = h[i]
  <2> HIDE DEF f, p, c, h, g
  <2>1. new \in Seq(Flags) /\ Len(new) = Len(h)
    BY <1>1, ClearFlag
  <2>2. QED
    BY <1>1, <2>1
<1> HIDE DEF f, p, c, h, g, new
<1>5. /\ g \in Seq(Quads)
      /\ Len(g) = Len(f) - 1 + Len(quads)
      /\ \A j \in 1 .. Len(f) - (p + 1) : g[p + Len(quads) + j] = f[p + 1 + j]
  <2>1. 1 \in Nat /\ f \in Seq(Quads) /\ p \in Nat /\ p + 1 <= Len(f)
    BY <1>1
  <2>2. QED
    <3>1. ReplacedAt(f, p, 1, quads)
      BY <2>1, ReplacedIs
    <3>2. QED
      BY <3>1 DEF ReplacedAt, g
<1>6. Len(quads) \in Nat /\ Len(f) \in Nat /\ Len(h) \in Nat /\ DOMAIN h = 1 .. Len(h)
  BY <1>1
<1>7. Ahead(s)' = Len(f) - (p + 1) /\ Ahead(s)' \in Nat
  BY <1>1, <1>3, <1>5, <1>6
<1>8. inside_counter'[s] + Ahead(s)' = Len(amrflags_h'[s])
  BY <1>1, <1>2, <1>4, <1>6, <1>7
<1>9. ASSUME NEW i \in 1 .. c + 1 PROVE new[i] = DO_NOTHING
  <2>1. CASE i = c + 1
    BY <1>4, <2>1
  <2>2. CASE i # c + 1
    <3>1. i \in 1 .. c /\ i \in DOMAIN h
      BY <1>1, <1>6, <2>2
    <3>2. QED
      BY <1>1, <1>4, <2>2, <3>1
  <2>3. QED
    BY <2>1, <2>2
<1>10. ASSUME NEW j \in 1 .. Len(f) - (p + 1)
       PROVE  new[c + 1 + j] \in FlagsAllowed(g[p + Len(quads) + j])
  <2>1. j + 1 \in 1 .. Len(f) - p /\ c + 1 + j = c + (j + 1) /\ p + 1 + j = p + (j + 1)
        /\ c + 1 + j \in DOMAIN h /\ c + 1 + j # c + 1
    BY <1>1, <1>6
  <2>2. new[c + 1 + j] = h[c + (j + 1)] /\ g[p + Len(quads) + j] = f[p + (j + 1)]
    BY <1>4, <1>5, <2>1
  <2>3. h[c + (j + 1)] \in FlagsAllowed(f[p + (j + 1)])
    BY <1>1, <2>1
  <2>4. QED
    BY <2>2, <2>3
<1>11. \A j \in 1 .. Ahead(s)' :
          amrflags_h'[s][inside_counter'[s] + j] \in FlagsAllowed(forest'[s][pos'[s] + j])
  BY <1>2, <1>7, <1>10
<1>12. \A i \in 1 .. inside_counter'[s] : amrflags_h'[s][i] = DO_NOTHING
  BY <1>2, <1>9
<1>13. /\ Len(amrflags_h'[s]) = Len(amrflags_d'[s])
       /\ forest'[s] \in Seq(Quads) /\ amrflags_h'[s] \in Seq(Flags)
  BY <1>1, <1>2, <1>4, <1>5
<1>14. pos'[s] = pos[s] + Len(quads) /\ inside_counter'[s] = inside_counter[s] + 1
  BY <1>2 DEF p, c
<1>15. QED
  BY <1>7, <1>8, <1>11, <1>12, <1>13, <1>14

(* The variables it touches keep their shape.                               *)
LEMMA GonePastType ==
  ASSUME PassInv, NEW s \in Ranks, pc[s] = "refine", pos[s] < Len(forest[s]),
         NEW quads \in Seq(Quads), GonePast(s, quads)
  PROVE  /\ forest' \in [Ranks -> Seq(Quads)] /\ amrflags_h' \in [Ranks -> Seq(Flags)]
         /\ pos' \in [Ranks -> Nat] /\ inside_counter' \in [Ranks -> Nat]
<1>1. /\ forest \in [Ranks -> Seq(Quads)] /\ amrflags_h \in [Ranks -> Seq(Flags)]
      /\ pos \in [Ranks -> Nat] /\ inside_counter \in [Ranks -> Nat]
  BY DEF PassInv, TypeOK
<1>2. forest'[s] \in Seq(Quads) /\ amrflags_h'[s] \in Seq(Flags)
  BY GonePastAligned
<1>3. forest' \in [Ranks -> Seq(Quads)]
  BY <1>1, <1>2 DEF GonePast
<1>4. amrflags_h' \in [Ranks -> Seq(Flags)]
  BY <1>1, <1>2 DEF GonePast
<1>5. pos[s] + Len(quads) \in Nat /\ inside_counter[s] + 1 \in Nat
  BY <1>1
<1>6. pos' \in [Ranks -> Nat] /\ inside_counter' \in [Ranks -> Nat]
  BY <1>1, <1>5 DEF GonePast
<1>7. QED
  BY <1>3, <1>4, <1>6

(* A leaf is kept: its flag is written where the leaf stands.               *)
LEMMA KeepLeafPass ==
  ASSUME PassInv, NEW s \in Ranks, KeepLeaf(s)
  PROVE  TypeOK' /\ Pass(s)'
<1> DEFINE i == inside_counter[s] + 1
           flag == amrflags_h[s][i]
<1>1. pc[s] = "refine" /\ pos[s] < Len(forest[s]) /\ flag # DO_REFINE
  BY DEF KeepLeaf
<1>2. /\ Refining(s) /\ amrflags_h[s] \in Seq(Flags) /\ Current(s) \in Quads
      /\ pos[s] \in Nat /\ inside_counter[s] \in Nat /\ num_replaced[s] \in Nat
      /\ i \in DOMAIN amrflags_h[s] /\ flag \in FlagsAllowed(Current(s))
      /\ amrflags_d[s] \in Seq(Flags)
  BY <1>1, FlagAhead
<1>3. TypeOK
  BY DEF PassInv
<1>4. <<Current(s)>> \in Seq(Quads) /\ Len(<<Current(s)>>) = 1
  BY <1>2
<1>5. GonePast(s, <<Current(s)>>)
  BY <1>3 DEF KeepLeaf, GonePast, Substitute, Replaced, TypeOK
<1>6. /\ Ahead(s)' \in Nat
      /\ Len(amrflags_h'[s]) = Len(amrflags_d'[s])
      /\ inside_counter'[s] + Ahead(s)' = Len(amrflags_h'[s])
      /\ \A j \in 1 .. inside_counter'[s] : amrflags_h'[s][j] = DO_NOTHING
      /\ \A j \in 1 .. Ahead(s)' :
            amrflags_h'[s][inside_counter'[s] + j] \in FlagsAllowed(forest'[s][pos'[s] + j])
      /\ forest'[s] \in Seq(Quads) /\ amrflags_h'[s] \in Seq(Flags)
      /\ pos'[s] = pos[s] + 1
      /\ inside_counter'[s] = inside_counter[s] + 1
  BY <1>1, <1>4, <1>5, GonePastAligned
<1>7. /\ tmp_flags' = [tmp_flags EXCEPT ![s] =
                          [k \in DOMAIN tmp_flags[s] |->
                              IF k \in {TmpIndex(s)} THEN flag ELSE tmp_flags[s][k]]]
      /\ num_replaced' = num_replaced /\ amrflags_d' = amrflags_d /\ pc' = pc /\ cycles' = cycles
  BY <1>3 DEF KeepLeaf, SetTmp, TypeOK
<1>8. flag \in Flags
  BY <1>2 DEF FlagsAllowed, Flags
<1>9. TypeOK'
  <2>1. /\ DOMAIN tmp_flags' = Ranks
        /\ \A r \in Ranks : tmp_flags'[r] \in [DOMAIN tmp_flags'[r] -> Flags]
    BY <1>3, <1>7, <1>8 DEF TypeOK
  <2>2. forest' \in [Ranks -> Seq(Quads)] /\ amrflags_h' \in [Ranks -> Seq(Flags)]
        /\ pos' \in [Ranks -> Nat] /\ inside_counter' \in [Ranks -> Nat]
    BY <1>1, <1>4, <1>5, GonePastType
  <2>4. QED
    BY <1>3, <1>7, <2>1, <2>2 DEF KeepLeaf, TypeOK
<1>10. Refining(s)'
  <2>1. NumRefine(amrflags_h'[s]) = NumRefine(amrflags_h[s])
    <3>1. amrflags_h'[s] = [amrflags_h[s] EXCEPT ![i] = DO_NOTHING]
      BY <1>3, <1>5 DEF GonePast, TypeOK
    <3>2. QED
      BY <1>1, <1>2, <3>1, ClearFlag
  <2>2. num_replaced'[s] + NumRefine(amrflags_h'[s]) = NumRefine(amrflags_d'[s])
    BY <1>2, <1>7, <2>1 DEF Refining
  <2>3. pos'[s] = TmpIndex(s)'
    <3>1. pos[s] = inside_counter[s] + (NB_CHILDREN - 1) * num_replaced[s]
      BY <1>2 DEF Refining, TmpIndex
    <3>2. TmpIndex(s)' = inside_counter[s] + 1 + (NB_CHILDREN - 1) * num_replaced[s]
      BY <1>6, <1>7 DEF TmpIndex
    <3> DEFINE m == (NB_CHILDREN - 1) * num_replaced[s]
    <3>3. m \in Int
      BY <1>2, ChildrenCount
    <3> HIDE DEF m
    <3>4. pos[s] = inside_counter[s] + m /\ TmpIndex(s)' = inside_counter[s] + 1 + m
      BY <3>1, <3>2 DEF m
    <3>5. QED
      BY <1>2, <1>6, <3>3, <3>4
  <2>4. tmp_flags'[s] = [k \in DOMAIN tmp_flags[s] |->
                            IF k \in {TmpIndex(s)} THEN flag ELSE tmp_flags[s][k]]
    BY <1>3, <1>7 DEF TypeOK
  <2>5. DOMAIN tmp_flags'[s] = 0 .. TmpSize(amrflags_d'[s]) - 1
    BY <1>2, <1>7, <2>4 DEF Refining
  <2>6. ASSUME NEW k \in DOMAIN tmp_flags'[s]
        PROVE  (tmp_flags'[s][k] = DO_REFINE) <=> k >= pos'[s]
    <3>1. k \in DOMAIN tmp_flags[s] /\ k \in Int
      BY <1>2, <1>7, <2>4, <2>5, TmpSizeType
    <3>2. (tmp_flags[s][k] = DO_REFINE) <=> k >= pos[s]
      BY <1>2, <3>1 DEF Refining
    <3>3. TmpIndex(s) = pos[s]
      BY <1>2 DEF Refining
    <3>4. QED
      BY <1>1, <1>2, <1>6, <2>4, <3>1, <3>2, <3>3
  <2>7. QED
    BY <1>6, <2>2, <2>3, <2>5, <2>6 DEF Refining
<1>11. QED
  <2>1. pc'[s] = "refine" /\ cycles' = cycles /\ Pass(s)
    BY <1>1, <1>7 DEF PassInv
  <2>2. QED
    BY <1>1, <1>9, <1>10, <2>1 DEF Pass

(* A leaf is refined: its children are given the flags where they stand.    *)
LEMMA RefineLeafPass ==
  ASSUME PassInv, NEW s \in Ranks, RefineLeaf(s)
  PROVE  TypeOK' /\ Pass(s)'
<1> DEFINE i == inside_counter[s] + 1
           quads == all_children(Current(s))
<1>1. pc[s] = "refine" /\ pos[s] < Len(forest[s]) /\ amrflags_h[s][i] = DO_REFINE
  BY DEF RefineLeaf
<1>2. /\ Refining(s) /\ amrflags_h[s] \in Seq(Flags) /\ Current(s) \in Quads
      /\ pos[s] \in Nat /\ inside_counter[s] \in Nat /\ num_replaced[s] \in Nat
      /\ i \in DOMAIN amrflags_h[s] /\ DO_REFINE \in FlagsAllowed(Current(s))
      /\ amrflags_d[s] \in Seq(Flags)
  BY <1>1, FlagAhead
<1>3. TypeOK
  BY DEF PassInv
<1>4. quads \in Seq(Quads) /\ Len(quads) = NB_CHILDREN
  <2>1. level(Current(s)) < LevelMax
    BY <1>2 DEF FlagsAllowed, DO_REFINE, DO_NOTHING, DO_COARSEN
  <2>2. QED
    BY <1>2, <2>1, ChildrenType
<1>5. GonePast(s, quads)
  BY <1>3 DEF RefineLeaf, GonePast, Substitute, Replaced, TypeOK
<1> HIDE DEF quads
<1>6. /\ Ahead(s)' \in Nat
      /\ Len(amrflags_h'[s]) = Len(amrflags_d'[s])
      /\ inside_counter'[s] + Ahead(s)' = Len(amrflags_h'[s])
      /\ \A j \in 1 .. inside_counter'[s] : amrflags_h'[s][j] = DO_NOTHING
      /\ \A j \in 1 .. Ahead(s)' :
            amrflags_h'[s][inside_counter'[s] + j] \in FlagsAllowed(forest'[s][pos'[s] + j])
      /\ forest'[s] \in Seq(Quads) /\ amrflags_h'[s] \in Seq(Flags)
      /\ pos'[s] = pos[s] + NB_CHILDREN
      /\ inside_counter'[s] = inside_counter[s] + 1
  BY <1>1, <1>4, <1>5, GonePastAligned
<1>7. /\ tmp_flags' = [tmp_flags EXCEPT ![s] =
                          [k \in DOMAIN tmp_flags[s] |->
                              IF k \in TmpIndex(s) .. TmpIndex(s) + NB_CHILDREN - 1
                              THEN DO_NOTHING ELSE tmp_flags[s][k]]]
      /\ num_replaced' = [num_replaced EXCEPT ![s] = num_replaced[s] + 1]
      /\ amrflags_d' = amrflags_d /\ pc' = pc /\ cycles' = cycles
  BY <1>3 DEF RefineLeaf, SetTmp, TypeOK
<1>8. NB_CHILDREN \in Nat /\ NB_CHILDREN >= 1
  BY ChildrenCount
<1>9. TypeOK'
  <2>1. /\ DOMAIN tmp_flags' = Ranks
        /\ \A r \in Ranks : tmp_flags'[r] \in [DOMAIN tmp_flags'[r] -> Flags]
    BY <1>3, <1>7 DEF TypeOK, Flags
  <2>2. forest' \in [Ranks -> Seq(Quads)] /\ amrflags_h' \in [Ranks -> Seq(Flags)]
        /\ pos' \in [Ranks -> Nat] /\ inside_counter' \in [Ranks -> Nat]
    BY <1>1, <1>4, <1>5, GonePastType
  <2>3. num_replaced' \in [Ranks -> Nat]
    <3>1. num_replaced \in [Ranks -> Nat] /\ num_replaced[s] + 1 \in Nat
      BY <1>2, <1>3 DEF TypeOK
    <3>2. QED
      BY <1>7, <3>1
  <2>4. pc' \in [Ranks -> {"flags", "refine", "coarsen", "balance", "rebuild", "remap"}]
        /\ cycles' \in 0 .. MaxCycles /\ amrflags_d' \in [Ranks -> Seq(Flags)]
    BY <1>3, <1>7 DEF TypeOK
  <2>5. QED
    BY <1>3, <2>1, <2>2, <2>3, <2>4 DEF RefineLeaf, TypeOK
<1>10. num_replaced'[s] = num_replaced[s] + 1
  BY <1>3, <1>7 DEF TypeOK
<1>11. Refining(s)'
  <2>1. num_replaced'[s] + NumRefine(amrflags_h'[s]) = NumRefine(amrflags_d'[s])
    <3>1. amrflags_h'[s] = [amrflags_h[s] EXCEPT ![i] = DO_NOTHING]
      BY <1>3, <1>5 DEF GonePast, TypeOK
    <3>2. NumRefine(amrflags_h'[s]) + 1 = NumRefine(amrflags_h[s])
      BY <1>1, <1>2, <3>1, ClearFlag
    <3>3. NumRefine(amrflags_h'[s]) \in Nat /\ NumRefine(amrflags_h[s]) \in Nat
      BY <1>2, <1>6, RefineCount
    <3>4. num_replaced[s] + NumRefine(amrflags_h[s]) = NumRefine(amrflags_d[s])
      BY <1>2 DEF Refining
    <3>5. amrflags_d'[s] = amrflags_d[s] /\ num_replaced[s] \in Nat
      BY <1>2, <1>7
    <3>6. QED
      BY <1>10, <3>2, <3>3, <3>4, <3>5
  <2>2. pos'[s] = TmpIndex(s)'
    <3>1. pos[s] = inside_counter[s] + (NB_CHILDREN - 1) * num_replaced[s]
      BY <1>2 DEF Refining, TmpIndex
    <3>2. TmpIndex(s)' = inside_counter[s] + 1 + (NB_CHILDREN - 1) * (num_replaced[s] + 1)
      BY <1>6, <1>10 DEF TmpIndex
    <3> DEFINE m == NB_CHILDREN - 1
               n == num_replaced[s]
    <3>3. m \in {3, 7} /\ n \in Nat /\ NB_CHILDREN = m + 1
      BY <1>2, ChildrenCount
    <3>4. pos[s] = inside_counter[s] + m * n
          /\ TmpIndex(s)' = inside_counter[s] + 1 + m * (n + 1)
      BY <3>1, <3>2
    <3>0. pos'[s] = pos[s] + (m + 1)
      BY <1>6, <3>3
    <3> HIDE DEF m, n
    <3> DEFINE a == m * n
               b == m * (n + 1)
    <3>5. b = a + m /\ a \in Nat
      BY <3>3
    <3>6. /\ pos[s] = inside_counter[s] + a /\ TmpIndex(s)' = inside_counter[s] + 1 + b
          /\ pos'[s] = pos[s] + (m + 1) /\ inside_counter[s] \in Nat /\ m \in Nat
      BY <1>2, <3>3, <3>4, <3>0
    <3> HIDE DEF a, b
    <3>7. QED
      BY <3>5, <3>6
  <2>3. tmp_flags'[s] = [k \in DOMAIN tmp_flags[s] |->
                            IF k \in TmpIndex(s) .. TmpIndex(s) + NB_CHILDREN - 1
                            THEN DO_NOTHING ELSE tmp_flags[s][k]]
    BY <1>3, <1>7 DEF TypeOK
  <2>4. DOMAIN tmp_flags'[s] = 0 .. TmpSize(amrflags_d'[s]) - 1
    BY <1>2, <1>7, <2>3 DEF Refining
  <2>5. ASSUME NEW k \in DOMAIN tmp_flags'[s]
        PROVE  (tmp_flags'[s][k] = DO_REFINE) <=> k >= pos'[s]
    <3>1. k \in DOMAIN tmp_flags[s] /\ k \in Int
      BY <1>2, <1>7, <2>3, <2>4, TmpSizeType
    <3>2. (tmp_flags[s][k] = DO_REFINE) <=> k >= pos[s]
      BY <1>2, <3>1 DEF Refining
    <3>3. TmpIndex(s) = pos[s] /\ DO_NOTHING # DO_REFINE
      BY <1>2 DEF Refining, DO_NOTHING, DO_REFINE
    <3>4. tmp_flags'[s][k] = IF k \in pos[s] .. pos[s] + NB_CHILDREN - 1
                             THEN DO_NOTHING ELSE tmp_flags[s][k]
      BY <2>3, <3>1, <3>3
    <3>5. QED
      BY <1>2, <1>6, <1>8, <3>1, <3>2, <3>3, <3>4
  <2>6. QED
    BY <1>6, <2>1, <2>2, <2>4, <2>5 DEF Refining
<1>12. QED
  <2>1. pc'[s] = "refine" /\ cycles' = cycles /\ Pass(s)
    BY <1>1, <1>7 DEF PassInv
  <2>2. QED
    BY <1>1, <1>9, <1>11, <2>1 DEF Pass

(* A leaf, or a family, is passed over or merged: the leaves that follow    *)
(* stay, and the counter moves by what is counted for them.                 *)
LEMMA CoarseningOn ==
  ASSUME PassInv, NEW s \in Ranks, pc[s] = "coarsen",
         NEW n \in {1, NB_CHILDREN}, pos[s] + n <= Len(forest[s]), NEW q \in Quads,
         Substitute(s, n, <<q>>),
         inside_counter' = [inside_counter EXCEPT ![s] = @ + n],
         num_replaced' = [num_replaced EXCEPT ![s] = IF n = 1 THEN @ ELSE @ + 1],
         UNCHANGED <<pc, ghost, amrflags_d, amrflags_h, tmp_flags, mesh_changed,
                     global_num_quadrants, old_keys, data, cycles>>
  PROVE  TypeOK' /\ Pass(s)'
<1>1. TypeOK /\ Coarsening(s) /\ Pass(s)
  BY DEF PassInv, Pass
<1>2. /\ forest[s] \in Seq(Quads) /\ pos[s] \in Nat /\ inside_counter[s] \in Nat
      /\ num_replaced[s] \in Nat /\ Len(forest[s]) \in Nat
      /\ amrflags_d[s] \in Seq(Flags)
  BY <1>1 DEF TypeOK
<1>3. NB_CHILDREN \in {4, 8} /\ n \in Nat
  BY ChildrenCount
<1> DEFINE f == forest[s]
           p == pos[s]
           g == Replaced(f, p, n, <<q>>)
           c == num_replaced[s]
           new == IF n = 1 THEN c ELSE c + 1
<1>4. /\ forest' = [forest EXCEPT ![s] = g]
      /\ pos' = [pos EXCEPT ![s] = p + 1]
  <2>1. Len(<<q>>) = 1
    OBVIOUS
  <2>2. QED
    BY <1>1, <2>1 DEF Substitute, Replaced, TypeOK
<1>5. g \in Seq(Quads) /\ Len(g) = Len(f) - n + 1
  <2>1. <<q>> \in Seq(Quads) /\ Len(<<q>>) = 1
    OBVIOUS
  <2> HIDE DEF f, p
  <2>2. f \in Seq(Quads) /\ p \in Nat /\ p + n <= Len(f)
    BY <1>2 DEF f, p
  <2>3. QED
    <3> DEFINE quads == <<q>>
    <3>1. quads \in Seq(Quads) /\ Len(quads) = 1
      BY <2>1
    <3> HIDE DEF quads
    <3>2. ReplacedAt(f, p, n, quads)
      BY <1>3, <2>2, <3>1, ReplacedIs
    <3>3. g = Replaced(f, p, n, quads)
      BY DEF quads
    <3> HIDE DEF g
    <3>4. QED
      BY <3>1, <3>2, <3>3 DEF ReplacedAt
<1> HIDE DEF g
<1>6. /\ forest'[s] = g /\ pos'[s] = p + 1 /\ inside_counter'[s] = inside_counter[s] + n
      /\ num_replaced'[s] = new /\ amrflags_d'[s] = amrflags_d[s] /\ tmp_flags'[s] = tmp_flags[s]
  BY <1>1, <1>4 DEF TypeOK
<1>7. TypeOK'
  <2>1. forest' \in [Ranks -> Seq(Quads)] /\ pos' \in [Ranks -> Nat]
    <3>1. forest \in [Ranks -> Seq(Quads)] /\ pos \in [Ranks -> Nat]
      BY <1>1 DEF TypeOK
    <3>2. p + 1 \in Nat
      BY <1>2
    <3> HIDE DEF p
    <3>3. forest' \in [Ranks -> Seq(Quads)]
      BY <1>4, <1>5, <3>1
    <3>4. pos' \in [Ranks -> Nat]
      BY <1>4, <3>1, <3>2
    <3>5. QED
      BY <3>3, <3>4
  <2>2. inside_counter' \in [Ranks -> Nat] /\ num_replaced' \in [Ranks -> Nat]
    <3>1. inside_counter[s] + n \in Nat /\ new \in Nat
      BY <1>2, <1>3
    <3>2. inside_counter \in [Ranks -> Nat] /\ num_replaced \in [Ranks -> Nat]
      BY <1>1 DEF TypeOK
    <3>3. inside_counter' \in [Ranks -> Nat]
      BY <3>1, <3>2
    <3>4. QED
      BY <3>1, <3>2, <3>3
  <2>3. QED
    BY <1>1, <2>1, <2>2 DEF TypeOK
<1>8. Coarsening(s)'
  <2> DEFINE m == NB_CHILDREN - 1
             a == m * c
             b == m * new
             i == inside_counter[s]
             size == TmpSize(amrflags_d[s])
  <2>1. m \in {3, 7} /\ c \in Nat /\ (n = 1 \/ n = m + 1)
    BY <1>2, <1>3
  <2>2. /\ i = p + a
        /\ Len(f) + a = size
        /\ \A k \in DOMAIN tmp_flags[s] : tmp_flags[s][k] # DO_REFINE
    BY <1>1 DEF Coarsening
  <2>3. b = a + (n - 1) /\ a \in Nat /\ b \in Nat
    <3> HIDE DEF m, c
    <3>1. CASE n = 1
      BY <2>1, <3>1
    <3>2. CASE n = m + 1
      <4>1. new = c + 1 /\ n - 1 = m
        BY <2>1, <3>2
      <4>2. m * (c + 1) = m * c + m /\ m * c \in Nat /\ m * (c + 1) \in Nat
        BY <2>1
      <4>3. QED
        BY <4>1, <4>2
    <3>3. QED
      BY <2>1, <3>1, <3>2
  <2>4. p \in Nat /\ Len(f) \in Nat /\ i \in Nat /\ n \in Nat /\ p + n <= Len(f)
    BY <1>2, <1>3
  <2>5. Ahead(s)' = Len(g) - (p + 1)
    BY <1>6 DEF Ahead
  <2> HIDE DEF a, b, i, size, m, c, new, f, p
  <2>6. Ahead(s)' \in Nat
    BY <1>5, <2>4, <2>5
  <2>7. i + n = p + 1 + b
    <3>1. i = p + a /\ b = a + (n - 1)
      BY <2>2, <2>3
    <3>2. a \in Nat /\ n \in Nat /\ p \in Nat
      BY <2>3, <2>4
    <3>3. QED
      BY <3>1, <3>2
  <2>8. Len(g) + b = size
    BY <1>5, <2>2, <2>3, <2>4
  <2>9. inside_counter'[s] = pos'[s] + (NB_CHILDREN - 1) * num_replaced'[s]
    BY <1>6, <2>7 DEF i, b, m
  <2>10. Len(forest'[s]) + (NB_CHILDREN - 1) * num_replaced'[s] = TmpSize(amrflags_d'[s])
    BY <1>6, <2>8 DEF size, b, m
  <2>11. QED
    BY <1>6, <2>2, <2>6, <2>9, <2>10 DEF Coarsening
<1>9. QED
  BY <1>1, <1>7, <1>8 DEF Pass

(* A leaf is passed over.                                                   *)
LEMMA SkipLeafPass ==
  ASSUME PassInv, NEW s \in Ranks, SkipLeaf(s)
  PROVE  TypeOK' /\ Pass(s)'
<1>1. TypeOK /\ Coarsening(s) /\ pc[s] = "coarsen"
  BY DEF PassInv, Pass, SkipLeaf
<1>2. forest[s] \in Seq(Quads) /\ pos[s] \in Nat
  BY <1>1 DEF TypeOK
<1>3. pos[s] + 1 <= Len(forest[s])
  <2>1. Len(forest[s]) - pos[s] \in Nat /\ Len(forest[s]) # pos[s]
    BY <1>1 DEF Coarsening, Ahead, SkipLeaf, PassOver
  <2>2. QED
    BY <1>2, <2>1
<1>4. Current(s) \in Quads
  BY <1>2, <1>3 DEF Current
<1>5. num_replaced' = [num_replaced EXCEPT ![s] = IF 1 = 1 THEN @ ELSE @ + 1]
  BY <1>1 DEF SkipLeaf, TypeOK
<1> DEFINE n == 1
<1>6. n \in {1, NB_CHILDREN}
  OBVIOUS
<1>7. /\ Substitute(s, n, <<Current(s)>>)
      /\ inside_counter' = [inside_counter EXCEPT ![s] = @ + n]
      /\ num_replaced' = [num_replaced EXCEPT ![s] = IF n = 1 THEN @ ELSE @ + 1]
      /\ pos[s] + n <= Len(forest[s])
  BY <1>3, <1>5 DEF SkipLeaf
<1> HIDE DEF n
<1>8. QED
  BY <1>1, <1>4, <1>6, <1>7, CoarseningOn DEF SkipLeaf

(* A family is merged.                                                      *)
LEMMA CoarsenFamilyPass ==
  ASSUME PassInv, NEW s \in Ranks, CoarsenFamily(s)
  PROVE  TypeOK' /\ Pass(s)'
<1>1. TypeOK /\ pc[s] = "coarsen"
  BY DEF PassInv, CoarsenFamily
<1>2. forest[s] \in Seq(Quads) /\ pos[s] \in Nat /\ pos[s] + NB_CHILDREN <= Len(forest[s])
  BY <1>1 DEF TypeOK, CoarsenFamily, Family
<1>3. NB_CHILDREN \in Nat /\ NB_CHILDREN >= 1 /\ NB_CHILDREN # 1
  BY ChildrenCount
<1>4. Current(s) \in Quads /\ level(Current(s)) > 0
  <2> DEFINE f == forest[s]
             p == pos[s]
             n == p + NB_CHILDREN
  <2>1. f \in Seq(Quads) /\ p \in Nat /\ n \in Nat /\ p <= n /\ n <= Len(f) /\ 1 \in 1 .. n - p
    BY <1>2, <1>3
  <2>2. level(SubSeq(f, p + 1, n)[1]) > 0
    BY DEF CoarsenFamily, Family, IsFamily
  <2> HIDE DEF f, p, n
  <2>3. SubSeq(f, p + 1, n)[1] = f[p + 1]
    BY <2>1, PartOfSeq
  <2>4. f[p + 1] \in Quads
    BY <1>3, <2>1
  <2>5. QED
    BY <2>2, <2>3, <2>4 DEF Current, f, p
<1>5. father(Current(s)) \in Quads
  BY <1>4, FatherType
<1>6. num_replaced' = [num_replaced EXCEPT ![s] = IF NB_CHILDREN = 1 THEN @ ELSE @ + 1]
  BY <1>1, <1>3 DEF CoarsenFamily
<1>7. QED
  BY <1>1, <1>2, <1>5, <1>6, CoarseningOn DEF CoarsenFamily

(* The data of a rank are remapped.                                         *)
LEMMA RemapPass ==
  ASSUME PassInv, NEW s \in Ranks, Remap(s)
  PROVE  TypeOK' /\ Pass(s)'
<1>1. TypeOK /\ forest[s] \in Seq(Quads) /\ data[s] \in Seq(SUBSET Quads)
  BY DEF PassInv, TypeOK
<1>2. \A i : OldValue(s, i) \in SUBSET Quads
  BY <1>1 DEF OldValue
<1>3. \A q : ChildrenValues(s, q) \in SUBSET Quads
  BY <1>2 DEF ChildrenValues
<1>4. \A q : NewValue(s, q) \in SUBSET Quads
  BY <1>2, <1>3 DEF NewValue
<1>5. [i \in DOMAIN forest[s] |-> NewValue(s, forest[s][i])] \in Seq(SUBSET Quads)
  BY <1>1, <1>4
<1>6. TypeOK'
  BY <1>1, <1>5 DEF Remap, TypeOK
<1>7. pc'[s] = "flags"
  BY <1>1 DEF Remap, TypeOK
<1>8. QED
  BY <1>6, <1>7 DEF Pass

(* A step of one rank.                                                      *)
LEMMA StepPass ==
  ASSUME PassInv, NEW s \in Ranks, Step(s)
  PROVE  PassInv'
<1>1. TypeOK' /\ Pass(s)'
  BY ComputeFlagsPass, KeepLeafPass, RefineLeafPass, SkipLeafPass, CoarsenFamilyPass,
     RemapPass DEF Step
<1>2. ASSUME NEW r \in Ranks, r # s PROVE Pass(r)'
  <2>1. TypeOK /\ Pass(r)
    BY DEF PassInv
  <2>2. Mine(r)' = Mine(r) /\ cycles' = cycles
    BY <1>2, <2>1, OthersStay
  <2>3. QED
    BY <2>1, <2>2, StayPut
<1>3. QED
  BY <1>1, <1>2 DEF PassInv

----------------------------------------------------------------------------
(* The steps of all ranks                                                   *)

(* When a rank has refined its last leaf, every flag has been used and      *)
(* tmp_flags is full.                                                       *)
LEMMA RefinementOver ==
  ASSUME PassInv, NEW r \in Ranks, pc[r] = "refine", PassOver(r)
  PROVE  /\ num_replaced[r] = NumRefine(amrflags_d[r])
         /\ inside_counter[r] = Len(amrflags_d[r])
         /\ Len(forest[r]) = TmpSize(amrflags_d[r])
         /\ \A i \in DOMAIN tmp_flags[r] : tmp_flags[r][i] # DO_REFINE
<1>1. TypeOK /\ Refining(r)
  BY DEF PassInv, Pass
<1>2. /\ forest[r] \in Seq(Quads) /\ pos[r] = Len(forest[r]) /\ Len(forest[r]) \in Nat
      /\ amrflags_h[r] \in Seq(Flags) /\ amrflags_d[r] \in Seq(Flags)
      /\ inside_counter[r] \in Nat /\ num_replaced[r] \in Nat
  BY <1>1 DEF TypeOK, PassOver
<1>3. inside_counter[r] = Len(amrflags_h[r]) /\ Len(amrflags_h[r]) = Len(amrflags_d[r])
  <2>1. Ahead(r) = 0
    BY <1>2 DEF Ahead
  <2>2. inside_counter[r] + Ahead(r) = Len(amrflags_h[r]) /\ Len(amrflags_h[r]) = Len(amrflags_d[r])
    BY <1>1 DEF Refining
  <2>3. QED
    BY <1>2, <2>1, <2>2
<1>4. NumRefine(amrflags_h[r]) = 0
  <2>1. \A i \in DOMAIN amrflags_h[r] : amrflags_h[r][i] = DO_NOTHING
    BY <1>1, <1>2, <1>3 DEF Refining
  <2>2. QED
    BY <1>2, <2>1, RefineCount
<1>5. num_replaced[r] = NumRefine(amrflags_d[r])
  <2>1. num_replaced[r] + NumRefine(amrflags_h[r]) = NumRefine(amrflags_d[r])
    BY <1>1 DEF Refining
  <2>2. QED
    BY <1>2, <1>4, <2>1
<1>6. Len(forest[r]) = TmpSize(amrflags_d[r])
  <2>1. pos[r] = inside_counter[r] + (NB_CHILDREN - 1) * num_replaced[r]
    BY <1>1 DEF Refining, TmpIndex
  <2>2. QED
    BY <1>2, <1>3, <1>5, <2>1 DEF TmpSize
<1>7. ASSUME NEW i \in DOMAIN tmp_flags[r] PROVE tmp_flags[r][i] # DO_REFINE
  <2>1. TmpSize(amrflags_d[r]) \in Nat /\ i \in 0 .. TmpSize(amrflags_d[r]) - 1
    BY <1>1, <1>2, TmpSizeType DEF Refining
  <2>2. ~ (i >= pos[r])
    BY <1>2, <1>6, <2>1
  <2>3. QED
    BY <1>1, <2>2 DEF Refining
<1>8. QED
  BY <1>3, <1>5, <1>6, <1>7

(* The refinement is over on all ranks.                                     *)
LEMMA EndRefinePass == ASSUME PassInv, EndRefine PROVE PassInv'
<1>1. TypeOK /\ \A r \in Ranks : pc[r] = "refine" /\ PassOver(r) /\ cycles < MaxCycles
  BY DEF PassInv, Pass, EndRefine
<1>2. NumQuadrants(forest) \in Nat
  BY <1>1, CountType DEF TypeOK
<1>3. TypeOK'
  BY <1>1, <1>2 DEF EndRefine, TypeOK, Changed
<1>4. ASSUME NEW r \in Ranks PROVE Pass(r)'
  <2>1. /\ pc'[r] = "coarsen" /\ pos'[r] = 0 /\ inside_counter'[r] = 0 /\ num_replaced'[r] = 0
        /\ forest' = forest /\ amrflags_d' = amrflags_d /\ tmp_flags' = tmp_flags
        /\ cycles' = cycles /\ cycles < MaxCycles
    BY <1>1 DEF EndRefine
  <2>2. /\ Len(forest[r]) = TmpSize(amrflags_d[r])
        /\ \A i \in DOMAIN tmp_flags[r] : tmp_flags[r][i] # DO_REFINE
    BY <1>1, RefinementOver
  <2>3. Len(forest[r]) \in Nat /\ NB_CHILDREN - 1 \in Int
    BY <1>1, ChildrenCount DEF TypeOK
  <2>4. Coarsening(r)'
    BY <2>1, <2>2, <2>3 DEF Coarsening, Ahead
  <2>5. QED
    BY <2>1, <2>4 DEF Pass
<1>5. QED
  BY <1>3, <1>4 DEF PassInv

(* The coarsening is over on all ranks.                                     *)
LEMMA EndCoarsenPass == ASSUME PassInv, EndCoarsen PROVE PassInv'
<1>1. TypeOK /\ \A r \in Ranks : cycles < MaxCycles
  BY DEF PassInv, Pass, EndCoarsen
<1>2. NumQuadrants(forest) \in Nat
  BY <1>1, CountType DEF TypeOK
<1>3. \A r \in Ranks : AfterCoarsen(r) \in BOOLEAN
  BY <1>1 DEF AfterCoarsen, Changed, TypeOK
<1>4. TypeOK'
  BY <1>1, <1>2, <1>3 DEF EndCoarsen, TypeOK
<1>5. \A r \in Ranks : Pass(r)'
  BY <1>1 DEF EndCoarsen, Pass
<1>6. QED
  BY <1>4, <1>5 DEF PassInv

(* The mesh is balanced.                                                    *)
LEMMA BalancePass == ASSUME PassInv, Balance PROVE PassInv'
<1>1. TypeOK /\ \A r \in Ranks : cycles < MaxCycles
  BY DEF PassInv, Pass, Balance
<1>2. forest' \in [Ranks -> Seq(Quads)]
  BY <1>1, BalancedType DEF Balance, TypeOK
<1>3. global_num_quadrants' \in Nat
  BY <1>2, CountType DEF Balance
<1>4. TypeOK'
  BY <1>1, <1>2, <1>3 DEF Balance, TypeOK
<1>5. \A r \in Ranks : Pass(r)'
  BY <1>1 DEF Balance, Pass
<1>6. QED
  BY <1>4, <1>5 DEF PassInv

(* The ghosts are rebuilt.                                                  *)
LEMMA RebuildPass == ASSUME PassInv, Rebuild PROVE PassInv'
<1>1. TypeOK /\ \A r \in Ranks : cycles < MaxCycles
  BY DEF PassInv, Pass, Rebuild
<1>2. ghost' \in [Ranks -> Seq(Quads)]
  <2>1. \A r \in Ranks : GhostLeaves(forest, r) \in Seq(Quads)
    BY <1>1, GhostType DEF TypeOK
  <2>2. QED
    BY <1>1, <2>1 DEF Rebuild, TypeOK
<1>3. cycles' \in 0 .. MaxCycles
  <2>1. 0 \in Ranks /\ MaxCycles \in Nat
    BY AdaptAssumption DEF Ranks
  <2>2. QED
    BY <1>1, <2>1 DEF Rebuild, TypeOK
<1>4. TypeOK'
  BY <1>1, <1>2, <1>3 DEF Rebuild, TypeOK
<1>5. \A r \in Ranks : Pass(r)'
  BY DEF Rebuild, Pass
<1>6. QED
  BY <1>4, <1>5 DEF PassInv

(* Every step keeps the invariant.                                          *)
LEMMA PassNext == PassInv /\ [Next]_vars => PassInv'
<1> SUFFICES ASSUME PassInv, [Next]_vars PROVE PassInv'
  OBVIOUS
<1>1. CASE Collective
  BY <1>1, EndRefinePass, EndCoarsenPass, BalancePass, RebuildPass DEF Collective
<1>2. CASE \E r \in Ranks : Step(r)
  BY <1>2, StepPass
<1>3. CASE UNCHANGED vars
  <2>1. TypeOK' /\ \A r \in Ranks : Mine(r)' = Mine(r) /\ cycles' = cycles
    BY <1>3 DEF PassInv, TypeOK, vars, Mine
  <2>2. \A r \in Ranks : Pass(r)'
    BY <2>1, StayPut DEF PassInv
  <2>3. QED
    BY <2>1, <2>2 DEF PassInv
<1>4. QED
  BY <1>1, <1>2, <1>3 DEF Next

----------------------------------------------------------------------------
(* The invariant of the passes.                                             *)
LEMMA PassAlways == Spec => []PassInv
BY PassInit, PassNext, PTL DEF Spec

(* Every variable keeps its shape: the leaves are quadrants of a legal      *)
(* level, also those that the refinement, the coarsening and the balance    *)
(* make (AMRContext, AMRCycleData).                                         *)
THEOREM TypeCorrect == Spec => []TypeOK
<1>1. PassInv => TypeOK
  BY DEF PassInv
<1>2. QED
  BY <1>1, PassAlways, PTL

(* tmp_flags has exactly the room the refinement needs, whatever is asked   *)
(* of the leaves: it is written without a gap, never past its end, and is   *)
(* full when the coarsening starts to read it (AMRContext::adapt_mesh).     *)
THEOREM TmpFlagsFilled == Spec => []TmpFlagsFit
<1>1. PassInv => TmpFlagsFit
  <2> SUFFICES ASSUME PassInv, NEW r \in Ranks
               PROVE  /\ pc[r] = "refine" =>
                           /\ \A i \in DOMAIN tmp_flags[r] :
                                 (tmp_flags[r][i] = DO_REFINE) <=> i >= TmpIndex(r)
                           /\ TmpIndex(r) + (Len(forest[r]) - pos[r])
                                 + (NB_CHILDREN - 1) * NumRefine(amrflags_h[r])
                              = Cardinality(DOMAIN tmp_flags[r])
                      /\ pc[r] = "coarsen" =>
                           \A i \in DOMAIN tmp_flags[r] : tmp_flags[r][i] # DO_REFINE
    BY DEF TmpFlagsFit
  <2>1. TypeOK /\ Pass(r)
    BY DEF PassInv
  <2>2. CASE pc[r] = "refine"
    <3>1. Refining(r)
      BY <2>1, <2>2 DEF Pass
    <3> DEFINE m == NB_CHILDREN - 1
               n == num_replaced[r]
               h == NumRefine(amrflags_h[r])
               d == NumRefine(amrflags_d[r])
               size == TmpSize(amrflags_d[r])
               ahead == Len(forest[r]) - pos[r]
    <3>2. /\ m \in {3, 7} /\ n \in Nat /\ h \in Nat /\ d \in Nat /\ n + h = d /\ size \in Nat
          /\ pos[r] \in Nat /\ inside_counter[r] \in Nat /\ Len(amrflags_d[r]) \in Nat
          /\ ahead \in Nat
      BY <2>1, <3>1, ChildrenCount, RefineCount, TmpSizeType DEF TypeOK, Refining, Ahead
    <3>3. /\ inside_counter[r] + ahead = Len(amrflags_d[r])
          /\ TmpIndex(r) = inside_counter[r] + m * n
          /\ size = Len(amrflags_d[r]) + m * d
      BY <3>1 DEF Refining, Ahead, TmpIndex, TmpSize
    <3>4. Cardinality(0 .. size - 1) = size
      <4> HIDE DEF size
      <4>1. Cardinality(0 .. size - 1) = IF 0 > size - 1 THEN 0 ELSE size - 1 - 0 + 1
        BY <3>2, FS_Interval
      <4>2. QED
        BY <3>2, <4>1
    <3>5. m * d = m * n + m * h /\ m * n \in Nat /\ m * h \in Nat
      <4> HIDE DEF m, n, h, d
      <4>1. QED
        BY <3>2
    <3>6. TmpIndex(r) + ahead + m * h = size
      <4> DEFINE a == m * n
                 b == m * h
                 c == m * d
                 i == inside_counter[r]
                 l == Len(amrflags_d[r])
      <4>1. c = a + b /\ TmpIndex(r) = i + a /\ size = l + c /\ i + ahead = l
        BY <3>3, <3>5
      <4>2. a \in Nat /\ b \in Nat /\ i \in Nat /\ l \in Nat /\ ahead \in Nat
        BY <3>2, <3>5
      <4> HIDE DEF a, b, c, i, l, size, ahead, m, n, h, d
      <4>3. TmpIndex(r) + ahead + b = size
        BY <4>1, <4>2
      <4>4. QED
        BY <4>3 DEF b
    <3>7. DOMAIN tmp_flags[r] = 0 .. size - 1 /\ pos[r] = TmpIndex(r)
      BY <3>1 DEF Refining
    <3>8. \A i \in DOMAIN tmp_flags[r] : (tmp_flags[r][i] = DO_REFINE) <=> i >= TmpIndex(r)
      BY <3>1 DEF Refining
    <3>9. QED
      BY <2>2, <3>4, <3>6, <3>7, <3>8
  <2>3. CASE pc[r] # "refine"
    BY <2>1, <2>3 DEF Pass, Coarsening
  <2>4. QED
    BY <2>2, <2>3
<1>2. QED
  BY <1>1, PassAlways, PTL

(* The assertions of adapt_mesh after each pass hold, whatever is asked of  *)
(* the leaves: every leaf was visited once, and the local count moved by    *)
(* what the callbacks counted.                                              *)
THEOREM AssertionsHold == Spec => []CountersAgree
<1>1. PassInv => CountersAgree
  <2> SUFFICES ASSUME PassInv, NEW r \in Ranks
               PROVE  LET old     == Len(amrflags_d[r])
                          refined == old + (NB_CHILDREN - 1) * NumRefine(amrflags_d[r])
                      IN  /\ (pc[r] = "refine" /\ PassOver(r)) =>
                                /\ inside_counter[r] = old
                                /\ Len(forest[r]) - old = num_replaced[r] * (NB_CHILDREN - 1)
                          /\ (pc[r] = "coarsen" /\ PassOver(r)) =>
                                /\ inside_counter[r] = refined
                                /\ refined - Len(forest[r]) = num_replaced[r] * (NB_CHILDREN - 1)
    BY DEF CountersAgree
  <2> DEFINE old == Len(amrflags_d[r])
             m == NB_CHILDREN - 1
             n == num_replaced[r]
             d == NumRefine(amrflags_d[r])
             f == Len(forest[r])
  <2>1. TypeOK /\ Pass(r)
    BY DEF PassInv
  <2>2. m \in {3, 7} /\ n \in Nat /\ d \in Nat /\ old \in Nat /\ f \in Nat
    BY <2>1, ChildrenCount, RefineCount DEF TypeOK
  <2>3. m * n = n * m /\ m * n \in Nat /\ m * d \in Nat
    <3> HIDE DEF m, n, d
    <3>1. QED
      BY <2>2
  <2>4. ASSUME pc[r] = "refine", PassOver(r)
        PROVE  inside_counter[r] = old /\ f - old = n * m
    <3>1. n = d /\ inside_counter[r] = old /\ f = old + m * d
      BY <2>4, RefinementOver DEF TmpSize
    <3> HIDE DEF m, n, d, old, f
    <3>2. QED
      BY <2>2, <2>3, <3>1
  <2>5. ASSUME pc[r] = "coarsen", PassOver(r)
        PROVE  inside_counter[r] = old + m * d /\ (old + m * d) - f = n * m
    <3>1. inside_counter[r] = f + m * n /\ f + m * n = old + m * d
      BY <2>1, <2>5 DEF Pass, Coarsening, PassOver, TmpSize
    <3> HIDE DEF m, n, d, old, f
    <3>2. QED
      BY <2>2, <2>3, <3>1
  <2>6. QED
    BY <2>4, <2>5
<1>2. QED
  BY <1>1, PassAlways, PTL

----------------------------------------------------------------------------
(* The flags follow the leaves                                               *)

(* A leaf of the old mesh has one flag; what lies in it without being it    *)
(* has none.                                                                *)
LEMMA WantedOfOld ==
  ASSUME NEW r \in Ranks, amrflags_d[r] \in Seq(Flags), old_keys[r] \in Seq(Quads),
         Len(amrflags_d[r]) <= Len(old_keys[r]), Separate(OldLeaves(r)),
         NEW k \in 1 .. Len(amrflags_d[r])
  PROVE  /\ OldLeaves(r)[k] \in Quads
         /\ amrflags_d[r][k] = DO_COARSEN => Wanted(r, OldLeaves(r)[k]) = DO_COARSEN
         /\ amrflags_d[r][k] # DO_COARSEN => Wanted(r, OldLeaves(r)[k]) = DO_NOTHING
         /\ \A q \in Quads : IsPrefix(OldLeaves(r)[k], q) /\ q # OldLeaves(r)[k] =>
               Wanted(r, q) = DO_NOTHING
<1> DEFINE d == amrflags_d[r]
           o == OldLeaves(r)
           n == Len(d)
<1>1. d \in Seq(Flags) /\ n \in Nat /\ DOMAIN d = 1 .. n
  OBVIOUS
<1>2. o \in Seq(Quads) /\ Len(o) = n
  <2>1. 0 \in Nat /\ 0 <= n /\ n <= Len(old_keys[r])
    BY <1>1
  <2>2. SubSeq(old_keys[r], 0 + 1, n) \in Seq(Quads) /\ Len(SubSeq(old_keys[r], 0 + 1, n)) = n - 0
    BY <1>1, <2>1, PartOfSeq
  <2>3. QED
    BY <1>1, <2>2 DEF OldLeaves
<1>3. DOMAIN o = 1 .. n /\ \A i \in 1 .. n : o[i] \in Quads
  BY <1>1, <1>2
<1>4. k \in 1 .. n
  OBVIOUS
<1>5. Separate(o)
  OBVIOUS
<1>6. \A q : Wanted(r, q) = IF \E i \in 1 .. n : d[i] = DO_COARSEN /\ q = o[i]
                            THEN DO_COARSEN ELSE DO_NOTHING
  BY <1>1 DEF Wanted, Asked
<1> HIDE DEF d, o, n
<1>7. ASSUME NEW q \in Quads, IsPrefix(o[k], q), NEW i \in 1 .. n, q = o[i]
      PROVE  i = k
  <2>1. SUFFICES ASSUME i # k PROVE FALSE
    OBVIOUS
  <2>2. ~ Overlap(o[k], o[i])
    BY <1>3, <1>4, <1>5, <2>1 DEF Separate
  <2>3. QED
    BY <1>7, <2>2 DEF Overlap
<1>8. o[k] \in Quads /\ IsPrefix(o[k], o[k])
  BY <1>3, <1>4, Containment
<1>9. d[k] = DO_COARSEN => Wanted(r, o[k]) = DO_COARSEN
  BY <1>4, <1>6
<1>10. d[k] # DO_COARSEN => Wanted(r, o[k]) = DO_NOTHING
  BY <1>6, <1>7, <1>8
<1>11. ASSUME NEW q \in Quads, IsPrefix(o[k], q), q # o[k]
       PROVE  Wanted(r, q) = DO_NOTHING
  <2>1. ~ \E i \in 1 .. n : d[i] = DO_COARSEN /\ q = o[i]
    BY <1>7, <1>11
  <2>2. QED
    BY <1>6, <2>1
<1>12. QED
  BY <1>8, <1>9, <1>10, <1>11 DEF d, o

(* The refinement goes past a leaf, and writes in tmp_flags what is wanted  *)
(* of what it leaves there.                                                 *)
LEMMA LayingOn ==
  ASSUME PassInv, NEW s \in Ranks, pc[s] = "refine", pos[s] < Len(forest[s]), Laying(s),
         NEW quads \in Seq(Quads), GonePast(s, quads), old_keys' = old_keys,
         \A i \in 1 .. pos[s] : tmp_flags'[s][i - 1] = tmp_flags[s][i - 1],
         \A k \in 1 .. Len(quads) : tmp_flags'[s][pos[s] + k - 1] = Wanted(s, quads[k])
  PROVE  Laying(s)'
<1> DEFINE f == forest[s]
           p == pos[s]
           c == inside_counter[s]
           h == amrflags_h[s]
           d == amrflags_d[s]
           o == OldLeaves(s)
           n == Len(quads)
           g == Replaced(f, p, 1, quads)
           t == tmp_flags[s]
           u == tmp_flags'[s]
           new == [h EXCEPT ![c + 1] = DO_NOTHING]
<1>1. /\ f \in Seq(Quads) /\ p \in Nat /\ p + 1 <= Len(f) /\ c \in Nat
      /\ h \in Seq(Flags) /\ c + 1 \in DOMAIN h
      /\ c + (Len(f) - p) = Len(h)
      /\ \A j \in 1 .. Len(f) - p : f[p + j] = o[c + j] /\ h[c + j] = d[c + j]
      /\ \A i \in 1 .. p : t[i - 1] = Wanted(s, f[i])
  BY FlagAhead DEF Refining, Laying, Ahead
<1>2. /\ forest'[s] = g /\ pos'[s] = p + n /\ amrflags_h'[s] = new
      /\ inside_counter'[s] = c + 1 /\ amrflags_d'[s] = d
      /\ OldLeaves(s)' = o /\ old_keys'[s] = old_keys[s]
      /\ Asked(s, DO_COARSEN)' = Asked(s, DO_COARSEN)
  BY DEF PassInv, TypeOK, GonePast, OldLeaves, Asked
<1>3. Ahead(s)' = Len(g) - (p + n)
  BY <1>2 DEF Ahead
<1>4. /\ \A i \in 1 .. p : u[i - 1] = t[i - 1]
      /\ \A k \in 1 .. n : u[p + k - 1] = Wanted(s, quads[k])
  OBVIOUS
<1> HIDE DEF f, p, c, h, d, o, g, t, u
<1>5. Len(new) = Len(h) /\ \A i \in DOMAIN h : i # c + 1 => new[i] = h[i]
  BY <1>1, ClearFlag
<1>6. n \in Nat /\ Len(f) \in Nat /\ Len(h) \in Nat /\ DOMAIN h = 1 .. Len(h)
  BY <1>1
<1> HIDE DEF n, new
<1>7. /\ g \in Seq(Quads)
      /\ Len(g) = Len(f) - 1 + n
      /\ \A j \in 1 .. Len(f) - (p + 1) : g[p + n + j] = f[p + 1 + j]
  <2>1. 1 \in Nat /\ f \in Seq(Quads) /\ p \in Nat /\ p + 1 <= Len(f)
    BY <1>1
  <2>2. QED
    <3>1. ReplacedAt(f, p, 1, quads)
      BY <2>1, ReplacedIs
    <3>2. QED
      BY <3>1 DEF ReplacedAt, g, n
<1>8. /\ \A i \in 1 .. p : g[i] = f[i]
      /\ \A k \in 1 .. n : g[p + k] = quads[k]
  <2>1. 1 \in Nat /\ f \in Seq(Quads) /\ p \in Nat /\ p + 1 <= Len(f)
    BY <1>1
  <2>2. QED
    <3>1. ReplacedAt(f, p, 1, quads)
      BY <2>1, ReplacedIs
    <3>2. QED
      BY <3>1 DEF ReplacedAt, g, n
<1>9. Ahead(s)' = Len(f) - (p + 1)
  BY <1>1, <1>3, <1>6, <1>7
<1>10. ASSUME NEW j \in 1 .. Len(f) - (p + 1)
       PROVE  g[p + n + j] = o[c + 1 + j] /\ new[c + 1 + j] = d[c + 1 + j]
  <2> DEFINE m == Len(f)
             l == Len(h)
  <2>1. j + 1 \in 1 .. Len(f) - p /\ c + 1 + j = c + (j + 1) /\ p + 1 + j = p + (j + 1)
        /\ c + 1 + j \in DOMAIN h /\ c + 1 + j # c + 1
    <3>1. m \in Nat /\ l \in Nat /\ c \in Nat /\ p \in Nat /\ c + (m - p) = l
      BY <1>1, <1>6
    <3>2. j \in Int /\ 1 <= j /\ j <= m - (p + 1)
      BY <1>1, <1>6
    <3>3. m - p = Len(f) - p /\ DOMAIN h = 1 .. l
      BY <1>6
    <3> HIDE DEF m, l
    <3>4. c + 1 + j = c + (j + 1) /\ p + 1 + j = p + (j + 1) /\ c + 1 + j # c + 1
      BY <3>1, <3>2
    <3>5. 1 <= j + 1 /\ j + 1 <= m - p /\ j + 1 \in Int /\ m - p \in Int
      BY <3>1, <3>2
    <3>6. c + 1 + j \in 1 .. l
      BY <3>1, <3>2
    <3>7. QED
      BY <3>3, <3>4, <3>5, <3>6
  <2>2. new[c + 1 + j] = h[c + (j + 1)] /\ g[p + n + j] = f[p + (j + 1)]
    BY <1>5, <1>7, <2>1
  <2>3. f[p + (j + 1)] = o[c + (j + 1)] /\ h[c + (j + 1)] = d[c + (j + 1)]
    BY <1>1, <2>1
  <2>4. QED
    BY <2>1, <2>2, <2>3
<1>11. ASSUME NEW i \in 1 .. p + n PROVE u[i - 1] = Wanted(s, g[i])
  <2>1. CASE i <= p
    <3>1. i \in 1 .. p
      BY <1>1, <1>6, <2>1
    <3>2. QED
      BY <1>1, <1>4, <1>8, <3>1
  <2>2. CASE i > p
    <3> DEFINE k == i - p
    <3>1. k \in 1 .. n /\ p + k = i /\ p + k - 1 = i - 1
      BY <1>1, <1>6, <2>2
    <3> HIDE DEF k
    <3>2. u[p + k - 1] = Wanted(s, quads[k]) /\ g[p + k] = quads[k]
      BY <1>4, <1>8, <3>1
    <3>3. QED
      BY <3>1, <3>2
  <2>3. QED
    BY <1>1, <1>6, <2>1, <2>2
<1>12. /\ Len(amrflags_d'[s]) <= Len(old_keys'[s])
       /\ Separate(OldLeaves(s)')
  BY <1>2 DEF Laying, d, o
<1>13. \A j \in 1 .. Ahead(s)' :
          /\ forest'[s][pos'[s] + j] = OldLeaves(s)'[inside_counter'[s] + j]
          /\ amrflags_h'[s][inside_counter'[s] + j] = amrflags_d'[s][inside_counter'[s] + j]
  BY <1>2, <1>9, <1>10
<1>14. \A i \in 1 .. pos'[s] :
          tmp_flags'[s][i - 1] = IF forest'[s][i] \in Asked(s, DO_COARSEN)'
                                 THEN DO_COARSEN ELSE DO_NOTHING
  BY <1>2, <1>11 DEF u, Wanted
<1>15. QED
  BY <1>12, <1>13, <1>14 DEF Laying, Wanted

(* The first cycle starts from the segments of a mesh.                      *)
LEMMA FollowInit == Init => FollowInv
<1> SUFFICES ASSUME Init PROVE FollowInv
  OBVIOUS
<1>1. PassInv
  BY PassInit
<1>2. PICK m \in Meshes : forest \in Cuts(m)
  BY DEF Init
<1>3. m \in Seq(Quads) /\ Separate(m) /\ NumRanks \in Nat
  BY AdaptAssumption, OrderApart
<1>4. PICK c \in [0 .. NumRanks -> 0 .. Len(m)] :
          /\ \A r \in Ranks : c[r] <= c[r + 1]
          /\ forest = [r \in Ranks |-> SubSeq(m, c[r] + 1, c[r + 1])]
  BY <1>2 DEF Cuts
<1>5. ASSUME NEW r \in Ranks PROVE Separate(forest[r])
  <2> DEFINE a == c[r]
             b == c[r + 1]
             f == SubSeq(m, a + 1, b)
  <2>1. r \in 0 .. NumRanks /\ r + 1 \in 0 .. NumRanks
    BY <1>3 DEF Ranks
  <2>2. a \in Nat /\ b \in Nat /\ a <= b /\ b <= Len(m)
    BY <1>3, <1>4, <2>1
  <2> HIDE DEF a, b
  <2>3. f \in Seq(Quads) /\ Len(f) = b - a /\ \A j \in 1 .. b - a : f[j] = m[a + j]
    BY <1>3, <2>2, PartOfSeq
  <2> HIDE DEF f
  <2>4. DOMAIN f = 1 .. b - a /\ DOMAIN m = 1 .. Len(m) /\ Len(m) \in Nat
    BY <1>3, <2>3
  <2>5. ASSUME NEW i \in DOMAIN f, NEW j \in DOMAIN f, i # j PROVE ~ Overlap(f[i], f[j])
    <3> DEFINE l == Len(m)
    <3>1. i \in 1 .. b - a /\ j \in 1 .. b - a
      BY <2>4
    <3>2. l \in Nat /\ b <= l
      BY <2>2, <2>4
    <3> HIDE DEF l
    <3>3. a + i \in 1 .. l /\ a + j \in 1 .. l /\ a + i # a + j
      BY <2>2, <2>5, <3>1, <3>2
    <3>4. ~ Overlap(m[a + i], m[a + j])
      BY <1>3, <2>4, <3>3 DEF Separate, l
    <3>5. f[i] = m[a + i] /\ f[j] = m[a + j]
      BY <2>3, <3>1
    <3>6. QED
      BY <3>4, <3>5
  <2>6. Separate(f)
    BY <2>5 DEF Separate
  <2>7. QED
    BY <1>4, <2>6 DEF f, a, b
<1>6. \A r \in Ranks : Follows(r)
  BY <1>5 DEF Init, Follows
<1>7. QED
  BY <1>1, <1>6 DEF FollowInv

(* What is true of a rank stays so when nothing of its pass moves.          *)
LEMMA FollowsOn ==
  ASSUME NEW r, Follows(r), Mine(r)' = Mine(r)
  PROVE  Follows(r)'
<1>1. /\ pc'[r] = pc[r] /\ forest'[r] = forest[r] /\ pos'[r] = pos[r]
      /\ amrflags_d'[r] = amrflags_d[r] /\ amrflags_h'[r] = amrflags_h[r]
      /\ tmp_flags'[r] = tmp_flags[r] /\ inside_counter'[r] = inside_counter[r]
      /\ old_keys'[r] = old_keys[r]
  BY DEF Mine
<1>2. OldLeaves(r)' = OldLeaves(r) /\ Asked(r, DO_COARSEN)' = Asked(r, DO_COARSEN)
      /\ Ahead(r)' = Ahead(r)
  BY <1>1 DEF OldLeaves, Asked, Ahead
<1>3. Separate(forest[r])'
  BY <1>1 DEF Follows
<1>4. Laying(r) => Laying(r)'
  BY <1>1, <1>2 DEF Laying, Wanted
<1>5. Reading(r) => Reading(r)'
  BY <1>1, <1>2 DEF Reading, Wanted, TmpFlag
<1>6. QED
  BY <1>1, <1>3, <1>4, <1>5 DEF Follows

(* A cycle starts with the leaves and the flags it will look back at.       *)
LEMMA ComputeFlagsFollow ==
  ASSUME PassInv, NEW s \in Ranks, Follows(s), ComputeFlags(s)
  PROVE  Follows(s)'
<1>1. TypeOK /\ forest[s] \in Seq(Quads) /\ ghost[s] \in Seq(Quads)
  BY DEF PassInv, TypeOK
<1>2. PICK flags \in [DOMAIN forest[s] -> UNION {FlagsAllowed(q) : q \in ToSet(forest[s])}] :
          /\ amrflags_d' = [amrflags_d EXCEPT ![s] = flags]
          /\ amrflags_h' = [amrflags_h EXCEPT ![s] = flags]
  BY DEF ComputeFlags
<1>3. /\ pc'[s] = "refine" /\ forest' = forest /\ pos'[s] = 0 /\ inside_counter'[s] = 0
      /\ amrflags_d'[s] = flags /\ amrflags_h'[s] = flags
      /\ old_keys'[s] = forest[s] \o ghost[s]
  BY <1>1, <1>2 DEF ComputeFlags, TypeOK, CloneKeys
<1> DEFINE f == forest[s]
           k == forest[s] \o ghost[s]
           n == Len(f)
           o == SubSeq(k, 1, n)
<1>4. n \in Nat /\ DOMAIN f = 1 .. n /\ Len(flags) = n
  BY <1>1
<1>5. k \in Seq(Quads) /\ n <= Len(k) /\ \A j \in 1 .. n : k[j] = f[j]
  <2>1. f \in Seq(Quads) /\ ghost[s] \in Seq(Quads)
    BY <1>1
  <2>2. k \in Seq(Quads) /\ Len(k) = n + Len(ghost[s])
    BY <2>1, Joined
  <2>3. \A j \in 1 .. n : k[j] = f[j]
    BY <2>1, JoinedFirst
  <2> DEFINE g == Len(ghost[s])
  <2>4. g \in Nat /\ n \in Nat
    BY <2>1
  <2> HIDE DEF g, n
  <2>5. n <= n + g
    BY <2>4
  <2>6. n <= Len(k)
    BY <2>2, <2>5 DEF g
  <2> HIDE DEF k
  <2>7. QED
    BY <2>2, <2>3, <2>6
<1> HIDE DEF k
<1>6. o \in Seq(Quads) /\ Len(o) = n /\ \A j \in 1 .. n : o[j] = f[j]
  <2> HIDE DEF n, f
  <2>1. 0 \in Nat /\ 0 <= n
    BY <1>4
  <2>2. /\ SubSeq(k, 0 + 1, n) \in Seq(Quads) /\ Len(SubSeq(k, 0 + 1, n)) = n - 0
        /\ \A j \in 1 .. n - 0 : SubSeq(k, 0 + 1, n)[j] = k[0 + j]
    BY <1>4, <1>5, <2>1, PartOfSeq
  <2>3. 0 + 1 = 1 /\ n - 0 = n /\ \A j \in 1 .. n : 0 + j = j
    BY <1>4
  <2>4. QED
    BY <1>5, <2>2, <2>3
<1>7. DOMAIN o = 1 .. n
  BY <1>6
<1> HIDE DEF o
<1>8. Separate(f)
  BY DEF Follows
<1>9. Separate(o)
  BY <1>4, <1>6, <1>7, <1>8 DEF Separate
<1>10. OldLeaves(s)' = o
  BY <1>3, <1>4 DEF OldLeaves, o, k
<1>11. Ahead(s)' = n
  BY <1>3, <1>4 DEF Ahead
<1>12. ASSUME NEW j \in 1 .. n
       PROVE  /\ forest'[s][pos'[s] + j] = OldLeaves(s)'[inside_counter'[s] + j]
              /\ amrflags_h'[s][inside_counter'[s] + j] = amrflags_d'[s][inside_counter'[s] + j]
  <2>1. 0 + j = j
    OBVIOUS
  <2>2. QED
    BY <1>3, <1>6, <1>10, <2>1
<1>13. Len(amrflags_d'[s]) <= Len(old_keys'[s])
  BY <1>3, <1>4, <1>5 DEF k
<1>14. \A i : i \notin 1 .. pos'[s]
  BY <1>3
<1>15. Laying(s)'
  BY <1>9, <1>10, <1>11, <1>12, <1>13, <1>14 DEF Laying
<1>16. QED
  BY <1>3, <1>8, <1>15 DEF Follows

(* The place of the next flag is in tmp_flags, after those that are written;*)
(* there are as many as the children of the leaf if it is to be refined.    *)
LEMMA RoomAhead ==
  ASSUME PassInv, NEW s \in Ranks, pc[s] = "refine", pos[s] < Len(forest[s])
  PROVE  /\ TmpIndex(s) = pos[s]
         /\ pos[s] \in DOMAIN tmp_flags[s]
         /\ \A i \in 1 .. pos[s] : i - 1 \in DOMAIN tmp_flags[s] /\ i - 1 # pos[s]
         /\ amrflags_h[s][inside_counter[s] + 1] = DO_REFINE =>
               \A k \in 1 .. NB_CHILDREN : pos[s] + k - 1 \in DOMAIN tmp_flags[s]
<1> DEFINE h == amrflags_h[s]
           a == Ahead(s)
           c == inside_counter[s]
           n == num_replaced[s]
           x == NumRefine(h)
           d == NumRefine(amrflags_d[s])
           l == Len(amrflags_d[s])
           m == NB_CHILDREN - 1
           p == pos[s]
           size == TmpSize(amrflags_d[s])
<1>1. /\ Refining(s) /\ h \in Seq(Flags) /\ amrflags_d[s] \in Seq(Flags)
      /\ p \in Nat /\ c \in Nat /\ n \in Nat /\ a \in Nat /\ a >= 1
      /\ c + 1 \in DOMAIN h
  BY FlagAhead
<1>2. /\ x \in Nat /\ d \in Nat /\ l \in Nat /\ m \in {3, 7} /\ NB_CHILDREN = m + 1
  BY <1>1, ChildrenCount, RefineCount
<1>3. /\ c + a = l /\ n + x = d /\ p = c + m * n /\ size = l + m * d
      /\ DOMAIN tmp_flags[s] = 0 .. size - 1 /\ p = TmpIndex(s)
  BY <1>1 DEF Refining, TmpIndex, TmpSize
<1>4. h[c + 1] = DO_REFINE => x >= 1
  <2> DEFINE new == [h EXCEPT ![c + 1] = DO_NOTHING]
             y == NumRefine(new)
  <2>1. new \in Seq(Flags)
    BY <1>1, ClearFlag
  <2>2. h[c + 1] = DO_REFINE => y + 1 = x
    BY <1>1, ClearFlag
  <2>3. y \in Nat
    BY <2>1, RefineCount
  <2> HIDE DEF x, y
  <2>4. QED
    BY <1>2, <2>2, <2>3
<1>5. NB_CHILDREN \in Nat
  BY ChildrenCount
<1> DEFINE nc == NB_CHILDREN
<1>6. nc = m + 1
  BY <1>2
<1> HIDE DEF nc, h, a, c, n, x, d, l, m, p, size
<1> DEFINE u == m * n
           v == m * d
           w == m * x
<1>7. u \in Nat /\ v \in Nat /\ w \in Nat /\ v = u + w /\ (x >= 1 => w >= m)
  <2>1. CASE m = 3
    BY <1>2, <1>1, <1>3, <2>1
  <2>2. CASE m = 7
    BY <1>2, <1>1, <1>3, <2>2
  <2>3. QED
    BY <1>2, <2>1, <2>2
<1>8. p = c + u /\ size = l + v /\ c + a = l
  BY <1>3
<1> HIDE DEF u, v, w
<1>9. p + 1 + w <= size /\ size \in Nat
  BY <1>1, <1>2, <1>7, <1>8
<1>10. p \in 0 .. size - 1 /\ \A i \in 1 .. p : i - 1 \in 0 .. size - 1 /\ i - 1 # p
  BY <1>1, <1>7, <1>9
<1>11. x >= 1 => \A k \in 1 .. nc : p + k - 1 \in 0 .. size - 1
  <2> SUFFICES ASSUME x >= 1, NEW k \in 1 .. nc PROVE p + k - 1 \in 0 .. size - 1
    OBVIOUS
  <2>1. w >= m /\ m \in Nat
    BY <1>2, <1>7
  <2>2. k \in Int /\ 1 <= k /\ k <= m + 1
    BY <1>6, <2>1
  <2>3. QED
    BY <1>1, <1>7, <1>9, <2>1, <2>2
<1>12. /\ TmpIndex(s) = pos[s]
       /\ pos[s] \in DOMAIN tmp_flags[s]
       /\ \A i \in 1 .. pos[s] : i - 1 \in DOMAIN tmp_flags[s] /\ i - 1 # pos[s]
  BY <1>3, <1>10 DEF p
<1>13. x >= 1 => \A k \in 1 .. NB_CHILDREN : pos[s] + k - 1 \in DOMAIN tmp_flags[s]
  BY <1>3, <1>11 DEF p, nc
<1>14. h[c + 1] = amrflags_h[s][inside_counter[s] + 1]
  BY DEF h, c
<1>15. QED
  BY <1>4, <1>12, <1>13, <1>14

(* A leaf that is kept takes its flag with it.                              *)
LEMMA KeepLeafFollow ==
  ASSUME PassInv, NEW s \in Ranks, Follows(s), KeepLeaf(s)
  PROVE  Follows(s)'
<1> DEFINE c == inside_counter[s]
           flag == amrflags_h[s][c + 1]
           quads == <<Current(s)>>
<1>1. pc[s] = "refine" /\ pos[s] < Len(forest[s]) /\ flag # DO_REFINE
  BY DEF KeepLeaf
<1>2. TypeOK /\ Laying(s) /\ Separate(forest[s])
  BY <1>1 DEF PassInv, Follows
<1>3. /\ Refining(s) /\ amrflags_h[s] \in Seq(Flags) /\ Current(s) \in Quads
      /\ forest[s] \in Seq(Quads) /\ pos[s] + 1 <= Len(forest[s])
      /\ pos[s] \in Nat /\ c \in Nat /\ Ahead(s) \in Nat /\ Ahead(s) >= 1
      /\ c + 1 \in DOMAIN amrflags_h[s] /\ flag \in FlagsAllowed(Current(s))
      /\ amrflags_d[s] \in Seq(Flags)
  BY <1>1, FlagAhead
<1>4. quads \in Seq(Quads) /\ Len(quads) = 1 /\ DOMAIN quads = {1} /\ quads[1] = Current(s)
  BY <1>3
<1>5. GonePast(s, quads) /\ old_keys' = old_keys /\ pc' = pc
  BY <1>2 DEF KeepLeaf, GonePast, Substitute, Replaced, TypeOK
<1>6. tmp_flags'[s] = [k \in DOMAIN tmp_flags[s] |->
                          IF k \in {TmpIndex(s)} THEN flag ELSE tmp_flags[s][k]]
  BY <1>2 DEF KeepLeaf, SetTmp, TypeOK
<1> HIDE DEF quads
<1>7. Current(s) = OldLeaves(s)[c + 1] /\ flag = amrflags_d[s][c + 1]
      /\ c + 1 \in 1 .. Len(amrflags_d[s])
  <2>1. 1 \in 1 .. Ahead(s)
    BY <1>3
  <2>2. DOMAIN amrflags_h[s] = 1 .. Len(amrflags_h[s]) /\ Len(amrflags_h[s]) = Len(amrflags_d[s])
    BY <1>3 DEF Refining
  <2>3. QED
    BY <1>2, <1>3, <2>1, <2>2 DEF Laying, Current
<1>8. flag = Wanted(s, Current(s))
  <2>1. old_keys[s] \in Seq(Quads) /\ Len(amrflags_d[s]) <= Len(old_keys[s]) /\ Separate(OldLeaves(s))
    BY <1>2 DEF TypeOK, Laying
  <2>2. flag = DO_COARSEN \/ flag = DO_NOTHING
    BY <1>1, <1>3 DEF FlagsAllowed
  <2>3. DO_COARSEN # DO_NOTHING
    BY DEF DO_COARSEN, DO_NOTHING
  <2> DEFINE k == c + 1
  <2>4. k \in 1 .. Len(amrflags_d[s]) /\ Current(s) = OldLeaves(s)[k] /\ flag = amrflags_d[s][k]
    BY <1>7
  <2> HIDE DEF k, flag
  <2>5. /\ amrflags_d[s][k] = DO_COARSEN => Wanted(s, OldLeaves(s)[k]) = DO_COARSEN
        /\ amrflags_d[s][k] # DO_COARSEN => Wanted(s, OldLeaves(s)[k]) = DO_NOTHING
    BY <1>3, <2>1, <2>4, WantedOfOld
  <2>6. QED
    BY <2>2, <2>3, <2>4, <2>5
<1> HIDE DEF flag
<1>9. /\ pos[s] \in DOMAIN tmp_flags[s] /\ TmpIndex(s) = pos[s]
      /\ \A i \in 1 .. pos[s] : i - 1 \in DOMAIN tmp_flags[s] /\ i - 1 # pos[s]
  BY <1>1, RoomAhead
<1>10. \A i \in 1 .. pos[s] : tmp_flags'[s][i - 1] = tmp_flags[s][i - 1]
  BY <1>6, <1>9
<1>11. \A k \in 1 .. Len(quads) : tmp_flags'[s][pos[s] + k - 1] = Wanted(s, quads[k])
  <2>1. pos[s] + 1 - 1 = pos[s]
    BY <1>3
  <2>2. tmp_flags'[s][pos[s]] = flag
    BY <1>6, <1>9
  <2>3. tmp_flags'[s][pos[s] + 1 - 1] = Wanted(s, quads[1])
    BY <1>4, <1>8, <2>1, <2>2
  <2>4. \A k \in 1 .. Len(quads) : k = 1
    BY <1>4
  <2>5. QED
    BY <2>3, <2>4
<1>12. Laying(s)'
  BY <1>1, <1>2, <1>4, <1>5, <1>10, <1>11, LayingOn
<1>13. Separate(forest[s])'
  <2>1. forest'[s] = Replaced(forest[s], pos[s], 1, quads)
    BY <1>2, <1>5 DEF GonePast, TypeOK
  <2>2. Separate(quads)
    BY <1>4 DEF Separate
  <2>3. ASSUME NEW k \in DOMAIN quads, NEW j \in DOMAIN forest[s],
               j \notin pos[s] + 1 .. pos[s] + 1
        PROVE  ~ Overlap(quads[k], forest[s][j])
    <3>1. k = 1 /\ quads[k] = forest[s][pos[s] + 1]
      BY <1>4 DEF Current
    <3>2. pos[s] + 1 # j /\ pos[s] + 1 \in DOMAIN forest[s]
      BY <1>3, <2>3
    <3>3. QED
      BY <1>2, <3>1, <3>2 DEF Separate
  <2> DEFINE n == 1
  <2>4. n \in Nat /\ pos[s] + n <= Len(forest[s]) /\ forest'[s] = Replaced(forest[s], pos[s], n, quads)
        /\ \A k \in DOMAIN quads : \A j \in DOMAIN forest[s] :
              j \notin pos[s] + 1 .. pos[s] + n => ~ Overlap(quads[k], forest[s][j])
    BY <1>3, <2>1, <2>3
  <2> HIDE DEF n
  <2>5. Separate(Replaced(forest[s], pos[s], n, quads))
    BY <1>2, <1>3, <1>4, <2>2, <2>4, ReplacedApart
  <2>6. QED
    BY <2>4, <2>5 DEF Separate
<1>14. pc'[s] = "refine"
  BY <1>1, <1>5
<1>15. QED
  BY <1>12, <1>13, <1>14 DEF Follows

(* The children of a leaf that is refined were not in the old mesh: nothing *)
(* is asked of them.                                                        *)
LEMMA RefineLeafFollow ==
  ASSUME PassInv, NEW s \in Ranks, Follows(s), RefineLeaf(s)
  PROVE  Follows(s)'
<1> DEFINE c == inside_counter[s]
           flag == amrflags_h[s][c + 1]
           q == Current(s)
           quads == all_children(q)
           f == forest[s]
           p == pos[s]
<1>1. pc[s] = "refine" /\ p < Len(f) /\ flag = DO_REFINE
  BY DEF RefineLeaf
<1>2. TypeOK /\ Laying(s) /\ Separate(f)
  BY <1>1 DEF PassInv, Follows
<1>3. /\ Refining(s) /\ amrflags_h[s] \in Seq(Flags) /\ q \in Quads
      /\ f \in Seq(Quads) /\ p + 1 <= Len(f)
      /\ p \in Nat /\ c \in Nat /\ Ahead(s) \in Nat /\ Ahead(s) >= 1
      /\ c + 1 \in DOMAIN amrflags_h[s] /\ flag \in FlagsAllowed(q)
      /\ amrflags_d[s] \in Seq(Flags)
  BY <1>1, FlagAhead
<1>4. level(q) < LevelMax
  BY <1>1, <1>3 DEF FlagsAllowed, DO_REFINE, DO_NOTHING, DO_COARSEN
<1>5. quads \in Seq(Quads) /\ Len(quads) = NB_CHILDREN
  BY <1>3, <1>4, ChildrenType
<1>6. /\ Separate(quads)
      /\ \A k \in 1 .. NB_CHILDREN : IsPrefix(q, quads[k]) /\ quads[k] # q
  BY <1>3, <1>4, ChildrenApart
<1>7. GonePast(s, quads) /\ old_keys' = old_keys /\ pc' = pc
  BY <1>2 DEF RefineLeaf, GonePast, Substitute, Replaced, TypeOK
<1>8. tmp_flags'[s] = [k \in DOMAIN tmp_flags[s] |->
                          IF k \in TmpIndex(s) .. TmpIndex(s) + NB_CHILDREN - 1
                          THEN DO_NOTHING ELSE tmp_flags[s][k]]
  BY <1>2 DEF RefineLeaf, SetTmp, TypeOK
<1> HIDE DEF quads
<1>9. q = OldLeaves(s)[c + 1] /\ c + 1 \in 1 .. Len(amrflags_d[s])
  <2>1. 1 \in 1 .. Ahead(s)
    BY <1>3
  <2>2. DOMAIN amrflags_h[s] = 1 .. Len(amrflags_h[s]) /\ Len(amrflags_h[s]) = Len(amrflags_d[s])
    BY <1>3 DEF Refining
  <2>3. QED
    BY <1>2, <1>3, <2>1, <2>2 DEF Laying, Current
<1>10. NB_CHILDREN \in Nat /\ NB_CHILDREN >= 1 /\ DOMAIN quads = 1 .. NB_CHILDREN
       /\ \A k \in 1 .. NB_CHILDREN : quads[k] \in Quads
  BY <1>5, ChildrenCount
<1>11. \A k \in 1 .. NB_CHILDREN : Wanted(s, quads[k]) = DO_NOTHING
  <2>1. old_keys[s] \in Seq(Quads) /\ Len(amrflags_d[s]) <= Len(old_keys[s]) /\ Separate(OldLeaves(s))
    BY <1>2 DEF TypeOK, Laying
  <2> DEFINE k == c + 1
  <2>2. k \in 1 .. Len(amrflags_d[s]) /\ q = OldLeaves(s)[k]
    BY <1>9
  <2> HIDE DEF k, q
  <2>3. \A x \in Quads : IsPrefix(OldLeaves(s)[k], x) /\ x # OldLeaves(s)[k] => Wanted(s, x) = DO_NOTHING
    BY <1>3, <2>1, <2>2, WantedOfOld
  <2>4. QED
    BY <1>6, <1>10, <2>2, <2>3
<1>12. /\ TmpIndex(s) = p
       /\ \A i \in 1 .. p : i - 1 \in DOMAIN tmp_flags[s] /\ i - 1 # p
       /\ \A k \in 1 .. NB_CHILDREN : p + k - 1 \in DOMAIN tmp_flags[s]
  BY <1>1, RoomAhead
<1> DEFINE e == p + NB_CHILDREN - 1
<1>0. e \in Int /\ e = p + NB_CHILDREN - 1 /\ p \in Nat
  BY <1>3, <1>10
<1> HIDE DEF q, f, p, flag, e
<1>13. \A i \in 1 .. p : tmp_flags'[s][i - 1] = tmp_flags[s][i - 1]
  <2> SUFFICES ASSUME NEW i \in 1 .. p PROVE tmp_flags'[s][i - 1] = tmp_flags[s][i - 1]
    OBVIOUS
  <2>1. i - 1 \notin p .. e
    BY <1>0
  <2>2. i - 1 \in DOMAIN tmp_flags[s]
    BY <1>12
  <2>3. QED
    BY <1>8, <1>12, <1>0, <2>1, <2>2
<1>14. \A k \in 1 .. Len(quads) : tmp_flags'[s][p + k - 1] = Wanted(s, quads[k])
  <2> SUFFICES ASSUME NEW k \in 1 .. NB_CHILDREN PROVE tmp_flags'[s][p + k - 1] = Wanted(s, quads[k])
    BY <1>5
  <2>1. p + k - 1 \in p .. p + NB_CHILDREN - 1
    BY <1>3, <1>10
  <2>2. QED
    BY <1>8, <1>11, <1>12, <2>1
<1>15. Laying(s)'
  BY <1>1, <1>2, <1>5, <1>7, <1>13, <1>14, LayingOn DEF p, f
<1>16. Separate(forest[s])'
  <2>1. forest'[s] = Replaced(f, p, 1, quads)
    BY <1>2, <1>7 DEF GonePast, TypeOK, f, p
  <2>2. ASSUME NEW k \in DOMAIN quads, NEW j \in DOMAIN f, j \notin p + 1 .. p + 1
        PROVE  ~ Overlap(quads[k], f[j])
    <3>1. k \in 1 .. NB_CHILDREN /\ quads[k] \in Quads /\ IsPrefix(q, quads[k])
      BY <1>6, <1>10
    <3>2. p + 1 # j /\ p + 1 \in DOMAIN f /\ f[j] \in Quads /\ q = f[p + 1]
      BY <1>3, <2>2 DEF q, Current, f, p
    <3>3. ~ Overlap(q, f[j])
      BY <1>2, <3>2 DEF Separate
    <3>4. IsPrefix(f[j], f[j])
      BY <3>2, Containment
    <3>5. QED
      BY <1>3, <3>1, <3>2, <3>3, <3>4, ApartBelow
  <2> DEFINE n == 1
  <2>3. n \in Nat /\ p + n <= Len(f) /\ forest'[s] = Replaced(f, p, n, quads)
        /\ \A k \in DOMAIN quads : \A j \in DOMAIN f :
              j \notin p + 1 .. p + n => ~ Overlap(quads[k], f[j])
    BY <1>3, <2>1, <2>2
  <2> HIDE DEF n
  <2>4. Separate(Replaced(f, p, n, quads))
    BY <1>2, <1>3, <1>5, <1>6, <2>3, ReplacedApart
  <2>5. QED
    BY <2>3, <2>4 DEF Separate
<1>17. pc'[s] = "refine"
  BY <1>1, <1>7
<1>18. QED
  BY <1>15, <1>16, <1>17 DEF Follows

(* The coarsening goes past the flags of the leaves it goes past.           *)
LEMMA ReadingOn ==
  ASSUME PassInv, NEW s \in Ranks, pc[s] = "coarsen", Reading(s),
         NEW n \in {1, NB_CHILDREN}, pos[s] + n <= Len(forest[s]), NEW q \in Quads,
         Substitute(s, n, <<q>>),
         inside_counter' = [inside_counter EXCEPT ![s] = @ + n],
         UNCHANGED <<amrflags_d, tmp_flags, old_keys>>
  PROVE  Reading(s)' /\ forest'[s] = Replaced(forest[s], pos[s], n, <<q>>)
<1> DEFINE f == forest[s]
           p == pos[s]
           c == inside_counter[s]
           quads == <<q>>
           g == Replaced(f, p, n, quads)
           m == Len(f)
<1>1. TypeOK
  BY DEF PassInv
<1>2. f \in Seq(Quads) /\ p \in Nat /\ c \in Nat /\ m \in Nat /\ n \in Nat /\ p + n <= m
      /\ n >= 1 /\ quads \in Seq(Quads) /\ Len(quads) = 1
  BY <1>1, ChildrenCount DEF TypeOK
<1>3. forest'[s] = g /\ pos'[s] = p + 1 /\ inside_counter'[s] = c + n
  BY <1>1, <1>2 DEF TypeOK, Substitute, Replaced
<1>4. OldLeaves(s)' = OldLeaves(s) /\ Asked(s, DO_COARSEN)' = Asked(s, DO_COARSEN)
      /\ tmp_flags' = tmp_flags
  BY DEF OldLeaves, Asked
<1>5. \A j \in 1 .. m - p : TmpFlag(s, c + (j - 1)) = Wanted(s, f[p + j])
  BY DEF Reading, Ahead
<1>6. Ahead(s)' = Len(g) - (p + 1)
  BY <1>3 DEF Ahead
<1> HIDE DEF f, p, c, g, quads
<1>7. /\ Len(g) = m - n + 1
      /\ \A j \in 1 .. m - (p + n) : g[p + 1 + j] = f[p + n + j]
  <2>1. /\ Len(Replaced(f, p, n, quads)) = Len(f) - n + Len(quads)
        /\ \A j \in 1 .. Len(f) - (p + n) :
              Replaced(f, p, n, quads)[p + Len(quads) + j] = f[p + n + j]
    <3>1. f \in Seq(Quads) /\ p \in Nat /\ n \in Nat /\ p + n <= Len(f) /\ quads \in Seq(Quads)
      BY <1>2
    <3>2. QED
      <4>1. ReplacedAt(f, p, n, quads)
        BY <3>1, ReplacedIs
      <4>2. QED
        BY <4>1 DEF ReplacedAt
  <2>2. QED
    BY <1>2, <2>1 DEF g
<1> HIDE DEF m
<1>8. Ahead(s)' = m - (p + n)
  BY <1>2, <1>6, <1>7
<1>9. ASSUME NEW j \in 1 .. m - (p + n)
      PROVE  TmpFlag(s, c + n + (j - 1)) = Wanted(s, g[p + 1 + j])
  <2>1. n + j \in 1 .. m - p /\ c + n + (j - 1) = c + ((n + j) - 1) /\ p + n + j = p + (n + j)
    <3>1. j \in Int /\ 1 <= j /\ j <= m - (p + n)
      BY <1>2
    <3>2. p + n + j = p + (n + j)
      BY <1>2, <3>1
    <3>3. c + n + (j - 1) = c + ((n + j) - 1)
      BY <1>2, <3>1
    <3>4. n + j \in 1 .. m - p
      BY <1>2, <3>1
    <3>5. QED
      BY <3>2, <3>3, <3>4
  <2>2. TmpFlag(s, c + ((n + j) - 1)) = Wanted(s, f[p + (n + j)])
    BY <1>5, <2>1
  <2>3. QED
    BY <1>7, <2>1, <2>2
<1>10. \A j \in 1 .. Ahead(s)' :
          TmpFlag(s, inside_counter'[s] + (j - 1)) = Wanted(s, forest'[s][pos'[s] + j])
  BY <1>3, <1>8, <1>9
<1>11. Reading(s)'
  BY <1>4, <1>10 DEF Reading, TmpFlag, Wanted
<1>12. QED
  BY <1>3, <1>11 DEF g, f, p, quads

(* A leaf is passed over.                                                   *)
LEMMA SkipLeafFollow ==
  ASSUME PassInv, NEW s \in Ranks, Follows(s), SkipLeaf(s)
  PROVE  Follows(s)'
<1>1. TypeOK /\ Coarsening(s) /\ pc[s] = "coarsen" /\ Reading(s) /\ Separate(forest[s])
  BY DEF PassInv, Pass, SkipLeaf, Follows
<1>2. forest[s] \in Seq(Quads) /\ pos[s] \in Nat
  BY <1>1 DEF TypeOK
<1>3. pos[s] + 1 <= Len(forest[s])
  <2>1. Len(forest[s]) - pos[s] \in Nat /\ Len(forest[s]) # pos[s]
    BY <1>1 DEF Coarsening, Ahead, SkipLeaf, PassOver
  <2>2. QED
    BY <1>2, <2>1
<1> DEFINE quads == <<Current(s)>>
           n == 1
<1>4. Current(s) \in Quads /\ Current(s) = forest[s][pos[s] + 1] /\ pos[s] + 1 \in DOMAIN forest[s]
  BY <1>2, <1>3 DEF Current
<1>5. quads \in Seq(Quads) /\ DOMAIN quads = {1} /\ quads[1] = Current(s)
  BY <1>4
<1>6. /\ n \in {1, NB_CHILDREN} /\ n \in Nat /\ pos[s] + n <= Len(forest[s])
      /\ Substitute(s, n, <<Current(s)>>)
      /\ inside_counter' = [inside_counter EXCEPT ![s] = @ + n]
      /\ UNCHANGED <<amrflags_d, tmp_flags, old_keys>> /\ pc' = pc
  BY <1>3 DEF SkipLeaf
<1>7. ASSUME NEW k \in DOMAIN quads, NEW j \in DOMAIN forest[s],
             j \notin pos[s] + 1 .. pos[s] + n
      PROVE  ~ Overlap(quads[k], forest[s][j])
  <2>1. j # pos[s] + 1 /\ quads[k] = forest[s][pos[s] + 1]
    BY <1>2, <1>4, <1>5, <1>7
  <2>2. QED
    BY <1>1, <1>4, <2>1 DEF Separate
<1> HIDE DEF n
<1>8. Reading(s)' /\ forest'[s] = Replaced(forest[s], pos[s], n, <<Current(s)>>)
  BY <1>1, <1>4, <1>6, ReadingOn
<1>9. Separate(quads)
  BY <1>5 DEF Separate
<1> HIDE DEF quads
<1>10. Separate(Replaced(forest[s], pos[s], n, quads))
  BY <1>1, <1>2, <1>5, <1>6, <1>7, <1>9, ReplacedApart
<1>11. Separate(forest[s])'
  BY <1>8, <1>10 DEF Separate, quads
<1>12. pc'[s] = "coarsen"
  BY <1>1, <1>6
<1>13. QED
  BY <1>8, <1>11, <1>12 DEF Follows

(* The father takes the place of its children, and is apart from what they  *)
(* are apart from.                                                          *)
LEMMA CoarsenFamilyFollow ==
  ASSUME PassInv, NEW s \in Ranks, Follows(s), CoarsenFamily(s)
  PROVE  Follows(s)'
<1> DEFINE f == forest[s]
           p == pos[s]
           n == NB_CHILDREN
           q == father(Current(s))
           quads == <<q>>
<1>1. TypeOK /\ pc[s] = "coarsen" /\ Reading(s) /\ Separate(f)
  BY DEF PassInv, CoarsenFamily, Follows
<1>2. f \in Seq(Quads) /\ p \in Nat /\ p + n <= Len(f) /\ n \in Nat /\ n >= 1
  <2>1. f \in Seq(Quads) /\ p \in Nat
    BY <1>1 DEF TypeOK
  <2>2. p + n <= Len(f)
    BY DEF CoarsenFamily, Family
  <2>3. n \in Nat /\ n >= 1
    BY ChildrenCount
  <2>4. QED
    BY <2>1, <2>2, <2>3
<1>3. /\ Current(s) \in Quads /\ level(Current(s)) > 0
      /\ \A k \in 1 .. n : f[p + k] = all_children(q)[k]
  <2> DEFINE l == p + n
             t == SubSeq(f, p + 1, l)
  <2>1. l \in Nat /\ p <= l /\ l <= Len(f) /\ l - p = n /\ 1 \in 1 .. n
    BY <1>2
  <2>2. level(t[1]) > 0 /\ t = all_children(father(t[1]))
    BY DEF CoarsenFamily, Family, IsFamily
  <2> HIDE DEF f, p, l, n
  <2>3. \A j \in 1 .. l - p : t[j] = f[p + j]
    BY <1>2, <2>1, PartOfSeq
  <2> HIDE DEF t
  <2>4. t[1] = f[p + 1] /\ f[p + 1] \in Quads
    BY <1>2, <2>1, <2>3
  <2>5. t[1] = Current(s)
    BY <2>4 DEF Current, f, p
  <2>6. QED
    BY <2>1, <2>2, <2>3, <2>4, <2>5
<1>4. q \in Quads
  BY <1>3, FatherType
<1>5. level(q) < LevelMax
  <2>1. Current(s) \in Seq(ChildIds) /\ Len(Current(s)) <= LevelMax /\ LevelMax \in Nat
    BY <1>3, QuadIsPath, QuadAssumption
  <2> DEFINE l == Len(Current(s))
  <2>2. l \in Nat /\ l >= 1
    BY <1>3, <2>1 DEF level
  <2>3. 0 \in Nat /\ l - 1 \in Nat /\ 0 <= l - 1 /\ l - 1 <= l
    BY <2>2
  <2> DEFINE x == Current(s)
             e == l - 1
  <2>4. x \in Seq(ChildIds) /\ 0 \in Nat /\ e \in Nat /\ 0 <= e /\ e <= Len(x)
    BY <2>1, <2>3
  <2> HIDE DEF x, e, l
  <2>5. Len(SubSeq(x, 0 + 1, e)) = e - 0
    BY <2>4, PartOfSeq
  <2>6. Len(q) = l - 1
    BY <2>2, <2>5 DEF father, x, e, l
  <2>7. QED
    BY <2>1, <2>2, <2>6 DEF level, l
<1>6. quads \in Seq(Quads) /\ DOMAIN quads = {1} /\ quads[1] = q
  BY <1>4
<1> HIDE DEF q
<1>7. ASSUME NEW k \in DOMAIN quads, NEW j \in DOMAIN f, j \notin p + 1 .. p + n
      PROVE  ~ Overlap(quads[k], f[j])
  <2>1. quads[k] = q /\ f[j] \in Quads
    BY <1>2, <1>6
  <2>2. ASSUME NEW i \in 1 .. n PROVE ~ Overlap(all_children(q)[i], f[j])
    <3>1. p + i \in DOMAIN f /\ p + i # j
      BY <1>2, <1>7
    <3>2. QED
      BY <1>1, <1>3, <3>1 DEF Separate
  <2>3. QED
    BY <1>4, <1>5, <2>1, <2>2, ChildrenApart
<1>8. /\ Substitute(s, n, <<q>>)
      /\ inside_counter' = [inside_counter EXCEPT ![s] = @ + n]
      /\ UNCHANGED <<amrflags_d, tmp_flags, old_keys>> /\ pc' = pc
  BY DEF CoarsenFamily, q
<1>9. Reading(s)' /\ forest'[s] = Replaced(f, p, n, <<q>>)
  BY <1>1, <1>2, <1>4, <1>8, ReadingOn
<1>10. Separate(quads)
  BY <1>6 DEF Separate
<1> HIDE DEF quads, f, p, n
<1>11. Separate(Replaced(f, p, n, quads))
  BY <1>1, <1>2, <1>6, <1>7, <1>10, ReplacedApart
<1>12. Separate(forest[s])'
  BY <1>9, <1>11 DEF Separate, quads
<1>13. QED
  BY <1>1, <1>8, <1>9, <1>12 DEF Follows

(* A step of one rank.                                                      *)
LEMMA StepFollow ==
  ASSUME FollowInv, NEW s \in Ranks, Step(s)
  PROVE  FollowInv'
<1>1. PassInv /\ \A r \in Ranks : Follows(r)
  BY DEF FollowInv
<1>2. ASSUME Remap(s) PROVE Follows(s)'
  <2>1. TypeOK /\ Separate(forest[s])
    BY <1>1 DEF PassInv, Follows
  <2>2. pc'[s] = "flags" /\ forest' = forest
    BY <1>2, <2>1 DEF Remap, TypeOK
  <2>3. QED
    BY <2>1, <2>2 DEF Follows
<1>3. Follows(s)'
  BY <1>1, <1>2, ComputeFlagsFollow, KeepLeafFollow, RefineLeafFollow, SkipLeafFollow,
     CoarsenFamilyFollow DEF Step
<1>4. ASSUME NEW r \in Ranks, r # s PROVE Follows(r)'
  <2>1. TypeOK
    BY <1>1 DEF PassInv
  <2>2. Mine(r)' = Mine(r)
    BY <1>4, <2>1, OthersStay
  <2>3. QED
    BY <1>1, <2>2, FollowsOn
<1>5. PassInv'
  BY <1>1, StepPass
<1>6. QED
  BY <1>3, <1>4, <1>5 DEF FollowInv

(* The refinement has written tmp_flags to its end: the coarsening reads    *)
(* what it has written.                                                     *)
LEMMA EndRefineFollow == ASSUME FollowInv, EndRefine PROVE FollowInv'
<1>1. PassInv /\ TypeOK /\ \A r \in Ranks : Follows(r)
  BY DEF FollowInv, PassInv
<1>2. PassInv'
  BY <1>1, EndRefinePass
<1>3. ASSUME NEW r \in Ranks PROVE Follows(r)'
  <2> DEFINE f == forest[r]
             n == Len(f)
             t == tmp_flags[r]
  <2>1. pc[r] = "refine" /\ PassOver(r) /\ Follows(r)
    BY <1>1 DEF EndRefine
  <2>2. /\ pc'[r] = "coarsen" /\ pos'[r] = 0 /\ inside_counter'[r] = 0
        /\ forest' = forest /\ tmp_flags' = tmp_flags
        /\ amrflags_d' = amrflags_d /\ old_keys' = old_keys
    BY DEF EndRefine
  <2>3. /\ Separate(f)
        /\ \A i \in 1 .. n : t[i - 1] = Wanted(r, f[i])
    BY <2>1 DEF Follows, Laying, PassOver
  <2>4. DOMAIN t = 0 .. n - 1
    <3>1. DOMAIN t = 0 .. TmpSize(amrflags_d[r]) - 1
      BY <1>1, <2>1 DEF PassInv, Pass, Refining
    <3>2. n = TmpSize(amrflags_d[r])
      BY <1>1, <2>1, RefinementOver
    <3>3. QED
      BY <3>1, <3>2
  <2>5. n \in Nat
    BY <1>1 DEF TypeOK
  <2>6. /\ Ahead(r)' = n /\ Asked(r, DO_COARSEN)' = Asked(r, DO_COARSEN)
    BY <2>2, <2>5 DEF Ahead, Asked, OldLeaves
  <2> HIDE DEF n, t, f
  <2>7. ASSUME NEW j \in 1 .. n
        PROVE  TmpFlag(r, 0 + (j - 1)) = Wanted(r, f[0 + j])
    <3>1. 0 + (j - 1) = j - 1 /\ 0 + j = j /\ j - 1 \in 0 .. n - 1
      BY <2>5
    <3>2. TmpFlag(r, j - 1) = t[j - 1]
      BY <2>4, <3>1 DEF TmpFlag, t
    <3>3. QED
      BY <2>3, <3>1, <3>2
  <2>8. \A j \in 1 .. Ahead(r)' :
           TmpFlag(r, inside_counter'[r] + (j - 1)) = Wanted(r, forest'[r][pos'[r] + j])
    BY <2>2, <2>6, <2>7 DEF f
  <2>9. Reading(r)'
    BY <2>2, <2>6, <2>8 DEF Reading, TmpFlag, Wanted
  <2>10. QED
    BY <2>2, <2>3, <2>9 DEF Follows, f
<1>4. QED
  BY <1>2, <1>3 DEF FollowInv

(* The other collectives leave the passes behind; the balance keeps the     *)
(* leaves apart.                                                            *)
LEMMA CollectiveFollow == ASSUME FollowInv, Collective PROVE FollowInv'
<1>1. PassInv /\ TypeOK /\ \A r \in Ranks : Follows(r)
  BY DEF FollowInv, PassInv
<1>2. CASE EndRefine
  BY <1>2, EndRefineFollow
<1>3. CASE EndCoarsen
  <2>1. PassInv'
    BY <1>1, <1>3, EndCoarsenPass
  <2>2. \A r \in Ranks : pc'[r] \notin {"refine", "coarsen"} /\ forest' = forest
    BY <1>3 DEF EndCoarsen
  <2>3. \A r \in Ranks : Follows(r)'
    BY <1>1, <2>2 DEF Follows
  <2>4. QED
    BY <2>1, <2>3 DEF FollowInv
<1>4. CASE Balance
  <2>1. PassInv'
    BY <1>1, <1>4, BalancePass
  <2>2. \A r \in Ranks : pc'[r] = "rebuild"
    BY <1>4 DEF Balance
  <2>3. \A r \in Ranks : Separate(forest'[r])
    <3>1. forest' = Balanced(forest) /\ forest \in [Ranks -> Seq(Quads)]
      BY <1>1, <1>4 DEF Balance, TypeOK
    <3>2. \A r \in Ranks : Separate(forest[r])
      BY <1>1 DEF Follows
    <3>3. QED
      BY <3>1, <3>2, BalancedType
  <2>4. \A r \in Ranks : Follows(r)'
    BY <2>2, <2>3 DEF Follows, Separate
  <2>5. QED
    BY <2>1, <2>4 DEF FollowInv
<1>5. CASE Rebuild
  <2>1. PassInv'
    BY <1>1, <1>5, RebuildPass
  <2>2. \A r \in Ranks : pc'[r] = "remap" /\ forest' = forest
    BY <1>5 DEF Rebuild
  <2>3. \A r \in Ranks : Follows(r)'
    BY <1>1, <2>2 DEF Follows
  <2>4. QED
    BY <2>1, <2>3 DEF FollowInv
<1>6. QED
  BY <1>2, <1>3, <1>4, <1>5 DEF Collective

(* Every step keeps the invariant.                                          *)
LEMMA FollowNext == FollowInv /\ [Next]_vars => FollowInv'
<1> SUFFICES ASSUME FollowInv, [Next]_vars PROVE FollowInv'
  OBVIOUS
<1>1. CASE UNCHANGED vars
  <2>1. PassInv'
    BY PassNext, <1>1 DEF FollowInv
  <2>2. \A r \in Ranks : Mine(r)' = Mine(r)
    BY <1>1 DEF vars, Mine
  <2>3. \A r \in Ranks : Follows(r)'
    BY <2>2, FollowsOn DEF FollowInv
  <2>4. QED
    BY <2>1, <2>3 DEF FollowInv
<1>2. QED
  BY <1>1, CollectiveFollow, StepFollow DEF Next

(* During the coarsening the counter points at the flag of the leaf that is *)
(* looked at, whatever was refined before it and on whichever rank: what    *)
(* was asked of the leaf, or nothing if the cycle has just created it       *)
(* (refine_callback, replace_on_refine_callback, coarsen_callback).         *)
THEOREM FlagsFollow == Spec => []FlagsFollowLeaves
<1>1. FollowInv => FlagsFollowLeaves
  <2> SUFFICES ASSUME FollowInv, NEW r \in Ranks, pc[r] = "coarsen",
                      NEW i \in 0 .. Len(forest[r]) - pos[r] - 1
               PROVE  TmpFlag(r, inside_counter[r] + i) =
                         Wanted(r, forest[r][pos[r] + 1 + i])
    BY DEF FlagsFollowLeaves, Wanted
  <2> DEFINE n == Len(forest[r])
             p == pos[r]
             c == inside_counter[r]
             j == i + 1
  <2>1. TypeOK /\ Reading(r)
    BY DEF FollowInv, Follows, PassInv
  <2>2. n \in Nat /\ p \in Nat /\ c \in Nat /\ Ahead(r) = n - p
    BY <2>1 DEF TypeOK, Ahead
  <2>3. j \in 1 .. n - p /\ c + (j - 1) = c + i /\ p + j = p + 1 + i
    <3> HIDE DEF n, p, c
    <3>1. i \in 0 .. n - p - 1
      BY DEF n, p
    <3>2. QED
      BY <2>2, <3>1
  <2> HIDE DEF j
  <2>4. TmpFlag(r, c + (j - 1)) = Wanted(r, forest[r][p + j])
    BY <2>1, <2>2, <2>3 DEF Reading
  <2>5. QED
    BY <2>3, <2>4
<1>2. Spec => []FollowInv
  BY FollowInit, FollowNext, PTL DEF Spec
<1>3. QED
  BY <1>1, <1>2, PTL

----------------------------------------------------------------------------
(* The whole cycle                                                          *)

(* The mesh between two rebuilds: what the cycle began with, or the new mesh *)
(* of the ranks that have not begun the next one.                           *)
StartMesh ==
    [r \in Ranks |-> IF pc[r] \in {"flags", "remap"} THEN forest[r] ELSE OldLeaves(r)]

(* No quadrant of A contains one of B or is in one.                         *)
Apart(A, B) == \A a \in A : \A b \in B : ~ Overlap(a, b)

(* No leaf touches a quadrant of the tree two levels finer, split or not.   *)
Graded(leaves) ==
    \A q, x \in leaves : \A n \in level(q) + 2 .. level(x) : ~ Adjacent(SubSeq(x, 1, n), q)

(* The leaves of the ranks make one mesh.                                   *)
Sound(f) ==
    /\ \A r \in Ranks : InOrder(f[r])
    /\ \A r, s \in Ranks : r # s => Apart(ToSet(f[r]), ToSet(f[s]))
    /\ IsComplete(Leaves(f))
    /\ Graded(Leaves(f))

(* What a rank keeps of the mesh the cycle began with.                      *)
Kept(r) ==
    /\ Len(amrflags_d[r]) <= Len(old_keys[r])
    /\ InOrder(OldLeaves(r))
    /\ Apart({old_keys[r][i] : i \in Len(amrflags_d[r]) + 1 .. Len(old_keys[r])},
             ToSet(OldLeaves(r)))
    /\ data[r] = [i \in DOMAIN amrflags_d[r] |-> {OldLeaves(r)[i]}]
    /\ \A q \in Asked(r, DO_REFINE) : level(q) < LevelMax

(* What the refinement makes of the first n leaves.                         *)
Expanded(r, n) ==
    UNION {IF amrflags_d[r][i] = DO_REFINE THEN ToSet(all_children(OldLeaves(r)[i]))
           ELSE {OldLeaves(r)[i]} : i \in 1 .. n}

Refined(r) == Expanded(r, Len(amrflags_d[r]))

Behind(r)   == {forest[r][i] : i \in 1 .. pos[r]}
ToCome(r)   == {forest[r][i] : i \in pos[r] + 1 .. Len(forest[r])}

(* The coarsening: leaves of the refined mesh or merged fathers; a leaf of   *)
(* the refined mesh is there or its father is; a family to be merged has     *)
(* been, or is still whole ahead.                                            *)
Merging(r) ==
    /\ ToSet(forest[r]) \subseteq Refined(r) \cup Merged(r)
    /\ \A x \in Refined(r) :
          \/ x \in ToSet(forest[r])
          \/ x # <<>> /\ father(x) \in Merged(r) \cap ToSet(forest[r])
    /\ \A f \in Merged(r) : f \in ToSet(forest[r]) \/ ToSet(all_children(f)) \subseteq ToCome(r)
    /\ num_replaced[r] = 0 => ToSet(forest[r]) = Refined(r)

(* A leaf of the new mesh is an old leaf, a child of one, or the father of   *)
(* old leaves.                                                              *)
Stems(old, x) ==
    \/ x \in old
    \/ level(x) > 0 /\ father(x) \in old
    \/ level(x) < LevelMax /\ ToSet(all_children(x)) \subseteq old

Course(r) ==
    /\ InOrder(forest[r])
    /\ Apart(ToSet(ghost[r]), ToSet(StartMesh[r]))
    /\ pc[r] # "flags" => Kept(r)
    /\ pc[r] = "refine" => Behind(r) = Expanded(r, inside_counter[r])
    /\ pc[r] \in {"coarsen", "balance"} => Merging(r)
    /\ pc[r] = "balance" => PassOver(r)
    /\ pc[r] \in {"rebuild", "remap"} =>
          \A x \in ToSet(forest[r]) : Stems(ToSet(OldLeaves(r)), x)
    /\ pc[r] = "flags" => /\ Len(data[r]) = Len(forest[r])
                          /\ \A i \in DOMAIN data[r] : Covers(data[r][i], forest[r][i])

(* As many empty sequences as the rank had leaves after the refinement.     *)
RefinedCount == NumQuadrants([r \in Ranks |-> [i \in 1 .. TmpSize(amrflags_d[r]) |-> <<>>]])

(* All ranks are in the same pass, or between the rebuild and the end of the *)
(* refinement; they know how many quadrants there are and agree on whether   *)
(* the mesh has changed; when it has not, the leaves are the old ones.       *)
Together ==
    \/ /\ \A r \in Ranks : pc[r] \in {"remap", "flags", "refine"}
       /\ global_num_quadrants = NumQuadrants(StartMesh)
    \/ /\ \A r \in Ranks : pc[r] = "coarsen"
       /\ global_num_quadrants = RefinedCount
       /\ \A r, s \in Ranks : mesh_changed[r] = mesh_changed[s]
       /\ \A r, s \in Ranks : mesh_changed[r] \/ NumRefine(amrflags_d[s]) = 0
    \/ \A r \in Ranks : pc[r] = "balance" /\ mesh_changed[r]
    \/ /\ \A r \in Ranks : pc[r] = "rebuild"
       /\ Sound(forest)
       /\ global_num_quadrants = NumQuadrants(forest)
       /\ \A r \in Ranks : mesh_changed[r] \/ ToSet(forest[r]) = ToSet(OldLeaves(r))

CycleInv ==
    /\ FollowInv
    /\ Sound(StartMesh)
    /\ \A r \in Ranks : Course(r)
    /\ Together

----------------------------------------------------------------------------
(* Paths                                                                    *)

(* A quadrant is a path of child numbers.                                   *)
LEMMA PathOf ==
  ASSUME NEW q \in Quads
  PROVE  /\ q \in Seq(ChildIds) /\ Len(q) \in Nat /\ Len(q) <= LevelMax
         /\ LevelMax \in Nat /\ level(q) = Len(q)
         /\ \A i \in 1 .. Len(q) : q[i] \in Nat /\ q[i] \in ChildIds
<1>1. q \in Seq(ChildIds) /\ Len(q) <= LevelMax
  BY QuadIsPath
<1>2. ChildIds \subseteq Nat
  BY ChildrenCount DEF ChildIds
<1>3. LevelMax \in Nat /\ level(q) = Len(q)
  BY QuadAssumption DEF level
<1>4. Len(q) \in Nat /\ \A i \in 1 .. Len(q) : q[i] \in ChildIds
  BY <1>1
<1>5. QED
  BY <1>1, <1>2, <1>3, <1>4

(* One quadrant contains another when the paths agree.                      *)
LEMMA PrefixIs ==
  ASSUME NEW a \in Quads, NEW b \in Quads
  PROVE  IsPrefix(a, b) <=> Len(a) <= Len(b) /\ \A i \in 1 .. Len(a) : a[i] = b[i]
BY QuadIsPath, PrefixAgrees

(* Two paths that agree are the same.                                       *)
LEMMA SamePath ==
  ASSUME NEW a \in Quads, NEW b \in Quads, Len(a) = Len(b),
         \A i \in 1 .. Len(a) : a[i] = b[i]
  PROVE  a = b
<1>1. a \in Seq(ChildIds) /\ b \in Seq(ChildIds)
  BY QuadIsPath
<1>2. QED
  BY <1>1

(* The quadrant of level n that contains x.                                 *)
LEMMA Ancestor ==
  ASSUME NEW x \in Quads, NEW n \in 0 .. Len(x)
  PROVE  /\ SubSeq(x, 1, n) \in Quads /\ Len(SubSeq(x, 1, n)) = n
         /\ \A i \in 1 .. n : SubSeq(x, 1, n)[i] = x[i]
         /\ IsPrefix(SubSeq(x, 1, n), x)
<1> DEFINE a == SubSeq(x, 1, n)
<1>1. x \in Seq(ChildIds) /\ Len(x) \in Nat /\ Len(x) <= LevelMax /\ LevelMax \in Nat
  BY PathOf
<1>2. a \in Seq(ChildIds) /\ Len(a) = n /\ \A i \in 1 .. n : a[i] = x[i]
  BY <1>1, FirstPart
<1> HIDE DEF a
<1>3. n <= Len(x) /\ n <= LevelMax
  BY <1>1
<1>4. a \in Quads
  BY <1>2, <1>3, QuadIsPath
<1>5. IsPrefix(a, x)
  BY <1>2, <1>3, <1>4, PrefixIs
<1>6. QED
  BY <1>2, <1>4, <1>5 DEF a

(* It is the only one.                                                      *)
LEMMA AncestorIs ==
  ASSUME NEW a \in Quads, NEW x \in Quads, IsPrefix(a, x)
  PROVE  Len(a) \in 0 .. Len(x) /\ a = SubSeq(x, 1, Len(a))
<1> DEFINE b == SubSeq(x, 1, Len(a))
<1>1. Len(a) \in 0 .. Len(x) /\ \A i \in 1 .. Len(a) : a[i] = x[i]
  BY PathOf, PrefixIs
<1>2. b \in Quads /\ Len(b) = Len(a) /\ \A i \in 1 .. Len(a) : b[i] = x[i]
  BY <1>1, Ancestor
<1> HIDE DEF b
<1>3. a = b
  BY <1>1, <1>2, SamePath
<1>4. QED
  BY <1>1, <1>3 DEF b

(* A quadrant that contains another of the same level is that one.          *)
LEMMA SameLevel ==
  ASSUME NEW a \in Quads, NEW x \in Quads, IsPrefix(a, x), Len(a) = Len(x)
  PROVE  a = x
BY PrefixIs, SamePath

(* The quadrants that contain one are contained in each other.              *)
LEMMA Nested ==
  ASSUME NEW a \in Quads, NEW b \in Quads, NEW x \in Quads, IsPrefix(a, x), IsPrefix(b, x),
         Len(a) <= Len(b)
  PROVE  IsPrefix(a, b)
BY PathOf, PrefixIs

(* The children of a quadrant.                                              *)
LEMMA ChildIs ==
  ASSUME NEW q \in Quads, level(q) < LevelMax, NEW k \in ChildIds
  PROVE  /\ Append(q, k) \in Quads /\ Len(Append(q, k)) = Len(q) + 1
         /\ Append(q, k)[Len(q) + 1] = k /\ \A i \in 1 .. Len(q) : Append(q, k)[i] = q[i]
         /\ IsPrefix(q, Append(q, k)) /\ father(Append(q, k)) = q
<1> DEFINE c == Append(q, k)
<1>1. q \in Seq(ChildIds) /\ Len(q) \in Nat /\ Len(q) < LevelMax /\ LevelMax \in Nat
  BY PathOf
<1>2. /\ c \in Seq(ChildIds) /\ Len(c) = Len(q) + 1
      /\ c[Len(q) + 1] = k /\ \A i \in 1 .. Len(q) : c[i] = q[i]
  BY <1>1
<1> HIDE DEF c
<1>3. Len(c) <= LevelMax /\ Len(q) <= Len(c) /\ Len(c) - 1 = Len(q)
  BY <1>1, <1>2
<1>4. c \in Quads
  BY <1>2, <1>3, QuadIsPath
<1>5. IsPrefix(q, c)
  BY <1>2, <1>3, <1>4, PrefixIs
<1>6. q = SubSeq(c, 1, Len(q))
  BY <1>4, <1>5, AncestorIs
<1>7. father(c) = q
  BY <1>3, <1>6 DEF father
<1>8. QED
  BY <1>2, <1>4, <1>5, <1>7 DEF c

(* A quadrant is a child of its father.                                     *)
LEMMA FatherIs ==
  ASSUME NEW x \in Quads, level(x) > 0
  PROVE  /\ father(x) \in Quads /\ Len(father(x)) = Len(x) - 1 /\ level(father(x)) < LevelMax
         /\ IsPrefix(father(x), x) /\ x[Len(x)] \in ChildIds
         /\ x = Append(father(x), x[Len(x)])
<1>1. /\ x \in Seq(ChildIds) /\ Len(x) \in Nat /\ Len(x) > 0 /\ Len(x) <= LevelMax
      /\ LevelMax \in Nat /\ x[Len(x)] \in ChildIds
  BY PathOf
<1>2. /\ father(x) \in Quads /\ Len(father(x)) = Len(x) - 1 /\ IsPrefix(father(x), x)
      /\ \A i \in 1 .. Len(x) - 1 : father(x)[i] = x[i]
  <2> DEFINE n == Len(x) - 1
  <2>1. n \in 0 .. Len(x)
    BY <1>1
  <2> HIDE DEF n
  <2>2. /\ SubSeq(x, 1, n) \in Quads /\ Len(SubSeq(x, 1, n)) = n
        /\ \A i \in 1 .. n : SubSeq(x, 1, n)[i] = x[i]
        /\ IsPrefix(SubSeq(x, 1, n), x)
    BY <2>1, Ancestor
  <2>3. QED
    BY <2>2 DEF father, n
<1>3. level(father(x)) < LevelMax
  BY <1>1, <1>2 DEF level
<1>4. x = Append(father(x), x[Len(x)])
  <2> DEFINE y == Append(father(x), x[Len(x)])
  <2>1. /\ y \in Quads /\ Len(y) = Len(father(x)) + 1 /\ y[Len(father(x)) + 1] = x[Len(x)]
        /\ \A i \in 1 .. Len(father(x)) : y[i] = father(x)[i]
    BY <1>1, <1>2, <1>3, ChildIs
  <2> HIDE DEF y
  <2>2. Len(y) = Len(x) /\ \A i \in 1 .. Len(x) : y[i] = x[i]
    BY <1>1, <1>2, <2>1
  <2>3. y = x
    BY <2>1, <2>2, SamePath
  <2>4. QED
    BY <2>3 DEF y
<1>5. QED
  BY <1>1, <1>2, <1>3, <1>4

(* The set of the children.                                                 *)
LEMMA ChildSet ==
  ASSUME NEW q
  PROVE  ToSet(all_children(q)) = {Append(q, k) : k \in ChildIds}
<1>1. NB_CHILDREN \in Nat
  BY ChildrenCount
<1>2. ToSet(all_children(q)) = {Append(q, k - 1) : k \in 1 .. NB_CHILDREN}
  BY DEF ToSet, all_children
<1>3. ASSUME NEW k \in ChildIds PROVE Append(q, k) \in {Append(q, i - 1) : i \in 1 .. NB_CHILDREN}
  <2> DEFINE i == k + 1
  <2>1. i \in 1 .. NB_CHILDREN /\ i - 1 = k
    BY <1>1 DEF ChildIds
  <2> HIDE DEF i
  <2>2. Append(q, k) = Append(q, i - 1)
    BY <2>1
  <2>3. QED
    BY <2>1, <2>2
<1>4. \A k \in 1 .. NB_CHILDREN : k - 1 \in ChildIds
  BY <1>1 DEF ChildIds
<1>5. \A k \in 1 .. NB_CHILDREN : Append(q, k - 1) \in {Append(q, i) : i \in ChildIds}
  BY <1>4
<1>6. QED
  BY <1>2, <1>3, <1>5

(* A quadrant is one of the children of its father, and those of another    *)
(* quadrant are others.                                                     *)
LEMMA AmongSiblings ==
  ASSUME NEW x \in Quads, level(x) > 0
  PROVE  x \in ToSet(all_children(father(x)))
BY FatherIs, ChildSet

LEMMA FatherOfChild ==
  ASSUME NEW q \in Quads, level(q) < LevelMax, NEW x \in ToSet(all_children(q))
  PROVE  /\ x \in Quads /\ Len(x) = Len(q) + 1 /\ level(x) > 0 /\ x # <<>>
         /\ father(x) = q /\ IsPrefix(q, x)
<1>1. PICK k \in ChildIds : x = Append(q, k)
  BY ChildSet
<1>2. x \in Quads /\ Len(x) = Len(q) + 1 /\ father(x) = q /\ IsPrefix(q, x)
  BY <1>1, ChildIs
<1>3. Len(q) \in Nat /\ level(x) = Len(x)
  BY <1>2, PathOf
<1>4. x # <<>>
  BY <1>2, <1>3
<1>5. QED
  BY <1>2, <1>3, <1>4

(* A quadrant in another, finer, is in one of its children.                 *)
LEMMA InSomeChild ==
  ASSUME NEW q \in Quads, NEW x \in Quads, IsPrefix(q, x), Len(q) < Len(x)
  PROVE  /\ SubSeq(x, 1, Len(q) + 1) \in ToSet(all_children(q))
         /\ level(q) < LevelMax
<1> DEFINE y == SubSeq(x, 1, Len(q) + 1)
<1>1. Len(q) \in Nat /\ Len(x) \in Nat /\ Len(x) <= LevelMax /\ LevelMax \in Nat /\ level(q) = Len(q)
  BY PathOf
<1>2. Len(q) + 1 \in 0 .. Len(x)
  BY <1>1
<1>3. y \in Quads /\ Len(y) = Len(q) + 1 /\ IsPrefix(y, x)
  BY <1>2, Ancestor
<1> HIDE DEF y
<1>4. IsPrefix(q, y)
  BY <1>1, <1>3, Nested
<1>5. level(y) > 0
  BY <1>1, <1>3, PathOf
<1>6. father(y) \in Quads /\ Len(father(y)) = Len(q) /\ IsPrefix(father(y), y)
  BY <1>1, <1>3, <1>5, FatherIs
<1>7. father(y) = q
  <2>1. IsPrefix(father(y), q)
    BY <1>1, <1>3, <1>4, <1>6, Nested
  <2>2. QED
    BY <1>6, <2>1, SameLevel
<1>8. QED
  BY <1>1, <1>3, <1>5, <1>7, AmongSiblings DEF y

----------------------------------------------------------------------------
(* Morton order                                                             *)

(* The order of two quadrants is that of what they contain.                 *)
LEMMA BeforeBelow ==
  ASSUME NEW a \in Quads, NEW b \in Quads, NEW x \in Quads, NEW y \in Quads,
         Before(a, b), IsPrefix(a, x), IsPrefix(b, y)
  PROVE  Before(x, y)
<1>1. /\ Len(a) \in Nat /\ Len(b) \in Nat /\ Len(x) \in Nat /\ Len(y) \in Nat
      /\ Len(a) <= Len(x) /\ \A i \in 1 .. Len(a) : a[i] = x[i]
      /\ Len(b) <= Len(y) /\ \A i \in 1 .. Len(b) : b[i] = y[i]
  BY PathOf, PrefixIs
<1>2. PICK n \in 1 .. Len(a) : n <= Len(b) /\ a[n] < b[n] /\ \A i \in 1 .. n - 1 : a[i] = b[i]
  BY DEF Before
<1>3. n \in 1 .. Len(x) /\ n <= Len(y) /\ x[n] < y[n] /\ \A i \in 1 .. n - 1 : x[i] = y[i]
  BY <1>1, <1>2
<1>4. QED
  BY <1>3 DEF Before

(* And of what contains them, if they are apart.                            *)
LEMMA BeforeAbove ==
  ASSUME NEW a \in Quads, NEW b \in Quads, NEW x \in Quads, NEW y \in Quads,
         Before(x, y), IsPrefix(a, x), IsPrefix(b, y), ~ Overlap(a, b)
  PROVE  Before(a, b)
<1>1. /\ Len(a) \in Nat /\ Len(b) \in Nat /\ Len(x) \in Nat /\ Len(y) \in Nat
      /\ Len(a) <= Len(x) /\ \A i \in 1 .. Len(a) : a[i] = x[i]
      /\ Len(b) <= Len(y) /\ \A i \in 1 .. Len(b) : b[i] = y[i]
  BY PathOf, PrefixIs
<1>2. PICK n \in 1 .. Len(x) : n <= Len(y) /\ x[n] < y[n] /\ \A i \in 1 .. n - 1 : x[i] = y[i]
  BY DEF Before
<1>3. n <= Len(a)
  <2>1. SUFFICES ASSUME n > Len(a) PROVE FALSE
    BY <1>1, <1>2
  <2>2. Len(a) <= Len(y) /\ \A i \in 1 .. Len(a) : a[i] = y[i]
    BY <1>1, <1>2, <2>1
  <2>3. IsPrefix(a, y)
    BY <2>2, PrefixIs
  <2>4. QED
    BY <2>3, Containment
<1>4. n <= Len(b)
  <2>1. SUFFICES ASSUME n > Len(b) PROVE FALSE
    BY <1>1, <1>2
  <2>2. Len(b) <= Len(x) /\ \A i \in 1 .. Len(b) : b[i] = x[i]
    BY <1>1, <1>2, <2>1
  <2>3. IsPrefix(b, x)
    BY <2>2, PrefixIs
  <2>4. QED
    BY <2>3, Containment
<1>5. n \in 1 .. Len(a) /\ n <= Len(b) /\ a[n] < b[n] /\ \A i \in 1 .. n - 1 : a[i] = b[i]
  BY <1>1, <1>2, <1>3, <1>4
<1>6. QED
  BY <1>5 DEF Before

(* The order is one way only, and what lies between two children of a        *)
(* quadrant is in a child between them.                                     *)
LEMMA BetweenChildren ==
  ASSUME NEW q \in Quads, level(q) < LevelMax, NEW j \in ChildIds, NEW k \in ChildIds,
         NEW x \in Quads, Before(Append(q, j), x), Before(x, Append(q, k))
  PROVE  \E i \in ChildIds : j < i /\ i < k
<1> DEFINE a == Append(q, j)
           b == Append(q, k)
           l == Len(q)
<1>1. /\ a \in Quads /\ Len(a) = l + 1 /\ a[l + 1] = j /\ \A i \in 1 .. l : a[i] = q[i]
      /\ b \in Quads /\ Len(b) = l + 1 /\ b[l + 1] = k /\ \A i \in 1 .. l : b[i] = q[i]
  BY ChildIs
<1>2. /\ l \in Nat /\ Len(x) \in Nat /\ \A i \in 1 .. l : q[i] \in Nat
      /\ \A i \in 1 .. Len(x) : x[i] \in Nat /\ x[i] \in ChildIds
  BY PathOf
<1>3. PICK m \in 1 .. l + 1 : m <= Len(x) /\ a[m] < x[m] /\ \A i \in 1 .. m - 1 : a[i] = x[i]
  BY <1>1 DEF Before
<1>4. PICK n \in 1 .. Len(x) : n <= l + 1 /\ x[n] < b[n] /\ \A i \in 1 .. n - 1 : x[i] = b[i]
  BY <1>1 DEF Before
<1> HIDE DEF a, b, l
<1>5. m = l + 1
  <2>1. SUFFICES ASSUME m <= l PROVE FALSE
    BY <1>2
  <2>2. q[m] < x[m] /\ \A i \in 1 .. m - 1 : q[i] = x[i]
    BY <1>1, <1>2, <1>3, <2>1
  <2>3. CASE n < m
    <3>1. x[n] < q[n] /\ x[n] = q[n] /\ q[n] \in Nat
      BY <1>1, <1>2, <1>4, <2>1, <2>2, <2>3
    <3>2. QED
      BY <3>1
  <2>4. CASE n = m
    <3>1. x[m] < q[m] /\ q[m] \in Nat /\ x[m] \in Nat
      BY <1>1, <1>2, <1>4, <2>1, <2>4
    <3>2. QED
      BY <2>2, <3>1
  <2>5. CASE n > m
    <3>1. x[m] = q[m] /\ q[m] \in Nat
      BY <1>1, <1>2, <1>4, <2>1, <2>5
    <3>2. QED
      BY <2>2, <3>1
  <2>6. QED
    BY <1>2, <1>3, <1>4, <2>3, <2>4, <2>5
<1>6. x[l + 1] \in ChildIds /\ j < x[l + 1] /\ \A i \in 1 .. l : q[i] = x[i]
  BY <1>1, <1>2, <1>3, <1>5
<1>7. n = l + 1
  <2>1. SUFFICES ASSUME n <= l PROVE FALSE
    BY <1>2, <1>4
  <2>2. x[n] < q[n] /\ x[n] = q[n] /\ q[n] \in Nat
    BY <1>1, <1>2, <1>4, <1>6, <2>1
  <2>3. QED
    BY <2>2
<1>8. x[l + 1] < k
  BY <1>1, <1>4, <1>7
<1>9. QED
  BY <1>6, <1>8

(* Children are in order.                                                   *)
LEMMA ChildrenBefore ==
  ASSUME NEW q \in Quads, level(q) < LevelMax, NEW j \in ChildIds, NEW k \in ChildIds
  PROVE  Before(Append(q, j), Append(q, k)) <=> j < k
<1> DEFINE a == Append(q, j)
           b == Append(q, k)
           l == Len(q)
<1>1. /\ a \in Quads /\ Len(a) = l + 1 /\ a[l + 1] = j /\ \A i \in 1 .. l : a[i] = q[i]
      /\ b \in Quads /\ Len(b) = l + 1 /\ b[l + 1] = k /\ \A i \in 1 .. l : b[i] = q[i]
  BY ChildIs
<1>2. l \in Nat /\ \A i \in 1 .. l : q[i] \in Nat
  BY PathOf
<1> HIDE DEF a, b, l
<1>3. ASSUME j < k PROVE Before(a, b)
  <2> DEFINE m == l + 1
  <2>1. m \in 1 .. Len(a) /\ m <= Len(b) /\ a[m] < b[m] /\ \A i \in 1 .. m - 1 : a[i] = b[i]
    BY <1>1, <1>2, <1>3
  <2> HIDE DEF m
  <2>2. QED
    BY <2>1 DEF Before
<1>4. ASSUME Before(a, b) PROVE j < k
  <2>1. PICK n \in 1 .. l + 1 : a[n] < b[n]
    BY <1>1, <1>4 DEF Before
  <2>2. n \notin 1 .. l
    <3>1. SUFFICES ASSUME n \in 1 .. l PROVE FALSE
      OBVIOUS
    <3>2. a[n] = q[n] /\ b[n] = q[n] /\ q[n] \in Nat
      BY <1>1, <1>2, <3>1
    <3>3. QED
      BY <2>1, <3>2
  <2>3. n = l + 1
    BY <1>2, <2>1, <2>2
  <2>4. QED
    BY <1>1, <2>1, <2>3
<1>5. QED
  BY <1>3, <1>4 DEF a, b

LEMMA ChildrenInOrder ==
  ASSUME NEW q \in Quads, level(q) < LevelMax
  PROVE  InOrder(all_children(q))
<1>1. ASSUME NEW j \in 1 .. NB_CHILDREN, NEW k \in 1 .. NB_CHILDREN, j < k
      PROVE  Before(Append(q, j - 1), Append(q, k - 1))
  <2>1. j - 1 \in ChildIds /\ k - 1 \in ChildIds /\ j - 1 < k - 1
    BY <1>1, ChildrenCount DEF ChildIds
  <2>2. QED
    BY <2>1, ChildrenBefore
<1>2. QED
  BY <1>1 DEF InOrder, all_children

----------------------------------------------------------------------------
(* Geometry                                                                 *)

(* The powers double (or are multiplied by the number of children) from one *)
(* level to the next.                                                       *)
LEMMA PowersAre ==
  ASSUME NEW b \in {2, 4, 8}
  PROVE  /\ Powers(b)[0] = 1
         /\ \A n \in 0 .. LevelMax : Powers(b)[n] \in Nat /\ Powers(b)[n] >= 1
         /\ \A n \in 1 .. LevelMax : Powers(b)[n] = b * Powers(b)[n - 1]
<1> DEFINE rule(g) == [n \in 0 .. LevelMax |-> IF n = 0 THEN 1 ELSE b * g[n - 1]]
           P == Nat \ {0}
           sets == [n \in 0 .. LevelMax |-> P]
           step == [n \in 0 .. LevelMax |-> [v \in P |-> b * v]]
<1>1. LevelMax \in Nat /\ 0 \in 0 .. LevelMax
  BY QuadAssumption
<1>2. \A v \in P : b * v \in P
  OBVIOUS
<1>3. \E g : g = rule(g)
  <2>1. HasChain(0, LevelMax, sets, 1, step)
    <3>1. \A n \in 0 + 1 .. LevelMax : \A v \in sets[n - 1] : step[n][v] \in sets[n]
      <4>1. \A n \in 0 + 1 .. LevelMax : n \in 0 .. LevelMax /\ n - 1 \in 0 .. LevelMax
        BY <1>1
      <4> HIDE DEF P
      <4>2. QED
        BY <1>2, <4>1
    <3>2. 1 \in sets[0] /\ 0 <= LevelMax /\ 0 \in Int /\ LevelMax \in Int
      BY <1>1
    <3> HIDE DEF sets, step
    <3>3. QED
      BY <3>1, <3>2, ChainExists
  <2>2. PICK g : /\ g = [n \in 0 .. LevelMax |-> IF n = 0 THEN 1 ELSE step[n][g[n - 1]]]
                 /\ \A n \in 0 .. LevelMax : g[n] \in sets[n]
    BY <2>1 DEF HasChain
  <2>3. ASSUME NEW n \in 0 .. LevelMax PROVE g[n] = IF n = 0 THEN 1 ELSE b * g[n - 1]
    <3>1. CASE n = 0
      <4> HIDE DEF step, sets
      <4>1. QED
        BY <2>2, <3>1
    <3>2. CASE n # 0
      <4>1. n - 1 \in 0 .. LevelMax
        BY <1>1, <3>2
      <4>2. g[n - 1] \in P
        BY <2>2, <4>1
      <4>3. g[n] = step[n][g[n - 1]]
        <5> HIDE DEF step, sets
        <5>1. QED
          BY <2>2, <3>2
      <4> HIDE DEF P
      <4>4. QED
        BY <3>2, <4>2, <4>3
    <3>3. QED
      BY <3>1, <3>2
  <2>4. g = [n \in 0 .. LevelMax |-> g[n]]
    BY <2>2
  <2> HIDE DEF step, sets
  <2>5. g = rule(g)
    BY <2>3, <2>4
  <2>6. QED
    BY <2>5
<1>4. Powers(b) = CHOOSE g : g = rule(g)
  BY DEF Powers
<1>5. Powers(b) = rule(Powers(b))
  <2> HIDE DEF rule
  <2>1. QED
    BY <1>3, <1>4
<1> DEFINE g == Powers(b)
<1>6. \A n \in 0 .. LevelMax : g[n] = IF n = 0 THEN 1 ELSE b * g[n - 1]
  <2> HIDE DEF g
  <2>1. g = rule(g)
    BY <1>5 DEF g
  <2>2. QED
    BY <2>1
<1> HIDE DEF g, rule, sets, step
<1> DEFINE Q == {n \in Nat : n <= LevelMax => g[n] \in P}
<1>7. 0 \in Q
  BY <1>1, <1>6
<1>8. ASSUME NEW n \in Nat, n \in Q PROVE n + 1 \in Q
  <2>1. CASE n + 1 <= LevelMax
    <3>1. n + 1 \in 0 .. LevelMax /\ n + 1 # 0 /\ n + 1 - 1 = n /\ n <= LevelMax
      BY <1>1, <2>1
    <3>2. g[n + 1] = b * g[n] /\ g[n] \in P
      BY <1>6, <1>8, <3>1
    <3>3. g[n + 1] \in P
      <4> HIDE DEF P
      <4>1. QED
        BY <1>2, <3>2
    <3>4. QED
      BY <3>3
  <2>2. CASE ~ (n + 1 <= LevelMax)
    BY <2>2
  <2>3. QED
    BY <2>1, <2>2
<1>9. \A n \in Nat : n \in Q
  <2> HIDE DEF Q
  <2>1. QED
    BY <1>7, <1>8, EveryNat
<1>10. \A n \in 0 .. LevelMax : g[n] \in Nat /\ g[n] >= 1
  BY <1>1, <1>9
<1>11. g[0] = 1 /\ \A n \in 1 .. LevelMax : g[n] = b * g[n - 1]
  <2>1. \A n \in 1 .. LevelMax : n \in 0 .. LevelMax /\ n # 0
    BY <1>1
  <2>2. QED
    BY <1>1, <1>6, <2>1
<1>12. QED
  BY <1>10, <1>11 DEF g

(* The lengths, level by level.                                             *)
LEMMA LengthsAre ==
  /\ \A n \in 0 .. LevelMax : Lengths[n] \in Nat /\ Lengths[n] >= 1
  /\ \A n \in 1 .. LevelMax : Lengths[n] = 2 * Lengths[n - 1]
BY PowersAre DEF Lengths

(* The volumes.                                                             *)
LEMMA VolumesAre ==
  /\ \A n \in 0 .. LevelMax : Volumes[n] \in Nat /\ Volumes[n] >= 1
  /\ \A n \in 1 .. LevelMax : Volumes[n] = NB_CHILDREN * Volumes[n - 1]
<1>1. NB_CHILDREN \in {2, 4, 8}
  BY ChildrenCount
<1>2. QED
  BY <1>1, PowersAre DEF Volumes

(* How far child k is along direction d from the corner of its father.      *)
Along(k, d, i) == Bit(k, d) * Lengths[LevelMax - i]

LEMMA AlongIs ==
  ASSUME NEW k \in ChildIds, NEW d \in Dims, NEW i \in 1 .. LevelMax
  PROVE  /\ Bit(k, d) \in {0, 1}
         /\ Along(k, d, i) = IF Bit(k, d) = 0 THEN 0 ELSE Lengths[LevelMax - i]
         /\ Along(k, d, i) \in Nat
<1>1. k \in 0 .. 7 /\ d \in 0 .. 2
  BY ChildrenCount, QuadAssumption DEF ChildIds, Dims
<1>2. Bit(k, d) \in {0, 1}
  <2>1. 2 ^ 0 = 1 /\ 2 ^ 1 = 2 /\ 2 ^ 2 = 4
    OBVIOUS
  <2>2. CASE d = 0
    BY <1>1, <2>1, <2>2 DEF Bit
  <2>3. CASE d = 1
    BY <1>1, <2>1, <2>3 DEF Bit
  <2>4. CASE d = 2
    BY <1>1, <2>1, <2>4 DEF Bit
  <2>5. QED
    BY <1>1, <2>2, <2>3, <2>4
<1>3. Lengths[LevelMax - i] \in Nat
  <2>1. LevelMax - i \in 0 .. LevelMax
    BY QuadAssumption
  <2>2. QED
    BY <2>1, LengthsAre
<1>4. QED
  BY <1>2, <1>3 DEF Along

(* The lower corner, child by child from the root.                          *)
Corners(q, d, c) ==
    /\ c \in [0 .. Len(q) -> Nat] /\ c[0] = 0
    /\ \A i \in 1 .. Len(q) : c[i] = c[i - 1] + Along(q[i], d, i)

LEMMA CornersExist ==
  ASSUME NEW q \in Quads, NEW d \in Dims
  PROVE  \E c : Corners(q, d, c)
<1> DEFINE N == Len(q)
           sets == [i \in 0 .. N |-> Nat]
           step == [i \in 0 .. N |-> [v \in Nat |-> v + Along(q[i], d, i)]]
<1>1. N \in Nat /\ \A i \in 1 .. N : Along(q[i], d, i) \in Nat
  <2>1. \A i \in 1 .. N : i \in 1 .. LevelMax /\ q[i] \in ChildIds
    BY PathOf
  <2>2. QED
    BY <2>1, PathOf, AlongIs
<1>2. HasChain(0, N, sets, 0, step)
  <2>1. \A i \in 0 + 1 .. N : \A v \in sets[i - 1] : step[i][v] \in sets[i]
    <3> HIDE DEF N
    <3>1. \A i \in 0 + 1 .. N : i \in 1 .. N /\ i \in 0 .. N /\ i - 1 \in 0 .. N
      BY <1>1
    <3>2. QED
      BY <1>1, <3>1
  <2>2. 0 \in sets[0] /\ 0 <= N /\ 0 \in Int /\ N \in Int
    BY <1>1
  <2> HIDE DEF sets, step, N
  <2>3. QED
    BY <2>1, <2>2, ChainExists
<1>3. PICK c : /\ c = [i \in 0 .. N |-> IF i = 0 THEN 0 ELSE step[i][c[i - 1]]]
               /\ \A i \in 0 .. N : c[i] \in sets[i]
  BY <1>2 DEF HasChain
<1>4. c \in [0 .. N -> Nat] /\ c[0] = 0
  <2>1. \A i \in 0 .. N : c[i] \in Nat
    BY <1>3
  <2>2. 0 \in 0 .. N
    BY <1>1
  <2> HIDE DEF step, sets, N
  <2>3. QED
    BY <1>3, <2>1, <2>2
<1>5. ASSUME NEW i \in 1 .. N PROVE c[i] = c[i - 1] + Along(q[i], d, i)
  <2>1. i \in 0 .. N /\ i # 0 /\ i - 1 \in 0 .. N /\ c[i - 1] \in Nat
    BY <1>1, <1>4
  <2>2. step[i][c[i - 1]] = c[i - 1] + Along(q[i], d, i)
    BY <2>1
  <2> HIDE DEF step, sets, N
  <2>3. QED
    BY <1>3, <2>1, <2>2
<1>6. QED
  BY <1>4, <1>5 DEF Corners

LEMMA LowerIs ==
  ASSUME NEW q \in Quads, NEW d \in Dims, NEW c, Corners(q, d, c)
  PROVE  Lower(q, d) = c[Len(q)]
<1> DEFINE N == Len(q)
           S == 1 .. N
           Add(v, i) == v + Bit(q[i], d) * Lengths[LevelMax - i]
           z == [i \in DOMAIN q |-> i]
           choose  == [T \in SUBSET S |-> Max(T)]
           step    == [i \in S |-> [v \in Nat |-> Add(v, i)]]
           rule(g) == [T \in SUBSET S |->
                          IF T = {} THEN 0 ELSE Add(g[T \ {Max(T)}], z[Max(T)])]
<1>1. N \in Nat /\ IsFiniteSet(S) /\ DOMAIN q = S
  BY FS_Interval, PathOf
<1>2. \A T \in SUBSET S : T # {} => Max(T) \in T
  BY <1>1, LastPlace
<1>3. \A i \in S : \A v \in Nat : Add(v, i) = v + Along(q[i], d, i) /\ Add(v, i) \in Nat
  <2>1. \A i \in S : i \in 1 .. LevelMax /\ q[i] \in ChildIds
    BY PathOf
  <2>2. \A i \in S : Along(q[i], d, i) \in Nat
    BY <2>1, AlongIs
  <2>3. \A i \in S : Along(q[i], d, i) = Bit(q[i], d) * Lengths[LevelMax - i]
    BY DEF Along
  <2>4. QED
    BY <2>2, <2>3
<1>4. DOMAIN z = S /\ \A i \in S : z[i] = i
  BY <1>1
<1>5. Lower(q, d) = (CHOOSE g : g = rule(g))[S]
  BY <1>1, <1>4 DEF Lower, FoldLeftDomain, FoldLeft, MapThenFoldSet
<1> HIDE DEF Add, z
<1>6. \E g : g = rule(g)
  <2>1. HasFold(S, Nat, 0, choose, step)
    <3>1. \A T \in SUBSET S : T # {} => choose[T] \in T
      BY <1>2
    <3>2. \A i \in S, v \in Nat : step[i][v] \in Nat
      BY <1>3
    <3>3. 0 \in Nat
      OBVIOUS
    <3> HIDE DEF choose, step, S
    <3>4. QED
      BY <1>1, <3>1, <3>2, <3>3, FoldExists
  <2>2. PICK g \in [SUBSET S -> Nat] :
            \A T \in SUBSET S :
               g[T] = IF T = {} THEN 0 ELSE step[choose[T]][g[T \ {choose[T]}]]
    BY <2>1 DEF HasFold
  <2>3. ASSUME NEW T \in SUBSET S, T # {} PROVE g[T] = Add(g[T \ {Max(T)}], z[Max(T)])
    <3>1. choose[T] = Max(T) /\ Max(T) \in S /\ T \ {Max(T)} \in SUBSET S
      BY <1>2, <2>3
    <3>2. g[T \ {Max(T)}] \in Nat
      BY <2>2, <3>1
    <3>3. g[T] = step[Max(T)][g[T \ {Max(T)}]]
      BY <2>2, <2>3, <3>1
    <3>4. z[Max(T)] = Max(T)
      BY <1>4, <3>1
    <3> HIDE DEF choose
    <3>5. QED
      BY <3>1, <3>2, <3>3, <3>4
  <2>4. QED
    BY <2>2, <2>3
<1>7. ASSUME NEW g, g = rule(g) PROVE g[S] = c[N]
  <2> DEFINE P == {k \in Nat : k <= N => g[1 .. k] = c[k]}
  <2>1. 0 \in P
    <3>1. 1 .. 0 = {} /\ {} \in SUBSET S
      OBVIOUS
    <3>2. g[{}] = 0
      BY <1>7, <3>1
    <3>3. c[0] = 0
      BY DEF Corners
    <3>4. QED
      BY <3>1, <3>2, <3>3
  <2>2. ASSUME NEW k \in Nat, k \in P PROVE k + 1 \in P
    <3> DEFINE j == k + 1
    <3>1. SUFFICES ASSUME j <= N PROVE g[1 .. j] = c[j]
      OBVIOUS
    <3>2. j \in Nat /\ j >= 1 /\ j - 1 = k /\ j \in S /\ k <= N /\ k \in 0 .. N
      BY <1>1, <3>1
    <3>3. g[1 .. k] = c[k] /\ c[k] \in Nat
      BY <2>2, <3>2 DEF Corners
    <3> HIDE DEF j
    <3>4. Max(1 .. j) = j /\ (1 .. j) \ {j} = 1 .. k
      BY <3>2, LastOfFirst
    <3>5. 1 .. j \in SUBSET S /\ 1 .. j # {}
      <4>1. \A i \in 1 .. j : i \in 1 .. N
        BY <1>1, <3>1, <3>2
      <4>2. j \in 1 .. j
        BY <3>2
      <4>3. QED
        BY <4>1, <4>2
    <3>6. z[j] = j
      BY <1>4, <3>2
    <3> HIDE DEF S
    <3>7. g[1 .. j] = Add(g[1 .. k], j)
      BY <1>7, <3>4, <3>5, <3>6
    <3>8. c[j] = c[k] + Along(q[j], d, j)
      BY <3>2 DEF Corners, S
    <3>9. QED
      BY <1>3, <3>2, <3>3, <3>7, <3>8
  <2>3. N \in P
    <3> HIDE DEF P
    <3>1. QED
      BY <1>1, <2>1, <2>2, EveryNat
  <2>4. QED
    BY <1>1, <2>3
<1> HIDE DEF rule
<1>8. QED
  BY <1>5, <1>6, <1>7

(* Lengths and corners are naturals.                                        *)
LEMMA BoxType ==
  ASSUME NEW q \in Quads
  PROVE  /\ Length(q) \in Nat /\ Length(q) >= 1
         /\ \A d \in Dims : Lower(q, d) \in Nat
<1>1. LevelMax - level(q) \in 0 .. LevelMax
  BY PathOf
<1>2. Length(q) \in Nat /\ Length(q) >= 1
  BY <1>1, LengthsAre DEF Length
<1>3. ASSUME NEW d \in Dims PROVE Lower(q, d) \in Nat
  <2>1. PICK c : Corners(q, d, c)
    BY CornersExist
  <2>2. Len(q) \in 0 .. Len(q)
    BY PathOf
  <2>3. c[Len(q)] \in Nat
    BY <2>1, <2>2 DEF Corners
  <2>4. QED
    BY <2>1, <2>3, LowerIs
<1>4. QED
  BY <1>2, <1>3

(* A child has half the length of the quadrant, and begins where it begins  *)
(* or half way.                                                             *)
LEMMA ChildBox ==
  ASSUME NEW q \in Quads, level(q) < LevelMax, NEW k \in ChildIds
  PROVE  /\ Length(q) = 2 * Length(Append(q, k))
         /\ \A d \in Dims :
               /\ Bit(k, d) \in {0, 1}
               /\ Lower(Append(q, k), d) =
                     Lower(q, d) + (IF Bit(k, d) = 0 THEN 0 ELSE Length(Append(q, k)))
<1> DEFINE x == Append(q, k)
           N == Len(q)
<1>1. /\ x \in Quads /\ Len(x) = N + 1 /\ x[N + 1] = k /\ \A i \in 1 .. N : x[i] = q[i]
  BY ChildIs
<1>2. /\ N \in Nat /\ LevelMax \in Nat /\ N < LevelMax /\ level(q) = N /\ level(x) = N + 1
  BY <1>1, PathOf
<1> HIDE DEF x, N
<1>3. Length(q) = Lengths[LevelMax - N] /\ Length(x) = Lengths[LevelMax - (N + 1)]
  BY <1>2 DEF Length
<1>4. Length(q) = 2 * Length(x)
  <2> DEFINE m == LevelMax - N
  <2>1. m \in 1 .. LevelMax /\ m - 1 = LevelMax - (N + 1)
    BY <1>2
  <2> HIDE DEF m
  <2>2. Lengths[m] = 2 * Lengths[m - 1]
    BY <2>1, LengthsAre
  <2>3. QED
    BY <1>3, <2>1, <2>2 DEF m
<1>5. ASSUME NEW d \in Dims
      PROVE  /\ Bit(k, d) \in {0, 1}
             /\ Lower(x, d) = Lower(q, d) + (IF Bit(k, d) = 0 THEN 0 ELSE Length(x))
  <2>1. PICK c : Corners(x, d, c)
    BY <1>1, CornersExist
  <2>2. Lower(x, d) = c[N + 1]
    BY <1>1, <2>1, LowerIs
  <2>3. /\ c \in [0 .. N + 1 -> Nat] /\ c[0] = 0
        /\ \A i \in 1 .. N + 1 : c[i] = c[i - 1] + Along(x[i], d, i)
    BY <1>1, <2>1 DEF Corners
  <2> DEFINE b == [i \in 0 .. N |-> c[i]]
  <2>4. Corners(q, d, b)
    <3>1. \A i \in 0 .. N : i \in 0 .. N + 1
      BY <1>2
    <3>2. b \in [0 .. N -> Nat] /\ b[0] = 0
      BY <1>2, <2>3, <3>1
    <3>3. ASSUME NEW i \in 1 .. N PROVE b[i] = b[i - 1] + Along(q[i], d, i)
      <4>1. i \in 0 .. N /\ i - 1 \in 0 .. N /\ i \in 1 .. N + 1 /\ x[i] = q[i]
        BY <1>1, <1>2
      <4>2. c[i] = c[i - 1] + Along(q[i], d, i)
        BY <2>3, <4>1
      <4>3. QED
        BY <4>1, <4>2
    <3> HIDE DEF b
    <3>4. QED
      BY <3>2, <3>3 DEF Corners, N
  <2>5. Lower(q, d) = c[N]
    <3>1. Lower(q, d) = b[Len(q)]
      <4> HIDE DEF b
      <4>1. QED
        BY <2>4, LowerIs
    <3>2. N \in 0 .. N
      BY <1>2
    <3>3. QED
      BY <3>1, <3>2 DEF N
  <2>6. Lower(x, d) = Lower(q, d) + Along(k, d, N + 1)
    <3> DEFINE m == N + 1
    <3>1. m \in 1 .. N + 1 /\ m - 1 = N
      BY <1>2
    <3> HIDE DEF m
    <3>2. c[m] = c[m - 1] + Along(x[m], d, m)
      BY <2>3, <3>1
    <3>3. QED
      BY <1>1, <2>2, <2>5, <3>1, <3>2 DEF m
  <2>7. N + 1 \in 1 .. LevelMax
    BY <1>2
  <2>8. /\ Bit(k, d) \in {0, 1}
        /\ Along(k, d, N + 1) = IF Bit(k, d) = 0 THEN 0 ELSE Lengths[LevelMax - (N + 1)]
    BY <2>7, AlongIs
  <2>9. QED
    BY <1>3, <2>6, <2>8
<1>6. QED
  BY <1>4, <1>5 DEF x

(* What is in a quadrant is in its box.                                     *)
LEMMA BoxInside ==
  ASSUME NEW a \in Quads, NEW x \in Quads, IsPrefix(a, x), NEW d \in Dims
  PROVE  Lower(a, d) <= Lower(x, d) /\ Lower(x, d) + Length(x) <= Lower(a, d) + Length(a)
<1> DEFINE Inside(y) == Lower(a, d) <= Lower(y, d) /\ Lower(y, d) + Length(y) <= Lower(a, d) + Length(a)
           P == {n \in Nat : \A y \in Quads : IsPrefix(a, y) /\ Len(y) = Len(a) + n => Inside(y)}
<1>1. 0 \in P
  <2>1. ASSUME NEW y \in Quads, IsPrefix(a, y), Len(y) = Len(a) + 0 PROVE Inside(y)
    <3>1. y = a
      BY <2>1, PathOf, SameLevel
    <3>2. QED
      BY <3>1, BoxType
  <2>2. QED
    BY <2>1
<1>2. ASSUME NEW n \in Nat, n \in P PROVE n + 1 \in P
  <2>1. ASSUME NEW y \in Quads, IsPrefix(a, y), Len(y) = Len(a) + (n + 1) PROVE Inside(y)
    <3> DEFINE f == father(y)
               k == y[Len(y)]
    <3>1. Len(a) \in Nat /\ level(y) = Len(y) /\ level(y) > 0 /\ Len(y) - 1 = Len(a) + n
      BY <2>1, PathOf
    <3>2. /\ f \in Quads /\ Len(f) = Len(a) + n /\ level(f) < LevelMax /\ IsPrefix(f, y)
          /\ k \in ChildIds /\ y = Append(f, k)
      BY <3>1, FatherIs
    <3> HIDE DEF f, k
    <3>3. IsPrefix(a, f)
      BY <2>1, <3>1, <3>2, Nested
    <3>4. Inside(f)
      BY <1>2, <3>2, <3>3
    <3>5. /\ Length(f) = 2 * Length(y) /\ Bit(k, d) \in {0, 1}
          /\ Lower(y, d) = Lower(f, d) + (IF Bit(k, d) = 0 THEN 0 ELSE Length(y))
      BY <3>2, ChildBox
    <3>6. /\ Lower(f, d) \in Nat /\ Lower(y, d) \in Nat /\ Lower(a, d) \in Nat
          /\ Length(f) \in Nat /\ Length(y) \in Nat /\ Length(a) \in Nat
      BY <3>2, BoxType
    <3>7. QED
      BY <3>4, <3>5, <3>6
  <2>2. QED
    BY <2>1
<1>3. \A n \in Nat : n \in P
  <2> HIDE DEF P
  <2>1. QED
    BY <1>1, <1>2, EveryNat
<1>4. Len(x) - Len(a) \in Nat /\ Len(x) = Len(a) + (Len(x) - Len(a))
  BY PathOf, PrefixIs
<1>5. QED
  BY <1>3, <1>4

(* Quadrants that contain others that touch do touch.                       *)
LEMMA AdjacentAbove ==
  ASSUME NEW a \in Quads, NEW b \in Quads, NEW x \in Quads, NEW y \in Quads,
         Adjacent(x, y), IsPrefix(a, x), IsPrefix(b, y)
  PROVE  Adjacent(a, b)
<1>1. ASSUME NEW d \in Dims
      PROVE  /\ Lower(a, d) <= Lower(b, d) + Length(b)
             /\ Lower(b, d) <= Lower(a, d) + Length(a)
  <2>1. /\ Lower(a, d) \in Nat /\ Lower(b, d) \in Nat /\ Lower(x, d) \in Nat /\ Lower(y, d) \in Nat
        /\ Length(a) \in Nat /\ Length(b) \in Nat /\ Length(x) \in Nat /\ Length(y) \in Nat
    BY BoxType
  <2>2. Lower(a, d) <= Lower(x, d) /\ Lower(x, d) + Length(x) <= Lower(a, d) + Length(a)
    BY BoxInside
  <2>3. Lower(b, d) <= Lower(y, d) /\ Lower(y, d) + Length(y) <= Lower(b, d) + Length(b)
    BY BoxInside
  <2>4. Lower(x, d) <= Lower(y, d) + Length(y) /\ Lower(y, d) <= Lower(x, d) + Length(x)
    BY DEF Adjacent
  <2>5. QED
    BY <2>1, <2>2, <2>3, <2>4
<1>2. QED
  BY <1>1 DEF Adjacent

LEMMA AdjacentBoth == \A a, b : Adjacent(a, b) <=> Adjacent(b, a)
BY DEF Adjacent

(* The child on the asked side in every direction.                          *)
LEMMA ChildOnSide ==
  ASSUME NEW b \in [Dims -> {0, 1}]
  PROVE  \E k \in ChildIds : \A d \in Dims : Bit(k, d) = b[d]
<1>1. 2 ^ 0 = 1 /\ 2 ^ 1 = 2 /\ 2 ^ 2 = 4 /\ 2 ^ 3 = 8
  OBVIOUS
<1>2. CASE Dim = 2
  <2> DEFINE k == b[0] + 2 * b[1]
  <2>1. b[0] \in {0, 1} /\ b[1] \in {0, 1}
    BY <1>2 DEF Dims
  <2>2. k \in 0 .. 3 /\ (k \div 1) % 2 = b[0] /\ (k \div 2) % 2 = b[1]
    BY <2>1
  <2> HIDE DEF k
  <2>3. k \in ChildIds /\ Bit(k, 0) = b[0] /\ Bit(k, 1) = b[1]
    BY <1>1, <1>2, <2>2 DEF ChildIds, NB_CHILDREN, Bit
  <2>4. \A d \in Dims : d = 0 \/ d = 1
    BY <1>2 DEF Dims
  <2>5. \A d \in Dims : Bit(k, d) = b[d]
    BY <2>3, <2>4
  <2>6. QED
    BY <2>3, <2>5
<1>3. CASE Dim = 3
  <2> DEFINE k == b[0] + 2 * b[1] + 4 * b[2]
  <2>1. b[0] \in {0, 1} /\ b[1] \in {0, 1} /\ b[2] \in {0, 1}
    BY <1>3 DEF Dims
  <2>2. k \in 0 .. 7 /\ (k \div 1) % 2 = b[0] /\ (k \div 2) % 2 = b[1] /\ (k \div 4) % 2 = b[2]
    BY <2>1
  <2> HIDE DEF k
  <2>3. k \in ChildIds /\ Bit(k, 0) = b[0] /\ Bit(k, 1) = b[1] /\ Bit(k, 2) = b[2]
    BY <1>1, <1>3, <2>2 DEF ChildIds, NB_CHILDREN, Bit
  <2>4. \A d \in Dims : d = 0 \/ d = 1 \/ d = 2
    BY <1>3 DEF Dims
  <2>5. \A d \in Dims : Bit(k, d) = b[d]
    BY <2>3, <2>4
  <2>6. QED
    BY <2>3, <2>5
<1>4. QED
  BY <1>2, <1>3, QuadAssumption

(* What touches a quadrant touches one of its children.                     *)
LEMMA TouchedChild ==
  ASSUME NEW a \in Quads, level(a) < LevelMax, NEW c \in Quads, Adjacent(a, c)
  PROVE  \E x \in ToSet(all_children(a)) : Adjacent(x, c)
<1> DEFINE h == Length(Append(a, 0))
           b == [d \in Dims |-> IF Lower(c, d) <= Lower(a, d) + h THEN 0 ELSE 1]
<1>1. b \in [Dims -> {0, 1}]
  OBVIOUS
<1>2. PICK k \in ChildIds : \A d \in Dims : Bit(k, d) = b[d]
  <2> HIDE DEF b
  <2>1. QED
    BY <1>1, ChildOnSide
<1> DEFINE x == Append(a, k)
<1>3. 0 \in ChildIds
  BY ChildrenCount DEF ChildIds
<1>4. x \in Quads /\ x \in ToSet(all_children(a)) /\ Append(a, 0) \in Quads
  BY <1>3, ChildIs, ChildSet
<1>5. Length(x) = h /\ Length(a) = 2 * h /\ h \in Nat
  <2>1. Length(a) = 2 * Length(x) /\ Length(a) = 2 * h
    BY <1>3, ChildBox
  <2>2. Length(x) \in Nat /\ h \in Nat
    BY <1>4, BoxType
  <2> HIDE DEF x, h
  <2>3. QED
    BY <2>1, <2>2
<1>6. ASSUME NEW d \in Dims
      PROVE  /\ Lower(x, d) <= Lower(c, d) + Length(c)
             /\ Lower(c, d) <= Lower(x, d) + Length(x)
  <2>1. Lower(x, d) = Lower(a, d) + (IF Bit(k, d) = 0 THEN 0 ELSE Length(x))
    BY ChildBox
  <2>2. Bit(k, d) = IF Lower(c, d) <= Lower(a, d) + h THEN 0 ELSE 1
    BY <1>2
  <2>3. Lower(a, d) <= Lower(c, d) + Length(c) /\ Lower(c, d) <= Lower(a, d) + Length(a)
    BY DEF Adjacent
  <2>4. Lower(a, d) \in Nat /\ Lower(c, d) \in Nat /\ Length(c) \in Nat
    BY BoxType
  <2> HIDE DEF x, h
  <2>5. CASE Lower(c, d) <= Lower(a, d) + h
    <3>1. Lower(x, d) = Lower(a, d)
      BY <2>1, <2>2, <2>4, <2>5
    <3>2. QED
      BY <1>5, <2>3, <2>4, <2>5, <3>1
  <2>6. CASE ~ (Lower(c, d) <= Lower(a, d) + h)
    <3>1. Lower(x, d) = Lower(a, d) + h
      BY <1>5, <2>1, <2>2, <2>6
    <3>2. QED
      BY <1>5, <2>3, <2>4, <2>6, <3>1
  <2>7. QED
    BY <2>5, <2>6
<1>7. Adjacent(x, c)
  BY <1>6 DEF Adjacent
<1>8. QED
  BY <1>4, <1>7

----------------------------------------------------------------------------
(* Balanced meshes                                                          *)

(* No leaf contains another.                                                *)
Leafy(leaves) == leaves \subseteq Quads /\ \A a, b \in leaves : Overlap(a, b) => a = b

(* In a complete mesh, the child of a quadrant that is not a leaf is one or  *)
(* contains some.                                                           *)
LEMMA ChildInTree ==
  ASSUME NEW M, Leafy(M), IsComplete(M), NEW x \in M, NEW u \in Quads, IsPrefix(u, x), u # x,
         level(u) < LevelMax, NEW y \in ToSet(all_children(u))
  PROVE  \E z \in M : IsPrefix(y, z)
<1>1. x \in Quads /\ y \in Quads /\ Len(y) = Len(u) + 1 /\ IsPrefix(u, y)
  BY FatherOfChild DEF Leafy
<1>2. PICK z \in M : Overlap(z, y)
  BY <1>1 DEF IsComplete
<1>3. z \in Quads
  BY DEF Leafy
<1>4. SUFFICES ASSUME IsPrefix(z, y), ~ IsPrefix(y, z) PROVE FALSE
  BY <1>2 DEF Overlap
<1>5. /\ Len(z) \in Nat /\ Len(u) \in Nat /\ Len(x) \in Nat /\ Len(z) <= Len(y)
      /\ Len(z) # Len(y)
  <2>1. Len(z) \in Nat /\ Len(u) \in Nat /\ Len(x) \in Nat /\ Len(z) <= Len(y)
    BY <1>1, <1>3, <1>4, PathOf, PrefixIs
  <2>2. Len(z) # Len(y)
    <3>1. SUFFICES ASSUME Len(z) = Len(y) PROVE FALSE
      OBVIOUS
    <3>2. z = y
      BY <1>1, <1>3, <1>4, <3>1, SameLevel
    <3>3. QED
      BY <1>1, <1>4, <3>2, Containment
  <2>3. QED
    BY <2>1, <2>2
<1>6. IsPrefix(z, u)
  BY <1>1, <1>3, <1>4, <1>5, Nested
<1>7. z = x
  <2>1. IsPrefix(z, x)
    BY <1>1, <1>3, <1>6, Containment
  <2>2. QED
    BY <2>1 DEF Leafy, Overlap
<1>8. Len(u) = Len(x)
  BY <1>1, <1>3, <1>5, <1>6, <1>7, PrefixIs
<1>9. QED
  BY <1>1, <1>8, SameLevel

(* In a complete mesh, what touches a leaf and is two levels finer has a     *)
(* leaf that touches it: a balanced mesh is graded.                         *)
LEMMA BalancedGraded ==
  ASSUME NEW M, Leafy(M), IsComplete(M), IsBalanced(M)
  PROVE  Graded(M)
<1>1. \A q \in M : q \in Quads /\ level(q) = Len(q) /\ Len(q) \in Nat /\ Len(q) <= LevelMax
  BY PathOf DEF Leafy
<1>2. LevelMax \in Nat
  BY QuadAssumption
<1> SUFFICES ASSUME NEW q \in M, NEW x \in M, NEW n \in level(q) + 2 .. level(x),
                    Adjacent(SubSeq(x, 1, n), q)
             PROVE  FALSE
  BY DEF Graded
<1> DEFINE Far(u) == u \in Quads /\ Len(u) >= Len(q) + 2 /\ Adjacent(u, q)
                     /\ \E z \in M : IsPrefix(u, z)
           P == {m \in Nat : \A u \in Quads : Far(u) => Len(u) + m # LevelMax}
<1>3. ASSUME NEW u \in Quads, Far(u)
      PROVE  \E y \in Quads : Len(y) = Len(u) + 1 /\ Far(y)
  <2>1. PICK z \in M : IsPrefix(u, z)
    BY <1>3
  <2>2. u # z
    <3>1. SUFFICES ASSUME u = z PROVE FALSE
      OBVIOUS
    <3>2. z \in Touching[q] \cap M
      BY <1>1, <1>3, <3>1 DEF Touching
    <3>3. level(z) <= level(q) + 1
      BY <3>2 DEF IsBalanced
    <3>4. QED
      BY <1>1, <1>3, <3>1, <3>3
  <2>3. Len(u) \in Nat /\ level(u) = Len(u) /\ Len(u) < LevelMax
    <3>1. Len(u) \in Nat /\ level(u) = Len(u) /\ Len(u) <= LevelMax
      BY PathOf
    <3>2. Len(u) <= Len(z) /\ Len(z) <= LevelMax
      BY <1>1, <2>1, PrefixIs
    <3>3. Len(u) # Len(z) /\ Len(z) \in Nat
      BY <1>1, <2>1, <2>2, SameLevel
    <3>4. Len(u) < LevelMax
      BY <1>2, <3>1, <3>2, <3>3
    <3>5. QED
      BY <3>1, <3>4
  <2>4. PICK y \in ToSet(all_children(u)) : Adjacent(y, q)
    BY <1>1, <1>3, <2>3, TouchedChild
  <2>5. y \in Quads /\ Len(y) = Len(u) + 1
    BY <2>3, FatherOfChild
  <2>6. \E w \in M : IsPrefix(y, w)
    BY <2>1, <2>2, <2>3, ChildInTree
  <2>7. Len(q) \in Nat
    BY <1>1
  <2>8. QED
    BY <1>3, <2>3, <2>4, <2>5, <2>6, <2>7
<1>4. \A u \in Quads : Len(u) \in Nat /\ Len(u) <= LevelMax
  BY PathOf
<1>5. 0 \in P
  <2>1. ASSUME NEW u \in Quads, Far(u), Len(u) + 0 = LevelMax PROVE FALSE
    <3>1. PICK y \in Quads : Len(y) = Len(u) + 1
      BY <1>3, <2>1
    <3>2. QED
      BY <1>2, <1>4, <2>1, <3>1
  <2>2. QED
    BY <2>1
<1>6. ASSUME NEW m \in Nat, m \in P PROVE m + 1 \in P
  <2>1. ASSUME NEW u \in Quads, Far(u), Len(u) + (m + 1) = LevelMax PROVE FALSE
    <3>1. PICK y \in Quads : Len(y) = Len(u) + 1 /\ Far(y)
      BY <1>3, <2>1
    <3>2. Len(y) + m = LevelMax
      BY <1>2, <1>4, <2>1, <3>1
    <3>3. QED
      BY <1>6, <3>1, <3>2
  <2> HIDE DEF Far
  <2>2. QED
    BY <2>1
<1>7. \A m \in Nat : m \in P
  <2> HIDE DEF P
  <2>1. QED
    BY <1>5, <1>6, EveryNat
<1> DEFINE u == SubSeq(x, 1, n)
<1>8. n \in 0 .. Len(x) /\ n >= Len(q) + 2
  BY <1>1
<1>9. u \in Quads /\ Len(u) = n /\ IsPrefix(u, x)
  BY <1>1, <1>8, Ancestor
<1>10. Far(u)
  BY <1>8, <1>9
<1> HIDE DEF u, Far
<1>11. LevelMax - Len(u) \in Nat /\ Len(u) + (LevelMax - Len(u)) = LevelMax
  BY <1>2, <1>4, <1>9
<1>12. QED
  BY <1>7, <1>9, <1>10, <1>11

(* What the balance splits: the quadrants of the mesh that are not leaves of *)
(* it, and what touches one that is split and half its size.                *)
LEMMA SplitIs ==
  ASSUME NEW M, M \subseteq Quads
  PROVE  /\ Split(M) \subseteq Quads
         /\ \A p \in Split(M) : level(p) < LevelMax
         /\ \A x \in M : \A n \in 0 .. Len(x) - 1 : SubSeq(x, 1, n) \in Split(M)
         /\ \A p \in Split(M), u \in Quads :
               Len(p) = Len(u) + 1 /\ Adjacent(p, u) => u \in Split(M)
<1>1. PICK h : SplitBy(M, h) /\ Split(M) = UNION {h[l] : l \in 0 .. LevelMax}
  BY SplitLevels
<1>2. LevelMax \in Nat
  BY QuadAssumption
<1>3. ASSUME NEW l \in 0 .. LevelMax, l # LevelMax
      PROVE  h[l] = {p \in QuadsAt(l) : p \in Inner(M) \/ Touching[p] \cap h[l + 1] # {}}
  BY <1>1, <1>3 DEF SplitBy
<1>4. h[LevelMax] = {}
  BY <1>1, <1>2 DEF SplitBy
<1>5. ASSUME NEW p \in Split(M)
      PROVE  /\ Len(p) \in 0 .. LevelMax /\ Len(p) # LevelMax /\ p \in h[Len(p)]
  <2>1. PICK l \in 0 .. LevelMax : p \in h[l]
    BY <1>1
  <2>2. l # LevelMax
    BY <1>4, <2>1
  <2>3. p \in [1 .. l -> ChildIds] /\ l \in Nat
    BY <1>3, <2>1, <2>2 DEF QuadsAt
  <2>4. Len(p) = l
    BY <2>3
  <2>5. QED
    BY <2>1, <2>2, <2>4
<1>6. Split(M) \subseteq Quads
  BY SplitType
<1>7. \A p \in Split(M) : level(p) < LevelMax
  BY <1>2, <1>5 DEF level
<1>8. ASSUME NEW u \in Quads
      PROVE  u \in QuadsAt(Len(u)) /\ Len(u) \in 0 .. LevelMax
  BY PathOf DEF QuadsAt
<1>9. ASSUME NEW x \in M, NEW n \in 0 .. Len(x) - 1 PROVE SubSeq(x, 1, n) \in Split(M)
  <2> DEFINE u == SubSeq(x, 1, n)
  <2>1. x \in Quads /\ Len(x) \in Nat /\ Len(x) <= LevelMax /\ level(x) = Len(x)
    BY PathOf
  <2>2. n \in 0 .. Len(x) /\ n \in 0 .. LevelMax /\ n # LevelMax
    BY <1>2, <2>1
  <2>3. u \in Quads /\ Len(u) = n
    BY <2>1, <2>2, Ancestor
  <2>4. u \in Inner(M)
    BY <2>1 DEF Inner
  <2> HIDE DEF u
  <2>5. u \in h[n]
    BY <1>3, <1>8, <2>2, <2>3, <2>4
  <2>6. QED
    BY <1>1, <2>2, <2>5 DEF u
<1>10. ASSUME NEW p \in Split(M), NEW u \in Quads, Len(p) = Len(u) + 1, Adjacent(p, u)
       PROVE  u \in Split(M)
  <2>1. Len(u) \in 0 .. LevelMax /\ Len(u) # LevelMax /\ p \in h[Len(u) + 1]
    BY <1>2, <1>5, <1>8, <1>10
  <2>2. p \in Touching[u]
    BY <1>6, <1>10 DEF Touching
  <2>3. u \in h[Len(u)]
    BY <1>3, <1>8, <2>1, <2>2
  <2>4. QED
    BY <1>1, <2>1, <2>3
<1>11. QED
  BY <1>6, <1>7, <1>9, <1>10

(* It is the least such set.                                                *)
LEMMA SplitLeast ==
  ASSUME NEW M, M \subseteq Quads, NEW B,
         \A x \in M : \A n \in 0 .. Len(x) - 1 : SubSeq(x, 1, n) \in B,
         \A p \in B, u \in Quads :
            p \in Quads /\ Len(p) = Len(u) + 1 /\ Adjacent(p, u) => u \in B
  PROVE  Split(M) \subseteq B
<1>1. PICK h : SplitBy(M, h) /\ Split(M) = UNION {h[l] : l \in 0 .. LevelMax}
  BY SplitLevels
<1>2. LevelMax \in Nat
  BY QuadAssumption
<1>3. ASSUME NEW l \in 0 .. LevelMax, l # LevelMax
      PROVE  h[l] = {p \in QuadsAt(l) : p \in Inner(M) \/ Touching[p] \cap h[l + 1] # {}}
  BY <1>1, <1>3 DEF SplitBy
<1>4. h[LevelMax] = {}
  BY <1>1, <1>2 DEF SplitBy
<1>5. Inner(M) \subseteq B
  <2>1. ASSUME NEW x \in M PROVE {SubSeq(x, 1, n) : n \in 0 .. level(x) - 1} \subseteq B
    <3>1. level(x) = Len(x)
      BY PathOf
    <3>2. QED
      BY <3>1
  <2>2. QED
    BY <2>1 DEF Inner
<1> DEFINE P == {m \in Nat : m <= LevelMax => h[LevelMax - m] \subseteq B}
<1>6. 0 \in P
  BY <1>2, <1>4
<1>7. ASSUME NEW m \in Nat, m \in P PROVE m + 1 \in P
  <2> DEFINE l == LevelMax - (m + 1)
  <2>1. SUFFICES ASSUME m + 1 <= LevelMax PROVE h[l] \subseteq B
    OBVIOUS
  <2>2. l \in 0 .. LevelMax /\ l # LevelMax /\ l + 1 = LevelMax - m /\ m <= LevelMax /\ l \in Nat
    BY <1>2, <2>1
  <2>3. h[l + 1] \subseteq B
    BY <1>7, <2>2
  <2> HIDE DEF l
  <2>4. ASSUME NEW p \in h[l] PROVE p \in B
    <3>1. p \in QuadsAt(l) /\ (p \in Inner(M) \/ Touching[p] \cap h[l + 1] # {})
      BY <1>3, <2>2
    <3>2. CASE p \in Inner(M)
      BY <1>5, <3>2
    <3>3. CASE Touching[p] \cap h[l + 1] # {}
      <4>1. p \in Quads /\ Len(p) = l
        <5>1. p \in [1 .. l -> ChildIds]
          BY <3>1 DEF QuadsAt
        <5>2. Len(p) = l
          BY <2>2, <5>1
        <5>3. QED
          BY <2>2, <3>1, <5>2 DEF Quads
      <4>2. PICK u \in Touching[p] : u \in h[l + 1]
        BY <3>3
      <4>3. u \in Quads /\ Adjacent(u, p) /\ u \in B
        BY <2>3, <4>1, <4>2 DEF Touching
      <4>4. Len(u) = l + 1
        <5>1. l + 1 \in 0 .. LevelMax /\ l + 1 # LevelMax
          BY <1>2, <1>4, <2>2, <4>2
        <5>2. u \in [1 .. l + 1 -> ChildIds]
          BY <1>3, <4>2, <5>1 DEF QuadsAt
        <5>3. QED
          BY <2>2, <5>2
      <4>5. QED
        BY <4>1, <4>3, <4>4
    <3>4. QED
      BY <3>1, <3>2, <3>3
  <2>5. QED
    BY <2>4
<1>8. \A m \in Nat : m \in P
  <2> HIDE DEF P
  <2>1. QED
    BY <1>6, <1>7, EveryNat
<1>9. ASSUME NEW l \in 0 .. LevelMax PROVE h[l] \subseteq B
  <2>1. LevelMax - l \in Nat /\ LevelMax - l <= LevelMax /\ LevelMax - (LevelMax - l) = l
    BY <1>2
  <2>2. QED
    BY <1>8, <2>1
<1>10. QED
  BY <1>1, <1>9

----------------------------------------------------------------------------
(* Sequences in Morton order                                                *)

(* The entries of two sequences, joined.                                    *)
LEMMA JoinedSet ==
  ASSUME NEW X, NEW s \in Seq(X), NEW t \in Seq(X)
  PROVE  ToSet(s \o t) = ToSet(s) \cup ToSet(t)
<1> DEFINE u == s \o t
           m == Len(s)
           n == Len(t)
<1>1. m \in Nat /\ n \in Nat /\ DOMAIN s = 1 .. m /\ DOMAIN t = 1 .. n
  OBVIOUS
<1>2. u \in Seq(X) /\ Len(u) = m + n /\ \A i \in 1 .. m + n : u[i] = IF i <= m THEN s[i] ELSE t[i - m]
  BY ConcatProperties
<1> HIDE DEF u, m, n
<1>3. DOMAIN u = 1 .. m + n
  BY <1>2
<1>4. ToSet(u) = {u[i] : i \in DOMAIN u} /\ ToSet(s) = {s[i] : i \in DOMAIN s}
      /\ ToSet(t) = {t[i] : i \in DOMAIN t}
  BY DEF ToSet
<1>5. ASSUME NEW i \in 1 .. m + n PROVE u[i] \in {s[j] : j \in DOMAIN s} \cup {t[j] : j \in DOMAIN t}
  <2>1. CASE i <= m
    <3>1. i \in DOMAIN s /\ u[i] = s[i]
      BY <1>1, <1>2, <2>1
    <3>2. QED
      BY <3>1
  <2>2. CASE ~ (i <= m)
    <3>1. i - m \in 1 .. n /\ u[i] = t[i - m]
      BY <1>1, <1>2, <2>2
    <3>2. QED
      BY <1>1, <3>1
  <2>3. QED
    BY <2>1, <2>2
<1>6. ASSUME NEW j \in 1 .. m PROVE s[j] \in {u[i] : i \in DOMAIN u}
  <2>1. j \in 1 .. m + n /\ u[j] = s[j]
    BY <1>1, <1>2
  <2>2. QED
    BY <1>3, <2>1
<1>7. ASSUME NEW j \in 1 .. n PROVE t[j] \in {u[i] : i \in DOMAIN u}
  <2> DEFINE i == m + j
  <2>1. i \in 1 .. m + n /\ ~ (i <= m) /\ i - m = j
    BY <1>1
  <2> HIDE DEF i
  <2>2. u[i] = t[j]
    BY <1>2, <2>1
  <2>3. QED
    BY <1>3, <2>1, <2>2
<1>8. {u[i] : i \in DOMAIN u} = {s[j] : j \in DOMAIN s} \cup {t[j] : j \in DOMAIN t}
  BY <1>1, <1>3, <1>5, <1>6, <1>7
<1>9. QED
  BY <1>4, <1>8 DEF u

(* One sequence of quadrants after another it comes after.                  *)
LEMMA JoinedInOrder ==
  ASSUME NEW s \in Seq(Quads), NEW t \in Seq(Quads), InOrder(s), InOrder(t),
         \A i \in DOMAIN s : \A j \in DOMAIN t : Before(s[i], t[j])
  PROVE  InOrder(s \o t)
<1> DEFINE u == s \o t
           m == Len(s)
           n == Len(t)
<1>1. m \in Nat /\ n \in Nat /\ DOMAIN s = 1 .. m /\ DOMAIN t = 1 .. n
  OBVIOUS
<1>2. u \in Seq(Quads) /\ Len(u) = m + n
      /\ \A i \in 1 .. m + n : u[i] = IF i <= m THEN s[i] ELSE t[i - m]
  BY ConcatProperties
<1> HIDE DEF u, m, n
<1>3. DOMAIN u = 1 .. m + n
  BY <1>2
<1>4. ASSUME NEW i \in 1 .. m + n, ~ (i <= m) PROVE i - m \in DOMAIN t /\ u[i] = t[i - m]
  BY <1>1, <1>2, <1>4
<1>5. ASSUME NEW i \in 1 .. m + n, i <= m PROVE i \in DOMAIN s /\ u[i] = s[i]
  BY <1>1, <1>2, <1>5
<1>6. ASSUME NEW i \in 1 .. m + n, NEW j \in 1 .. m + n, i < j PROVE Before(u[i], u[j])
  <2>1. CASE j <= m
    <3>1. i <= m
      BY <1>1, <1>6, <2>1
    <3>2. QED
      BY <1>5, <1>6, <2>1, <3>1 DEF InOrder
  <2>2. CASE i <= m /\ ~ (j <= m)
    BY <1>4, <1>5, <2>2
  <2>3. CASE ~ (i <= m) /\ ~ (j <= m)
    <3>1. i - m < j - m
      BY <1>1, <1>6
    <3>2. QED
      BY <1>4, <2>3, <3>1 DEF InOrder
  <2>4. QED
    BY <2>1, <2>2, <2>3
<1>7. QED
  BY <1>3, <1>6 DEF InOrder, u

(* What is in quadrants in order, one after the other, is in order.         *)
LEMMA FlattenInOrder ==
  ASSUME NEW roots \in Seq(Quads), InOrder(roots),
         NEW seqs \in Seq(Seq(Quads)), Len(seqs) = Len(roots),
         \A i \in 1 .. Len(roots) :
            InOrder(seqs[i]) /\ \A k \in DOMAIN seqs[i] : IsPrefix(roots[i], seqs[i][k])
  PROVE  /\ FlattenSeq(seqs) \in Seq(Quads)
         /\ InOrder(FlattenSeq(seqs))
         /\ ToSet(FlattenSeq(seqs)) = UNION {ToSet(seqs[i]) : i \in 1 .. Len(roots)}
<1> DEFINE n == Len(seqs)
           Upto(i) == UNION {ToSet(seqs[m]) : m \in 1 .. i}
           sets == [i \in 1 .. n |-> {s \in Seq(Quads) : InOrder(s) /\ ToSet(s) = Upto(i)}]
<1>1. n \in Nat /\ DOMAIN roots = 1 .. n /\ \A i \in 1 .. n : roots[i] \in Quads
  OBVIOUS
<1>2. \A i \in 1 .. n : /\ seqs[i] \in Seq(Quads) /\ InOrder(seqs[i])
                        /\ \A k \in DOMAIN seqs[i] : IsPrefix(roots[i], seqs[i][k])
  BY <1>1
<1>3. CASE n = 0
  <2>1. seqs = <<>> /\ <<>> \in Seq(Quads) /\ DOMAIN <<>> = {} /\ 1 .. 0 = {}
    BY <1>3
  <2>2. FlattenSeq(seqs) = <<>>
    BY <1>3, <2>1 DEF FlattenSeq
  <2>3. ToSet(<<>>) = {} /\ InOrder(<<>>)
    BY <2>1 DEF ToSet, InOrder
  <2>4. UNION {ToSet(seqs[i]) : i \in 1 .. Len(roots)} = {}
    BY <1>3, <2>1
  <2>5. QED
    BY <2>1, <2>2, <2>3, <2>4
<1>4. CASE n # 0
  <2>1. seqs[1] \in sets[1]
    <3>1. 1 \in 1 .. n /\ 1 .. 1 = {1}
      BY <1>1, <1>4
    <3>2. Upto(1) = ToSet(seqs[1])
      BY <3>1
    <3> HIDE DEF Upto
    <3>3. QED
      BY <1>2, <3>1, <3>2
  <2>2. ASSUME NEW i \in 2 .. n, NEW v \in sets[i - 1] PROVE v \o seqs[i] \in sets[i]
    <3> DEFINE w == seqs[i]
    <3>1. i \in 1 .. n /\ i - 1 \in 1 .. n /\ 1 .. i = (1 .. i - 1) \cup {i}
      BY <1>1
    <3>2. v \in Seq(Quads) /\ InOrder(v) /\ ToSet(v) = Upto(i - 1)
      <4> HIDE DEF Upto
      <4>1. QED
        BY <3>1
    <3>3. w \in Seq(Quads) /\ InOrder(w) /\ \A k \in DOMAIN w : IsPrefix(roots[i], w[k])
      BY <1>2, <3>1
    <3>4. Upto(i) = Upto(i - 1) \cup ToSet(w)
      BY <3>1
    <3> HIDE DEF w
    <3>5. ASSUME NEW a \in DOMAIN v, NEW b \in DOMAIN w PROVE Before(v[a], w[b])
      <4>1. v[a] \in ToSet(v) /\ v[a] \in Quads /\ w[b] \in Quads
        BY <3>2, <3>3 DEF ToSet
      <4>2. PICK m \in 1 .. i - 1 : v[a] \in ToSet(seqs[m])
        BY <3>2, <4>1
      <4>3. m \in 1 .. n /\ m < i
        BY <1>1, <3>1, <4>2
      <4>4. IsPrefix(roots[m], v[a])
        BY <1>2, <4>2, <4>3 DEF ToSet
      <4>5. Before(roots[m], roots[i])
        BY <1>1, <3>1, <4>3 DEF InOrder
      <4>6. QED
        BY <1>1, <3>1, <3>3, <4>1, <4>3, <4>4, <4>5, BeforeBelow
    <3>6. v \o w \in Seq(Quads) /\ InOrder(v \o w) /\ ToSet(v \o w) = ToSet(v) \cup ToSet(w)
      <4>1. v \o w \in Seq(Quads)
        BY <3>2, <3>3
      <4>2. QED
        BY <3>2, <3>3, <3>5, <4>1, JoinedInOrder, JoinedSet
    <3> HIDE DEF Upto
    <3>7. v \o w \in sets[i]
      BY <3>1, <3>2, <3>4, <3>6
    <3>8. QED
      BY <3>7 DEF w
  <2>3. FlattenSeq(seqs) \in sets[n]
    <3> HIDE DEF sets
    <3>1. QED
      BY <1>4, <2>1, <2>2, FlattenIn
  <2>4. n \in 1 .. n
    BY <1>1, <1>4
  <2> HIDE DEF Upto
  <2>5. FlattenSeq(seqs) \in Seq(Quads) /\ InOrder(FlattenSeq(seqs)) /\ ToSet(FlattenSeq(seqs)) = Upto(n)
    BY <2>3, <2>4
  <2>6. QED
    BY <2>5 DEF Upto
<1>5. QED
  BY <1>3, <1>4

----------------------------------------------------------------------------
(* What the balance makes of a leaf                                         *)

(* Quadrants that fill q, none of which is to be split, while all between    *)
(* them and q are.                                                          *)
CutUp(split, q, leaves) ==
    /\ \A x \in leaves : /\ IsPrefix(q, x) /\ x \notin split
                         /\ \A n \in Len(q) .. Len(x) - 1 : SubSeq(x, 1, n) \in split
    /\ \A z \in Quads : Overlap(z, q) => \E x \in leaves : Overlap(x, z)

Cuttings(split, q) == {s \in Seq(Quads) : InOrder(s) /\ CutUp(split, q, ToSet(s))}

(* A quadrant that is not to be split is left as it is.                     *)
LEMMA Uncut ==
  ASSUME NEW split, NEW q \in Quads, q \notin split
  PROVE  <<q>> \in Cuttings(split, q)
<1>1. <<q>> \in Seq(Quads) /\ InOrder(<<q>>) /\ ToSet(<<q>>) = {q}
  BY DEF InOrder, ToSet
<1>2. IsPrefix(q, q) /\ Len(q) .. Len(q) - 1 = {}
  BY Containment, PathOf
<1>3. \A z \in Quads : Overlap(z, q) => Overlap(q, z)
  BY DEF Overlap
<1>4. CutUp(split, q, {q})
  BY <1>2, <1>3 DEF CutUp
<1>5. QED
  BY <1>1, <1>4 DEF Cuttings

(* One that is becomes what its children become.                            *)
LEMMA CutChildren ==
  ASSUME NEW split, NEW q \in Quads, level(q) < LevelMax, q \in split,
         NEW leaves, leaves \subseteq Quads,
         NEW parts, leaves = UNION {parts[y] : y \in ToSet(all_children(q))},
         \A y \in ToSet(all_children(q)) : CutUp(split, y, parts[y])
  PROVE  CutUp(split, q, leaves)
<1> DEFINE children == ToSet(all_children(q))
<1>1. \A y \in children : y \in Quads /\ Len(y) = Len(q) + 1 /\ IsPrefix(q, y)
  BY FatherOfChild
<1>2. Len(q) \in Nat
  BY PathOf
<1> HIDE DEF children
<1>3. ASSUME NEW x \in leaves
      PROVE  /\ IsPrefix(q, x) /\ x \notin split
             /\ \A n \in Len(q) .. Len(x) - 1 : SubSeq(x, 1, n) \in split
  <2>1. PICK y \in children : x \in parts[y]
    BY DEF children
  <2>2. /\ IsPrefix(y, x) /\ x \notin split
        /\ \A n \in Len(y) .. Len(x) - 1 : SubSeq(x, 1, n) \in split
    BY <2>1 DEF CutUp, children
  <2>3. y \in Quads /\ x \in Quads /\ Len(y) = Len(q) + 1 /\ IsPrefix(q, y) /\ Len(x) \in Nat
    BY <1>1, <2>1, PathOf
  <2>4. IsPrefix(q, x)
    BY <2>2, <2>3, Containment
  <2>5. SubSeq(x, 1, Len(q)) = q
    BY <2>3, <2>4, AncestorIs
  <2>6. ASSUME NEW n \in Len(q) .. Len(x) - 1 PROVE SubSeq(x, 1, n) \in split
    <3>1. n = Len(q) \/ n \in Len(y) .. Len(x) - 1
      BY <1>2, <2>3
    <3>2. QED
      BY <2>2, <2>5, <3>1
  <2>7. QED
    BY <2>2, <2>4, <2>6
<1>4. ASSUME NEW z \in Quads, Overlap(z, q) PROVE \E x \in leaves : Overlap(x, z)
  <2>1. \E y \in children : Overlap(z, y)
    <3>1. CASE IsPrefix(q, z) /\ Len(q) < Len(z)
      <4> DEFINE y == SubSeq(z, 1, Len(q) + 1)
      <4>1. y \in children
        BY <3>1, InSomeChild DEF children
      <4>2. Len(q) + 1 \in 0 .. Len(z)
        BY <1>2, <3>1, PathOf
      <4>3. IsPrefix(y, z)
        BY <4>2, Ancestor
      <4>4. QED
        BY <4>1, <4>3 DEF Overlap
    <3>2. CASE ~ (IsPrefix(q, z) /\ Len(q) < Len(z))
      <4>1. IsPrefix(z, q)
        <5>1. SUFFICES ASSUME IsPrefix(q, z) PROVE IsPrefix(z, q)
          BY <1>4 DEF Overlap
        <5>2. Len(q) = Len(z)
          BY <1>2, <3>2, <5>1, PathOf, PrefixIs
        <5>3. z = q
          BY <5>1, <5>2, SameLevel
        <5>4. QED
          BY <5>1, <5>3
      <4>2. PICK y \in children : TRUE
        <5>1. 0 \in ChildIds
          BY ChildrenCount DEF ChildIds
        <5>2. children = {Append(q, k) : k \in ChildIds}
          BY ChildSet DEF children
        <5>3. Append(q, 0) \in children
          BY <5>1, <5>2
        <5>4. QED
          BY <5>3
      <4>3. IsPrefix(z, y)
        BY <1>1, <4>1, <4>2, Containment
      <4>4. QED
        BY <4>2, <4>3 DEF Overlap
    <3>3. QED
      BY <3>1, <3>2
  <2>2. PICK y \in children : Overlap(z, y)
    BY <2>1
  <2>3. PICK x \in parts[y] : Overlap(x, z)
    BY <2>2 DEF CutUp, children
  <2>4. QED
    BY <2>2, <2>3 DEF children
<1>5. QED
  BY <1>3, <1>4 DEF CutUp

(* The balance keeps such sequences.                                        *)
LEMMA CuttingsKept ==
  ASSUME NEW split, split \subseteq Quads, \A p \in split : level(p) < LevelMax
  PROVE  KeptByCut(split, [q \in Quads |-> Cuttings(split, q)])
<1> DEFINE good == [q \in Quads |-> Cuttings(split, q)]
<1>1. \A q \in Quads : good[q] \subseteq Seq(Quads)
  BY DEF Cuttings
<1>2. ASSUME NEW q \in Quads, level(q) = LevelMax \/ q \notin split PROVE <<q>> \in good[q]
  <2>1. q \notin split
    BY <1>2, QuadAssumption
  <2>2. QED
    BY <2>1, Uncut
<1>3. ASSUME NEW q \in Quads, level(q) < LevelMax, q \in split,
             NEW s \in Seq(Seq(Quads)), Len(s) = NB_CHILDREN,
             \A k \in 1 .. NB_CHILDREN : s[k] \in good[all_children(q)[k]]
      PROVE  FlattenSeq(s) \in good[q]
  <2> DEFINE roots == all_children(q)
             parts == [y \in ToSet(roots) |-> ToSet(s[CHOOSE k \in 1 .. NB_CHILDREN : roots[k] = y])]
  <2>1. roots \in Seq(Quads) /\ Len(roots) = NB_CHILDREN /\ InOrder(roots)
    BY <1>3, ChildrenType, ChildrenInOrder
  <2> HIDE DEF roots, good
  <2>2. NB_CHILDREN \in Nat /\ DOMAIN roots = 1 .. NB_CHILDREN
        /\ ToSet(roots) = {roots[k] : k \in 1 .. NB_CHILDREN}
    <3>1. NB_CHILDREN \in Nat
      BY ChildrenCount
    <3>2. DOMAIN roots = 1 .. NB_CHILDREN
      BY <2>1
    <3>3. QED
      BY <3>1, <3>2 DEF ToSet
  <2>3. ASSUME NEW k \in 1 .. NB_CHILDREN
        PROVE  roots[k] \in Quads /\ s[k] \in Cuttings(split, roots[k])
    <3>1. roots[k] \in Quads
      BY <2>1, <2>2
    <3>2. s[k] \in good[roots[k]]
      BY <1>3 DEF roots
    <3>3. QED
      BY <3>1, <3>2 DEF good
  <2>4. ASSUME NEW k \in 1 .. NB_CHILDREN PROVE parts[roots[k]] = ToSet(s[k])
    <3>1. ASSUME NEW i \in 1 .. NB_CHILDREN, roots[i] = roots[k] PROVE i = k
      <4>1. SUFFICES ASSUME i # k PROVE FALSE
        OBVIOUS
      <4>2. ~ Overlap(roots[i], roots[k])
        BY <2>1, <2>2, <4>1, OrderApart DEF Separate
      <4>3. QED
        BY <2>3, <3>1, <4>2, Containment DEF Overlap
    <3>2. (CHOOSE i \in 1 .. NB_CHILDREN : roots[i] = roots[k]) = k
      BY <3>1
    <3>3. QED
      BY <2>2, <3>2
  <2>5. ASSUME NEW k \in 1 .. NB_CHILDREN
        PROVE  /\ s[k] \in Seq(Quads) /\ InOrder(s[k]) /\ CutUp(split, roots[k], ToSet(s[k]))
               /\ \A j \in DOMAIN s[k] : IsPrefix(roots[k], s[k][j])
    <3>1. s[k] \in Seq(Quads) /\ InOrder(s[k]) /\ CutUp(split, roots[k], ToSet(s[k]))
      BY <2>3 DEF Cuttings
    <3>2. QED
      BY <3>1 DEF CutUp, ToSet
  <2>6. /\ FlattenSeq(s) \in Seq(Quads) /\ InOrder(FlattenSeq(s))
        /\ ToSet(FlattenSeq(s)) = UNION {ToSet(s[i]) : i \in 1 .. Len(roots)}
    BY <1>3, <2>1, <2>5, FlattenInOrder
  <2>7. ToSet(FlattenSeq(s)) = UNION {parts[y] : y \in ToSet(roots)}
    <3> HIDE DEF parts
    <3>1. {ToSet(s[i]) : i \in 1 .. NB_CHILDREN} = {parts[roots[i]] : i \in 1 .. NB_CHILDREN}
      BY <2>4
    <3>2. {parts[roots[i]] : i \in 1 .. NB_CHILDREN} = {parts[y] : y \in ToSet(roots)}
      BY <2>2
    <3>3. QED
      BY <2>1, <2>6, <3>1, <3>2
  <2>8. \A y \in ToSet(roots) : CutUp(split, y, parts[y])
    <3> HIDE DEF parts
    <3>1. QED
      BY <2>2, <2>4, <2>5
  <2>9. ToSet(FlattenSeq(s)) \subseteq Quads
    BY <2>6 DEF ToSet
  <2> HIDE DEF parts
  <2>10. CutUp(split, q, ToSet(FlattenSeq(s)))
    BY <1>3, <2>7, <2>8, <2>9, CutChildren DEF roots
  <2>11. QED
    BY <2>6, <2>10 DEF Cuttings, good
<1> HIDE DEF good
<1>4. KeptByCut(split, good)
  BY <1>1, <1>2, <1>3 DEF KeptByCut
<1>5. QED
  BY <1>4 DEF good

(* The leaves of a rank after the balance: cut out of those before, and     *)
(* filling them.                                                            *)
LEMMA BalancedCut ==
  ASSUME NEW f \in [Ranks -> Seq(Quads)], NEW r \in Ranks, InOrder(f[r])
  PROVE  /\ Balanced(f)[r] \in Seq(Quads) /\ InOrder(Balanced(f)[r])
         /\ \A x \in ToSet(Balanced(f)[r]) : \E u \in ToSet(f[r]) :
               /\ IsPrefix(u, x) /\ x \notin Split(Leaves(f))
               /\ \A n \in Len(u) .. Len(x) - 1 : SubSeq(x, 1, n) \in Split(Leaves(f))
         /\ \A u \in ToSet(f[r]), z \in Quads :
               Overlap(z, u) => \E x \in ToSet(Balanced(f)[r]) : Overlap(x, z)
<1> DEFINE split == Split(Leaves(f))
           good == [q \in Quads |-> Cuttings(split, q)]
           pieces == BalancedOf(f, r)
           roots == f[r]
<1>1. Leaves(f) \subseteq Quads
  BY DEF Leaves, ToSet
<1>2. split \subseteq Quads /\ \A p \in split : level(p) < LevelMax
  BY <1>1, SplitIs
<1>3. roots \in Seq(Quads) /\ \A i \in 1 .. Len(roots) : roots[i] \in Quads
  OBVIOUS
<1>4. /\ pieces \in Seq(Seq(Quads)) /\ Len(pieces) = Len(roots)
      /\ \A i \in 1 .. Len(roots) : pieces[i] \in good[roots[i]]
  <2>1. KeptByCut(split, good)
    <3> HIDE DEF split
    <3>1. QED
      BY <1>2, CuttingsKept
  <2> HIDE DEF good
  <2>2. QED
    BY <2>1, BalancedKept
<1>5. Balanced(f)[r] = FlattenSeq(pieces)
  BY BalancedIs
<1> HIDE DEF split, pieces, roots
<1>6. ASSUME NEW i \in 1 .. Len(roots)
      PROVE  /\ pieces[i] \in Seq(Quads) /\ InOrder(pieces[i]) /\ CutUp(split, roots[i], ToSet(pieces[i]))
             /\ \A k \in DOMAIN pieces[i] : IsPrefix(roots[i], pieces[i][k])
  <2>1. pieces[i] \in Seq(Quads) /\ InOrder(pieces[i]) /\ CutUp(split, roots[i], ToSet(pieces[i]))
    BY <1>3, <1>4 DEF Cuttings
  <2>2. QED
    BY <2>1 DEF CutUp, ToSet
<1> HIDE DEF good
<1>7. /\ FlattenSeq(pieces) \in Seq(Quads) /\ InOrder(FlattenSeq(pieces))
      /\ ToSet(FlattenSeq(pieces)) = UNION {ToSet(pieces[i]) : i \in 1 .. Len(roots)}
  <2>1. InOrder(roots)
    BY DEF roots
  <2>2. QED
    BY <1>3, <1>4, <1>6, <2>1, FlattenInOrder
<1>8. ToSet(roots) = {roots[i] : i \in 1 .. Len(roots)}
  BY <1>3 DEF ToSet
<1>9. ASSUME NEW x \in ToSet(FlattenSeq(pieces))
      PROVE  \E u \in ToSet(roots) :
                /\ IsPrefix(u, x) /\ x \notin split
                /\ \A n \in Len(u) .. Len(x) - 1 : SubSeq(x, 1, n) \in split
  <2>1. PICK i \in 1 .. Len(roots) : x \in ToSet(pieces[i])
    BY <1>7
  <2>2. /\ IsPrefix(roots[i], x) /\ x \notin split
        /\ \A n \in Len(roots[i]) .. Len(x) - 1 : SubSeq(x, 1, n) \in split
    BY <1>6, <2>1 DEF CutUp
  <2>3. QED
    BY <1>8, <2>2
<1>10. ASSUME NEW u \in ToSet(roots), NEW z \in Quads, Overlap(z, u)
       PROVE  \E x \in ToSet(FlattenSeq(pieces)) : Overlap(x, z)
  <2>1. PICK i \in 1 .. Len(roots) : u = roots[i]
    BY <1>8
  <2>2. PICK x \in ToSet(pieces[i]) : Overlap(x, z)
    BY <1>6, <1>10, <2>1 DEF CutUp
  <2>3. QED
    BY <1>7, <2>2
<1>11. QED
  BY <1>5, <1>7, <1>9, <1>10 DEF roots, split

(* A quadrant between another and one that contains it.                     *)
LEMMA SameAncestor ==
  ASSUME NEW u \in Quads, NEW x \in Quads, IsPrefix(u, x), NEW n \in 0 .. Len(u)
  PROVE  SubSeq(u, 1, n) = SubSeq(x, 1, n) /\ n \in 0 .. Len(x)
<1>1. Len(u) \in Nat /\ Len(x) \in Nat /\ Len(u) <= Len(x)
  BY PathOf, PrefixIs
<1>2. n \in 0 .. Len(x)
  BY <1>1
<1>3. SubSeq(u, 1, n) \in Quads /\ Len(SubSeq(u, 1, n)) = n /\ IsPrefix(SubSeq(u, 1, n), u)
  BY Ancestor
<1>4. IsPrefix(SubSeq(u, 1, n), x)
  BY <1>3, Containment
<1>5. QED
  BY <1>2, <1>3, <1>4, AncestorIs

(* In a graded mesh the leaves that touch a leaf are at most one level finer. *)
LEMMA GradedBalanced ==
  ASSUME NEW M, M \subseteq Quads, Graded(M)
  PROVE  IsBalanced(M)
<1> SUFFICES ASSUME NEW q \in M, NEW p \in Touching[q] \cap M, ~ (level(p) <= level(q) + 1)
             PROVE  FALSE
  BY DEF IsBalanced
<1>1. q \in Quads /\ p \in Quads /\ p \in M /\ Adjacent(p, q)
  BY DEF Touching
<1>2. level(p) = Len(p) /\ level(q) = Len(q) /\ Len(p) \in Nat /\ Len(q) \in Nat
  BY <1>1, PathOf
<1>3. level(p) \in level(q) + 2 .. level(p)
  BY <1>2
<1>4. SubSeq(p, 1, level(p)) = p
  BY <1>1, <1>2, AncestorIs, Containment
<1>5. QED
  BY <1>1, <1>3, <1>4 DEF Graded

(* The balance makes a sound mesh of any that fills the tree with the leaves *)
(* of each rank in order and those of different ranks apart.                *)
LEMMA BalancedSound ==
  ASSUME NEW f \in [Ranks -> Seq(Quads)],
         \A r \in Ranks : InOrder(f[r]),
         \A r, s \in Ranks : r # s => Apart(ToSet(f[r]), ToSet(f[s])),
         IsComplete(Leaves(f))
  PROVE  Sound(Balanced(f))
<1> DEFINE g == Balanced(f)
           split == Split(Leaves(f))
<1>1. ASSUME NEW r \in Ranks
      PROVE  /\ g[r] \in Seq(Quads) /\ InOrder(g[r])
             /\ \A x \in ToSet(g[r]) : \E u \in ToSet(f[r]) :
                   /\ IsPrefix(u, x) /\ x \notin split
                   /\ \A n \in Len(u) .. Len(x) - 1 : SubSeq(x, 1, n) \in split
             /\ \A u \in ToSet(f[r]), z \in Quads :
                   Overlap(z, u) => \E x \in ToSet(g[r]) : Overlap(x, z)
  BY BalancedCut
<1> HIDE DEF g
<1>2. \A r \in Ranks : ToSet(f[r]) \subseteq Quads
  BY DEF ToSet
<1>3. \A r \in Ranks : ToSet(g[r]) \subseteq Quads
  BY <1>1 DEF ToSet
<1>4. ASSUME NEW r \in Ranks, NEW s \in Ranks, r # s PROVE Apart(ToSet(g[r]), ToSet(g[s]))
  <2>1. SUFFICES ASSUME NEW a \in ToSet(g[r]), NEW b \in ToSet(g[s]) PROVE ~ Overlap(a, b)
    BY DEF Apart
  <2>2. PICK u \in ToSet(f[r]) : IsPrefix(u, a)
    BY <1>1
  <2>3. PICK v \in ToSet(f[s]) : IsPrefix(v, b)
    BY <1>1
  <2>4. ~ Overlap(u, v)
    BY <1>4 DEF Apart
  <2>5. QED
    BY <1>2, <1>3, <2>2, <2>3, <2>4, ApartBelow
<1>5. IsComplete(Leaves(g))
  <2>1. SUFFICES ASSUME NEW z \in Quads PROVE \E x \in Leaves(g) : Overlap(x, z)
    BY DEF IsComplete
  <2>0. PICK r \in Ranks : \E u \in ToSet(f[r]) : Overlap(u, z)
    BY DEF IsComplete, Leaves
  <2>2. PICK u \in ToSet(f[r]) : Overlap(u, z)
    BY <2>0
  <2>3. Overlap(z, u)
    BY <2>2 DEF Overlap
  <2>4. PICK x \in ToSet(g[r]) : Overlap(x, z)
    BY <1>1, <2>2, <2>3
  <2>5. QED
    BY <2>4 DEF Leaves
<1>6. Leaves(f) \subseteq Quads
  BY <1>2 DEF Leaves
<1>7. Graded(Leaves(g))
  <2>1. SUFFICES ASSUME NEW q \in Leaves(g), NEW x \in Leaves(g), NEW n \in level(q) + 2 .. level(x),
                        Adjacent(SubSeq(x, 1, n), q)
                 PROVE  FALSE
    BY DEF Graded
  <2>2. q \in Quads /\ x \in Quads /\ q \notin split
    BY <1>1, <1>3 DEF Leaves
  <2>0. PICK r \in Ranks : x \in ToSet(g[r])
    BY DEF Leaves
  <2>3. PICK u \in ToSet(f[r]) :
            IsPrefix(u, x) /\ \A k \in Len(u) .. Len(x) - 1 : SubSeq(x, 1, k) \in split
    BY <1>1, <2>0
  <2>4. u \in Quads /\ u \in Leaves(f)
    BY <1>2 DEF Leaves
  <2> DEFINE m == Len(q) + 1
             p == SubSeq(x, 1, m)
             y == SubSeq(x, 1, n)
  <2>5. /\ Len(q) \in Nat /\ Len(x) \in Nat /\ Len(u) \in Nat /\ Len(u) <= Len(x)
        /\ level(q) = Len(q) /\ level(x) = Len(x)
    BY <2>2, <2>3, <2>4, PathOf, PrefixIs
  <2>6. m \in 0 .. Len(x) - 1 /\ m \in 0 .. Len(x) /\ n \in 0 .. Len(x) /\ m <= n
    BY <2>5
  <2>7. /\ p \in Quads /\ Len(p) = m /\ IsPrefix(p, x)
        /\ y \in Quads /\ Len(y) = n /\ IsPrefix(y, x)
    BY <2>2, <2>6, Ancestor
  <2>8. p \in split
    <3>1. CASE Len(u) <= m
      <4>1. m \in Len(u) .. Len(x) - 1
        BY <2>5, <2>6, <3>1
      <4>2. QED
        BY <2>3, <4>1
    <3>2. CASE ~ (Len(u) <= m)
      <4>1. m \in 0 .. Len(u) - 1 /\ m \in 0 .. Len(u)
        BY <2>5, <2>6, <3>2
      <4>2. p = SubSeq(u, 1, m)
        BY <2>2, <2>3, <2>4, <4>1, SameAncestor
      <4>3. QED
        BY <1>6, <2>4, <4>1, <4>2, SplitIs
    <3>3. QED
      BY <3>1, <3>2
  <2> HIDE DEF p, y, m, split
  <2>9. IsPrefix(p, y) /\ IsPrefix(q, q)
    BY <2>2, <2>6, <2>7, Nested, Containment
  <2>10. Adjacent(p, q)
    BY <2>1, <2>2, <2>7, <2>9, AdjacentAbove DEF y
  <2>11. q \in split
    BY <1>6, <2>2, <2>7, <2>8, <2>10, SplitIs DEF split, m
  <2>12. QED
    BY <2>2, <2>11
<1>8. QED
  BY <1>1, <1>4, <1>5, <1>7 DEF Sound, g

----------------------------------------------------------------------------
(* Meshes that stem from others                                             *)

(* What overlaps a leaf overlaps the old leaves it stems from.              *)
LEMMA StemsWithin ==
  ASSUME NEW old, old \subseteq Quads, NEW x \in Quads, Stems(old, x),
         NEW z \in Quads, Overlap(x, z)
  PROVE  \E p \in old : Overlap(p, z)
<1>1. CASE x \in old
  BY <1>1
<1>2. CASE level(x) > 0 /\ father(x) \in old
  <2>1. father(x) \in Quads /\ IsPrefix(father(x), x)
    BY <1>2, FatherIs
  <2>2. Overlap(father(x), z)
    <3>1. CASE IsPrefix(x, z)
      BY <2>1, <3>1, Containment DEF Overlap
    <3>2. CASE IsPrefix(z, x)
      BY <2>1, <3>2, Containment
    <3>3. QED
      BY <3>1, <3>2 DEF Overlap
  <2>3. QED
    BY <1>2, <2>2
<1>3. CASE level(x) < LevelMax /\ ToSet(all_children(x)) \subseteq old
  <2>1. \E k \in 1 .. NB_CHILDREN : Overlap(all_children(x)[k], z)
    BY <1>3, ChildrenApart
  <2>2. PICK k \in 1 .. NB_CHILDREN : Overlap(all_children(x)[k], z)
    BY <2>1
  <2>3. all_children(x)[k] \in ToSet(all_children(x))
    BY DEF ToSet, all_children
  <2>4. QED
    BY <1>3, <2>2, <2>3
<1>4. QED
  BY <1>1, <1>2, <1>3 DEF Stems

(* What stems from leaves that are apart is apart.                          *)
LEMMA StemsApart ==
  ASSUME NEW A, NEW B, A \subseteq Quads, B \subseteq Quads, Apart(A, B),
         NEW F, NEW G, F \subseteq Quads, G \subseteq Quads,
         \A x \in F : Stems(A, x), \A x \in G : Stems(B, x)
  PROVE  Apart(F, G)
<1> SUFFICES ASSUME NEW x \in F, NEW y \in G, Overlap(x, y) PROVE FALSE
  BY DEF Apart
<1>1. PICK p \in A : Overlap(p, y)
  BY StemsWithin
<1>2. Overlap(y, p)
  BY <1>1 DEF Overlap
<1>3. PICK q \in B : Overlap(q, p)
  BY <1>2, StemsWithin
<1>4. QED
  BY <1>3 DEF Apart, Overlap

(* The balance of a mesh that stems from a graded one splits only leaves of  *)
(* the old mesh and what contained them.                                    *)
LEMMA SplitStays ==
  ASSUME NEW M, Leafy(M), IsComplete(M), Graded(M),
         NEW F, F \subseteq Quads, \A x \in F : Stems(M, x)
  PROVE  \A p \in Split(F) : \E x \in M : IsPrefix(p, x)
<1> DEFINE B == {p \in Quads : \E x \in M : IsPrefix(p, x)}
<1>1. M \subseteq Quads
  BY DEF Leafy
<1>2. ASSUME NEW x \in F, NEW n \in 0 .. Len(x) - 1 PROVE SubSeq(x, 1, n) \in B
  <2> DEFINE a == SubSeq(x, 1, n)
  <2>1. x \in Quads /\ Len(x) \in Nat /\ n \in 0 .. Len(x)
    BY PathOf
  <2>2. a \in Quads /\ Len(a) = n /\ IsPrefix(a, x)
    BY <2>1, Ancestor
  <2> HIDE DEF a
  <2>3. CASE x \in M
    BY <2>2, <2>3 DEF a
  <2>4. CASE level(x) > 0 /\ father(x) \in M
    <3>1. father(x) \in Quads /\ Len(father(x)) = Len(x) - 1 /\ IsPrefix(father(x), x)
      BY <2>1, <2>4, FatherIs
    <3>2. IsPrefix(a, father(x))
      BY <2>1, <2>2, <3>1, Nested
    <3>3. QED
      BY <2>2, <2>4, <3>2 DEF a
  <2>5. CASE level(x) < LevelMax /\ ToSet(all_children(x)) \subseteq M
    <3>1. 0 \in ChildIds
      BY ChildrenCount DEF ChildIds
    <3> DEFINE y == Append(x, 0)
    <3>2. y \in Quads /\ IsPrefix(x, y)
      BY <2>1, <2>5, <3>1, ChildIs
    <3>3. y \in M
      <4>1. ToSet(all_children(x)) = {Append(x, k) : k \in ChildIds}
        BY ChildSet
      <4>2. y \in ToSet(all_children(x))
        BY <3>1, <4>1
      <4>3. QED
        BY <2>5, <4>2
    <3> HIDE DEF y
    <3>4. IsPrefix(a, y)
      BY <2>1, <2>2, <3>2, Containment
    <3>5. QED
      BY <2>2, <3>3, <3>4 DEF a
  <2>6. QED
    BY <2>3, <2>4, <2>5 DEF Stems
<1>3. ASSUME NEW p \in B, NEW u \in Quads, Len(p) = Len(u) + 1, Adjacent(p, u)
      PROVE  u \in B
  <2>1. PICK x \in M : IsPrefix(p, x)
    OBVIOUS
  <2>2. PICK z \in M : Overlap(z, u)
    BY DEF IsComplete
  <2>3. x \in Quads /\ z \in Quads /\ p \in Quads
    BY <1>1
  <2>4. SUFFICES ASSUME ~ IsPrefix(u, z) PROVE FALSE
    BY <2>2
  <2>5. IsPrefix(z, u)
    BY <2>2, <2>4 DEF Overlap
  <2>6. /\ Len(z) \in Nat /\ Len(u) \in Nat /\ Len(p) \in Nat /\ Len(x) \in Nat
        /\ Len(z) <= Len(u) /\ Len(p) <= Len(x) /\ level(z) = Len(z) /\ level(x) = Len(x)
    BY <2>1, <2>3, <2>5, PathOf, PrefixIs
  <2>7. Len(z) # Len(u)
    BY <2>3, <2>4, <2>5, SameLevel, Containment
  <2>8. Len(p) \in level(z) + 2 .. level(x)
    BY <1>3, <2>6, <2>7
  <2>9. Adjacent(p, z)
    BY <1>3, <2>3, <2>5, AdjacentAbove, Containment
  <2>10. p = SubSeq(x, 1, Len(p))
    BY <2>1, <2>3, AncestorIs
  <2>11. QED
    BY <2>8, <2>9, <2>10 DEF Graded
<1> HIDE DEF B
<1>4. Split(F) \subseteq B
  <2>1. \A x \in F : \A n \in 0 .. Len(x) - 1 : SubSeq(x, 1, n) \in B
    BY <1>2
  <2>2. \A p \in B, u \in Quads : p \in Quads /\ Len(p) = Len(u) + 1 /\ Adjacent(p, u) => u \in B
    BY <1>3
  <2>3. QED
    BY <2>1, <2>2, SplitLeast
<1>5. QED
  BY <1>4 DEF B

(* So what the balance cuts out of a leaf that stems from old ones does too. *)
LEMMA CutStems ==
  ASSUME NEW M, Leafy(M), NEW old, old \subseteq M,
         NEW split, \A p \in split : \E x \in M : IsPrefix(p, x), split \subseteq Quads,
         NEW u \in Quads, Stems(old, u), NEW x \in Quads, IsPrefix(u, x),
         \A n \in Len(u) .. Len(x) - 1 : SubSeq(x, 1, n) \in split
  PROVE  Stems(old, x)
<1> SUFFICES ASSUME u # x PROVE Stems(old, x)
  OBVIOUS
<1>1. /\ M \subseteq Quads /\ \A a, b \in M : IsPrefix(a, b) => a = b
  BY DEF Leafy, Overlap
<1>2. /\ Len(u) \in Nat /\ Len(x) \in Nat /\ Len(u) < Len(x)
      /\ level(x) = Len(x) /\ Len(x) <= LevelMax /\ LevelMax \in Nat /\ level(u) = Len(u)
  <2>1. Len(u) \in Nat /\ Len(x) \in Nat /\ Len(u) <= Len(x)
    BY PathOf, PrefixIs
  <2>2. Len(u) # Len(x)
    BY SameLevel
  <2>3. QED
    BY <2>1, <2>2, PathOf
<1> DEFINE f == father(x)
<1>3. f \in Quads /\ Len(f) = Len(x) - 1 /\ IsPrefix(f, x) /\ level(x) > 0
  BY <1>2, FatherIs
<1>4. PICK w \in M : IsPrefix(f, w)
  <2>1. Len(f) \in Len(u) .. Len(x) - 1
    BY <1>2, <1>3
  <2>2. f = SubSeq(x, 1, Len(f))
    BY <1>3, AncestorIs
  <2>3. f \in split
    BY <2>1, <2>2
  <2>4. QED
    BY <2>3
<1> HIDE DEF f
<1>5. w \in Quads
  BY <1>1
<1>6. ASSUME NEW c \in old, c \in Quads, IsPrefix(c, f) PROVE f \in old
  <2>1. IsPrefix(c, w)
    BY <1>3, <1>4, <1>5, <1>6, Containment
  <2>2. c = w
    BY <1>1, <1>6, <2>1
  <2>3. Len(c) = Len(f)
    BY <1>3, <1>4, <1>5, <1>6, <2>2, PathOf, PrefixIs
  <2>4. c = f
    BY <1>3, <1>6, <2>3, SameLevel
  <2>5. QED
    BY <1>6, <2>4
<1>7. IsPrefix(u, f)
  BY <1>2, <1>3, Nested
<1>8. CASE u \in old
  BY <1>3, <1>6, <1>7, <1>8 DEF Stems, f
<1>9. CASE level(u) > 0 /\ father(u) \in old
  <2>1. father(u) \in Quads /\ Len(father(u)) = Len(u) - 1 /\ IsPrefix(father(u), u)
    BY <1>9, FatherIs
  <2>2. IsPrefix(father(u), w)
    BY <1>3, <1>4, <1>5, <1>7, <2>1, Containment
  <2>3. father(u) = w
    BY <1>1, <1>9, <2>2
  <2>4. Len(f) <= Len(father(u)) /\ Len(u) <= Len(f)
    BY <1>3, <1>4, <1>5, <1>7, <2>3, PrefixIs
  <2>5. QED
    BY <1>2, <1>3, <2>1, <2>4
<1>10. CASE level(u) < LevelMax /\ ToSet(all_children(u)) \subseteq old
  <2> DEFINE c == SubSeq(x, 1, Len(u) + 1)
  <2>1. c \in old
    BY <1>2, <1>10, InSomeChild
  <2>2. Len(u) + 1 \in 0 .. Len(x)
    BY <1>2
  <2>3. c \in Quads /\ Len(c) = Len(u) + 1 /\ IsPrefix(c, x)
    BY <2>2, Ancestor
  <2> HIDE DEF c
  <2>4. CASE Len(x) = Len(u) + 1
    <3>1. x = c
      BY <2>3, <2>4, SameLevel
    <3>2. QED
      BY <2>1, <3>1 DEF Stems
  <2>5. CASE Len(x) # Len(u) + 1
    <3>1. Len(c) <= Len(f)
      BY <1>2, <1>3, <2>3, <2>5
    <3>2. IsPrefix(c, f)
      BY <1>3, <2>3, <3>1, Nested
    <3>3. f \in old
      BY <1>6, <2>1, <2>3, <3>2
    <3>4. QED
      BY <1>3, <3>3 DEF Stems, f
  <2>6. QED
    BY <2>4, <2>5
<1>11. QED
  BY <1>8, <1>9, <1>10 DEF Stems

----------------------------------------------------------------------------
(* What the flags ask                                                       *)

(* The leaves the cycle began with, and those of a given flag.              *)
LEMMA OldIs ==
  ASSUME TypeOK, NEW r \in Ranks, Len(amrflags_d[r]) <= Len(old_keys[r])
  PROVE  /\ OldLeaves(r) \in Seq(Quads) /\ Len(OldLeaves(r)) = Len(amrflags_d[r])
         /\ DOMAIN amrflags_d[r] = 1 .. Len(amrflags_d[r]) /\ Len(amrflags_d[r]) \in Nat
         /\ \A i \in 1 .. Len(amrflags_d[r]) :
               OldLeaves(r)[i] \in Quads /\ OldLeaves(r)[i] = old_keys[r][i]
         /\ ToSet(OldLeaves(r)) = {OldLeaves(r)[i] : i \in 1 .. Len(amrflags_d[r])}
         /\ ToSet(OldLeaves(r)) \subseteq Quads
         /\ \A flag : Asked(r, flag) \subseteq ToSet(OldLeaves(r))
<1> DEFINE n == Len(amrflags_d[r])
           old == OldLeaves(r)
<1>1. old_keys[r] \in Seq(Quads) /\ amrflags_d[r] \in Seq(Flags)
  BY DEF TypeOK
<1>2. n \in Nat /\ DOMAIN amrflags_d[r] = 1 .. n /\ n \in 0 .. Len(old_keys[r])
  BY <1>1
<1>3. old = SubSeq(old_keys[r], 1, n)
  BY DEF OldLeaves
<1> HIDE DEF n, old
<1>4. old \in Seq(Quads) /\ Len(old) = n /\ \A i \in 1 .. n : old[i] = old_keys[r][i]
  BY <1>1, <1>2, <1>3, FirstPart
<1>5. DOMAIN old = 1 .. n /\ \A i \in 1 .. n : old[i] \in Quads
  BY <1>4
<1>6. ToSet(old) = {old[i] : i \in 1 .. n} /\ ToSet(old) \subseteq Quads
  BY <1>5 DEF ToSet
<1>7. ASSUME NEW flag PROVE Asked(r, flag) \subseteq ToSet(old)
  <2>1. Asked(r, flag) = {old[i] : i \in {j \in 1 .. n : amrflags_d[r][j] = flag}}
    BY <1>2 DEF Asked, old
  <2>2. QED
    BY <1>6, <2>1
<1>8. QED
  BY <1>2, <1>4, <1>5, <1>6, <1>7 DEF n, old

(* What a rank makes of its leaves.                                         *)
Adapted(r) ==
    (UNION {ToSet(all_children(q)) : q \in Asked(r, DO_REFINE)})
    \cup Merged(r)
    \cup {q \in ToSet(OldLeaves(r)) \ Asked(r, DO_REFINE) :
             q = <<>> \/ father(q) \notin Merged(r)}

(* The father of a family that is merged.                                   *)
LEMMA MergedIs ==
  ASSUME TypeOK, NEW r \in Ranks, Kept(r), NEW f \in Merged(r)
  PROVE  /\ f \in Quads /\ level(f) < LevelMax
         /\ ToSet(all_children(f)) \subseteq Asked(r, DO_COARSEN)
<1>1. PICK p \in Asked(r, DO_COARSEN) :
          /\ p # <<>> /\ f = father(p)
          /\ ToSet(all_children(father(p))) \subseteq Asked(r, DO_COARSEN)
  BY DEF Merged
<1>2. p \in Quads
  BY OldIs DEF Kept
<1>3. level(p) > 0
  <2>1. Len(p) \in Nat /\ level(p) = Len(p) /\ p \in Seq(ChildIds)
    BY <1>2, PathOf
  <2>2. QED
    BY <1>1, <2>1
<1>4. QED
  BY <1>1, <1>2, <1>3, FatherIs

(* The leaves of the new mesh stem from those of the old one and fill the   *)
(* same part of the tree.                                                   *)
LEMMA AdaptedStems ==
  ASSUME TypeOK, NEW r \in Ranks, Kept(r)
  PROVE  /\ Adapted(r) \subseteq Quads
         /\ \A x \in Adapted(r) : Stems(ToSet(OldLeaves(r)), x)
         /\ \A u \in ToSet(OldLeaves(r)), z \in Quads :
               Overlap(u, z) => \E x \in Adapted(r) : Overlap(x, z)
<1> DEFINE old == ToSet(OldLeaves(r))
<1>1. old \subseteq Quads /\ \A flag : Asked(r, flag) \subseteq old
  BY OldIs DEF Kept
<1>2. ASSUME NEW q \in Asked(r, DO_REFINE)
      PROVE  q \in old /\ q \in Quads /\ level(q) < LevelMax
  BY <1>1 DEF Kept
<1>3. ASSUME NEW f \in Merged(r)
      PROVE  f \in Quads /\ level(f) < LevelMax /\ ToSet(all_children(f)) \subseteq old
  BY <1>1, MergedIs
<1> HIDE DEF old
<1>4. ASSUME NEW x \in Adapted(r) PROVE x \in Quads /\ Stems(old, x)
  <2>1. CASE x \in old
    BY <1>1, <2>1 DEF Stems
  <2>2. CASE x \in Merged(r)
    BY <1>3, <2>2 DEF Stems
  <2>3. ASSUME NEW q \in Asked(r, DO_REFINE), x \in ToSet(all_children(q))
        PROVE  x \in Quads /\ Stems(old, x)
    <3>1. x \in Quads /\ level(x) > 0 /\ father(x) = q
      BY <1>2, <2>3, FatherOfChild
    <3>2. QED
      BY <1>2, <3>1 DEF Stems
  <2>4. QED
    BY <2>1, <2>2, <2>3 DEF Adapted, old
<1>5. ASSUME NEW u \in old, NEW z \in Quads, Overlap(u, z)
      PROVE  \E x \in Adapted(r) : Overlap(x, z)
  <2>1. u \in Quads
    BY <1>1
  <2>2. CASE u \in Asked(r, DO_REFINE)
    <3>1. \E k \in 1 .. NB_CHILDREN : Overlap(all_children(u)[k], z)
      BY <1>2, <1>5, <2>2, ChildrenApart
    <3>2. PICK k \in 1 .. NB_CHILDREN : Overlap(all_children(u)[k], z)
      BY <3>1
    <3>3. all_children(u)[k] \in ToSet(all_children(u))
      BY DEF ToSet, all_children
    <3>4. QED
      BY <2>2, <3>2, <3>3 DEF Adapted
  <2>3. CASE u \notin Asked(r, DO_REFINE) /\ u # <<>> /\ father(u) \in Merged(r)
    <3>1. level(u) > 0
      <4>1. Len(u) \in Nat /\ level(u) = Len(u) /\ u \in Seq(ChildIds)
        BY <2>1, PathOf
      <4>2. QED
        BY <2>3, <4>1
    <3>2. father(u) \in Quads /\ IsPrefix(father(u), u)
      BY <2>1, <3>1, FatherIs
    <3>3. Overlap(father(u), z)
      <4>1. CASE IsPrefix(u, z)
        BY <2>1, <3>2, <4>1, Containment DEF Overlap
      <4>2. CASE IsPrefix(z, u)
        BY <2>1, <3>2, <4>2, Containment
      <4>3. QED
        BY <1>5, <4>1, <4>2 DEF Overlap
    <3>4. QED
      BY <2>3, <3>3 DEF Adapted
  <2>4. CASE u \notin Asked(r, DO_REFINE) /\ (u = <<>> \/ father(u) \notin Merged(r))
    <3>1. u \in Adapted(r)
      BY <2>4 DEF Adapted, old
    <3>2. QED
      BY <1>5, <3>1
  <2>5. QED
    BY <2>2, <2>3, <2>4
<1>6. QED
  BY <1>4, <1>5 DEF old

----------------------------------------------------------------------------
(* A part of the leaves replaced                                            *)

(* An entry stood before the part, replaces it, or stood after it.          *)
LEMMA ReplacedEntry ==
  ASSUME NEW f \in Seq(Quads), NEW p \in Nat, NEW n \in Nat, p + n <= Len(f),
         NEW quads \in Seq(Quads), NEW i \in DOMAIN Replaced(f, p, n, quads)
  PROVE  LET g == Replaced(f, p, n, quads)
             m == Len(quads)
         IN  \/ i \in 1 .. p /\ g[i] = f[i]
             \/ i \in p + 1 .. p + m /\ i - p \in 1 .. m /\ g[i] = quads[i - p]
             \/ /\ i \in p + m + 1 .. Len(g) /\ i - m + n \in p + n + 1 .. Len(f)
                /\ g[i] = f[i - m + n]
<1> DEFINE g == Replaced(f, p, n, quads)
           m == Len(quads)
           l == Len(f)
<1>1. l \in Nat /\ m \in Nat /\ p + n <= l
  OBVIOUS
<1>2. ReplacedAt(f, p, n, quads)
  BY ReplacedIs
<1>3. /\ g \in Seq(Quads) /\ Len(g) = l - n + m
      /\ \A j \in 1 .. p : g[j] = f[j]
      /\ \A k \in 1 .. m : g[p + k] = quads[k]
      /\ \A j \in 1 .. l - (p + n) : g[p + m + j] = f[p + n + j]
  BY <1>2 DEF ReplacedAt
<1>4. i \in 1 .. l - n + m
  <2>1. DOMAIN g = 1 .. Len(g)
    BY <1>3
  <2>2. QED
    BY <1>3, <2>1
<1> HIDE DEF g, m, l
<1>5. CASE i <= p
  <2>1. i \in 1 .. p
    BY <1>1, <1>4, <1>5
  <2>2. QED
    BY <1>3, <2>1 DEF g
<1>6. CASE ~ (i <= p) /\ i <= p + m
  <2> DEFINE k == i - p
  <2>1. k \in 1 .. m /\ p + k = i /\ i \in p + 1 .. p + m
    BY <1>1, <1>4, <1>6
  <2> HIDE DEF k
  <2>2. g[p + k] = quads[k]
    BY <1>3, <2>1
  <2>3. g[i] = quads[k]
    BY <2>1, <2>2
  <2>4. QED
    BY <2>1, <2>3 DEF k, g, m
<1>7. CASE ~ (i <= p + m)
  <2> DEFINE j == i - (p + m)
  <2>1. /\ j \in 1 .. l - (p + n) /\ p + m + j = i /\ p + n + j = i - m + n
        /\ i \in p + m + 1 .. l - n + m /\ i - m + n \in p + n + 1 .. l
    BY <1>1, <1>4, <1>7
  <2> HIDE DEF j
  <2>2. g[i] = f[i - m + n]
    BY <1>3, <2>1
  <2>3. i \in p + m + 1 .. Len(g)
    BY <1>3, <2>1
  <2>4. QED
    BY <2>1, <2>2, <2>3 DEF g, m, l
<1>8. QED
  BY <1>5, <1>6, <1>7

(* Quadrants that come after what is before the part and before what is     *)
(* after it keep the order.                                                 *)
LEMMA ReplacedInOrder ==
  ASSUME NEW f \in Seq(Quads), NEW p \in Nat, NEW n \in Nat, p + n <= Len(f),
         NEW quads \in Seq(Quads), InOrder(f), InOrder(quads),
         \A k \in DOMAIN quads :
            /\ \A j \in 1 .. p : Before(f[j], quads[k])
            /\ \A j \in p + n + 1 .. Len(f) : Before(quads[k], f[j])
  PROVE  InOrder(Replaced(f, p, n, quads))
<1> DEFINE g == Replaced(f, p, n, quads)
           m == Len(quads)
           l == Len(f)
<1>1. l \in Nat /\ m \in Nat /\ p + n <= l /\ DOMAIN f = 1 .. l /\ DOMAIN quads = 1 .. m
  OBVIOUS
<1>2. g \in Seq(Quads) /\ DOMAIN g = 1 .. Len(g) /\ Len(g) \in Nat
  <2>1. g \in Seq(Quads)
    BY ReplacedIs DEF ReplacedAt
  <2>2. QED
    BY <2>1
<1> DEFINE Fore(i) == i \in 1 .. p /\ g[i] = f[i]
           New(i)   == i \in p + 1 .. p + m /\ i - p \in 1 .. m /\ g[i] = quads[i - p]
           Rear(i)  == /\ i \in p + m + 1 .. Len(g) /\ i - m + n \in p + n + 1 .. l
                       /\ g[i] = f[i - m + n]
<1>3. \A i \in DOMAIN g : Fore(i) \/ New(i) \/ Rear(i)
  BY ReplacedEntry
<1> HIDE DEF g, m, l
<1>4. ASSUME NEW i \in DOMAIN g, NEW j \in DOMAIN g, i < j PROVE Before(g[i], g[j])
  <2>0. i \in Nat /\ j \in Nat
    BY <1>2
  <2>1. CASE Fore(i) /\ Fore(j)
    <3>1. i \in DOMAIN f /\ j \in DOMAIN f
      BY <1>1, <2>1
    <3>2. QED
      BY <1>4, <2>1, <3>1 DEF InOrder
  <2>2. CASE Fore(i) /\ New(j)
    BY <1>1, <2>2
  <2>3. CASE Fore(i) /\ Rear(j)
    <3>1. i \in DOMAIN f /\ j - m + n \in DOMAIN f /\ i < j - m + n
      BY <1>1, <2>3
    <3>2. QED
      BY <2>3, <3>1 DEF InOrder
  <2>4. CASE New(i) /\ New(j)
    <3>1. i - p < j - p
      BY <1>4, <2>0
    <3>2. QED
      BY <1>1, <2>4, <3>1 DEF InOrder
  <2>5. CASE New(i) /\ Rear(j)
    BY <1>1, <2>5 DEF l
  <2>6. CASE Rear(i) /\ Rear(j)
    <3>1. i - m + n < j - m + n
      BY <1>1, <1>4, <2>0
    <3>2. \A k \in p + n + 1 .. l : k \in DOMAIN f
      BY <1>1
    <3>3. i - m + n \in DOMAIN f /\ j - m + n \in DOMAIN f
      BY <2>6, <3>2
    <3>4. QED
      BY <2>6, <3>1, <3>3 DEF InOrder
  <2>7. ~ (New(i) /\ Fore(j)) /\ ~ (Rear(i) /\ Fore(j)) /\ ~ (Rear(i) /\ New(j))
    BY <1>1, <1>4
  <2> HIDE DEF Fore, New, Rear
  <2>8. QED
    BY <1>3, <2>1, <2>2, <2>3, <2>4, <2>5, <2>6, <2>7
<1>5. QED
  BY <1>4 DEF InOrder, g

(* What has been gone past after the replacement, and what has not.         *)
SetsAfter(f, p, n, quads) ==
    LET g == Replaced(f, p, n, quads)
        m == Len(quads)
    IN  /\ {g[i] : i \in 1 .. p + m} = {f[i] : i \in 1 .. p} \cup ToSet(quads)
        /\ {g[i] : i \in p + m + 1 .. Len(g)} = {f[i] : i \in p + n + 1 .. Len(f)}
        /\ ToSet(g) = {f[i] : i \in 1 .. p} \cup ToSet(quads) \cup {f[i] : i \in p + n + 1 .. Len(f)}

(* Only the part is replaced.                                               *)
LEMMA ReplacedSets ==
  ASSUME NEW f \in Seq(Quads), NEW p \in Nat, NEW n \in Nat, p + n <= Len(f),
         NEW quads \in Seq(Quads)
  PROVE  SetsAfter(f, p, n, quads)
<1> DEFINE g == Replaced(f, p, n, quads)
           m == Len(quads)
           l == Len(f)
<1>1. l \in Nat /\ m \in Nat /\ p + n <= l /\ DOMAIN f = 1 .. l /\ DOMAIN quads = 1 .. m
  OBVIOUS
<1>2. ReplacedAt(f, p, n, quads)
  BY ReplacedIs
<1>3. /\ g \in Seq(Quads) /\ Len(g) = l - n + m
      /\ \A j \in 1 .. p : g[j] = f[j]
      /\ \A k \in 1 .. m : g[p + k] = quads[k]
      /\ \A j \in 1 .. l - (p + n) : g[p + m + j] = f[p + n + j]
  BY <1>2 DEF ReplacedAt
<1>4. DOMAIN g = 1 .. Len(g)
  BY <1>3
<1> DEFINE A == {f[i] : i \in 1 .. p}
           Q == ToSet(quads)
           Z == {f[i] : i \in p + n + 1 .. l}
<1>5. ToSet(g) = {g[i] : i \in 1 .. Len(g)} /\ Q = {quads[k] : k \in 1 .. m}
  BY <1>1, <1>4 DEF ToSet
<1> HIDE DEF g, m, l, Q
<1>6. ASSUME NEW i \in 1 .. p PROVE f[i] \in {g[j] : j \in 1 .. p + m}
  <2>1. i \in 1 .. p + m /\ f[i] = g[i]
    BY <1>1, <1>3
  <2>2. QED
    BY <2>1
<1>7. ASSUME NEW k \in 1 .. m PROVE quads[k] \in {g[j] : j \in 1 .. p + m}
  <2>1. p + k \in 1 .. p + m /\ quads[k] = g[p + k]
    BY <1>1, <1>3
  <2>2. QED
    BY <2>1
<1>8. ASSUME NEW i \in 1 .. p + m PROVE g[i] \in A \cup Q
  <2>1. CASE i <= p
    <3>1. i \in 1 .. p /\ g[i] = f[i]
      BY <1>1, <1>3, <2>1
    <3>2. QED
      BY <3>1
  <2>2. CASE ~ (i <= p)
    <3> DEFINE k == i - p
    <3>1. k \in 1 .. m /\ p + k = i
      BY <1>1, <2>2
    <3> HIDE DEF k
    <3>2. g[p + k] = quads[k]
      BY <1>3, <3>1
    <3>3. g[i] = quads[k]
      BY <3>1, <3>2
    <3>4. QED
      BY <1>5, <3>1, <3>3
  <2>3. QED
    BY <2>1, <2>2
<1>9. {g[i] : i \in 1 .. p + m} = A \cup Q
  BY <1>5, <1>6, <1>7, <1>8
<1>10. ASSUME NEW i \in p + m + 1 .. Len(g) PROVE g[i] \in Z
  <2> DEFINE j == i - (p + m)
             k == p + n + j
  <2>1. j \in 1 .. l - (p + n) /\ p + m + j = i /\ k \in p + n + 1 .. l
    BY <1>1, <1>3
  <2>2. g[p + m + j] = f[p + n + j]
    BY <1>3, <2>1
  <2>3. g[i] = f[k]
    BY <2>1, <2>2
  <2> HIDE DEF k, j
  <2>4. QED
    BY <2>1, <2>3
<1>11. ASSUME NEW k \in p + n + 1 .. l PROVE f[k] \in {g[i] : i \in p + m + 1 .. Len(g)}
  <2> DEFINE j == k - (p + n)
             i == p + m + j
  <2>1. j \in 1 .. l - (p + n) /\ p + n + j = k /\ i \in p + m + 1 .. Len(g)
    BY <1>1, <1>3
  <2>2. g[p + m + j] = f[p + n + j]
    BY <1>3, <2>1
  <2>3. g[i] = f[k]
    BY <2>1, <2>2
  <2> HIDE DEF i, j
  <2>4. QED
    BY <2>1, <2>3
<1>12. {g[i] : i \in p + m + 1 .. Len(g)} = Z
  BY <1>10, <1>11
<1>13. \A i : i \in 1 .. Len(g) <=> i \in 1 .. p + m \/ i \in p + m + 1 .. Len(g)
  BY <1>1, <1>3
<1>14. ToSet(g) = {g[i] : i \in 1 .. p + m} \cup {g[i] : i \in p + m + 1 .. Len(g)}
  BY <1>5, <1>13
<1>15. QED
  BY <1>9, <1>12, <1>14 DEF SetsAfter, g, m, l, Q

----------------------------------------------------------------------------
(* The refinement                                                           *)

(* The refinement of one leaf more.                                         *)
LEMMA ExpandedNext ==
  ASSUME NEW r, NEW n \in Nat
  PROVE  /\ Expanded(r, 0) = {}
         /\ Expanded(r, n + 1) =
               Expanded(r, n) \cup (IF amrflags_d[r][n + 1] = DO_REFINE
                                    THEN ToSet(all_children(OldLeaves(r)[n + 1]))
                                    ELSE {OldLeaves(r)[n + 1]})
<1> DEFINE Of(i) == IF amrflags_d[r][i] = DO_REFINE THEN ToSet(all_children(OldLeaves(r)[i]))
                    ELSE {OldLeaves(r)[i]}
<1>1. \A m : Expanded(r, m) = UNION {Of(i) : i \in 1 .. m}
  BY DEF Expanded
<1> HIDE DEF Of
<1>2. \A i : i \in 1 .. n + 1 <=> i \in 1 .. n \/ i = n + 1
  OBVIOUS
<1>3. 1 .. 0 = {}
  OBVIOUS
<1>4. UNION {Of(i) : i \in 1 .. n + 1} = (UNION {Of(i) : i \in 1 .. n}) \cup Of(n + 1)
  BY <1>2
<1>5. UNION {Of(i) : i \in 1 .. 0} = {}
  BY <1>3
<1>6. QED
  BY <1>1, <1>4, <1>5 DEF Of

(* The leaf that is gone past is the next old leaf: what replaces it is in   *)
(* it, hence in order with the other leaves, and is what its flag asks.      *)
LEMMA BehindOn ==
  ASSUME PassInv, NEW s \in Ranks, pc[s] = "refine", pos[s] < Len(forest[s]), Laying(s),
         InOrder(forest[s]), Behind(s) = Expanded(s, inside_counter[s]),
         NEW quads \in Seq(Quads), GonePast(s, quads), old_keys' = old_keys,
         InOrder(quads), \A k \in DOMAIN quads : IsPrefix(Current(s), quads[k]),
         ToSet(quads) = IF amrflags_h[s][inside_counter[s] + 1] = DO_REFINE
                        THEN ToSet(all_children(Current(s))) ELSE {Current(s)}
  PROVE  InOrder(forest[s])' /\ (Behind(s) = Expanded(s, inside_counter[s]))'
<1> DEFINE f == forest[s]
           p == pos[s]
           c == inside_counter[s]
           n == 1
           g == Replaced(f, p, n, quads)
           m == Len(quads)
           q == Current(s)
<1>1. /\ f \in Seq(Quads) /\ p \in Nat /\ p + 1 <= Len(f) /\ c \in Nat
      /\ Ahead(s) \in Nat /\ Ahead(s) >= 1 /\ q \in Quads
  BY FlagAhead
<1>2. TypeOK
  BY DEF PassInv
<1>3. forest'[s] = g /\ pos'[s] = p + m /\ inside_counter'[s] = c + 1 /\ amrflags_d' = amrflags_d
  BY <1>2 DEF GonePast, TypeOK
<1>4. q = OldLeaves(s)[c + 1] /\ amrflags_h[s][c + 1] = amrflags_d[s][c + 1]
  <2>1. 1 \in 1 .. Ahead(s)
    BY <1>1
  <2>2. QED
    BY <2>1 DEF Laying, Current
<1>5. q = f[p + 1] /\ DOMAIN f = 1 .. Len(f) /\ \A j \in DOMAIN f : f[j] \in Quads
  BY <1>1 DEF Current
<1>6. n \in Nat /\ p + n <= Len(f)
  BY <1>1
<1>7. ASSUME NEW k \in DOMAIN quads
      PROVE  /\ \A j \in 1 .. p : Before(f[j], quads[k])
             /\ \A j \in p + n + 1 .. Len(f) : Before(quads[k], f[j])
  <2>1. quads[k] \in Quads /\ IsPrefix(q, quads[k])
    OBVIOUS
  <2> HIDE DEF f, p, q
  <2>2. ASSUME NEW j \in 1 .. p PROVE Before(f[j], quads[k])
    <3>1. j \in DOMAIN f /\ p + 1 \in DOMAIN f /\ j < p + 1
      BY <1>1, <1>5
    <3>2. Before(f[j], q) /\ f[j] \in Quads
      BY <1>5, <3>1 DEF InOrder, f
    <3>3. QED
      BY <1>1, <2>1, <3>2, BeforeBelow, Containment
  <2>3. ASSUME NEW j \in p + n + 1 .. Len(f) PROVE Before(quads[k], f[j])
    <3>1. j \in DOMAIN f /\ p + 1 \in DOMAIN f /\ p + 1 < j
      BY <1>1, <1>5
    <3>2. Before(q, f[j]) /\ f[j] \in Quads
      BY <1>5, <3>1 DEF InOrder, f
    <3>3. QED
      BY <1>1, <2>1, <3>2, BeforeBelow, Containment
  <2>4. QED
    BY <2>2, <2>3
<1> HIDE DEF n
<1>8. InOrder(Replaced(f, p, n, quads))
  BY <1>1, <1>6, <1>7, ReplacedInOrder
<1>9. {g[i] : i \in 1 .. p + m} = {f[i] : i \in 1 .. p} \cup ToSet(quads)
  <2>1. SetsAfter(f, p, n, quads)
    BY <1>1, <1>6, ReplacedSets
  <2>2. QED
    BY <2>1 DEF SetsAfter
<1>10. Behind(s)' = Behind(s) \cup ToSet(quads)
  BY <1>3, <1>9 DEF Behind
<1>11. Expanded(s, c + 1) = Expanded(s, c) \cup ToSet(quads)
  <2> DEFINE X == IF amrflags_d[s][c + 1] = DO_REFINE THEN ToSet(all_children(OldLeaves(s)[c + 1]))
                  ELSE {OldLeaves(s)[c + 1]}
  <2>1. ToSet(quads) = X
    BY <1>4
  <2>2. c \in Nat
    BY <1>1
  <2> HIDE DEF c
  <2>3. Expanded(s, c + 1) = Expanded(s, c) \cup X
    BY <2>2, ExpandedNext, Zenon
  <2>4. QED
    BY <2>1, <2>3
<1>12. Expanded(s, inside_counter[s])' = Expanded(s, c + 1)
  BY <1>3 DEF Expanded, OldLeaves
<1>13. QED
  BY <1>3, <1>8, <1>10, <1>11, <1>12 DEF InOrder

(* A leaf that is kept.                                                     *)
LEMMA KeepLeafBehind ==
  ASSUME PassInv, NEW s \in Ranks, KeepLeaf(s), Laying(s),
         InOrder(forest[s]), Behind(s) = Expanded(s, inside_counter[s])
  PROVE  InOrder(forest[s])' /\ (Behind(s) = Expanded(s, inside_counter[s]))'
<1> DEFINE quads == <<Current(s)>>
           flag == amrflags_h[s][inside_counter[s] + 1]
<1>1. pc[s] = "refine" /\ pos[s] < Len(forest[s]) /\ flag # DO_REFINE
  BY DEF KeepLeaf
<1>2. TypeOK
  BY DEF PassInv
<1>3. Current(s) \in Quads
  BY <1>1, FlagAhead
<1>4. quads \in Seq(Quads) /\ Len(quads) = 1 /\ DOMAIN quads = {1} /\ quads[1] = Current(s)
  BY <1>3
<1>5. GonePast(s, quads) /\ old_keys' = old_keys
  BY <1>2 DEF KeepLeaf, GonePast, Substitute, Replaced, TypeOK
<1> HIDE DEF quads
<1>6. InOrder(quads)
  BY <1>4 DEF InOrder
<1>7. \A k \in DOMAIN quads : IsPrefix(Current(s), quads[k])
  BY <1>3, <1>4, Containment
<1>8. ToSet(quads) = {Current(s)}
  BY <1>4 DEF ToSet
<1>9. QED
  BY <1>1, <1>4, <1>5, <1>6, <1>7, <1>8, BehindOn

(* A leaf that is refined.                                                  *)
LEMMA RefineLeafBehind ==
  ASSUME PassInv, NEW s \in Ranks, RefineLeaf(s), Laying(s),
         InOrder(forest[s]), Behind(s) = Expanded(s, inside_counter[s])
  PROVE  InOrder(forest[s])' /\ (Behind(s) = Expanded(s, inside_counter[s]))'
<1> DEFINE q == Current(s)
           quads == all_children(q)
           flag == amrflags_h[s][inside_counter[s] + 1]
<1>1. pc[s] = "refine" /\ pos[s] < Len(forest[s]) /\ flag = DO_REFINE
  BY DEF RefineLeaf
<1>2. TypeOK
  BY DEF PassInv
<1>3. q \in Quads /\ flag \in FlagsAllowed(q)
  BY <1>1, FlagAhead
<1>4. level(q) < LevelMax
  BY <1>1, <1>3 DEF FlagsAllowed, DO_REFINE, DO_NOTHING, DO_COARSEN
<1>5. quads \in Seq(Quads) /\ Len(quads) = NB_CHILDREN
  BY <1>3, <1>4, ChildrenType
<1>6. GonePast(s, quads) /\ old_keys' = old_keys
  BY <1>2 DEF RefineLeaf, GonePast, Substitute, Replaced, TypeOK
<1>7. InOrder(quads)
  BY <1>3, <1>4, ChildrenInOrder
<1>8. \A k \in DOMAIN quads : IsPrefix(q, quads[k])
  <2>1. DOMAIN quads = 1 .. NB_CHILDREN
    BY <1>5
  <2>2. QED
    BY <1>3, <1>4, <2>1, ChildrenApart
<1> HIDE DEF q
<1>9. ToSet(quads) = ToSet(all_children(q))
  OBVIOUS
<1> HIDE DEF quads
<1>10. QED
  BY <1>1, <1>5, <1>6, <1>7, <1>8, <1>9, BehindOn DEF q

----------------------------------------------------------------------------
(* The coarsening                                                           *)

(* In a sequence in order no quadrant contains another, and none is there   *)
(* twice.                                                                   *)
LEMMA InOrderLeafy ==
  ASSUME NEW s \in Seq(Quads), InOrder(s)
  PROVE  /\ Leafy(ToSet(s))
         /\ \A i, j \in DOMAIN s : Overlap(s[i], s[j]) => i = j
<1>1. Separate(s)
  BY OrderApart
<1>2. \A i, j \in DOMAIN s : Overlap(s[i], s[j]) => i = j
  BY <1>1 DEF Separate
<1>3. ToSet(s) \subseteq Quads
  BY DEF ToSet
<1>4. ASSUME NEW a \in ToSet(s), NEW b \in ToSet(s), Overlap(a, b) PROVE a = b
  <2>1. PICK i \in DOMAIN s : a = s[i]
    BY DEF ToSet
  <2>2. PICK j \in DOMAIN s : b = s[j]
    BY DEF ToSet
  <2>3. QED
    BY <1>2, <1>4, <2>1, <2>2
<1>5. QED
  BY <1>2, <1>3, <1>4 DEF Leafy

(* The children of a quadrant follow the eldest.                            *)
LEMMA SiblingsFollow ==
  ASSUME NEW s \in Seq(Quads), InOrder(s), NEW q \in Quads, level(q) < LevelMax,
         ToSet(all_children(q)) \subseteq ToSet(s),
         NEW a \in DOMAIN s, s[a] = Append(q, 0)
  PROVE  \A k \in ChildIds : a + k \in DOMAIN s /\ s[a + k] = Append(q, k)
<1>1. NB_CHILDREN \in Nat /\ NB_CHILDREN >= 4 /\ ChildIds = 0 .. NB_CHILDREN - 1
  BY ChildrenCount DEF ChildIds
<1>2. DOMAIN s = 1 .. Len(s) /\ Len(s) \in Nat /\ \A i \in DOMAIN s : s[i] \in Quads
  OBVIOUS
<1> DEFINE P == {k \in Nat : k \in ChildIds => a + k \in DOMAIN s /\ s[a + k] = Append(q, k)}
<1>3. 0 \in P
  BY <1>2
<1>4. ASSUME NEW k \in Nat, k \in P PROVE k + 1 \in P
  <2> SUFFICES ASSUME k + 1 \in ChildIds
               PROVE  a + (k + 1) \in DOMAIN s /\ s[a + (k + 1)] = Append(q, k + 1)
    OBVIOUS
  <2>1. k \in ChildIds
    BY <1>1
  <2>2. a + k \in DOMAIN s /\ s[a + k] = Append(q, k)
    BY <1>4, <2>1
  <2>3. Append(q, k + 1) \in ToSet(s)
    BY ChildSet
  <2>4. PICK j \in DOMAIN s : s[j] = Append(q, k + 1)
    BY <2>3 DEF ToSet
  <2>5. Before(Append(q, k), Append(q, k + 1))
    BY <2>1, ChildrenBefore
  <2>6. ~ Before(Append(q, k + 1), Append(q, k)) /\ Append(q, k) # Append(q, k + 1)
    <3>1. ~ (k + 1 < k) /\ ~ (k < k)
      OBVIOUS
    <3>2. QED
      BY <2>1, <2>5, <3>1, ChildrenBefore
  <2>7. a + k < j
    <3>1. ~ (j < a + k)
      BY <2>2, <2>4, <2>6 DEF InOrder
    <3>2. j # a + k
      BY <2>2, <2>4, <2>6
    <3> DEFINE e == a + k
    <3>3. j \in Nat /\ e \in Nat /\ ~ (j < e) /\ j # e
      BY <1>2, <3>1, <3>2
    <3> HIDE DEF e
    <3>4. e < j
      BY <3>3
    <3>5. QED
      BY <3>4 DEF e
  <2>8. j = a + (k + 1)
    <3> SUFFICES ASSUME a + (k + 1) < j PROVE FALSE
      BY <1>2, <2>7
    <3> DEFINE i == a + (k + 1)
    <3>1. i \in DOMAIN s /\ a + k < i /\ i < j
      BY <1>2
    <3> HIDE DEF i
    <3>2. s[i] \in Quads /\ Before(Append(q, k), s[i]) /\ Before(s[i], Append(q, k + 1))
      BY <1>2, <2>2, <2>4, <3>1 DEF InOrder
    <3>3. PICK h \in ChildIds : k < h /\ h < k + 1
      BY <2>1, <3>2, BetweenChildren
    <3>4. h \in Nat
      BY <1>1
    <3>5. QED
      BY <3>3, <3>4
  <2>9. QED
    BY <2>4, <2>8
<1> HIDE DEF P
<1>5. \A k \in Nat : k \in P
  BY <1>3, <1>4, EveryNat
<1>6. QED
  BY <1>1, <1>5 DEF P

(* What the leaves of the refined mesh are.                                 *)
LEMMA RefinedIs ==
  ASSUME TypeOK, NEW r \in Ranks, Kept(r)
  PROVE  /\ \A x : x \in Refined(r) <=>
                  \/ \E q \in Asked(r, DO_REFINE) : x \in ToSet(all_children(q))
                  \/ x \in ToSet(OldLeaves(r)) \ Asked(r, DO_REFINE)
         /\ Asked(r, DO_COARSEN) \subseteq Refined(r)
         /\ Leafy(ToSet(OldLeaves(r)))
<1> DEFINE old == OldLeaves(r)
           n == Len(amrflags_d[r])
           flag(i) == amrflags_d[r][i]
<1>1. /\ old \in Seq(Quads) /\ Len(old) = n /\ DOMAIN amrflags_d[r] = 1 .. n /\ n \in Nat
      /\ ToSet(old) = {old[i] : i \in 1 .. n}
      /\ \A i \in 1 .. n : old[i] \in Quads
  BY OldIs DEF Kept
<1>2. InOrder(old)
  BY DEF Kept
<1>3. DOMAIN old = 1 .. n
  BY <1>1
<1>4. \A f : Asked(r, f) = {old[i] : i \in {j \in 1 .. n : flag(j) = f}}
  BY <1>1 DEF Asked
<1>5. Refined(r) = UNION {IF flag(i) = DO_REFINE THEN ToSet(all_children(old[i])) ELSE {old[i]} :
                             i \in 1 .. n}
  BY DEF Refined, Expanded
<1> HIDE DEF old, n, flag
<1>6. Leafy(ToSet(old)) /\ \A i, j \in 1 .. n : Overlap(old[i], old[j]) => i = j
  BY <1>1, <1>2, <1>3, InOrderLeafy
<1>7. ASSUME NEW i \in 1 .. n, NEW f, old[i] \in Asked(r, f) PROVE flag(i) = f
  <2>1. PICK j \in 1 .. n : flag(j) = f /\ old[j] = old[i]
    BY <1>4, <1>7
  <2>2. Overlap(old[i], old[j])
    BY <1>1, <2>1, Containment DEF Overlap
  <2>3. QED
    BY <1>6, <2>1, <2>2
<1>8. ASSUME NEW x
      PROVE  x \in Refined(r) <=>
                  \/ \E q \in Asked(r, DO_REFINE) : x \in ToSet(all_children(q))
                  \/ x \in ToSet(old) \ Asked(r, DO_REFINE)
  <2>1. ASSUME x \in Refined(r)
        PROVE  \/ \E q \in Asked(r, DO_REFINE) : x \in ToSet(all_children(q))
               \/ x \in ToSet(old) \ Asked(r, DO_REFINE)
    <3>1. PICK i \in 1 .. n :
             x \in IF flag(i) = DO_REFINE THEN ToSet(all_children(old[i])) ELSE {old[i]}
      BY <1>5, <2>1
    <3>2. CASE flag(i) = DO_REFINE
      <4>1. old[i] \in Asked(r, DO_REFINE)
        BY <1>4, <3>2
      <4>2. QED
        BY <3>1, <3>2, <4>1
    <3>3. CASE flag(i) # DO_REFINE
      BY <1>1, <1>7, <3>1, <3>3
    <3>4. QED
      BY <3>2, <3>3
  <2>2. ASSUME NEW q \in Asked(r, DO_REFINE), x \in ToSet(all_children(q))
        PROVE  x \in Refined(r)
    <3>1. PICK i \in 1 .. n : flag(i) = DO_REFINE /\ q = old[i]
      BY <1>4
    <3>2. QED
      BY <1>5, <2>2, <3>1
  <2>3. ASSUME x \in ToSet(old) \ Asked(r, DO_REFINE) PROVE x \in Refined(r)
    <3>1. PICK i \in 1 .. n : x = old[i]
      BY <1>1, <2>3
    <3>2. flag(i) # DO_REFINE
      BY <1>4, <2>3, <3>1
    <3>3. QED
      BY <1>5, <3>1, <3>2
  <2>4. QED
    BY <2>1, <2>2, <2>3
<1>9. ASSUME NEW x \in Asked(r, DO_COARSEN) PROVE x \in Refined(r)
  <2>1. PICK i \in 1 .. n : flag(i) = DO_COARSEN /\ x = old[i]
    BY <1>4
  <2>2. x \notin Asked(r, DO_REFINE)
    <3>1. DO_COARSEN # DO_REFINE
      BY DEF DO_COARSEN, DO_REFINE
    <3>2. QED
      BY <1>7, <2>1, <3>1
  <2>3. QED
    BY <1>1, <1>8, <2>1, <2>2
<1>10. QED
  BY <1>6, <1>8, <1>9 DEF old

(* A father that is merged is not an old leaf: its children are.            *)
LEMMA MergedIsNew ==
  ASSUME TypeOK, NEW r \in Ranks, Kept(r), NEW f \in Merged(r)
  PROVE  /\ f \notin ToSet(OldLeaves(r))
         /\ \A x \in ToSet(all_children(f)) : x \notin Merged(r)
<1>1. /\ f \in Quads /\ level(f) < LevelMax
      /\ ToSet(all_children(f)) \subseteq Asked(r, DO_COARSEN)
  BY MergedIs
<1>2. ToSet(all_children(f)) \subseteq ToSet(OldLeaves(r)) /\ Leafy(ToSet(OldLeaves(r)))
  BY <1>1, OldIs, RefinedIs DEF Kept
<1>3. ASSUME NEW g \in Quads, level(g) < LevelMax, ToSet(all_children(g)) \subseteq ToSet(OldLeaves(r)),
             g \in ToSet(OldLeaves(r))
      PROVE  FALSE
  <2>1. Append(g, 0) \in ToSet(all_children(g)) /\ 0 \in ChildIds
    <3>1. 0 \in ChildIds
      BY ChildrenCount DEF ChildIds
    <3>2. QED
      BY <3>1, ChildSet
  <2>2. IsPrefix(g, Append(g, 0)) /\ Len(Append(g, 0)) = Len(g) + 1 /\ Len(g) \in Nat
    BY <1>3, <2>1, ChildIs, PathOf
  <2>3. Append(g, 0) = g
    BY <1>2, <1>3, <2>1, <2>2 DEF Leafy, Overlap
  <2>4. Len(g) = Len(g) + 1
    BY <2>2, <2>3
  <2>5. QED
    BY <2>2, <2>4
<1>4. f \notin ToSet(OldLeaves(r))
  BY <1>1, <1>2, <1>3
<1>5. ASSUME NEW x \in ToSet(all_children(f)), x \in Merged(r) PROVE FALSE
  <2>1. /\ x \in Quads /\ level(x) < LevelMax
        /\ ToSet(all_children(x)) \subseteq Asked(r, DO_COARSEN)
    BY <1>5, MergedIs
  <2>2. ToSet(all_children(x)) \subseteq ToSet(OldLeaves(r)) /\ x \in ToSet(OldLeaves(r))
    BY <1>2, <2>1, OldIs DEF Kept
  <2>3. QED
    BY <1>3, <2>1, <2>2
<1>6. QED
  BY <1>4, <1>5

(* The refinement is over: nothing has been merged.                         *)
LEMMA MergingStarts ==
  ASSUME PassInv, EndRefine, NEW r \in Ranks, Kept(r), Behind(r) = Expanded(r, inside_counter[r])
  PROVE  Merging(r)'
<1>1. TypeOK
  BY DEF PassInv
<1>2. pc[r] = "refine" /\ PassOver(r)
  BY DEF EndRefine
<1>3. inside_counter[r] = Len(amrflags_d[r])
  BY <1>2, RefinementOver
<1>4. forest[r] \in Seq(Quads) /\ pos[r] = Len(forest[r])
  BY <1>1, <1>2 DEF TypeOK, PassOver
<1>5. ToSet(forest[r]) = Refined(r)
  <2>1. DOMAIN forest[r] = 1 .. pos[r]
    BY <1>4
  <2>2. ToSet(forest[r]) = Behind(r)
    BY <2>1 DEF ToSet, Behind
  <2>3. QED
    BY <1>3, <2>2 DEF Refined
<1>6. /\ forest' = forest /\ pos'[r] = 0 /\ amrflags_d' = amrflags_d /\ old_keys' = old_keys
  BY DEF EndRefine
<1>7. ToCome(r)' = ToSet(forest[r])
  <2>1. 0 + 1 .. Len(forest[r]) = DOMAIN forest[r]
    BY <1>4
  <2>2. QED
    BY <1>6, <2>1 DEF ToCome, ToSet
<1>8. Refined(r)' = Refined(r) /\ Merged(r)' = Merged(r)
  BY <1>6 DEF Refined, Expanded, Merged, Asked, OldLeaves
<1>9. \A f \in Merged(r) : ToSet(all_children(f)) \subseteq ToSet(forest[r])
  <2>1. Asked(r, DO_COARSEN) \subseteq Refined(r)
    BY <1>1, RefinedIs
  <2>2. QED
    BY <1>1, <1>5, <2>1, MergedIs
<1>10. QED
  BY <1>5, <1>6, <1>7, <1>8, <1>9 DEF Merging

(* The part of the leaves the coarsening goes past.                         *)
LEMMA MergingParts ==
  ASSUME PassInv, NEW s \in Ranks, NEW n \in Nat, pos[s] + n <= Len(forest[s]), NEW q \in Quads,
         Substitute(s, n, <<q>>)
  PROVE  LET A == {forest[s][i] : i \in 1 .. pos[s]}
             P == {forest[s][i] : i \in pos[s] + 1 .. pos[s] + n}
             Z == {forest[s][i] : i \in pos[s] + n + 1 .. Len(forest[s])}
         IN  /\ forest'[s] = Replaced(forest[s], pos[s], n, <<q>>)
             /\ ToSet(forest[s]) = A \cup P \cup Z /\ ToCome(s) = P \cup Z
             /\ ToSet(forest'[s]) = A \cup {q} \cup Z /\ ToCome(s)' = Z
<1> DEFINE f == forest[s]
           p == pos[s]
           l == Len(f)
           quads == <<q>>
           A == {f[i] : i \in 1 .. p}
           P == {f[i] : i \in p + 1 .. p + n}
           Z == {f[i] : i \in p + n + 1 .. l}
           g == Replaced(f, p, n, quads)
<1>1. TypeOK
  BY DEF PassInv
<1>2. f \in Seq(Quads) /\ p \in Nat /\ l \in Nat /\ p + n <= l /\ DOMAIN f = 1 .. l
  BY <1>1 DEF TypeOK
<1>3. quads \in Seq(Quads) /\ Len(quads) = 1 /\ ToSet(quads) = {q}
  BY DEF ToSet
<1>4. forest'[s] = g /\ pos'[s] = p + 1
  BY <1>1, <1>2, <1>3 DEF TypeOK, Substitute, Replaced
<1>5. SetsAfter(f, p, n, quads)
  BY <1>2, <1>3, ReplacedSets
<1>6. {g[i] : i \in p + 1 + 1 .. Len(g)} = Z /\ ToSet(g) = A \cup {q} \cup Z
  BY <1>3, <1>5 DEF SetsAfter
<1>7. ToCome(s)' = {g[i] : i \in p + 1 + 1 .. Len(g)}
  BY <1>4 DEF ToCome
<1>8. ToSet(f) = {f[i] : i \in 1 .. l} /\ ToCome(s) = {f[i] : i \in p + 1 .. l}
  BY <1>2 DEF ToSet, ToCome
<1> HIDE DEF f, p, l, g, quads
<1>9. /\ \A i : i \in 1 .. l <=> i \in 1 .. p \/ i \in p + 1 .. p + n \/ i \in p + n + 1 .. l
      /\ \A i : i \in p + 1 .. l <=> i \in p + 1 .. p + n \/ i \in p + n + 1 .. l
  BY <1>2
<1>10. {f[i] : i \in 1 .. l} = A \cup P \cup Z /\ {f[i] : i \in p + 1 .. l} = P \cup Z
  BY <1>9
<1>11. QED
  BY <1>4, <1>6, <1>7, <1>8, <1>10 DEF f, p, l, g, quads

(* A family that is to be merged agrees: what is asked of its leaves is in   *)
(* tmp_flags from the counter on.                                           *)
LEMMA FamilyAgrees ==
  ASSUME PassInv, NEW s \in Ranks, Coarsening(s), Reading(s), ~ PassOver(s), Kept(s),
         InOrder(forest[s]), NEW g \in Merged(s), ToSet(all_children(g)) \subseteq ToCome(s),
         Current(s) \in ToSet(all_children(g))
  PROVE  Family(s) /\ Agreed(s)
<1> DEFINE f == forest[s]
           p == pos[s]
           l == Len(f)
<1>1. TypeOK
  BY DEF PassInv
<1>2. f \in Seq(Quads) /\ p \in Nat /\ l \in Nat /\ DOMAIN f = 1 .. l
  BY <1>1 DEF TypeOK
<1>3. g \in Quads /\ level(g) < LevelMax /\ ToSet(all_children(g)) \subseteq Asked(s, DO_COARSEN)
  BY <1>1, MergedIs
<1>4. Ahead(s) = l - p /\ l - p >= 1
  <2>1. l - p \in Nat /\ p # l
    BY DEF Coarsening, Ahead, PassOver
  <2>2. QED
    BY <1>2, <2>1 DEF Ahead
<1>5. p + 1 \in DOMAIN f /\ Current(s) = f[p + 1]
  BY <1>2, <1>4 DEF Current
<1>6. NB_CHILDREN \in Nat /\ NB_CHILDREN >= 4 /\ ChildIds = 0 .. NB_CHILDREN - 1
  BY ChildrenCount DEF ChildIds
<1>7. ToCome(s) = {f[i] : i \in p + 1 .. l} /\ ToCome(s) \subseteq ToSet(f)
  <2>1. \A i \in p + 1 .. l : i \in DOMAIN f
    BY <1>2
  <2>2. QED
    BY <2>1 DEF ToCome, ToSet
<1> HIDE DEF f, p, l
<1>8. f[p + 1] = Append(g, 0)
  <2>1. PICK k \in ChildIds : f[p + 1] = Append(g, k)
    BY <1>5, ChildSet
  <2>2. 0 \in ChildIds
    BY <1>6
  <2>3. Append(g, 0) \in ToCome(s)
    BY <2>2, ChildSet
  <2>4. PICK j \in p + 1 .. l : f[j] = Append(g, 0)
    BY <1>7, <2>3
  <2>5. CASE k = 0
    BY <2>1, <2>5
  <2>6. CASE k # 0
    <3>1. 0 < k
      BY <1>6, <2>6
    <3>2. Before(f[j], f[p + 1])
      BY <1>3, <2>1, <2>2, <2>4, <3>1, ChildrenBefore
    <3>3. Append(g, 0) # Append(g, k)
      BY <1>3, <2>1, <2>2, <3>1, ChildrenBefore
    <3>4. p + 1 < j /\ j \in DOMAIN f
      <4>1. j # p + 1
        BY <2>1, <2>4, <3>3
      <4> DEFINE e == p + 1
      <4>2. e \in Nat /\ j \in e .. l /\ j # e
        BY <1>2, <4>1
      <4> HIDE DEF e
      <4>3. e < j
        BY <1>2, <4>2
      <4>4. j \in DOMAIN f
        BY <1>2
      <4>5. QED
        BY <4>3, <4>4 DEF e
    <3>5. Before(f[p + 1], f[j])
      BY <1>5, <3>4 DEF InOrder, f
    <3>6. Before(Append(g, k), Append(g, 0))
      BY <2>1, <2>4, <3>5
    <3>7. k < 0
      BY <1>3, <2>2, <3>6, ChildrenBefore
    <3>8. QED
      BY <1>6, <3>1, <3>7
  <2>7. QED
    BY <2>5, <2>6
<1>9. \A k \in ChildIds : p + 1 + k \in DOMAIN f /\ f[p + 1 + k] = Append(g, k)
  <2> DEFINE a == p + 1
  <2>1. a \in DOMAIN f /\ f[a] = Append(g, 0) /\ InOrder(f) /\ ToSet(all_children(g)) \subseteq ToSet(f)
    BY <1>5, <1>7, <1>8 DEF f
  <2> HIDE DEF a
  <2>2. \A k \in ChildIds : a + k \in DOMAIN f /\ f[a + k] = Append(g, k)
    BY <1>2, <1>3, <2>1, SiblingsFollow
  <2>3. QED
    BY <2>2 DEF a
<1>10. p + NB_CHILDREN <= l
  <2>1. NB_CHILDREN - 1 \in ChildIds
    BY <1>6
  <2>2. p + 1 + (NB_CHILDREN - 1) \in DOMAIN f
    BY <1>9, <2>1
  <2>3. QED
    BY <1>2, <1>6, <2>2
<1>11. Family(s)
  <2> DEFINE e == p + NB_CHILDREN
             t == SubSeq(f, p + 1, e)
             c == all_children(g)
  <2>1. e \in Nat /\ p <= e /\ e <= Len(f) /\ e - p = NB_CHILDREN
    BY <1>2, <1>6, <1>10 DEF l
  <2> HIDE DEF e
  <2>2. t \in Seq(Quads) /\ Len(t) = NB_CHILDREN /\ \A j \in 1 .. NB_CHILDREN : t[j] = f[p + j]
    BY <1>2, <2>1, PartOfSeq
  <2>3. c \in Seq(Quads) /\ Len(c) = NB_CHILDREN
    BY <1>3, ChildrenType
  <2>4. ASSUME NEW j \in 1 .. NB_CHILDREN PROVE t[j] = c[j]
    <3>1. j - 1 \in ChildIds /\ p + 1 + (j - 1) = p + j
      BY <1>2, <1>6
    <3>2. c[j] = Append(g, j - 1)
      BY DEF all_children
    <3>3. f[p + 1 + (j - 1)] = Append(g, j - 1)
      BY <1>9, <3>1
    <3>4. QED
      BY <2>2, <3>1, <3>2, <3>3
  <2> HIDE DEF t, c
  <2>5. t = c
    BY <1>6, <2>2, <2>3, <2>4
  <2>6. t[1] = Current(s) /\ level(Current(s)) > 0 /\ father(Current(s)) = g
    <3>1. 1 \in 1 .. NB_CHILDREN
      BY <1>6
    <3>2. QED
      BY <1>3, <1>5, <2>2, <3>1, FatherOfChild
  <2>7. t = SubSeq(f, p + 1, e)
    BY DEF t
  <2>8. IsFamily(SubSeq(forest[s], pos[s] + 1, pos[s] + NB_CHILDREN))
    BY <2>2, <2>5, <2>6, <2>7 DEF IsFamily, c, e, f, p
  <2>9. QED
    BY <1>10, <2>8 DEF Family, f, p, l
<1>12. Agreed(s)
  <2> DEFINE c == inside_counter[s]
  <2>1. c \in Nat
    BY <1>1 DEF TypeOK
  <2>2. ASSUME NEW k \in ChildIds PROVE TmpFlag(s, c + k) = DO_COARSEN
    <3>1. k + 1 \in 1 .. l - p /\ c + ((k + 1) - 1) = c + k /\ p + (k + 1) = p + 1 + k
      <4>1. k \in Int /\ 0 <= k /\ k <= NB_CHILDREN - 1
        BY <1>6
      <4>2. k + 1 \in 1 .. l - p
        BY <1>2, <1>6, <1>10, <4>1
      <4>3. p + (k + 1) = p + 1 + k
        BY <1>2, <4>1
      <4>4. c + ((k + 1) - 1) = c + k
        BY <2>1, <4>1
      <4>5. QED
        BY <4>2, <4>3, <4>4
    <3> DEFINE j == k + 1
    <3>2. TmpFlag(s, c + (j - 1)) = Wanted(s, f[p + j])
      BY <1>4, <3>1 DEF Reading, f, p
    <3>3. f[p + j] = Append(g, k)
      BY <1>9, <3>1
    <3>4. Append(g, k) \in Asked(s, DO_COARSEN)
      BY <1>3, ChildSet
    <3>5. QED
      BY <3>1, <3>2, <3>3, <3>4 DEF Wanted
  <2>3. QED
    BY <2>2 DEF Agreed
<1>13. QED
  BY <1>11, <1>12

(* A leaf the coarsening skips is of no family that is to be merged.        *)
LEMMA SkipLeafMerging ==
  ASSUME PassInv, NEW s \in Ranks, SkipLeaf(s), Reading(s), Kept(s), InOrder(forest[s]), Merging(s)
  PROVE  InOrder(forest[s])' /\ Merging(s)'
<1> DEFINE f == forest[s]
           p == pos[s]
           l == Len(f)
           q == Current(s)
           n == 1
           A == {f[i] : i \in 1 .. p}
           P == {f[i] : i \in p + 1 .. p + n}
           Z == {f[i] : i \in p + n + 1 .. l}
<1>1. TypeOK /\ Coarsening(s) /\ ~ PassOver(s) /\ ~ (Family(s) /\ Agreed(s))
  BY DEF PassInv, Pass, SkipLeaf
<1>2. f \in Seq(Quads) /\ p \in Nat /\ l \in Nat /\ DOMAIN f = 1 .. l
  BY <1>1 DEF TypeOK
<1>3. p + n <= l
  <2>1. l - p \in Nat /\ p # l
    BY <1>1 DEF Coarsening, Ahead, PassOver
  <2>2. QED
    BY <1>2, <2>1
<1>4. p + 1 \in DOMAIN f /\ q = f[p + 1] /\ q \in Quads
  BY <1>2, <1>3 DEF Current
<1>5. P = {q}
  <2>1. p + 1 .. p + 1 = {p + 1}
    BY <1>2
  <2>2. QED
    BY <1>4, <2>1
<1>6. Substitute(s, n, <<q>>) /\ UNCHANGED <<amrflags_d, old_keys, num_replaced>>
  BY DEF SkipLeaf
<1>7. n \in Nat
  OBVIOUS
<1> HIDE DEF n, q
<1>8. /\ forest'[s] = Replaced(f, p, n, <<q>>)
      /\ ToSet(f) = A \cup P \cup Z /\ ToCome(s) = P \cup Z
      /\ ToSet(forest'[s]) = A \cup {q} \cup Z /\ ToCome(s)' = Z
  BY <1>3, <1>4, <1>6, <1>7, MergingParts
<1>9. InOrder(Replaced(f, p, n, <<q>>))
  <2> DEFINE quads == <<q>>
  <2>1. quads \in Seq(Quads) /\ DOMAIN quads = {1} /\ quads[1] = q
    BY <1>4
  <2>2. InOrder(quads)
    BY <2>1 DEF InOrder
  <2>3. ASSUME NEW k \in DOMAIN quads
        PROVE  /\ \A j \in 1 .. p : Before(f[j], quads[k])
               /\ \A j \in p + n + 1 .. l : Before(quads[k], f[j])
    <3>1. quads[k] = f[p + 1]
      BY <1>4, <2>1
    <3>2. ASSUME NEW j \in 1 .. p PROVE Before(f[j], f[p + 1])
      <4>1. j \in DOMAIN f /\ j < p + 1
        BY <1>2, <1>4
      <4>2. QED
        BY <1>4, <4>1 DEF InOrder
    <3>3. ASSUME NEW j \in p + n + 1 .. l PROVE Before(f[p + 1], f[j])
      <4>1. j \in DOMAIN f /\ p + 1 < j
        BY <1>2, <1>4 DEF n
      <4>2. QED
        BY <1>4, <4>1 DEF InOrder
    <3>4. QED
      BY <3>1, <3>2, <3>3
  <2> HIDE DEF quads, f, p
  <2>4. InOrder(Replaced(f, p, n, quads))
    BY <1>2, <1>3, <1>7, <2>1, <2>2, <2>3, ReplacedInOrder DEF l, f
  <2>5. QED
    BY <2>4 DEF quads
<1> HIDE DEF f, p, l, A, P, Z
<1>10. ToSet(forest'[s]) = ToSet(f)
  BY <1>5, <1>8
<1>11. Refined(s)' = Refined(s) /\ Merged(s)' = Merged(s) /\ num_replaced'[s] = num_replaced[s]
  BY <1>6 DEF Refined, Expanded, Merged, Asked, OldLeaves
<1>12. ASSUME NEW g \in Merged(s)
       PROVE  g \in ToSet(f) \/ ToSet(all_children(g)) \subseteq ToCome(s)'
  <2>1. CASE g \in ToSet(f)
    BY <2>1
  <2>2. CASE ToSet(all_children(g)) \subseteq ToCome(s)
    <3>1. q \notin ToSet(all_children(g))
      BY <1>1, <2>2, FamilyAgrees DEF f, q
    <3>2. QED
      BY <1>5, <1>8, <2>2, <3>1
  <2>3. QED
    BY <2>1, <2>2 DEF Merging, f
<1>13. Merging(s)'
  BY <1>10, <1>11, <1>12 DEF Merging, f
<1>14. QED
  BY <1>8, <1>9, <1>13 DEF InOrder, f

(* A family that agrees was to be merged, and the father takes its place.   *)
LEMMA CoarsenFamilyMerging ==
  ASSUME PassInv, NEW s \in Ranks, CoarsenFamily(s), Reading(s), Kept(s), InOrder(forest[s]),
         Merging(s)
  PROVE  InOrder(forest[s])' /\ Merging(s)'
<1> DEFINE f == forest[s]
           p == pos[s]
           l == Len(f)
           g == father(Current(s))
           n == NB_CHILDREN
           A == {f[i] : i \in 1 .. p}
           P == {f[i] : i \in p + 1 .. p + n}
           Z == {f[i] : i \in p + n + 1 .. l}
<1>1. TypeOK /\ Coarsening(s) /\ Family(s) /\ Agreed(s)
  BY DEF PassInv, Pass, CoarsenFamily
<1>2. f \in Seq(Quads) /\ p \in Nat /\ l \in Nat /\ DOMAIN f = 1 .. l
  BY <1>1 DEF TypeOK
<1>3. n \in Nat /\ n >= 4 /\ ChildIds = 0 .. n - 1 /\ p + n <= l
  BY <1>1, ChildrenCount DEF ChildIds, Family
<1>4. /\ Current(s) \in Quads /\ level(Current(s)) > 0
      /\ \A k \in 1 .. n : f[p + k] = all_children(g)[k]
  <2> DEFINE e == p + n
             t == SubSeq(f, p + 1, e)
  <2>1. e \in Nat /\ p <= e /\ e <= Len(f) /\ e - p = n /\ 1 \in 1 .. n
    BY <1>2, <1>3
  <2>2. level(t[1]) > 0 /\ t = all_children(father(t[1]))
    BY <1>1 DEF Family, IsFamily
  <2> HIDE DEF f, p, e, n
  <2>3. \A j \in 1 .. e - p : t[j] = f[p + j]
    BY <1>2, <2>1, PartOfSeq
  <2> HIDE DEF t
  <2>4. t[1] = f[p + 1] /\ f[p + 1] \in Quads
    BY <1>2, <2>1, <2>3
  <2>5. t[1] = Current(s)
    BY <2>4 DEF Current, f, p
  <2>6. QED
    BY <2>1, <2>2, <2>3, <2>4, <2>5
<1>5. g \in Quads /\ level(g) < LevelMax /\ IsPrefix(g, Current(s))
  BY <1>4, FatherIs
<1>6. Substitute(s, n, <<g>>) /\ UNCHANGED <<amrflags_d, old_keys>>
      /\ num_replaced'[s] = num_replaced[s] + 1 /\ num_replaced[s] \in Nat
  BY <1>1 DEF CoarsenFamily, TypeOK
<1>7. p + 1 \in DOMAIN f /\ Current(s) = f[p + 1] /\ \A j \in DOMAIN f : f[j] \in Quads
  BY <1>2, <1>3 DEF Current
<1> HIDE DEF n, g
<1>8. /\ forest'[s] = Replaced(f, p, n, <<g>>)
      /\ ToSet(f) = A \cup P \cup Z /\ ToCome(s) = P \cup Z
      /\ ToSet(forest'[s]) = A \cup {g} \cup Z /\ ToCome(s)' = Z
  BY <1>3, <1>5, <1>6, MergingParts
<1>9. P = ToSet(all_children(g))
  <2>1. ToSet(all_children(g)) = {all_children(g)[k] : k \in 1 .. n}
    BY DEF ToSet, all_children, n
  <2>2. ASSUME NEW k \in 1 .. n PROVE all_children(g)[k] \in P
    <3>1. p + k \in p + 1 .. p + n /\ f[p + k] = all_children(g)[k]
      BY <1>2, <1>3, <1>4
    <3> DEFINE i == p + k
    <3>2. i \in p + 1 .. p + n /\ f[i] = all_children(g)[k]
      BY <3>1
    <3> HIDE DEF i
    <3>3. QED
      BY <3>2
  <2>3. ASSUME NEW i \in p + 1 .. p + n PROVE f[i] \in {all_children(g)[k] : k \in 1 .. n}
    <3> DEFINE k == i - p
    <3>1. k \in 1 .. n /\ p + k = i
      BY <1>2, <1>3
    <3> HIDE DEF k
    <3>2. f[p + k] = all_children(g)[k]
      BY <1>4, <3>1
    <3>3. QED
      BY <3>1, <3>2
  <2>4. QED
    BY <2>1, <2>2, <2>3
<1>10. g \in Merged(s)
  <2>1. ASSUME NEW k \in 1 .. n PROVE all_children(g)[k] \in Asked(s, DO_COARSEN)
    <3> DEFINE c == inside_counter[s]
    <3>1. c \in Nat /\ Ahead(s) = l - p
      BY <1>1 DEF TypeOK, Ahead
    <3>2. k - 1 \in ChildIds /\ k \in 1 .. l - p
      BY <1>2, <1>3
    <3>3. TmpFlag(s, c + (k - 1)) = DO_COARSEN
      BY <1>1, <3>2 DEF Agreed
    <3>4. TmpFlag(s, c + (k - 1)) = Wanted(s, f[p + k])
      BY <3>1, <3>2 DEF Reading
    <3>5. f[p + k] \in Asked(s, DO_COARSEN)
      BY <3>3, <3>4 DEF Wanted, DO_COARSEN, DO_NOTHING
    <3>6. QED
      BY <1>4, <3>5
  <2>2. ToSet(all_children(g)) \subseteq Asked(s, DO_COARSEN)
    BY <2>1 DEF ToSet, all_children, n
  <2>3. Current(s) \in ToSet(all_children(g))
    BY <1>4, AmongSiblings DEF g
  <2>4. Current(s) # <<>>
    BY <1>4 DEF level
  <2>5. QED
    BY <2>2, <2>3, <2>4 DEF Merged, g
<1>11. InOrder(Replaced(f, p, n, <<g>>))
  <2> DEFINE quads == <<g>>
  <2>1. quads \in Seq(Quads) /\ DOMAIN quads = {1} /\ quads[1] = g
    BY <1>5
  <2>2. InOrder(quads)
    BY <2>1 DEF InOrder
  <2>3. ASSUME NEW j \in DOMAIN f, j \notin p + 1 .. p + n PROVE ~ Overlap(g, f[j])
    <3>1. ASSUME NEW k \in 1 .. n PROVE ~ Overlap(all_children(g)[k], f[j])
      <4>1. p + k \in DOMAIN f /\ p + k # j
        BY <1>2, <1>3, <2>3
      <4>2. ~ Overlap(f[p + k], f[j])
        BY <1>2, <4>1, InOrderLeafy
      <4>3. QED
        BY <1>4, <4>2
    <3>2. QED
      BY <1>5, <1>7, <3>1, ChildrenApart DEF n
  <2>4. ASSUME NEW j \in 1 .. p PROVE Before(f[j], g)
    <3>1. j \in DOMAIN f /\ j < p + 1 /\ j \notin p + 1 .. p + n
      BY <1>2, <1>3
    <3>2. Before(f[j], f[p + 1])
      BY <1>7, <3>1 DEF InOrder
    <3>3. ~ Overlap(f[j], g)
      BY <2>3, <3>1 DEF Overlap
    <3>4. QED
      BY <1>5, <1>7, <3>1, <3>2, <3>3, BeforeAbove, Containment
  <2>5. ASSUME NEW j \in p + n + 1 .. l PROVE Before(g, f[j])
    <3>1. j \in DOMAIN f /\ p + 1 < j /\ j \notin p + 1 .. p + n
      BY <1>2, <1>3
    <3>2. Before(f[p + 1], f[j])
      BY <1>7, <3>1 DEF InOrder
    <3>3. ~ Overlap(g, f[j])
      BY <2>3, <3>1
    <3>4. QED
      BY <1>5, <1>7, <3>1, <3>2, <3>3, BeforeAbove, Containment
  <2>6. \A k \in DOMAIN quads : /\ \A j \in 1 .. p : Before(f[j], quads[k])
                                /\ \A j \in p + n + 1 .. l : Before(quads[k], f[j])
    BY <2>1, <2>4, <2>5
  <2> HIDE DEF quads, f, p
  <2>7. InOrder(Replaced(f, p, n, quads))
    BY <1>2, <1>3, <2>1, <2>2, <2>6, ReplacedInOrder DEF l, f
  <2>8. QED
    BY <2>7 DEF quads
<1> HIDE DEF f, p, l, A, P, Z
<1>12. \A h \in Merged(s) : h \notin P
  BY <1>1, <1>9, <1>10, MergedIsNew
<1>13. /\ \A h \in Merged(s) : h \in ToSet(f) => h \in ToSet(forest'[s])
       /\ g \in ToSet(forest'[s])
       /\ \A x \in P : x # <<>> /\ father(x) = g
  BY <1>5, <1>8, <1>9, <1>12, FatherOfChild
<1>14. Refined(s)' = Refined(s) /\ Merged(s)' = Merged(s)
  BY <1>6 DEF Refined, Expanded, Merged, Asked, OldLeaves
<1>15. ToSet(forest'[s]) \subseteq Refined(s) \cup Merged(s)
  BY <1>8, <1>10 DEF Merging, f
<1>16. ASSUME NEW x \in Refined(s)
       PROVE  \/ x \in ToSet(forest'[s])
              \/ x # <<>> /\ father(x) \in Merged(s) \cap ToSet(forest'[s])
  <2>1. CASE x \in ToSet(f)
    BY <1>8, <1>10, <1>13, <2>1
  <2>2. CASE x # <<>> /\ father(x) \in Merged(s) \cap ToSet(f)
    BY <1>13, <2>2
  <2>3. QED
    BY <2>1, <2>2 DEF Merging, f
<1>17. ASSUME NEW h \in Merged(s)
       PROVE  h \in ToSet(forest'[s]) \/ ToSet(all_children(h)) \subseteq ToCome(s)'
  <2>1. CASE h \in ToSet(f)
    BY <1>13, <2>1
  <2>2. CASE ToSet(all_children(h)) \subseteq ToCome(s)
    <3>1. ASSUME NEW x \in ToSet(all_children(h)), x \in P PROVE h = g
      <4>1. h \in Quads /\ level(h) < LevelMax
        BY <1>1, MergedIs
      <4>2. father(x) = h
        BY <4>1, FatherOfChild
      <4>3. QED
        BY <1>13, <3>1, <4>2
    <3>2. QED
      BY <1>8, <1>13, <2>2, <3>1
  <2>3. QED
    BY <2>1, <2>2 DEF Merging, f
<1>18. num_replaced'[s] # 0
  BY <1>6
<1>19. Merging(s)'
  BY <1>14, <1>15, <1>16, <1>17, <1>18 DEF Merging
<1>20. QED
  BY <1>8, <1>11, <1>19 DEF InOrder, f

(* The coarsening is over: every family that was to be merged has been.      *)
LEMMA MergingOver ==
  ASSUME TypeOK, NEW r \in Ranks, Kept(r), InOrder(forest[r]), Merging(r), PassOver(r)
  PROVE  ToSet(forest[r]) = Adapted(r)
<1> DEFINE F == ToSet(forest[r])
           M == Merged(r)
           old == ToSet(OldLeaves(r))
           asked == Asked(r, DO_REFINE)
<1>1. forest[r] \in Seq(Quads) /\ pos[r] = Len(forest[r])
  BY DEF TypeOK, PassOver
<1>2. F \subseteq Refined(r) \cup M
  BY DEF Merging
<1>3. \A x \in Refined(r) : x \in F \/ (x # <<>> /\ father(x) \in M \cap F)
  BY DEF Merging
<1>4. ASSUME NEW f \in M PROVE f \in F
  <2>1. ToCome(r) = {}
    <3>1. pos[r] + 1 .. Len(forest[r]) = {}
      BY <1>1
    <3>2. QED
      BY <3>1 DEF ToCome
  <2>2. f \in F \/ ToSet(all_children(f)) \subseteq ToCome(r)
    BY DEF Merging
  <2>3. Append(f, 0) \in ToSet(all_children(f))
    <3>1. 0 \in ChildIds
      BY ChildrenCount DEF ChildIds
    <3>2. QED
      BY <3>1, ChildSet
  <2>4. QED
    BY <2>1, <2>2, <2>3
<1>5. Leafy(F)
  BY <1>1, InOrderLeafy
<1>6. \A x : x \in Refined(r) <=> (\E q \in asked : x \in ToSet(all_children(q))) \/ x \in old \ asked
  BY RefinedIs
<1>7. asked \subseteq old /\ old \subseteq Quads
  BY OldIs DEF Kept
<1>8. \A f \in M : f \in Quads /\ f \notin old
  BY MergedIs, MergedIsNew
<1>9. Adapted(r) = (UNION {ToSet(all_children(q)) : q \in asked}) \cup M
                   \cup {q \in old \ asked : q = <<>> \/ father(q) \notin M}
  BY DEF Adapted
<1>10. ASSUME NEW q \in asked, NEW x \in ToSet(all_children(q)) PROVE father(x) = q
  <2>1. q \in Quads /\ level(q) < LevelMax
    BY <1>7 DEF Kept
  <2>2. QED
    BY <2>1, FatherOfChild
<1> HIDE DEF F, M, old, asked
<1>11. ASSUME NEW x \in F PROVE x \in Adapted(r)
  <2>1. CASE x \in M
    BY <1>9, <2>1
  <2>2. ASSUME NEW q \in asked, x \in ToSet(all_children(q)) PROVE x \in Adapted(r)
    BY <1>9, <2>2
  <2>3. CASE x \in old \ asked
    <3>1. ASSUME x # <<>>, father(x) \in M PROVE FALSE
      <4>1. x \in Quads /\ level(x) > 0
        <5>1. x \in Quads /\ x \in Seq(ChildIds) /\ level(x) = Len(x) /\ Len(x) \in Nat
          BY <1>7, <2>3, PathOf
        <5>2. QED
          BY <3>1, <5>1
      <4>2. IsPrefix(father(x), x) /\ Len(father(x)) = Len(x) - 1
        BY <4>1, FatherIs
      <4>3. father(x) = x
        BY <1>4, <1>5, <3>1, <4>2 DEF Leafy, Overlap
      <4>4. Len(x) = Len(x) - 1 /\ Len(x) \in Nat
        BY <4>1, <4>2, <4>3, PathOf
      <4>5. QED
        BY <4>4
    <3>2. QED
      BY <1>9, <2>3, <3>1
  <2>4. QED
    BY <1>2, <1>6, <2>1, <2>2, <2>3
<1>12. ASSUME NEW x \in Adapted(r) PROVE x \in F
  <2>1. CASE x \in M
    BY <1>4, <2>1
  <2>2. ASSUME NEW q \in asked, x \in ToSet(all_children(q)) PROVE x \in F
    <3>1. x \in Refined(r)
      BY <1>6, <2>2
    <3>2. father(x) = q /\ q \in old
      BY <1>7, <1>10, <2>2
    <3>3. QED
      BY <1>3, <1>8, <3>1, <3>2
  <2>3. CASE x \in old \ asked /\ (x = <<>> \/ father(x) \notin M)
    BY <1>3, <1>6, <2>3
  <2>4. QED
    BY <1>9, <2>1, <2>2, <2>3
<1>13. QED
  BY <1>11, <1>12 DEF F

----------------------------------------------------------------------------
(* The count of the quadrants                                               *)

(* More leaves on some rank and no fewer on the others are more in all.      *)
LEMMA CountGrows ==
  ASSUME NEW f \in [Ranks -> Seq(Quads)], NEW g \in [Ranks -> Seq(Quads)],
         \A r \in Ranks : Len(f[r]) <= Len(g[r])
  PROVE  /\ NumQuadrants(f) <= NumQuadrants(g)
         /\ NumQuadrants(f) = NumQuadrants(g) => \A r \in Ranks : Len(f[r]) = Len(g[r])
<1>1. PICK c : Counts(f, c) /\ NumQuadrants(f) = c[Ranks]
  BY CountIs
<1>2. PICK d : Counts(g, d) /\ NumQuadrants(g) = d[Ranks]
  BY CountIs
<1>3. IsFiniteSet(Ranks)
  BY AdaptAssumption, FS_Interval DEF Ranks
<1>4. \A r \in Ranks : Len(f[r]) \in Nat /\ Len(g[r]) \in Nat
  OBVIOUS
<1>5. \A T \in SUBSET Ranks : c[T] \in Nat /\ d[T] \in Nat
  BY <1>1, <1>2 DEF Counts
<1> DEFINE P == {T \in SUBSET Ranks : /\ c[T] <= d[T]
                                      /\ c[T] = d[T] => \A r \in T : Len(f[r]) = Len(g[r])}
<1>6. {} \in P
  BY <1>1, <1>2 DEF Counts
<1>7. ASSUME NEW T \in SUBSET Ranks, T # {}, \A x \in T : T \ {x} \in P PROVE T \in P
  <2>1. PICK s \in T : s = CHOOSE x \in T : TRUE
    BY <1>7
  <2>2. c[T] = Len(f[s]) + c[T \ {s}] /\ d[T] = Len(g[s]) + d[T \ {s}]
    BY <1>1, <1>2, <1>7, <2>1 DEF Counts
  <2> DEFINE U == T \ {s}
  <2>3. U \in P /\ U \in SUBSET Ranks
    BY <1>7
  <2>4. /\ c[U] <= d[U] /\ c[U] \in Nat /\ d[U] \in Nat
        /\ c[U] = d[U] => \A r \in U : Len(f[r]) = Len(g[r])
    BY <1>5, <2>3
  <2>5. Len(f[s]) \in Nat /\ Len(g[s]) \in Nat /\ Len(f[s]) <= Len(g[s])
    BY <1>4
  <2>6. c[T] = Len(f[s]) + c[U] /\ d[T] = Len(g[s]) + d[U]
    BY <2>2
  <2>7. c[T] <= d[T] /\ (c[T] = d[T] => c[U] = d[U] /\ Len(f[s]) = Len(g[s]))
    <3> DEFINE a == Len(f[s])
               b == Len(g[s])
    <3>1. a \in Nat /\ b \in Nat /\ a <= b /\ c[T] = a + c[U] /\ d[T] = b + d[U]
      BY <2>5, <2>6
    <3> HIDE DEF a, b, U
    <3>2. c[T] <= d[T] /\ (c[T] = d[T] => c[U] = d[U] /\ a = b)
      BY <2>4, <3>1
    <3>3. QED
      BY <3>2 DEF a, b
  <2>8. \A r \in T : r = s \/ r \in U
    OBVIOUS
  <2> HIDE DEF U
  <2>9. c[T] = d[T] => \A r \in T : Len(f[r]) = Len(g[r])
    BY <2>4, <2>7, <2>8
  <2>10. QED
    BY <2>7, <2>9
<1> HIDE DEF P
<1>8. \A T \in SUBSET Ranks : T \in P
  BY <1>3, <1>6, <1>7, EverySubset
<1>9. Ranks \in P
  BY <1>8
<1>10. QED
  BY <1>1, <1>2, <1>9 DEF P

(* The count depends on the lengths only.                                   *)
LEMMA SameCount ==
  ASSUME NEW f \in [Ranks -> Seq(Quads)], NEW g \in [Ranks -> Seq(Quads)],
         \A r \in Ranks : Len(f[r]) = Len(g[r])
  PROVE  NumQuadrants(f) = NumQuadrants(g)
<1>1. \A r \in Ranks : Len(f[r]) \in Nat /\ Len(g[r]) \in Nat
  OBVIOUS
<1>2. \A r \in Ranks : Len(f[r]) <= Len(g[r]) /\ Len(g[r]) <= Len(f[r])
  BY <1>1
<1>3. NumQuadrants(f) <= NumQuadrants(g) /\ NumQuadrants(g) <= NumQuadrants(f)
  BY <1>2, CountGrows
<1>4. NumQuadrants(f) \in Nat /\ NumQuadrants(g) \in Nat
  BY CountType
<1>5. QED
  BY <1>3, <1>4

----------------------------------------------------------------------------
(* What the cycle begins with                                               *)

(* The ghosts of a rank are leaves of other ranks.                          *)
LEMMA GhostsApart ==
  ASSUME NEW f \in [Ranks -> Seq(Quads)],
         \A r, s \in Ranks : r # s => Apart(ToSet(f[r]), ToSet(f[s])), NEW r \in Ranks
  PROVE  Apart(ToSet(GhostLeaves(f, r)), ToSet(f[r]))
<1>1. GhostLeaves(f, r) \in Seq(Leaves(f) \ ToSet(f[r]))
  BY GhostsOf
<1>2. ToSet(GhostLeaves(f, r)) \subseteq Leaves(f) \ ToSet(f[r])
  <2> DEFINE g == GhostLeaves(f, r)
             X == Leaves(f) \ ToSet(f[r])
  <2>1. g \in Seq(X)
    BY <1>1
  <2> HIDE DEF g, X
  <2>2. ToSet(g) \subseteq X
    BY <2>1 DEF ToSet
  <2>3. QED
    BY <2>2 DEF g, X
<1>3. ASSUME NEW q \in Leaves(f) \ ToSet(f[r]), NEW x \in ToSet(f[r]) PROVE ~ Overlap(q, x)
  <2>1. PICK s \in Ranks : q \in ToSet(f[s])
    BY DEF Leaves
  <2>2. s # r
    BY <2>1
  <2>3. QED
    BY <2>1, <2>2 DEF Apart
<1>4. QED
  BY <1>2, <1>3 DEF Apart

(* The clone of the keys has the leaves first, then the ghosts, which are    *)
(* none of them.                                                            *)
LEMMA CycleStarts ==
  ASSUME PassInv, NEW s \in Ranks, ComputeFlags(s), InOrder(forest[s]),
         Apart(ToSet(ghost[s]), ToSet(forest[s]))
  PROVE  /\ Kept(s)' /\ OldLeaves(s)' = forest[s]
         /\ (Behind(s) = Expanded(s, inside_counter[s]))'
<1> DEFINE f == forest[s]
           g == ghost[s]
           k == f \o g
           n == Len(f)
<1>1. TypeOK /\ f \in Seq(Quads) /\ g \in Seq(Quads)
  BY DEF PassInv, TypeOK
<1>2. PICK flags \in [DOMAIN f -> UNION {FlagsAllowed(q) : q \in ToSet(f)}] :
          /\ \A i \in DOMAIN flags : flags[i] \in FlagsAllowed(f[i])
          /\ amrflags_d' = [amrflags_d EXCEPT ![s] = flags]
  BY DEF ComputeFlags
<1>3. /\ forest' = forest /\ pos'[s] = 0 /\ inside_counter'[s] = 0
      /\ amrflags_d'[s] = flags /\ old_keys'[s] = k
      /\ data'[s] = [i \in DOMAIN f |-> {f[i]}]
  BY <1>1, <1>2 DEF ComputeFlags, TypeOK, CloneKeys
<1>4. n \in Nat /\ DOMAIN f = 1 .. n /\ DOMAIN flags = 1 .. n /\ Len(flags) = n
  BY <1>1
<1>5. /\ k \in Seq(Quads) /\ Len(k) = n + Len(g) /\ Len(g) \in Nat /\ DOMAIN g = 1 .. Len(g)
      /\ \A j \in 1 .. n : k[j] = f[j]
      /\ \A j \in 1 .. Len(g) : k[n + j] = g[j]
  <2>1. k \in Seq(Quads) /\ Len(k) = n + Len(g) /\ \A j \in 1 .. Len(g) : k[n + j] = g[j]
    BY <1>1, Joined
  <2>2. \A j \in 1 .. n : k[j] = f[j]
    BY <1>1, JoinedFirst
  <2>3. Len(g) \in Nat /\ DOMAIN g = 1 .. Len(g)
    BY <1>1
  <2>4. QED
    BY <2>1, <2>2, <2>3
<1> DEFINE o == SubSeq(k, 1, n)
<1> HIDE DEF k
<1>6. o = f
  <2> HIDE DEF f, n
  <2>1. n \in 0 .. Len(k)
    BY <1>4, <1>5
  <2>2. o \in Seq(Quads) /\ Len(o) = n /\ \A j \in 1 .. n : o[j] = k[j]
    BY <1>5, <2>1, FirstPart
  <2>3. Len(f) = n /\ \A j \in 1 .. n : o[j] = f[j]
    BY <1>5, <2>2 DEF n
  <2> HIDE DEF o
  <2>4. QED
    BY <1>1, <2>2, <2>3
<1>7. OldLeaves(s)' = f
  BY <1>3, <1>4, <1>6 DEF OldLeaves
<1>8. Len(amrflags_d'[s]) <= Len(old_keys'[s])
  <2> HIDE DEF f, g, n
  <2>1. n <= Len(k)
    BY <1>4, <1>5
  <2>2. QED
    BY <1>3, <1>4, <2>1
<1>9. Apart({old_keys'[s][i] : i \in Len(amrflags_d'[s]) + 1 .. Len(old_keys'[s])}, ToSet(f))
  <2>1. ASSUME NEW i \in n + 1 .. Len(k) PROVE k[i] \in ToSet(g)
    <3> HIDE DEF f, g, n
    <3> DEFINE j == i - n
    <3>1. j \in 1 .. Len(g) /\ n + j = i
      BY <1>4, <1>5
    <3> HIDE DEF j
    <3>2. k[n + j] = g[j]
      BY <1>5, <3>1
    <3>3. QED
      BY <1>5, <3>1, <3>2 DEF ToSet
  <2>2. \A x \in {k[i] : i \in n + 1 .. Len(k)} : x \in ToSet(g)
    BY <2>1
  <2>3. QED
    BY <1>3, <1>4, <2>2 DEF Apart
<1>10. data'[s] = [i \in DOMAIN amrflags_d'[s] |-> {OldLeaves(s)'[i]}]
  BY <1>3, <1>4, <1>7
<1>11. ASSUME NEW q \in Asked(s, DO_REFINE)' PROVE level(q) < LevelMax
  <2>1. PICK i \in DOMAIN flags : flags[i] = DO_REFINE /\ q = f[i]
    BY <1>3, <1>7 DEF Asked
  <2>2. DO_REFINE \in FlagsAllowed(q)
    BY <1>2, <2>1
  <2>3. QED
    BY <2>2 DEF FlagsAllowed, DO_REFINE, DO_NOTHING, DO_COARSEN
<1>12. InOrder(OldLeaves(s))'
  BY <1>7 DEF InOrder
<1>13. Kept(s)'
  BY <1>7, <1>8, <1>9, <1>10, <1>11, <1>12 DEF Kept, Apart, Overlap
<1>14. (Behind(s) = Expanded(s, inside_counter[s]))'
  <2>1. 1 .. 0 = {}
    OBVIOUS
  <2>2. Behind(s)' = {} /\ Expanded(s, inside_counter[s])' = {}
    BY <1>3, <2>1 DEF Behind, Expanded
  <2>3. QED
    BY <2>2
<1>15. QED
  BY <1>7, <1>13, <1>14

----------------------------------------------------------------------------
(* The remap                                                                *)

(* The volume of quadrants that have the same one.                          *)
LEMMA VolumeOfSet ==
  ASSUME NEW S, IsFiniteSet(S), NEW v \in Nat, \A p \in S : Volume(p) = v
  PROVE  FoldSet(LAMBDA p, w : w + Volume(p), 0, S) = Cardinality(S) * v
<1> DEFINE choose  == [T \in SUBSET S |-> CHOOSE x \in T : TRUE]
           step    == [p \in S |-> [w \in Nat |-> w + Volume(p)]]
           rule(g) == [T \in SUBSET S |->
                          IF T = {} THEN 0
                          ELSE g[T \ {CHOOSE x \in T : TRUE}] + Volume(CHOOSE x \in T : TRUE)]
<1>1. \A T \in SUBSET S : T # {} => (CHOOSE x \in T : TRUE) \in T
  OBVIOUS
<1>2. \E g : g = rule(g)
  <2>1. HasFold(S, Nat, 0, choose, step)
    <3>1. \A T \in SUBSET S : T # {} => choose[T] \in T
      BY <1>1
    <3> DEFINE X == Nat
    <3>2. 0 \in X /\ \A p \in S, w \in X : step[p][w] \in X
      OBVIOUS
    <3> HIDE DEF choose, step, X
    <3>3. HasFold(S, X, 0, choose, step)
      BY <3>1, <3>2, FoldExists
    <3>4. QED
      BY <3>3 DEF X
  <2>2. PICK g \in [SUBSET S -> Nat] :
            \A T \in SUBSET S :
               g[T] = IF T = {} THEN 0 ELSE step[choose[T]][g[T \ {choose[T]}]]
    BY <2>1 DEF HasFold
  <2>3. ASSUME NEW T \in SUBSET S, T # {}
        PROVE  g[T] = g[T \ {CHOOSE x \in T : TRUE}] + Volume(CHOOSE x \in T : TRUE)
    <3>1. choose[T] \in S /\ T \ {choose[T]} \in SUBSET S /\ choose[T] = CHOOSE x \in T : TRUE
      BY <1>1, <2>3
    <3>2. g[T \ {choose[T]}] \in Nat
      BY <2>2, <3>1
    <3>3. g[T] = g[T \ {choose[T]}] + Volume(choose[T])
      BY <2>2, <2>3, <3>1, <3>2
    <3>4. QED
      BY <3>1, <3>3
  <2>4. g = rule(g)
    BY <2>2, <2>3
  <2>5. QED
    BY <2>4
<1>3. ASSUME NEW g, g = rule(g) PROVE g[S] = Cardinality(S) * v
  <2> DEFINE P == {T \in SUBSET S : g[T] = Cardinality(T) * v}
  <2>1. {} \in P
    <3>1. g[{}] = 0
      BY <1>3
    <3>2. Cardinality({}) = 0
      BY FS_EmptySet
    <3>3. QED
      BY <3>1, <3>2
  <2>2. ASSUME NEW T \in SUBSET S, T # {}, \A x \in T : T \ {x} \in P PROVE T \in P
    <3>1. PICK s \in T : s = CHOOSE x \in T : TRUE
      BY <2>2
    <3>2. g[T] = g[T \ {s}] + v
      BY <1>3, <2>2, <3>1
    <3>3. g[T \ {s}] = Cardinality(T \ {s}) * v
      BY <2>2
    <3>4. IsFiniteSet(T) /\ Cardinality(T) \in Nat
      BY FS_Subset, FS_CardinalityType
    <3>5. Cardinality(T \ {s}) = Cardinality(T) - 1
      BY <3>4, FS_RemoveElement
    <3> DEFINE c == Cardinality(T)
    <3>6. c \in Nat /\ g[T] = (c - 1) * v + v
      BY <3>2, <3>3, <3>4, <3>5
    <3> HIDE DEF c
    <3>7. (c - 1) * v + v = c * v
      BY <3>6
    <3>8. QED
      BY <3>6, <3>7 DEF c
  <2>3. \A T \in SUBSET S : T \in P
    <3> HIDE DEF P
    <3>1. QED
      BY <2>1, <2>2, EverySubset
  <2>4. QED
    BY <2>3
<1>4. FoldSet(LAMBDA p, w : w + Volume(p), 0, S) = (CHOOSE g : g = rule(g))[S]
  BY DEF FoldSet, MapThenFoldSet
<1> HIDE DEF rule
<1>5. QED
  BY <1>2, <1>3, <1>4

(* The children of a quadrant make it up.                                   *)
LEMMA ChildrenCover ==
  ASSUME NEW q \in Quads, level(q) < LevelMax
  PROVE  Covers(ToSet(all_children(q)), q)
<1> DEFINE S == ToSet(all_children(q))
           f == [k \in ChildIds |-> Append(q, k)]
           v == Volumes[LevelMax - level(q) - 1]
           l == Len(q)
<1>1. l \in Nat /\ LevelMax \in Nat /\ level(q) = l /\ l < LevelMax
  BY PathOf
<1>2. S = {Append(q, k) : k \in ChildIds}
  BY ChildSet
<1>3. \A k \in ChildIds : Append(q, k)[l + 1] = k
  BY ChildIs
<1>4. \A j, k \in ChildIds : Append(q, j) = Append(q, k) => j = k
  BY <1>3
<1>5. IsFiniteSet(ChildIds) /\ Cardinality(ChildIds) = NB_CHILDREN
  <2>1. NB_CHILDREN - 1 \in Int /\ NB_CHILDREN \in Nat /\ NB_CHILDREN >= 4
    BY ChildrenCount
  <2>2. ~ (0 > NB_CHILDREN - 1) /\ NB_CHILDREN - 1 - 0 + 1 = NB_CHILDREN
    BY <2>1
  <2>3. QED
    BY <2>1, <2>2, FS_Interval DEF ChildIds
<1>6. IsFiniteSet(S) /\ Cardinality(S) = NB_CHILDREN
  <2> HIDE DEF S
  <2>1. f \in [ChildIds -> S] /\ \A t \in S : \E k \in ChildIds : f[k] = t
    BY <1>2
  <2>2. \A j, k \in ChildIds : f[j] = f[k] => j = k
    BY <1>4
  <2>3. DOMAIN f = ChildIds
    OBVIOUS
  <2> HIDE DEF f
  <2>4. f \in Injection(ChildIds, S)
    BY <2>1, <2>2, <2>3 DEF Injection, IsInjective
  <2>5. f \in Surjection(ChildIds, S)
    BY <2>1 DEF Surjection
  <2>6. ExistsBijection(ChildIds, S)
    BY <2>4, <2>5 DEF ExistsBijection, Bijection
  <2>7. QED
    BY <1>5, <2>6, FS_Bijection
<1>7. \A p \in S : Volume(p) = v
  <2>1. ASSUME NEW p \in S PROVE LevelMax - level(p) = LevelMax - level(q) - 1
    <3>1. p \in Quads /\ Len(p) = l + 1 /\ level(p) = Len(p)
      BY FatherOfChild, PathOf
    <3>2. QED
      BY <1>1, <3>1
  <2>2. QED
    BY <2>1 DEF Volume
<1>8. v \in Nat /\ Volume(q) = NB_CHILDREN * v
  <2> DEFINE n == LevelMax - level(q)
  <2>1. n \in 1 .. LevelMax /\ n - 1 \in 0 .. LevelMax
    BY <1>1
  <2> HIDE DEF n
  <2>2. Volumes[n] = NB_CHILDREN * Volumes[n - 1] /\ Volumes[n - 1] \in Nat
    BY <2>1, VolumesAre
  <2>3. QED
    BY <2>2 DEF n, Volume
<1> HIDE DEF v
<1>9. FoldSet(LAMBDA p, w : w + Volume(p), 0, S) = Cardinality(S) * v
  <2> HIDE DEF S
  <2>1. QED
    BY <1>6, <1>7, <1>8, VolumeOfSet
<1>10. \A p \in S : IsPrefix(q, p)
  BY FatherOfChild
<1>11. QED
  BY <1>6, <1>8, <1>9, <1>10 DEF Covers

(* The search finds a key if it is there.                                   *)
LEMMA FindIs ==
  ASSUME NEW r, old_keys[r] \in Seq(Quads), NEW key
  PROVE  /\ Find(r, key) # 0 => /\ Find(r, key) \in 1 .. Len(old_keys[r])
                                /\ old_keys[r][Find(r, key)] = key
         /\ (\E i \in 1 .. Len(old_keys[r]) : old_keys[r][i] = key) => Find(r, key) # 0
<1> DEFINE K == old_keys[r]
           I == {i \in 1 .. Len(K) : K[i] = key}
<1>1. Find(r, key) = IF I # {} THEN Min(I) ELSE 0
  BY DEF Find, SelectInSeq
<1>2. ASSUME I # {} PROVE Min(I) \in I
  <2>1. I \subseteq Nat
    OBVIOUS
  <2> HIDE DEF I
  <2>2. \E m \in I : \A n \in I : m <= n
    BY <1>2, <2>1, LeastNat
  <2>3. QED
    BY <2>2 DEF Min
<1>3. \A i \in I : i # 0
  OBVIOUS
<1>4. QED
  BY <1>1, <1>2, <1>3

(* The value of an old leaf.                                                *)
LEMMA FindOld ==
  ASSUME TypeOK, NEW r \in Ranks, Kept(r), NEW q \in Quads
  PROVE  /\ q \in ToSet(OldLeaves(r)) =>
               /\ Find(r, q) \in 1 .. Len(amrflags_d[r]) /\ OldLeaves(r)[Find(r, q)] = q
               /\ OldValue(r, Find(r, q)) = {q}
         /\ (\E x \in ToSet(OldLeaves(r)) : Overlap(q, x) /\ q # x) => Find(r, q) = 0
<1> DEFINE K == old_keys[r]
           n == Len(amrflags_d[r])
           old == OldLeaves(r)
           i == Find(r, q)
<1>1. /\ old \in Seq(Quads) /\ Len(old) = n /\ n \in Nat /\ DOMAIN amrflags_d[r] = 1 .. n
      /\ \A j \in 1 .. n : old[j] = K[j]
      /\ ToSet(old) = {old[j] : j \in 1 .. n} /\ ToSet(old) \subseteq Quads
  BY OldIs DEF Kept
<1>2. K \in Seq(Quads) /\ n <= Len(K) /\ Len(K) \in Nat
  BY DEF TypeOK, Kept
<1>3. Apart({K[j] : j \in n + 1 .. Len(K)}, ToSet(old)) /\ Leafy(ToSet(old))
  BY RefinedIs DEF Kept
<1>4. data[r] = [j \in 1 .. n |-> {old[j]}]
  BY <1>1 DEF Kept
<1> HIDE DEF old, n
<1>5. /\ i # 0 => i \in 1 .. Len(K) /\ K[i] = q
      /\ (\E j \in 1 .. Len(K) : K[j] = q) => i # 0
  BY <1>2, FindIs
<1> HIDE DEF K, i
<1>6. i # 0 => i \in 1 .. n \/ i \in n + 1 .. Len(K)
  BY <1>1, <1>2, <1>5
<1>7. ASSUME i \in n + 1 .. Len(K), NEW x \in ToSet(old), Overlap(q, x) PROVE FALSE
  <2>1. i # 0 /\ K[i] = q
    BY <1>1, <1>2, <1>5, <1>7
  <2>2. q \in {K[j] : j \in n + 1 .. Len(K)}
    BY <1>7, <2>1
  <2>3. QED
    BY <1>3, <1>7, <2>2 DEF Apart
<1>8. ASSUME q \in ToSet(old) PROVE i \in 1 .. n /\ old[i] = q /\ OldValue(r, i) = {q}
  <2>1. PICK j \in 1 .. n : old[j] = q
    BY <1>1, <1>8
  <2>2. j \in 1 .. Len(K) /\ K[j] = q
    BY <1>1, <1>2, <2>1
  <2>3. i # 0
    BY <1>5, <2>2
  <2>4. Overlap(q, q)
    BY Containment DEF Overlap
  <2>5. i \in 1 .. n
    BY <1>6, <1>7, <1>8, <2>3, <2>4
  <2>6. old[i] = q
    BY <1>1, <1>5, <2>3, <2>5
  <2>7. QED
    BY <1>4, <2>5, <2>6 DEF OldValue
<1>9. ASSUME NEW x \in ToSet(old), Overlap(q, x), q # x PROVE i = 0
  <2> SUFFICES ASSUME i # 0 PROVE FALSE
    OBVIOUS
  <2>1. CASE i \in 1 .. n
    <3>1. q \in ToSet(old)
      BY <1>1, <1>5, <2>1
    <3>2. QED
      BY <1>3, <1>9, <3>1 DEF Leafy
  <2>2. CASE i \in n + 1 .. Len(K)
    BY <1>7, <1>9, <2>2
  <2>3. QED
    BY <1>6, <2>1, <2>2
<1>10. QED
  BY <1>8, <1>9 DEF old, n, i

(* A leaf that stems from the old ones receives the values of those it      *)
(* covers, or of the one that covered it.                                   *)
LEMMA NewValueCovers ==
  ASSUME TypeOK, NEW r \in Ranks, Kept(r), NEW x \in Quads, Stems(ToSet(OldLeaves(r)), x)
  PROVE  Covers(NewValue(r, x), x)
<1> DEFINE old == OldLeaves(r)
           O == ToSet(old)
<1>1. old \in Seq(Quads) /\ O \subseteq Quads /\ InOrder(old) /\ DOMAIN old = 1 .. Len(amrflags_d[r])
  <2>1. /\ old \in Seq(Quads) /\ O \subseteq Quads /\ Len(old) = Len(amrflags_d[r])
    BY OldIs DEF Kept
  <2>2. QED
    BY <2>1 DEF Kept
<1>2. LevelMax \in Nat /\ Len(x) \in Nat /\ level(x) = Len(x)
  BY PathOf
<1>3. ASSUME NEW S, NEW p \in Quads, S = {p}, IsPrefix(p, x) PROVE Covers(S, x)
  BY <1>3 DEF Covers
<1> HIDE DEF old, O
<1>4. CASE x \in O
  <2>1. Find(r, x) \in 1 .. Len(amrflags_d[r]) /\ OldValue(r, Find(r, x)) = {x}
    BY <1>4, FindOld DEF O, old
  <2>2. Find(r, x) # 0
    BY <2>1
  <2>3. NewValue(r, x) = {x}
    BY <2>1, <2>2 DEF NewValue
  <2>4. QED
    BY <1>3, <2>3, Containment
<1>5. CASE level(x) > 0 /\ father(x) \in O
  <2> DEFINE f == father(x)
  <2>1. f \in Quads /\ IsPrefix(f, x) /\ Len(f) = Len(x) - 1
    BY <1>5, FatherIs
  <2>2. Overlap(x, f) /\ x # f
    BY <1>2, <2>1 DEF Overlap
  <2>3. Find(r, x) = 0
    BY <1>5, <2>2, FindOld DEF O, old
  <2>4. Find(r, f) \in 1 .. Len(amrflags_d[r]) /\ OldValue(r, Find(r, f)) = {f}
    BY <1>5, <2>1, FindOld DEF O, old
  <2>5. Find(r, f) # 0
    BY <2>4
  <2>6. NewValue(r, x) = {f}
    BY <2>3, <2>4, <2>5 DEF NewValue
  <2>7. QED
    BY <1>3, <2>1, <2>6
<1>6. CASE level(x) < LevelMax /\ ToSet(all_children(x)) \subseteq O
  <2> DEFINE e == eldest_child(x)
             f == father(x)
  <2>1. 0 \in ChildIds
    BY ChildrenCount DEF ChildIds
  <2>2. e = Append(x, 0) /\ e \in O /\ e \in Quads /\ IsPrefix(x, e) /\ Len(e) = Len(x) + 1
    BY <1>6, <2>1, ChildSet, ChildIs DEF eldest_child
  <2>3. Overlap(x, e) /\ x # e
    BY <1>2, <2>2 DEF Overlap
  <2>4. Find(r, x) = 0
    BY <2>2, <2>3, FindOld DEF O, old
  <2>5. Find(r, f) = 0
    <3>1. CASE level(x) > 0
      <4>1. f \in Quads /\ IsPrefix(f, x) /\ Len(f) = Len(x) - 1
        BY <3>1, FatherIs
      <4>2. IsPrefix(f, e)
        BY <2>2, <4>1, Containment
      <4>3. f # e
        <5>1. Len(f) # Len(e)
          BY <1>2, <2>2, <4>1
        <5>2. QED
          BY <5>1
      <4>4. Overlap(f, e)
        BY <4>2 DEF Overlap
      <4>5. QED
        BY <2>2, <4>1, <4>3, <4>4, FindOld DEF O, old
    <3>2. CASE ~ (level(x) > 0)
      <4>1. Len(x) = 0
        BY <1>2, <3>2
      <4>2. x \in Seq(ChildIds)
        BY PathOf
      <4>3. f = x
        <5>1. x = <<>>
          BY <4>1, <4>2
        <5>2. f = SubSeq(<<>>, 1, 0 - 1)
          BY <5>1 DEF father
        <5>3. QED
          BY <5>1, <5>2
      <4>4. QED
        BY <2>4, <4>3
    <3>3. QED
      BY <3>1, <3>2
  <2> DEFINE a == Find(r, e)
  <2>6. a \in DOMAIN old /\ old[a] = Append(x, 0) /\ a # 0 /\ a \in Nat
    <3>1. a \in 1 .. Len(amrflags_d[r]) /\ old[a] = e
      BY <2>2, FindOld DEF O, old
    <3> HIDE DEF a, e, old
    <3>2. a \in Nat /\ a # 0
      BY <3>1
    <3>3. QED
      BY <1>1, <2>2, <3>1, <3>2
  <2> HIDE DEF a
  <2>7. \A k \in ChildIds : a + k \in DOMAIN old /\ old[a + k] = Append(x, k)
    BY <1>1, <1>6, <2>6, SiblingsFollow DEF O
  <2>8. ASSUME NEW k \in ChildIds PROVE OldValue(r, a + k) = {Append(x, k)}
    <3> DEFINE i == a + k
    <3>1. i \in 1 .. Len(amrflags_d[r]) /\ old[i] = Append(x, k)
      BY <1>1, <2>7
    <3> HIDE DEF i
    <3>2. data[r] = [j \in 1 .. Len(amrflags_d[r]) |-> {old[j]}]
      BY OldIs DEF Kept, old
    <3>3. OldValue(r, i) = {old[i]}
      BY <3>1, <3>2 DEF OldValue
    <3>4. QED
      BY <3>1, <3>3 DEF i
  <2>9. ChildrenValues(r, x) = {Append(x, k) : k \in ChildIds}
    <3>1. ChildrenValues(r, x) = UNION {OldValue(r, a + k) : k \in ChildIds}
      BY DEF ChildrenValues, a
    <3>2. QED
      BY <2>8, <3>1
  <2>10. NewValue(r, x) = ChildrenValues(r, x)
    BY <2>4, <2>5, <2>6 DEF NewValue, a
  <2>11. NewValue(r, x) = ToSet(all_children(x))
    BY <2>9, <2>10, ChildSet
  <2>12. QED
    BY <1>6, <2>11, ChildrenCover
<1>7. QED
  BY <1>4, <1>5, <1>6 DEF Stems, O, old

----------------------------------------------------------------------------
(* The steps of one rank                                                    *)

(* What a rank does not have in Mine.                                       *)
LEMMA OthersKeep ==
  ASSUME TypeOK, NEW s \in Ranks, Step(s), NEW r \in Ranks, r # s
  PROVE  ghost'[r] = ghost[r] /\ data'[r] = data[r] /\ mesh_changed'[r] = mesh_changed[r]
<1>1. ghost' = ghost /\ mesh_changed' = mesh_changed
  BY DEF Step, ComputeFlags, KeepLeaf, RefineLeaf, SkipLeaf, CoarsenFamily, Remap
<1>2. data' = data \/ \E new : data' = [data EXCEPT ![s] = new]
  BY DEF Step, ComputeFlags, KeepLeaf, RefineLeaf, SkipLeaf, CoarsenFamily, Remap
<1>3. data'[r] = data[r]
  BY <1>2 DEF TypeOK
<1>4. QED
  BY <1>1, <1>3

(* What a rank looks back at does not move unless a new cycle starts.        *)
LEMMA LookingBack ==
  ASSUME NEW r, amrflags_d'[r] = amrflags_d[r], old_keys'[r] = old_keys[r], data'[r] = data[r]
  PROVE  /\ OldLeaves(r)' = OldLeaves(r)
         /\ \A flag : Asked(r, flag)' = Asked(r, flag)
         /\ Merged(r)' = Merged(r) /\ Refined(r)' = Refined(r)
         /\ \A n : Expanded(r, n)' = Expanded(r, n)
         /\ Kept(r)' <=> Kept(r)
<1>1. OldLeaves(r)' = OldLeaves(r)
  BY DEF OldLeaves
<1>2. \A flag : Asked(r, flag)' = Asked(r, flag)
  BY <1>1 DEF Asked
<1>3. Merged(r)' = Merged(r)
  BY <1>2 DEF Merged
<1>4. \A n : Expanded(r, n)' = Expanded(r, n)
  BY <1>1 DEF Expanded
<1>5. Refined(r)' = Refined(r)
  BY <1>4 DEF Refined
<1>6. Kept(r)' <=> Kept(r)
  BY <1>1, <1>2 DEF Kept, InOrder, Apart, Overlap
<1>7. QED
  BY <1>1, <1>2, <1>3, <1>4, <1>5, <1>6

(* What is true of a rank stays so when nothing of it moves.                *)
LEMMA CourseOn ==
  ASSUME NEW r \in Ranks, Course(r), Mine(r)' = Mine(r), ghost'[r] = ghost[r], data'[r] = data[r]
  PROVE  Course(r)'
<1>1. /\ pc'[r] = pc[r] /\ forest'[r] = forest[r] /\ pos'[r] = pos[r]
      /\ amrflags_d'[r] = amrflags_d[r] /\ inside_counter'[r] = inside_counter[r]
      /\ num_replaced'[r] = num_replaced[r] /\ old_keys'[r] = old_keys[r]
  BY DEF Mine
<1>2. /\ OldLeaves(r)' = OldLeaves(r) /\ Merged(r)' = Merged(r) /\ Refined(r)' = Refined(r)
      /\ \A n : Expanded(r, n)' = Expanded(r, n)
      /\ Kept(r) => Kept(r)'
  BY <1>1, LookingBack
<1>3. StartMesh[r] = IF pc[r] \in {"flags", "remap"} THEN forest[r] ELSE OldLeaves(r)
  BY DEF StartMesh
<1>4. StartMesh'[r] = IF pc'[r] \in {"flags", "remap"} THEN forest'[r] ELSE OldLeaves(r)'
  BY DEF StartMesh
<1>5. StartMesh'[r] = StartMesh[r]
  BY <1>1, <1>2, <1>3, <1>4
<1>6. /\ InOrder(forest[r])' /\ Apart(ToSet(ghost[r]), ToSet(StartMesh[r]))'
      /\ (pc[r] # "flags" => Kept(r))'
  BY <1>1, <1>2, <1>5 DEF Course, InOrder, Apart
<1>7. (pc[r] = "refine" => Behind(r) = Expanded(r, inside_counter[r]))'
  <2>1. Behind(r)' = Behind(r)
    BY <1>1 DEF Behind
  <2>2. Expanded(r, inside_counter[r])' = Expanded(r, inside_counter[r])
    BY <1>1 DEF Expanded, OldLeaves
  <2>3. QED
    BY <1>1, <2>1, <2>2 DEF Course
<1>8. Merging(r) => Merging(r)'
  BY <1>1, <1>2 DEF Merging, ToCome
<1>9. (pc[r] \in {"coarsen", "balance"} => Merging(r))'
  BY <1>1, <1>8 DEF Course
<1>10. (pc[r] = "balance" => PassOver(r))'
  BY <1>1 DEF Course, PassOver
<1>11. (pc[r] \in {"rebuild", "remap"} =>
          \A x \in ToSet(forest[r]) : Stems(ToSet(OldLeaves(r)), x))'
  BY <1>1, <1>2 DEF Course
<1>12. (pc[r] = "flags" => /\ Len(data[r]) = Len(forest[r])
                           /\ \A i \in DOMAIN data[r] : Covers(data[r][i], forest[r][i]))'
  BY <1>1 DEF Course
<1>13. QED
  BY <1>6, <1>7, <1>9, <1>10, <1>11, <1>12 DEF Course

(* The mesh the ranks look back at is not touched by the passes.            *)
LEMMA StartStays ==
  ASSUME PassInv, \A r \in Ranks : Course(r), NEW s \in Ranks, Step(s)
  PROVE  StartMesh' = StartMesh
<1>1. TypeOK
  BY DEF PassInv
<1>2. ASSUME NEW r \in Ranks, r # s PROVE StartMesh'[r] = StartMesh[r]
  <2>1. Mine(r)' = Mine(r)
    BY <1>1, <1>2, OthersStay
  <2>2. pc'[r] = pc[r] /\ forest'[r] = forest[r] /\ OldLeaves(r)' = OldLeaves(r)
    BY <2>1 DEF Mine, OldLeaves
  <2>3. QED
    BY <2>2 DEF StartMesh
<1>3. StartMesh'[s] = StartMesh[s]
  <2>1. CASE ComputeFlags(s)
    <3>1. StartMesh[s] = forest[s] /\ pc'[s] = "refine"
      BY <1>1, <2>1 DEF ComputeFlags, StartMesh, TypeOK
    <3>2. InOrder(forest[s]) /\ Apart(ToSet(ghost[s]), ToSet(forest[s]))
      BY <3>1 DEF Course
    <3>3. OldLeaves(s)' = forest[s]
      BY <2>1, <3>2, CycleStarts
    <3>4. QED
      BY <3>1, <3>3 DEF StartMesh
  <2>2. CASE Remap(s)
    BY <1>1, <2>2 DEF Remap, StartMesh, TypeOK
  <2>3. CASE KeepLeaf(s) \/ RefineLeaf(s) \/ SkipLeaf(s) \/ CoarsenFamily(s)
    <3>1. pc' = pc /\ pc[s] \in {"refine", "coarsen"} /\ old_keys' = old_keys /\ amrflags_d' = amrflags_d
      BY <2>3 DEF KeepLeaf, RefineLeaf, SkipLeaf, CoarsenFamily
    <3>2. OldLeaves(s)' = OldLeaves(s)
      BY <3>1 DEF OldLeaves
    <3>3. QED
      BY <3>1, <3>2 DEF StartMesh
  <2>4. QED
    BY <2>1, <2>2, <2>3 DEF Step
<1>4. QED
  BY <1>2, <1>3 DEF StartMesh

(* The rank that steps goes on with its cycle, starts one or ends it.       *)
LEMMA StepCourse ==
  ASSUME FollowInv, \A r \in Ranks : Course(r), NEW s \in Ranks, Step(s)
  PROVE  Course(s)'
<1>1. PassInv /\ TypeOK /\ Follows(s) /\ Course(s)
  BY DEF FollowInv, PassInv
<1>2. StartMesh' = StartMesh /\ ghost' = ghost
  <2>1. ghost' = ghost
    BY DEF Step, ComputeFlags, KeepLeaf, RefineLeaf, SkipLeaf, CoarsenFamily, Remap
  <2>2. QED
    BY <1>1, <2>1, StartStays
<1>3. Apart(ToSet(ghost[s]), ToSet(StartMesh[s]))'
  BY <1>1, <1>2 DEF Course, Apart
<1>4. CASE ComputeFlags(s)
  <2>1. pc[s] = "flags" /\ pc'[s] = "refine" /\ forest' = forest
    BY <1>1, <1>4 DEF ComputeFlags, TypeOK
  <2>2. InOrder(forest[s]) /\ Apart(ToSet(ghost[s]), ToSet(forest[s]))
    BY <1>1, <2>1 DEF Course, StartMesh
  <2>3. Kept(s)' /\ (Behind(s) = Expanded(s, inside_counter[s]))'
    BY <1>1, <1>4, <2>2, CycleStarts
  <2>4. InOrder(forest[s])'
    BY <2>1, <2>2
  <2>5. QED
    BY <1>3, <2>1, <2>3, <2>4 DEF Course
<1>5. CASE KeepLeaf(s) \/ RefineLeaf(s)
  <2>1. /\ pc[s] = "refine" /\ pc' = pc /\ amrflags_d' = amrflags_d /\ old_keys' = old_keys
        /\ data' = data
    BY <1>5 DEF KeepLeaf, RefineLeaf
  <2>2. Kept(s) /\ InOrder(forest[s]) /\ Behind(s) = Expanded(s, inside_counter[s]) /\ Laying(s)
    BY <1>1, <2>1 DEF Course, Follows
  <2>3. Kept(s)'
    BY <2>1, <2>2, LookingBack
  <2>4. InOrder(forest[s])' /\ (Behind(s) = Expanded(s, inside_counter[s]))'
    BY <1>1, <1>5, <2>2, KeepLeafBehind, RefineLeafBehind
  <2>5. QED
    BY <1>3, <2>1, <2>3, <2>4 DEF Course
<1>6. CASE SkipLeaf(s) \/ CoarsenFamily(s)
  <2>1. /\ pc[s] = "coarsen" /\ pc' = pc /\ amrflags_d' = amrflags_d /\ old_keys' = old_keys
        /\ data' = data
    BY <1>6 DEF SkipLeaf, CoarsenFamily
  <2>2. Kept(s) /\ InOrder(forest[s]) /\ Merging(s) /\ Reading(s)
    BY <1>1, <2>1 DEF Course, Follows
  <2>3. Kept(s)'
    BY <2>1, <2>2, LookingBack
  <2>4. InOrder(forest[s])' /\ Merging(s)'
    BY <1>1, <1>6, <2>2, SkipLeafMerging, CoarsenFamilyMerging
  <2>5. QED
    BY <1>3, <2>1, <2>3, <2>4 DEF Course
<1>7. CASE Remap(s)
  <2> DEFINE f == forest[s]
             new == [i \in DOMAIN f |-> NewValue(s, f[i])]
  <2>1. pc[s] = "remap" /\ pc'[s] = "flags" /\ forest' = forest /\ data'[s] = new
    BY <1>1, <1>7 DEF Remap, TypeOK
  <2>2. Kept(s) /\ InOrder(f) /\ \A x \in ToSet(f) : Stems(ToSet(OldLeaves(s)), x)
    BY <1>1, <2>1 DEF Course
  <2>3. f \in Seq(Quads)
    BY <1>1 DEF TypeOK
  <2>4. DOMAIN f = 1 .. Len(f) /\ Len(f) \in Nat
    BY <2>3
  <2>5. DOMAIN new = DOMAIN f /\ Len(new) = Len(f)
    BY <2>4
  <2>6. ASSUME NEW i \in DOMAIN f PROVE Covers(new[i], f[i])
    <3>1. f[i] \in Quads /\ f[i] \in ToSet(f)
      BY <2>3, <2>6 DEF ToSet
    <3>2. Covers(NewValue(s, f[i]), f[i])
      BY <1>1, <2>2, <3>1, NewValueCovers
    <3>3. QED
      BY <2>6, <3>2
  <2> HIDE DEF new
  <2>7. Len(data'[s]) = Len(forest'[s]) /\ \A i \in DOMAIN data'[s] : Covers(data'[s][i], forest'[s][i])
    BY <2>1, <2>5, <2>6
  <2>8. InOrder(forest[s])'
    BY <2>1, <2>2
  <2>9. QED
    BY <1>3, <2>1, <2>7, <2>8 DEF Course
<1>8. QED
  BY <1>4, <1>5, <1>6, <1>7 DEF Step

(* The ranks stay together.                                                 *)
LEMMA StepTogether ==
  ASSUME FollowInv, \A r \in Ranks : Course(r), Together, NEW s \in Ranks, Step(s)
  PROVE  Together'
<1>1. PassInv /\ TypeOK
  BY DEF FollowInv, PassInv
<1>2. StartMesh' = StartMesh
  BY <1>1, StartStays
<1>3. global_num_quadrants' = global_num_quadrants /\ mesh_changed' = mesh_changed
  BY DEF Step, ComputeFlags, KeepLeaf, RefineLeaf, SkipLeaf, CoarsenFamily, Remap
<1>4. CASE ComputeFlags(s) \/ KeepLeaf(s) \/ RefineLeaf(s) \/ Remap(s)
  <2>1. /\ pc[s] \in {"flags", "refine", "remap"} /\ pc'[s] \in {"flags", "refine", "remap"}
        /\ \A r \in Ranks : r # s => pc'[r] = pc[r]
    BY <1>1, <1>4 DEF ComputeFlags, KeepLeaf, RefineLeaf, Remap, TypeOK
  <2>2. /\ \A r \in Ranks : pc[r] \in {"remap", "flags", "refine"}
        /\ global_num_quadrants = NumQuadrants(StartMesh)
    BY <2>1 DEF Together
  <2>3. /\ \A r \in Ranks : pc'[r] \in {"remap", "flags", "refine"}
        /\ global_num_quadrants' = NumQuadrants(StartMesh')
    BY <1>2, <1>3, <2>1, <2>2
  <2>4. QED
    BY <2>3 DEF Together
<1>5. CASE SkipLeaf(s) \/ CoarsenFamily(s)
  <2>1. pc[s] = "coarsen" /\ pc' = pc /\ amrflags_d' = amrflags_d
    BY <1>5 DEF SkipLeaf, CoarsenFamily
  <2>2. /\ \A r \in Ranks : pc[r] = "coarsen"
        /\ global_num_quadrants = RefinedCount
        /\ \A r, t \in Ranks : mesh_changed[r] = mesh_changed[t]
        /\ \A r, t \in Ranks : mesh_changed[r] \/ NumRefine(amrflags_d[t]) = 0
    BY <2>1 DEF Together
  <2>3. RefinedCount' = RefinedCount
    BY <2>1 DEF RefinedCount
  <2>4. QED
    BY <1>3, <2>1, <2>2, <2>3 DEF Together
<1>6. QED
  BY <1>4, <1>5 DEF Step

(* A step of one rank.                                                      *)
LEMMA StepCycle ==
  ASSUME CycleInv, NEW s \in Ranks, Step(s)
  PROVE  CycleInv'
<1>1. FollowInv /\ PassInv /\ TypeOK /\ \A r \in Ranks : Course(r)
  BY DEF CycleInv, FollowInv, PassInv
<1>2. Sound(StartMesh)'
  <2>1. StartMesh' = StartMesh
    BY <1>1, StartStays
  <2>2. Sound(StartMesh')
    BY <2>1 DEF CycleInv
  <2>3. QED
    BY <2>2
<1>3. ASSUME NEW r \in Ranks PROVE Course(r)'
  <2>1. CASE r = s
    BY <1>1, <2>1, StepCourse
  <2>2. CASE r # s
    <3>1. Mine(r)' = Mine(r) /\ ghost'[r] = ghost[r] /\ data'[r] = data[r]
      BY <1>1, <2>2, OthersStay, OthersKeep
    <3>2. QED
      BY <1>1, <3>1, CourseOn
  <2>3. QED
    BY <2>1, <2>2
<1>4. FollowInv'
  BY <1>1, StepFollow
<1>5. Together'
  BY <1>1, StepTogether DEF CycleInv
<1>6. QED
  BY <1>2, <1>3, <1>4, <1>5 DEF CycleInv

----------------------------------------------------------------------------
(* The collectives                                                          *)

(* The mesh the ranks look back at.                                         *)
LEMMA StartType ==
  ASSUME TypeOK, \A r \in Ranks : Course(r)
  PROVE  /\ StartMesh \in [Ranks -> Seq(Quads)]
         /\ \A r \in Ranks : pc[r] \notin {"flags", "remap"} =>
               StartMesh[r] = OldLeaves(r) /\ Len(StartMesh[r]) = Len(amrflags_d[r])
<1>1. ASSUME NEW r \in Ranks, pc[r] \in {"flags", "remap"} PROVE StartMesh[r] \in Seq(Quads)
  BY <1>1 DEF StartMesh, TypeOK
<1>2. ASSUME NEW r \in Ranks, pc[r] \notin {"flags", "remap"}
      PROVE  /\ StartMesh[r] \in Seq(Quads)
             /\ StartMesh[r] = OldLeaves(r) /\ Len(StartMesh[r]) = Len(amrflags_d[r])
  <2>1. StartMesh[r] = OldLeaves(r) /\ pc[r] # "flags"
    BY <1>2 DEF StartMesh
  <2>2. Len(amrflags_d[r]) <= Len(old_keys[r])
    BY <2>1 DEF Course, Kept
  <2>3. OldLeaves(r) \in Seq(Quads) /\ Len(OldLeaves(r)) = Len(amrflags_d[r])
    BY <2>2, OldIs
  <2>4. QED
    BY <2>1, <2>3
<1>3. StartMesh = [r \in Ranks |-> StartMesh[r]]
  BY DEF StartMesh
<1> DEFINE m == StartMesh
<1> HIDE DEF m
<1>4. \A r \in Ranks : m[r] \in Seq(Quads)
  BY <1>1, <1>2 DEF m
<1>5. m \in [Ranks -> Seq(Quads)]
  BY <1>3, <1>4 DEF m
<1>6. QED
  BY <1>2, <1>5 DEF m

(* The room a rank's refined leaves take, and when it is that of the old.    *)
LEMMA RefinedRoom ==
  ASSUME TypeOK
  PROVE  \E F \in [Ranks -> Seq(Quads)] :
            /\ RefinedCount = NumQuadrants(F)
            /\ \A r \in Ranks : /\ Len(F[r]) = TmpSize(amrflags_d[r])
                                /\ Len(amrflags_d[r]) <= Len(F[r])
                                /\ Len(F[r]) = Len(amrflags_d[r]) => NumRefine(amrflags_d[r]) = 0
<1> DEFINE F == [r \in Ranks |-> [i \in 1 .. TmpSize(amrflags_d[r]) |-> <<>>]]
<1>1. <<>> \in Quads
  <2>1. <<>> \in Seq(ChildIds) /\ Len(<<>>) = 0 /\ LevelMax \in Nat
    BY QuadAssumption
  <2>2. Len(<<>>) <= LevelMax
    BY <2>1
  <2> DEFINE root == <<>>
  <2> HIDE DEF root
  <2>3. root \in Seq(ChildIds) /\ Len(root) <= LevelMax
    BY <2>1, <2>2 DEF root
  <2>4. root \in Quads
    BY <2>3, QuadIsPath
  <2>5. QED
    BY <2>4 DEF root
<1>2. ASSUME NEW r \in Ranks
      PROVE  /\ F[r] \in Seq(Quads) /\ Len(F[r]) = TmpSize(amrflags_d[r])
             /\ Len(amrflags_d[r]) <= TmpSize(amrflags_d[r])
             /\ TmpSize(amrflags_d[r]) = Len(amrflags_d[r]) => NumRefine(amrflags_d[r]) = 0
  <2> DEFINE t == TmpSize(amrflags_d[r])
             n == Len(amrflags_d[r])
             k == NumRefine(amrflags_d[r])
  <2>1. amrflags_d[r] \in Seq(Flags)
    BY DEF TypeOK
  <2>2. t \in Nat /\ n <= t /\ n \in Nat /\ k \in Nat /\ t = n + (NB_CHILDREN - 1) * k
    BY <2>1, TmpSizeType, RefineCount DEF TmpSize
  <2>3. F[r] = [i \in 1 .. t |-> <<>>]
    OBVIOUS
  <2> HIDE DEF t, n, k, F
  <2>4. F[r] \in Seq(Quads) /\ Len(F[r]) = t
    BY <1>1, <2>2, <2>3
  <2>5. t = n => k = 0
    <3>1. CASE NB_CHILDREN = 4
      BY <2>2, <3>1
    <3>2. CASE NB_CHILDREN = 8
      BY <2>2, <3>2
    <3>3. QED
      BY <3>1, <3>2, ChildrenCount
  <2>6. QED
    BY <2>2, <2>4, <2>5 DEF t, n, k
<1>3. F = [r \in Ranks |-> F[r]] /\ RefinedCount = NumQuadrants(F)
  BY DEF RefinedCount
<1> HIDE DEF F
<1>4. F \in [Ranks -> Seq(Quads)]
  BY <1>2, <1>3
<1>5. QED
  BY <1>2, <1>3, <1>4

(* The refinement ends: the ranks know how many leaves it made, and when     *)
(* that is as many as before it has refined nothing anywhere.               *)
LEMMA EndRefineCycle == ASSUME CycleInv, EndRefine PROVE CycleInv'
<1>1. FollowInv /\ PassInv /\ TypeOK /\ \A r \in Ranks : Course(r)
  BY DEF CycleInv, FollowInv, PassInv
<1>2. /\ \A r \in Ranks : pc[r] = "refine" /\ PassOver(r)
      /\ \A r \in Ranks : pc'[r] = "coarsen" /\ mesh_changed'[r] = Changed(r)
      /\ global_num_quadrants' = NumQuadrants(forest)
      /\ forest' = forest /\ ghost' = ghost /\ data' = data
      /\ amrflags_d' = amrflags_d /\ old_keys' = old_keys
  BY DEF EndRefine
<1>3. FollowInv'
  BY <1>1, CollectiveFollow DEF Collective
<1>4. \A r \in Ranks : /\ OldLeaves(r)' = OldLeaves(r) /\ (Kept(r) => Kept(r)')
  BY <1>2, LookingBack
<1>5. StartMesh' = StartMesh
  BY <1>2, <1>4 DEF StartMesh
<1>6. Sound(StartMesh)'
  <2>1. Sound(StartMesh')
    BY <1>5 DEF CycleInv
  <2>2. QED
    BY <2>1
<1>7. ASSUME NEW r \in Ranks PROVE Course(r)'
  <2>1. Course(r) /\ pc[r] = "refine"
    BY <1>1, <1>2
  <2>2. Kept(r) /\ Behind(r) = Expanded(r, inside_counter[r]) /\ InOrder(forest[r])
    BY <2>1 DEF Course
  <2>3. Merging(r)'
    BY <1>1, <2>2, MergingStarts
  <2>4. Kept(r)'
    BY <1>4, <2>2
  <2>5. InOrder(forest[r])' /\ Apart(ToSet(ghost[r]), ToSet(StartMesh[r]))'
    BY <1>2, <1>5, <2>1, <2>2 DEF Course, Apart
  <2>6. pc'[r] = "coarsen"
    BY <1>2
  <2>7. QED
    BY <2>3, <2>4, <2>5, <2>6 DEF Course
<1>8. Together'
  <2>1. 0 \in Ranks
    BY AdaptAssumption DEF Ranks
  <2>2. pc[0] = "refine"
    BY <1>2, <2>1
  <2>3. global_num_quadrants = NumQuadrants(StartMesh)
    BY <2>1, <2>2 DEF CycleInv, Together
  <2>4. PICK F \in [Ranks -> Seq(Quads)] :
            /\ RefinedCount = NumQuadrants(F)
            /\ \A r \in Ranks : /\ Len(F[r]) = TmpSize(amrflags_d[r])
                                /\ Len(amrflags_d[r]) <= Len(F[r])
                                /\ Len(F[r]) = Len(amrflags_d[r]) => NumRefine(amrflags_d[r]) = 0
    BY <1>1, RefinedRoom
  <2>5. forest \in [Ranks -> Seq(Quads)] /\ \A r \in Ranks : Len(forest[r]) = Len(F[r])
    BY <1>1, <1>2, <2>4, RefinementOver DEF TypeOK
  <2>6. NumQuadrants(forest) = RefinedCount
    BY <2>4, <2>5, SameCount
  <2>7. /\ StartMesh \in [Ranks -> Seq(Quads)]
        /\ \A r \in Ranks : Len(StartMesh[r]) = Len(amrflags_d[r])
    BY <1>1, <1>2, StartType
  <2>8. ASSUME NumQuadrants(forest) = NumQuadrants(StartMesh), NEW r \in Ranks
        PROVE  NumRefine(amrflags_d[r]) = 0
    <3>1. \A t \in Ranks : Len(StartMesh[t]) <= Len(forest[t])
      BY <2>4, <2>5, <2>7
    <3>2. Len(StartMesh[r]) = Len(forest[r])
      BY <2>5, <2>7, <2>8, <3>1, CountGrows
    <3>3. QED
      BY <2>4, <2>5, <2>7, <3>2
  <2>9. \A r \in Ranks : mesh_changed'[r] = (NumQuadrants(forest) # NumQuadrants(StartMesh))
    BY <1>2, <2>3 DEF Changed
  <2>10. RefinedCount' = RefinedCount
    BY <1>2 DEF RefinedCount
  <2>11. global_num_quadrants' = RefinedCount'
    BY <1>2, <2>6, <2>10
  <2>12. \A r, s \in Ranks : mesh_changed'[r] = mesh_changed'[s]
    BY <2>9
  <2>13. \A r, s \in Ranks : mesh_changed'[r] \/ NumRefine(amrflags_d'[s]) = 0
    BY <1>2, <2>8, <2>9
  <2>14. QED
    BY <1>2, <2>11, <2>12, <2>13 DEF Together
<1>9. QED
  BY <1>3, <1>6, <1>7, <1>8 DEF CycleInv

(* A mesh with the same leaves on each rank is as sound.                    *)
LEMMA SameLeaves ==
  ASSUME NEW f, NEW g, Sound(f), \A r \in Ranks : InOrder(g[r]) /\ ToSet(g[r]) = ToSet(f[r])
  PROVE  Sound(g)
<1>1. Leaves(g) = Leaves(f)
  BY DEF Leaves
<1>2. QED
  BY <1>1 DEF Sound

(* Where nothing is refined the refined leaves are the old ones.            *)
LEMMA NothingRefined ==
  ASSUME TypeOK, NEW r \in Ranks, Kept(r), NumRefine(amrflags_d[r]) = 0
  PROVE  Refined(r) = ToSet(OldLeaves(r))
<1> DEFINE n == Len(amrflags_d[r])
           old == OldLeaves(r)
           flags == amrflags_d[r]
           I == {i \in DOMAIN flags : flags[i] = DO_REFINE}
<1>1. DOMAIN flags = 1 .. n /\ n \in Nat /\ ToSet(old) = {old[i] : i \in 1 .. n}
  BY OldIs DEF Kept
<1>2. IsFiniteSet(I)
  <2>1. IsFiniteSet(1 .. n)
    BY <1>1, FS_Interval
  <2>2. I \subseteq 1 .. n
    BY <1>1
  <2>3. QED
    BY <2>1, <2>2, FS_Subset
<1>3. I = {}
  BY <1>2, FS_EmptySet DEF NumRefine
<1>4. \A i \in 1 .. n : flags[i] # DO_REFINE
  BY <1>1, <1>3
<1>5. Refined(r) = UNION {IF flags[i] = DO_REFINE THEN ToSet(all_children(old[i]))
                          ELSE {old[i]} : i \in 1 .. n}
  BY DEF Refined, Expanded
<1> HIDE DEF flags, n, old, I
<1>6. UNION {IF flags[i] = DO_REFINE THEN ToSet(all_children(old[i])) ELSE {old[i]} : i \in 1 .. n}
        = {old[i] : i \in 1 .. n}
  BY <1>4
<1>7. QED
  BY <1>1, <1>5, <1>6 DEF old

(* The coarsening ends with as many leaves as there were, and the refinement *)
(* did too: no leaf has moved, on any rank.                                 *)
LEMMA NothingMoved ==
  ASSUME PassInv, \A r \in Ranks : Course(r), \A r \in Ranks : pc[r] = "coarsen",
         \A r \in Ranks : NumRefine(amrflags_d[r]) = 0,
         NumQuadrants(forest) = RefinedCount
  PROVE  \A r \in Ranks : ToSet(forest[r]) = ToSet(OldLeaves(r))
<1>1. TypeOK /\ forest \in [Ranks -> Seq(Quads)]
  BY DEF PassInv, TypeOK
<1>2. PICK F \in [Ranks -> Seq(Quads)] :
          /\ RefinedCount = NumQuadrants(F)
          /\ \A r \in Ranks : Len(F[r]) = TmpSize(amrflags_d[r])
  BY <1>1, RefinedRoom
<1>3. ASSUME NEW r \in Ranks
      PROVE  /\ Len(forest[r]) + (NB_CHILDREN - 1) * num_replaced[r] = Len(F[r])
             /\ Len(forest[r]) \in Nat /\ num_replaced[r] \in Nat /\ Len(F[r]) \in Nat
  BY <1>1, <1>2 DEF PassInv, Pass, Coarsening, TypeOK
<1>4. ASSUME NEW r \in Ranks
      PROVE  /\ Len(forest[r]) <= Len(F[r])
             /\ Len(forest[r]) = Len(F[r]) => num_replaced[r] = 0
  <2> DEFINE a == Len(forest[r])
             b == Len(F[r])
             k == num_replaced[r]
  <2>1. a + (NB_CHILDREN - 1) * k = b /\ a \in Nat /\ k \in Nat /\ b \in Nat
    BY <1>3
  <2> HIDE DEF a, b, k
  <2>2. a <= b /\ (a = b => k = 0)
    <3>1. CASE NB_CHILDREN = 4
      BY <2>1, <3>1
    <3>2. CASE NB_CHILDREN = 8
      BY <2>1, <3>2
    <3>3. QED
      BY <3>1, <3>2, ChildrenCount
  <2>3. QED
    BY <2>2 DEF a, b, k
<1>5. \A r \in Ranks : Len(forest[r]) = Len(F[r])
  <2>1. \A r \in Ranks : Len(forest[r]) <= Len(F[r])
    BY <1>4
  <2>2. QED
    BY <1>1, <1>2, <2>1, CountGrows
<1>6. ASSUME NEW r \in Ranks PROVE ToSet(forest[r]) = ToSet(OldLeaves(r))
  <2>1. Kept(r) /\ Merging(r)
    BY DEF Course
  <2>2. ToSet(forest[r]) = Refined(r)
    BY <1>4, <1>5, <2>1 DEF Merging
  <2>3. Refined(r) = ToSet(OldLeaves(r))
    BY <1>1, <2>1, NothingRefined
  <2>4. QED
    BY <2>2, <2>3
<1>7. QED
  BY <1>6

(* The coarsening ends: the ranks all enter the balance, or all skip it and  *)
(* then the leaves are the old ones.                                        *)
LEMMA EndCoarsenCycle == ASSUME CycleInv, EndCoarsen PROVE CycleInv'
<1>1. FollowInv /\ PassInv /\ TypeOK /\ \A r \in Ranks : Course(r)
  BY DEF CycleInv, FollowInv, PassInv
<1>2. /\ \A r \in Ranks : pc[r] = "coarsen" /\ PassOver(r)
      /\ \A r \in Ranks : mesh_changed'[r] = AfterCoarsen(r)
      /\ \A r \in Ranks : pc'[r] = IF AfterCoarsen(r) THEN "balance" ELSE "rebuild"
      /\ global_num_quadrants' = NumQuadrants(forest)
      /\ forest' = forest /\ ghost' = ghost /\ data' = data /\ pos' = pos
      /\ amrflags_d' = amrflags_d /\ old_keys' = old_keys /\ num_replaced' = num_replaced
  BY DEF EndCoarsen
<1>3. FollowInv'
  BY <1>1, CollectiveFollow DEF Collective
<1>4. \A r \in Ranks : /\ OldLeaves(r)' = OldLeaves(r) /\ Merged(r)' = Merged(r)
                       /\ Refined(r)' = Refined(r) /\ (Kept(r) => Kept(r)')
  BY <1>2, LookingBack
<1>5. StartMesh' = StartMesh
  BY <1>2, <1>4 DEF StartMesh
<1>6. Sound(StartMesh)'
  <2>1. Sound(StartMesh')
    BY <1>5 DEF CycleInv
  <2>2. QED
    BY <2>1
<1>7. 0 \in Ranks
  BY AdaptAssumption DEF Ranks
<1>8. /\ global_num_quadrants = RefinedCount
      /\ \A r, s \in Ranks : mesh_changed[r] = mesh_changed[s]
      /\ \A r, s \in Ranks : mesh_changed[r] \/ NumRefine(amrflags_d[s]) = 0
  <2>1. pc[0] = "coarsen"
    BY <1>2, <1>7
  <2>2. QED
    BY <1>7, <2>1 DEF CycleInv, Together
<1>9. \A r \in Ranks : AfterCoarsen(r) <=> AfterCoarsen(0)
  <2>1. \A r \in Ranks : mesh_changed[r] = mesh_changed[0]
    BY <1>7, <1>8
  <2>2. QED
    BY <2>1 DEF AfterCoarsen, Changed
<1>10. ASSUME ~ AfterCoarsen(0), NEW r \in Ranks PROVE ToSet(forest[r]) = ToSet(OldLeaves(r))
  <2>1. ~ mesh_changed[0] /\ NumQuadrants(forest) = RefinedCount
    BY <1>8, <1>10 DEF AfterCoarsen, Changed
  <2>2. \A s \in Ranks : NumRefine(amrflags_d[s]) = 0
    BY <1>7, <1>8, <2>1
  <2>3. QED
    BY <1>1, <1>2, <2>1, <2>2, NothingMoved
<1>11. ASSUME ~ AfterCoarsen(0) PROVE Sound(forest)
  <2>1. \A r \in Ranks : StartMesh[r] = OldLeaves(r)
    BY <1>2 DEF StartMesh
  <2>2. \A r \in Ranks : InOrder(forest[r]) /\ ToSet(forest[r]) = ToSet(StartMesh[r])
    BY <1>1, <1>10, <1>11, <2>1 DEF Course
  <2>3. QED
    BY <2>2, SameLeaves DEF CycleInv
<1>12. ASSUME NEW r \in Ranks PROVE Course(r)'
  <2>1. Course(r) /\ pc[r] = "coarsen"
    BY <1>1, <1>2
  <2>2. Kept(r)'
    BY <1>4, <2>1 DEF Course
  <2>3. InOrder(forest[r])' /\ Apart(ToSet(ghost[r]), ToSet(StartMesh[r]))'
    BY <1>2, <1>5, <2>1 DEF Course, InOrder, Apart
  <2>4. Merging(r)'
    BY <1>2, <1>4, <2>1 DEF Course, Merging, ToCome
  <2>5. PassOver(r)'
    BY <1>2 DEF PassOver
  <2>6. CASE AfterCoarsen(0)
    <3>1. pc'[r] = "balance"
      BY <1>2, <1>9, <2>6
    <3>2. QED
      BY <2>2, <2>3, <2>4, <2>5, <3>1 DEF Course
  <2>7. CASE ~ AfterCoarsen(0)
    <3>1. pc'[r] = "rebuild"
      BY <1>2, <1>9, <2>7
    <3>2. ToSet(forest[r]) = ToSet(OldLeaves(r))
      BY <1>10, <2>7
    <3>3. \A x \in ToSet(forest'[r]) : Stems(ToSet(OldLeaves(r)'), x)
      BY <1>2, <1>4, <3>2 DEF Stems
    <3>4. QED
      BY <2>2, <2>3, <3>1, <3>3 DEF Course
  <2>8. QED
    BY <2>6, <2>7
<1>13. Together'
  <2>1. CASE AfterCoarsen(0)
    <3>1. \A r \in Ranks : pc'[r] = "balance" /\ mesh_changed'[r]
      BY <1>2, <1>9, <2>1
    <3>2. QED
      BY <3>1 DEF Together
  <2>2. CASE ~ AfterCoarsen(0)
    <3>1. \A r \in Ranks : pc'[r] = "rebuild"
      BY <1>2, <1>9, <2>2
    <3>2. Sound(forest')
      BY <1>2, <1>11, <2>2
    <3>3. global_num_quadrants' = NumQuadrants(forest')
      BY <1>2
    <3>4. \A r \in Ranks : ToSet(forest[r])' = ToSet(OldLeaves(r))'
      BY <1>2, <1>4, <1>10, <2>2
    <3>5. QED
      BY <3>1, <3>2, <3>3, <3>4 DEF Together
  <2>3. QED
    BY <2>1, <2>2
<1>14. QED
  BY <1>3, <1>6, <1>12, <1>13 DEF CycleInv

(* No leaf of a sound mesh contains another, on one rank or two.            *)
LEMMA SoundLeafy ==
  ASSUME NEW f \in [Ranks -> Seq(Quads)], Sound(f)
  PROVE  Leafy(Leaves(f))
<1>1. ASSUME NEW r \in Ranks PROVE Leafy(ToSet(f[r]))
  BY InOrderLeafy DEF Sound
<1>2. ASSUME NEW a \in Leaves(f), NEW b \in Leaves(f), Overlap(a, b) PROVE a = b
  <2>1. PICK r \in Ranks : a \in ToSet(f[r])
    BY DEF Leaves
  <2>2. PICK s \in Ranks : b \in ToSet(f[s])
    BY DEF Leaves
  <2>3. r = s
    BY <1>2, <2>1, <2>2 DEF Sound, Apart
  <2>4. QED
    BY <1>1, <1>2, <2>1, <2>2, <2>3 DEF Leafy
<1>3. Leaves(f) \subseteq Quads
  BY <1>1 DEF Leaves, Leafy
<1>4. QED
  BY <1>2, <1>3 DEF Leafy

(* What the passes have made of the mesh, before the balance.               *)
LEMMA PassesOver ==
  ASSUME TypeOK, \A r \in Ranks : Course(r), Sound(StartMesh), \A r \in Ranks : pc[r] = "balance"
  PROVE  /\ \A r \in Ranks : /\ Kept(r) /\ InOrder(forest[r]) /\ StartMesh[r] = OldLeaves(r)
                             /\ ToSet(forest[r]) \subseteq Quads
                             /\ \A x \in ToSet(forest[r]) : Stems(ToSet(OldLeaves(r)), x)
         /\ \A r, s \in Ranks : r # s => Apart(ToSet(forest[r]), ToSet(forest[s]))
         /\ IsComplete(Leaves(forest))
<1>1. ASSUME NEW r \in Ranks
      PROVE  /\ Kept(r) /\ InOrder(forest[r]) /\ StartMesh[r] = OldLeaves(r)
             /\ ToSet(forest[r]) = Adapted(r) /\ ToSet(OldLeaves(r)) \subseteq Quads
  <2>1. Course(r) /\ pc[r] = "balance"
    OBVIOUS
  <2>2. Kept(r) /\ InOrder(forest[r]) /\ Merging(r) /\ PassOver(r)
    BY <2>1 DEF Course
  <2>3. StartMesh[r] = OldLeaves(r)
    BY <2>1 DEF StartMesh
  <2>4. ToSet(forest[r]) = Adapted(r)
    BY <2>2, MergingOver
  <2>5. ToSet(OldLeaves(r)) \subseteq Quads
    BY <2>2, OldIs DEF Kept
  <2>6. QED
    BY <2>2, <2>3, <2>4, <2>5
<1>2. ASSUME NEW r \in Ranks
      PROVE  /\ ToSet(forest[r]) \subseteq Quads
             /\ \A x \in ToSet(forest[r]) : Stems(ToSet(OldLeaves(r)), x)
             /\ \A u \in ToSet(OldLeaves(r)), z \in Quads :
                   Overlap(u, z) => \E x \in ToSet(forest[r]) : Overlap(x, z)
  BY <1>1, AdaptedStems
<1>3. ASSUME NEW r \in Ranks, NEW s \in Ranks, r # s
      PROVE  Apart(ToSet(forest[r]), ToSet(forest[s]))
  <2>1. Apart(ToSet(OldLeaves(r)), ToSet(OldLeaves(s)))
    BY <1>1, <1>3 DEF Sound
  <2>2. QED
    BY <1>1, <1>2, <2>1, StemsApart
<1>4. ASSUME NEW z \in Quads PROVE \E x \in Leaves(forest) : Overlap(x, z)
  <2>1. PICK p \in Leaves(StartMesh) : Overlap(p, z)
    BY DEF Sound, IsComplete
  <2>2. PICK r \in Ranks : p \in ToSet(StartMesh[r])
    BY <2>1 DEF Leaves
  <2>3. PICK x \in ToSet(forest[r]) : Overlap(x, z)
    BY <1>1, <1>2, <2>1, <2>2
  <2>4. QED
    BY <2>3 DEF Leaves
<1>5. QED
  BY <1>1, <1>2, <1>3, <1>4 DEF IsComplete

(* The balance splits nothing that was not split before the cycle: what it   *)
(* makes of the leaves stems from those the cycle began with.               *)
LEMMA BalanceStems ==
  ASSUME TypeOK, \A r \in Ranks : Course(r), Sound(StartMesh), \A r \in Ranks : pc[r] = "balance",
         NEW r \in Ranks, NEW x \in ToSet(Balanced(forest)[r])
  PROVE  Stems(ToSet(OldLeaves(r)), x)
<1> DEFINE M == Leaves(StartMesh)
           F == Leaves(forest)
           old(s) == ToSet(OldLeaves(s))
<1>1. \A s \in Ranks : /\ Kept(s) /\ InOrder(forest[s]) /\ StartMesh[s] = OldLeaves(s)
                       /\ ToSet(forest[s]) \subseteq Quads
                       /\ \A y \in ToSet(forest[s]) : Stems(old(s), y)
  BY PassesOver
<1>2. \A s \in Ranks : old(s) \subseteq M
  BY <1>1 DEF Leaves
<1>3. Leafy(M) /\ IsComplete(M) /\ Graded(M)
  BY StartType, SoundLeafy DEF Sound
<1>4. F \subseteq Quads /\ \A y \in F : Stems(M, y)
  <2>1. ASSUME NEW y \in F PROVE y \in Quads /\ Stems(M, y)
    <3>1. PICK s \in Ranks : y \in ToSet(forest[s])
      BY DEF Leaves
    <3>2. y \in Quads /\ Stems(old(s), y) /\ old(s) \subseteq M
      BY <1>1, <1>2, <3>1
    <3> HIDE DEF old, M
    <3>3. QED
      BY <3>2 DEF Stems
  <2>2. QED
    BY <2>1
<1>5. \A p \in Split(F) : \E y \in M : IsPrefix(p, y)
  <2> HIDE DEF M, F
  <2>1. QED
    BY <1>3, <1>4, SplitStays
<1>6. Split(F) \subseteq Quads
  BY SplitType
<1>7. forest \in [Ranks -> Seq(Quads)] /\ InOrder(forest[r])
  BY <1>1 DEF TypeOK
<1>8. PICK u \in ToSet(forest[r]) :
          /\ IsPrefix(u, x) /\ \A n \in Len(u) .. Len(x) - 1 : SubSeq(x, 1, n) \in Split(F)
  BY <1>7, BalancedCut
<1>9. x \in Quads
  <2>1. Balanced(forest)[r] \in Seq(Quads)
    BY <1>7, BalancedCut
  <2> DEFINE b == Balanced(forest)[r]
  <2> HIDE DEF b
  <2>2. b \in Seq(Quads) /\ x \in ToSet(b)
    BY <2>1 DEF b
  <2>3. QED
    BY <2>2 DEF ToSet
<1>10. u \in Quads /\ Stems(old(r), u)
  BY <1>1
<1> DEFINE split == Split(F)
           o == old(r)
<1>11. o \subseteq M
  BY <1>2
<1> HIDE DEF split, o, M, F, old
<1>12. Stems(o, x)
  <2>1. /\ Leafy(M) /\ \A p \in split : \E y \in M : IsPrefix(p, y)
        /\ split \subseteq Quads /\ Stems(o, u)
        /\ IsPrefix(u, x) /\ \A n \in Len(u) .. Len(x) - 1 : SubSeq(x, 1, n) \in split
    BY <1>3, <1>5, <1>6, <1>8, <1>10 DEF split, o
  <2>2. QED
    BY <1>9, <1>10, <1>11, <2>1, CutStems
<1>13. QED
  BY <1>12 DEF o, old

(* The balance makes one mesh of the leaves of all ranks.                   *)
LEMMA BalanceCycle == ASSUME CycleInv, Balance PROVE CycleInv'
<1>1. FollowInv /\ PassInv /\ TypeOK /\ (\A r \in Ranks : Course(r)) /\ Sound(StartMesh)
  BY DEF CycleInv, FollowInv, PassInv
<1>2. /\ \A r \in Ranks : pc[r] = "balance" /\ pc'[r] = "rebuild" /\ mesh_changed'[r] = mesh_changed[r]
      /\ forest' = Balanced(forest) /\ global_num_quadrants' = NumQuadrants(forest')
      /\ ghost' = ghost /\ data' = data /\ amrflags_d' = amrflags_d /\ old_keys' = old_keys
  BY DEF Balance
<1>3. FollowInv'
  BY <1>1, CollectiveFollow DEF Collective
<1>4. \A r \in Ranks : OldLeaves(r)' = OldLeaves(r) /\ (Kept(r) => Kept(r)')
  BY <1>2, LookingBack
<1>5. StartMesh' = StartMesh
  BY <1>2, <1>4 DEF StartMesh
<1>6. Sound(StartMesh)'
  <2>1. Sound(StartMesh')
    BY <1>1, <1>5
  <2>2. QED
    BY <2>1
<1>7. forest \in [Ranks -> Seq(Quads)]
  BY <1>1 DEF TypeOK
<1>8. Sound(forest')
  <2>1. /\ \A r \in Ranks : InOrder(forest[r])
        /\ \A r, s \in Ranks : r # s => Apart(ToSet(forest[r]), ToSet(forest[s]))
        /\ IsComplete(Leaves(forest))
    BY <1>1, <1>2, PassesOver
  <2>2. QED
    BY <1>2, <1>7, <2>1, BalancedSound
<1>9. ASSUME NEW r \in Ranks PROVE Course(r)'
  <2>1. Course(r) /\ Kept(r)
    BY <1>1, <1>2 DEF Course
  <2>2. Kept(r)'
    BY <1>4, <2>1
  <2>3. InOrder(forest'[r])
    BY <1>8 DEF Sound
  <2>4. InOrder(forest[r])'
    BY <2>3 DEF InOrder
  <2>5. Apart(ToSet(ghost[r]), ToSet(StartMesh[r]))'
    BY <1>2, <1>5, <2>1 DEF Course, Apart
  <2>6. \A x \in ToSet(forest'[r]) : Stems(ToSet(OldLeaves(r)), x)
    BY <1>1, <1>2, BalanceStems
  <2>7. \A x \in ToSet(forest'[r]) : Stems(ToSet(OldLeaves(r)'), x)
    BY <1>4, <2>6
  <2>8. pc'[r] = "rebuild"
    BY <1>2
  <2>9. QED
    BY <2>2, <2>4, <2>5, <2>7, <2>8 DEF Course
<1>10. Together'
  <2>1. 0 \in Ranks /\ pc[0] = "balance"
    BY <1>2, AdaptAssumption DEF Ranks
  <2>2. \A r \in Ranks : mesh_changed[r]
    BY <2>1 DEF CycleInv, Together
  <2>3. QED
    BY <1>2, <1>8, <2>2 DEF Together
<1>11. QED
  BY <1>3, <1>6, <1>9, <1>10 DEF CycleInv

(* The rebuild: the new mesh is what the ranks look back at from now on; the *)
(* ghosts that are kept are those of the same leaves.                       *)
LEMMA RebuildCycle == ASSUME CycleInv, Rebuild PROVE CycleInv'
<1>1. FollowInv /\ PassInv /\ TypeOK /\ \A r \in Ranks : Course(r)
  BY DEF CycleInv, FollowInv, PassInv
<1>2. /\ \A r \in Ranks : pc[r] = "rebuild" /\ pc'[r] = "remap"
      /\ \A r \in Ranks : ghost'[r] = IF mesh_changed[r] THEN GhostLeaves(forest, r) ELSE ghost[r]
      /\ forest' = forest /\ global_num_quadrants' = global_num_quadrants
      /\ data' = data /\ amrflags_d' = amrflags_d /\ old_keys' = old_keys
  BY DEF Rebuild
<1>3. FollowInv'
  BY <1>1, CollectiveFollow DEF Collective
<1>4. \A r \in Ranks : OldLeaves(r)' = OldLeaves(r) /\ (Kept(r) => Kept(r)')
  BY <1>2, LookingBack
<1>5. /\ Sound(forest) /\ global_num_quadrants = NumQuadrants(forest)
      /\ \A r \in Ranks : mesh_changed[r] \/ ToSet(forest[r]) = ToSet(OldLeaves(r))
  <2>1. 0 \in Ranks /\ pc[0] = "rebuild"
    BY <1>2, AdaptAssumption DEF Ranks
  <2>2. QED
    BY <2>1 DEF CycleInv, Together
<1>6. forest \in [Ranks -> Seq(Quads)]
  BY <1>1 DEF TypeOK
<1>7. StartMesh' = forest
  <2>1. StartMesh' = [r \in Ranks |-> forest[r]]
    BY <1>2 DEF StartMesh
  <2>2. QED
    BY <1>6, <2>1
<1>8. Sound(StartMesh)'
  <2>1. Sound(StartMesh')
    BY <1>5, <1>7
  <2>2. QED
    BY <2>1
<1>9. ASSUME NEW r \in Ranks PROVE Course(r)'
  <2>1. Course(r) /\ pc[r] = "rebuild"
    BY <1>1, <1>2
  <2>2. Kept(r)'
    BY <1>4, <2>1 DEF Course
  <2>3. InOrder(forest[r])'
    BY <1>2, <2>1 DEF Course, InOrder
  <2>4. Apart(ToSet(ghost'[r]), ToSet(forest[r]))
    <3>1. CASE mesh_changed[r]
      <4>1. \A s, t \in Ranks : s # t => Apart(ToSet(forest[s]), ToSet(forest[t]))
        BY <1>5 DEF Sound
      <4>2. Apart(ToSet(GhostLeaves(forest, r)), ToSet(forest[r]))
        BY <1>6, <4>1, GhostsApart
      <4>3. QED
        BY <1>2, <3>1, <4>2
    <3>2. CASE ~ mesh_changed[r]
      <4>1. ToSet(forest[r]) = ToSet(OldLeaves(r)) /\ StartMesh[r] = OldLeaves(r)
        BY <1>5, <2>1, <3>2 DEF StartMesh
      <4>2. Apart(ToSet(ghost[r]), ToSet(StartMesh[r]))
        BY <2>1 DEF Course
      <4>3. QED
        BY <1>2, <3>2, <4>1, <4>2
    <3>3. QED
      BY <3>1, <3>2
  <2>5. Apart(ToSet(ghost[r]), ToSet(StartMesh[r]))'
    BY <1>7, <2>4 DEF Apart
  <2>6. \A x \in ToSet(forest'[r]) : Stems(ToSet(OldLeaves(r)'), x)
    BY <1>2, <1>4, <2>1 DEF Course
  <2>7. pc'[r] = "remap"
    BY <1>2
  <2>8. QED
    BY <2>2, <2>3, <2>5, <2>6, <2>7 DEF Course
<1>10. Together'
  <2>1. global_num_quadrants' = NumQuadrants(StartMesh')
    BY <1>2, <1>5, <1>7
  <2>2. QED
    BY <1>2, <2>1 DEF Together
<1>11. QED
  BY <1>3, <1>8, <1>9, <1>10 DEF CycleInv

----------------------------------------------------------------------------
(* The first cycle                                                          *)

(* The segments of a mesh make one mesh.                                    *)
LEMMA CutsSound ==
  ASSUME NEW m \in Seq(Quads), InOrder(m), IsComplete(ToSet(m)), IsBalanced(ToSet(m)),
         NEW f \in Cuts(m)
  PROVE  f \in [Ranks -> Seq(Quads)] /\ Sound(f)
<1> DEFINE n == Len(m)
           N == NumRanks
<1>1. n \in Nat /\ DOMAIN m = 1 .. n /\ N \in Nat /\ N >= 1 /\ Ranks = 0 .. N - 1
  BY AdaptAssumption DEF Ranks
<1>2. PICK c \in [0 .. N -> 0 .. n] :
          /\ c[0] = 0 /\ c[N] = n
          /\ \A r \in Ranks : c[r] <= c[r + 1]
          /\ f = [r \in Ranks |-> SubSeq(m, c[r] + 1, c[r + 1])]
  BY DEF Cuts
<1> HIDE DEF n, N
<1>3. ASSUME NEW r \in Ranks
      PROVE  /\ r \in Nat /\ r + 1 \in 0 .. N /\ r \in 0 .. N
             /\ c[r] \in Nat /\ c[r + 1] \in Nat /\ c[r] <= c[r + 1] /\ c[r + 1] <= n
  <2>1. r \in Nat /\ r + 1 \in 0 .. N /\ r \in 0 .. N
    BY <1>1
  <2>2. c[r] \in 0 .. n /\ c[r + 1] \in 0 .. n
    BY <1>2, <2>1
  <2>3. QED
    BY <1>1, <1>2, <2>1, <2>2
<1>4. ASSUME NEW r \in Ranks
      PROVE  /\ f[r] \in Seq(Quads) /\ DOMAIN f[r] = 1 .. c[r + 1] - c[r]
             /\ \A i \in 1 .. c[r + 1] - c[r] : f[r][i] = m[c[r] + i] /\ c[r] + i \in 1 .. n
  <2> DEFINE a == c[r]
             b == c[r + 1]
             g == SubSeq(m, a + 1, b)
  <2>1. a \in Nat /\ b \in Nat /\ a <= b /\ b <= n
    BY <1>3
  <2>2. f[r] = g
    BY <1>2
  <2> HIDE DEF a, b
  <2>3. g \in Seq(Quads) /\ Len(g) = b - a /\ \A j \in 1 .. b - a : g[j] = m[a + j]
    BY <2>1, PartOfSeq DEF n
  <2> HIDE DEF g
  <2>4. DOMAIN g = 1 .. b - a
    BY <2>3
  <2>5. \A i \in 1 .. b - a : a + i \in 1 .. n
    BY <1>1, <2>1
  <2>6. QED
    BY <2>2, <2>3, <2>4, <2>5 DEF a, b
<1>5. f \in [Ranks -> Seq(Quads)]
  <2>1. f = [r \in Ranks |-> f[r]]
    BY <1>2
  <2>2. QED
    BY <1>4, <2>1
<1>6. ASSUME NEW r \in Ranks PROVE InOrder(f[r])
  <2> DEFINE a == c[r]
             b == c[r + 1] - c[r]
  <2>1. a \in Nat /\ b \in Int
    BY <1>3
  <2>2. DOMAIN f[r] = 1 .. b /\ \A i \in 1 .. b : f[r][i] = m[a + i] /\ a + i \in 1 .. n
    BY <1>4
  <2> HIDE DEF a, b
  <2>3. ASSUME NEW i \in 1 .. b, NEW j \in 1 .. b, i < j PROVE Before(f[r][i], f[r][j])
    <3>1. a + i < a + j
      BY <2>1, <2>3
    <3>2. Before(m[a + i], m[a + j])
      BY <1>1, <2>2, <3>1 DEF InOrder
    <3>3. QED
      BY <2>2, <3>2
  <2>4. QED
    BY <2>2, <2>3 DEF InOrder
<1>7. ASSUME NEW r \in Ranks, NEW x \in ToSet(f[r])
      PROVE  \E k \in 1 .. n : c[r] < k /\ k <= c[r + 1] /\ x = m[k]
  <2> DEFINE a == c[r]
             b == c[r + 1]
  <2>1. a \in Nat /\ b \in Nat
    BY <1>3
  <2>2. PICK i \in 1 .. b - a : x = m[a + i] /\ a + i \in 1 .. n
    <3>1. \E i \in DOMAIN f[r] : x = f[r][i]
      BY DEF ToSet
    <3>2. DOMAIN f[r] = 1 .. b - a /\ \A i \in 1 .. b - a : f[r][i] = m[a + i] /\ a + i \in 1 .. n
      BY <1>4
    <3> HIDE DEF a, b
    <3>3. QED
      BY <3>1, <3>2
  <2> HIDE DEF a, b
  <2>3. a < a + i /\ a + i <= b
    BY <2>1
  <2>4. QED
    BY <2>2, <2>3 DEF a, b
<1>8. \A r, s \in Ranks : r < s => c[r + 1] <= c[s]
  <2> DEFINE P == {l \in Nat : \A r \in Ranks : r + 1 + l \in 0 .. N => c[r + 1] <= c[r + 1 + l]}
  <2>1. 0 \in P
    <3>1. \A r \in Ranks : r + 1 + 0 = r + 1 /\ c[r + 1] \in Nat
      BY <1>3
    <3>2. QED
      BY <3>1
  <2>2. ASSUME NEW l \in Nat, l \in P PROVE l + 1 \in P
    <3>1. ASSUME NEW r \in Ranks, r + 1 + (l + 1) \in 0 .. N
          PROVE  c[r + 1] <= c[r + 1 + (l + 1)]
      <4> DEFINE t == r + 1 + l
      <4>1. t \in Ranks /\ t \in 0 .. N /\ t + 1 = r + 1 + (l + 1)
        BY <1>1, <1>3, <3>1
      <4>2. c[r + 1] <= c[t]
        BY <2>2, <4>1
      <4>3. c[t] <= c[t + 1] /\ c[t] \in Nat /\ c[t + 1] \in Nat /\ c[r + 1] \in Nat
        BY <1>3, <4>1
      <4>4. c[r + 1] <= c[t + 1]
        BY <4>2, <4>3
      <4>5. QED
        BY <4>1, <4>4
    <3>2. QED
      BY <3>1
  <2> HIDE DEF P
  <2>3. \A l \in Nat : l \in P
    BY <2>1, <2>2, EveryNat
  <2>4. ASSUME NEW r \in Ranks, NEW s \in Ranks, r < s PROVE c[r + 1] <= c[s]
    <3> DEFINE l == s - (r + 1)
    <3>1. l \in Nat /\ r + 1 + l = s /\ s \in 0 .. N
      BY <1>3, <2>4
    <3>2. l \in P
      BY <2>3, <3>1
    <3>3. QED
      BY <3>1, <3>2 DEF P
  <2>5. QED
    BY <2>4
<1>9. Separate(m)
  BY OrderApart
<1>10. ASSUME NEW r \in Ranks, NEW s \in Ranks, r # s PROVE Apart(ToSet(f[r]), ToSet(f[s]))
  <2>1. ASSUME NEW x \in ToSet(f[r]), NEW y \in ToSet(f[s]) PROVE ~ Overlap(x, y)
    <3>1. PICK k \in 1 .. n : c[r] < k /\ k <= c[r + 1] /\ x = m[k]
      BY <1>7
    <3>2. PICK l \in 1 .. n : c[s] < l /\ l <= c[s + 1] /\ y = m[l]
      BY <1>7
    <3>3. r < s \/ s < r
      BY <1>3, <1>10
    <3>4. k # l
      <4>1. /\ c[r] \in Nat /\ c[r + 1] \in Nat /\ c[s] \in Nat /\ c[s + 1] \in Nat
            /\ k \in Nat /\ l \in Nat
        BY <1>3
      <4>2. c[r + 1] <= c[s] \/ c[s + 1] <= c[r]
        BY <1>8, <3>3
      <4>3. QED
        BY <3>1, <3>2, <4>1, <4>2
    <3>5. QED
      BY <1>1, <1>9, <3>1, <3>2, <3>4 DEF Separate
  <2>2. QED
    BY <2>1 DEF Apart
<1>11. Leaves(f) = ToSet(m)
  <2>1. ASSUME NEW x \in Leaves(f) PROVE x \in ToSet(m)
    <3>1. PICK r \in Ranks : x \in ToSet(f[r])
      BY DEF Leaves
    <3>2. \E k \in 1 .. n : x = m[k]
      BY <1>7, <3>1
    <3>3. QED
      BY <1>1, <3>2 DEF ToSet
  <2>2. ASSUME NEW x \in ToSet(m) PROVE x \in Leaves(f)
    <3>1. PICK k \in 1 .. n : x = m[k]
      BY <1>1 DEF ToSet
    <3> DEFINE t == k - 1
    <3>2. t \in Nat /\ t < n
      BY <1>1
    <3>3. \E r \in 0 .. N - 1 : c[r] <= t /\ t < c[r + 1]
      <4> HIDE DEF t
      <4>1. QED
        BY <1>1, <1>2, <3>2, SomeOwner
    <3>4. PICK r \in Ranks : c[r] <= t /\ t < c[r + 1]
      BY <1>1, <3>3
    <3> DEFINE a == c[r]
               b == c[r + 1]
               i == k - a
    <3>5. a \in Nat /\ b \in Nat /\ a <= t /\ t < b
      BY <1>3, <3>4
    <3> HIDE DEF a, b
    <3>6. i \in 1 .. b - a /\ a + i = k
      BY <3>5
    <3> HIDE DEF i
    <3>7. f[r][i] = m[a + i] /\ i \in DOMAIN f[r]
      BY <1>4, <3>6 DEF a, b
    <3>8. x \in ToSet(f[r])
      BY <3>1, <3>6, <3>7 DEF ToSet
    <3>9. QED
      BY <3>8 DEF Leaves
  <2>3. QED
    BY <2>1, <2>2
<1>12. Graded(ToSet(m))
  BY InOrderLeafy, BalancedGraded
<1>13. QED
  BY <1>5, <1>6, <1>10, <1>11, <1>12 DEF Sound

(* Every leaf of the first mesh has its own value.                          *)
LEMMA CycleInit == Init => CycleInv
<1> SUFFICES ASSUME Init PROVE CycleInv
  OBVIOUS
<1>1. FollowInv /\ TypeOK
  BY FollowInit DEF FollowInv, PassInv
<1>2. PICK m \in Meshes : forest \in Cuts(m)
  BY DEF Init
<1>3. forest \in [Ranks -> Seq(Quads)] /\ Sound(forest)
  <2>1. m \in Seq(Quads) /\ InOrder(m) /\ IsComplete(ToSet(m)) /\ IsBalanced(ToSet(m))
    BY AdaptAssumption
  <2>2. QED
    BY <1>2, <2>1, CutsSound
<1>4. /\ \A r \in Ranks : /\ pc[r] = "flags"
                          /\ ghost[r] = GhostLeaves(forest, r)
                          /\ data[r] = [i \in DOMAIN forest[r] |-> {forest[r][i]}]
      /\ global_num_quadrants = NumQuadrants(forest)
  BY DEF Init
<1>5. StartMesh = forest
  <2>1. StartMesh = [r \in Ranks |-> forest[r]]
    BY <1>4 DEF StartMesh
  <2>2. QED
    BY <1>3, <2>1
<1>6. ASSUME NEW r \in Ranks PROVE Course(r)
  <2> DEFINE f == forest[r]
             d == data[r]
  <2>1. InOrder(f) /\ f \in Seq(Quads)
    BY <1>3 DEF Sound
  <2>2. Apart(ToSet(GhostLeaves(forest, r)), ToSet(f))
    <3>1. \A s, t \in Ranks : s # t => Apart(ToSet(forest[s]), ToSet(forest[t]))
      BY <1>3 DEF Sound
    <3>2. QED
      BY <1>3, <3>1, GhostsApart
  <2>3. DOMAIN f = 1 .. Len(f) /\ Len(f) \in Nat
    BY <2>1
  <2>4. d = [i \in DOMAIN f |-> {f[i]}]
    BY <1>4
  <2>5. ASSUME NEW i \in DOMAIN f PROVE Covers({f[i]}, f[i])
    <3>1. f[i] \in Quads
      BY <2>1
    <3>2. IsPrefix(f[i], f[i])
      BY <3>1, Containment
    <3>3. QED
      BY <3>1, <3>2 DEF Covers
  <2> HIDE DEF d
  <2>6. Len(d) = Len(f) /\ DOMAIN d = DOMAIN f /\ \A i \in DOMAIN f : d[i] = {f[i]}
    BY <2>3, <2>4
  <2>7. \A i \in DOMAIN d : Covers(d[i], f[i])
    BY <2>5, <2>6
  <2>8. Apart(ToSet(ghost[r]), ToSet(StartMesh[r]))
    BY <1>4, <1>5, <2>2
  <2>9. QED
    BY <1>4, <2>1, <2>6, <2>7, <2>8 DEF Course, d
<1>7. Together
  BY <1>4, <1>5 DEF Together
<1>8. QED
  BY <1>1, <1>3, <1>5, <1>6, <1>7 DEF CycleInv

----------------------------------------------------------------------------
(* The cycle                                                                *)

(* Every step keeps the invariant.                                          *)
LEMMA CycleNext == CycleInv /\ [Next]_vars => CycleInv'
<1> SUFFICES ASSUME CycleInv, [Next]_vars PROVE CycleInv'
  OBVIOUS
<1>1. CASE UNCHANGED vars
  <2>1. FollowInv'
    BY <1>1, FollowNext DEF CycleInv
  <2>2. /\ pc' = pc /\ forest' = forest /\ ghost' = ghost /\ data' = data
        /\ amrflags_d' = amrflags_d /\ old_keys' = old_keys /\ mesh_changed' = mesh_changed
        /\ global_num_quadrants' = global_num_quadrants
        /\ \A r \in Ranks : Mine(r)' = Mine(r)
    BY <1>1 DEF vars, Mine
  <2>3. \A r \in Ranks : Course(r)'
    BY <2>2, CourseOn DEF CycleInv
  <2>4. \A r \in Ranks : OldLeaves(r)' = OldLeaves(r)
    BY <2>2 DEF OldLeaves
  <2>5. StartMesh' = StartMesh
    BY <2>2, <2>4 DEF StartMesh
  <2>6. Sound(StartMesh)'
    <3>1. Sound(StartMesh')
      BY <2>5 DEF CycleInv
    <3>2. QED
      BY <3>1
  <2>7. RefinedCount' = RefinedCount
    BY <2>2 DEF RefinedCount
  <2>8. Together'
    BY <2>2, <2>4, <2>5, <2>7 DEF CycleInv, Together
  <2>9. QED
    BY <2>1, <2>3, <2>6, <2>8 DEF CycleInv
<1>2. CASE Collective
  BY <1>2, EndRefineCycle, EndCoarsenCycle, BalanceCycle, RebuildCycle DEF Collective
<1>3. CASE \E r \in Ranks : Step(r)
  BY <1>3, StepCycle
<1>4. QED
  BY <1>1, <1>2, <1>3 DEF Next

(* The invariant holds in every state.                                      *)
LEMMA CycleAlways == Spec => []CycleInv
BY CycleInit, CycleNext, PTL DEF Spec

(* What the passes did is what the flags asked, on every rank and whatever   *)
(* the other ranks have done meanwhile; and every cycle ends on a 2:1        *)
(* balanced mesh, also when the count of the quadrants has told adapt_mesh   *)
(* that nothing has changed and that no balance is needed (refine_callback,  *)
(* coarsen_callback, adapt_mesh).                                           *)
THEOREM FlagsObeyed == Spec => []AdaptedAsAsked
<1>1. CycleInv => AdaptedAsAsked
  <2> SUFFICES ASSUME CycleInv PROVE AdaptedAsAsked
    OBVIOUS
  <2>1. TypeOK /\ \A r \in Ranks : Course(r)
    BY DEF CycleInv, FollowInv, PassInv
  <2>2. ASSUME NEW r \in Ranks, pc[r] = "coarsen", PassOver(r)
        PROVE  ToSet(forest[r]) = Adapted(r)
    BY <2>1, <2>2, MergingOver DEF Course
  <2>3. ASSUME \A r \in Ranks : pc[r] = "flags" PROVE IsBalanced(Leaves(forest))
    <3>1. StartMesh = forest
      <4>1. StartMesh = [r \in Ranks |-> forest[r]]
        BY <2>3 DEF StartMesh
      <4>2. QED
        BY <2>1, <4>1 DEF TypeOK
    <3>2. Graded(Leaves(forest)) /\ Leafy(Leaves(forest))
      BY <2>1, <3>1, SoundLeafy DEF CycleInv, Sound, TypeOK
    <3>3. QED
      BY <3>2, GradedBalanced DEF Leafy
  <2>4. QED
    BY <2>2, <2>3 DEF AdaptedAsAsked, Adapted
<1>2. QED
  BY <1>1, CycleAlways, PTL

(* Every leaf of the new mesh receives the value of the old leaf that        *)
(* contains it or the mean of exactly the old leaves it is made of: the      *)
(* three searches of remap_leaf_data suffice, no ghost is taken for an owned *)
(* leaf, and the siblings follow the eldest child (UserDataRemapper).        *)
THEOREM RemapIsExact == Spec => []RemapExact
<1>1. CycleInv => RemapExact
  BY DEF CycleInv, Course, RemapExact
<1>2. QED
  BY <1>1, CycleAlways, PTL
=============================================================================

------------------------------- MODULE Quads -------------------------------
(***************************************************************************)
(* Quadrants of one p4est tree.  A quadrant is the path from the root to it: *)
(* the sequence of child numbers, so that the Morton order of leaves is the *)
(* lexicographic order of paths and its level is the length of the path.    *)
(* This is the geometry the callbacks of AMRContext, the orchard keys and    *)
(* the remappers rely on; p4est itself is a library.                        *)
(***************************************************************************)
EXTENDS Integers, Sequences, SequencesExt

CONSTANTS Dim,        \* space dimension
          LevelMax    \* finest level allowed

(* The code instantiates 2 and 3.                                           *)
ASSUME QuadAssumption == Dim \in {2, 3} /\ LevelMax \in Nat

NB_CHILDREN == 2 ^ Dim
ChildIds    == 0 .. NB_CHILDREN - 1
Dims        == 0 .. Dim - 1

QuadsAt(level) == [1 .. level -> ChildIds]
Quads == UNION {QuadsAt(level) : level \in 0 .. LevelMax}

level(q)        == Len(q)
father(q)       == SubSeq(q, 1, Len(q) - 1)
all_children(q) == [k \in 1 .. NB_CHILDREN |-> Append(q, k - 1)]
eldest_child(q) == Append(q, 0)

(* One quadrant contains the other.                                         *)
Overlap(a, b) == IsPrefix(a, b) \/ IsPrefix(b, a)

(* No quadrant of a sequence contains another.                              *)
Separate(s) == \A i, j \in DOMAIN s : i # j => ~ Overlap(s[i], s[j])

(* Morton order: where a and b part, a goes to the child of smaller number.  *)
Before(a, b) ==
    \E n \in 1 .. Len(a) : /\ n <= Len(b) /\ a[n] < b[n]
                          /\ \A i \in 1 .. n - 1 : a[i] = b[i]

InOrder(s) == \A i, j \in DOMAIN s : i < j => Before(s[i], s[j])

(* The leaves fill the tree.                                                *)
IsComplete(leaves) == \A q \in Quads : \E p \in leaves : Overlap(p, q)

(* The quadrants of a sequence are the children of one father, in order.    *)
IsFamily(s) ==
    /\ Len(s) = NB_CHILDREN
    /\ level(s[1]) > 0
    /\ s = all_children(father(s[1]))

----------------------------------------------------------------------------
(* Geometry: bit d of a child number is its side along direction d.          *)

Bit(c, d) == (c \div 2 ^ d) % 2

(* The powers of b up to the height of the tree.                            *)
Powers(b) == LET power[n \in 0 .. LevelMax] == IF n = 0 THEN 1 ELSE b * power[n - 1]
             IN  power

(* Length and volume of a quadrant by the levels below it, in units of the   *)
(* finest one.                                                              *)
Lengths == Powers(2)
Volumes == Powers(NB_CHILDREN)

Length(q) == Lengths[LevelMax - level(q)]
Volume(q) == Volumes[LevelMax - level(q)]

(* Lower corner.                                                            *)
Lower(q, d) ==
    FoldLeftDomain(LAMBDA acc, i : acc + Bit(q[i], d) * Lengths[LevelMax - i], 0, q)

(* The closed boxes touch: through a face, an edge or a corner.              *)
Adjacent(a, b) ==
    \A d \in Dims : /\ Lower(a, d) <= Lower(b, d) + Length(b)
                    /\ Lower(b, d) <= Lower(a, d) + Length(a)

Touching == [q \in Quads |-> {p \in Quads : Adjacent(p, q)}]

(* 2:1 balance across faces, edges and corners (CONNECT_FULL).               *)
IsBalanced(leaves) ==
    \A q \in leaves : \A p \in Touching[q] \cap leaves : level(p) <= level(q) + 1

(* The quadrants of the coarsest balanced refinement of a mesh that are not  *)
(* leaves of it, level by level from the finest: those of the mesh itself,   *)
(* and those that touch one that is split and half their size.               *)
Split(leaves) ==
    LET inner == UNION {{SubSeq(q, 1, n) : n \in 0 .. level(q) - 1} : q \in leaves}
        at[l \in 0 .. LevelMax] ==
            IF l = LevelMax THEN {}
            ELSE {p \in QuadsAt(l) : \/ p \in inner
                                     \/ Touching[p] \cap at[l + 1] # {}}
    IN  UNION {at[l] : l \in 0 .. LevelMax}

(* The leaves of the meshes that have at most n of them and no level below   *)
(* lowest: the root, refined at will.                                        *)
RefineAt(s, i) == SubSeq(s, 1, i - 1) \o all_children(s[i]) \o SubSeq(s, i + 1, Len(s))

Refinements(meshes, n) ==
    meshes \cup UNION {{RefineAt(s, i) : i \in {j \in DOMAIN s : level(s[j]) < LevelMax}} :
                          s \in {m \in meshes : Len(m) + NB_CHILDREN - 1 <= n}}

MeshesUpTo(n) ==
    FoldLeft(LAMBDA acc, i : Refinements(acc, n), {<< <<>> >>}, [i \in 1 .. n |-> i])
=============================================================================

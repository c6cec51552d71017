----------------------------- MODULE OrchardKey -----------------------------
(***************************************************************************)
(* Orchard keys (orchard_key_impl_2d.h, orchard_key_impl_3d.h): the name of  *)
(* an octant of the brick of trees, and how the keys of its family and of    *)
(* its neighbours are computed from it.  An octant outside of the domain has *)
(* the key of its periodic image, with a bit set for every direction in      *)
(* which it is outside.                                                      *)
(*                                                                         *)
(* A key is a record here: out, the directions in which it is outside;       *)
(* level; xyz, its lower corner in its tree, in units of the finest level;   *)
(* tree, the coordinates of its tree in the brick.  OrchardBits has the 64   *)
(* bits the program keeps.  Directions are 1 .. dim; a face is a number as   *)
(* in Face::face_t; a displacement has a component in -1 .. 1 for every      *)
(* direction; a brick is a record of its size and periodicity.               *)
(***************************************************************************)
EXTENDS Integers, Sequences, SequencesExt

DIM(key) == Len(key.tree)

MAX_LEVEL(dim)   == IF dim = 2 THEN 22 ELSE 14
NUM_LEVELS(dim)  == MAX_LEVEL(dim) + 1
ROOT_LENGTH(dim) == 2 ^ MAX_LEVEL(dim)
MAX_NB_TREES_PER_DIR(dim) == IF dim = 2 THEN 64 ELSE 32
LEVEL_BITWIDTH(dim) == IF dim = 2 THEN 6 ELSE 4

----------------------------------------------------------------------------
(* Faces                                                                    *)

Faces(dim)  == 0 .. 2 * dim - 1
Dir(face)   == face \div 2 + 1
Sign(face)  == IF face % 2 = 1 THEN 1 ELSE -1

Displacements(dim) == [1 .. dim -> -1 .. 1] \ {[i \in 1 .. dim |-> 0]}

(* Bit of a child number or of a corner, for one direction.                 *)
ChildSide(iChild, i) == (iChild \div 2 ^ (i - 1)) % 2

(* The faces of an edge or a corner: of different directions, in order.      *)
corner_to_faces(d, corner) == {2 * (i - 1) + ChildSide(corner, i) : i \in 1 .. d}

edge_to_faces(edge) ==
    LET lo == edge % 2  hi == (edge \div 2) % 2
    IN  CASE edge < 4 -> {0 + lo, 2 + hi}
          [] edge \in 4 .. 7 -> {2 + lo, 4 + hi}
          [] edge > 7 -> {0 + lo, 4 + hi}

(* The faces, edges (in three dimensions) and corners of an octant, as sets  *)
(* of faces, in the order of the code.                                      *)
Items(d) ==
    [f \in 1 .. 2 * d |-> {f - 1}]
    \o (IF d = 3 THEN [e \in 1 .. 12 |-> edge_to_faces(e - 1)] ELSE <<>>)
    \o [c \in 1 .. 2 ^ d |-> corner_to_faces(d, c - 1)]

(* The displacement across one, two or three faces of different directions. *)
face_to_displacement(dim, faces) ==
    [i \in 1 .. dim |->
        IF \E f \in faces : Dir(f) = i
        THEN Sign(CHOOSE f \in faces : Dir(f) = i)
        ELSE 0]

----------------------------------------------------------------------------
(* The octant and its family                                                *)

octantLength(key) == 2 ^ (MAX_LEVEL(DIM(key)) - key.level)
last_offset(key)  == ROOT_LENGTH(DIM(key)) - octantLength(key)

is_outside(key) == key.out # {}

(* Side of the octant in its father, for one direction.                     *)
Side(key, i) == (key.xyz[i] \div octantLength(key)) % 2

(* At level 0 the level wraps around in its bit field.                      *)
father(key) ==
    [key EXCEPT !.xyz   = [i \in DOMAIN @ |-> @[i] - Side(key, i) * octantLength(key)],
                !.level = (@ - 1) % 2 ^ LEVEL_BITWIDTH(DIM(key))]

child(key, iChild) ==
    [key EXCEPT
        !.xyz   = [i \in DOMAIN @ |-> @[i] + ChildSide(iChild, i) * (octantLength(key) \div 2)],
        !.level = @ + 1]

child_id(key) ==
    FoldLeftDomain(LAMBDA id, i : id + Side(key, i) * 2 ^ (i - 1), 0, key.xyz)

(* Of the finer neighbours across a face, an edge or a corner, the child     *)
(* number of the first one that touches the octant.                          *)
get_face_neighbor_smallest_child_id(face) ==
    IF face % 2 = 1 THEN 0 ELSE 2 ^ (face \div 2)

(* By the pair of directions of the edge; a pair out of order is an error.   *)
get_edge_neighbor_smallest_child_id(face0, face1) ==
    LET min0 == 1 - (face0 % 2)
        min1 == 1 - (face1 % 2)
    IN  CASE <<Dir(face0), Dir(face1)>> = <<1, 2>> -> min0 + 2 * min1
          [] <<Dir(face0), Dir(face1)>> = <<2, 3>> -> (min0 + 2 * min1) * 2
          [] <<Dir(face0), Dir(face1)>> = <<1, 3>> -> min0 + 4 * min1

get_corner_neighbor_smallest_child_id(face0, face1, face2) ==
    (1 - (face0 % 2)) + 2 * (1 - (face1 % 2)) + 4 * (1 - (face2 % 2))

----------------------------------------------------------------------------
(* Borders                                                                  *)

is_at_tree_border(key, face) ==
    key.xyz[Dir(face)] = IF Sign(face) = 1 THEN last_offset(key) ELSE 0

is_at_domain_border(key, face, brick) ==
    /\ key.tree[Dir(face)] = IF Sign(face) = 1 THEN brick.size[Dir(face)] - 1 ELSE 0
    /\ is_at_tree_border(key, face)

is_at_any_domain_border(key, brick) ==
    \E face \in Faces(DIM(key)) : is_at_domain_border(key, face, brick)

(* Component by component, the upper border last; the periodicity plays no   *)
(* role.                                                                    *)
get_outside_normal(key, brick) ==
    [i \in 1 .. DIM(key) |->
        CASE is_at_domain_border(key, 2 * i - 1, brick) -> 1
          [] ~ is_at_domain_border(key, 2 * i - 1, brick)
                /\ is_at_domain_border(key, 2 * i - 2, brick) -> -1
          [] OTHER -> 0]

----------------------------------------------------------------------------
(* Neighbours                                                               *)

LeavesTree(key, displ, i) ==
    \/ displ[i] = -1 /\ key.xyz[i] = 0
    \/ displ[i] = 1 /\ key.xyz[i] = last_offset(key)

LeavesBrick(key, displ, i, brick) ==
    /\ LeavesTree(key, displ, i)
    /\ key.tree[i] = IF displ[i] = 1 THEN brick.size[i] - 1 ELSE 0

(* Bug: the bit is set, not flipped, so that there is no way back inside.    *)
get_neighbor_key_same_level_SetsBit(key, displ, brick) ==
    [key EXCEPT
        !.xyz  = [i \in DOMAIN @ |->
                     (@[i] + displ[i] * octantLength(key)) % ROOT_LENGTH(DIM(key))],
        !.tree = [i \in DOMAIN @ |->
                     IF LeavesTree(key, displ, i) THEN (@[i] + displ[i]) % brick.size[i] ELSE @[i]],
        !.out  = @ \cup {i \in DOMAIN displ :
                     ~ brick.periodic[i] /\ LeavesBrick(key, displ, i, brick)}]

(* The octant of the same level next to this one, wrapped around the brick;  *)
(* a border that is not periodic flips the outside bit, on the way in too.   *)
get_neighbor_key_same_level(key, displ, brick) ==
    [key EXCEPT
        !.xyz  = [i \in DOMAIN @ |->
                     (@[i] + displ[i] * octantLength(key)) % ROOT_LENGTH(DIM(key))],
        !.tree = [i \in DOMAIN @ |->
                     IF LeavesTree(key, displ, i) THEN (@[i] + displ[i]) % brick.size[i] ELSE @[i]],
        !.out  = SymDiff(@, {i \in DOMAIN displ :
                     ~ brick.periodic[i] /\ LeavesBrick(key, displ, i, brick)})]
=============================================================================

--------------------------- MODULE ConformalStatus ---------------------------
(***************************************************************************)
(* The level of the neighbours of an octant, relative to its own, as found   *)
(* in the hash map (ComputeConformalStatus.h for faces,                      *)
(* ComputeConformalFullStatus.h for faces, edges and corners), and the words *)
(* it is kept in, two bits per neighbour (ConformalFaceStatus.h,            *)
(* ConformalFullStatus.h).                                                  *)
(***************************************************************************)
EXTENDS OrchardBits

NEIGHBOR_IS_AT_SAME_LEVEL == 0
NEIGHBOR_IS_FINER         == 1
NEIGHBOR_IS_COARSER       == 2
NEIGHBOR_IS_UNAVAILABLE   == 3

(* m_amr_hashmap.find(key), then valid_at.                                   *)
valid(map, key) == key \in DOMAIN map

get_direction(faces, d) == face_to_displacement(d, faces)

(* Bug: the finer level is looked for with the child on the far side.        *)
Status_FarChild(map, key_neigh_same_level, smallest) ==
    LET far == 2 ^ DIM(key_neigh_same_level) - 1 - smallest
    IN  CASE valid(map, key_neigh_same_level) -> NEIGHBOR_IS_AT_SAME_LEVEL
          [] ~ valid(map, key_neigh_same_level) /\ valid(map, father(key_neigh_same_level)) ->
                NEIGHBOR_IS_COARSER
          [] ~ valid(map, key_neigh_same_level) /\ ~ valid(map, father(key_neigh_same_level))
                /\ valid(map, child(key_neigh_same_level, far)) -> NEIGHBOR_IS_FINER
          [] OTHER -> NEIGHBOR_IS_UNAVAILABLE

(* The neighbour at the same level, else its father, else the child of it    *)
(* that touches the octant first.                                           *)
Status(map, key_neigh_same_level, smallest) ==
    CASE valid(map, key_neigh_same_level) -> NEIGHBOR_IS_AT_SAME_LEVEL
      [] ~ valid(map, key_neigh_same_level) /\ valid(map, father(key_neigh_same_level)) ->
            NEIGHBOR_IS_COARSER
      [] ~ valid(map, key_neigh_same_level) /\ ~ valid(map, father(key_neigh_same_level))
            /\ valid(map, child(key_neigh_same_level, smallest)) -> NEIGHBOR_IS_FINER
      [] OTHER -> NEIGHBOR_IS_UNAVAILABLE

NeighborKey(key, faces, brick) ==
    get_neighbor_key_same_level(key, get_direction(faces, DIM(key)), brick)

face_status(map, key, brick, face) ==
    Status(map, NeighborKey(key, {face}, brick), get_face_neighbor_smallest_child_id(face))

edge_status(map, key, brick, face0, face1) ==
    Status(map, NeighborKey(key, {face0, face1}, brick),
           get_edge_neighbor_smallest_child_id(face0, face1))

corner_status(map, key, brick, face0, face1, face2) ==
    Status(map, NeighborKey(key, {face0, face1, face2}, brick),
           get_corner_neighbor_smallest_child_id(face0, face1, face2))

(* By the number of faces that meet in the item.                            *)
ItemStatus(map, key, brick, faces) ==
    LET f == SetToSortSeq(faces, <)
    IN  CASE Len(f) = 1 -> face_status(map, key, brick, f[1])
          [] Len(f) = 2 -> edge_status(map, key, brick, f[1], f[2])
          [] Len(f) = 3 -> corner_status(map, key, brick, f[1], f[2], f[3])

(* The words: the fields of the faces, then of the edges, then of the        *)
(* corners.                                                                 *)
StatusField(n) == Field(2 * (n - 1), 2)

set_status(word, n, status) == setField(word, StatusField(n), ToBits(status))
get_status(word, n)         == ToNumber(getField(word, StatusField(n)))

conformal_face_status(map, key, brick) ==
    FoldLeft(LAMBDA w, f : set_status(w, f, face_status(map, key, brick, f - 1)), {},
             [f \in 1 .. 2 * DIM(key) |-> f])

conformal_full_status(map, key, brick) ==
    FoldLeftDomain(LAMBDA w, n : set_status(w, n, ItemStatus(map, key, brick, Items(DIM(key))[n])),
                   {}, Items(DIM(key)))
=============================================================================

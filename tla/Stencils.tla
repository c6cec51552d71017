------------------------------ MODULE Stencils ------------------------------
(***************************************************************************)
(* StencilHelper: from a cell, a face or an edge of the block of a leaf to    *)
(* the one next to it, in the block itself or in that of a neighbour of the   *)
(* same, a coarser or a finer level, found in the hash map; and the cells or  *)
(* faces whose values stand for it (NeighborCellsAcrossFace.h,               *)
(* ComputeRefineFlags::getNeighborDataSameLevel).                            *)
(*                                                                         *)
(* A location is a record: ijk, counted from 0 in the block; the key of the   *)
(* leaf and its index iOct; is_outside_domain.  That of a face or an edge has *)
(* a direction as well, 1 .. 3, and that of an edge is_valid.  A helper has   *)
(* the hash map, the sizes b of the blocks and the brick.  A shift is a      *)
(* number of cells in every direction.  Values are not modelled: an average   *)
(* is the set of locations it is taken over.                                 *)
(***************************************************************************)
EXTENDS ConformalStatus

UnitShift(d, dir, sign) == [i \in 1 .. d |-> IF i = dir THEN sign ELSE 0]

IsZero(shift) == \A i \in DOMAIN shift : shift[i] = 0

ScalarProduct(u, v) == FoldLeftDomain(LAMBDA s, i : s + u[i] * v[i], 0, u)

----------------------------------------------------------------------------
(* Looking up the neighbour                                                 *)

Location(h, loc, ijk, key, outside) ==
    [loc EXCEPT !.ijk = ijk, !.key = key, !.iOct = h.map[key], !.is_outside_domain = outside]

(* On which side of the block the coordinates are.                          *)
BlockDirection(ijk, sizes) ==
    [i \in DOMAIN ijk |-> CASE ijk[i] < 0 -> -1
                            [] ijk[i] >= sizes[i] -> 1
                            [] OTHER -> 0]

(* The octant next to the block touches the border and the shift has a       *)
(* component along the outside normal, which does not know what is periodic. *)
LeavesDomain(h, key, shift) ==
    /\ is_at_any_domain_border(key, h.brick)
    /\ ScalarProduct(get_outside_normal(key, h.brick), shift) > 0

(* Bug: the position of the block in its father is forgotten.                *)
CoarseCoords_NoChild(ijk, same, sizes) == [i \in DOMAIN ijk |-> ijk[i] \div 2]

CoarseCoords(ijk, same, sizes) ==
    [i \in DOMAIN ijk |-> (ijk[i] + Side(same, i) * sizes[i]) \div 2]

InUpperHalf(ijk, b, i) == 2 * ijk[i] >= b[i]

FineChild(ijk, b) ==
    FoldLeftDomain(LAMBDA id, i : id + IF InUpperHalf(ijk, b, i) THEN 2 ^ (i - 1) ELSE 0, 0, ijk)

FineCoords(ijk, b) ==
    [i \in DOMAIN ijk |-> 2 * ijk[i] - IF InUpperHalf(ijk, b, i) THEN b[i] ELSE 0]

(* The same steps for cells and faces; sizes counts the cells, or the faces,  *)
(* of the block.  With no neighbour in the map, the location itself.         *)
NeighLoc(h, loc, shift, sizes) ==
    LET ijk    == [i \in DOMAIN shift |-> loc.ijk[i] + shift[i]]
        dir    == BlockDirection(ijk, sizes)
        next   == [i \in DOMAIN shift |-> ijk[i] - h.b[i] * dir[i]]
        same   == get_neighbor_key_same_level(loc.key, dir, h.brick)
        id     == FineChild(next, h.b)
        status == Status(h.map, same, id)
    IN  CASE IsZero(dir) -> [loc EXCEPT !.ijk = ijk]
          [] ~ IsZero(dir) /\ status = NEIGHBOR_IS_AT_SAME_LEVEL ->
                Location(h, loc, next, same, LeavesDomain(h, loc.key, shift))
          [] ~ IsZero(dir) /\ status = NEIGHBOR_IS_COARSER ->
                Location(h, loc, CoarseCoords(next, same, sizes), father(same), FALSE)
          [] ~ IsZero(dir) /\ status = NEIGHBOR_IS_FINER ->
                Location(h, loc, FineCoords(next, h.b), child(same, id), FALSE)
          [] OTHER -> loc

face_block_sizes(b, dir) == [i \in DOMAIN b |-> IF i = dir THEN b[i] + 1 ELSE b[i]]

getNeighLoc(h, cell_loc, shift)      == NeighLoc(h, cell_loc, shift, h.b)
getNeighLoc_face(h, face_loc, shift) ==
    NeighLoc(h, face_loc, shift, face_block_sizes(h.b, face_loc.dir))

(* The caller knows that the neighbour is finer.  The eldest of the cells    *)
(* that take the place of the neighbour at the same level.                   *)
getNeighLocFiner(h, cell_loc, shift) ==
    LET ijk  == [i \in DOMAIN shift |-> cell_loc.ijk[i] + shift[i]]
        dir  == BlockDirection(ijk, h.b)
        next == [i \in DOMAIN shift |-> ijk[i] - h.b[i] * dir[i]]
        same == get_neighbor_key_same_level(cell_loc.key, dir, h.brick)
    IN  Location(h, cell_loc, FineCoords(next, h.b), child(same, FineChild(next, h.b)), FALSE)

(* Bug: moved away from the cell, not towards it.                            *)
getNeighLocFinerNearer_Away(h, cell_loc, shift) ==
    [getNeighLocFiner(h, cell_loc, shift) EXCEPT
        !.ijk = [i \in DOMAIN @ |-> IF shift[i] > 0 THEN @[i] + 1 ELSE @[i]]]

(* Of these cells, the one that touches the cell.                            *)
getNeighLocFinerNearer(h, cell_loc, shift) ==
    [getNeighLocFiner(h, cell_loc, shift) EXCEPT
        !.ijk = [i \in DOMAIN @ |-> IF shift[i] < 0 THEN @[i] + 1 ELSE @[i]]]

(* The caller knows that the neighbour is coarser.                           *)
getNeighLocCoarser(h, cell_loc, shift) ==
    LET ijk  == [i \in DOMAIN shift |-> cell_loc.ijk[i] + shift[i]]
        dir  == BlockDirection(ijk, h.b)
        next == [i \in DOMAIN shift |-> ijk[i] - h.b[i] * dir[i]]
        same == get_neighbor_key_same_level(cell_loc.key, dir, h.brick)
    IN  Location(h, cell_loc, CoarseCoords(next, same, h.b), father(same), FALSE)

----------------------------------------------------------------------------
(* What is read there                                                       *)

level_of(loc) == loc.key.level

Even(ijk) == [i \in DOMAIN ijk |-> (ijk[i] \div 2) * 2]

(* compute_siblings_average: a cell and its siblings.                        *)
siblings(loc) ==
    {[loc EXCEPT !.ijk = [i \in DOMAIN @ |-> Even(@)[i] + ChildSide(id, i)]] :
        id \in 0 .. 2 ^ Len(loc.ijk) - 1}

(* getNeighborDataSameLevel: the value at a shift, in cells of this level; a  *)
(* cell beyond the border has the value of the cell itself.                  *)
getNeighborDataSameLevel(h, cell_loc, shift) ==
    LET neigh == getNeighLoc(h, cell_loc, shift)
    IN  CASE neigh.is_outside_domain -> {cell_loc}
          [] ~ neigh.is_outside_domain /\ level_of(neigh) = level_of(cell_loc) + 1 -> siblings(neigh)
          [] OTHER -> {neigh}

swapBits(n, p1, p2) ==
    LET bit(p) == (n \div 2 ^ p) % 2
    IN  n + (bit(p2) - bit(p1)) * 2 ^ p1 + (bit(p1) - bit(p2)) * 2 ^ p2

(* The siblings of a cell on its side of direction dir, in Morton order.      *)
get_finer_sibling_cell_loc(loc, dir, i_sibling) ==
    LET ii == swapBits(i_sibling, Len(loc.ijk) - 1, dir - 1)
              + IF loc.ijk[dir] % 2 = 1 THEN 2 ^ (dir - 1) ELSE 0
    IN  [loc EXCEPT !.ijk = [i \in DOMAIN @ |-> Even(@)[i] + ChildSide(ii, i)]]

(* The locations the functor is called with, in this order.                  *)
for_each_neighbor_cell_across_face(h, cell_loc, status, face) ==
    LET d     == Len(h.b)
        shift == UnitShift(d, Dir(face), Sign(face))
    IN  IF status = NEIGHBOR_IS_FINER
        THEN [k \in 1 .. 2 ^ (d - 1) |->
                get_finer_sibling_cell_loc(getNeighLocFinerNearer(h, cell_loc, shift), Dir(face), k - 1)]
        ELSE <<getNeighLoc(h, cell_loc, shift)>>

----------------------------------------------------------------------------
(* Faces and edges on the border of a block                                 *)

(* face_to_cell_coords, edge_to_cell_coords: the last face or edge belongs to *)
(* the last cell.                                                           *)
to_cell_coords(ijk, b) == [i \in DOMAIN ijk |-> IF ijk[i] = b[i] THEN ijk[i] - 1 ELSE ijk[i]]

cell_location(h, loc) ==
    [ijk |-> to_cell_coords(loc.ijk, h.b), key |-> loc.key, iOct |-> loc.iOct,
     is_outside_domain |-> loc.is_outside_domain]

(* A face or an edge with the place of a cell.                               *)
PlaceOf(loc, cell, ijk) ==
    [loc EXCEPT !.ijk = ijk, !.key = cell.key, !.iOct = cell.iOct,
                !.is_outside_domain = cell.is_outside_domain]

is_face_location_at_block_border(h, face_loc) ==
    face_loc.ijk[face_loc.dir] \in {0, h.b[face_loc.dir]}

(* The face as seen from the other side.                                    *)
getBorderFaceLocSymmetric(h, face_loc) ==
    LET dir   == face_loc.dir
        lower == face_loc.ijk[dir] = 0
        cell  == getNeighLoc(h, cell_location(h, face_loc),
                             UnitShift(Len(h.b), dir, IF lower THEN -1 ELSE 1))
    IN  IF is_face_location_at_block_border(h, face_loc)
        THEN PlaceOf(face_loc, cell, [cell.ijk EXCEPT ![dir] = IF lower THEN h.b[dir] ELSE 0])
        ELSE face_loc

(* The directions across an edge, in order.                                  *)
Across(loc) == {i \in DOMAIN loc.ijk : i # loc.dir}

Ascending(dirs) == <<Min(dirs), Max(dirs)>>

is_edge_location_at_domain_border(h, edge_loc) ==
    \E face \in Faces(Len(h.b)) :
        /\ is_at_domain_border(edge_loc.key, face, h.brick)
        /\ Dir(face) # edge_loc.dir
        /\ edge_loc.ijk[Dir(face)] = IF Sign(face) = 1 THEN h.b[Dir(face)] ELSE 0

EdgeNormalType == {"DIR1", "DIR2", "DIAGONAL"}

(* The directions an edge is left in: the first or the second one across it, *)
(* counted on from its own, or both.                                        *)
EdgeNormals(edge_loc, edge_normal_type) ==
    CASE edge_normal_type = "DIR1" -> {(edge_loc.dir % 3) + 1}
      [] edge_normal_type = "DIR2" -> {((edge_loc.dir + 1) % 3) + 1}
      [] edge_normal_type = "DIAGONAL" -> Across(edge_loc)

(* Across the block borders the edge is on in these directions.              *)
get_edge_outside_unit_vector(h, edge_loc, edge_normal_type) ==
    [i \in DOMAIN edge_loc.ijk |->
        CASE i \in EdgeNormals(edge_loc, edge_normal_type) /\ edge_loc.ijk[i] = 0 -> -1
          [] i \in EdgeNormals(edge_loc, edge_normal_type) /\ edge_loc.ijk[i] = h.b[i] -> 1
          [] OTHER -> 0]

(* Nothing is returned across to a coarser level.  The last edge belongs to   *)
(* the last cell: it stays the last one in a direction it is not left in.    *)
getBorderEdgeLocSymmetric(h, edge_loc, edge_normal_type) ==
    LET shift == get_edge_outside_unit_vector(h, edge_loc, edge_normal_type)
        cell  == getNeighLoc(h, cell_location(h, edge_loc), shift)
        along == Across(edge_loc) \ EdgeNormals(edge_loc, edge_normal_type)
        ijk   == [i \in DOMAIN shift |->
                    CASE shift[i] < 0 \/ (i \in along /\ edge_loc.ijk[i] = h.b[i]) -> h.b[i]
                      [] shift[i] > 0 -> 0
                      [] OTHER -> cell.ijk[i]]
    IN  IF level_of(cell) < level_of(edge_loc) THEN edge_loc
        ELSE [PlaceOf(edge_loc, cell, ijk) EXCEPT !.is_valid = TRUE]

(* EDGE_00, EDGE_01, EDGE_10, EDGE_11: the place of the edge in its cell.     *)
get_CellEdgeLocation(h, edge_loc) ==
    LET d == Ascending(Across(edge_loc))
    IN  (IF edge_loc.ijk[d[1]] = h.b[d[1]] THEN 1 ELSE 0)
        + (IF edge_loc.ijk[d[2]] = h.b[d[2]] THEN 2 ELSE 0)

INDEX_TO_SHIFT == <<0, 1, 3, 1, 2, 5, 3, 6, 7, 5, 7, 8>>

(* The nth of the three other cells that share the edge.                     *)
edge_neighbor_shift(h, edge_loc, nth_shift) ==
    LET d     == Ascending(Across(edge_loc))
        index == INDEX_TO_SHIFT[3 * get_CellEdgeLocation(h, edge_loc) + nth_shift + 1]
    IN  [i \in DOMAIN edge_loc.ijk |-> CASE i = d[1] -> (index % 3) - 1
                                         [] i = d[2] -> (index \div 3) - 1
                                         [] OTHER -> 0]

(* The edge is on the far side of the cell in direction i: by one cell, by    *)
(* two if the cells are finer.                                              *)
FarSide(h, edge_loc, shift, i) == shift[i] < 0 \/ (shift[i] = 0 /\ edge_loc.ijk[i] = h.b[i])

(* A hanging edge, in the middle of a face of the coarser neighbour.          *)
Hanging(h, edge_loc) ==
    LET d == Ascending(Across(edge_loc))
        at(i, j) == edge_loc.ijk[i] \in {0, h.b[i]} /\ edge_loc.ijk[j] % 2 = 1
    IN  at(d[1], d[2]) \/ at(d[2], d[1])

(* Bug: one cell on the far side, whatever the level.                        *)
getEdgeSiblingLoc_ByOne(h, edge_loc, nth_shift) ==
    LET shift == edge_neighbor_shift(h, edge_loc, nth_shift)
        cell  == getNeighLoc(h, cell_location(h, edge_loc), shift)
        ijk   == [i \in DOMAIN shift |->
                    cell.ijk[i] + IF i # edge_loc.dir /\ FarSide(h, edge_loc, shift, i) THEN 1 ELSE 0]
        valid_edge == ~ (level_of(cell) < level_of(edge_loc) /\ Hanging(h, edge_loc))
    IN  IF cell.iOct = edge_loc.iOct THEN edge_loc
        ELSE [PlaceOf(edge_loc, cell, ijk) EXCEPT !.is_valid = valid_edge]

(* The edge as seen from one of the other cells that share it.               *)
getEdgeSiblingLoc(h, edge_loc, nth_shift) ==
    LET shift == edge_neighbor_shift(h, edge_loc, nth_shift)
        cell  == getNeighLoc(h, cell_location(h, edge_loc), shift)
        by    == IF level_of(cell) <= level_of(edge_loc) THEN 1 ELSE 2
        ijk   == [i \in DOMAIN shift |->
                    cell.ijk[i] + IF i # edge_loc.dir /\ FarSide(h, edge_loc, shift, i) THEN by ELSE 0]
        valid_edge == ~ (level_of(cell) < level_of(edge_loc) /\ Hanging(h, edge_loc))
    IN  IF cell.iOct = edge_loc.iOct THEN edge_loc
        ELSE [PlaceOf(edge_loc, cell, ijk) EXCEPT !.is_valid = valid_edge]
=============================================================================

---------------------------- MODULE MeshStencils ----------------------------
(***************************************************************************)
(* What a kernel reads around a leaf once its rank has rebuilt: the          *)
(* navigation of Stencils on the hash map and the keys of MeshMap, against   *)
(* the place of cells, faces and edges in space.                             *)
(***************************************************************************)
EXTENDS MeshMap, Stencils, TLC

CONSTANT BlockSize      \* cells of a block in every direction, by the size of the brick

ASSUME MeshStencilsAssumption ==
    \A brick \in DOMAIN Meshes : \A i \in DOMAIN brick.size :
        BlockSize[brick.size][i] > 0 /\ BlockSize[brick.size][i] % 2 = 0

block == BlockSize[domain.size]

Helper(r) == [map |-> m_amr_hashmap[r], b |-> block, brick |-> domain]

----------------------------------------------------------------------------
(* Places.  Lengths are in units of the finest level, times the size of the  *)
(* block in that direction, so that cells have whole coordinates; places are *)
(* taken around the brick.                                                  *)

(* The cell whose lower corner is ijk cells from that of the block.          *)
CellBox(key, ijk) ==
    [lower |-> [i \in 1 .. dim |-> block[i] * (key.tree[i] * ROOT_LENGTH(dim) + key.xyz[i])
                                   + ijk[i] * octantLength(key)],
     length |-> octantLength(key)]

BoxAt(loc) == CellBox(loc.key, loc.ijk)

Around(x, i) == x % (Extent(domain, i) * block[i])

Apart(c, e, i) == Around(c.lower[i] - e.lower[i], i)

(* The extent of c in a direction is part of that of e.                      *)
WithinAlong(c, e, i) == Apart(c, e, i) + c.length <= e.length

Within(c, e)    == \A i \in 1 .. dim : WithinAlong(c, e, i)
SamePlace(c, e) == Within(c, e) /\ c.length = e.length

(* The cells of a set are all those that e consists of, of half its size.    *)
Fill(boxes, e) ==
    /\ \A c \in boxes : Within(c, e) /\ 2 * c.length = e.length
    /\ Cardinality({[i \in 1 .. dim |-> Apart(c, e, i)] : c \in boxes}) = 2 ^ dim

Cells == {ijk \in [1 .. dim -> 0 .. Max(ToSet(block)) - 1] : \A i \in 1 .. dim : ijk[i] < block[i]}

(* The shifts of a stencil: to the next cells, and along the axes by half a   *)
(* block, the furthest the ghost layer allows, since beyond that a finer      *)
(* neighbour need not be a ghost.                                            *)
Shifts ==
    Displacements(dim)
    \cup {UnitShift(dim, i, s * (block[i] \div 2)) : i \in 1 .. dim, s \in {-1, 1}}

(* The borders that a shift from ijk crosses, as faces, in a block with so   *)
(* many cells, or faces.                                                     *)
Crossed(ijk, shift, sizes) ==
    {f \in Faces(dim) : LET x == ijk[Dir(f)] + shift[Dir(f)]
                        IN  IF Sign(f) = 1 THEN x >= sizes[Dir(f)] ELSE x < 0}

LocationIn(r, i, ijk) ==
    [ijk |-> ijk, key |-> m_orchard_keys[r][i], iOct |-> i - 1, is_outside_domain |-> FALSE]

Owned(r) == 1 .. m_amr_mesh_info[r].quadrants

(* A location names a leaf twice, by its key and by its index.               *)
Consistent(r, loc) == m_orchard_keys[r][loc.iOct + 1] = loc.key

----------------------------------------------------------------------------
(* Properties                                                               *)

(* getNeighLoc from any cell of an owned leaf, by any shift: the location     *)
(* found is the cell at that place, or the coarser one around it, or, with    *)
(* its siblings, the finer ones it consists of; beyond a border that is not   *)
(* periodic it belongs to an outside octant, elsewhere to none.  Callers that *)
(* know the level of the neighbour find the same location.                   *)
StencilReadsNeighbour ==
    Rebuilt =>
        \A r \in Ranks : \A o \in Owned(r) : \A ijk \in Cells : \A shift \in Shifts :
            LET loc    == LocationIn(r, o, ijk)
                neigh  == getNeighLoc(Helper(r), loc, shift)
                target == CellBox(loc.key, [i \in 1 .. dim |-> ijk[i] + shift[i]])
                out    == {Dir(f) : f \in {g \in Crossed(ijk, shift, block) :
                             is_at_domain_border(loc.key, g, domain) /\ ~ domain.periodic[Dir(g)]}}
            IN  ~ Ambiguous(loc.key, Crossed(ijk, shift, block)) =>
                    /\ Consistent(r, neigh)
                    /\ neigh.key.out = out
                    /\ CASE level_of(neigh) = level_of(loc) -> SamePlace(BoxAt(neigh), target)
                         [] level_of(neigh) < level_of(loc) ->
                               /\ Within(target, BoxAt(neigh))
                               /\ neigh = getNeighLocCoarser(Helper(r), loc, shift)
                         [] OTHER ->
                               /\ Fill({BoxAt(s) : s \in getNeighborDataSameLevel(Helper(r), loc, shift)}, target)
                               /\ neigh = getNeighLocFiner(Helper(r), loc, shift)

(* "if shift points to a cell outside domain (and p4est brick connectivity is *)
(* non-periodic) then return the periodic cell location inside domain and set *)
(* is_outside_domain to true" (StencilHelper.h:273): a location next to a     *)
(* cell, across a face, is flagged exactly when it is in an outside octant.   *)
OutsideFlagged ==
    Rebuilt =>
        \A r \in Ranks : \A o \in Owned(r) : \A ijk \in Cells : \A f \in Faces(dim) :
            LET neigh == getNeighLoc(Helper(r), LocationIn(r, o, ijk),
                                     UnitShift(dim, Dir(f), Sign(f)))
            IN  neigh.is_outside_domain <=> is_outside(neigh.key)

(* for_each_neighbor_cell_across_face from a cell on the border of its block, *)
(* with the status kept for that face: the functor is called once with every  *)
(* cell on the other side that touches the face, and with no other.          *)
AcrossFaceTouches ==
    Rebuilt =>
        \A r \in Ranks : \A o \in Owned(r) : \A ijk \in Cells : \A f \in Faces(dim) :
            LET loc    == LocationIn(r, o, ijk)
                shift  == UnitShift(dim, Dir(f), Sign(f))
                status == get_status(m_conformal_status_view[r][o], f + 1)
                locs   == for_each_neighbor_cell_across_face(Helper(r), loc, status, f)
                target == CellBox(loc.key, [i \in 1 .. dim |-> ijk[i] + shift[i]])
                apart  == IF Sign(f) = 1 THEN 0 ELSE target.length \div 2
            IN  Crossed(ijk, shift, block) # {} /\ status = NEIGHBOR_IS_FINER =>
                    /\ \A k \in DOMAIN locs : /\ Consistent(r, locs[k])
                                              /\ Within(BoxAt(locs[k]), target)
                                              /\ Apart(BoxAt(locs[k]), target, Dir(f)) = apart
                    /\ Cardinality({BoxAt(locs[k]) : k \in DOMAIN locs}) = 2 ^ (dim - 1)

(* Two faces, or two edges, that meet: they agree across the directions       *)
(* normals, and along the others the finer one is part of the other.         *)
Meeting(a, c, normals) ==
    /\ \A i \in normals : Apart(BoxAt(a), BoxAt(c), i) = 0
    /\ \A i \in 1 .. dim \ normals :
          IF level_of(a) >= level_of(c) THEN WithinAlong(BoxAt(a), BoxAt(c), i)
          ELSE WithinAlong(BoxAt(c), BoxAt(a), i)

FaceLocations(r, o) ==
    {LocationIn(r, o, ijk) @@ [dir |-> d] :
        d \in 1 .. dim, ijk \in [1 .. dim -> 0 .. Max(ToSet(block))]}

EdgeLocations(r, o) ==
    {LocationIn(r, o, ijk) @@ [dir |-> d, is_valid |-> TRUE] :
        d \in IF dim = 2 THEN {3} ELSE 1 .. 3, ijk \in [1 .. dim -> 0 .. Max(ToSet(block))]}

(* The last face, or edge, is one more than the cells.                       *)
FacesOf(r, o) == {f \in FaceLocations(r, o) :
    \A i \in 1 .. dim : f.ijk[i] < block[i] + (IF i = f.dir THEN 1 ELSE 0)}
EdgesOf(r, o) == {e \in EdgeLocations(r, o) :
    \A i \in 1 .. dim : e.ijk[i] < block[i] + (IF i = e.dir THEN 0 ELSE 1)}

(* A face of a coarser block may be half of a face away from the one that is  *)
(* asked for, where there is none.                                          *)
NearFace(neigh, target) ==
    \/ level_of(neigh) >= level_of(target) /\ Meeting(neigh, target, {target.dir})
    \/ /\ level_of(neigh) < level_of(target)
       /\ \A i \in 1 .. dim \ {target.dir} : WithinAlong(BoxAt(target), BoxAt(neigh), i)
       /\ \/ Apart(BoxAt(target), BoxAt(neigh), target.dir) <= BoxAt(target).length
          \/ Apart(BoxAt(neigh), BoxAt(target), target.dir) <= BoxAt(target).length

(* From a face on the border of the block, half a block is too far along its  *)
(* direction: that face is already taken from the next of the finer octants.  *)
FaceShifts(face) == {s \in Displacements(dim) : s[face.dir] # 0 => block[face.dir] > 2}

(* The face a shift leads to is at that place; the face seen from the block   *)
(* on its other side, and the edge seen from the blocks and the cells around  *)
(* it, are at the same place, unless they are said not to be valid: so are    *)
(* the fluxes and the electric fields that are corrected there.  Edges of the *)
(* border of the domain are not corrected.                                   *)
FacesAndEdgesMeet ==
    Rebuilt =>
        \A r \in Ranks : \A o \in Owned(r) :
            /\ \A face \in FacesOf(r, o) :
                  LET sym == getBorderFaceLocSymmetric(Helper(r), face)
                  IN  Consistent(r, sym) /\ Meeting(sym, face, {face.dir})
            /\ \A face \in FacesOf(r, o) : \A shift \in FaceShifts(face) :
                  LET sizes == face_block_sizes(block, face.dir)
                      neigh == getNeighLoc_face(Helper(r), face, shift)
                  IN  ~ Ambiguous(face.key, Crossed(face.ijk, shift, sizes)) =>
                          /\ Consistent(r, neigh)
                          /\ NearFace(neigh, [face EXCEPT !.ijk = [i \in 1 .. dim |-> @[i] + shift[i]]])
            /\ \A edge \in EdgesOf(r, o) :
                  ~ is_edge_location_at_domain_border(Helper(r), edge) =>
                      \A other \in {getBorderEdgeLocSymmetric(Helper(r), edge, n) : n \in EdgeNormalType}
                                   \cup {getEdgeSiblingLoc(Helper(r), edge, n) : n \in 0 .. 2} :
                          /\ Consistent(r, other)
                          /\ other.is_valid => Meeting(other, edge, Across(edge))
=============================================================================

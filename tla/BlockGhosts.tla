---------------------------- MODULE BlockGhosts ----------------------------
(***************************************************************************)
(* The ghost cells and faces of a block: layers of cells around it, with the  *)
(* values of the blocks next to it, copied from the same level, averaged      *)
(* from a finer one, interpolated from a coarser one                        *)
(* (FillBlockGhostCells.cpp, FillBlockGhostCells_v2.cpp,                    *)
(* FillBlockGhostFaces.cpp, FillBlockGhostFluxes.cpp), and the materials     *)
(* they may hold (MultiMatFillBlockGhostCells.h).                           *)
(*                                                                         *)
(* An index is out, counted from the first cell of the block itself, -1 and   *)
(* less in the ghosts.  A value is a record: terms, the locations averaged    *)
(* for every shift of a stencil around the coarse cell, with a shift of 0     *)
(* alone where nothing is interpolated; position, in which half of the coarse *)
(* cell.  Weights are not modelled, but for those of internal faces.         *)
(***************************************************************************)
EXTENDS Stencils

CONSTANT GhostWidth     \* layers of ghosts

ASSUME BlockGhostsAssumption == GhostWidth > 0 /\ GhostWidth % 2 = 0

ZeroShift(d) == [i \in 1 .. d |-> 0]

(* Division rounds towards zero; a remainder has the sign of what is divided. *)
Quotient(x, n)  == IF x < 0 THEN - ((- x) \div n) ELSE x \div n
Remainder(x, n) == x - n * Quotient(x, n)

Indices(sizes) ==
    {out \in [DOMAIN sizes -> - GhostWidth .. Max(ToSet(sizes)) + GhostWidth - 1] :
        \A i \in DOMAIN sizes : out[i] < sizes[i] + GhostWidth}

(* Indices in the block that the ghost is in, and the way there, as a shift.  *)
OutShift(h, out, sizes) ==
    [i \in DOMAIN out |-> h.b[i] * BlockDirection(out, sizes)[i]]
InnerCoords(h, out, sizes) == [i \in DOMAIN out |-> out[i] - OutShift(h, out, sizes)[i]]

(* From the same indices in the own block, a block further.                  *)
GhostLoc(h, loc, out, sizes) ==
    NeighLoc(h, [loc EXCEPT !.ijk = InnerCoords(h, out, sizes)], OutShift(h, out, sizes), sizes)

----------------------------------------------------------------------------
(* Cells                                                                    *)

Prolongations == {"SIMPLE_COPY", "EXTRAPOLATE_LINEAR_MINMOD",
                  "CONSERVATIVE_INTERPOLATION_ORDER_2", "CONSERVATIVE_INTERPOLATION_ORDER_4"}

(* Bug: the limit of the second order for the fourth as well.                *)
check_args_validity_Order2(b, prolongation) ==
    prolongation \in {"CONSERVATIVE_INTERPOLATION_ORDER_2", "CONSERVATIVE_INTERPOLATION_ORDER_4"} =>
        \A i \in DOMAIN b : b[i] >= IF i = 3 THEN 5 ELSE 4

(* The run is not aborted.                                                  *)
check_args_validity(b, prolongation) ==
    CASE prolongation = "CONSERVATIVE_INTERPOLATION_ORDER_2" ->
            \A i \in DOMAIN b : b[i] >= IF i = 3 THEN 5 ELSE 4
      [] prolongation = "CONSERVATIVE_INTERPOLATION_ORDER_4" -> \A i \in DOMAIN b : b[i] >= 6
      [] OTHER -> TRUE

Stencil(prolongation, d) ==
    CASE prolongation = "SIMPLE_COPY" -> {ZeroShift(d)}
      [] prolongation = "EXTRAPOLATE_LINEAR_MINMOD" ->
            {ZeroShift(d)} \cup {UnitShift(d, i, s) : i \in 1 .. d, s \in {-1, 1}}
      [] prolongation = "CONSERVATIVE_INTERPOLATION_ORDER_2" -> [1 .. d -> -1 .. 1]
      [] prolongation = "CONSERVATIVE_INTERPOLATION_ORDER_4" -> [1 .. d -> -2 .. 2]

(* In the lower half of the coarse cell if the remainder is 0, be it 1 or -1   *)
(* otherwise.                                                               *)
Position(out) == [i \in DOMAIN out |-> IF Remainder(out[i], 2) = 0 THEN 0 ELSE 1]

Value(out, locs) == [terms |-> [s \in {ZeroShift(Len(out))} |-> locs], position |-> Position(out)]

(* compute_minmod_slopes, compute_linear_combination: what is not at the      *)
(* level of the coarse cell is the average of the finer cells.               *)
Prolonged(h, coarse, out, prolongation) ==
    [terms |-> [s \in Stencil(prolongation, Len(out)) |->
                   LET neigh == getNeighLoc(h, coarse, s)
                   IN  IF level_of(neigh) = level_of(coarse) THEN {neigh} ELSE siblings(neigh)],
     position |-> Position(out)]

(* The value of a ghost cell of the block of loc.                            *)
fill_ghosts(h, loc, out, prolongation) ==
    LET neigh == GhostLoc(h, loc, out, h.b)
    IN  CASE level_of(neigh) = level_of(loc)     -> Value(out, {neigh})
          [] level_of(neigh) + 1 = level_of(loc) -> Prolonged(h, neigh, out, prolongation)
          [] level_of(neigh) = level_of(loc) + 1 -> Value(out, siblings(neigh))

(* The cells that the second version averages or copies, which looks up the   *)
(* keys itself; none if no neighbour is found.                               *)
fill_ghosts_v2(h, loc, out) ==
    LET in     == InnerCoords(h, out, h.b)
        same   == get_neighbor_key_same_level(loc.key, BlockDirection(out, h.b), h.brick)
        coarse == [i \in DOMAIN in |-> (in[i] + ChildSide(child_id(same), i) * h.b[i]) \div 2]
        fine   == child(same, FineChild(in, h.b))
        eldest == Location(h, loc, FineCoords(in, h.b), fine, FALSE)
    IN  CASE valid(h.map, same) -> {Location(h, loc, in, same, FALSE)}
          [] ~ valid(h.map, same) /\ valid(h.map, father(same)) ->
                {Location(h, loc, coarse, father(same), FALSE)}
          [] ~ valid(h.map, same) /\ ~ valid(h.map, father(same)) /\ valid(h.map, fine) ->
                {[eldest EXCEPT !.ijk = [i \in DOMAIN @ |-> @[i] + ChildSide(id, i)]] :
                    id \in 0 .. 2 ^ Len(out) - 1}
          [] OTHER -> {}

----------------------------------------------------------------------------
(* Materials                                                                *)

(* compute_face_neighbor_key_finer and its like for edges and corners: the    *)
(* children that touch the item, those on the other side of every face.      *)
finer_keys(key_neigh_same_level, faces, d) ==
    {child(key_neigh_same_level, id) :
        id \in {c \in 0 .. 2 ^ d - 1 : \A f \in faces : ChildSide(c, Dir(f)) = 1 - (f % 2)}}

(* Of these, the one that is looked up to tell whether they are there.        *)
first_of(keys) == CHOOSE k \in keys : \A l \in keys : child_id(k) <= child_id(l)

(* Bug: of the finer octants across a face or an edge only the first.        *)
get_mat_over_First(h, key, faces) ==
    LET d     == Len(h.b)
        same  == get_neighbor_key_same_level(key, face_to_displacement(d, faces), h.brick)
        finer == finer_keys(same, faces, d)
    IN  CASE valid(h.map, same) -> {same}
          [] ~ valid(h.map, same) /\ valid(h.map, father(same)) -> {father(same)}
          [] OTHER -> {first_of(finer)} \cap DOMAIN h.map

(* get_mat_over_face, get_mat_over_edge, get_mat_over_corner: the octants     *)
(* whose materials are added.                                               *)
get_mat_over(h, key, faces) ==
    LET d     == Len(h.b)
        same  == get_neighbor_key_same_level(key, face_to_displacement(d, faces), h.brick)
        finer == finer_keys(same, faces, d)
    IN  CASE valid(h.map, same) -> {same}
          [] ~ valid(h.map, same) /\ valid(h.map, father(same)) -> {father(same)}
          [] OTHER -> IF valid(h.map, first_of(finer)) THEN finer ELSE {}

(* The octants whose materials the ghosted block of the octant has room for.  *)
MatPresence(h, key) ==
    {key} \cup UNION {get_mat_over(h, key, Items(Len(h.b))[n]) : n \in DOMAIN Items(Len(h.b))}

----------------------------------------------------------------------------
(* Faces.  loc has the direction of the face; in two dimensions the faces of  *)
(* direction 3 are the cells.                                               *)

FaceSizes(h, loc) == face_block_sizes(h.b, loc.dir)

is_face_ambiguous(h, loc, out) == loc.dir \in DOMAIN out /\ out[loc.dir] \in {0, h.b[loc.dir]}

(* Face of a cell of the next coarser level, or inside of it.                *)
is_external_face(loc, out) == loc.dir \in DOMAIN out => out[loc.dir] % 2 = 0

(* Bug: the half of the coarse face is forgotten.                            *)
Symmetric_NoHalf(h, face_loc_neigh, out) == getBorderFaceLocSymmetric(h, face_loc_neigh)

(* The same face from the other side, the half of it that is asked for.      *)
Symmetric(h, face_loc_neigh, out) ==
    [getBorderFaceLocSymmetric(h, face_loc_neigh) EXCEPT
        !.ijk = [i \in DOMAIN @ |-> @[i] + IF i # face_loc_neigh.dir THEN out[i] % 2 ELSE 0]]

(* Where a coarser block was found, the block on the other side of the face   *)
(* has precedence if it is at the level of the own one.                      *)
CoarseFace(h, loc, out) ==
    LET neigh == GhostLoc(h, loc, out, FaceSizes(h, loc))
        other == getBorderFaceLocSymmetric(h, neigh)
    IN  IF is_face_ambiguous(h, loc, out) /\ level_of(other) = level_of(loc)
        THEN Symmetric(h, neigh, out)
        ELSE neigh

(* compute_face_siblings_average                                            *)
face_siblings(loc) ==
    {[loc EXCEPT !.ijk = [i \in DOMAIN @ |-> IF i = loc.dir THEN @[i] ELSE Even(@)[i] + s[i]]] :
        s \in {t \in [DOMAIN loc.ijk -> 0 .. 1] : loc.dir \in DOMAIN t => t[loc.dir] = 0}}

FaceStencil(loc, prolongation) ==
    LET d == Len(loc.ijk)
    IN  IF prolongation = "SIMPLE_COPY" \/ loc.dir > d THEN {ZeroShift(d)}
        ELSE {s \in Stencil("EXTRAPOLATE_LINEAR_MINMOD", d) : s[loc.dir] = 0}

(* linear_extrapolate_using_limited_slopes, with                            *)
(* compute_minmod_slopes_prolongation: twice the position less one is the     *)
(* weight of a slope, -3 for a position of -1.                              *)
ProlongedFace(h, coarse, out, prolongation) ==
    [terms |-> [s \in FaceStencil(coarse, prolongation) |->
                   LET neigh == getNeighLoc_face(h, coarse, s)
                   IN  IF level_of(neigh) <= level_of(coarse) THEN {neigh} ELSE face_siblings(neigh)],
     position |-> [i \in DOMAIN out |-> Remainder(out[i], 2)]]

(* The first of the two steps; faces inside of a coarser cell are left.       *)
fill_all_faces_but_internal(h, loc, out, prolongation) ==
    LET in    == InnerCoords(h, out, FaceSizes(h, loc))
        neigh == GhostLoc(h, loc, out, FaceSizes(h, loc))
    IN  CASE level_of(neigh) = level_of(loc) -> Value(out, {[neigh EXCEPT !.ijk = in]})
          [] level_of(neigh) + 1 = level_of(loc) /\ is_external_face(loc, out) ->
                ProlongedFace(h, CoarseFace(h, loc, out), out, prolongation)
          [] level_of(neigh) + 1 = level_of(loc) /\ ~ is_external_face(loc, out) -> Value(out, {})
          [] level_of(neigh) = level_of(loc) + 1 -> Value(out, face_siblings(neigh))

(* The second step, for these faces.                                        *)
fill_internal_faces_ghost(h, loc, out) ==
    /\ ~ IsZero(BlockDirection(out, FaceSizes(h, loc)))
    /\ level_of(GhostLoc(h, loc, out, FaceSizes(h, loc))) + 1 = level_of(loc)
    /\ ~ is_external_face(loc, out)

(* FillBlockGhostFluxesFunctor::check_args_validity: the run is not aborted.  *)
check_fluxes_validity(b, dir) == 2 * GhostWidth <= b[dir]

(* FillBlockGhostFluxesFunctor::fill_ghosts: at the border of the domain a     *)
(* flux of the block itself.                                                *)
ghost_flux(h, loc, out) ==
    LET in    == InnerCoords(h, out, FaceSizes(h, loc))
        neigh == GhostLoc(h, loc, out, FaceSizes(h, loc))
        wall  == neigh.is_outside_domain /\ ~ h.brick.periodic[loc.dir]
    IN  CASE level_of(neigh) = level_of(loc) /\ wall   -> Value(out, {[loc EXCEPT !.ijk = in]})
          [] level_of(neigh) = level_of(loc) /\ ~ wall -> Value(out, {neigh})
          [] level_of(neigh) + 1 = level_of(loc)       -> Value(out, {neigh})
          [] level_of(neigh) = level_of(loc) + 1       -> Value(out, face_siblings(neigh))

eldest_face(out) == [i \in DOMAIN out |-> Quotient(out[i], 2) * 2]

Product(s, dirs) == FoldSet(LAMBDA i, p : s[i] * p, 1, dirs)

Moved(ijk, n, by) == [i \in DOMAIN ijk |-> ijk[i] + IF i = n THEN by ELSE 0]

(* internal_faces_prolongation_by_toth_and_roe: the weight of the external    *)
(* face [dir, ijk] of the ghosted block in the value of the internal face of  *)
(* direction n at out, times 4 in two dimensions, 16 in three.  Sums over the *)
(* external faces of the cell of the next coarser level, by their signs in    *)
(* every direction; across the third direction the sum over both faces.      *)
ExternalFaces(d, n) == {[dir |-> m, sign |-> s] : m \in 1 .. d \ {n}, s \in [1 .. d -> {-1, 1}]}

ExternalIndex(e, out) ==
    [i \in DOMAIN out |-> eldest_face(out)[i] + IF i = e.dir THEN e.sign[i] + 1
                                                ELSE (e.sign[i] + 1) \div 2]

InternalWeight(n, out, face) ==
    LET d       == Len(out)
        third   == 1 .. d \ {n, face.dir}
        parity  == [i \in 1 .. d |-> 2 * (out[i] - eldest_face(out)[i]) - 1]
        weight(e) == IF d = 2 THEN e.sign[n] * e.sign[e.dir]
                     ELSE 2 * e.sign[n] * e.sign[e.dir]
                          + Product(e.sign, 1 .. d) * Product(parity, third)
    IN  IF face.dir = n
        THEN IF face.ijk \in {Moved(out, n, -1), Moved(out, n, 1)}
             THEN 2 ^ (2 * d - 3) ELSE 0
        ELSE MapThenSumSet(weight, {e \in ExternalFaces(d, n) :
                                       e.dir = face.dir /\ ExternalIndex(e, out) = face.ijk})
=============================================================================

-------------------------- MODULE MeshBlockGhosts --------------------------
(***************************************************************************)
(* The ghosts of the blocks of the owned leaves, filled when the ranks have   *)
(* rebuilt, from the hash map of MeshMap: what is read, against its place in  *)
(* space.                                                                   *)
(***************************************************************************)
EXTENDS MeshStencils, BlockGhosts

GhostCells  == Indices(block) \ Cells
GhostFaces(d) == {out \in Indices(face_block_sizes(block, d)) :
                     ~ IsZero(BlockDirection(out, face_block_sizes(block, d)))}

(* The borders of the block that a ghost is beyond.                          *)
Beyond(out, sizes) == Crossed(ZeroShift(dim), out, sizes)

(* A cell, or a face, some cells away from that of a location.               *)
Shifted(loc, s) == [loc EXCEPT !.ijk = [i \in 1 .. dim |-> @[i] + s[i]]]

(* The cell at that place, or all of half its size.                          *)
Stands(locs, place) ==
    \/ \E loc \in locs : locs = {loc} /\ SamePlace(BoxAt(loc), BoxAt(place))
    \/ Fill({BoxAt(loc) : loc \in locs}, BoxAt(place))

ConsistentTerms(r, value) ==
    \A s \in DOMAIN value.terms : \A loc \in value.terms[s] : Consistent(r, loc)

(* The key and the index are those of one leaf, whether or not it is outside. *)
Named(locs) == {<<n.key, n.ijk, n.iOct>> : n \in locs}

Accepted == {p \in Prolongations : check_args_validity(block, p)}

(* In the coarse cell, in the half that position says.                       *)
InHalf(target, coarse, position) ==
    \A i \in 1 .. dim : Apart(BoxAt(target), BoxAt(coarse), i) = position[i] * BoxAt(target).length

(* Every ghost cell, with every prolongation whose block is not refused, is   *)
(* filled from the cells at its place: the one of the same level, or all the  *)
(* finer ones it consists of, or the coarser one it is in, on its side of it, *)
(* with the cells around that one, none of them coarser than it, found in the *)
(* map although they are not next to the leaf itself.  Both versions of the   *)
(* kernel read the same cells.                                              *)
GhostCellsFilled ==
    Rebuilt =>
        \A r \in Ranks : \A o \in Owned(r) : \A out \in GhostCells :
            LET loc    == LocationIn(r, o, out)
                coarse == GhostLoc(Helper(r), loc, out, block)
                copied == fill_ghosts(Helper(r), loc, out, "SIMPLE_COPY")
                read   == copied.terms[ZeroShift(dim)]
                clear(s) == ~ Ambiguous(coarse.key, Crossed(coarse.ijk, s, block))
            IN  /\ Named(fill_ghosts_v2(Helper(r), loc, out)) = Named(read)
                /\ ~ Ambiguous(loc.key, Beyond(out, block)) =>
                    IF level_of(coarse) >= level_of(loc)
                    THEN ConsistentTerms(r, copied) /\ Stands(read, loc)
                    ELSE \A p \in Accepted :
                         LET v == fill_ghosts(Helper(r), loc, out, p)
                         IN  /\ ConsistentTerms(r, v)
                             /\ Within(BoxAt(loc), BoxAt(coarse))
                             /\ InHalf(loc, coarse, v.position)
                             /\ \A s \in DOMAIN v.terms :
                                   clear(s) => Stands(v.terms[s], Shifted(coarse, s))

(* The materials a ghosted block has room for are those of the octants that   *)
(* its ghost cells are copied or averaged from, and of the octants of the     *)
(* whole stencils.                                                          *)
MaterialsOfGhosts ==
    Rebuilt =>
        \A r \in Ranks : \A o \in Owned(r) :
            LET key     == m_orchard_keys[r][o]
                reads(p) == UNION {UNION {{n.key : n \in v.terms[s]} : s \in DOMAIN v.terms} :
                                v \in {fill_ghosts(Helper(r), LocationIn(r, o, out), out, p) :
                                          out \in GhostCells}}
            IN  /\ MatPresence(Helper(r), key) = {key} \cup reads("SIMPLE_COPY")
                /\ \A p \in Accepted : reads(p) \subseteq MatPresence(Helper(r), key)

(* As for cells, on the other directions; along its own the same plane.      *)
SameFace(locs, face) ==
    \E loc \in locs : /\ locs = {loc}
                      /\ level_of(loc) = level_of(face)
                      /\ Meeting(loc, face, {face.dir} \cap 1 .. dim)

FinerFaces(locs, face) ==
    /\ \A loc \in locs : level_of(loc) = level_of(face) + 1 /\ Meeting(loc, face, {face.dir} \cap 1 .. dim)
    /\ Cardinality({[i \in 1 .. dim |-> Apart(BoxAt(loc), BoxAt(face), i)] : loc \in locs})
          = 2 ^ Cardinality(1 .. dim \ {face.dir})

(* The cells on both sides of the face, where the ghosts have them.          *)
SidesOf(face) ==
    {Shifted(face, UnitShift(dim, face.dir, s)) : s \in IF face.dir \in 1 .. dim THEN {-1, 0} ELSE {0}}

LevelOfCell(r, loc) ==
    IF loc.ijk \in Cells THEN level_of(loc)
    ELSE level_of(GhostLoc(Helper(r), loc, loc.ijk, block))

(* Into an outside octant.                                                  *)
Leaving(r, loc, out) == is_outside(GhostLoc(Helper(r), loc, out, FaceSizes(Helper(r), loc)).key)

(* A face of a coarser cell that it is part of, where there is no face of the *)
(* same level on either side.                                               *)
CoarserFace(r, loc, face) ==
    /\ level_of(face) + 1 = level_of(loc)
    /\ Meeting(face, loc, {loc.dir} \cap 1 .. dim)
    /\ is_face_ambiguous(Helper(r), loc, loc.ijk) =>
          \A side \in SidesOf(loc) : LevelOfCell(r, side) < level_of(loc)

FaceIn(r, o, d, out) == LocationIn(r, o, out) @@ [dir |-> d]

(* The far face of a layer of half a block is one too far: beyond an upper    *)
(* border it is taken from the next finer octant, which need not be a ghost.  *)
TooFar(d, out) == d \in 1 .. dim /\ 2 * (out[d] - block[d]) >= block[d]

(* Fluxes have ghosts along their own direction only.                        *)
GhostFluxes(d) ==
    {out \in GhostFaces(d) : /\ d \in 1 .. dim /\ check_fluxes_validity(block, d)
                            /\ \A i \in 1 .. dim \ {d} : out[i] \in 0 .. block[i] - 1}

(* Every ghost face is filled from faces in its plane and at its place: of    *)
(* the same level, or all the finer ones it consists of; of a coarser block   *)
(* only where there is none of its own level on either side; and a face is    *)
(* left to the second step exactly if it is inside of a coarser cell.  Ghost  *)
(* fluxes are taken from the same faces,                                     *)
(* but for the border of the domain, where the block itself stands for the    *)
(* outside, and faces inside of a coarser cell, that have the next of its own. *)
GhostFacesFilled ==
    Rebuilt =>
        \A r \in Ranks : \A o \in Owned(r) : \A d \in 1 .. 3 : \A out \in GhostFaces(d) :
            LET loc  == FaceIn(r, o, d, out)
                v    == fill_all_faces_but_internal(Helper(r), loc, out, "SIMPLE_COPY")
                read == v.terms[ZeroShift(dim)]
                flux == ghost_flux(Helper(r), loc, out).terms[ZeroShift(dim)]
            IN  ~ TooFar(d, out) /\ ~ Ambiguous(loc.key, Beyond(out, FaceSizes(Helper(r), loc))) =>
                    /\ ConsistentTerms(r, v)
                    /\ read = {} <=> fill_internal_faces_ghost(Helper(r), loc, out)
                    /\ read # {} =>
                          \/ SameFace(read, loc)
                          \/ FinerFaces(read, loc)
                          \/ \A face \in read : CoarserFace(r, loc, face)
                    /\ out \in GhostFluxes(d) =>
                          \/ Named(flux) = Named(read)
                          \/ Leaving(r, loc, out) /\ \A face \in flux : face.iOct = loc.iOct
                          \/ read = {} /\ \A face \in flux : NearFace(face, loc)

(* "Prolongation internal faces is done using a divergence preserving         *)
(* algorithm" (FillBlockGhostFaces.h:48): whatever the values of the external *)
(* faces, the flux out of each of the finer cells is its share of the flux    *)
(* out of the coarse cell they are in.                                      *)
Scale == 4 ^ (dim - 1)

FaceWeight(n, ijk, face) ==
    IF ijk[n] % 2 # 0 THEN InternalWeight(n, ijk, face)
    ELSE IF face = [dir |-> n, ijk |-> ijk] THEN Scale ELSE 0

FluxWeight(cell, face) ==
    MapThenSumSet(LAMBDA n : FaceWeight(n, Moved(cell, n, 1), face)
                             - FaceWeight(n, cell, face), 1 .. dim)

Corners == [1 .. dim -> 0 .. 1]

Plus(ijk, s) == [i \in 1 .. dim |-> ijk[i] + s[i]]

DivergencePreserved ==
    Rebuilt =>
        \A r \in Ranks : \A o \in Owned(r) :
            \A eldest \in {out \in GhostCells : \A i \in 1 .. dim : out[i] % 2 = 0} :
            LET loc == LocationIn(r, o, eldest)
            IN  level_of(GhostLoc(Helper(r), loc, eldest, block)) < level_of(loc) =>
                    \A corner \in Corners : \A n \in 1 .. dim : \A f \in Corners :
                        LET face == [dir |-> n, ijk |-> Moved(Plus(eldest, f), n, f[n])]
                            sign == 2 * f[n] - 1
                        IN  FluxWeight(Plus(eldest, corner), face) = sign * (Scale \div 2 ^ dim)
=============================================================================

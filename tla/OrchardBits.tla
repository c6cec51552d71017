---------------------------- MODULE OrchardBits ----------------------------
(***************************************************************************)
(* The 64 bits of an orchard key (orchard_key_impl_2d.h, _3d.h): from the    *)
(* lowest, the outside bits, the level, the interleaved coordinates of the   *)
(* octant and those of its tree.  A word is the set of its bits that are     *)
(* set, so that a mask is an intersection, an exclusive or a symmetric       *)
(* difference, and a shift moves the elements; no width is lost.             *)
(***************************************************************************)
EXTENDS OrchardKey, FiniteSets, FiniteSetsExt

WordBits == 0 .. 63

ToBits(n)     == {b \in 0 .. 30 : (n \div 2 ^ b) % 2 = 1}
ToNumber(w)   == MapThenSumSet(LAMBDA b : 2 ^ b, w)

Shl(w, n) == {b + n : b \in w} \cap WordBits
Shr(w, n) == {b - n : b \in {c \in w : c >= n}}

getField(w, f)    == Shr(w, f.pos) \cap 0 .. f.width - 1
setField(w, f, v) == LET range == f.pos .. f.pos + f.width - 1
                     IN  (w \ range) \cup (Shl(v, f.pos) \cap range)

(* The unsigned comparison of two words.                                    *)
WordLess(v, w) == v # w /\ Max(SymDiff(v, w)) \in w

----------------------------------------------------------------------------
(* Layout                                                                   *)

Field(pos, width) == [pos |-> pos, width |-> width]

Layout2D == [outside |-> Field(0, 2), level |-> Field(2, 6), octant |-> Field(8, 44),
             tree |-> Field(52, 12)]
Layout3D == [outside |-> Field(0, 3), level |-> Field(3, 4), octant |-> Field(7, 42),
             tree |-> Field(49, 15)]

Layout(dim) == IF dim = 2 THEN Layout2D ELSE Layout3D

----------------------------------------------------------------------------
(* Interleaving: a first mask, then steps that shift and mask.  Repeat(p, n, *)
(* last) is the mask of the lowest n bits of every p bits, up to bit last.   *)

Repeat(p, n, last) == {b \in 0 .. last : b % p < n}
At(by, mask)       == [by |-> by, mask |-> mask]

(* x = (x | x << by) & mask, step after step.                                *)
Spread(w, steps) ==
    FoldLeft(LAMBDA x, s : (x \cup Shl(x, s.by)) \cap s.mask, w \cap steps[1].mask, Tail(steps))

(* x = (x ^ (x >> by)) & mask, step after step.                              *)
Gather(w, steps) ==
    FoldLeft(LAMBDA x, s : SymDiff(x, Shr(x, s.by)) \cap s.mask, w \cap steps[1].mask, Tail(steps))

SplitOctant2D == <<At(0, 0 .. 21), At(16, Repeat(32, 16, 47)), At(8, Repeat(16, 8, 55)),
                   At(4, Repeat(8, 4, 59)), At(2, Repeat(4, 2, 63)), At(1, Repeat(2, 1, 63))>>
OctantCoord2D == <<At(0, Repeat(2, 1, 43)), At(1, Repeat(4, 2, 63)), At(2, Repeat(8, 4, 63)),
                   At(4, Repeat(16, 8, 63)), At(8, Repeat(32, 16, 63)), At(16, 0 .. 31)>>
SplitTree2D   == <<At(0, 0 .. 5), At(4, Repeat(8, 4, 15)), At(2, Repeat(4, 2, 15)),
                   At(1, Repeat(2, 1, 15))>>
TreeCoord2D   == <<At(0, Repeat(2, 1, 12)), At(1, Repeat(4, 2, 15)), At(2, Repeat(8, 4, 15)),
                   At(4, 0 .. 7)>>

(* Bug: the mask of the two dimensional code for the third step.             *)
SplitOctant3D_Mask2D ==
    <<At(0, 0 .. 13), At(32, 0 .. 15 \cup 48 .. 52), At(16, Repeat(24, 8, 52)),
      At(8, Repeat(16, 8, 55)), At(4, Repeat(6, 2, 60)), At(2, Repeat(3, 1, 60))>>

SplitOctant3D == <<At(0, 0 .. 13), At(32, 0 .. 15 \cup 48 .. 52), At(16, Repeat(24, 8, 52)),
                   At(8, Repeat(12, 4, 60)), At(4, Repeat(6, 2, 60)), At(2, Repeat(3, 1, 60))>>
OctantCoord3D == <<At(0, Repeat(3, 1, 39)), At(2, Repeat(6, 2, 61)), At(4, Repeat(12, 4, 63)),
                   At(8, Repeat(24, 8, 55)), At(16, 0 .. 15 \cup 48 .. 55), At(32, 0 .. 20)>>
SplitTree3D   == <<At(0, 0 .. 4), At(8, 0 .. 3 \cup 12 .. 15),
                   At(4, {0, 1, 6, 7, 12, 13, 14}), At(2, Repeat(3, 1, 12))>>
TreeCoord3D   == <<At(0, Repeat(3, 1, 12)), At(2, {0, 1, 6, 7, 12, 13, 14}),
                   At(4, 0 .. 3 \cup 12 .. 15), At(8, 0 .. 7)>>

Interleaved(coords, steps) ==
    UNION {Shl(Spread(ToBits(coords[i]), steps), i - 1) : i \in DOMAIN coords}

encode_morton_octant(xyz) ==
    Interleaved(xyz, IF Len(xyz) = 2 THEN SplitOctant2D ELSE SplitOctant3D)
encode_morton_tree(tree) ==
    Interleaved(tree, IF Len(tree) = 2 THEN SplitTree2D ELSE SplitTree3D)

get_octant_coords(dim, w) ==
    [i \in 1 .. dim |->
        ToNumber(Gather(Shr(getField(w, Layout(dim).octant), i - 1),
                        IF dim = 2 THEN OctantCoord2D ELSE OctantCoord3D))]
get_tree_coords(dim, w) ==
    [i \in 1 .. dim |->
        ToNumber(Gather(Shr(getField(w, Layout(dim).tree), i - 1),
                        IF dim = 2 THEN TreeCoord2D ELSE TreeCoord3D))]

----------------------------------------------------------------------------
(* Words and keys                                                           *)

encode_orchard(key) ==
    LET layout == Layout(DIM(key))
        out    == setField({}, layout.outside, {i - 1 : i \in key.out})
        level  == setField(out, layout.level, ToBits(key.level))
        octant == setField(level, layout.octant, encode_morton_octant(key.xyz))
    IN  setField(octant, layout.tree, encode_morton_tree(key.tree))

level(dim, w) == ToNumber(getField(w, Layout(dim).level))

decode_orchard(dim, w) ==
    [out   |-> {b + 1 : b \in getField(w, Layout(dim).outside)},
     level |-> level(dim, w),
     xyz   |-> get_octant_coords(dim, w),
     tree  |-> get_tree_coords(dim, w)]

(* Clears the bits in which the octants of a family differ, and all below.   *)
oldest_brother(dim, w) ==
    LET layout  == Layout(dim)
        shift   == dim * (NUM_LEVELS(dim) - level(dim, w)) + layout.octant.pos
        cleared == Shl(Shr(w, shift), shift)
        leveled == setField(cleared, layout.level, getField(w, layout.level))
    IN  setField(leveled, layout.outside, getField(w, layout.outside))

(* Rank of an octant in its family.                                          *)
family_id(dim, w) ==
    ToNumber(Shr(SymDiff(w, oldest_brother(dim, w)),
                 dim * (NUM_LEVELS(dim) - level(dim, w) - 1) + Layout(dim).octant.pos))
=============================================================================

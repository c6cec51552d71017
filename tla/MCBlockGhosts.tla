---------------------------- MODULE MCBlockGhosts ----------------------------
EXTENDS MeshBlockGhosts, MCMeshStencils

(* For a prolongation of the second order at least, of the fourth in some     *)
(* bricks; in three dimensions for limited slopes.                           *)
GhostBlockSize ==
    <<2, 2>> :> <<4, 6>> @@ <<1, 2>> :> <<6, 4>> @@ <<1, 1>> :> <<6, 6>> @@ <<2, 1, 1>> :> <<4, 4, 4>>

Open == Brick(<<2, 2>>, <<FALSE, FALSE>>)

(* Two refined trees that touch in a corner, so that a ghost face lies        *)
(* between a coarser block and one of its own level.                         *)
Diagonal(brick) == Split(Split(Root(brick), Len(brick.trees)), 1)

GhostMeshes ==
    Open :> MeshesOf(Open, 1) \cup {Diagonal(Open)}
    @@ Refined({Brick(<<1, 2>>, <<TRUE, FALSE>>)}, 1)
    @@ Refined({Brick(<<1, 1>>, <<TRUE, TRUE>>)}, 2)
    @@ Refined({Brick(<<2, 1, 1>>, <<TRUE, TRUE, TRUE>>)}, 1)
=============================================================================

------------------------------ MODULE MCMeshStencils ------------------------------
EXTENDS MeshStencils

CONSTANT MaxFree        \* leaves up to which all interleavings are explored

(* Between two collectives the steps of the ranks commute, since they share   *)
(* nothing: on a larger mesh, and in a later rebuild, the lowest rank that is *)
(* not waiting goes first.                                                  *)
InOrder ==
    MapThenSumSet(LAMBDA r : Len(forest[r]), Ranks) > MaxFree \/ rebuilds > 1
        => \A r \in Ranks : (phase'[r] # phase[r] \/ at'[r] # at[r]) /\ phase[r] # "allreduce"
               => rebuilds' # rebuilds
                  \/ \A s \in 0 .. r - 1 : Op(s) = "done" \/ phase[s] = "allreduce"

Root(brick) == [t \in 1 .. Len(brick.trees) |->
                   [tree |-> t - 1, level |-> 0, xyz |-> [i \in DOMAIN brick.size |-> 0]]]

(* A leaf is replaced by its children, in Morton order.                      *)
Split(mesh, i) ==
    LET q == mesh[i]
        half == 2 ^ (MAX_LEVEL(Len(q.xyz)) - q.level - 1)
        children == [c \in 1 .. 2 ^ Len(q.xyz) |->
                        [q EXCEPT !.level = @ + 1,
                                  !.xyz = [d \in DOMAIN @ |-> @[d] + ChildSide(c - 1, d) * half]]]
    IN  SubSeq(mesh, 1, i - 1) \o children \o SubSeq(mesh, i + 1, Len(mesh))

Balanced(mesh, brick) ==
    \A i, j \in DOMAIN mesh :
        mesh[i].level + 1 < mesh[j].level
            => ~ Adjacent(Box(mesh[i], brick), Box(mesh[j], brick), brick)

Refinements(mesh, brick) == {m \in {Split(mesh, i) : i \in DOMAIN mesh} : Balanced(m, brick)}

(* The meshes of at most n refined leaves.                                   *)
MeshesOf(brick, n) ==
    FoldLeft(LAMBDA meshes, k : meshes \cup UNION {Refinements(m, brick) : m \in meshes},
             {Root(brick)}, [k \in 1 .. n |-> k])

(* The chain of leaves around the lower corner of the first tree, or around   *)
(* the upper corner of the last one, down to the last level.                 *)
DeepMeshes(brick) ==
    LET levels == [k \in 1 .. MAX_LEVEL(Len(brick.size)) |-> k]
    IN  {Root(brick),
         FoldLeft(LAMBDA mesh, k : Split(mesh, 1), Root(brick), levels),
         FoldLeft(LAMBDA mesh, k : Split(mesh, Len(mesh)), Root(brick), levels)}

Brick(size, periodic) == [size |-> size, periodic |-> periodic, trees |-> TreeCoords(size)]

(* Every brick with its meshes of at most n refined leaves.                  *)
Refined(bricks, n) == [brick \in bricks |-> MeshesOf(brick, n)]

Deep(bricks) == [brick \in bricks |-> DeepMeshes(brick)]

MCBlockSize ==
    [size \in {<<2, 1>>, <<1, 1>>, <<2, 2>>, <<3, 2>>, <<1, 5>>} |-> <<4, 2>>]
    @@ [size \in {<<2, 1, 1>>, <<2, 3, 1>>, <<1, 1, 1>>} |-> <<2, 2, 2>>]

MCMeshes ==
    Refined({Brick(<<2, 1>>, <<FALSE, FALSE>>)}, 2)
    @@ Refined({Brick(<<1, 1>>, <<TRUE, TRUE>>), Brick(<<2, 1>>, <<TRUE, FALSE>>)}, 1)
    @@ Refined({Brick(<<1, 1>>, <<FALSE, TRUE>>), Brick(<<2, 2>>, <<FALSE, FALSE>>)}, 1)
    @@ Refined({Brick(<<3, 2>>, <<FALSE, FALSE>>), Brick(<<1, 5>>, <<TRUE, FALSE>>)}, 0)
    @@ Refined({Brick(<<2, 1, 1>>, <<FALSE, FALSE, FALSE>>)}, 1)
    @@ Refined({Brick(<<2, 3, 1>>, <<TRUE, TRUE, TRUE>>)}, 0)
    @@ Deep({Brick(<<1, 1>>, <<FALSE, FALSE>>), Brick(<<1, 1, 1>>, <<FALSE, FALSE, FALSE>>)})

(* A brick that is periodic in one direction.                                *)
PeriodicMeshes == Refined({Brick(<<2, 2>>, <<TRUE, FALSE>>)}, 0)
=============================================================================

--------------------------- MODULE BrickNumbering ---------------------------
(***************************************************************************)
(* The trees of a brick (brick_connectivity_utils.h): p4est numbers them,    *)
(* and the coordinates in the brick are found again from the number.  The    *)
(* numbers of the smallest box whose sizes are powers of two are decoded,    *)
(* those inside of the brick are kept.                                       *)
(***************************************************************************)
EXTENDS Integers, Sequences, Lists, FiniteSets, FiniteSetsExt

(* The coordinates of the trees, and a numbering of them.                    *)
TreesOf(size) ==
    {xyz \in [DOMAIN size -> 0 .. Max(ToSet(size)) - 1] : \A d \in DOMAIN size : xyz[d] < size[d]}

IsNumbering(trees, S) ==
    /\ trees \in Seq(S) /\ ToSet(trees) = S
    /\ \A i, j \in DOMAIN trees : trees[i] = trees[j] => i = j

(* Bits needed for coordinates below n.                                     *)
Log2(n) == Min({l \in 0 .. n : 2 ^ l >= n})

(* The directions by increasing size, the first one first when they agree.   *)
rankx(size) ==
    LET before(e, d) == \/ Log2(size[e]) < Log2(size[d])
                        \/ Log2(size[e]) = Log2(size[d]) /\ e < d
    IN  [k \in DOMAIN size |->
            CHOOSE d \in DOMAIN size :
                Cardinality({e \in DOMAIN size : before(e, d)}) = k - 1]

n_iter(size) == 2 ^ Total([d \in DOMAIN size |-> Log2(size[d])], DOMAIN size)

(* The j-th bits of the coordinates of the directions ds are next to each    *)
(* other in the number, in the order of the directions.                      *)
Coordinate(treeId, ds, d, n) ==
    LET idx == Cardinality({e \in ds : e < d})
        w   == Cardinality(ds)
    IN  Total([j \in 0 .. n - 1 |-> ((treeId \div 2 ^ (w * j + idx)) % 2) * 2 ^ j], 0 .. n - 1)

(* One turn of the loop of BrickLinearToXYZ::toXYZ: the bits all directions  *)
(* but the i - 1 shortest still have.                                        *)
Decode(size, rank, s, i) ==
    LET ds == {rank[k] : k \in i .. Len(size)}
        n  == Log2(size[rank[i]]) - s.lastlog
    IN  [tx      |-> [d \in DOMAIN size |->
                         s.tx[d] + IF d \in ds THEN Coordinate(s.treeId, ds, d, n) * 2 ^ s.lastlog
                                   ELSE 0],
         treeId  |-> s.treeId \div 2 ^ (Cardinality(ds) * n),
         lastlog |-> s.lastlog + n]

(* What is left of the number belongs to the longest direction.              *)
toXYZ(size, rank, treeId) ==
    LET dim == Len(size)
        turn[i \in 0 .. dim - 1] ==
            IF i = 0 THEN [tx |-> [d \in 1 .. dim |-> 0], treeId |-> treeId, lastlog |-> 0]
            ELSE Decode(size, rank, turn[i - 1], i)
        s == turn[dim - 1]
    IN  [s.tx EXCEPT ![rank[dim]] = @ + s.treeId * 2 ^ s.lastlog]

(* BrickConnectivityData::init: the coordinates of the trees, 1-based.       *)
m_brick_coords(size) ==
    LET rank == rankx(size)
        all  == [i \in 1 .. n_iter(size) |-> toXYZ(size, rank, i - 1)]
    IN  Chosen(all, TreesOf(size))
=============================================================================

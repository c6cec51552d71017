------------------------------ MODULE MeshMap ------------------------------
(***************************************************************************)
(* AMRManager::rebuild with MeshMap and OutsideQuadsInfo: what every rank    *)
(* computes anew when the mesh has changed.  A rank lists the keys of the    *)
(* leaves it owns, of the ghosts, and of the octants outside of the domain   *)
(* that touch them; builds the hash map from keys to their indices in the    *)
(* list; lists the mirrors in the order of the ranks they are sent to; and   *)
(* counts the outside octants, with two collectives, as often as one of      *)
(* these operations wants them up to date.                                   *)
(***************************************************************************)
EXTENDS ConformalStatus, BrickNumbering

CONSTANTS NumRanks,     \* ranks of the communicator
          Meshes,       \* the meshes of every brick; a brick is [size, periodic, trees]
          MaxCut,       \* longest mesh that is cut in every possible way
          MaxTwice,     \* keys listed twice that are inserted independently
          MaxRebuilds,  \* bound on the number of rebuilds
          MaxNext       \* bound on the leaves of a mesh after the first one

Ranks == 0 .. NumRanks - 1

VARIABLES domain,         \* the brick: [size, periodic, trees]
          forest,         \* forest[r]: the leaves of rank r, as p4est keeps them
          ghost,          \* ghost[r]: p4est's ghost layer
          at,             \* operation of rebuild a rank is in
          phase,          \* where it is in that operation
          m_outside_quads_info,
          m_amr_mesh_info,
          m_orchard_keys, \* 1-based; the indices in the map count from 0
          m_amr_hashmap,
          m_mirror_orchard_keys,
          m_conformal_status_view,
          rebuilds        \* number of rebuilds so far (bounded)

vars == <<domain, forest, ghost, at, phase, m_outside_quads_info, m_amr_mesh_info,
          m_orchard_keys, m_amr_hashmap, m_mirror_orchard_keys, m_conformal_status_view,
          rebuilds>>

dim == Len(domain.size)

----------------------------------------------------------------------------
(* The forest.  A leaf is [tree, level, xyz]: the number of its tree, its    *)
(* level, its lower corner.                                                 *)

(* p4est numbers the trees of a brick along the Morton curve; brick.trees has *)
(* their coordinates.                                                       *)
TreeCoords(size) ==
    LET trees == TreesOf(size)
        before(a, b) == WordLess(encode_morton_tree(a), encode_morton_tree(b))
    IN  [t \in 1 .. Cardinality(trees) |->
            CHOOSE c \in trees : Cardinality({b \in trees : before(b, c)}) = t - 1]

(* The size of a brick is checked against what a key has bits for            *)
(* (get_brick_sizes).  The rest is what p4est keeps: the trees of the brick   *)
(* are each numbered once; a leaf lies inside of its tree, and a forest has   *)
(* no leaf twice.                                                           *)
IsBrick(brick) ==
    LET d == Len(brick.size)
    IN  /\ d \in {2, 3}
        /\ brick.size \in [1 .. d -> 1 .. MAX_NB_TREES_PER_DIR(d)]
        /\ brick.periodic \in [1 .. d -> BOOLEAN]
        /\ IsNumbering(brick.trees, TreesOf(brick.size))

IsLeaf(q, brick) ==
    LET d == Len(brick.size)
    IN  q \in [tree  : 0 .. Len(brick.trees) - 1,
               level : 0 .. MAX_LEVEL(d),
               xyz   : [1 .. d -> 0 .. ROOT_LENGTH(d) - 2 ^ (MAX_LEVEL(d) - q.level)]]

IsMesh(mesh, brick) ==
    /\ mesh \in Seq(ToSet(mesh))
    /\ \A i \in DOMAIN mesh : IsLeaf(mesh[i], brick)
    /\ \A i, j \in DOMAIN mesh : mesh[i] = mesh[j] => i = j

ASSUME MeshMapAssumption ==
    /\ NumRanks \in Nat \ {0}
    /\ MaxCut \in Nat /\ MaxTwice \in Nat /\ MaxRebuilds \in Nat \ {0} /\ MaxNext \in Nat
    /\ \A brick \in DOMAIN Meshes :
          IsBrick(brick) /\ \A mesh \in Meshes[brick] : IsMesh(mesh, brick)

(* Lower corner and length in the brick, in units of the finest level.       *)
Box(leaf, brick) ==
    LET tree == brick.trees[leaf.tree + 1]
        root == ROOT_LENGTH(Len(tree))
    IN  [lower |-> [i \in DOMAIN tree |-> tree[i] * root + leaf.xyz[i]],
         length |-> 2 ^ (MAX_LEVEL(Len(tree)) - leaf.level)]

Extent(brick, i) == brick.size[i] * ROOT_LENGTH(Len(brick.size))

Meet(a, b, i, shift) ==
    /\ a.lower[i] + shift <= b.lower[i] + b.length
    /\ b.lower[i] <= a.lower[i] + a.length + shift

(* The closed boxes touch, through a periodic border as well.                *)
Adjacent(a, b, brick) ==
    \A i \in DOMAIN brick.size :
        \E s \in IF brick.periodic[i] THEN {-1, 0, 1} ELSE {0} :
            Meet(a, b, i, s * Extent(brick, i))

(* The cuts of a mesh into a segment per rank; a mesh of more than MaxCut    *)
(* leaves is cut evenly.                                                    *)
Cuts(mesh) ==
    LET n == Len(mesh)
        even == [r \in 0 .. NumRanks |-> (r * n) \div NumRanks]
        all == {c \in [0 .. NumRanks -> 0 .. n] :
                   /\ c[0] = 0 /\ c[NumRanks] = n
                   /\ \A r \in Ranks : c[r] <= c[r + 1]}
    IN  {[r \in Ranks |-> SubSeq(mesh, c[r] + 1, c[r + 1])] : c \in IF n <= MaxCut THEN all ELSE {even}}

(* p4est_ghost_new, CONNECT_FULL: the leaves of other ranks that touch one   *)
(* of rank r, in the order of the mesh.                                     *)
GhostLayer(f, brick, r) ==
    LET all == FlattenSeq([s \in 1 .. NumRanks |-> f[s - 1]])
        own == ToSet(f[r])
        box == [q \in ToSet(all) |-> Box(q, brick)]
    IN  Chosen(all, {q \in ToSet(all) \ own : \E p \in own : Adjacent(box[p], box[q], brick)})

(* ghost->mirrors: the leaves other ranks have as ghosts; mirror_proc_mirrors *)
(* has the indices in it of those a given rank has.                         *)
mirrors(r) == Chosen(forest[r], UNION {ToSet(ghost[p]) : p \in Ranks \ {r}})

mirror_proc_mirrors(r, p) ==
    LET of == mirrors(r)
    IN  Chosen([i \in DOMAIN of |-> i], {i \in DOMAIN of : of[i] \in ToSet(ghost[p])})

num_mirrors(r) == Total([p \in Ranks |-> Len(mirror_proc_mirrors(r, p))], Ranks \ {r})

----------------------------------------------------------------------------
(* Keys                                                                     *)

(* The coordinates of a leaf are shifted from the units of p4est to those of *)
(* the keys, which its level allows; both are in units of the finest level   *)
(* of the keys here.                                                        *)
KeysOf(leaves) ==
    LET coords == m_brick_coords(domain.size)
    IN  [i \in DOMAIN leaves |->
            [out |-> {}, level |-> leaves[i].level, xyz |-> leaves[i].xyz,
             tree |-> coords[leaves[i].tree + 1]]]

HasNonPeriodicBorder == \E i \in 1 .. dim : ~ domain.periodic[i]

(* All faces of the item lie on the border, one of them not periodic.        *)
TouchesOutside(key, faces) ==
    /\ \A f \in faces : is_at_domain_border(key, f, domain)
    /\ \E f \in faces : ~ domain.periodic[Dir(f)]

OutsideItems(key) ==
    Chosen(Items(dim), {faces \in ToSet(Items(dim)) : TouchesOutside(key, faces)})

(* The key is that of the periodic image, with its outside bits.             *)
OutsideKeys(key) ==
    LET items == OutsideItems(key)
    IN  [n \in DOMAIN items |->
            get_neighbor_key_same_level(key, face_to_displacement(dim, items[n]), domain)]

(* compute_orchard_keys_view_host: owned leaves, ghosts, and what touches    *)
(* them from the outside.                                                   *)
compute_orchard_keys_view_host(r) ==
    LET inside == KeysOf(forest[r]) \o KeysOf(ghost[r])
    IN  inside \o IF HasNonPeriodicBorder
                  THEN FlattenSeq([i \in DOMAIN inside |-> OutsideKeys(inside[i])])
                  ELSE <<>>

----------------------------------------------------------------------------
(* Counting the outside octants                                             *)

(* Bug: the edges and corners are forgotten.                                 *)
NumOutside_Faces(leaves) ==
    LET keys == KeysOf(leaves)
        items(i) == Chosen(OutsideItems(keys[i]), {{f} : f \in Faces(dim)})
    IN  Total([i \in DOMAIN keys |-> Len(items(i))], DOMAIN keys)

NumOutside(leaves) ==
    LET keys == KeysOf(leaves)
    IN  Total([i \in DOMAIN keys |-> Len(OutsideItems(keys[i]))], DOMAIN keys)

compute_number_outside_quads(r) == NumOutside(forest[r])

compute_number_outside_ghosts(r) == NumOutside(ghost[r])

NoOutside == [local |-> 0, global |-> 0, first |-> 0, ghosts |-> 0, outside_ghosts |-> 0]

NumTotal(info) == info.quadrants + info.ghosts + info.outside + info.outside_ghosts

(* The calls of AMRManager::rebuild, those they make in their turn written   *)
(* out: "outside" is compute_outside_quad_info, "info" is                   *)
(* update_amr_mesh_info.                                                    *)
Script == << "outside",
             "info", "info", "info", "keys", "hashmap",
             "mirrors",
             "info",
             "info", "info", "keys",
             "status" >>

Op(r) == IF at[r] \in DOMAIN Script THEN Script[at[r]] ELSE "done"

Counting(r) == Op(r) \in {"outside", "info"}

(* The values update_amr_mesh_info copies when the counts are known.         *)
MeshInfo(r, outside) ==
    [quadrants      |-> Len(forest[r]),
     first          |-> Total([s \in Ranks |-> Len(forest[s])], 0 .. r - 1),
     ghosts         |-> Len(ghost[r]),
     mirrors        |-> num_mirrors(r),
     outside        |-> outside.local,
     global_outside |-> outside.global,
     first_outside  |-> outside.first,
     outside_ghosts |-> outside.outside_ghosts]

(* The operation of rank r returns.                                         *)
EndCount(r, outside) ==
    /\ m_outside_quads_info' = [m_outside_quads_info EXCEPT ![r] = outside]
    /\ m_amr_mesh_info' = IF Op(r) = "info"
                          THEN [m_amr_mesh_info EXCEPT ![r] = MeshInfo(r, outside)]
                          ELSE m_amr_mesh_info
    /\ at' = [at EXCEPT ![r] = @ + 1]
    /\ phase' = [phase EXCEPT ![r] = "begin"]

(* No border to look at: reset, and no collective.                           *)
ResetOutside(r) ==
    /\ Counting(r) /\ ~ HasNonPeriodicBorder
    /\ EndCount(r, NoOutside)
    /\ UNCHANGED <<domain, forest, ghost, m_orchard_keys, m_amr_hashmap,
                   m_mirror_orchard_keys, m_conformal_status_view, rebuilds>>

CountOutside(r) ==
    /\ Counting(r) /\ HasNonPeriodicBorder
    /\ phase[r] = "begin"
    /\ m_outside_quads_info' =
          [m_outside_quads_info EXCEPT ![r].local = compute_number_outside_quads(r),
                                       ![r].outside_ghosts = compute_number_outside_ghosts(r)]
    /\ phase' = [phase EXCEPT ![r] = "allreduce"]
    /\ UNCHANGED <<domain, forest, ghost, at, m_amr_mesh_info, m_orchard_keys,
                   m_amr_hashmap, m_mirror_orchard_keys, m_conformal_status_view, rebuilds>>

LocalOutside == [s \in Ranks |-> m_outside_quads_info[s].local]

(* MPI_Allreduce: every rank has called it.                                 *)
Allreduce ==
    /\ \A r \in Ranks : phase[r] = "allreduce"
    /\ m_outside_quads_info' =
          [r \in Ranks |-> [m_outside_quads_info[r] EXCEPT
              !.global = Total(LocalOutside, Ranks)]]
    /\ phase' = [r \in Ranks |-> "exscan"]
    /\ UNCHANGED <<domain, forest, ghost, at, m_amr_mesh_info, m_orchard_keys,
                   m_amr_hashmap, m_mirror_orchard_keys, m_conformal_status_view, rebuilds>>

(* The result of MPI_Exscan; the buffer of rank 0 keeps its initial zero.    *)
FirstOutside(r) ==
    IF r = 0 THEN m_outside_quads_info[r].first
    ELSE Total(LocalOutside, 0 .. r - 1)

(* MPI_Exscan returns when the lower ranks have called it; what they         *)
(* contribute does not change between two rebuilds.                         *)
Exscan(r) ==
    /\ phase[r] = "exscan"
    /\ \A s \in 0 .. r - 1 : ~ (at[s] = at[r] /\ phase[s] = "exscan")
    /\ EndCount(r, [m_outside_quads_info[r] EXCEPT !.first = FirstOutside(r),
                                                   !.ghosts = Len(ghost[r])])
    /\ UNCHANGED <<domain, forest, ghost, m_orchard_keys, m_amr_hashmap,
                   m_mirror_orchard_keys, m_conformal_status_view, rebuilds>>

----------------------------------------------------------------------------
(* Filling the arrays                                                       *)

Return(r, op) ==
    /\ Op(r) = op
    /\ at' = [at EXCEPT ![r] = @ + 1]
    /\ UNCHANGED <<domain, forest, ghost, phase, m_outside_quads_info, m_amr_mesh_info, rebuilds>>

(* update_orchard_keys: allocated from the counts, filled by a loop of its   *)
(* own, copied to the device.                                               *)
UpdateOrchardKeys(r) ==
    /\ Return(r, "keys")
    /\ m_orchard_keys' = [m_orchard_keys EXCEPT ![r] = compute_orchard_keys_view_host(r)]
    /\ UNCHANGED <<m_amr_hashmap, m_mirror_orchard_keys, m_conformal_status_view>>

IndicesOf(keys, key) == {i \in DOMAIN keys : keys[i] = key}

(* The maps the parallel insertion may leave: a key that is listed several   *)
(* times has the index that came first.  Other insertions of it fail.  With  *)
(* more than MaxTwice such keys, all have their first index or all their last *)
(* one.                                                                     *)
Insertions(keys) ==
    LET of     == [key \in ToSet(keys) |-> IndicesOf(keys, key)]
        twice  == {key \in DOMAIN of : Cardinality(of[key]) > 1}
        first  == [key \in DOMAIN of |-> Min(of[key]) - 1]
        last   == [key \in DOMAIN of |-> Max(of[key]) - 1]
    IN  IF Cardinality(twice) > MaxTwice
        THEN {first, last}
        ELSE FoldSet(LAMBDA key, maps : {[m EXCEPT ![key] = i - 1] : m \in maps, i \in of[key]},
                     {first}, twice)

(* Bug: the map is not cleared before it is filled.                          *)
UpdateHashmap_NotCleared(r) ==
    /\ Return(r, "hashmap")
    /\ \E map \in Insertions(m_orchard_keys[r]) :
          m_amr_hashmap' = [m_amr_hashmap EXCEPT ![r] =
              [key \in DOMAIN @ \cup DOMAIN map |-> IF key \in DOMAIN @ THEN @[key] ELSE map[key]]]
    /\ UNCHANGED <<m_orchard_keys, m_mirror_orchard_keys, m_conformal_status_view>>

(* update_hashmap: cleared, rehashed, filled on the device, copied back.     *)
UpdateHashmap(r) ==
    /\ Return(r, "hashmap")
    /\ \E map \in Insertions(m_orchard_keys[r]) :
          m_amr_hashmap' = [m_amr_hashmap EXCEPT ![r] = map]
    /\ UNCHANGED <<m_orchard_keys, m_mirror_orchard_keys, m_conformal_status_view>>

(* Bug: the mirrors as p4est lists them, in Morton order.                    *)
compute_mirror_orchard_keys_view_host_Morton(r) == KeysOf(mirrors(r))

(* "sorted first by MPI process, then by Morton key"                         *)
compute_mirror_orchard_keys_view_host(r) ==
    LET keys == KeysOf(mirrors(r))
        sent(p) == [n \in DOMAIN mirror_proc_mirrors(r, p) |-> keys[mirror_proc_mirrors(r, p)[n]]]
    IN  FlattenSeq([p \in 1 .. NumRanks |-> IF p - 1 = r THEN <<>> ELSE sent(p - 1)])

UpdateMirrors(r) ==
    /\ Return(r, "mirrors")
    /\ m_mirror_orchard_keys' =
          [m_mirror_orchard_keys EXCEPT ![r] = compute_mirror_orchard_keys_view_host(r)]
    /\ UNCHANGED <<m_orchard_keys, m_amr_hashmap, m_conformal_status_view>>

(* update_conformal_status: owned leaves and ghosts.                        *)
UpdateConformalStatus(r) ==
    /\ Return(r, "status")
    /\ m_conformal_status_view' = [m_conformal_status_view EXCEPT ![r] =
          [i \in 1 .. m_amr_mesh_info[r].quadrants + m_amr_mesh_info[r].ghosts |->
              conformal_face_status(m_amr_hashmap[r], m_orchard_keys[r][i], domain)]]
    /\ UNCHANGED <<m_orchard_keys, m_amr_hashmap, m_mirror_orchard_keys>>

----------------------------------------------------------------------------
(* The specification                                                        *)

(* AMRmesh has built the forest and its ghosts when AMRManager rebuilds for  *)
(* the first time.                                                          *)
Init ==
    /\ domain \in DOMAIN Meshes
    /\ \E mesh \in Meshes[domain] : forest \in Cuts(mesh)
    /\ ghost = [r \in Ranks |-> GhostLayer(forest, domain, r)]
    /\ at = [r \in Ranks |-> 1]
    /\ phase = [r \in Ranks |-> "begin"]
    /\ m_outside_quads_info = [r \in Ranks |-> NoOutside]
    /\ m_amr_mesh_info = [r \in Ranks |-> MeshInfo(r, NoOutside)]
    /\ m_orchard_keys = [r \in Ranks |-> <<>>]
    /\ m_amr_hashmap = [r \in Ranks |-> [key \in {} |-> 0]]
    /\ m_mirror_orchard_keys = [r \in Ranks |-> <<>>]
    /\ m_conformal_status_view = [r \in Ranks |-> <<>>]
    /\ rebuilds = 1

Rebuilt == \A r \in Ranks : Op(r) = "done"

(* The mesh is adapted or repartitioned, and rebuilt.                       *)
Remesh ==
    /\ Rebuilt
    /\ rebuilds < MaxRebuilds
    /\ \E mesh \in {m \in Meshes[domain] : Len(m) <= MaxNext} : forest' \in Cuts(mesh)
    /\ ghost' = [r \in Ranks |-> GhostLayer(forest', domain, r)]
    /\ at' = [r \in Ranks |-> 1]
    /\ rebuilds' = rebuilds + 1
    /\ UNCHANGED <<domain, phase, m_outside_quads_info, m_amr_mesh_info, m_orchard_keys,
                   m_amr_hashmap, m_mirror_orchard_keys, m_conformal_status_view>>

Step(r) ==
    \/ ResetOutside(r) \/ CountOutside(r) \/ Exscan(r)
    \/ UpdateOrchardKeys(r) \/ UpdateHashmap(r) \/ UpdateMirrors(r) \/ UpdateConformalStatus(r)

Next ==
    \/ \E r \in Ranks : Step(r)
    \/ Allreduce
    \/ Remesh
    \/ Rebuilt /\ UNCHANGED vars    \* the mesh may stay as it is

Spec == Init /\ [][Next]_vars

----------------------------------------------------------------------------
(* Properties                                                               *)

Before(r, op) == at[r] <= SelectInSeq(Script, LAMBDA o : o = op)

Inside(r) == m_amr_mesh_info[r].quadrants + m_amr_mesh_info[r].ghosts

IsKey(key) ==
    /\ key.out \subseteq 1 .. dim
    /\ key.level \in 0 .. MAX_LEVEL(dim)
    /\ \A d \in 1 .. dim : /\ key.xyz[d] \in 0 .. last_offset(key)
                           /\ key.tree[d] \in 0 .. domain.size[d] - 1

(* The types of the state; of keys and map once they are complete.           *)
TypeOK ==
    /\ dim \in {2, 3}
    /\ rebuilds \in 1 .. MaxRebuilds
    /\ \A r \in Ranks :
          /\ at[r] \in 1 .. Len(Script) + 1
          /\ phase[r] \in {"begin", "allreduce", "exscan"}
          /\ \A n \in DOMAIN NoOutside : m_outside_quads_info[r][n] \in Nat
          /\ \A n \in DOMAIN m_amr_mesh_info[r] : m_amr_mesh_info[r][n] \in Nat
    /\ Rebuilt => \A r \in Ranks :
          /\ \A i \in DOMAIN m_orchard_keys[r] : IsKey(m_orchard_keys[r][i])
          /\ \A key \in DOMAIN m_amr_hashmap[r] :
                m_amr_hashmap[r][key] \in 0 .. NumTotal(m_amr_mesh_info[r]) - 1

(* All directions alike, and room for two leaves in each: no octant is on    *)
(* the outside of two leaves, or on both sides of one.                      *)
Plain ==
    /\ \A i, j \in 1 .. dim : domain.periodic[i] = domain.periodic[j]
    /\ \A i \in 1 .. dim : domain.size[i] > 1

(* After update_hashmap, whatever the insertion and whatever was in the map   *)
(* before: an owned leaf or a ghost is found at its own index, every index    *)
(* found leads back to the key that was asked for, nothing of an earlier mesh *)
(* is left; in a plain brick no key is listed twice.                        *)
Dictionary ==
    \A r \in Ranks : ~ Before(r, "hashmap") =>
        LET map  == m_amr_hashmap[r]
            keys == m_orchard_keys[r]
        IN  /\ \A i \in 1 .. Inside(r) : valid(map, keys[i]) /\ map[keys[i]] = i - 1
            /\ DOMAIN map = ToSet(keys)
            /\ \A key \in DOMAIN map : keys[map[key] + 1] = key
            /\ Plain => Cardinality(DOMAIN map) = Len(keys)

(* Outside octants of the owned leaves of a rank, as listed for them alone.   *)
NumOutsideOwned(r) ==
    LET keys == KeysOf(forest[r])
    IN  Total([i \in DOMAIN keys |-> Len(OutsideKeys(keys[i]))], DOMAIN keys)

(* The counts of OutsideQuadsInfo, from loops of their own and two            *)
(* collectives, agree with the keys: the view that was allocated from them is *)
(* filled to its last element, the outside octants come behind all others,    *)
(* and those of owned leaves are numbered over the ranks without gap.         *)
OutsideCounted ==
    \A r \in Ranks : ~ Before(r, "keys") =>
        LET info == m_amr_mesh_info[r]
            keys == m_orchard_keys[r]
        IN  /\ Len(keys) = NumTotal(info)
            /\ \A i \in DOMAIN keys : is_outside(keys[i]) <=> i > Inside(r)
            /\ Rebuilt => LET owned == [s \in Ranks |-> NumOutsideOwned(s)]
                          IN  /\ info.first_outside = Total(owned, 0 .. r - 1)
                              /\ info.global_outside = Total(owned, Ranks)

GhostKeys(p) ==
    SubSeq(m_orchard_keys[p], m_amr_mesh_info[p].quadrants + 1, Inside(p))

(* A rank sends its mirrors, a slice to every rank, the receiver finds its    *)
(* ghosts by their owner: the slice for p holds the ghosts p expects from r,  *)
(* in the same order.                                                       *)
MirrorsMatchGhosts ==
    Rebuilt =>
        \A r, p \in Ranks : r # p =>
            LET begin == Total([q \in Ranks |-> Len(mirror_proc_mirrors(r, q))], (0 .. p - 1) \ {r})
                sent  == SubSeq(m_mirror_orchard_keys[r], begin + 1,
                                begin + Len(mirror_proc_mirrors(r, p)))
                owned == ToSet(SubSeq(m_orchard_keys[r], 1, m_amr_mesh_info[r].quadrants))
            IN  /\ Len(m_mirror_orchard_keys[r]) >= begin + Len(mirror_proc_mirrors(r, p))
                /\ sent = Chosen(GhostKeys(p), owned)

(* The 64 bits lose nothing of a key, whatever its level and the size of the  *)
(* brick; its rank in its family can be read from them; and their order is    *)
(* that of the leaves of the forest, over the trees and over the ranks.       *)
KeysEncoded ==
    Rebuilt =>
        /\ \A r \in Ranks : \A key \in ToSet(m_orchard_keys[r]) :
              LET w == encode_orchard(key)
              IN  /\ decode_orchard(dim, w) = key
                  /\ key.level > 0 => /\ family_id(dim, w) = child_id(key)
                                      /\ decode_orchard(dim, oldest_brother(dim, w))
                                            = [father(key) EXCEPT !.level = key.level]
        /\ LET words == FlattenSeq([s \in 1 .. NumRanks |->
                          [i \in 1 .. m_amr_mesh_info[s - 1].quadrants |->
                              encode_orchard(m_orchard_keys[s - 1][i])]])
           IN  \A i \in 1 .. Len(words) - 1 : WordLess(words[i], words[i + 1])

(* From the neighbour of an octant, the opposite displacement leads back to   *)
(* it: through a periodic border, and through another one, to the outside     *)
(* and in again.                                                            *)
NeighborsInvertible ==
    Rebuilt =>
        \A r \in Ranks : \A key \in ToSet(m_orchard_keys[r]) : \A displ \in Displacements(dim) :
            LET neigh == get_neighbor_key_same_level(key, displ, domain)
                back  == [i \in 1 .. dim |-> -displ[i]]
            IN  get_neighbor_key_same_level(neigh, back, domain) = key

----------------------------------------------------------------------------
(* The leaf behind a face, an edge or a corner, found in space: the leaf that *)
(* has the first point beyond it; around the brick where that is periodic,    *)
(* back at the border where it is not, since what is outside has the level of *)
(* the leaf it touches.                                                     *)

PointBeyond(box, faces) ==
    [i \in DOMAIN box.lower |->
        LET displ == face_to_displacement(dim, faces)[i]
            x     == CASE displ = 1 -> box.lower[i] + box.length
                       [] displ = -1 -> box.lower[i] - 1
                       [] OTHER -> box.lower[i]
        IN  CASE x >= 0 /\ x < Extent(domain, i) -> x
              [] domain.periodic[i] -> x % Extent(domain, i)
              [] OTHER -> box.lower[i] + (IF displ = 1 THEN box.length - 1 ELSE 0)]

Covers(box, point) ==
    \A i \in DOMAIN point : box.lower[i] <= point[i] /\ point[i] < box.lower[i] + box.length

LeafAt(leaves, point) == {q \in leaves : Covers(Box(q, domain), point)}

(* Where a border is periodic and another is not, a leaf in their corner      *)
(* lists an outside octant of its own level, whatever the level of the leaf   *)
(* that it touches, and its neighbours find it: beyond the outside edges and  *)
(* corners of such a brick the level is not that of the mesh.                *)
Ambiguous(key, faces) ==
    /\ Cardinality(faces) > 1
    /\ \E f \in faces : is_at_domain_border(key, f, domain) /\ ~ domain.periodic[Dir(f)]
    /\ \E d \in 1 .. dim : domain.periodic[d]

Relation(leaf, found) ==
    CASE found = {} -> NEIGHBOR_IS_UNAVAILABLE
      [] \E q \in found : q.level = leaf.level -> NEIGHBOR_IS_AT_SAME_LEVEL
      [] \E q \in found : q.level > leaf.level -> NEIGHBOR_IS_FINER
      [] \E q \in found : q.level < leaf.level -> NEIGHBOR_IS_COARSER

Known(r) == forest[r] \o ghost[r]

Expected(r, leaf, faces) ==
    Relation(leaf, LeafAt(ToSet(Known(r)), PointBeyond(Box(leaf, domain), faces)))

(* The status of faces that is kept, and that of faces, edges and corners     *)
(* that is computed on demand, say of every neighbour what its level in the   *)
(* mesh is; the neighbour of an owned leaf is never unavailable, that of a    *)
(* ghost is when the rank does not know it.                                  *)
StatusIsGeometric ==
    Rebuilt =>
        \A r \in Ranks : \A i \in DOMAIN Known(r) :
            LET leaf == Known(r)[i]
                key  == m_orchard_keys[r][i]
                full == conformal_full_status(m_amr_hashmap[r], key, domain)
            IN  \A n \in DOMAIN Items(dim) : ~ Ambiguous(key, Items(dim)[n]) =>
                    LET expected == Expected(r, leaf, Items(dim)[n])
                    IN  /\ get_status(full, n) = expected
                        /\ n <= 2 * dim => get_status(m_conformal_status_view[r][i], n) = expected
                        /\ i <= Len(forest[r]) => expected # NEIGHBOR_IS_UNAVAILABLE
=============================================================================

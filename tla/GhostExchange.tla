---------------------------- MODULE GhostExchange ----------------------------
(***************************************************************************)
(* One exchange of ghost data per time step, for arrays whose leaves do not *)
(* hold the same number of variables: MaterialPresenceExchanger::exchange   *)
(* tells every rank which variables its ghosts hold, the user array is      *)
(* reorganised accordingly (DataArrayBlockMultiVar::reorganize), and         *)
(* MeshGhostsExchangerMultiVar::exchange_multi_var moves the values.         *)
(*                                                                         *)
(* Each of the two is the same program: size the buffers, pack the mirrors, *)
(* post one receive per rank that owns a ghost and one send per rank that   *)
(* sees a mirror, wait for all, unpack.  No barrier orders the ranks and    *)
(* the two exchanges share one tag.                                         *)
(***************************************************************************)
EXTENDS Integers, Sequences, SequencesExt, FiniteSets

CONSTANTS NumRanks,     \* ranks of the communicator
          NumLeaves,    \* leaves of the forest, numbered from 0 in Morton order
          Touch,        \* the pairs of leaves that share a face, edge or corner
          MaxVars,      \* most variables a leaf may hold
          NumVarsSets,  \* the numbers of variables per leaf a step may produce
          MaxRounds,    \* bound on the number of time steps
          MaxMeshes,    \* bound on the number of mesh changes
          NewPartitions \* bound on the partitions a change leads to

ASSUME ExchangeAssumption ==
    /\ NumRanks \in Nat \ {0}
    /\ NumLeaves \in Nat \ {0}
    /\ Touch \subseteq (0 .. NumLeaves - 1) \X (0 .. NumLeaves - 1)
    /\ \A p \in Touch : <<p[2], p[1]>> \in Touch
    /\ MaxVars \in Nat
    /\ NumVarsSets \subseteq [0 .. NumLeaves - 1 -> 0 .. MaxVars]
    /\ MaxRounds \in Nat /\ MaxMeshes \in Nat

Ranks  == 0 .. NumRanks - 1
Leaves == 0 .. NumLeaves - 1
Stages == {"presence", "data"}

VARIABLES gfq,        \* forest->global_first_quadrant
          layer,      \* m_ghost and the mirror keys of each rank
          pc,         \* where each rank is in the program above
          stage,      \* which of the two exchanges each rank is in
          round,      \* the time step each rank is in
          presence,   \* presence[r][l]: variables of leaf l, as rank r knows it
          block,      \* block[r][l]: the values of leaf l on rank r
          mem,        \* mem[r][st]: memory of the buffers, m_send then m_recv
          ext,        \* ext[r][st]: extents of m_send and m_recv in it
          recvs,      \* receives a rank has posted and not completed
          chan,       \* chan[s][d]: sends from s to d, not yet matched
          meshes,     \* number of mesh changes so far (bounded)
          numvars     \* numvars[k][l]: variables leaf l holds after step k

vars == <<gfq, layer, pc, stage, round, presence, block, mem, ext, recvs, chan, meshes, numvars>>

----------------------------------------------------------------------------
(* The ghost layer                                                          *)

Partitions ==
    {g \in [0 .. NumRanks -> 0 .. NumLeaves] :
        /\ g[0] = 0
        /\ g[NumRanks] = NumLeaves
        /\ \A i, j \in 0 .. NumRanks : i <= j => g[i] <= g[j]}

OwnedIn(g, r) == g[r] .. g[r + 1] - 1
Owned(r)      == OwnedIn(gfq, r)

(* The leaves of rank s that touch a leaf of rank d, in the partition g.    *)
SharedIn(g, s, d) ==
    IF s = d THEN {}
    ELSE {l \in OwnedIn(g, s) : \E m \in OwnedIn(g, d) : <<l, m>> \in Touch}

InMortonOrder(S) ==
    LET upto[n \in 0 .. NumLeaves] ==
            IF n = 0 THEN <<>>
            ELSE IF n - 1 \in S THEN Append(upto[n - 1], n - 1) ELSE upto[n - 1]
    IN upto[NumLeaves]

(* The sets of a sequence one after the other, each in Morton order, and    *)
(* the offset at which each of them starts.                                 *)
Concatenated(sets) == FlattenSeq([i \in DOMAIN sets |-> InMortonOrder(sets[i])])
Offsets(sets) == [q \in 0 .. NumRanks |-> Len(Concatenated(SubSeq(sets, 1, q)))]

(* p4est's ghost layer: a mirror is listed once per destination.            *)
ghost_new(g) ==
    [r \in Ranks |->
        LET sent     == [i \in 1 .. NumRanks |-> SharedIn(g, r, i - 1)]
            received == [i \in 1 .. NumRanks |-> SharedIn(g, i - 1, r)]
        IN [mirrors             |-> Concatenated(sent),
            mirror_proc_offsets |-> Offsets(sent),
            ghosts              |-> Concatenated(received),
            proc_offsets        |-> Offsets(received)]]

Mirrors(r) == layer[r].mirrors
Ghosts(r)  == layer[r].ghosts

mirror_proc_offsets(r, d) == layer[r].mirror_proc_offsets[d]
proc_offsets(r, s)        == layer[r].proc_offsets[s]

local_num_mirrors(r, d) == mirror_proc_offsets(r, d + 1) - mirror_proc_offsets(r, d)
local_num_ghosts(r, s)  == proc_offsets(r, s + 1) - proc_offsets(r, s)

Local(r) == Owned(r) \cup Range(Ghosts(r))

SumOver(seq, f(_)) == FoldLeft(LAMBDA acc, l : acc + f(l), 0, seq)

----------------------------------------------------------------------------
(* Buffers and messages                                                     *)

(* Memory allocated and not yet written; the presence starts at zero.       *)
Uninit(st) == IF st = "presence" THEN 0 ELSE <<>>

(* The value of variable i of leaf l in time step k.                        *)
Value(l, i, k) == <<l, i, k>>

(* Elements a leaf takes in a buffer of rank r.                             *)
Items(r, st, l) == IF st = "presence" THEN 1 ELSE presence[r][l]

(* Bug: the ghosts are laid out as if each of them held one variable.       *)
ghost_offsets_Octants(r, st, n) == n

(* The running sums mirror_offsets and ghost_offsets, after n leaves.       *)
mirror_offsets(r, st, n) == SumOver(SubSeq(Mirrors(r), 1, n), LAMBDA l : Items(r, st, l))
ghost_offsets(r, st, n)  == SumOver(SubSeq(Ghosts(r), 1, n), LAMBDA l : Items(r, st, l))

num_block_mirrors(r, st) == mirror_offsets(r, st, Len(Mirrors(r)))

num_block_ghosts(r, st)  == ghost_offsets(r, st, Len(Ghosts(r)))

Resized(st, a, n) == [i \in 1 .. n |-> IF i \in DOMAIN a THEN a[i] ELSE Uninit(st)]
Overlay(a, at, b) ==
    [i \in DOMAIN a |-> IF i - at \in DOMAIN b THEN b[i - at] ELSE a[i]]
Window(st, a, at, len) ==
    [i \in 1 .. len |-> IF at + i \in DOMAIN a THEN a[at + i] ELSE Uninit(st)]

recv_buffer(r, st) == Window(st, mem[r][st], ext[r][st].send, ext[r][st].recv)

(* Bug: the receive buffer of the data counts octants.                      *)
Extents_Octants(r, st) ==
    IF st = "data"
    THEN [send |-> num_block_mirrors(r, st), recv |-> Len(Ghosts(r))]
    ELSE [send |-> Len(Mirrors(r)), recv |-> Len(Ghosts(r))]

(* The extents MeshGhostsExchangerMultiVar::resize_mv gives the buffers,    *)
(* counted in blocks, and those of MaterialPresenceExchanger, in octants.    *)
Extents(r, st) ==
    IF st = "data"
    THEN [send |-> num_block_mirrors(r, st), recv |-> num_block_ghosts(r, st)]
    ELSE [send |-> Len(Mirrors(r)), recv |-> Len(Ghosts(r))]

(* Bug: the storage is grown for the mirrors only.                          *)
Allocated_SendOnly(r, st) ==
    LET new == Extents(r, st)
        need == new.send + (IF st = "presence" THEN new.recv ELSE 0)
    IN [ext |-> new,
        mem |-> IF need > Len(mem[r][st]) THEN Resized(st, mem[r][st], need) ELSE mem[r][st]]

(* The presence buffers are allocated anew when an extent changes, the data *)
(* buffers are cut out of a storage that only grows.                        *)
Allocated(r, st) ==
    LET new == Extents(r, st)
        need == new.send + new.recv
    IN IF st = "presence"
       THEN [ext |-> new,
             mem |-> IF ext[r][st] = new THEN mem[r][st] ELSE Resized(st, mem[r][st], need)]
       ELSE [ext |-> new,
             mem |-> IF need > Len(mem[r][st]) THEN Resized(st, mem[r][st], need) ELSE mem[r][st]]

(* The memory m once every mirror is packed at its offset: how many         *)
(* variables it holds, or their values.                                     *)
Packed(r, st, m) ==
    FoldLeft(LAMBDA acc, i :
                 LET l == Mirrors(r)[i]
                 IN Overlay(acc, mirror_offsets(r, st, i - 1),
                            IF st = "presence" THEN <<presence[r][l]>> ELSE block[r][l]),
             m, [i \in 1 .. Len(Mirrors(r)) |-> i])

----------------------------------------------------------------------------
Empty == [send |-> 0, recv |-> 0]

Init ==
    /\ gfq \in Partitions
    /\ layer = ghost_new(gfq)
    /\ pc = [r \in Ranks |-> "compute"]
    /\ stage = [r \in Ranks |-> "presence"]
    /\ round = [r \in Ranks |-> 0]
    /\ presence = [r \in Ranks |-> [l \in Local(r) |-> 0]]
    /\ block = [r \in Ranks |-> [l \in Local(r) |-> <<>>]]
    /\ mem = [r \in Ranks |-> [st \in Stages |-> <<>>]]
    /\ ext = [r \in Ranks |-> [st \in Stages |-> Empty]]
    /\ recvs = [r \in Ranks |-> {}]
    /\ chan = [s \in Ranks |-> [d \in Ranks |-> <<>>]]
    /\ meshes = 0
    /\ numvars \in [1 .. MaxRounds -> NumVarsSets]

(* The mesh changes between two time steps, on all ranks at once: the       *)
(* leaves move with their values, and AMRManager::rebuild recomputes the    *)
(* ghost layer.  The values of the new ghosts are not there yet.            *)
NewMesh ==
    /\ meshes < MaxMeshes
    /\ \A r, s \in Ranks : pc[r] = "compute" /\ round[r] = round[s]
    /\ gfq' \in (Partitions \cap NewPartitions) \ {gfq}
    /\ layer' = ghost_new(gfq')
    /\ LET holder(l) == CHOOSE r \in Ranks : l \in Owned(r)
       IN /\ presence' = [r \in Ranks |-> [l \in Local(r)' |->
                             IF l \in Owned(r)' THEN presence[holder(l)][l] ELSE 0]]
          /\ block' = [r \in Ranks |-> [l \in Local(r)' |->
                             IF l \in Owned(r)' THEN block[holder(l)][l] ELSE <<>>]]
    /\ stage' = [r \in Ranks |-> "presence"]
    /\ meshes' = meshes + 1
    /\ UNCHANGED <<pc, round, mem, ext, recvs, chan, numvars>>

(* A time step of the solver: the materials move, the owned leaves get new  *)
(* values, the ghosts are out of date.                                      *)
Compute(r) ==
    /\ pc[r] = "compute"
    /\ round[r] < MaxRounds
    /\ LET n == numvars[round[r] + 1]
       IN /\ presence' = [presence EXCEPT ![r] =
                 [l \in Local(r) |-> IF l \in Owned(r) THEN n[l] ELSE @[l]]]
          /\ block' = [block EXCEPT ![r] =
                 [l \in Local(r) |-> IF l \in Owned(r)
                                     THEN [i \in 1 .. n[l] |-> Value(l, i, round[r] + 1)]
                                     ELSE @[l]]]
    /\ round' = [round EXCEPT ![r] = @ + 1]
    /\ stage' = [stage EXCEPT ![r] = "presence"]
    /\ pc' = [pc EXCEPT ![r] = "pack"]
    /\ UNCHANGED <<gfq, layer, mem, ext, recvs, chan, meshes, numvars>>

(* Size the buffers and pack the mirrors; for the data, the user array has  *)
(* been reorganised with the presence just received.  The program stops on  *)
(* an extent other than that of what it packs.                              *)
PackMirrors(r) ==
    /\ pc[r] = "pack"
    /\ LET st == stage[r]
           a == Allocated(r, st)
       IN /\ ext' = [ext EXCEPT ![r][st] = a.ext]
          /\ mem' = [mem EXCEPT ![r][st] = Packed(r, st, a.mem)]
          /\ pc' = [pc EXCEPT ![r] =
                       IF num_block_mirrors(r, st) = a.ext.send THEN "post" ELSE "aborted"]
    /\ UNCHANGED <<gfq, layer, stage, round, presence, block, recvs, chan, meshes, numvars>>

(* The range of the receive buffer rank r waits for from rank s, and of the *)
(* send buffer it sends to rank d.                                          *)
RecvRange(r, s) ==
    LET st == stage[r]
        o == proc_offsets(r, s)
        from == ghost_offsets(r, st, o)
    IN [at |-> from, len |-> ghost_offsets(r, st, o + local_num_ghosts(r, s)) - from]

SendRange(r, d) ==
    LET st == stage[r]
        o == mirror_proc_offsets(r, d)
        from == mirror_offsets(r, st, o)
    IN [at |-> from, len |-> mirror_offsets(r, st, o + local_num_mirrors(r, d)) - from]

(* Bug: a send is posted to every rank, even without a mirror for it.       *)
PostRequests_SendToAll(r) ==
    /\ pc[r] = "post"
    /\ recvs' = [recvs EXCEPT ![r] = {s \in Ranks : local_num_ghosts(r, s) > 0}]
    /\ chan' = [chan EXCEPT ![r] = [d \in Ranks |->
                   IF d = r THEN @[d]
                   ELSE Append(@[d], [st |-> stage[r], at |-> SendRange(r, d).at,
                                      len |-> SendRange(r, d).len, copy |-> <<>>,
                                      buffered |-> FALSE])]]
    /\ pc' = [pc EXCEPT ![r] = "wait"]
    /\ UNCHANGED <<gfq, layer, stage, round, presence, block, mem, ext, meshes, numvars>>

(* Post every receive, then every send.  A send refers to the buffer, MPI   *)
(* reads it when it pleases until the send completes.                       *)
PostRequests(r) ==
    /\ pc[r] = "post"
    /\ recvs' = [recvs EXCEPT ![r] = {s \in Ranks : local_num_ghosts(r, s) > 0}]
    /\ chan' = [chan EXCEPT ![r] = [d \in Ranks |->
                   IF local_num_mirrors(r, d) = 0 THEN @[d]
                   ELSE Append(@[d], [st |-> stage[r], at |-> SendRange(r, d).at,
                                      len |-> SendRange(r, d).len, copy |-> <<>>,
                                      buffered |-> FALSE])]]
    /\ pc' = [pc EXCEPT ![r] = "wait"]
    /\ UNCHANGED <<gfq, layer, stage, round, presence, block, mem, ext, meshes, numvars>>

Content(s, m) == IF m.buffered THEN m.copy ELSE Window(m.st, mem[s][m.st], m.at, m.len)

(* MPI copies a message out of the send buffer before it is matched.        *)
Buffer(s, d) ==
    \E i \in DOMAIN chan[s][d] :
        /\ ~chan[s][d][i].buffered
        /\ chan' = [chan EXCEPT ![s][d][i] =
                       [@ EXCEPT !.buffered = TRUE, !.copy = Content(s, chan[s][d][i])]]
        /\ UNCHANGED <<gfq, layer, pc, stage, round, presence, block, mem, ext, recvs, meshes,
                       numvars>>

(* MPI matches a receive with the oldest message of its sender.             *)
Match(s, d) ==
    /\ s \in recvs[d]
    /\ chan[s][d] # <<>>
    /\ mem' = [mem EXCEPT ![d][stage[d]] =
                  Overlay(@, ext[d][stage[d]].send + RecvRange(d, s).at,
                          Content(s, Head(chan[s][d])))]
    /\ recvs' = [recvs EXCEPT ![d] = @ \ {s}]
    /\ chan' = [chan EXCEPT ![s][d] = Tail(@)]
    /\ UNCHANGED <<gfq, layer, pc, stage, round, presence, block, ext, meshes, numvars>>

SendsComplete(r) ==
    \A d \in Ranks : \A i \in DOMAIN chan[r][d] : chan[r][d][i].buffered

(* How many ghosts come before ghost l of rank r, and what m_recv holds for *)
(* it once every receive is complete.                                       *)
Before(r, l) == CHOOSE i \in 0 .. Len(Ghosts(r)) - 1 : Ghosts(r)[i + 1] = l

PresenceReceived(r, l) == recv_buffer(r, "presence")[Before(r, l) + 1]

Received(r, l) ==
    Window("data", recv_buffer(r, "data"), ghost_offsets(r, "data", Before(r, l)), presence[r][l])

Unpackable(r) == num_block_ghosts(r, stage[r]) = ext[r][stage[r]].recv

(* Bug: the wait covers the sends only.                                     *)
UnpackData_SendsOnly(r) ==
    /\ pc[r] = "wait" /\ stage[r] = "data"
    /\ SendsComplete(r)
    /\ block' = [block EXCEPT ![r] =
           [l \in Local(r) |-> IF l \in Owned(r) THEN @[l] ELSE Received(r, l)]]
    /\ pc' = [pc EXCEPT ![r] = IF Unpackable(r) THEN "compute" ELSE "aborted"]
    /\ UNCHANGED <<gfq, layer, stage, round, presence, mem, ext, recvs, chan, meshes, numvars>>

(* Wait for all, unpack: the program stops on an extent other than that of  *)
(* the ghosts.                                                              *)
UnpackData(r) ==
    /\ pc[r] = "wait" /\ stage[r] = "data"
    /\ recvs[r] = {}
    /\ SendsComplete(r)
    /\ block' = [block EXCEPT ![r] =
           [l \in Local(r) |-> IF l \in Owned(r) THEN @[l] ELSE Received(r, l)]]
    /\ pc' = [pc EXCEPT ![r] = IF Unpackable(r) THEN "compute" ELSE "aborted"]
    /\ UNCHANGED <<gfq, layer, stage, round, presence, mem, ext, recvs, chan, meshes, numvars>>

(* The same for the presence, after which the user array is reorganised     *)
(* with the number of variables each ghost turns out to hold.               *)
UnpackPresence(r) ==
    /\ pc[r] = "wait" /\ stage[r] = "presence"
    /\ recvs[r] = {}
    /\ SendsComplete(r)
    /\ LET known == [l \in Local(r) |-> IF l \in Owned(r) THEN presence[r][l]
                                        ELSE PresenceReceived(r, l)]
       IN /\ presence' = [presence EXCEPT ![r] = known]
          /\ block' = [block EXCEPT ![r] =
                 [l \in Local(r) |-> IF l \in Owned(r) THEN @[l]
                                     ELSE [i \in 1 .. known[l] |-> Uninit("data")]]]
    /\ stage' = [stage EXCEPT ![r] = "data"]
    /\ pc' = [pc EXCEPT ![r] = IF Unpackable(r) THEN "pack" ELSE "aborted"]
    /\ UNCHANGED <<gfq, layer, round, mem, ext, recvs, chan, meshes, numvars>>

Step(r) ==
    Compute(r) \/ PackMirrors(r) \/ PostRequests(r) \/ UnpackPresence(r) \/ UnpackData(r)

Finished ==
    meshes = MaxMeshes /\ \A r \in Ranks : pc[r] = "compute" /\ round[r] = MaxRounds

Next ==
    \/ NewMesh
    \/ \E r \in Ranks : Step(r)
    \/ \E s, d \in Ranks : Buffer(s, d) \/ Match(s, d)
    \/ Finished /\ UNCHANGED vars

Spec == Init /\ [][Next]_vars

----------------------------------------------------------------------------
(* Properties                                                               *)

(* Every variable keeps its shape: each rank knows its owned leaves and     *)
(* ghosts and no other, the two buffers of an exchange fit in its memory    *)
(* one behind the other (resize_mv, resize), requests and messages stay     *)
(* between ranks that share leaves.                                         *)
TypeOK ==
    /\ gfq \in Partitions
    /\ pc \in [Ranks -> {"compute", "pack", "post", "wait", "aborted"}]
    /\ stage \in [Ranks -> Stages]
    /\ round \in [Ranks -> 0 .. MaxRounds]
    /\ layer = ghost_new(gfq)
    /\ \A r \in Ranks :
          /\ presence[r] \in [Local(r) -> 0 .. MaxVars]
          /\ DOMAIN block[r] = Local(r)
          /\ \A st \in Stages : ext[r][st].send + ext[r][st].recv <= Len(mem[r][st])
          /\ \A s \in recvs[r] : local_num_ghosts(r, s) > 0
          /\ \A d \in Ranks : Len(chan[r][d]) > 0 => local_num_mirrors(r, d) > 0
    /\ meshes \in 0 .. MaxMeshes

(* When a rank has finished the exchange of a step, each of its ghosts      *)
(* holds what its owner gave that leaf in that very step, all its variables *)
(* and no other, although the owner may be a step further and no barrier    *)
(* separates two exchanges (exchange_multi_var after exchange).             *)
GhostsFresh ==
    \A r \in Ranks : pc[r] = "compute" /\ stage[r] = "data" =>
        \A l \in Range(Ghosts(r)) :
            block[r][l] = [i \in 1 .. numvars[round[r]][l] |-> Value(l, i, round[r])]

(* The message a receive is going to be matched with is of the same         *)
(* exchange and of the length the receive was posted for.  The receiver     *)
(* sizes it with the presence it was sent, the sender with its own          *)
(* (do_mpi_send_recv_multi_var, one tag for both exchanges).  No rank ever   *)
(* stops on "send buffer has wrong size" or "receive buffer has wrong size"  *)
(* (pack_mirror_data, unpack_ghost_data and their multi_var versions).       *)
LengthsAgree ==
    /\ \A s, d \in Ranks :
           (s \in recvs[d] /\ chan[s][d] # <<>>) =>
               /\ Head(chan[s][d]).len = RecvRange(d, s).len
               /\ Head(chan[s][d]).st = stage[d]
    /\ \A r \in Ranks : pc[r] # "aborted"

(* Rank r is not held up by the others: it computes, packs or posts, or all *)
(* it waits for is there.                                                   *)
CanStep(r) ==
    \/ pc[r] = "compute" /\ round[r] < MaxRounds
    \/ pc[r] \in {"pack", "post"}
    \/ pc[r] = "wait" /\ recvs[r] = {} /\ SendsComplete(r)

(* No cycle of waits, even if MPI buffers nothing: until every rank has done *)
(* its time steps, one of them can go on, or a receive that is posted has a  *)
(* message to match (do_mpi_send_recv, do_mpi_send_recv_multi_var, MPI_Waitall *)
(* of both).                                                                *)
NeverStuck ==
    \/ \A r \in Ranks : pc[r] = "compute" /\ round[r] = MaxRounds
    \/ \E r \in Ranks : CanStep(r)
    \/ \E s, d \in Ranks : s \in recvs[d] /\ chan[s][d] # <<>>
=============================================================================

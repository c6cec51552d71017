-------------------------- MODULE MCGhostExchange --------------------------
(* Instance of GhostExchange for TLC: a large leaf (1) beside the small     *)
(* leaves 2 and 3, between the leaves 0 and 3, so that a rank may have more *)
(* ghosts than mirrors.                                                     *)
EXTENDS GhostExchange

MCTouch ==
    LET pairs == {<<0, 1>>, <<1, 2>>, <<1, 3>>, <<2, 3>>}
    IN pairs \cup {<<p[2], p[1]>> : p \in pairs}

(* Two distributions of the materials, one of which leaves a leaf empty.    *)
MCNumVarsSets ==
    {[l \in 0 .. NumLeaves - 1 |-> 1], [l \in 0 .. NumLeaves - 1 |-> (l + 1) % 3]}

(* Two partitions that differ much, one with an empty rank.                 *)
MCNewPartitions ==
    {g \in [0 .. NumRanks -> 0 .. NumLeaves] :
        g[1] = g[NumRanks - 1] - 2 /\ g[1] \in {0, 1}}
=============================================================================

----------------------------- MODULE MCAMRAdapt -----------------------------
EXTENDS AMRAdapt

CONSTANT MaxLeaves     \* leaves of the meshes the first cycle starts from

(* Every balanced mesh of a legal level with at most MaxLeaves leaves.        *)
MCMeshes ==
    {m \in MeshesUpTo(MaxLeaves) :
        /\ IsBalanced(ToSet(m))
        /\ \A i \in DOMAIN m : level(m[i]) >= LevelMin}
=============================================================================

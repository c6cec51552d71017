-------------------------- MODULE MCLoadBalancing --------------------------
(* Instance of LoadBalancing for TLC.                                       *)
EXTENDS LoadBalancing
=============================================================================

----------------------------- MODULE MCMeshHeal -----------------------------
(* Small instances of MeshHeal *)
EXTENDS MeshHeal, TLC

CONSTANT r1

\* One user on host 1
HomeOne == r1 :> 1
=============================================================================

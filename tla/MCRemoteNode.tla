---------------------------- MODULE MCRemoteNode ----------------------------
(***************************************************************************)
(* The instance of RemoteNode for TLC. Tasks, callers and operations are   *)
(* interchangeable model values.                                           *)
(***************************************************************************)
EXTENDS RemoteNode, TLC

Symmetry == Permutations(Tasks) \cup Permutations(Callers) \cup Permutations(Ops)
=============================================================================

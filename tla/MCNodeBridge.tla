---------------------------- MODULE MCNodeBridge ----------------------------
(***************************************************************************)
(* Instances of NodeBridge for TLC. Emails, tasks, callers and operations  *)
(* are interchangeable model values.                                       *)
(***************************************************************************)
EXTENDS NodeBridge, TLC

Symmetry ==
    Permutations(Emails) \cup Permutations(Tasks)
        \cup Permutations(Callers) \cup Permutations(Ops)
=============================================================================

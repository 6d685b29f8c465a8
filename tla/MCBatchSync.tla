---------------------------- MODULE MCBatchSync ----------------------------
(***************************************************************************)
(* The instance of BatchSync for TLC: every call with up to MaxUsers users *)
(* and every chunk size up to one chunk for all of them.                   *)
(***************************************************************************)
EXTENDS BatchSync
=============================================================================

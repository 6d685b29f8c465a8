----------------------------- MODULE MCLogStream -----------------------------
(***************************************************************************)
(* The instance of LogStream for TLC: one visible byte and a queue of one  *)
(* item, so that two lines of one chunk already find it full.              *)
(***************************************************************************)
EXTENDS LogStream
=============================================================================

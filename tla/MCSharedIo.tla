----------------------------- MODULE MCSharedIo -----------------------------
(* Model-checking instances of SharedIo.                                   *)
EXTENDS SharedIo
=============================================================================

--------------------------- MODULE MCRuntimeUpdate ---------------------------
(* A small instance of the updater on Linux. *)
EXTENDS RuntimeUpdate
=============================================================================

---------------------------- MODULE MCMacRuntime ----------------------------
(* A small instance of the activation on macOS. *)
EXTENDS MacRuntime
=============================================================================

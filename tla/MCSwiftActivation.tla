-------------------------- MODULE MCSwiftActivation --------------------------
(* SwiftActivation on a small instance; see the configurations.           *)
EXTENDS SwiftActivation
=============================================================================

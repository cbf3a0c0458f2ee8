-------------------------- MODULE MCCredentialSync --------------------------
(* Instances of CredentialSync for model checking; the constants are given *)
(* by the configurations.                                                  *)
EXTENDS CredentialSync
=============================================================================

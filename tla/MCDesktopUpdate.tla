--------------------------- MODULE MCDesktopUpdate ---------------------------
(* DesktopUpdate on a small instance; see the configurations.             *)
EXTENDS DesktopUpdate
=============================================================================

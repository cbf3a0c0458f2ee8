---------------------------- MODULE AtomicInstall ----------------------------
(***************************************************************************)
(* What the updaters of the runtime on Linux and on macOS and that of the  *)
(* desktop app promise of an installation, whatever crashes and failures   *)
(* interrupt it: it starts from a whole release and ends with that very    *)
(* release or with the new one, and with the new one once it is committed. *)
(***************************************************************************)
CONSTANT Releases

VARIABLES
  installed,  \* the release installed, or to return to while one replaces it
  incoming,   \* the release that replaces it, in a set, if one is under way
  committed   \* nothing can undo the replacement any more

installVars == <<installed, incoming, committed>>

InstallInit == installed \in Releases /\ incoming = {} /\ committed = FALSE

Replace ==
  /\ incoming = {} /\ \E r \in Releases : incoming' = {r}
  /\ UNCHANGED <<installed, committed>>

Commit == incoming # {} /\ committed' = TRUE /\ UNCHANGED <<installed, incoming>>

Conclude ==
  /\ incoming # {} /\ incoming' = {} /\ committed' = FALSE
  /\ installed' \in IF committed THEN incoming ELSE incoming \cup {installed}

InstallNext == Replace \/ Commit \/ Conclude

InstallSpec == InstallInit /\ [][InstallNext]_installVars
=============================================================================

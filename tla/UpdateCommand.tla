---------------------------- MODULE UpdateCommand ----------------------------
(***************************************************************************)
(* What the updaters of the Codex runtime on Linux (RuntimeUpdate) and on  *)
(* macOS (MacRuntime) have in common: a command that holds                 *)
(* codex-update.lock, works on a copy of the state file, and replaces      *)
(* installed files by staged ones under a journal (codex_update.rs).       *)
(***************************************************************************)
EXTENDS Naturals, UpdateState

CONSTANTS
  Versions,  \* versions the registry may offer, positive numbers
  MaxTxn,    \* bound: transactions that replace the installed files
  MaxFaults  \* bound: crashes, losses of power, failed steps and probes

ASSUME VersionsAssumption == Versions \subseteq Nat \ {0} /\ None \notin Nat
ASSUME BoundsAssumption == MaxTxn \in Nat /\ MaxFaults \in Nat

VARIABLES
  state,    \* codex-cli-update.json
  journal,  \* the journal of the transaction under way, or None
  dest,     \* the installed files
  staged,   \* the files to be published
  backup,   \* the hard links that keep the old ones
  proc,     \* the command that holds the lock, with its copy of the state
  txns,     \* how many transaction identifiers are used
  faults    \* how many faults so far

Load == Loaded(state)
Goto(pc) == proc' = [proc EXCEPT !.pc = pc]
With(mem, pc) == proc' = [proc EXCEPT !.pc = pc, !.mem = mem]
Save(mem, pc) == state' = mem /\ With(mem, pc)
Fault == faults < MaxFaults /\ faults' = faults + 1
=============================================================================

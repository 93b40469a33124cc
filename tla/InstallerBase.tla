--------------------------- MODULE InstallerBase ---------------------------
(***************************************************************************)
(* What the three install.ps1 scripts of the vault have in common: they    *)
(* are run by hand, one at a time, from a checkout of the vault, with or   *)
(* without -Check, and $ErrorActionPreference = 'Stop' ends a run at the   *)
(* first failing operation with what it has done so far left in place.     *)
(***************************************************************************)
EXTENDS Naturals

CONSTANTS
  LastVersion,  \* bound: versions of the vault that are ever checked out
  NoFile        \* no such file or directory

ASSUME VersionAssumption == LastVersion \in Nat \ {0}

VARIABLES
  version,  \* the checked-out version of the vault
  script,   \* the script that is running, or "none"
  dry       \* it was started with -Check

runVars == <<version, script, dry>>

Versions == 1..LastVersion
Scripts == {"skills", "ship", "memory"}

RunTypeOK ==
  /\ version \in Versions
  /\ script \in Scripts \cup {"none"}
  /\ dry \in BOOLEAN

RunInit ==
  /\ version = 1
  /\ script = "none"
  /\ dry = FALSE

Start(name) ==
  /\ script = "none"
  /\ script' = name
  /\ dry' \in BOOLEAN
  /\ UNCHANGED version

\* A run ends, in whatever way.
Stop ==
  /\ script' = "none"
  /\ dry' = FALSE
  /\ UNCHANGED version

\* git pull, from the terminal the scripts are run from (external).
Pull ==
  /\ script = "none"
  /\ version < LastVersion
  /\ version' = version + 1
  /\ UNCHANGED <<script, dry>>
=============================================================================

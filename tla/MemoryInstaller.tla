-------------------------- MODULE MemoryInstaller --------------------------
(***************************************************************************)
(* user-memory/install.ps1: renders CLAUDE.md.template into                *)
(* ~/.claude/CLAUDE.md and backs up what it did not generate.  The text of *)
(* the file is a name; what the script sees of it is whether it holds the  *)
(* marker and how it compares, ignoring case, with another text.           *)
(***************************************************************************)
EXTENDS InstallerBase

CONSTANTS
  Rendered,   \* Rendered[v]: the template of version v with its placeholders resolved
  UserTexts,  \* texts the user writes to the file
  Marked,     \* texts that hold the marker
  Folded,     \* Folded[t]: the text t with its case folded
  PartOf      \* what an interrupted Set-Content leaves: no marker, it is at the end

MemoryTexts == {Rendered[v] : v \in Versions} \cup UserTexts \cup {PartOf}

ASSUME MemoryAssumption ==
  /\ DOMAIN Rendered = Versions
  /\ DOMAIN Folded = MemoryTexts
  /\ \A v \in Versions : Rendered[v] \in Marked
  /\ PartOf \notin Marked
  /\ NoFile \notin MemoryTexts

VARIABLES
  target,   \* ~/.claude/CLAUDE.md, or NoFile
  memStep,  \* "idle", "read", "backup" or "write"
  backups,  \* the texts of the .bak files
  owed      \* history: the hand-written texts the script must not lose

memoryVars == <<target, memStep, backups, owed>>

MemoryTypeOK ==
  /\ target \in MemoryTexts \cup {NoFile}
  /\ memStep \in {"idle", "read", "backup", "write"}
  /\ backups \subseteq MemoryTexts
  /\ owed \subseteq UserTexts \ Marked

MemoryInit ==
  /\ target = NoFile
  /\ memStep = "idle"
  /\ backups = {}
  /\ owed = {}

\* PowerShell's -eq on strings ignores case.
SameText(t, u) == t # NoFile /\ Folded[t] = Folded[u]

-----------------------------------------------------------------------------
\* The template is rendered; a run that cannot is one that breaks off here.
StartMemory ==
  /\ Start("memory")
  /\ memStep' = "read"
  /\ UNCHANGED <<target, backups, owed>>

\* Mutant: the marker is looked for in the rendered text.
ReadTargetMarkerInRendered ==
  /\ script = "memory" /\ memStep = "read"
  /\ IF dry \/ SameText(target, Rendered[version])
     THEN Stop /\ memStep' = "idle"
     ELSE /\ memStep' = IF target # NoFile /\ Rendered[version] \notin Marked
                        THEN "backup" ELSE "write"
          /\ UNCHANGED runVars
  /\ UNCHANGED <<target, backups, owed>>

\* $existing decides what the run has to do; a dry run only reports it.
ReadTarget ==
  /\ script = "memory" /\ memStep = "read"
  /\ IF dry \/ SameText(target, Rendered[version])
     THEN Stop /\ memStep' = "idle"
     ELSE /\ memStep' = IF target # NoFile /\ target \notin Marked
                        THEN "backup" ELSE "write"
          /\ UNCHANGED runVars
  /\ UNCHANGED <<target, backups, owed>>

\* Copy-Item reads the file again.
BackUp ==
  /\ script = "memory" /\ memStep = "backup"
  /\ target # NoFile
  /\ backups' = backups \cup {target}
  /\ memStep' = "write"
  /\ UNCHANGED <<runVars, target, owed>>

\* Set-Content is the last operation of the run.
WriteTarget ==
  /\ script = "memory" /\ memStep = "write"
  /\ target' = Rendered[version]
  /\ memStep' = "idle"
  /\ Stop
  /\ UNCHANGED <<backups, owed>>

\* A check or an operation fails, or the run is interrupted.
MemoryBreakOff ==
  /\ script = "memory"
  /\ target' \in {target} \cup (IF memStep = "write" THEN {PartOf} ELSE {})
  /\ memStep' = "idle"
  /\ Stop
  /\ UNCHANGED <<backups, owed>>

\* The user writes or deletes the file (external).  What is written once the script
\* is about to write, after its backup or after it has decided that none is
\* needed, is lost, and not counted as owed.
UserWrites ==
  \E t \in UserTexts \cup {NoFile} :
    /\ t # target
    /\ target' = t
    /\ owed' = (owed \ {target}) \cup
               (IF t \in Marked \cup {NoFile} \/ memStep = "write" THEN {} ELSE {t})
    /\ UNCHANGED <<runVars, memStep, backups>>

\* In this step a run that was to install reaches one of its good ends.
MemoryDone == ~dry /\ (WriteTarget \/ (ReadTarget /\ memStep' = "idle"))

MemoryNext ==
  \/ StartMemory \/ ReadTarget \/ BackUp \/ WriteTarget \/ MemoryBreakOff
  \/ UserWrites
=============================================================================

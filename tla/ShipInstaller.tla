--------------------------- MODULE ShipInstaller ---------------------------
(***************************************************************************)
(* coding/ship/install.ps1: copies the ship agents and the /ship command   *)
(* into ~/.claude and has git ignore .pipeline/ in every repository.  The  *)
(* excludes file is the sequence of its lines, a line the sequence of the  *)
(* strings written to it, and whether the last line is terminated.         *)
(***************************************************************************)
EXTENDS InstallerBase, Sequences

CONSTANTS
  ShipFiles,     \* the four agents and the command
  ShipTexts,     \* what they contain
  VaultShip,     \* VaultShip[v][f]: the content of f in version v
  UserExcludes   \* excludes files the user writes

PipelineRule == <<".pipeline/">>

UserLines == UNION {{e.lines[i] : i \in DOMAIN e.lines} : e \in UserExcludes}

ASSUME ShipAssumption ==
  /\ VaultShip \in [Versions -> [ShipFiles -> ShipTexts]]
  /\ NoFile \notin ShipTexts
  /\ UserExcludes \subseteq [lines: Seq(UserLines), terminated: BOOLEAN]
  /\ \A e \in UserExcludes : e.lines = <<>> => e.terminated

VARIABLES
  installed,  \* the files in ~/.claude: content, NoFile, or "partial"
  todo,       \* files Install-One has not been called for
  shipStep,   \* "idle", "install", "config" or "rule"
  skip,       \* -SkipGitIgnore
  config,     \* core.excludesFile is set
  excludes    \* the file it names, or would name

shipVars == <<installed, todo, shipStep, skip, config, excludes>>

ExcludesLines == UserLines \cup {PipelineRule} \cup {l \o PipelineRule : l \in UserLines}

ShipTypeOK ==
  /\ installed \in [ShipFiles -> ShipTexts \cup {NoFile, "partial"}]
  /\ todo \subseteq ShipFiles
  /\ shipStep \in {"idle", "install", "config", "rule"}
  /\ skip \in BOOLEAN /\ config \in BOOLEAN
  /\ excludes # NoFile => excludes.lines \in Seq(ExcludesLines)

\* A new machine, with or without an excludes file of the user's.
ShipInit ==
  /\ installed = [f \in ShipFiles |-> NoFile]
  /\ todo = {}
  /\ shipStep = "idle"
  /\ skip = FALSE
  /\ config \in BOOLEAN
  /\ excludes \in UserExcludes \cup {NoFile}

Lines(file) == IF file = NoFile THEN {} ELSE {file.lines[i] : i \in DOMAIN file.lines}

\* Mutant: as Add-Content -NoNewline would.
WithRuleNoNewline(file) ==
  IF file = NoFile
  THEN [lines |-> <<PipelineRule>>, terminated |-> FALSE]
  ELSE LET n == Len(file.lines) IN
       [lines |-> IF file.terminated
                  THEN Append(file.lines, PipelineRule)
                  ELSE [file.lines EXCEPT ![n] = @ \o PipelineRule],
        terminated |-> FALSE]

\* Add-Content writes at the end of the file: after a last line without a line
\* break, that is on the same line.
WithRule(file) ==
  IF file = NoFile
  THEN [lines |-> <<PipelineRule>>, terminated |-> TRUE]
  ELSE LET n == Len(file.lines) IN
       [lines |-> IF file.terminated
                  THEN Append(file.lines, PipelineRule)
                  ELSE [file.lines EXCEPT ![n] = @ \o PipelineRule],
        terminated |-> TRUE]

-----------------------------------------------------------------------------
\* A source that is incomplete ends the run, as a failure that breaks it off.
StartShip ==
  /\ Start("ship")
  /\ todo' = ShipFiles
  /\ shipStep' = "install"
  /\ skip' \in BOOLEAN
  /\ UNCHANGED <<installed, config, excludes>>

\* Install-One: copy what differs, unless the run is dry.
InstallOne(f) ==
  /\ script = "ship" /\ shipStep = "install" /\ f \in todo
  /\ todo' = todo \ {f}
  /\ installed' = IF dry THEN installed
                  ELSE [installed EXCEPT ![f] = VaultShip[version][f]]
  /\ UNCHANGED <<runVars, shipStep, skip, config, excludes>>

\* The files are done; with -SkipGitIgnore so is the run.
FilesInstalled ==
  /\ script = "ship" /\ shipStep = "install" /\ todo = {}
  /\ IF skip
     THEN Stop /\ shipStep' = "idle" /\ skip' = FALSE
     ELSE shipStep' = "config" /\ UNCHANGED <<runVars, skip>>
  /\ UNCHANGED <<installed, todo, config, excludes>>

\* Mutant: a dry run sets core.excludesFile.
SetConfigAlways ==
  /\ script = "ship" /\ shipStep = "config"
  /\ config' = TRUE
  /\ shipStep' = "rule"
  /\ UNCHANGED <<runVars, installed, todo, skip, excludes>>

\* git config is a program: when it fails, the script reports the setting as made
\* and goes on, which 'Stop' would only prevent for a cmdlet.
SetConfig ==
  /\ script = "ship" /\ shipStep = "config"
  /\ config' \in IF config \/ dry THEN {config} ELSE BOOLEAN
  /\ shipStep' = "rule"
  /\ UNCHANGED <<runVars, installed, todo, skip, excludes>>

\* The rule is added if no line is the rule; then the run is over.
AddRule ==
  /\ script = "ship" /\ shipStep = "rule"
  /\ excludes' = IF dry \/ PipelineRule \in Lines(excludes) THEN excludes ELSE WithRule(excludes)
  /\ shipStep' = "idle"
  /\ Stop
  /\ UNCHANGED <<installed, todo, skip, config>>

\* An operation fails, perhaps half-way, or the run is interrupted.
ShipBreakOff ==
  /\ script = "ship"
  /\ \/ UNCHANGED installed
     \/ /\ ~dry
        /\ \E f \in todo : installed' = [installed EXCEPT ![f] = "partial"]
  /\ todo' = {}
  /\ shipStep' = "idle"
  /\ skip' = FALSE
  /\ Stop
  /\ UNCHANGED <<config, excludes>>

\* The user edits the excludes file between two runs (external).
UserEdits ==
  /\ script # "ship"
  /\ excludes' \in UserExcludes
  /\ UNCHANGED <<runVars, installed, todo, shipStep, skip, config>>

\* In this step a run that was to install reaches the end of the script.
ShipDone == ~dry /\ (AddRule \/ (FilesInstalled /\ skip))

ShipNext ==
  \/ StartShip
  \/ \E f \in ShipFiles : InstallOne(f)
  \/ FilesInstalled \/ SetConfig \/ AddRule \/ ShipBreakOff
  \/ UserEdits
=============================================================================

----------------------------- MODULE Installers -----------------------------
(***************************************************************************)
(* The three installers on one machine, run one at a time, with what else  *)
(* writes to the files they manage: git pull, the session-start hook of    *)
(* Claude Code and the user.                                               *)
(***************************************************************************)
EXTENDS SkillsInstaller, MemoryInstaller, ShipInstaller

vars == <<runVars, skillVars, memoryVars, shipVars>>

Init == RunInit /\ SkillsInit /\ MemoryInit /\ ShipInit

Next ==
  \/ SkillsNext /\ UNCHANGED <<memoryVars, shipVars>>
  \/ MemoryNext /\ UNCHANGED <<skillVars, shipVars>>
  \/ ShipNext /\ UNCHANGED <<skillVars, memoryVars>>
  \/ Pull /\ UNCHANGED <<skillVars, memoryVars, shipVars>>

Spec == Init /\ [][Next]_vars

-----------------------------------------------------------------------------
\* The variables have their types, each script's steps belong to its run, and no
\* line of the excludes file ever holds the rule twice.
InstallersTypeOK ==
  /\ RunTypeOK /\ SkillsTypeOK /\ MemoryTypeOK /\ ShipTypeOK
  /\ left # {} \/ step # "compare" => script = "skills"
  /\ memStep # "idle" <=> script = "memory"
  /\ shipStep # "idle" <=> script = "ship"
  /\ step # "compare" <=> current # NoSkill

\* An installation that is completed leaves what the vault has, whatever an
\* earlier run that broke off, an older version or a file the new version no
\* longer has had left there; except in skills the hook wrote to meanwhile.
InstalledIsVault ==
  [][/\ SkillsDone =>
          \A s \in Present \ hooked : home'[s] = VaultSkill[version][s]
     /\ ShipDone => installed' = VaultShip[version]]_vars

\* A hand-written CLAUDE.md is never lost: it is still in place or in a backup,
\* across re-runs, runs that broke off and edits by the user.  What the user writes
\* after the last look the script takes at the file, that is the backup or the
\* reading that finds no backup needed, is lost and not claimed.
HandWrittenKept == owed \subseteq backups \cup {target}

\* What the scripts of this machine manage is changed during a run with -Check
\* only by somebody else.
CheckWritesNothing ==
  [][dry => \/ UNCHANGED <<home, target, backups, installed, config, excludes>>
            \/ SessionStarts \/ UserWrites \/ UserEdits]_vars

\* "The installer handles this once per machine": after a run without
\* -SkipGitIgnore git ignores .pipeline/, given that git config has not failed.
PipelineIgnored ==
  [][ShipDone /\ ~skip /\ config' => PipelineRule \in Lines(excludes')]_vars

\* A completed run leaves the rendered template, as "the vault is the source of
\* truth" and "already current" say.
MemoryIsVault == [][MemoryDone => target' = Rendered[version]]_vars

=============================================================================

-------------------------- MODULE SkillsInstaller --------------------------
(***************************************************************************)
(* skills/install.ps1: copies every skill directory of the vault into      *)
(* ~/.claude/skills.  A directory is the set of its files; a file knows    *)
(* whether it lies in the skill's directory or, nested, in a copy of that  *)
(* directory inside it.  The session-start hook of Claude Code, which      *)
(* writes to the same place (protocols/skills.md), is external.            *)
(***************************************************************************)
EXTENDS InstallerBase

CONSTANTS
  Skills,         \* names of skills
  FileNames,      \* names of the files in them
  Contents,       \* and what those contain
  VaultSkill,     \* VaultSkill[v][s]: the files of s in version v, {} if it is not there
  UpstreamSkill,  \* UpstreamSkill[s]: the files the hook copies, {} if it copies none
  NoSkill         \* no skill is being replaced

SkillFiles == [nested: BOOLEAN, name: FileNames, text: Contents]

ASSUME SkillsAssumption ==
  /\ VaultSkill \in [Versions -> [Skills -> SUBSET [nested: {FALSE}, name: FileNames, text: Contents]]]
  /\ UpstreamSkill \in [Skills -> SUBSET [nested: {FALSE}, name: FileNames, text: Contents]]
  /\ NoSkill \notin Skills

VARIABLES
  home,     \* ~/.claude/skills: the directory of each skill, or NoFile
  left,     \* skills the loop has not come to
  current,  \* the skill that is being replaced
  step,     \* what the loop does next: "compare", "remove" or "copy"
  hooked    \* history: skills the hook wrote since the run began

skillVars == <<home, left, current, step, hooked>>

SkillsTypeOK ==
  /\ home \in [Skills -> (SUBSET SkillFiles) \cup {NoFile}]
  /\ left \subseteq Skills
  /\ current \in Skills \cup {NoSkill}
  /\ step \in {"compare", "remove", "copy"}
  /\ hooked \subseteq Skills

\* A new machine.
SkillsInit ==
  /\ home = [s \in Skills |-> NoFile]
  /\ left = {}
  /\ current = NoSkill
  /\ step = "compare"
  /\ hooked = {}

-----------------------------------------------------------------------------
\* Only directories with a SKILL.md are skills.
Present == {s \in Skills : VaultSkill[version][s] # {}}

\* dir with the files of `files` copied over it.
Overlay(dir, files) ==
  LET old == IF dir = NoFile THEN {} ELSE dir
      Same(e, f) == e.nested = f.nested /\ e.name = f.name
  IN  {e \in old : \A f \in files : ~Same(e, f)} \cup files

\* Copy-Item -Recurse creates the destination, or copies into one that exists.
Copied(dir, files) ==
  IF dir = NoFile
  THEN files
  ELSE Overlay(dir, {[f EXCEPT !.nested = TRUE] : f \in files})

\* Skill s is next in the loop; `changed` if it has to be installed.
Visit(s, changed) ==
  /\ script = "skills" /\ step = "compare" /\ s \in left
  /\ left' = left \ {s}
  /\ IF dry \/ ~changed
     THEN UNCHANGED <<current, step>>
     ELSE /\ current' = s
          /\ step' = IF home[s] = NoFile THEN "copy" ELSE "remove"
  /\ UNCHANGED <<runVars, home, hooked>>

\* Back to the state between two runs.
LoopEnds ==
  /\ left' = {} /\ current' = NoSkill /\ step' = "compare" /\ hooked' = {}

-----------------------------------------------------------------------------
StartSkills ==
  /\ Start("skills")
  /\ left' = Present
  /\ UNCHANGED <<home, current, step, hooked>>

\* Mutant: only SKILL.md decides whether a skill has changed.
CompareSkillMd(s) ==
  LET Md(dir) == {f \in dir : f.name = "SKILL.md"}
  IN  Visit(s, IF home[s] = NoFile THEN TRUE ELSE Md(home[s]) # Md(VaultSkill[version][s]))

\* Get-DirHash of both directories.
CompareSkill(s) == Visit(s, home[s] # VaultSkill[version][s])

\* Remove-Item -Recurse.
RemoveSkill ==
  /\ script = "skills" /\ step = "remove"
  /\ home' = [home EXCEPT ![current] = NoFile]
  /\ step' = "copy"
  /\ UNCHANGED <<runVars, left, current, hooked>>

\* Copy-Item -Recurse.
CopySkill ==
  /\ script = "skills" /\ step = "copy"
  /\ home' = [home EXCEPT ![current] = Copied(@, VaultSkill[version][current])]
  /\ step' = "compare"
  /\ current' = NoSkill
  /\ UNCHANGED <<runVars, left, hooked>>

\* An operation fails, perhaps half-way, or the run is interrupted.
SkillsBreakOff ==
  /\ script = "skills"
  /\ \/ UNCHANGED home
     \/ /\ step = "remove"
        /\ \E kept \in SUBSET home[current] : home' = [home EXCEPT ![current] = kept]
     \/ /\ step = "copy"
        /\ \E some \in SUBSET VaultSkill[version][current] :
             home' = [home EXCEPT ![current] = Copied(@, some)]
  /\ Stop
  /\ LoopEnds

FinishSkills ==
  /\ script = "skills" /\ step = "compare" /\ left = {}
  /\ Stop
  /\ LoopEnds
  /\ UNCHANGED home

\* A session starts: its hook copies the skills that have an upstream (external).
SessionStarts ==
  LET copied == {s \in Skills : UpstreamSkill[s] # {}} IN
  /\ home' = [s \in Skills |->
                IF s \in copied THEN Overlay(home[s], UpstreamSkill[s]) ELSE home[s]]
  /\ hooked' = IF script = "skills" THEN hooked \cup copied ELSE {}
  /\ UNCHANGED <<runVars, left, current, step>>

\* In this step a run that was to install reaches the end of the script.
SkillsDone == FinishSkills /\ ~dry

SkillsNext ==
  \/ StartSkills
  \/ \E s \in Skills : CompareSkill(s)
  \/ RemoveSkill \/ CopySkill \/ SkillsBreakOff \/ FinishSkills
  \/ SessionStarts
=============================================================================

-------------------------- MODULE InstallersProofs --------------------------
(***************************************************************************)
(* Theorems about Installers, for any skills, files, versions and texts.   *)
(***************************************************************************)
EXTENDS Installers, SequenceTheorems, TLAPS

-----------------------------------------------------------------------------
(* Hand-written memory files *)

\* What is owed was written by the user, and when Set-Content is next, all of it
\* is in a backup: the file the run has read was not owed, or was backed up.
KeptInv ==
  /\ owed \subseteq UserTexts \ Marked
  /\ HandWrittenKept
  /\ memStep = "write" => owed \subseteq backups

\* The user's file is only ever changed by the memory installer and the user.
LEMMA KeptStep == KeptInv /\ [Next]_vars => KeptInv'
<1> SUFFICES ASSUME KeptInv, [Next]_vars PROVE KeptInv'
  OBVIOUS
<1> USE DEF KeptInv, HandWrittenKept
<1>1. CASE UNCHANGED memoryVars
  BY <1>1 DEF memoryVars
<1>2. CASE StartMemory
  BY <1>2 DEF StartMemory
<1>3. CASE ReadTarget
  <2>1. NoFile \notin owed
    BY MemoryAssumption DEF MemoryTexts
  <2>2. memStep' = "write" => target = NoFile \/ target \in Marked
    BY <1>3 DEF ReadTarget
  <2> QED
    BY <1>3, <2>1, <2>2 DEF ReadTarget
<1>4. CASE BackUp
  BY <1>4 DEF BackUp
<1>5. CASE WriteTarget
  BY <1>5 DEF WriteTarget
<1>6. CASE MemoryBreakOff
  BY <1>6 DEF MemoryBreakOff
<1>7. CASE UserWrites
  BY <1>7 DEF UserWrites
<1> QED
  BY <1>1, <1>2, <1>3, <1>4, <1>5, <1>6, <1>7 DEF Next, MemoryNext, vars

\* A hand-written CLAUDE.md stays in place or in a backup, whatever the order of
\* runs, failures, pulls and edits.
THEOREM HandWrittenSafe == Spec => []HandWrittenKept
<1>1. Init => KeptInv
  BY DEF Init, MemoryInit, KeptInv, HandWrittenKept
<1>2. KeptInv => HandWrittenKept
  BY DEF KeptInv
<1> QED
  BY <1>1, <1>2, KeptStep, PTL DEF Spec

-----------------------------------------------------------------------------
(* A completed installation is the vault's *)

\* What the loop over the skills has done so far: a skill it has passed is the
\* vault's, and before it copies one there is nothing in the way.
SkillsLoopInv ==
  /\ DOMAIN home = Skills
  /\ left \subseteq Skills
  /\ step \in {"compare", "remove", "copy"}
  /\ step # "compare" => script = "skills" /\ ~dry /\ current \in Skills
  /\ step = "copy" => current \in hooked \/ home[current] = NoFile
  /\ script = "skills" /\ ~dry =>
       \A s \in Present \ (left \cup hooked) :
         (step # "compare" /\ s = current) \/ home[s] = VaultSkill[version][s]

\* The same of the loop over the ship files.
ShipLoopInv ==
  /\ version \in Versions
  /\ installed \in [ShipFiles -> ShipTexts \cup {NoFile, "partial"}]
  /\ script = "ship" /\ shipStep \in {"config", "rule"} => todo = {}
  /\ script = "ship" /\ ~dry =>
       \A f \in ShipFiles \ todo : installed[f] = VaultShip[version][f]

\* No other actor touches a run of the skills installer, except the hook.
LEMMA SkillsLoopStep == SkillsLoopInv /\ [Next]_vars => SkillsLoopInv'
<1> SUFFICES ASSUME SkillsLoopInv, [Next]_vars PROVE SkillsLoopInv'
  OBVIOUS
<1> USE DEF SkillsLoopInv, skillVars, runVars, Present
<1>1. CASE UNCHANGED vars
  BY <1>1 DEF vars
<1>2. CASE MemoryNext /\ UNCHANGED <<skillVars, shipVars>>
  BY <1>2 DEF MemoryNext, StartMemory, ReadTarget, BackUp, WriteTarget,
              MemoryBreakOff, UserWrites, Start, Stop
<1>3. CASE ShipNext /\ UNCHANGED <<skillVars, memoryVars>>
  BY <1>3 DEF ShipNext, StartShip, InstallOne, FilesInstalled, SetConfig, AddRule,
              ShipBreakOff, UserEdits, Start, Stop
<1>4. CASE Pull /\ UNCHANGED <<skillVars, memoryVars, shipVars>>
  BY <1>4 DEF Pull
<1>5. CASE StartSkills
  BY <1>5 DEF StartSkills, Start
<1>6. ASSUME NEW s \in Skills, CompareSkill(s) PROVE SkillsLoopInv'
  BY <1>6 DEF CompareSkill, Visit
<1>7. CASE RemoveSkill
  BY <1>7 DEF RemoveSkill
<1>8. CASE CopySkill
  BY <1>8 DEF CopySkill, Copied
<1>9. CASE SkillsBreakOff
  BY <1>9 DEF SkillsBreakOff, Stop, LoopEnds
<1>10. CASE FinishSkills
  BY <1>10 DEF FinishSkills, Stop, LoopEnds
<1>11. CASE SessionStarts
  BY <1>11 DEF SessionStarts
<1> QED
  BY <1>1, <1>2, <1>3, <1>4, <1>5, <1>6, <1>7, <1>8, <1>9, <1>10, <1>11
     DEF Next, SkillsNext

\* No other actor touches a run of the ship installer.
LEMMA ShipLoopStep == ShipLoopInv /\ [Next]_vars => ShipLoopInv'
<1> SUFFICES ASSUME ShipLoopInv, [Next]_vars PROVE ShipLoopInv'
  OBVIOUS
<1> USE VersionAssumption, ShipAssumption DEF ShipLoopInv, shipVars, runVars, Versions
<1>1. CASE UNCHANGED vars
  BY <1>1 DEF vars
<1>2. CASE MemoryNext /\ UNCHANGED <<skillVars, shipVars>>
  BY <1>2 DEF MemoryNext, StartMemory, ReadTarget, BackUp, WriteTarget,
              MemoryBreakOff, UserWrites, Start, Stop
<1>3. CASE SkillsNext /\ UNCHANGED <<memoryVars, shipVars>>
  BY <1>3 DEF SkillsNext, StartSkills, CompareSkill, Visit, RemoveSkill, CopySkill,
              SkillsBreakOff, FinishSkills, SessionStarts, Start, Stop
<1>4. CASE Pull /\ UNCHANGED <<skillVars, memoryVars, shipVars>>
  BY <1>4 DEF Pull
<1>5. CASE StartShip
  BY <1>5 DEF StartShip, Start
<1>6. ASSUME NEW f \in ShipFiles, InstallOne(f) PROVE ShipLoopInv'
  BY <1>6 DEF InstallOne
<1>7. CASE FilesInstalled
  BY <1>7 DEF FilesInstalled, Stop
<1>8. CASE SetConfig
  BY <1>8 DEF SetConfig
<1>9. CASE AddRule
  BY <1>9 DEF AddRule, Stop
<1>10. CASE ShipBreakOff
  BY <1>10 DEF ShipBreakOff, Stop
<1>11. CASE UserEdits
  BY <1>11 DEF UserEdits
<1> QED
  BY <1>1, <1>2, <1>3, <1>4, <1>5, <1>6, <1>7, <1>8, <1>9, <1>10, <1>11
     DEF Next, ShipNext

\* Whatever an earlier run, an older version or a failure left behind, a run that
\* reaches the end leaves the vault's files.
THEOREM InstallationExact == Spec => InstalledIsVault
<1> DEFINE Inv == SkillsLoopInv /\ ShipLoopInv
<1>1. Init => Inv
  BY VersionAssumption
     DEF Init, RunInit, SkillsInit, ShipInit, SkillsLoopInv, ShipLoopInv, Versions
<1>2. Inv /\ [Next]_vars => Inv'
  BY SkillsLoopStep, ShipLoopStep
<1>3. Inv /\ SkillsDone => \A s \in Present \ hooked : home'[s] = VaultSkill[version][s]
  BY DEF SkillsDone, FinishSkills, SkillsLoopInv, Stop
<1>4. Inv /\ ShipDone => installed' = VaultShip[version]
  <2> SUFFICES ASSUME Inv, ShipDone PROVE installed' = VaultShip[version]
    OBVIOUS
  <2>1. todo = {} /\ script = "ship" /\ ~dry /\ installed' = installed
    BY DEF ShipDone, AddRule, FilesInstalled, ShipLoopInv
  <2>2. installed \in [ShipFiles -> ShipTexts \cup {NoFile, "partial"}]
    BY DEF ShipLoopInv
  <2>3. VaultShip[version] \in [ShipFiles -> ShipTexts]
    BY ShipAssumption DEF ShipLoopInv
  <2>4. \A f \in ShipFiles : installed[f] = VaultShip[version][f]
    BY <2>1 DEF ShipLoopInv
  <2> QED
    BY <2>1, <2>2, <2>3, <2>4
<1> QED
  BY <1>1, <1>2, <1>3, <1>4, PTL DEF Spec, InstalledIsVault

-----------------------------------------------------------------------------
(* A run with -Check *)

\* A dry run never comes to an operation that writes.
DryInv ==
  /\ dry \/ script # "skills" => step = "compare"
  /\ memStep \in {"backup", "write"} => script = "memory" /\ ~dry

LEMMA DryStep == DryInv /\ [Next]_vars => DryInv'
<1> SUFFICES ASSUME DryInv, [Next]_vars PROVE DryInv'
  OBVIOUS
<1> USE DEF DryInv, skillVars, memoryVars, shipVars, runVars
<1>1. CASE UNCHANGED vars
  BY <1>1 DEF vars
<1>2. CASE Pull /\ UNCHANGED <<skillVars, memoryVars, shipVars>>
  BY <1>2 DEF Pull
<1>3. CASE SkillsNext /\ UNCHANGED <<memoryVars, shipVars>>
  BY <1>3 DEF SkillsNext, StartSkills, CompareSkill, Visit, RemoveSkill, CopySkill,
              SkillsBreakOff, FinishSkills, SessionStarts, Start, Stop, LoopEnds
<1>4. CASE MemoryNext /\ UNCHANGED <<skillVars, shipVars>>
  BY <1>4 DEF MemoryNext, StartMemory, ReadTarget, BackUp, WriteTarget,
              MemoryBreakOff, UserWrites, Start, Stop
<1>5. CASE ShipNext /\ UNCHANGED <<skillVars, memoryVars>>
  BY <1>5 DEF ShipNext, StartShip, InstallOne, FilesInstalled, SetConfig, AddRule,
              ShipBreakOff, UserEdits, Start, Stop
<1> QED
  BY <1>1, <1>2, <1>3, <1>4, <1>5 DEF Next

LEMMA ConfigStep == config \in BOOLEAN /\ [Next]_vars => config' \in BOOLEAN
<1> SUFFICES ASSUME config \in BOOLEAN, [Next]_vars PROVE config' \in BOOLEAN
  OBVIOUS
<1>1. CASE config' = config
  BY <1>1
<1>2. CASE SetConfig
  BY <1>2, Zenon DEF SetConfig
<1>3. config' = config \/ SetConfig
  BY Zenon DEF Next, vars, shipVars, ShipNext, StartShip, InstallOne, FilesInstalled,
               AddRule, ShipBreakOff, UserEdits
<1> QED
  BY <1>1, <1>2, <1>3

\* With -Check none of the three scripts changes anything it manages, whatever
\* sessions and users change meanwhile.
THEOREM CheckOnlyReads == Spec => CheckWritesNothing
<1> DEFINE Managed == <<home, target, backups, installed, config, excludes>>
<1>1. Init => DryInv /\ config \in BOOLEAN
  <2>1. Init => config \in BOOLEAN
    BY Zenon DEF Init, ShipInit
  <2> QED
    BY <2>1 DEF Init, RunInit, SkillsInit, MemoryInit, DryInv
<1>2. DryInv /\ config \in BOOLEAN /\ [Next]_vars => (DryInv /\ config \in BOOLEAN)'
  BY DryStep, ConfigStep
<1>3. ASSUME DryInv, config \in BOOLEAN, [Next]_vars, dry
      PROVE  UNCHANGED Managed \/ SessionStarts \/ UserWrites \/ UserEdits
  <2> USE <1>3 DEF DryInv
  <2>1. CASE UNCHANGED vars
    BY <2>1 DEF vars, skillVars, memoryVars, shipVars
  <2>2. CASE Pull /\ UNCHANGED <<skillVars, memoryVars, shipVars>>
    BY <2>2 DEF skillVars, memoryVars, shipVars
  <2>3. CASE SkillsNext /\ UNCHANGED <<memoryVars, shipVars>>
    BY <2>3 DEF memoryVars, shipVars, SkillsNext, StartSkills, CompareSkill, Visit,
                RemoveSkill, CopySkill, SkillsBreakOff, FinishSkills
  <2>4. CASE MemoryNext /\ UNCHANGED <<skillVars, shipVars>>
    BY <2>4 DEF skillVars, shipVars, MemoryNext, StartMemory, ReadTarget, BackUp,
                WriteTarget, MemoryBreakOff
  <2>5. CASE ShipNext /\ UNCHANGED <<skillVars, memoryVars>>
    <3>1. CASE SetConfig
      <4>1. config' = config
        BY <3>1, Zenon DEF SetConfig
      <4> QED
        BY <2>5, <3>1, <4>1 DEF SetConfig, skillVars, memoryVars
    <3> QED
      BY <2>5, <3>1 DEF skillVars, memoryVars, ShipNext, StartShip, InstallOne,
                        FilesInstalled, AddRule, ShipBreakOff
  <2> QED
    BY <2>1, <2>2, <2>3, <2>4, <2>5 DEF Next
<1>4. DryInv /\ config \in BOOLEAN /\ [Next]_vars =>
        [dry => \/ UNCHANGED Managed
                \/ SessionStarts \/ UserWrites \/ UserEdits]_vars
  BY <1>3
<1> QED
  BY <1>1, <1>2, <1>4, PTL DEF Spec, CheckWritesNothing

-----------------------------------------------------------------------------
(* Types *)

\* A line that is not terminated was written by the user: the rule always is.
ExcludesInv ==
  excludes # NoFile =>
    /\ excludes \in [lines: Seq(ExcludesLines), terminated: BOOLEAN]
    /\ ~excludes.terminated => excludes.lines \in Seq(UserLines) \ {<<>>}

LEMMA UserExcludesTyped ==
  ASSUME NEW e \in UserExcludes
  PROVE  /\ e \in [lines: Seq(ExcludesLines), terminated: BOOLEAN]
         /\ ~e.terminated => e.lines \in Seq(UserLines) \ {<<>>}
BY ShipAssumption DEF ExcludesLines

\* The rule is a line of its own, or ends the last line of the user's.
LEMMA WithRuleTyped == ExcludesInv /\ excludes' = WithRule(excludes) => ExcludesInv'
<1> SUFFICES ASSUME ExcludesInv, excludes' = WithRule(excludes) PROVE ExcludesInv'
  OBVIOUS
<1>1. PipelineRule \in ExcludesLines /\ \A l \in UserLines : l \o PipelineRule \in ExcludesLines
  BY DEF ExcludesLines
<1>2. CASE excludes = NoFile
  <2>1. excludes' = [lines |-> <<PipelineRule>>, terminated |-> TRUE]
    BY <1>2 DEF WithRule
  <2> QED
    BY <1>1, <2>1 DEF ExcludesInv
<1>3. CASE excludes # NoFile /\ excludes.terminated
  <2>1. excludes' = [lines |-> Append(excludes.lines, PipelineRule), terminated |-> TRUE]
    BY <1>3 DEF WithRule
  <2>2. Append(excludes.lines, PipelineRule) \in Seq(ExcludesLines)
    BY <1>1, <1>3 DEF ExcludesInv
  <2> QED
    BY <2>1, <2>2 DEF ExcludesInv
<1>4. CASE excludes # NoFile /\ ~excludes.terminated
  <2> DEFINE n == Len(excludes.lines)
             line == excludes.lines[n] \o PipelineRule
  <2>1. excludes' = [lines |-> [excludes.lines EXCEPT ![n] = line], terminated |-> TRUE]
    BY <1>4 DEF WithRule
  <2>2. excludes.lines \in Seq(UserLines) /\ n \in 1..n
    BY <1>4 DEF ExcludesInv
  <2>3. excludes.lines \in Seq(ExcludesLines) /\ line \in ExcludesLines
    BY <1>1, <1>4, <2>2 DEF ExcludesInv
  <2>4. [excludes.lines EXCEPT ![n] = line] \in Seq(ExcludesLines)
    BY <2>2, <2>3, ExceptSeq
  <2> QED
    BY <2>1, <2>4 DEF ExcludesInv
<1> QED
  BY <1>2, <1>3, <1>4

\* The run, and the loop over the skills.
SkillsTypeInv ==
  /\ RunTypeOK /\ SkillsTypeOK
  /\ left # {} \/ step # "compare" => script = "skills"
  /\ step # "compare" <=> current # NoSkill
  /\ step = "remove" => home[current] \in SUBSET SkillFiles

LEMMA CopiedTyped ==
  ASSUME NEW dir \in (SUBSET SkillFiles) \cup {NoFile},
         NEW files \in SUBSET [nested: {FALSE}, name: FileNames, text: Contents]
  PROVE  /\ Copied(dir, files) \in (SUBSET SkillFiles) \cup {NoFile}
         /\ Overlay(dir, files) \in SUBSET SkillFiles
<1>1. files \subseteq SkillFiles /\ {[f EXCEPT !.nested = TRUE] : f \in files} \subseteq SkillFiles
  BY DEF SkillFiles
<1>2. ASSUME NEW some \in SUBSET SkillFiles
      PROVE  Overlay(dir, some) \in SUBSET SkillFiles
  <2>1. (IF dir = NoFile THEN {} ELSE dir) \subseteq SkillFiles
    OBVIOUS
  <2> QED
    BY <2>1 DEF Overlay
<1> QED
  BY <1>1, <1>2 DEF Copied

LEMMA VaultSkillTyped ==
  ASSUME SkillsTypeInv, NEW s \in Skills
  PROVE  /\ VaultSkill[version][s] \in SUBSET [nested: {FALSE}, name: FileNames, text: Contents]
         /\ home[s] \in (SUBSET SkillFiles) \cup {NoFile}
<1>1. version \in Versions /\ home \in [Skills -> (SUBSET SkillFiles) \cup {NoFile}]
  BY DEF SkillsTypeInv, RunTypeOK, SkillsTypeOK
<1>2. VaultSkill[version] \in [Skills -> SUBSET [nested: {FALSE}, name: FileNames, text: Contents]]
  BY <1>1, SkillsAssumption
<1> QED
  BY <1>1, <1>2

LEMMA SkillsTypeStep == SkillsTypeInv /\ [Next]_vars => SkillsTypeInv'
<1> SUFFICES ASSUME SkillsTypeInv, [Next]_vars PROVE SkillsTypeInv'
  OBVIOUS
<1> USE DEF SkillsTypeInv, RunTypeOK, SkillsTypeOK, skillVars, runVars, Scripts, Start, Stop,
            LoopEnds
<1>1. CASE UNCHANGED vars
  BY <1>1 DEF vars
<1>2. CASE MemoryNext /\ UNCHANGED <<skillVars, shipVars>>
  BY <1>2 DEF MemoryNext, StartMemory, ReadTarget, BackUp, WriteTarget,
              MemoryBreakOff, UserWrites
<1>3. CASE ShipNext /\ UNCHANGED <<skillVars, memoryVars>>
  BY <1>3 DEF ShipNext, StartShip, InstallOne, FilesInstalled, SetConfig, AddRule,
              ShipBreakOff, UserEdits
<1>4. CASE Pull /\ UNCHANGED <<skillVars, memoryVars, shipVars>>
  BY <1>4, VersionAssumption DEF Pull, Versions
<1>5. CASE StartSkills
  BY <1>5 DEF StartSkills, Present
<1>6. ASSUME NEW s \in Skills, CompareSkill(s) PROVE SkillsTypeInv'
  <2>1. CASE UNCHANGED <<current, step>>
    BY <1>6, <2>1 DEF CompareSkill, Visit
  <2>2. CASE current' = s /\ step' \in {"copy", "remove"}
    BY <1>6, <2>2, SkillsAssumption DEF CompareSkill, Visit
  <2>3. UNCHANGED <<current, step>> \/ (current' = s /\ step' \in {"copy", "remove"})
    <3>1. CASE dry \/ ~(home[s] # VaultSkill[version][s])
      BY <1>6, <3>1, Zenon DEF CompareSkill, Visit
    <3>2. CASE ~(dry \/ ~(home[s] # VaultSkill[version][s]))
      BY <1>6, <3>2 DEF CompareSkill, Visit
    <3> QED
      BY <3>1, <3>2
  <2> QED
    BY <2>1, <2>2, <2>3
<1>7. CASE RemoveSkill
  BY <1>7 DEF RemoveSkill
<1>8. CASE CopySkill
  <2>1. current \in Skills
    BY <1>8 DEF CopySkill
  <2>2. Copied(home[current], VaultSkill[version][current]) \in (SUBSET SkillFiles) \cup {NoFile}
    BY <2>1, CopiedTyped, VaultSkillTyped
  <2> QED
    BY <1>8, <2>1, <2>2 DEF CopySkill
<1>9. CASE SkillsBreakOff
  <2>1. home' \in [Skills -> (SUBSET SkillFiles) \cup {NoFile}]
    <3>1. CASE UNCHANGED home
      BY <3>1
    <3>2. ASSUME step = "remove", NEW kept \in SUBSET home[current],
                 home' = [home EXCEPT ![current] = kept]
          PROVE  home' \in [Skills -> (SUBSET SkillFiles) \cup {NoFile}]
      BY <3>2, SkillsAssumption
    <3>3. ASSUME step = "copy", NEW some \in SUBSET VaultSkill[version][current],
                 home' = [home EXCEPT ![current] = Copied(@, some)]
          PROVE  home' \in [Skills -> (SUBSET SkillFiles) \cup {NoFile}]
      <4>1. current \in Skills
        BY <3>3
      <4>2. Copied(home[current], some) \in (SUBSET SkillFiles) \cup {NoFile}
        <5>1. some \in SUBSET [nested: {FALSE}, name: FileNames, text: Contents]
          BY <3>3, <4>1, VaultSkillTyped
        <5> QED
          BY <4>1, <5>1, CopiedTyped, VaultSkillTyped
      <4> QED
        BY <3>3, <4>1, <4>2
    <3> QED
      BY <1>9, <3>1, <3>2, <3>3 DEF SkillsBreakOff
  <2> QED
    BY <1>9, <2>1 DEF SkillsBreakOff
<1>10. CASE FinishSkills
  BY <1>10 DEF FinishSkills
<1>11. CASE SessionStarts
  <2>1. \A s \in Skills : Overlay(home[s], UpstreamSkill[s]) \in SUBSET SkillFiles
    BY CopiedTyped, SkillsAssumption
  <2> QED
    BY <1>11, <2>1 DEF SessionStarts
<1> QED
  BY <1>1, <1>2, <1>3, <1>4, <1>5, <1>6, <1>7, <1>8, <1>9, <1>10, <1>11
     DEF Next, SkillsNext

\* The memory installer.
MemoryTypeInv ==
  /\ RunTypeOK /\ MemoryTypeOK
  /\ memStep # "idle" <=> script = "memory"

LEMMA MemoryTypeStep ==
  SkillsTypeInv /\ SkillsTypeInv' /\ MemoryTypeInv /\ [Next]_vars => MemoryTypeInv'
<1> SUFFICES ASSUME SkillsTypeInv, SkillsTypeInv', MemoryTypeInv, [Next]_vars
             PROVE  MemoryTypeInv'
  OBVIOUS
<1>0. RunTypeOK'
  BY DEF SkillsTypeInv
<1> USE <1>0 DEF MemoryTypeInv, MemoryTypeOK, memoryVars, runVars, Start, Stop
<1>1. CASE UNCHANGED vars
  BY <1>1 DEF vars
<1>2. CASE SkillsNext /\ UNCHANGED <<memoryVars, shipVars>>
  BY <1>2 DEF SkillsNext, StartSkills, CompareSkill, Visit, RemoveSkill, CopySkill,
              SkillsBreakOff, FinishSkills, SessionStarts
<1>3. CASE ShipNext /\ UNCHANGED <<skillVars, memoryVars>>
  BY <1>3 DEF ShipNext, StartShip, InstallOne, FilesInstalled, SetConfig, AddRule,
              ShipBreakOff, UserEdits
<1>4. CASE Pull /\ UNCHANGED <<skillVars, memoryVars, shipVars>>
  BY <1>4 DEF Pull
<1>5. CASE StartMemory
  BY <1>5 DEF StartMemory
<1>6. CASE ReadTarget
  BY <1>6 DEF ReadTarget
<1>7. CASE BackUp
  BY <1>7 DEF BackUp
<1>8. CASE WriteTarget
  BY <1>8 DEF WriteTarget, MemoryTexts, RunTypeOK
<1>9. CASE MemoryBreakOff
  BY <1>9 DEF MemoryBreakOff, MemoryTexts
<1>10. CASE UserWrites
  BY <1>10 DEF UserWrites, MemoryTexts
<1> QED
  BY <1>1, <1>2, <1>3, <1>4, <1>5, <1>6, <1>7, <1>8, <1>9, <1>10 DEF Next, MemoryNext

\* The ship installer.
ShipTypeInv ==
  /\ RunTypeOK /\ ShipTypeOK /\ ExcludesInv
  /\ shipStep # "idle" <=> script = "ship"

LEMMA ShipTypeStep ==
  SkillsTypeInv /\ SkillsTypeInv' /\ ShipTypeInv /\ [Next]_vars => ShipTypeInv'
<1> SUFFICES ASSUME SkillsTypeInv, SkillsTypeInv', ShipTypeInv, [Next]_vars
             PROVE  ShipTypeInv'
  OBVIOUS
<1>0. RunTypeOK'
  BY DEF SkillsTypeInv
<1> SUFFICES /\ installed' \in [ShipFiles -> ShipTexts \cup {NoFile, "partial"}]
             /\ todo' \subseteq ShipFiles
             /\ shipStep' \in {"idle", "install", "config", "rule"}
             /\ skip' \in BOOLEAN /\ config' \in BOOLEAN
             /\ ExcludesInv'
             /\ shipStep' # "idle" <=> script' = "ship"
  BY <1>0 DEF ShipTypeInv, ShipTypeOK, ExcludesInv
<1> USE DEF ShipTypeInv, ShipTypeOK, shipVars, runVars, Start, Stop
<1>1. CASE UNCHANGED shipVars /\ (script' = "ship" <=> script = "ship")
  <2>1. config' \in BOOLEAN /\ skip' \in BOOLEAN
    BY <1>1, Zenon
  <2> QED
    BY <1>1, <2>1 DEF ExcludesInv
<1>2. CASE UNCHANGED vars
  BY <1>1, <1>2 DEF vars
<1>3. CASE SkillsNext /\ UNCHANGED <<memoryVars, shipVars>>
  BY <1>1, <1>3 DEF SkillsNext, StartSkills, CompareSkill, Visit, RemoveSkill, CopySkill,
                    SkillsBreakOff, FinishSkills, SessionStarts
<1>4. CASE MemoryNext /\ UNCHANGED <<skillVars, shipVars>>
  BY <1>1, <1>4 DEF MemoryNext, StartMemory, ReadTarget, BackUp, WriteTarget,
                    MemoryBreakOff, UserWrites
<1>5. CASE Pull /\ UNCHANGED <<skillVars, memoryVars, shipVars>>
  BY <1>1, <1>5 DEF Pull
<1>6. CASE StartShip
  <2>1. config' \in BOOLEAN
    BY <1>6, Zenon DEF StartShip
  <2> QED
    BY <1>6, <2>1 DEF StartShip, ExcludesInv
<1>7. ASSUME NEW f \in ShipFiles, InstallOne(f) PROVE ShipTypeInv'
  <2>1. config' \in BOOLEAN /\ skip' \in BOOLEAN
    BY <1>7, Zenon DEF InstallOne
  <2>2. VaultShip[version][f] \in ShipTexts
    <3>1. VaultShip[version] \in [ShipFiles -> ShipTexts]
      BY ShipAssumption DEF RunTypeOK
    <3> QED
      BY <3>1
  <2>3. installed' \in [ShipFiles -> ShipTexts \cup {NoFile, "partial"}]
    <3>1. CASE dry
      BY <1>7, <3>1 DEF InstallOne
    <3>2. CASE ~dry
      BY <1>7, <2>2, <3>2 DEF InstallOne
    <3> QED
      BY <3>1, <3>2
  <2> QED
    BY <1>0, <1>7, <2>1, <2>3 DEF InstallOne, ExcludesInv
<1>8. CASE FilesInstalled
  <2>1. config' \in BOOLEAN /\ skip' \in BOOLEAN
    BY <1>8, Zenon DEF FilesInstalled
  <2>2. shipStep' \in {"idle", "install", "config", "rule"}
        /\ (shipStep' # "idle" <=> script' = "ship")
    <3>1. CASE skip
      BY <1>8, <3>1 DEF FilesInstalled
    <3>2. CASE ~skip
      BY <1>8, <3>2 DEF FilesInstalled
    <3> QED
      BY <3>1, <3>2
  <2> QED
    BY <1>8, <2>1, <2>2 DEF FilesInstalled, ExcludesInv
<1>9. CASE SetConfig
  <2>1. config' \in BOOLEAN /\ skip' \in BOOLEAN
    BY <1>9, Zenon DEF SetConfig
  <2> QED
    BY <1>9, <2>1 DEF SetConfig, ExcludesInv
<1>10. CASE AddRule
  <2>1. config' \in BOOLEAN /\ skip' \in BOOLEAN
    BY <1>10, Zenon DEF AddRule
  <2>2. ExcludesInv'
    <3>1. CASE excludes' = excludes
      BY <3>1 DEF ExcludesInv
    <3>2. CASE excludes' = WithRule(excludes)
      BY <3>2, WithRuleTyped
    <3> QED
      BY <1>10, <3>1, <3>2, Zenon DEF AddRule
  <2> QED
    BY <1>10, <2>1, <2>2 DEF AddRule
<1>11. CASE ShipBreakOff
  <2>1. config' \in BOOLEAN
    BY <1>11, Zenon DEF ShipBreakOff
  <2>2. installed' \in [ShipFiles -> ShipTexts \cup {NoFile, "partial"}]
    BY <1>11 DEF ShipBreakOff
  <2> QED
    BY <1>11, <2>1, <2>2 DEF ShipBreakOff, ExcludesInv
<1>12. CASE UserEdits
  <2>1. config' \in BOOLEAN /\ skip' \in BOOLEAN
    BY <1>12, Zenon DEF UserEdits
  <2>2. ExcludesInv'
    BY <1>12, UserExcludesTyped DEF UserEdits, ExcludesInv
  <2> QED
    BY <1>12, <2>1, <2>2 DEF UserEdits
<1> QED
  BY <1>2, <1>3, <1>4, <1>5, <1>6, <1>7, <1>8, <1>9, <1>10, <1>11, <1>12 DEF Next, ShipNext

\* Every variable keeps its type, and the steps of a script are taken only in a
\* run of that script: no break-off or dry run leaves one behind.
THEOREM InstallersTypeCorrect == Spec => []InstallersTypeOK
<1> DEFINE Inv == SkillsTypeInv /\ MemoryTypeInv /\ ShipTypeInv
<1>1. Init => Inv
  <2> SUFFICES ASSUME Init PROVE Inv
    OBVIOUS
  <2>1. SkillsTypeInv
    <3>1. RunTypeOK
      <4>1. 1 \in Versions
        BY VersionAssumption DEF Versions
      <4>2. dry \in BOOLEAN
        BY Zenon DEF Init, RunInit
      <4> QED
        BY <4>1, <4>2 DEF Init, RunInit, RunTypeOK
    <3>2. SkillsTypeOK
      BY DEF Init, SkillsInit, SkillsTypeOK
    <3>3. left = {} /\ step = "compare" /\ current = NoSkill
      BY DEF Init, SkillsInit
    <3> QED
      BY <3>1, <3>2, <3>3 DEF SkillsTypeInv
  <2>2. MemoryTypeInv
    BY <2>1 DEF Init, RunInit, MemoryInit, SkillsTypeInv, MemoryTypeInv, MemoryTypeOK, MemoryTexts
  <2>3. ShipTypeInv
    <3>1. config \in BOOLEAN /\ skip \in BOOLEAN
      BY Zenon DEF Init, ShipInit
    <3>2. ExcludesInv
      BY UserExcludesTyped DEF Init, ShipInit, ExcludesInv
    <3> QED
      BY <2>1, <3>1, <3>2 DEF Init, RunInit, ShipInit, SkillsTypeInv, ShipTypeInv, ShipTypeOK,
                              ExcludesInv
  <2> QED
    BY <2>1, <2>2, <2>3
<1>2. Inv /\ [Next]_vars => Inv'
  BY SkillsTypeStep, MemoryTypeStep, ShipTypeStep
<1>3. Inv => InstallersTypeOK
  BY DEF SkillsTypeInv, MemoryTypeInv, ShipTypeInv, InstallersTypeOK
<1> QED
  BY <1>1, <1>2, <1>3, PTL DEF Spec
=============================================================================

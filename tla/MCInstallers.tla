---------------------------- MODULE MCInstallers ----------------------------
(***************************************************************************)
(* An instance of Installers: two versions of the vault.                   *)
(***************************************************************************)
EXTENDS Installers

File(n, t) == [nested |-> FALSE, name |-> n, text |-> t]

MCSkills == {"own", "shared"}
MCFileNames == {"SKILL.md", "notes.md"}
MCContents == {"v1", "v2", "upstream"}

\* "own" exists in the vault only and loses a file in the second version;
\* "shared" appears in the second version and has an upstream.
MCVaultSkill ==
  <<[own |-> {File("SKILL.md", "v1"), File("notes.md", "v1")}, shared |-> {}],
    [own |-> {File("SKILL.md", "v1")}, shared |-> {File("SKILL.md", "v2")}]>>
MCUpstreamSkill == [own |-> {}, shared |-> {File("SKILL.md", "upstream")}]

\* The second version of the template differs from the first in case only.
MCRendered == <<"first", "FIRST">>
MCUserTexts == {"mine", "edited"}
MCMarked == {"first", "FIRST", "edited"}
MCFolded == [first |-> "first", FIRST |-> "first", mine |-> "mine",
             edited |-> "edited", part |-> "part"]

\* The loop over the files is the one of the skills; one file is enough here.
MCShipFiles == {"ship.md"}
MCVaultShip == <<[f \in MCShipFiles |-> "v1"], [f \in MCShipFiles |-> "v2"]>>
\* The user's last line may lack a line break; no file is the other possibility.
MCUserExcludes == {[lines |-> <<<<"*.swp">>>>, terminated |-> FALSE]}
=============================================================================

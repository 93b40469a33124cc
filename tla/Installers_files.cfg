SPECIFICATION Spec
CONSTANTS
  LastVersion = 2
  NoFile = NoFile
  NoSkill = NoSkill
  Skills <- MCSkills
  FileNames <- MCFileNames
  Contents <- MCContents
  VaultSkill <- MCVaultSkill
  UpstreamSkill <- MCUpstreamSkill
  Rendered <- MCRendered
  UserTexts <- MCUserTexts
  Marked <- MCMarked
  Folded <- MCFolded
  PartOf = "part"
  ShipFiles <- MCShipFiles
  ShipTexts = {"v1", "v2"}
  VaultShip <- MCVaultShip
  UserExcludes <- MCUserExcludes
INVARIANTS
  InstallersTypeOK
  HandWrittenKept
PROPERTIES
  InstalledIsVault
  CheckWritesNothing
CHECK_DEADLOCK FALSE

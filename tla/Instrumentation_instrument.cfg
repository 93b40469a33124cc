CONSTANTS
  None = None
  Absent = Absent
  NoTime = NoTime
  BlankArn = BlankArn
  LastLocation = 2
  Scope = {1, 2}
  Commands <- MCCommands
  Reported = {"ACTIVE", "READY", "ERROR"}
  MaxArns = 1
  MaxAttempts = 2
  MaxClock = 2
  MaxEvents = 2
SPECIFICATION FairSpec
INVARIANTS
  InstrTypeOK
  ExitZeroMeansDone
  ActiveIsOfThisGeneration
  VerdictFollowsEvents
  ListingComplete
PROPERTY CommandEnds

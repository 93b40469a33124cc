SPECIFICATION ScriptsSpec
CONSTANTS
  None = None
  Absent = Absent
  NoTime = NoTime
  NotANumber = NotANumber
  Refused = Refused
  Pending = Pending
  InputsOf <- MCInputsOf
  SnapshotArgs <- MCSnapshotArgs
  Logs <- MCLogs
  SearchBefore = 10
  SearchAfter = 120
  SampleBefore = 60
  SampleAfter = 180
  MaxArchiveBytes = 3
  MaxArchiveEntries = 3
  MaxUncompressedBytes = 6
  MaxEntryBytes = 3
  MaxCompressionRatio = 2
  Cap = 3
  ChunkBytes = 2
  MaxBody = 5
  MaxRedirects = 2
  MaxRuns = 2
  NoAnswer = NoAnswer
  Missing = Missing
CHECK_DEADLOCK FALSE
INVARIANTS
  ScriptsTypeOK
  CreatedCanFire
  CreatedIsFound
  CreatedIsShown
  SummaryIsFaithful
  
  ArchiveIsFiltered
  ArchiveLimitsHold
  ManifestIsHonest
  CapIsExact
  ExitZeroIsAnAnswer
  WindowIsSound
  VerdictOnlyAfterGates
PROPERTIES
  SearchEnds

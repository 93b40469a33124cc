SPECIFICATION FairSpec
CONSTANTS
  c1 = c1
  c2 = c2
  app = app
  repo = repo
  page = page
  zipped = zipped
  u1 = u1
  u2 = u2
  l1 = l1
  l2 = l2
  l3 = l3
  Calls <- MCCalls
  Directories = {app}
  Repositories = {repo}
  OtherUrls = {page}
  ContentOf <- MCContentOf
  Refused = Refused
  UploadIds <- MCUploads
  LaunchIds <- MCLaunches
  MaxAttempts = 2
  Earlier = {l1}
  Nobody = Nobody
  NoSource = NoSource
  NoUpload = NoUpload
  NoLaunch = NoLaunch
  NoArchive = NoArchive
CHECK_DEADLOCK FALSE
INVARIANTS
  TypeOK
  UploadComesFirst
PROPERTIES
  LedgerImplemented
  InvocationEnds
  WatchEnds

SPECIFICATION FairSpec
CONSTANTS
  Procs = {p1, p2}
  Servers = {s1}
  Prior = prior
  PriorSessions <- MCPriorSessions
  TokenExpiryBuffer = 1
  MaxSessionLifetime = 3
  CallbackTimeout = 1
  TokenLifetimes <- MCTokenLifetimes
  SecretLifetimes = {0}
  MaxDelay = 1
  Rotates = TRUE
  MaxRotations = 2
  MaxTime = 2
  NoSession = NoSession
  NoGrant = NoGrant
  NoServer = NoServer
CHECK_DEADLOCK FALSE
PROPERTIES
  WaitReturns
  ServerExitsUnlessPeerSilent
  RegisterImplemented

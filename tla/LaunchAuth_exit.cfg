SPECIFICATION FairSpec
CONSTANTS
  Procs = {p1}
  Servers = {s1}
  Prior = prior
  PriorSessions <- MCPriorSessions
  TokenExpiryBuffer = 1
  MaxSessionLifetime = 3
  CallbackTimeout = 2
  TokenLifetimes <- MCTokenLifetimes
  SecretLifetimes <- MCSecretLifetimes
  MaxDelay = 1
  Rotates = TRUE
  MaxRotations = 2
  MaxTime = 3
  NoSession = NoSession
  NoGrant = NoGrant
  NoServer = NoServer
CHECK_DEADLOCK FALSE
PROPERTY
  ServerExits

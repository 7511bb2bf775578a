SPECIFICATION WireSpec
CONSTANTS
  Base = 64
  LenBytes = 1
  NoChar = {62}
  NotUtf8 = 63
  KeyBits = 3
  TenantBits = 2
  SaltBits = 2
  StartBits = 3
  CountBits = 2
  OccBits = 2
  HashBytes = 2
  CrcBytes = 2
  BlockSize = 32
  Version = 1
  Frames <- MCFrames
  MaxAppends = 2
  MaxFaults = 2
  Samples <- MCSamples
  DefaultN = 3
  DefaultPage = 5
  Builds <- MCBuilds
  MaxChanges = 1
  MaxStored = 2
  MaxHead = 12
  MaxBody = 24
  MaxMessage = 24
  SmallLen = 5
  Width16 = 1
  Width64 = 2
  KeyLen = 2
  Chunks = {3, 100}
  Requests <- MCRequests
  Answers <- MCAnswers
  Cursors <- MCCursors
  Deltas <- MCDeltas
  Identities <- MCIdentities
  BadTokens <- MCBadTokens
  Topics <- MCTopics
  MaskKeys <- MCMaskKeys
  Paths <- MCPaths
  Scripts <- MCScripts
  MaxEvents = 2
  MaxPings = 1
INVARIANTS
  ExchangesExact
  SubscriptionsLive
  
  RegistryGuarded
  
  MixedBuildsAgree
PROPERTIES
  EveryTaskEnds
CHECK_DEADLOCK FALSE

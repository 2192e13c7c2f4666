CONSTANTS
  Conns = {c1, c2}
  Keys = {k1, k2}
  Subject = k1
  None = None
  MaxSent = 2
  MaxFaults = 1
  MaxClock = 2
  MaxBurst = 1
  Leeway = 1
  AuthConfigs <- MCAuthConfigs
  FirstEvidence <- MCFirstEvidence
  Evidence <- MCEvidence
  FlawedEvidence <- MCFlawedEvidence
  Attestations <- MCAttestations
  FlawedAttestations <- MCFlawedAttestations
  AttestKeys = {a1}
  Serials = {s1}
  MaxChal = 4
  ChallengeTtl = 2
  RefreshTtl = 2
  CrlTtl = 1
  MaxStale = 1
  GoogleTtl = 2
  Maintainers = {w1, w2}
  PoolDims <- MCPoolDims
  Target = 2
  BatchMax = 2
  DbRetries = 1
  Invites <- MCInvites
  MaxTickets = 5
  TurnDeployments <- MCTurnDeployments
  Alias = k2
  Collections = {lite}
  Ttl = 8
  GrantedTtls = {1, 3}
  MinUsefulCap = 2
  RequestTimeout = 1
  FailureThreshold = 1
  FailureCooldown = 1
  Concurrency = 1
  MaxWaiters = 1
  MaxSkew = 0
  MaxRootAge = 0
  RefreshTime = 1
  PushDeployments <- MCPushDeployments
  Devices <- MCDevices
  ApnsRefresh = 2
  ApnsLife = 4
  FcmExpiresIn = 3
  FcmBuffer = 1
  PushTimeout = 1
  EarlierApns <- MCEarlierApns
  EarlierFcm <- MCEarlierFcm
  u1 = u1
  u2 = u2
  u3 = u3
  GateModes = {TRUE, FALSE}
  Accounts = {u1, u2, u3}
  Listed = {u1, u2}
  FirstRanks <- MCFirstRanks
  MaxRank = 4
  MaxChanges = 1
  MaxLimit = 2
  Window = 0
  PruneGrace = 1
  Slack = 1
  MaxPuzzles = 2
SPECIFICATION Spec
SYMMETRY Symmetry
INVARIANTS ServicesTypeOK SessionsEarned TicketsAccounted CredentialsEarned PushesHonest ServedOnce

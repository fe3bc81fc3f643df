SPECIFICATION Spec
CONSTANTS
  Servers = {s1, s2}
  Tasks = {t1, t2}
  Cases = {c1, c2}
  MaxEpoch = 2
  MaxDispatchRetries = 2
  MaxStuckRetries = 1
  LeaseSteal = TRUE
  InflightCap = TRUE
  Reservations = {r1, r2, r3, r4, r5}
  Concurrency = 2
  MaxQueued = 2
  Ops = {o1, o2, o3}
  NCases = 2
  Fanout = 1
  Slots = 1
  Coalesce = 2
  Items <- MCItems
  Window = 2
  MaxRetries = 1
  Retained = {1, 2}
  MaxAttempts = 2
  MaxSchedules = 3
  MaxClaims = 4
  Requests = {q1, q2, q3}
  Paths = {pa, pb}
  NTests = 3
  Contests <- MCContests
  MaxFaults = 2
  Posts = {1, 2, 3}
  Settings <- MCSettings
  PendingGrace = 2
  ClaimGrace = 2
  Quick = 1
  NJobs = 3
  Stations = {p1, p2}
  Elsewhere = far
  FetchLimit = 2
  Quotas <- MCQuotas
PROPERTIES
  RunSound
  PermitsSound
  ResultsAccounted
  CasesAnswered
  SlotsAccounted
  WakeupsKept
  KeysHonest
  JudgeSound
  GateSound
  PrintsSound
CHECK_DEADLOCK FALSE

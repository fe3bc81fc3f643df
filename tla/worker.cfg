SPECIFICATION Spec
CONSTANTS
  StepIds = {"a", "b", "c"}
  Missing = "m"
  Steps = {"a", "b"}
  Channels = {"ab", "ba", "ao"}
  Producer <- MCProducer
  Consumer <- MCConsumer
  Orphans = {"ao"}
  Capacity = 1
  MaxWrites = 2
  Workers = {"w1", "w2", "w3"}
  Procs = {"p", "q"}
  Ops = {"o1", "o2"}
  NEnvs = 2
  Slots = 2
  Width = 2
  MaxTransientRetries = 1
INVARIANTS
  OrderSound
  NoOutputLost
  CacheSound
  BoxesSound
  VerdictEarned
PROPERTIES
  WaitsEnd
CHECK_DEADLOCK FALSE

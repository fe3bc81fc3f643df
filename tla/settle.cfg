CONSTANTS
  Servers = {s1}
  Tasks = {t1, t2}
  ContestantVerdicts = {"Accepted"}
  MaxJudgements = 2
  MaxEpoch = 2
  MaxDispatchRetries = 1
  MaxStuckRetries = 0
  MaxSystemErrorRetries = 1
  LeaseSteal = TRUE
  InflightCap = TRUE
  AdminOps = {}
SPECIFICATION FairSpec
PROPERTY EventuallySettled

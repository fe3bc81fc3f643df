CONSTANTS
  Servers = {s1}
  Tasks = {t1}
  ContestantVerdicts = {"Accepted"}
  MaxJudgements = 2
  MaxEpoch = 2
  MaxDispatchRetries = 1
  MaxStuckRetries = 0
  MaxSystemErrorRetries = 1
  LeaseSteal = FALSE
  InflightCap = FALSE
  AdminOps = {"rejudge", "defer", "apply", "discard", "dlqRetry"}
SPECIFICATION Spec
SYMMETRY Symmetry
INVARIANT OneCurrent VerdictFromCurrent 
 

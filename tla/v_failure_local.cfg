CONSTANTS
  Servers = {s1}
  Tasks = {t1, t2}
  ContestantVerdicts = {"Accepted"}
  MaxJudgements = 2
  MaxEpoch = 1
  MaxDispatchRetries = 2
  MaxStuckRetries = 1
  MaxSystemErrorRetries = 0
  LeaseSteal = TRUE
  InflightCap = FALSE
  AdminOps = {}
SPECIFICATION Spec
SYMMETRY Symmetry
PROPERTY FailureIsLocal

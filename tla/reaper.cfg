CONSTANTS
  Servers = {s1}
  Tasks = {t1, t2}
  ContestantVerdicts = {"Accepted"}
  MaxJudgements = 2
  MaxEpoch = 2
  MaxDispatchRetries = 2
  MaxStuckRetries = 1
  MaxSystemErrorRetries = 2
  LeaseSteal = FALSE
  InflightCap = TRUE
  AdminOps = {}
SPECIFICATION Spec
SYMMETRY Symmetry

PROPERTY ContestantVerdictStands ShowsVerdicts

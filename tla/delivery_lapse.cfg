SPECIFICATION Spec
CONSTANTS
  w1 = w1
  w2 = w2
  r1 = r1
  NoWorker = NoWorker
  Workers = {w1, w2}
  Reapers = {r1}
  Target = NoWorker
  MaxRetries = 1
  MaxRequeues = 1
  MaxCopies = 2
  MaxCrashes = 1
  MaxRestarts = 1
  MaxLapses = 1
  MaxFaults = 0
PROPERTY ClaimSafe

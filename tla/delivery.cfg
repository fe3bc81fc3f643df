SPECIFICATION FairSpec
CONSTANTS
  w1 = w1
  w2 = w2
  r1 = r1
  NoWorker = NoWorker
  Workers = {w1, w2}
  Reapers = {r1}
  Target = w1
  MaxRetries = 0
  MaxRequeues = 1
  MaxCopies = 3
  MaxCrashes = 1
  MaxRestarts = 0
  MaxLapses = 0
  MaxFaults = 1
INVARIANTS TypeOK NeverLost OneWorker DeadLetterAnswered
PROPERTY EventuallyAnswered

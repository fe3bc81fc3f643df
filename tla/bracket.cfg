SPECIFICATION FairSpec
CONSTANTS
  Drivers = {1, 2}
  Requests = {1, 2}
  Regular = 2
  Target = 2
  Tiebreaks = 1
  Length = 2
  Penalty = 1
  Break = 1
  Grace = 1
  ContestEnd = 4
  Horizon = 4
  Scenarios <- MCScenarios
INVARIANTS
  TypeOK
  EarliestWins
  PenaltyExact
  ScoreExact
  ShownIsWon
PROPERTIES
  DecisionStands
  MatchCompletes
CHECK_DEADLOCK FALSE

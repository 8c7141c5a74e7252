SPECIFICATION Spec
CONSTANTS
  Plans <- MCPlans
  Silent <- MCSilent
  Unreported <- MCUnreported
  MAX_CHECKS = 3
  MaxRuns = 2
  Scenarios = {{"nomem"}, {"overlap"}}
CHECK_DEADLOCK FALSE
INVARIANTS VerdictIsOwn StepJudgedByOwn
PROPERTY PrecheckEnds

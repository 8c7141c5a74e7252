SPECIFICATION Spec
CONSTANTS
  StepCount = 3
  Scenarios = {{"remove"}, {"remove", "stale", "abort"}}
INVARIANTS TypeOK PowerOnlyInTest
PROPERTIES OneWorker TestEnds

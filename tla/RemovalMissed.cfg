SPECIFICATION Spec
CONSTANTS
  StepCount = 1
  Scenarios = {{"remove"}}
INVARIANT RemovalIsConfirmed

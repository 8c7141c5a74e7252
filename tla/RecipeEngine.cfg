SPECIFICATION Spec
CONSTANTS
  Recipes <- MCRecipes
  Effects <- MCEffects
  MaxChecks = 3
INVARIANTS TypeOK PassSound CriticalCutsPower ProductionGate AbortStops FailedStepNamesCause
PROPERTIES ImplementsVerdict Termination
CHECK_DEADLOCK FALSE

CONSTANTS
  Tasks = {t1, t2}
  NoTask = NoTask
  DUT_DETECT_DEBOUNCE = 2
  MaxTyped = 1
  Scenarios = {{}, {"boot", "sample"}, {"console"}}
SPECIFICATION Spec
INVARIANTS TypeOK HandOverIsClean 
PROPERTIES PresenceDebounced OneStartPerInsertion DetectionStops

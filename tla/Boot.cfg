SPECIFICATION Spec
CONSTANTS
  CAP = 3
  Scenarios = {{}, {"append"}, {"clear"}}
  Slots = {ota_0, ota_1}
  Factory = factory
  Timeout = 2
  MaxUpdates = 2
  MaxResets = 5
INVARIANT DumpIsLatest
INVARIANT RecentIntact
PROPERTY ValidWasUp
PROPERTY GoodStays
PROPERTY TrialEnds

SPECIFICATION TieSpec
CONSTANTS
  Names = {a, b, c}
  NoName = NoName
  SNAP_MAX = 3
  MaxScans <- MCMaxScans
  TieScenarios = {{}}
  Chans = {0, 1, 2}
  Probe = 0
  Heart = 1
  Driven = 2
  ROUND = 96
  SettleTimes = {110}
  SAMPLES = 5
  Beat = 2
INVARIANT BadBoardFails
CHECK_DEADLOCK FALSE

SPECIFICATION Spec
CONSTANTS
  CharPoints <- MCPoints
  Voltages <- MCVoltages
  Duties <- MCDuties
  Scenarios = {{"overlap", "sample"}, {"sample"}, {"insert", "stale"}}
INVARIANTS DutRatedVoltage CalibrationIsMeasured

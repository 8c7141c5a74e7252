SPECIFICATION Spec
CONSTANTS
  A = A
  B = B
  F = F
  Ids = {r1}
  Device = device
  Texts <- MCTexts
  NoText = notext
  Length <- MCLength
  Scenarios <- MCReload
  NoId = noid
  NCH = 2
  Factory = F
  Freed = freed
  Slopes = {1, 2}
  MaxStamp = 1
  MaxCommands = 3
  MaxCuts = 2
INVARIANT ReloadIsSafe

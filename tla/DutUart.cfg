SPECIFICATION Spec
CONSTANTS
  Boards = {a, b}
  NoVersion = NoVersion
  Recipes <- MCRecipes
  Commands <- MCCommands
  MaxPrograms = 3
  Scenarios = {{"silent", "cut"}, {"silent", "cut", "late", "overlap"}, {"silent", "overlap"}}
CHECK_DEADLOCK FALSE
INVARIANTS GoodBoardPasses OkIsOwn VersionIsBoards SessionClosed

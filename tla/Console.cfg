SPECIFICATION ConsoleSpec
CONSTANTS
  e1 = e1
  e2 = e2
  Ids <- MCIds
  NoId = NoId
  Words <- MCWords
  QuitWords = {"exit"}
  Numbers <- MCNumbers
  NoNumber = NoNumber
  Gates <- MCGates
  Lines <- MCLines
  MayCancel = TRUE
  MaxPrompts = 5
SYMMETRY MCSymmetry
INVARIANTS
  NoGateIsForgotten
  PickedIsApplied
CHECK_DEADLOCK FALSE

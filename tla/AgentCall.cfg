SPECIFICATION FairSpec
CONSTANTS
  PipeCapacity = 1
  DetailLength = 2
  MaxLines = 3
INVARIANTS
  NothingIsLost
  AnswerIsTheLastWord

  
CHECK_DEADLOCK FALSE

SPECIFICATION Spec
CONSTANTS
  outer = outer
  sub = sub
  inner = inner
  note = note
  subFile = subFile
  otherFile = otherFile
  innerFile = innerFile
  Names <- MCNames
  Dirs <- MCDirs
  GitDirs <- MCRepos
  NoRepo = NoRepo
  Files <- MCFiles
  DirOf <- MCDirOf
  ChangeSets <- MCChangeSets
  Modes = {"chat"}
  MayFail = FALSE
  MaxTurns = 2
INVARIANT
  BaseHoldsOnlyConfirmed
CHECK_DEADLOCK FALSE

SPECIFICATION Spec
CONSTANTS
  outer = outer
  sub = sub
  inner = inner
  note = note
  subFile = subFile
  otherFile = otherFile
  innerFile = innerFile
  Names <- MCNames
  Dirs <- MCDirs
  GitDirs <- MCRepos
  NoRepo = NoRepo
  Files <- MCFiles
  DirOf <- MCDirOf
  ChangeSets <- MCChangeSets
  Modes = {"chat", "pr", "follow-up"}
  MayFail = TRUE
  MaxTurns = 2
SYMMETRY FileSymmetry
INVARIANTS
  EveryFileIsAccountedFor
  InnerIsCommittedFirst
  PullRequestsArePushed
  CommitIsIndexPlusExecution
PROPERTIES
  EveryCommitIsAskedAbout
  BaseMovesOnYes
CHECK_DEADLOCK FALSE

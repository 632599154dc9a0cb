SPECIFICATION Spec
CONSTANTS
  p1 = p1
  p2 = p2
  p3 = p3
  Proc = {p1}
  NoProc = NoProc
  MLK_FAIRNESS_DISABLED = MLK_FAIRNESS_DISABLED
  Name <- MCName
  NoName = NoName
  Path <- MCPath
  max_blkcnt = 5
  max_prccnt = 3
  SeqMod = 1000
  MaxSequence = 12
  Commands <- RepeatCommands
  MaxCmds = 1
  MaxClears = 0
  LevelMax = 511
  Faults = {}
INVARIANT WalksStayInList
CONSTRAINT SequenceBound
CHECK_DEADLOCK FALSE

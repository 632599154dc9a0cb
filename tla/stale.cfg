SPECIFICATION Spec
CONSTANTS
  p1 = p1
  p2 = p2
  p3 = p3
  Proc = {p1, p2, p3}
  NoProc = NoProc
  MLK_FAIRNESS_DISABLED = MLK_FAIRNESS_DISABLED
  Name <- FlatName
  NoName = NoName
  Path <- FlatPath
  max_blkcnt = 2
  max_prccnt = 3
  SeqMod = 1000
  MaxSequence = 12
  Commands <- FlatCommands
  MaxCmds = 3
  MaxClears = 0
  LevelMax = 511
  Faults = {"exit"}
INVARIANT SleepJustified
CONSTRAINTS SequenceBound FlatBound
CHECK_DEADLOCK FALSE

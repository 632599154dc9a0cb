SPECIFICATION FairSpec
CONSTANTS
  p1 = p1
  p2 = p2
  p3 = p3
  Proc = {p1, p2, p3}
  NoProc = NoProc
  MLK_FAIRNESS_DISABLED = MLK_FAIRNESS_DISABLED
  Name <- MCName
  NoName = NoName
  Path <- MCPath
  max_blkcnt = 3
  max_prccnt = 3
  SeqMod = 3
  MaxSequence = 12
  Commands <- FairCommands
  MaxCmds = 1
  MaxClears = 0
  LevelMax = 511
  Faults = {"end", "kill"}
PROPERTY Served
CHECK_DEADLOCK FALSE

SPECIFICATION FairSpec
CONSTANTS
  p1 = p1
  p2 = p2
  p3 = p3
  Proc = {p1, p2, p3}
  NoProc = NoProc
  MLK_FAIRNESS_DISABLED = MLK_FAIRNESS_DISABLED
  Name <- DeepName
  NoName = NoName
  Path <- DeepPath
  max_blkcnt = 7
  max_prccnt = 3
  SeqMod = 4
  MaxSequence = 12
  Commands <- DeepCommands
  MaxCmds = 2
  MaxClears = 0
  LevelMax = 511
  Faults = {"end"}
PROPERTY NeverStarved
CHECK_DEADLOCK FALSE

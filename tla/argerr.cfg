SPECIFICATION Spec
CONSTANTS
  p1 = p1
  p2 = p2
  p3 = p3
  Proc = {p1, p2}
  NoProc = NoProc
  MLK_FAIRNESS_DISABLED = MLK_FAIRNESS_DISABLED
  Name <- MCName
  NoName = NoName
  Path <- MCPath
  max_blkcnt = 5
  max_prccnt = 3
  SeqMod = 1000
  MaxSequence = 12
  Commands <- ErrorCommands
  MaxCmds = 3
  MaxClears = 0
  LevelMax = 511
  Faults = {"argerror"}
PROPERTY CompletedIsReserved
CONSTRAINT SequenceBound
CHECK_DEADLOCK FALSE

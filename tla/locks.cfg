SPECIFICATION Spec
CONSTANTS
  p1 = p1
  p2 = p2
  p3 = p3
  Proc = {p1, p2}
  NoProc = NoProc
  MLK_FAIRNESS_DISABLED = MLK_FAIRNESS_DISABLED
  Name <- MCName
  NoName = NoName
  Path <- MCPath
  max_blkcnt = 5
  max_prccnt = 3
  SeqMod = 1000
  MaxSequence = 16
  Commands <- ListCommands
  MaxCmds = 2
  MaxClears = 0
  LevelMax = 511
  Faults = {"interrupt"}
INVARIANTS TypeOK WalksStayInList Exclusion HeldIsOwned OwnedIsHeld QueuedIsWaiting
PROPERTY CompletedIsReserved UnlockedIsReleased KeepsPromise
CONSTRAINT SequenceBound
CHECK_DEADLOCK FALSE

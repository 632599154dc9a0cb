SPECIFICATION Spec
CONSTANTS
  Proc = {1, 2}
  N = 4
  NReg = 1
  Updates = {{1}}
  MaxTxn = 3
  MaxFault = 1
  KillPoints = {"cmt03b"}
  FailPoints = {}
INVARIANT PoolTiles
CHECK_DEADLOCK FALSE

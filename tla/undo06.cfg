SPECIFICATION Spec
CONSTANTS
  Proc = {1, 2}
  N = 4
  NReg = 2
  Updates = {{2}, {1, 2}}
  MaxTxn = 3
  MaxFault = 1
  KillPoints = {}
  FailPoints = {"cmt04", "cmt06"}
INVARIANT AllOrNothing
CHECK_DEADLOCK FALSE

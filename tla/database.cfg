SPECIFICATION Spec
CONSTANTS
  Proc = {1, 2}
  Writer = {1}
  Block = {1, 2, 3}
  CDB_STAGNATE = 1
  Workloads <- Mixed
INVARIANTS TypeOK CommitsAreCurrent ReadsAreSnapshots NoFinalRestart CacheCoherent CrashRecovers
PROPERTIES TransactionsEnd
CHECK_DEADLOCK FALSE

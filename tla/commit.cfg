SPECIFICATION Spec
CONSTANTS
  Proc = {1, 2}
  N = 3
  NReg = 2
  Updates = {{2}, {1, 2}}
  MaxTxn = 3
  MaxFault = 1
  KillPoints <- KillPointsRepaired
  FailPoints = {"cmt07", "cmt12"}
INVARIANTS TypeOK PoolTiles JournalMatchesDb AllOrNothing ReadersSeeCommits ShippedIsJournaled
PROPERTIES NothingTakenBack InFlightEnds
CHECK_DEADLOCK FALSE

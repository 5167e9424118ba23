CONSTANTS
  g1 = g1
  g2 = g2
  None = None
  Clients = {1, 2}
  Graphs = {g1, g2}
  Owner <- MCOwner
  Fn <- MCFn
  MaxEntries <- MCMaxEntries
  MaxLaunches <- MCMaxLaunches
SPECIFICATION FairSpec
INVARIANTS IInv OwnData HarmOnlyInCompany ServerSurvives LaunchesMove
PROPERTIES LaunchesFinish
CHECK_DEADLOCK FALSE

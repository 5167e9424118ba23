CONSTANTS
  r1 = r1
  r2 = r2
  r3 = r3
  r4 = r4
  t1 = t1
  t2 = t2
  Threads = {t1, t2}
  Regions = {r1, r2, r3, r4}
  Base <- MCBase
  Size <- MCSize
  PageSize = 8
  All = All
  MaxAllocations = 2
SYMMETRY Symmetry
SPECIFICATION Spec
INVARIANTS IInv Coherent KernelSeesMemory CarefulProgramSucceeds FaultsAreHandled
CHECK_DEADLOCK FALSE

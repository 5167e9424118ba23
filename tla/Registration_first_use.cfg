\* Two threads of a program make its first calls after registration.
CONSTANTS
  Clients = {"c1"}
  Threads = {"t1", "t2"}
  FatBins = {"b1"}
  Kernels <- MCKernels
  Variables <- MCVariables
  Loads <- MCLoads
  NameOf <- MCNameOf
  BatchCap = 6
  MaxRestarts = 0
  MaxLaunches = 2
SPECIFICATION Spec
INVARIANT BatchingEnds
\* A program may have made all its calls.
CHECK_DEADLOCK FALSE

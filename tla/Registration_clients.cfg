\* Two programs with the same library, which write the same cache file.
CONSTANTS
  Clients = {"c1", "c2"}
  Threads = {"t1"}
  FatBins = {"b1"}
  Kernels <- MCKernels
  Variables <- MCVariables
  Loads <- MCLoads
  NameOf <- MCNameOf
  BatchCap = 6
  MaxRestarts = 1
  MaxLaunches = 1
SPECIFICATION Spec
INVARIANTS KernelInv KernelsOfPTX OrderInv
PROPERTY ImplementsService
\* A program may have made all its calls.
CHECK_DEADLOCK FALSE

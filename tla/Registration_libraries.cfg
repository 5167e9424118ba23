\* One program with two libraries; it and the server may be started again.
CONSTANTS
  Clients = {"c1"}
  Threads = {"t1"}
  FatBins = {"b1", "b2"}
  Kernels <- MCKernels
  Variables <- MCVariables
  Loads <- MCLoads
  NameOf <- MCNameOf
  BatchCap = 6
  MaxRestarts = 2
  MaxLaunches = 1
SPECIFICATION Spec
INVARIANTS IInv OwnHandle KernelsOfPTX LookupInv LaunchFindsKernel BufferInv BatchingEnds
PROPERTY ImplementsService
\* A program may have made all its calls.
CHECK_DEADLOCK FALSE

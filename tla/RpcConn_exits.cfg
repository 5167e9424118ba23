\* One application thread and a callback thread; either process may exit, a
\* handler may keep silent and a stub may abandon a request.
CONSTANTS
  Apps = {a1}
  Callbacks = {c1}
  CallOps = {"cudaMalloc", "cudaGraphLaunch", "cudaGraphAddKernelNode",
             "cudaLaunchKernel"}
  MaxCalls = 2
  Mortal = {"client", "server"}
SPECIFICATION Spec
INVARIANTS IInv ServiceInv NoCallLost
PROPERTY ImplementsService
CHECK_DEADLOCK FALSE

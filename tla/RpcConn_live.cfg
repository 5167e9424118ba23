\* One application thread, no host functions; either process may exit.
CONSTANTS
  Apps = {a1}
  Callbacks = {}
  CallOps = {"cudaMalloc", "cudaGraphLaunch"}
  MaxCalls = 3
  Mortal = {"client", "server"}
SPECIFICATION FairSpec
INVARIANTS ReadingGoesOn NoResponseToAsync
PROPERTIES CallsReturn ReaderStops
CHECK_DEADLOCK FALSE

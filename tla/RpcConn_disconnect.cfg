\* A client that exits with calls under way.
CONSTANTS
  Apps = {a1, a2}
  Callbacks = {}
  CallOps = {"cudaMalloc"}
  MaxCalls = 1
  Mortal = {"client"}
SPECIFICATION Spec
INVARIANT ServerOutlivesClient
CHECK_DEADLOCK FALSE

\* One graph launch with a host function.
CONSTANTS
  Apps = {a1}
  Callbacks = {c1}
  CallOps = {"cudaGraphLaunch"}
  MaxCalls = 2
  Mortal = {}
SPECIFICATION Spec
INVARIANT NoResponseToAsync
CHECK_DEADLOCK FALSE

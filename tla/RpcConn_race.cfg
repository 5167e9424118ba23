\* Two application threads in a call at the same time.
CONSTANTS
  Apps = {a1, a2}
  Callbacks = {}
  CallOps = {"cudaMalloc"}
  MaxCalls = 1
  Mortal = {}
SPECIFICATION FairSpec
PROPERTY CallsReturn
CHECK_DEADLOCK FALSE

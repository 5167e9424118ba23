\* Two application threads and a callback thread, all alive.
CONSTANTS
  Apps = {a1, a2}
  Callbacks = {c1}
  CallOps = {"cudaMalloc", "cudaGraphLaunch", "cudaStreamSynchronize"}
  MaxCalls = 1
  Mortal = {}
SPECIFICATION Spec
SYMMETRY Symmetry
INVARIANTS TypeOK FrameAligned OwnResponse ReadingGoesOn NoCallLost
PROPERTY ImplementsService
CHECK_DEADLOCK FALSE

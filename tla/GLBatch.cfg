\* Two threads draw into a buffer that holds two short commands or a long one.
CONSTANTS
  t1 = t1
  t2 = t2
  Threads = {t1, t2}
  Commands = {"glDepthMask", "glSampleCoverage"}
  ArgEnds <- MCArgEnds
  MaxCapacity = 17
  MaxArgSize = 15
  MaxCalls = 5
SYMMETRY Symmetry
SPECIFICATION Spec
INVARIANTS TypeOK OwnArguments ProgramOrder
\* A thread that has sent something waits for ever.
CHECK_DEADLOCK FALSE

\* Three levels: an outer loop, an inner loop, a worker.  Two iterations and
\* two steps; every fault of the code, one at a time; one resume() may name
\* a host checkpoint.
SPECIFICATION Spec
CONSTANTS
  Depth = 3
  MaxIterations = 2
  Steps = 2
  Resumers = {a, b}
  MaxLoops = 2
  MaxRows = 4
  Kinds = {"error", "recover", "retry", "mixed", "hook", "store", "stop", "crash"}
  MaxFaults = 1
  Callback = FALSE
  Inspectors = {b}
INVARIANTS OpenLoopHeld NothingLeftOver
PROPERTIES  LoopsClose
CHECK_DEADLOCK FALSE

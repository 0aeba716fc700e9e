\* Three runs, one or two of them delegated, on two streams; two faults and two
\* retries; the caller may abort.
CONSTANTS
  MaxRuns = 3
  MaxStreams = 2
  MaxFrames = 3
  MaxRetries = 2
  MaxFaults = 2
  MayAbort = TRUE
SPECIFICATION Spec
INVARIANTS  LiveIsCancellable
CHECK_DEADLOCK FALSE

\* Two channels, a run that suspends once, a reader that reconnects once, and one
\* failed store call, crash or overtaking resume.
SPECIFICATION FairSpec
CONSTANTS
  Channels = {text, reasoning}
  Readers = {r1}
  MaxAsk = 1
  MaxSent = 4
  MaxFaults = 1
  Routes = {"stream", "resubscribe"}
INVARIANTS
  SeqIsPosition
  LogComplete
  MissesOnlyInFlight
  InOrder
PROPERTIES
  Closes
CHECK_DEADLOCK FALSE

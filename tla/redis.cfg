\* Two handlers, which may be the first and the last of two Subscriptions, up
\* to two frames of which one is kept, and one fault.
CONSTANTS
  Handlers = {h1, h2}
  AfterSeqs = {0}
  MaxSubs = 2
  MaxEntries = 2
  MaxLen = 1
  MaxBroken = 1
SPECIFICATION FabricSpec
INVARIANTS NothingMissed
PROPERTY Arrives
CHECK_DEADLOCK FALSE

\* One stream at a time, no failure, no crash: what people answer is never
\* lost on the way up, and the run they answered for ends.
SPECIFICATION FairSpec
CONSTANTS
  boss = boss
  left = left
  right = right
  third = third
  leaf = leaf
  Runs = {boss, left, right, third}
  Root = boss
  Super <- MCSuper
  Clients = {c1}
  Cap = 2
  MaxAsk = 2
  MaxFaults = 0
  MaxCrash = 0
  Deletable = {}
  Early = FALSE
  OneAtATime = TRUE
  ForeignKeys = TRUE
  NoLink = NoLink
  NoRun = NoRun
  NoAsk = NoAsk
INVARIANTS
  PendingCanSettle
PROPERTIES
  RootFinishes
CHECK_DEADLOCK FALSE

\* Two streams over a supervisor with two sub-agents, one of which delegates to
\* a third; one failed turn, one crash, and sessions that go away.
SPECIFICATION Spec
CONSTANTS
  boss = boss
  left = left
  right = right
  third = third
  leaf = leaf
  Runs = {boss, left, right, leaf}
  Root = boss
  Super <- MCSuper
  Clients = {c1, c2}
  Cap = 2
  MaxAsk = 1
  MaxFaults = 1
  MaxCrash = 1
  Deletable = {leaf, boss}
  Early = FALSE
  OneAtATime = FALSE
  ForeignKeys = TRUE
  NoLink = NoLink
  NoRun = NoRun
  NoAsk = NoAsk
SYMMETRY Streams
INVARIANTS
  AnsweredOnce
  DeliveredOnce
  
  
PROPERTIES
  RefinesAnswers
CHECK_DEADLOCK FALSE

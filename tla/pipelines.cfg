\* A parallel step of three branches, each may ask twice, with a failing run, a
\* crash and two labels to settle on, each answer sent twice; or a list of
\* maps, decisions and branches that pauses up to three times.
SPECIFICATION MCSpec
CONSTANTS
  Branches = {b1, b2, b3}
  Deciders = {b1, b2}
  Clients = {c1, c2}
  MaxAsk = 2
  MaxAgain = 1
  MaxFaults = 1
  Labels = {yes, no}
  Incoming = Incoming
  NoAsk = NoAsk
  Statuses = {"ok", "none"}
  Answers = {"yes", "no"}
  Delegators = {"a"}
  MaxPauses = 3
INVARIANTS
  JoinsOnce
  NeverFromPartialState
  LabelIsOfSlots
  PausesDoNotShow
PROPERTIES
  Continues
CHECK_DEADLOCK FALSE

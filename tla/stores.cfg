\* Two sessions, so that a cascade has something to spare; one checkpoint
\* and one run, whose rows may hang on either; two owners; ages at the boundary.
CONSTANTS
  None = None
  Sessions = {s1, s2}
  Checkpoints = {c1}
  Runs = {r1}
  Owners = {o1, o2}
  Loops = {l1}
  Tags = {t1, t2}
  Tasks = {k1, k2}
  Nodes = {n1, n2}
  Docs = {d1, d2}
  Agents = {a1, a2}
  Words = {w1, w2}
  Areas = {"rows", "log", "loops", "tasks", "graph", "docs"}
  MaxNow = 2
  MaxMessages = 2
  MaxSeq = 2
  MaxIndex = 2
SPECIFICATION StoresSpec
INVARIANTS  TakenOnce
CHECK_DEADLOCK FALSE

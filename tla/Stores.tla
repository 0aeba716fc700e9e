------------------------------- MODULE Stores -------------------------------
(***************************************************************************)
(* Three implementations of BreadStore given the same calls, one after     *)
(* another: the memory store, the SQLite store and the PostgreSQL store.   *)
(* The runner relies on them being interchangeable; each reaches the same  *)
(* result its own way.  A behaviour uses one area of the store: sessions   *)
(* with their messages and checkpoints, sessions with their crumb log,     *)
(* loops, task runs, the knowledge graph, or documents.  No row of an area *)
(* refers to a row of another.                                             *)
(***************************************************************************)
EXTENDS StoreReads

CONSTANTS
  Sessions, Checkpoints, Runs, Owners, Tags, Loops, Tasks, Nodes, Docs,
  Agents, Words,
  Areas,        \* the areas of this instance
  MaxNow,       \* bound: ticks of the clock
  MaxMessages,  \* bound: messages written
  MaxSeq,       \* bound: positions of a run's crumb log
  MaxIndex      \* bound: iterations of a loop

ASSUME NoneAssumption == None \notin Sessions \cup Owners \cup Checkpoints \cup {Ok, Error}
ASSUME StoreBounds == {MaxNow, MaxMessages, MaxSeq, MaxIndex} \subseteq Nat

Anchored == {"rows", "log"}  \* the areas with sessions
Kinds == {"memory", "sqlite", "postgres"}

VARIABLES
  area,     \* the area of this behaviour
  mem, lite, pg,
  now,      \* Date.now()
  minted,   \* message ids handed out
  agreed,   \* every reply so far was the same from all three
  strayed,  \* a call named a row that is not there, or came late
  taken     \* how often a checkpoint row was handed to someone
storeVars == <<area, mem, lite, pg, now, minted, agreed, strayed, taken>>

StoresInit ==
  /\ area \in Areas
  /\ mem = MemEmpty /\ lite = SqlEmpty /\ pg = SqlEmpty
  /\ now = 0 /\ minted = 0
  /\ agreed = TRUE /\ strayed = FALSE
  /\ taken = [k \in Kinds |-> [c \in Checkpoints |-> 0]]

Holds(c, m, db1, db2) ==
  [memory |-> Has(m.checkpoints, c),
   sqlite |-> Key(db1.checkpoints, c) # {}, postgres |-> Key(db2.checkpoints, c) # {}]
CountTaken(c, before, after, replies, takes) ==
  [k \in Kinds |->
    IF ~before[k] /\ after[k] THEN 0
    ELSE taken[k][c] + (IF takes /\ replies[k] # None THEN 1 ELSE 0)]

\* A call on all three stores.  stray: the call is one on which they are not
\* held to agree, and the last of the behaviour.  takes: the checkpoint it
\* hands out, if any.
Call(where, m, l, p, stray, takes) ==
  /\ area \in where /\ ~strayed
  /\ mem' = m.db /\ lite' = l.db /\ pg' = p.db
  /\ agreed' = (agreed /\ m.reply = l.reply /\ l.reply = p.reply)
  /\ strayed' = (strayed \/ stray)
  /\ LET replies == [memory |-> m.reply, sqlite |-> l.reply, postgres |-> p.reply]
         counts == [c \in Checkpoints |->
           CountTaken(c, Holds(c, mem, lite, pg), Holds(c, m.db, l.db, p.db), replies, c = takes)]
     IN taken' = [k \in Kinds |-> [c \in Checkpoints |-> counts[c][k]]]
  /\ UNCHANGED <<area, now>>

Missing(s) == ~Has(mem.sessions, s)
Tick == area # "loops" /\ ~strayed /\ now < MaxNow /\ now' = now + 1
        /\ UNCHANGED <<area, mem, lite, pg, minted, agreed, strayed, taken>>

-----------------------------------------------------------------------------
(* Sessions and what hangs on them.                                        *)

CreateSession(s, o, t) ==
  /\ Call(Anchored, MemCreateSession(mem, s, o, t, now), SqlCreateSession(lite, s, o, t, now),
          SqlCreateSession(pg, s, o, t, now), FALSE, None)
  /\ UNCHANGED minted
ClaimSessionPrincipal(s, o) ==
  /\ Call(Anchored, MemClaimPrincipal(mem, s, o), SqlClaimPrincipal(lite, s, o),
          SqlClaimPrincipal(pg, s, o), FALSE, None)
  /\ UNCHANGED minted
DeleteSession(s) ==
  /\ Call(Anchored, MemDeleteSession(mem, s), SqlDeleteSession(lite, s),
          SqlDeleteSession(pg, s), FALSE, None)
  /\ UNCHANGED minted
DeleteSessionForPrincipal(s, o) ==
  /\ Call(Anchored, MemDeleteForPrincipal(mem, s, o), SqlDeleteForPrincipal(lite, s, o),
          SqlDeleteForPrincipal(pg, s, o), FALSE, None)
  /\ UNCHANGED minted
CleanupSessions(age, caller, t) ==
  /\ Call(Anchored, MemCleanup(mem, age, caller, t, now), LiteCleanup(lite, age, caller, t, now),
          PgCleanup(pg, age, caller, t, now), FALSE, None)
  /\ UNCHANGED minted

\* A message is stamped by the run and stored later; it is late when the
\* clock has moved since.
AddMessage(s, stamp) ==
  LET msg == [id |-> minted + 1, stamp |-> stamp] IN
  /\ minted < MaxMessages /\ minted' = minted + 1
  /\ Call({"rows"}, MemAddMessage(mem, s, msg, now), SqlAddMessage(lite, s, msg),
          SqlAddMessage(pg, s, msg), stamp # now, None)
SuspendRun(s, stamp, c, row) ==
  LET msg == [id |-> minted + 1, stamp |-> stamp] IN
  /\ minted < MaxMessages /\ minted' = minted + 1
  /\ Call({"rows"}, MemSuspendRun(mem, s, msg, c, row, now), SqlSuspendRun(lite, s, msg, c, row),
          SqlSuspendRun(pg, s, msg, c, row), stamp # now, None)
SaveCheckpoint(c, row) ==
  /\ Call({"rows"}, MemSaveCheckpoint(mem, c, row), SqlSaveCheckpoint(lite, c, row),
          SqlSaveCheckpoint(pg, c, row), Missing(row.session), None)
  /\ UNCHANGED minted
ClaimCheckpoint(c) ==
  /\ Call({"rows"}, MemClaimCheckpoint(mem, c), SqlClaimCheckpoint(lite, c),
          SqlClaimCheckpoint(pg, c), FALSE, c)
  /\ UNCHANGED minted
\* A claimed worker is released by a plain delete, which hands out nothing.
DeleteCheckpoint(c, unclaimedOnly) ==
  /\ Call({"rows"}, MemDeleteCheckpoint(mem, c, unclaimedOnly),
          SqlDeleteCheckpoint(lite, c, unclaimedOnly),
          SqlDeleteCheckpoint(pg, c, unclaimedOnly), FALSE,
          IF unclaimedOnly THEN c ELSE None)
  /\ UNCHANGED minted
AppendCrumbs(r, seq, s) ==
  LET entry == [seq |-> seq, session |-> s]
      twice == \E e \in ToSet(At(mem.crumbs, r, <<>>)) : e.seq = seq IN
  /\ Call({"log"}, MemAppendCrumb(mem, r, entry), SqlAppendCrumb(lite, r, entry),
          SqlAppendCrumb(pg, r, entry), twice \/ (s # None /\ Missing(s)), None)
  /\ UNCHANGED minted

-----------------------------------------------------------------------------
(* Loops and task runs, with the patches their callers write, and the      *)
(* knowledge graph.                                                        *)

Values == {None, 1}
IterationPatch(l) ==
  {[iterations |-> Len(At(mem.iterations, l, <<>>)), lastOutput |-> v] : v \in Values}
ClosePatch ==
  {[status |-> "failed"]} \cup {[status |-> "completed", result |-> v] : v \in Values}

CreateLoop(l, agent) ==
  LET row == [agent |-> agent, status |-> "running", iterations |-> 0, result |-> None, lastOutput |-> None]
  IN
  /\ ~Has(mem.loops, l)
  /\ Call({"loops"}, MemCreateLoop(mem, l, row), SqlCreateLoop(lite, l, row),
          SqlCreateLoop(pg, l, row), FALSE, None)
  /\ UNCHANGED minted
AddLoopIteration(l) ==
  LET index == Len(At(mem.iterations, l, <<>>)) + 1 IN
  /\ Has(mem.loops, l) /\ index <= MaxIndex
  /\ Call({"loops"}, MemAddIteration(mem, l, index), SqlAddIteration(lite, l, index),
          SqlAddIteration(pg, l, index), FALSE, None)
  /\ UNCHANGED minted
\* The runner patches a loop while it is running.
UpdateLoop(l, patch) ==
  /\ Has(mem.loops, l) /\ At(mem.loops, l, [status |-> None]).status = "running"
  /\ Call({"loops"}, MemUpdateLoop(mem, l, patch), SqlUpdateLoop(lite, l, patch),
          SqlUpdateLoop(pg, l, patch), FALSE, None)
  /\ UNCHANGED minted

\* The rows of a list are created at different times.
New(map, id) == ~Has(map, id) /\ \A k \in DOMAIN map : map[k].created # now

\* executeTask: one row, finished once or, when that fails, twice.
CreateTaskRun(t, agent) ==
  LET row == [agent |-> agent, status |-> "running", output |-> None, error |-> None,
              created |-> now] IN
  /\ New(mem.tasks, t)
  /\ Call({"tasks"}, MemCreateTaskRun(mem, t, row), SqlCreateTaskRun(lite, t, row),
          SqlCreateTaskRun(pg, t, row), FALSE, None)
  /\ UNCHANGED minted
FinishPatch == {[status |-> "completed", output |-> 1], [status |-> "failed", error |-> 1]}
FinishTaskRun(t, patch) ==
  /\ Has(mem.tasks, t)
  /\ Call({"tasks"}, MemFinishTaskRun(mem, t, patch), SqlFinishTaskRun(lite, t, patch),
          SqlFinishTaskRun(pg, t, patch), FALSE, None)
  /\ UNCHANGED minted

AddKnowledgeNode(n, agent, session, label) ==
  LET row == [agent |-> agent, session |-> session, label |-> label, created |-> now] IN
  /\ New(mem.nodes, n)
  /\ Call({"graph"}, MemAddNode(mem, n, row), SqlAddNode(lite, n, row),
          SqlAddNode(pg, n, row), FALSE, None)
  /\ UNCHANGED minted
AddKnowledgeEdge(from, to) ==
  /\ Has(mem.nodes, from)
  /\ Call({"graph"}, MemAddEdge(mem, from, to), SqlAddEdge(lite, from, to),
          SqlAddEdge(pg, from, to), ~Has(mem.nodes, to), None)
  /\ UNCHANGED minted
ForgetKnowledge(n) ==
  /\ Call({"graph"}, MemForget(mem, n), SqlForget(lite, n), SqlForget(pg, n), FALSE, None)
  /\ UNCHANGED minted

IngestDocument(d, agent, word) ==
  LET row == [agent |-> agent, word |-> word] IN
  /\ ~Has(mem.docs, d)
  /\ Call({"docs"}, MemIngest(mem, d, row), SqlIngest(lite, d, row), SqlIngest(pg, d, row),
          FALSE, None)
  /\ UNCHANGED minted

-----------------------------------------------------------------------------
Stamps == {t \in {now, now - 1} : t >= 0}
Executions == {1, 2}
CheckpointRows == [session : Sessions, exec : Executions]
StoresNext ==
  \/ Tick
  \/ \E s \in Sessions :
       \/ \E o \in Owners \cup {None}, t \in Tags : CreateSession(s, o, t)
       \/ \E o \in Owners : ClaimSessionPrincipal(s, o) \/ DeleteSessionForPrincipal(s, o)
       \/ DeleteSession(s)
       \/ \E t \in Stamps : AddMessage(s, t)
       \/ \E t \in Stamps, c \in Checkpoints, x \in Executions :
            SuspendRun(s, t, c, [session |-> s, exec |-> x])
  \/ \E age \in {0, 1}, o \in Owners \cup {None}, t \in Tags \cup {None} :
       CleanupSessions(age, o, t)
  \/ \E c \in Checkpoints :
       \/ \E row \in CheckpointRows : SaveCheckpoint(c, row)
       \/ ClaimCheckpoint(c)
       \/ \E only \in BOOLEAN : DeleteCheckpoint(c, only)
  \/ \E r \in Runs, q \in 1..MaxSeq, s \in Sessions \cup {None} : AppendCrumbs(r, q, s)
  \/ \E l \in Loops :
       \/ \E agent \in Agents : CreateLoop(l, agent)
       \/ AddLoopIteration(l)
       \/ \E patch \in IterationPatch(l) \cup ClosePatch : UpdateLoop(l, patch)
  \/ \E t \in Tasks :
       \/ \E agent \in Agents \cup {None} : CreateTaskRun(t, agent)
       \/ \E patch \in FinishPatch : FinishTaskRun(t, patch)
  \/ \E n \in Nodes :
       \/ \E agent \in Agents, s \in Sessions, w \in Words : AddKnowledgeNode(n, agent, s, w)
       \/ ForgetKnowledge(n)
       \/ \E to \in Nodes : AddKnowledgeEdge(n, to)
  \/ \E d \in Docs, agent \in Agents, w \in Words : IngestDocument(d, agent, w)
StoresSpec == StoresInit /\ [][StoresNext]_storeVars

-----------------------------------------------------------------------------
\* Every read of BreadStore, with every filter.
Limits == {None, 1}
After == {None} \cup 0..MaxSeq
LoopFilters == [agent : Agents \cup {None}, status : {None, "running", "completed", "failed"}]
TaskFilters == LoopFilters
MemReads ==
  [sessions |-> [s \in Sessions |-> MemGetSession(mem, s)],
   tagged |-> [t \in Tags \cup {None} |-> MemListSessions(mem, t)],
   messages |-> [s \in Sessions |-> MemGetMessages(mem, s)],
   checkpoints |-> [c \in Checkpoints |-> MemGetCheckpoint(mem, c)],
   execution |-> [x \in Executions \cup {None} |-> MemListCheckpoints(mem, x)],
   loops |-> [l \in Loops |-> MemGetLoop(mem, l)],
   loopList |-> [f \in LoopFilters |-> MemListLoops(mem, f)],
   tasks |-> [t \in Tasks |-> MemGetTaskRun(mem, t)],
   taskList |-> [f \in TaskFilters, n \in Limits |-> MemListTaskRuns(mem, f, n)],
   crumbs |-> [r \in Runs, q \in After, n \in Limits |-> MemGetCrumbs(mem, r, q, n)],
   maxSeq |-> [r \in Runs |-> MemMaxSeq(mem, r)],
   query |-> [a \in Agents, w \in Words, n \in Limits |-> MemQueryKnowledge(mem, a, w, n)],
   context |-> [a \in Agents, s \in Sessions |-> MemKnowledgeContext(mem, a, s)],
   search |-> [a \in Agents, w \in Words |-> MemSearchDocuments(mem, a, w)],
   read |-> [a \in Agents, d \in Docs |-> MemReadDocument(mem, a, d)]]
LiteReads ==
  [sessions |-> [s \in Sessions |-> LiteGetSession(lite, s)],
   tagged |-> [t \in Tags \cup {None} |-> LiteListSessions(lite, t)],
   messages |-> [s \in Sessions |-> MessagesOf(lite, s)],
   checkpoints |-> [c \in Checkpoints |-> LiteGetCheckpoint(lite, c)],
   execution |-> [x \in Executions \cup {None} |-> LiteListCheckpoints(lite, x)],
   loops |-> [l \in Loops |-> LiteGetLoop(lite, l)],
   loopList |-> [f \in LoopFilters |-> LiteListLoops(lite, f)],
   tasks |-> [t \in Tasks |-> LiteGetTaskRun(lite, t)],
   taskList |-> [f \in TaskFilters, n \in Limits |-> LiteListTaskRuns(lite, f, n)],
   crumbs |-> [r \in Runs, q \in After, n \in Limits |-> LiteGetCrumbs(lite, r, q, n)],
   maxSeq |-> [r \in Runs |-> LiteMaxSeq(lite, r)],
   query |-> [a \in Agents, w \in Words, n \in Limits |-> LiteQueryKnowledge(lite, a, w, n)],
   context |-> [a \in Agents, s \in Sessions |-> LiteKnowledgeContext(lite, a, s)],
   search |-> [a \in Agents, w \in Words |-> LiteSearchDocuments(lite, a, w)],
   read |-> [a \in Agents, d \in Docs |-> LiteReadDocument(lite, a, d)]]
PgReads ==
  [sessions |-> [s \in Sessions |-> PgGetSession(pg, s)],
   tagged |-> [t \in Tags \cup {None} |-> PgListSessions(pg, t)],
   messages |-> [s \in Sessions |-> MessagesOf(pg, s)],
   checkpoints |-> [c \in Checkpoints |-> PgGetCheckpoint(pg, c)],
   execution |-> [x \in Executions \cup {None} |-> PgListCheckpoints(pg, x)],
   loops |-> [l \in Loops |-> PgGetLoop(pg, l)],
   loopList |-> [f \in LoopFilters |-> PgListLoops(pg, f)],
   tasks |-> [t \in Tasks |-> PgGetTaskRun(pg, t)],
   taskList |-> [f \in TaskFilters, n \in Limits |-> PgListTaskRuns(pg, f, n)],
   crumbs |-> [r \in Runs, q \in After, n \in Limits |-> PgGetCrumbs(pg, r, q, n)],
   maxSeq |-> [r \in Runs |-> LiteMaxSeq(pg, r)],
   query |-> [a \in Agents, w \in Words, n \in Limits |-> PgQueryKnowledge(pg, a, w, n)],
   context |-> [a \in Agents, s \in Sessions |-> PgKnowledgeContext(pg, a, s)],
   search |-> [a \in Agents, w \in Words |-> PgSearchDocuments(pg, a, w)],
   read |-> [a \in Agents, d \in Docs |-> PgReadDocument(pg, a, d)]]

\* The three stores are interchangeable: as long as no call strays, every
\* call is answered alike and every read, with any filter and limit, returns
\* the same rows, cascades, claims and cleanups included (the cascade helpers of the memory store
\* against the foreign keys of the SQL stores).
StoresAgree ==
  ~strayed =>
    /\ agreed
    /\ MemReads = LiteReads /\ MemReads = PgReads

\* From its insertion to its removal a checkpoint row is handed to one caller
\* of claimCheckpoint or of deleteCheckpoint with unclaimedOnly, in each
\* store, however often it is saved again in between (claimCheckpoint and the
\* column or set it marks).
TakenOnce == \A k \in Kinds : \A c \in Checkpoints : taken[k][c] <= 1
=============================================================================

----------------------------- MODULE StoreReads -----------------------------
(***************************************************************************)
(* The reads of the three stores.  The memory store filters its Maps, the  *)
(* SQLite store reads a table and filters the rows, the PostgreSQL store   *)
(* builds a WHERE clause.  A filter is a record; a field that is None is   *)
(* not filtered on.  The order of a list counts where a limit may cut it.  *)
(***************************************************************************)
EXTENDS SqlStore

Matches(row, filter) == \A f \in DOMAIN filter : filter[f] = None \/ row[f] = filter[f]
Limited(list, limit) ==
  IF limit = None \/ limit >= Len(list) THEN list ELSE SubSeq(list, 1, limit)
NewestFirst(rows) == SetToSortSeq(rows, LAMBDA a, b : a.created > b.created)

-----------------------------------------------------------------------------
(* The memory store.                                                       *)

Rows(map) == {[id |-> k] @@ map[k] : k \in DOMAIN map}

MemGetSession(m, s) == At(m.sessions, s, None)
MemListSessions(m, tag) == {r \in Rows(m.sessions) : Tagged(r.tag, tag)}
MemGetMessages(m, s) == At(m.messages, s, <<>>)
MemGetCheckpoint(m, c) == At(m.checkpoints, c, None)
MemListCheckpoints(m, exec) == {r \in Rows(m.checkpoints) : exec = None \/ r.exec = exec}

MemGetLoop(m, l) ==
  IF ~Has(m.loops, l) THEN None
  ELSE [loop |-> m.loops[l], iterations |-> At(m.iterations, l, <<>>)]
MemListLoops(m, filter) == {r \in Rows(m.loops) : Matches(r, filter)}
MemGetTaskRun(m, t) == At(m.tasks, t, None)
MemListTaskRuns(m, filter, limit) ==
  Limited(NewestFirst({r \in Rows(m.tasks) : Matches(r, filter)}), limit)

MemGetCrumbs(m, r, after, limit) ==
  LET inOrder == SortSeq(At(m.crumbs, r, <<>>), LAMBDA a, b : a.seq < b.seq)
  IN Limited(SelectSeq(inOrder, LAMBDA e : after = None \/ e.seq > after), limit)
MemMaxSeq(m, r) ==
  FoldSeq(LAMBDA e, max : IF e.seq > max THEN e.seq ELSE max, 0, At(m.crumbs, r, <<>>))

MemQueryKnowledge(m, agent, label, limit) ==
  Limited(NewestFirst({r \in Rows(m.nodes) : r.agent = agent /\ r.label = label}), limit)
MemKnowledgeContext(m, agent, session) ==
  NewestFirst({r \in Rows(m.nodes) : r.agent = agent /\ r.session = session})
MemSearchDocuments(m, agent, word) ==
  {r.id : r \in {d \in Rows(m.docs) : d.agent = agent /\ d.word = word}}
MemReadDocument(m, agent, d) ==
  LET hit == {r \in Rows(m.docs) : r.id = d /\ r.agent = agent}
  IN IF hit = {} THEN None ELSE (CHOOSE r \in hit : TRUE).word

-----------------------------------------------------------------------------
(* What a row is turned back into: its columns, but for claimed.           *)

Columns(r, names) == [f \in names |-> r[f]]
RowToSession(r) == Columns(r, {"id", "owner", "tag", "updated"})
RowToMessage(r) == Columns(r, {"id", "stamp"})
RowToCheckpoint(r) == Columns(r, {"id", "session", "exec"})
RowToLoop(r) == Columns(r, {"id", "agent", "status", "iterations", "result", "lastOutput"})
RowToTaskRun(r) == Columns(r, {"id", "agent", "status", "output", "error", "created"})
RowToCrumbEntry(r) == Columns(r, {"seq", "session"})

\* A row by its key, without the key.
Found(rows) ==
  IF rows = {} THEN None
  ELSE LET r == CHOOSE r \in rows : TRUE IN Columns(r, DOMAIN r \ {"id"})

-----------------------------------------------------------------------------
(* The SQLite store.                                                       *)

LiteGetSession(db, s) == Found({RowToSession(x) : x \in Key(db.sessions, s)})
LiteListSessions(db, tag) ==
  {r \in {RowToSession(x) : x \in db.sessions} : Tagged(r.tag, tag)}
\* ORDER BY timestamp ASC, id ASC
MessagesOf(db, s) ==
  SetToSortSeq({RowToMessage(r) : r \in {x \in db.messages : x.session = s}},
    LAMBDA a, b : a.stamp < b.stamp \/ (a.stamp = b.stamp /\ a.id < b.id))
LiteGetCheckpoint(db, c) == Found({RowToCheckpoint(x) : x \in Key(db.checkpoints, c)})
LiteListCheckpoints(db, exec) ==
  {RowToCheckpoint(r) : r \in {x \in db.checkpoints : exec = None \/ x.exec = exec}}

IterationsOf(db, l) ==
  SetToSortSeq({r.idx : r \in {x \in db.iterations : x.loop = l}}, LAMBDA a, b : a < b)
LiteGetLoop(db, l) ==
  IF Key(db.loops, l) = {} THEN None
  ELSE [loop |-> Found({RowToLoop(x) : x \in Key(db.loops, l)}), iterations |-> IterationsOf(db, l)]
LiteListLoops(db, filter) == {r \in {RowToLoop(x) : x \in db.loops} : Matches(r, filter)}
LiteGetTaskRun(db, t) == Found({RowToTaskRun(x) : x \in Key(db.tasks, t)})
LiteListTaskRuns(db, filter, limit) ==
  Limited(SelectSeq(NewestFirst({RowToTaskRun(x) : x \in db.tasks}),
                    LAMBDA r : Matches(r, filter)), limit)

\* WHERE run_id = ? AND seq > ? ORDER BY seq ASC LIMIT ?
LiteGetCrumbs(db, r, after, limit) ==
  LET from == IF after = None THEN 0 ELSE after
      rows == {RowToCrumbEntry(x) : x \in {e \in db.crumbs : e.run = r /\ e.seq > from}}
  IN Limited(SetToSortSeq(rows, LAMBDA a, b : a.seq < b.seq), limit)
\* MAX of no rows is NULL.
LiteMaxSeq(db, r) == Max({e.seq : e \in {x \in db.crumbs : x.run = r}} \cup {0})

LiteQueryKnowledge(db, agent, label, limit) ==
  Limited(NewestFirst({r \in db.nodes : r.agent = agent /\ r.label = label}), limit)
LiteKnowledgeContext(db, agent, session) ==
  NewestFirst({r \in db.nodes : r.agent = agent /\ r.session = session})
LiteSearchDocuments(db, agent, word) ==
  {r.id : r \in {d \in db.docs : d.agent = agent /\ d.word = word}}
LiteReadDocument(db, agent, d) ==
  LET hit == {r \in Key(db.docs, d) : r.agent = agent}
  IN IF hit = {} THEN None ELSE (CHOOSE r \in hit : TRUE).word

-----------------------------------------------------------------------------
(* The PostgreSQL store.                                                   *)

\* The conditions of the fields that are set.  NULL is not equal to anything.
Where(table, filter) ==
  LET conds == {f \in DOMAIN filter : filter[f] # None}
  IN {r \in table : \A f \in conds : r[f] # None /\ r[f] = filter[f]}

PgGetSession(db, s) == Found({RowToSession(x) : x \in Where(db.sessions, [id |-> s])})
\* tags @> the wanted tags
PgListSessions(db, tag) == {RowToSession(r) : r \in Where(db.sessions, [tag |-> tag])}
PgGetCheckpoint(db, c) == Found({RowToCheckpoint(x) : x \in Where(db.checkpoints, [id |-> c])})
PgListCheckpoints(db, exec) ==
  {RowToCheckpoint(r) : r \in Where(db.checkpoints, [exec |-> exec])}
PgGetLoop(db, l) ==
  IF Where(db.loops, [id |-> l]) = {} THEN None
  ELSE [loop |-> Found({RowToLoop(x) : x \in Where(db.loops, [id |-> l])}),
        iterations |-> IterationsOf(db, l)]
PgListLoops(db, filter) == {RowToLoop(r) : r \in Where(db.loops, filter)}
PgGetTaskRun(db, t) == Found({RowToTaskRun(x) : x \in Where(db.tasks, [id |-> t])})
PgListTaskRuns(db, filter, limit) ==
  Limited(NewestFirst({RowToTaskRun(r) : r \in Where(db.tasks, filter)}), limit)
\* A limit of its own statement.
PgGetCrumbs(db, r, after, limit) ==
  LET rows == {e \in Where(db.crumbs, [run |-> r]) : e.seq > (IF after = None THEN 0 ELSE after)}
      all == SetToSortSeq({RowToCrumbEntry(e) : e \in rows}, LAMBDA a, b : a.seq < b.seq)
  IN IF limit = None THEN all ELSE Limited(all, limit)
\* Without an embedder: ILIKE.
PgQueryKnowledge(db, agent, label, limit) ==
  Limited(NewestFirst(Where(db.nodes, [agent |-> agent, label |-> label])), limit)
PgKnowledgeContext(db, agent, session) ==
  NewestFirst(Where(db.nodes, [agent |-> agent, session |-> session]))
PgSearchDocuments(db, agent, word) ==
  {r.id : r \in Where(db.docs, [agent |-> agent, word |-> word])}
PgReadDocument(db, agent, d) ==
  LET hit == Where(db.docs, [id |-> d, agent |-> agent])
  IN IF hit = {} THEN None ELSE (CHOOSE r \in hit : TRUE).word
=============================================================================

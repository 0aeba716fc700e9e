------------------------------ MODULE SqlStore ------------------------------
(***************************************************************************)
(* The SQL stores: tables of rows, their primary and foreign keys, and one *)
(* statement or transaction for a call.  The SQLite and the PostgreSQL     *)
(* store issue the same statements, except for cleanupSessions and the     *)
(* search of an embedding index.                                           *)
(***************************************************************************)
EXTENDS MemoryStore, FiniteSets

SqlEmpty ==
  [sessions |-> {}, messages |-> {}, checkpoints |-> {}, crumbs |-> {},
   loops |-> {}, iterations |-> {}, tasks |-> {}, nodes |-> {}, edges |-> {},
   docs |-> {}]

Key(table, id) == {r \in table : r.id = id}
RowOf(table, id) == CHOOSE r \in table : r.id = id
Ids(table) == {r.id : r \in table}

\* REFERENCES ... ON DELETE CASCADE of session_messages, checkpoints, crumbs,
\* loop_iterations and kg_edges.  A crumb may have no session.
References(db) ==
  /\ {r.session : r \in db.messages \cup db.checkpoints} \subseteq Ids(db.sessions)
  /\ {r.session : r \in db.crumbs} \subseteq Ids(db.sessions) \cup {None}
  /\ {r.loop : r \in db.iterations} \subseteq Ids(db.loops)
  /\ {r.from : r \in db.edges} \cup {r.to : r \in db.edges} \subseteq Ids(db.nodes)

\* A statement that would break a reference fails and its transaction is
\* undone.
Commit(db, new, reply) == IF References(new) THEN Same(new, reply) ELSE Same(db, Error)

\* DELETE FROM sessions, with the rows that go with it.
DeleteSessions(db, rows) ==
  LET gone == Ids(rows) IN
  [db EXCEPT !.sessions = @ \ rows,
             !.messages = {r \in @ : r.session \notin gone},
             !.checkpoints = {r \in @ : r.session \notin gone},
             !.crumbs = {r \in @ : r.session \notin gone}]

SqlCreateSession(db, id, owner, tag, now) ==
  IF Key(db.sessions, id) # {} THEN Same(db, Error)
  ELSE Same([db EXCEPT !.sessions = @ \cup
         {[id |-> id, owner |-> owner, tag |-> tag, updated |-> now]}], Ok)

\* UPDATE ... WHERE id = ? AND principal IS NULL
SqlClaimPrincipal(db, id, owner) ==
  LET hit == {r \in db.sessions : r.id = id /\ r.owner = None} IN
  Same([db EXCEPT !.sessions = (@ \ hit) \cup {[r EXCEPT !.owner = owner] : r \in hit}],
       hit # {})

SqlDeleteSession(db, id) == Same(DeleteSessions(db, Key(db.sessions, id)), Ok)

SqlDeleteForPrincipal(db, id, caller) ==
  LET hit == {r \in db.sessions : r.id = id /\ r.owner # None /\ r.owner = caller} IN
  Same(DeleteSessions(db, hit), hit # {})

\* SQLite reads the rows, filters them here and deletes them one by one.
LiteCleanup(db, age, caller, tag, now) ==
  LET old == {r \in db.sessions :
                /\ age # 0 /\ r.updated + age < now
                /\ Tagged(r.tag, tag) /\ Visible(r.owner, caller)}
  IN Same(DeleteSessions(db, old), Ids(old))
\* PostgreSQL puts the principal into the WHERE clause, where NULL is not equal
\* to anything.
PgCleanup(db, age, caller, tag, now) ==
  IF age = 0 THEN Same(db, {})
  ELSE LET old == {r \in db.sessions :
                     /\ r.updated + age < now /\ Tagged(r.tag, tag)
                     /\ caller # None => r.owner # None /\ r.owner = caller}
       IN Same(DeleteSessions(db, old), Ids(old))

Touch(db, id, stamp) ==
  [db EXCEPT !.sessions = {IF r.id = id THEN [r EXCEPT !.updated = stamp] ELSE r : r \in @}]
InsertMessage(db, id, msg) ==
  [db EXCEPT !.messages = @ \cup {[id |-> msg.id, session |-> id, stamp |-> msg.stamp]}]
SqlAddMessage(db, id, msg) ==
  Commit(db, Touch(InsertMessage(db, id, msg), id, msg.stamp), Ok)

\* ON CONFLICT(id) DO UPDATE sets every column but claimed.
\* Mutant: the update sets claimed as well.
UpsertAfresh(db, c, row) ==
  [db EXCEPT !.checkpoints = (@ \ Key(@, c))
     \cup {[id |-> c, claimed |-> FALSE, session |-> row.session, exec |-> row.exec]}]
Upsert(db, c, row) ==
  LET old == Key(db.checkpoints, c) IN
  [db EXCEPT !.checkpoints = (@ \ old)
     \cup {[id |-> c, claimed |-> \E r \in old : r.claimed,
             session |-> row.session, exec |-> row.exec]}]
SqlSaveCheckpoint(db, c, row) == Commit(db, Upsert(db, c, row), Ok)
SqlSuspendRun(db, id, msg, c, row) ==
  Commit(db, Upsert(Touch(InsertMessage(db, id, msg), id, msg.stamp), c, row), Ok)

Returning(rows) ==
  IF rows = {} THEN None
  ELSE LET r == CHOOSE r \in rows : TRUE IN
       [session |-> r.session, exec |-> r.exec]
\* UPDATE ... SET claimed = 1 WHERE id = ? AND claimed = 0 RETURNING *
SqlClaimCheckpoint(db, c) ==
  LET hit == {r \in Key(db.checkpoints, c) : ~r.claimed} IN
  Same([db EXCEPT !.checkpoints = (@ \ hit) \cup {[r EXCEPT !.claimed = TRUE] : r \in hit}],
       Returning(hit))
\* DELETE ... WHERE id = ? [AND claimed = 0] RETURNING *
SqlDeleteCheckpoint(db, c, unclaimedOnly) ==
  LET hit == {r \in Key(db.checkpoints, c) : unclaimedOnly => ~r.claimed} IN
  Same([db EXCEPT !.checkpoints = @ \ hit], Returning(hit))

\* PRIMARY KEY (run_id, seq)
SqlAppendCrumb(db, run, entry) ==
  IF \E r \in db.crumbs : r.run = run /\ r.seq = entry.seq THEN Same(db, Error)
  ELSE Commit(db, [db EXCEPT !.crumbs = @ \cup {[run |-> run] @@ entry}], Ok)

-----------------------------------------------------------------------------
(* Loops, task runs, the knowledge graph, and documents.                   *)

SqlCreateLoop(db, l, row) ==
  IF Key(db.loops, l) # {} THEN Same(db, Error)
  ELSE Same([db EXCEPT !.loops = @ \cup {[id |-> l] @@ row}], Ok)
\* A column is updated when its field is defined, lastOutput when it is there.
Patched(f, patch) == f \in DOMAIN patch /\ (patch[f] # None \/ f = "lastOutput")
SqlUpdateLoop(db, l, patch) ==
  Same([db EXCEPT !.loops =
          {IF r.id = l THEN [f \in DOMAIN r |-> IF Patched(f, patch) THEN patch[f] ELSE r[f]]
           ELSE r : r \in @}], Ok)
SqlAddIteration(db, l, index) ==
  Commit(db, [db EXCEPT !.iterations = @ \cup {[loop |-> l, idx |-> index]}], Ok)

SqlCreateTaskRun(db, t, row) ==
  IF Key(db.tasks, t) # {} THEN Same(db, Error)
  ELSE Same([db EXCEPT !.tasks = @ \cup {[id |-> t] @@ row}], Ok)
SqlFinishTaskRun(db, t, patch) ==
  Same([db EXCEPT !.tasks =
          {IF r.id = t THEN [f \in DOMAIN r |-> IF Patched(f, patch) THEN patch[f] ELSE r[f]]
           ELSE r : r \in @}], Ok)

SqlAddNode(db, n, row) == Same([db EXCEPT !.nodes = @ \cup {[id |-> n] @@ row}], Ok)
SqlAddEdge(db, from, to) ==
  Commit(db, [db EXCEPT !.edges = @ \cup {[from |-> from, to |-> to]}], Ok)
SqlForget(db, n) ==
  Same([db EXCEPT !.nodes = @ \ Key(@, n),
                  !.edges = {e \in @ : e.from # n /\ e.to # n}],
       Key(db.nodes, n) # {})

SqlIngest(db, d, row) == Same([db EXCEPT !.docs = @ \cup {[id |-> d] @@ row}], Ok)

=============================================================================

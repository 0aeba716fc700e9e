----------------------------- MODULE MemoryStore -----------------------------
(***************************************************************************)
(* The memory store: Maps and arrays, and hand-written code where the SQL  *)
(* stores have keys, flags and cascades.  A store is a value; a call takes *)
(* it to a new value and a reply.  Every Map is a function on the ids it   *)
(* holds.                                                                  *)
(***************************************************************************)
EXTENDS Naturals, Sequences, SequencesExt

CONSTANT None  \* undefined, or a NULL column

Error == "error"
Ok == "ok"
Same(m, reply) == [db |-> m, reply |-> reply]

MemEmpty ==
  [sessions |-> <<>>, messages |-> <<>>, checkpoints |-> <<>>, claimed |-> {},
   crumbs |-> <<>>, loops |-> <<>>, iterations |-> <<>>, tasks |-> <<>>,
   nodes |-> <<>>, edges |-> {}, docs |-> <<>>]

Put(map, key, val) ==
  [k \in DOMAIN map \cup {key} |-> IF k = key THEN val ELSE map[k]]
Drop(map, keys) == [k \in DOMAIN map \ keys |-> map[k]]
Has(map, key) == key \in DOMAIN map
At(map, key, default) == IF Has(map, key) THEN map[key] ELSE default

\* principalVisible: no caller sees everything, a caller its own rows only.
Visible(owner, caller) == caller = None \/ owner = caller
\* matchesTags, with one tag.
Tagged(tag, wanted) == wanted = None \/ tag = wanted

-----------------------------------------------------------------------------
(* Sessions, messages, checkpoints and crumbs.                             *)

\* cascadeCrumbs filters every run's list and forgets the empty ones.
CascadeCrumbs(crumbs, ids) ==
  LET kept == [r \in DOMAIN crumbs |-> SelectSeq(crumbs[r], LAMBDA e : e.session \notin ids)]
  IN Drop(kept, {r \in DOMAIN kept : kept[r] = <<>>})

CheckpointsOf(m, ids) == {c \in DOMAIN m.checkpoints : m.checkpoints[c].session \in ids}

\* Mutant: the cascade leaves the claim behind, for the next row of that id.
RemoveKeepingClaims(m, ids) ==
  [m EXCEPT !.sessions = Drop(@, ids), !.messages = Drop(@, ids),
            !.crumbs = CascadeCrumbs(@, ids),
            !.checkpoints = Drop(@, CheckpointsOf(m, ids))]
RemoveSessions(m, ids) ==
  [m EXCEPT !.sessions = Drop(@, ids), !.messages = Drop(@, ids),
            !.crumbs = CascadeCrumbs(@, ids),
            !.checkpoints = Drop(@, CheckpointsOf(m, ids)),
            !.claimed = @ \ CheckpointsOf(m, ids)]

MemCreateSession(m, id, owner, tag, now) ==
  IF Has(m.sessions, id) THEN Same(m, Error)
  ELSE Same([m EXCEPT !.sessions = Put(@, id, [owner |-> owner, tag |-> tag, updated |-> now]),
                      !.messages = Put(@, id, <<>>)], Ok)

MemClaimPrincipal(m, id, owner) ==
  IF ~Has(m.sessions, id) \/ At(m.sessions, id, [owner |-> owner]).owner # None
  THEN Same(m, FALSE)
  ELSE Same([m EXCEPT !.sessions[id].owner = owner], TRUE)

MemDeleteSession(m, id) == Same(RemoveSessions(m, {id}), Ok)

MemDeleteForPrincipal(m, id, caller) ==
  IF Has(m.sessions, id) /\ At(m.sessions, id, [owner |-> None]).owner = caller
  THEN Same(RemoveSessions(m, {id}), TRUE)
  ELSE Same(m, FALSE)

MemCleanup(m, age, caller, tag, now) ==
  LET old == {id \in DOMAIN m.sessions :
                /\ age # 0 /\ now - m.sessions[id].updated > age
                /\ Tagged(m.sessions[id].tag, tag) /\ Visible(m.sessions[id].owner, caller)}
  IN Same(RemoveSessions(m, old), old)

MemAdd(m, id, msg, now) ==
  [m EXCEPT !.messages[id] = Append(@, msg), !.sessions[id].updated = now]
MemAddMessage(m, id, msg, now) ==
  IF ~Has(m.sessions, id) THEN Same(m, Error) ELSE Same(MemAdd(m, id, msg, now), Ok)

MemSaveCheckpoint(m, c, row) == Same([m EXCEPT !.checkpoints = Put(@, c, row)], Ok)

MemSuspendRun(m, id, msg, c, row, now) ==
  IF ~Has(m.sessions, id) THEN Same(m, Error)
  ELSE MemSaveCheckpoint(MemAdd(m, id, msg, now), c, row)

MemClaimCheckpoint(m, c) ==
  IF ~Has(m.checkpoints, c) \/ c \in m.claimed THEN Same(m, None)
  ELSE Same([m EXCEPT !.claimed = @ \cup {c}], m.checkpoints[c])

MemDeleteCheckpoint(m, c, unclaimedOnly) ==
  IF unclaimedOnly /\ c \in m.claimed THEN Same(m, None)
  ELSE Same([m EXCEPT !.checkpoints = Drop(@, {c}), !.claimed = @ \ {c}],
            At(m.checkpoints, c, None))

MemAppendCrumb(m, run, entry) ==
  Same([m EXCEPT !.crumbs = Put(@, run, Append(At(@, run, <<>>), entry))], Ok)

-----------------------------------------------------------------------------
(* Loops, task runs, the knowledge graph, and documents.                   *)

MemCreateLoop(m, l, row) ==
  Same([m EXCEPT !.loops = Put(@, l, row), !.iterations = Put(@, l, <<>>)], Ok)
\* Object.assign: every key of the patch, an undefined value included.
MemUpdateLoop(m, l, patch) ==
  IF ~Has(m.loops, l) THEN Same(m, Error)
  ELSE Same([m EXCEPT !.loops[l] =
               [f \in DOMAIN @ |-> At(patch, f, @[f])]], Ok)
MemAddIteration(m, l, index) ==
  IF ~Has(m.iterations, l) THEN Same(m, Error)
  ELSE Same([m EXCEPT !.iterations[l] = Append(@, index)], Ok)

MemCreateTaskRun(m, t, row) == Same([m EXCEPT !.tasks = Put(@, t, row)], Ok)
MemFinishTaskRun(m, t, patch) ==
  IF ~Has(m.tasks, t) THEN Same(m, Error)
  ELSE Same([m EXCEPT !.tasks[t] = [f \in DOMAIN @ |-> At(patch, f, @[f])]], Ok)

MemAddNode(m, n, row) == Same([m EXCEPT !.nodes = Put(@, n, row)], Ok)
MemAddEdge(m, from, to) == Same([m EXCEPT !.edges = @ \cup {<<from, to>>}], Ok)
MemForget(m, n) ==
  IF ~Has(m.nodes, n) THEN Same(m, FALSE)
  ELSE Same([m EXCEPT !.nodes = Drop(@, {n}),
                      !.edges = {e \in @ : e[1] # n /\ e[2] # n}], TRUE)

MemIngest(m, d, row) == Same([m EXCEPT !.docs = Put(@, d, row)], Ok)

=============================================================================

----------------------------- MODULE Delegation -----------------------------
(***************************************************************************)
(* Human-in-the-loop suspension of a supervisor and the runs it delegates  *)
(* to: continueRun's three ways out of a turn (it ends, it asks a human,   *)
(* it chain-suspends on suspended delegations), the checkpoints these      *)
(* write, and resumeRun, which claims a checkpoint, appends the answer,    *)
(* replays the run and hands its output up to the supervisor.              *)
(*                                                                         *)
(* Every await of the code is a point where another actor can step in, so  *)
(* a handler is split at each call to the store.  Actors are the streams   *)
(* that clients drain: one call of run() and any number of resume() calls. *)
(* A delegated run is one core_delegate call, so a run names its call too. *)
(* Loops and pipelines are left to other modules: here no checkpoint has a *)
(* pipeline parent, and loopHostLinkOf and retargetLoopHostPending find    *)
(* nothing to do.                                                          *)
(***************************************************************************)
EXTENDS Naturals, FiniteSets

CONSTANTS
  Runs,         \* agent runs: the root and every delegated run
  Root,         \* the run a client starts with run()
  Super,        \* the supervisor each delegated run was called by
  Clients,      \* streams being drained: run() and resume() calls
  Cap,          \* supervisor.max, delegations in flight in one turn
  MaxAsk,       \* bound: human or ask-gated tool calls of one run
  MaxFaults,    \* bound: failed turns and throwing approved tools
  MaxCrash,     \* bound: process crashes
  Deletable,    \* bound: runs whose session may be deleted
  Early,        \* a client acts on the onHumanRequired callback
  OneAtATime,   \* clients never drain two streams at once
  ForeignKeys,  \* the store refuses a checkpoint without its session (SQL)
  NoLink, NoRun, NoAsk

Delegated == Runs \ {Root}

\* A human checkpoint is the n-th ask of its run; a supervisor checkpoint is
\* named by its first pending call, as its toolCallId field is.
Asks == Runs \X (1..MaxAsk)
Links == Delegated \X Delegated
Calls == Asks \cup Delegated

ASSUME TreeAssumption ==
  /\ Root \in Runs
  /\ Super \in [Delegated -> Runs]
  /\ \A c \in Delegated : Super[c] # c
ASSUME BoundAssumption ==
  /\ Cap \in Nat
  /\ MaxAsk \in Nat
  /\ MaxFaults \in Nat
  /\ MaxCrash \in Nat
  /\ Deletable \subseteq Runs
ASSUME ModeAssumption ==
  /\ Early \in BOOLEAN
  /\ OneAtATime \in BOOLEAN
  /\ ForeignKeys \in BOOLEAN
ASSUME NullAssumption ==
  /\ NoLink \notin Links
  /\ NoRun \notin Runs
  /\ NoAsk \notin Asks
ASSUME CallAssumption == Delegated \cap Asks = {}

VARIABLES
  \* the store
  sess,      \* runs whose session row exists
  rows,      \* human checkpoints stored
  hosts,     \* supervisor checkpoints stored
  parent,    \* CheckpointRecord.parent: <<supervisor checkpoint, call>>
  pending,   \* CheckpointRecord.pending of a supervisor checkpoint, by call
  called,    \* tool calls persisted in a session, results apart
  results,   \* tool results per call
  \* the runs, in memory
  status,    \* where continueRun is for this run
  asked,     \* how often the run has asked so far
  hook,      \* whether this run's context carries onHumanRequired
  turn,      \* delegations of the current turn still streaming
  held,      \* checkpoint a settled delegation suspended at
  crumbs,    \* human:required crumbs the supervisor runtime holds back
  tolink,    \* delegations whose checkpoint is still to be linked
  host,      \* the supervisor checkpoint of the suspension being linked
  reading,   \* delegation whose checkpoint linkDelegatedChild has read
  \* the streams
  pc,        \* where the client's call is
  target,    \* the checkpoint a resume() is about
  run,       \* the run whose crumbs the stream carries
  carry,     \* opts._parent of that run
  snap,      \* pending list read from the supervisor checkpoint
  \* the clients, and what is counted
  known,     \* checkpoint ids clients have been told
  execs,     \* how often the answer to a checkpoint was acted on
  faults, crashes

storeVars == <<sess, rows, hosts, parent, pending, called, results>>
runVars == <<status, asked, hook, turn, held, crumbs, tolink, host, reading>>
streamVars == <<pc, target, run, carry, snap>>
countVars == <<known, execs, faults, crashes>>
vars == <<storeVars, runVars, streamVars, countVars>>

Active == {"thinking", "delegating", "linking", "resuming"}

StoreTypes ==
  /\ sess \subseteq Runs
  /\ rows \subseteq Asks
  /\ hosts \subseteq Delegated
  /\ parent \in [Asks \cup Delegated -> Links \cup {NoLink}]
  /\ pending \in [Delegated -> SUBSET Delegated]
  /\ called \subseteq Calls
  /\ results \in [Calls -> Nat]
RunTypes ==
  /\ status \in [Runs -> Active \cup {"idle", "suspended", "ended", "failed", "lost"}]
  /\ asked \in [Runs -> 0..MaxAsk]
  /\ hook \in [Runs -> BOOLEAN]
  /\ turn \in [Runs -> SUBSET Delegated]
  /\ held \in [Delegated -> Asks \cup {NoAsk}]
  /\ crumbs \in [Runs -> SUBSET Asks]
  /\ tolink \in [Runs -> SUBSET Delegated]
  /\ host \in [Runs -> Delegated \cup {NoRun}]
  /\ reading \in [Runs -> Delegated \cup {NoRun}]
StreamTypes ==
  /\ pc \in [Clients -> {"idle", "claiming", "acting", "answering", "driving",
                         "cascading", "delivering", "settling"}]
  /\ target \in [Clients -> Asks \cup {NoAsk}]
  /\ run \in [Clients -> Runs \cup {NoRun}]
  /\ carry \in [Clients -> Links \cup {NoLink}]
  /\ snap \in [Clients -> SUBSET Delegated]
CountTypes ==
  /\ known \subseteq Asks
  /\ execs \in [Asks -> Nat]
  /\ faults \in 0..MaxFaults
  /\ crashes \in 0..MaxCrash

TypeOK == StoreTypes /\ RunTypes /\ StreamTypes /\ CountTypes

Init ==
  /\ sess = {} /\ rows = {} /\ hosts = {} /\ called = {} /\ known = {}
  /\ parent = [c \in Asks \cup Delegated |-> NoLink]
  /\ pending = [c \in Delegated |-> {}]
  /\ results = [c \in Calls |-> 0]
  /\ status = [r \in Runs |-> "idle"]
  /\ asked = [r \in Runs |-> 0]
  /\ hook = [r \in Runs |-> FALSE]
  /\ turn = [r \in Runs |-> {}]
  /\ held = [c \in Delegated |-> NoAsk]
  /\ crumbs = [r \in Runs |-> {}]
  /\ tolink = [r \in Runs |-> {}]
  /\ host = [r \in Runs |-> NoRun]
  /\ reading = [r \in Runs |-> NoRun]
  /\ pc = [p \in Clients |-> "idle"]
  /\ target = [p \in Clients |-> NoAsk]
  /\ run = [p \in Clients |-> NoRun]
  /\ carry = [p \in Clients |-> NoLink]
  /\ snap = [p \in Clients |-> {}]
  /\ execs = [a \in Asks |-> 0]
  /\ faults = 0 /\ crashes = 0

----------------------------------------------------------------------------
(* Who drains a run's stream: its supervisor's turn, or a client's call.   *)

InTurn(r) == r # Root /\ r \in turn[Super[r]]
Drives(p, r) == pc[p] = "driving" /\ run[p] = r

\* opts._parent: runAgent gives a delegated run none, a resume hands down the
\* parent of the checkpoint it read.
ParentOption(r, link) ==
  \/ InTurn(r) /\ link = NoLink
  \/ ~InTurn(r) /\ \E p \in Clients : Drives(p, r) /\ link = carry[p]

Idle(p) == pc' = [pc EXCEPT ![p] = "idle"]
LeavesTurn(r) == turn' = [turn EXCEPT ![Super[r]] = @ \ {r}]

\* A tool result row for a call; a turn's own results are persisted with it.
AppendResult(call) == results' = [results EXCEPT ![call] = @ + 1]

HeldBy(s) == {c \in Delegated : Super[c] = s /\ held[c] # NoAsk}

\* A supervisor's turn is over, one way or another: what it knew about its
\* delegations goes with it.
DropTurn(s) ==
  /\ held' = [c \in Delegated |-> IF Super[c] = s THEN NoAsk ELSE held[c]]
  /\ tolink' = [tolink EXCEPT ![s] = {}]
  /\ host' = [host EXCEPT ![s] = NoRun]
  /\ reading' = [reading EXCEPT ![s] = NoRun]

\* Mutant: takeHeldCrumbs hands the crumbs out and keeps them.
CrumbsStay(s) == crumbs' = crumbs

\* takeHeldCrumbs empties the runtime.
DropCrumbs(s) == crumbs' = [crumbs EXCEPT ![s] = {}]

----------------------------------------------------------------------------
(* A run's turn: continueRun.                                              *)

\* run(): the session is created, and the run streams.
Start(p) ==
  /\ pc[p] = "idle" /\ status[Root] = "idle"
  /\ OneAtATime => \A q \in Clients : pc[q] = "idle"
  /\ sess' = sess \cup {Root}
  /\ status' = [status EXCEPT ![Root] = "thinking"]
  /\ hook' = [hook EXCEPT ![Root] = Early]
  /\ pc' = [pc EXCEPT ![p] = "driving"]
  /\ run' = [run EXCEPT ![p] = Root]
  /\ carry' = [carry EXCEPT ![p] = NoLink]
  /\ UNCHANGED <<rows, hosts, parent, pending, called, results, asked, turn, held,
                 crumbs, tolink, host, reading, target, snap, countVars>>

\* core_delegate: the sub-run gets a session of its own and streams inside
\* the supervisor's turn, next to its siblings.
Call(s, c) ==
  /\ status[s] \in {"thinking", "delegating"}
  /\ Super[c] = s /\ status[c] = "idle"
  /\ Cardinality(turn[s]) < Cap
  /\ sess' = sess \cup {c}
  /\ status' = [status EXCEPT ![s] = "delegating", ![c] = "thinking"]
  /\ hook' = [hook EXCEPT ![c] = hook[s]]
  /\ turn' = [turn EXCEPT ![s] = @ \cup {c}]
  /\ UNCHANGED <<rows, hosts, parent, pending, called, results, asked, held, crumbs,
                 tolink, host, reading, streamVars, countVars>>

\* store.suspendRun: the turn's messages and the checkpoint in one write.
SuspendRun(r, link) ==
  LET a == <<r, asked[r] + 1>> IN
  /\ r \in sess
  /\ called' = called \cup {a}
  /\ rows' = rows \cup {a}
  /\ parent' = [parent EXCEPT ![a] = link]

\* A human or ask-gated call suspends a delegated run: the callback fires at
\* once, the human:required crumb is held back by the supervisor's runtime.
AskInTurn(r) ==
  LET a == <<r, asked[r] + 1>> IN
  /\ status[r] = "thinking" /\ asked[r] < MaxAsk
  /\ InTurn(r)
  /\ SuspendRun(r, NoLink)
  /\ asked' = [asked EXCEPT ![r] = @ + 1]
  /\ status' = [status EXCEPT ![r] = "suspended"]
  /\ known' = IF hook[r] THEN known \cup {a} ELSE known
  /\ LeavesTurn(r)
  /\ held' = [held EXCEPT ![r] = a]
  /\ crumbs' = [crumbs EXCEPT ![Super[r]] = @ \cup {a}]
  /\ UNCHANGED <<sess, hosts, pending, results, hook, tolink, host, reading,
                 streamVars, execs, faults, crashes>>

\* Mutant: the parent is continued whether or not the run ended.
StreamClosesBlindly(p, ended) ==
  pc' = [pc EXCEPT ![p] = IF carry[p] # NoLink THEN "cascading" ELSE "idle"]

\* A drained continueRun has closed its stream: a run that ended hands its
\* output to the parent it carries, one that suspended again does not.
StreamCloses(p, ended) ==
  pc' = [pc EXCEPT ![p] = IF ended /\ carry[p] # NoLink THEN "cascading" ELSE "idle"]

\* Mutant: the new checkpoint forgets what the old one was part of.
ForgottenLink(p) == NoLink

\* A run that suspends again keeps the composition link of its resume.
KeptLink(p) == carry[p]

\* The same in a run a client drains: the stream ends at human:required.
Ask(p) ==
  LET r == run[p] IN
  /\ pc[p] = "driving" /\ status[r] = "thinking" /\ asked[r] < MaxAsk
  /\ SuspendRun(r, KeptLink(p))
  /\ asked' = [asked EXCEPT ![r] = @ + 1]
  /\ status' = [status EXCEPT ![r] = "suspended"]
  /\ known' = known \cup {<<r, asked[r] + 1>>}
  /\ StreamCloses(p, FALSE)
  /\ UNCHANGED <<sess, hosts, pending, results, hook, turn, held, crumbs, tolink, host,
                 reading, target, run, carry, snap, execs, faults, crashes>>

\* agent:run:end of a delegated run becomes its call's tool result.
EndInTurn(r) ==
  /\ status[r] = "thinking" /\ InTurn(r) /\ r \in sess
  /\ status' = [status EXCEPT ![r] = "ended"]
  /\ called' = called \cup {r}
  /\ AppendResult(r)
  /\ LeavesTurn(r)
  /\ UNCHANGED <<sess, rows, hosts, parent, pending, asked, hook, held, crumbs, tolink,
                 host, reading, streamVars, countVars>>

\* agent:run:end of a run a client drains: continueParent follows a link.
End(p) ==
  LET r == run[p] IN
  /\ pc[p] = "driving" /\ status[r] = "thinking" /\ r \in sess
  /\ status' = [status EXCEPT ![r] = "ended"]
  /\ StreamCloses(p, TRUE)
  /\ UNCHANGED <<storeVars, asked, hook, turn, held, crumbs, tolink, host, reading,
                 target, run, carry, snap, countVars>>

\* A turn that fails for good: a model error, a suspended delegation next to a
\* human tool (MIXED_SUSPENSION_UNSUPPORTED), a store that lost the session.
TurnFails(r) ==
  /\ \/ status[r] = "thinking"
     \/ status[r] = "delegating" /\ turn[r] = {}
  /\ \/ faults < MaxFaults /\ faults' = faults + 1
     \/ r \notin sess /\ faults' = faults
  /\ status' = [status EXCEPT ![r] = "failed"]
  /\ DropTurn(r) /\ DropCrumbs(r)

FailInTurn(r) ==
  /\ InTurn(r) /\ TurnFails(r)
  /\ called' = called \cup {r}
  /\ AppendResult(r)
  /\ LeavesTurn(r)
  /\ UNCHANGED <<sess, rows, hosts, parent, pending, asked, hook, streamVars, known,
                 execs, crashes>>

\* An error leaves resume() through continueRun: no parent is continued.
Fail(p) ==
  /\ pc[p] = "driving" /\ TurnFails(run[p])
  /\ Idle(p)
  /\ UNCHANGED <<storeVars, asked, hook, turn, target, run, carry, snap, known, execs,
                 crashes>>

\* decideRetry: the attempt is thrown away with the crumbs it held, whatever
\* its delegations had suspended on.
Retry(r) ==
  /\ status[r] = "delegating" /\ turn[r] = {}
  /\ faults < MaxFaults /\ faults' = faults + 1
  /\ status' = [status EXCEPT ![r] = "thinking"]
  /\ DropTurn(r) /\ DropCrumbs(r)
  /\ UNCHANGED <<storeVars, asked, hook, turn, streamVars, known, execs, crashes>>

----------------------------------------------------------------------------
(* A turn whose delegations have all settled.                              *)

\* None suspended: the model reads the results.
TurnSettles(s) ==
  /\ status[s] = "delegating" /\ turn[s] = {} /\ HeldBy(s) = {}
  /\ status' = [status EXCEPT ![s] = "thinking"]
  /\ UNCHANGED <<storeVars, asked, hook, turn, held, crumbs, tolink, host, reading,
                 streamVars, countVars>>

\* The supervisor checkpoint lists every delegation that suspended.
PendingList(s) == HeldBy(s)

\* Some suspended: the supervisor's turn persists with those calls dangling,
\* and its checkpoint lists them.
ChainSuspend(s, k, link) ==
  /\ status[s] = "delegating" /\ turn[s] = {} /\ s \in sess
  /\ k \in HeldBy(s) /\ ParentOption(s, link)
  /\ hosts' = hosts \cup {k}
  /\ parent' = [parent EXCEPT ![k] = link]
  /\ pending' = [pending EXCEPT ![k] = PendingList(s)]
  /\ called' = called \cup HeldBy(s)
  /\ status' = [status EXCEPT ![s] = "linking"]
  /\ tolink' = [tolink EXCEPT ![s] = HeldBy(s)]
  /\ host' = [host EXCEPT ![s] = k]
  /\ UNCHANGED <<sess, rows, results, asked, hook, turn, held, crumbs, reading, streamVars,
                 countVars>>

\* linkDelegatedChild reads the child's checkpoint, skipping one that is gone.
LinkRead(s, c) ==
  /\ status[s] = "linking" /\ reading[s] = NoRun /\ c \in tolink[s]
  /\ IF held[c] \in rows
     THEN reading' = [reading EXCEPT ![s] = c] /\ tolink' = tolink
     ELSE reading' = reading /\ tolink' = [tolink EXCEPT ![s] = @ \ {c}]
  /\ UNCHANGED <<storeVars, status, asked, hook, turn, held, crumbs, host, streamVars,
                 countVars>>

\* ... and saves it back whole with the supervisor as its parent.
LinkWrite(s) ==
  LET c == reading[s]
      a == held[c]
  IN
  /\ status[s] = "linking" /\ c # NoRun
  /\ ForeignKeys => a[1] \in sess
  /\ rows' = rows \cup {a}
  /\ parent' = [parent EXCEPT ![a] = <<host[s], c>>]
  /\ reading' = [reading EXCEPT ![s] = NoRun]
  /\ tolink' = [tolink EXCEPT ![s] = @ \ {c}]
  /\ UNCHANGED <<sess, hosts, pending, called, results, status, asked, hook, turn, held,
                 crumbs, host, streamVars, countVars>>

\* The save is refused because the child's session went away: an error of the
\* supervisor's turn.
LinkRefused(s) ==
  /\ status[s] = "linking" /\ reading[s] # NoRun
  /\ ForeignKeys /\ held[reading[s]][1] \notin sess
  /\ status' = [status EXCEPT ![s] = "failed"]
  /\ DropTurn(s) /\ DropCrumbs(s)
  /\ IF InTurn(s)
     THEN called' = called \cup {s} /\ AppendResult(s) /\ LeavesTurn(s) /\ pc' = pc
     ELSE /\ UNCHANGED <<called, results, turn>>
          /\ pc' = [p \in Clients |-> IF Drives(p, s) THEN "idle" ELSE pc[p]]
  /\ UNCHANGED <<sess, rows, hosts, parent, pending, asked, hook, target, run, carry, snap,
                 countVars>>

\* All linked: the held crumbs are yielded and the stream ends.  An outer
\* supervisor keeps the id of the last one as what this delegation waits for.
SurfaceInTurn(s, last) ==
  /\ status[s] = "linking" /\ tolink[s] = {} /\ InTurn(s) /\ last \in crumbs[s]
  /\ status' = [status EXCEPT ![s] = "suspended"]
  /\ crumbs' = [crumbs EXCEPT ![s] = {}, ![Super[s]] = @ \cup crumbs[s]]
  /\ held' = [c \in Delegated |-> IF c = s THEN last
                                  ELSE IF Super[c] = s THEN NoAsk ELSE held[c]]
  /\ host' = [host EXCEPT ![s] = NoRun]
  /\ LeavesTurn(s)
  /\ UNCHANGED <<storeVars, asked, hook, tolink, reading, streamVars, countVars>>

Surface(p) ==
  LET s == run[p] IN
  /\ pc[p] = "driving" /\ status[s] = "linking" /\ tolink[s] = {}
  /\ status' = [status EXCEPT ![s] = "suspended"]
  /\ known' = known \cup crumbs[s]
  /\ DropTurn(s) /\ DropCrumbs(s)
  /\ StreamCloses(p, FALSE)
  /\ UNCHANGED <<storeVars, asked, hook, turn, target, run, carry, snap, execs, faults,
                 crashes>>

----------------------------------------------------------------------------
(* resume(): resumeRun, resumeClaimed and continueSupervisorParent.        *)

\* getCheckpoint; a missing row throws, a supervisor's row is refused, and
\* neither changes anything.  The link of this copy is the one used later.
ReadCheckpoint(p, a) ==
  /\ pc[p] = "idle" /\ a \in known /\ a \in rows
  /\ OneAtATime => \A q \in Clients : pc[q] = "idle"
  /\ pc' = [pc EXCEPT ![p] = "claiming"]
  /\ target' = [target EXCEPT ![p] = a]
  /\ run' = [run EXCEPT ![p] = a[1]]
  /\ carry' = [carry EXCEPT ![p] = parent[a]]
  /\ UNCHANGED <<storeVars, runVars, snap, countVars>>

\* Mutant: the caller goes on although another resume took the row.
WinsAnyway(p) == TRUE

\* deleteCheckpoint returned the row.
WinsClaim(p) == target[p] \in rows

\* deleteCheckpoint is the claim: one caller gets the row.
Claim(p) ==
  /\ pc[p] = "claiming" /\ WinsClaim(p)
  /\ rows' = rows \ {target[p]}
  /\ pc' = [pc EXCEPT ![p] = "acting"]
  /\ status' = [status EXCEPT ![run[p]] = "resuming"]
  /\ hook' = [hook EXCEPT ![run[p]] = FALSE]
  /\ UNCHANGED <<sess, hosts, parent, pending, called, results, asked, turn, held, crumbs,
                 tolink, host, reading, target, run, carry, snap, countVars>>

\* The loser gets CHECKPOINT_NOT_FOUND.
LoseClaim(p) ==
  /\ pc[p] = "claiming" /\ ~WinsClaim(p)
  /\ Idle(p)
  /\ UNCHANGED <<storeVars, runVars, target, run, carry, snap, countVars>>

\* The approved tool runs (or the answer or the denial is taken).
Act(p) ==
  /\ pc[p] = "acting"
  /\ execs' = [execs EXCEPT ![target[p]] = @ + 1]
  /\ pc' = [pc EXCEPT ![p] = "answering"]
  /\ UNCHANGED <<storeVars, runVars, target, run, carry, snap, known, faults, crashes>>

\* Mutant: a failed resume gives the checkpoint back.
RowsGivenBack(p) == rows \cup {target[p]}

\* What a throwing resume leaves stored: the claimed row is not put back.
RowsAfterThrow(p) == rows

\* The approved tool throws, or is gone (TOOL_NOT_FOUND): resume() throws.
ActThrows(p) ==
  /\ pc[p] = "acting" /\ faults < MaxFaults
  /\ faults' = faults + 1
  /\ execs' = [execs EXCEPT ![target[p]] = @ + 1]
  /\ status' = [status EXCEPT ![run[p]] = "failed"]
  /\ rows' = RowsAfterThrow(p)
  /\ Idle(p)
  /\ UNCHANGED <<sess, hosts, parent, pending, called, results, asked, hook, turn, held,
                 crumbs, tolink, host, reading, target, run, carry, snap, known, crashes>>

\* Mutant: the run is replayed before the answer is in its session.
ContinueWithoutAnswer(p) ==
  /\ pc[p] = "answering" /\ run[p] \in sess
  /\ status' = [status EXCEPT ![run[p]] = "thinking"]
  /\ pc' = [pc EXCEPT ![p] = "driving"]
  /\ UNCHANGED <<storeVars, asked, hook, turn, held, crumbs, tolink, host, reading, target,
                 run, carry, snap, countVars>>

\* addMessage appends the answer as the tool result and the run is replayed.
AppendAnswer(p) ==
  /\ pc[p] = "answering" /\ run[p] \in sess
  /\ AppendResult(target[p])
  /\ status' = [status EXCEPT ![run[p]] = "thinking"]
  /\ pc' = [pc EXCEPT ![p] = "driving"]
  /\ UNCHANGED <<sess, rows, hosts, parent, pending, called, asked, hook, turn, held, crumbs,
                 tolink, host, reading, target, run, carry, snap, countVars>>

AnswerRefused(p) ==
  /\ pc[p] = "answering" /\ run[p] \notin sess
  /\ status' = [status EXCEPT ![run[p]] = "failed"]
  /\ Idle(p)
  /\ UNCHANGED <<storeVars, asked, hook, turn, held, crumbs, tolink, host, reading, target,
                 run, carry, snap, countVars>>

\* continueSupervisorParent: a supervisor checkpoint that is gone ends it.
ReadSupervisor(p) ==
  LET k == carry[p][1] IN
  /\ pc[p] = "cascading"
  /\ IF k \in hosts
     THEN /\ snap' = [snap EXCEPT ![p] = pending[k]]
          /\ pc' = [pc EXCEPT ![p] = "delivering"]
     ELSE snap' = snap /\ Idle(p)
  /\ UNCHANGED <<storeVars, runVars, target, run, carry, countVars>>

\* The child's output lands as the result of the delegate call, whether or
\* not the supervisor continues now.
Deliver(p) ==
  LET k == carry[p][1]
      c == carry[p][2]
  IN
  /\ pc[p] = "delivering"
  /\ IF Super[k] \in sess
     THEN AppendResult(c) /\ pc' = [pc EXCEPT ![p] = "settling"]
     ELSE results' = results /\ Idle(p)
  /\ UNCHANGED <<sess, rows, hosts, parent, pending, called, runVars, target, run, carry,
                 snap, countVars>>

\* Mutant: the list written back is the one that was read.
RemainingUnfiltered(p) == snap[p]

\* The delegations still outstanding once this call is answered.
Remaining(p) == snap[p] \ {carry[p][2]}

\* Others are outstanding: the shorter list is saved over the stored one.
Settle(p) ==
  LET k == carry[p][1] IN
  /\ pc[p] = "settling" /\ Remaining(p) # {}
  /\ IF ForeignKeys /\ Super[k] \notin sess
     THEN UNCHANGED <<hosts, pending>>
     ELSE hosts' = hosts \cup {k} /\ pending' = [pending EXCEPT ![k] = Remaining(p)]
  /\ Idle(p)
  /\ UNCHANGED <<sess, rows, parent, called, results, runVars, target, run, carry, snap,
                 countVars>>

\* The last one claims the supervisor's checkpoint and replays its run.
ClaimSupervisor(p) ==
  LET k == carry[p][1] IN
  /\ pc[p] = "settling" /\ Remaining(p) = {} /\ k \in hosts
  /\ hosts' = hosts \ {k}
  /\ status' = [status EXCEPT ![Super[k]] = "thinking"]
  /\ hook' = [hook EXCEPT ![Super[k]] = FALSE]
  /\ pc' = [pc EXCEPT ![p] = "driving"]
  /\ run' = [run EXCEPT ![p] = Super[k]]
  /\ carry' = [carry EXCEPT ![p] = parent[k]]
  /\ UNCHANGED <<sess, rows, parent, pending, called, results, asked, turn, held, crumbs,
                 tolink, host, reading, target, snap, countVars>>

LoseSupervisor(p) ==
  /\ pc[p] = "settling" /\ Remaining(p) = {} /\ carry[p][1] \notin hosts
  /\ Idle(p)
  /\ UNCHANGED <<storeVars, runVars, target, run, carry, snap, countVars>>

----------------------------------------------------------------------------
(* The environment.                                                        *)

\* The process dies: the store is all that is left.
Crash ==
  /\ crashes < MaxCrash
  /\ crashes' = crashes + 1
  /\ status' = [r \in Runs |-> IF status[r] \in Active THEN "lost" ELSE status[r]]
  /\ turn' = [r \in Runs |-> {}]
  /\ held' = [c \in Delegated |-> NoAsk]
  /\ crumbs' = [r \in Runs |-> {}]
  /\ tolink' = [r \in Runs |-> {}]
  /\ host' = [r \in Runs |-> NoRun]
  /\ reading' = [r \in Runs |-> NoRun]
  /\ pc' = [p \in Clients |-> "idle"]
  /\ UNCHANGED <<storeVars, asked, hook, target, run, carry, snap, known, execs, faults>>

\* deleteSession, or cleanupSessions reaping it: checkpoints go with it.
DeleteSession(r) ==
  /\ r \in Deletable /\ r \in sess
  /\ sess' = sess \ {r}
  /\ rows' = {a \in rows : a[1] # r}
  /\ hosts' = {k \in hosts : Super[k] # r}
  /\ UNCHANGED <<parent, pending, called, results, runVars, streamVars, countVars>>

Turn ==
  \/ \E s \in Runs, c \in Delegated : Call(s, c)
  \/ \E r \in Delegated : AskInTurn(r) \/ EndInTurn(r)
  \/ \E p \in Clients : Ask(p) \/ End(p)

Linkage ==
  \/ \E s \in Runs : TurnSettles(s) \/ LinkWrite(s) \/ LinkRefused(s)
  \/ \E s \in Runs, k \in Delegated, link \in Links \cup {NoLink} : ChainSuspend(s, k, link)
  \/ \E s \in Runs, c \in Delegated : LinkRead(s, c)
  \/ \E s \in Delegated, last \in Asks : SurfaceInTurn(s, last)
  \/ \E p \in Clients : Surface(p)

Resume ==
  \E p \in Clients :
    \/ Claim(p) \/ LoseClaim(p) \/ Act(p) \/ AppendAnswer(p) \/ AnswerRefused(p)
    \/ ReadSupervisor(p) \/ Deliver(p) \/ Settle(p) \/ ClaimSupervisor(p)
    \/ LoseSupervisor(p)

Faulty ==
  \/ \E r \in Delegated : FailInTurn(r)
  \/ \E r \in Runs : Retry(r)
  \/ \E p \in Clients : Fail(p) \/ ActThrows(p)
  \/ Crash
  \/ \E r \in Runs : DeleteSession(r)

Answering == \E p \in Clients, a \in Asks : ReadCheckpoint(p, a)
Starting == \E p \in Clients : Start(p)

Next == Starting \/ Turn \/ Linkage \/ Answering \/ Resume \/ Faulty

Spec == Init /\ [][Next]_vars

\* The process keeps stepping the handlers it has entered, and people answer
\* what they are asked; nobody has to start the run, or to crash.
FairSpec ==
  /\ Spec
  /\ WF_vars(Turn) /\ WF_vars(Linkage) /\ WF_vars(Resume) /\ WF_vars(Answering)

----------------------------------------------------------------------------
(* Properties.                                                             *)

\* Two resume() calls never both act on one checkpoint, and a human call never
\* has two results in its session (docs/hitl.md, "only one wins").
AnsweredOnce == \A a \in Asks : execs[a] <= 1 /\ results[a] <= 1

\* A delegate call has one result in its supervisor's session, whether its run
\* ended in the turn, was resumed, or was resumed several times over.
DeliveredOnce == \A c \in Delegated : results[c] <= 1

\* A run is replayed only from a complete history: whenever its model is
\* called, every persisted tool call of its session has its result.
ReplayComplete ==
  \A r \in Runs : status[r] = "thinking" =>
    /\ \A n \in 1..MaxAsk : <<r, n>> \in called => results[<<r, n>>] > 0
    /\ \A c \in Delegated : Super[c] = r /\ c \in called => results[c] > 0

\* A supervisor checkpoint at rest waits only for runs that can still answer:
\* each pending call has a run suspended on a linked checkpoint, or being
\* resumed with a link to this checkpoint.
PendingCanSettle ==
  \A k \in hosts : status[Super[k]] = "suspended" =>
    \A c \in pending[k] :
      \/ \E a \in rows : a[1] = c /\ parent[a] = <<k, c>>
      \/ \E p \in Clients : pc[p] # "idle" /\ carry[p] = <<k, c>>

\* A question of a delegated run stays with one supervisor's turn until every
\* link is stored: no client knows of it and no second turn holds it, and the
\* turn whose delegation waits on it is the one that holds it.
Custody ==
  /\ \A s \in Runs : crumbs[s] \cap known = {}
  /\ \A s, t \in Runs : s # t => crumbs[s] \cap crumbs[t] = {}
  /\ \A c \in Delegated : held[c] # NoAsk => held[c] \in crumbs[Super[c]]

\* Every checkpoint goes through what HumanAnswers promises: asked once, open
\* until it is taken or withdrawn, never open again, answered after that.
Answers == INSTANCE HumanAnswers WITH
  asked <- {a \in Asks : a[2] <= asked[a[1]]},
  open <- rows,
  answered <- {a \in Asks : results[a] > 0}

RefinesAnswers == Answers!Spec

\* Every started run ends once people have answered everything it asked.
RootFinishes == status[Root] = "thinking" ~> status[Root] = "ended"

=============================================================================

------------------------------- MODULE HostLoop -------------------------------
(***************************************************************************)
(* Agent loops around a human answer.  An agent at level k < Depth hosts a *)
(* loop whose pipeline runs the agent of level k + 1; the agent of level   *)
(* Depth is the worker that asks.  When it does, every loop around it has  *)
(* to suspend: each host leaves a checkpoint and the frame of its pipeline *)
(* is linked to that checkpoint, from the inside out.  Resuming the worker *)
(* then closes the open iterations in the same order and carries each host *)
(* on from its checkpoint.                                                 *)
(*                                                                         *)
(* A stream is one run() or resume() being drained.  Its call stack covers *)
(* the levels top..lvl: the run at `top` was begun by the stream, those    *)
(* below it by the loop tool of the level above.  A checkpoint has one     *)
(* pipeline frame here, the frame of the loop around it.                   *)
(***************************************************************************)
EXTENDS Naturals, Sequences, FiniteSets, SequencesExt

CONSTANTS
  Depth,          \* the worker's level: Depth - 1 loops around it
  MaxIterations,  \* LoopConfig.maxIterations
  Steps,          \* agents in the pipeline of an iteration
  Resumers,       \* resume() calls drained at the same time
  MaxLoops,       \* bound: loops started
  MaxRows,        \* bound: checkpoints written
  Kinds,          \* the faults of this instance, each at most once
  MaxFaults,      \* bound: faults of one behaviour
  Callback,       \* clients act on onHumanRequired, not only on the crumb
  Inspectors      \* resume() calls that may be given a host checkpoint

FaultKinds ==
  {"error", "recover", "retry", "mixed", "hook", "store", "stop", "crash",
   "overtaken"}
Run == "run"
Streams == {Run} \cup Resumers
Levels == 1..Depth
Loops == 1..MaxLoops
Ids == 1..MaxRows

ASSUME SizeAssumption ==
  /\ Depth \in Nat /\ Depth > 1
  /\ MaxIterations \in Nat /\ Steps \in Nat /\ Steps > 0
  /\ MaxLoops \in Nat /\ MaxRows \in Nat /\ MaxFaults \in Nat
ASSUME StreamAssumption == Run \notin Resumers
ASSUME ModeAssumption ==
  Kinds \subseteq FaultKinds /\ Callback \in BOOLEAN /\ Inspectors \subseteq Resumers

\* PipelineCheckpointParent with its LoopHostLink: host = 0 while unlinked.
Link == [loop : 0..MaxLoops, host : 0..MaxRows, iter : Nat, step : 1..Steps]
NoLink == [loop |-> 0, host |-> 0, iter |-> 0, step |-> 1]
\* CheckpointRecord: a host checkpoint has a loop and pending children.
Row == [level : Levels, link : Link, loop : 0..MaxLoops, pending : SUBSET Ids]
NoRow == [level |-> 0]

VARIABLES
  \* the store
  rows,       \* checkpoints by id
  claimed,    \* ids claimCheckpoint has marked
  issued,     \* ids handed out
  status,     \* LoopRecord.status
  recorded,   \* LoopIteration.index of each loop's rows, in order
  \* what clients know and did
  announced,  \* checkpoints a crumb or a callback has named
  answered,   \* how often an answer to a checkpoint was acted on
  \* the streams
  pc,
  act,        \* the call stack of a stream
  child,      \* the checkpoint whose suspension is being handled
  snap,       \* checkpoints read and about to be written or acted on
  frames,     \* catch blocks of the continueLoopHost calls being drained
  worker,     \* the claimed worker, its parent, and whether it is releasing
  happened    \* faults so far

storeVars == <<rows, claimed, issued, status, recorded>>
clientVars == <<announced, answered>>
streamVars == <<pc, act, child, snap, frames, worker>>
vars == <<storeVars, clientVars, streamVars, happened>>

Stored == {i \in Ids : rows[i] # NoRow}
Hosts == {i \in Stored : rows[i].loop # 0}
Running == {l \in Loops : status[l] = "running"}
Unused == {l \in Loops : status[l] = "none"}
NextId == issued + 1
Done(l) == Len(recorded[l])

NoAct == [top |-> 1, lvl |-> 1, cur |-> [k \in Levels |-> 0],
          open |-> [k \in Levels |-> 0], mine |-> [k \in Levels |-> FALSE], step |-> [k \in Levels |-> 1],
          link |-> NoLink]
NoWorker == [id |-> 0, link |-> NoLink, releasing |-> FALSE]

Init ==
  /\ rows = [i \in Ids |-> NoRow] /\ claimed = {} /\ issued = 0
  /\ status = [l \in Loops |-> "none"]
  /\ recorded = [l \in Loops |-> <<>>]
  /\ announced = {}
  /\ answered = [i \in Ids |-> 0]
  /\ pc = [p \in Streams |-> IF p = Run THEN "turn" ELSE "off"]
  /\ act = [p \in Streams |-> NoAct]
  /\ child = [p \in Streams |-> 0]
  /\ snap = [p \in Streams |-> <<>>]
  /\ frames = [p \in Streams |-> <<>>]
  /\ worker = [p \in Streams |-> NoWorker]
  /\ happened = {}

\* A stream that is over forgets everything.
Leave(p) ==
  /\ pc' = [pc EXCEPT ![p] = "off"]
  /\ act' = [act EXCEPT ![p] = NoAct]
  /\ child' = [child EXCEPT ![p] = 0]
  /\ snap' = [snap EXCEPT ![p] = <<>>]
  /\ frames' = [frames EXCEPT ![p] = <<>>]
  /\ worker' = [worker EXCEPT ![p] = NoWorker]

-----------------------------------------------------------------------------
(* The links between checkpoints.                                          *)

\* The checkpoints reached from one, itself included, by following host links;
\* one that is gone ends the walk.
Upward(id) ==
  LET Closed(S) == ({id} \cup {rows[i].link.host : i \in S}) \cap Stored \subseteq S
  IN {i \in Stored : \A S \in SUBSET Stored : Closed(S) => i \in S}
HostLinks(id) == {l \in {rows[i].link : i \in Upward(id)} : l.host # 0}

\* locateLoopPipelineCheckpoint.
FrameOf(id, loop) == {i \in Upward(id) : rows[i].link.loop = loop}

\* loopIterationAwaitingHost.
AwaitingHost(link) == link.loop # 0 /\ link.host = 0 /\ link.loop \in Running

\* checkpointStillPending.
StillPending(id) == \E h \in Hosts : id \in rows[h].pending

\* Mutant: dead children are pruned, the new leaf is not added.
OnlyPruned(leaf, releasing) ==
  [h \in {i \in (Upward(leaf) \ {leaf}) \cap Hosts : rows[i].pending # {}} |->
     [rows[h] EXCEPT !.pending = {c \in @ : c # releasing /\ c \in Stored}]]
\* retargetLoopHostPending: what it read of the hosts above the leaf, with
\* the pending lists it is going to save.
Retargeted(leaf, releasing) ==
  [h \in {i \in (Upward(leaf) \ {leaf}) \cap Hosts :
            leaf \in Stored /\ rows[i].pending # {}} |->
     [rows[h] EXCEPT !.pending =
        {c \in @ : c # releasing /\ c \in Stored} \cup {leaf}]]

\* markLoopFailed and closeLoopIfRunning leave a closed loop alone.
CloseLoops(S, how) ==
  status' = [l \in Loops |-> IF l \in S \cap Running THEN how ELSE status[l]]

Without(S) == [i \in Ids |-> IF i \in S THEN NoRow ELSE rows[i]]

\* dropPendingLoopHosts: the stored hosts from this link upward lose the
\* failing child; one with no live child left goes, and its loop fails.
DropHosts(link, failing, also, loops) ==
  LET Visited == Upward(link.host) \cap Hosts
      Live(h) == (rows[h].pending \ {failing}) \cap Stored
      Gone == {h \in Visited : Live(h) = {}}
  IN /\ rows' = [i \in Ids |->
                   IF i \in Gone \cup also THEN NoRow
                   ELSE IF i \in Visited THEN [rows[i] EXCEPT !.pending = Live(i)]
                   ELSE rows[i]]
     /\ claimed' = claimed \ (Gone \cup also)
     /\ CloseLoops(loops \cup {rows[h].loop : h \in Gone}, "failed")

\* Mutant: the hosts the suspension has already written are left.
FailLeafOnly(loops, leaf) ==
  /\ rows' = Without({leaf})
  /\ claimed' = claimed \ {leaf}
  /\ CloseLoops(loops, "failed")
\* failOpenLoops: the suspension of these leaves cannot be resumed.
FailOpen(loops, leaf) ==
  LET Chain == {leaf} \cup {l.host : l \in HostLinks(leaf)}
      Bare == {h \in Hosts : rows[h].pending # {} /\ rows[h].pending \cap Stored \subseteq Chain}
  IN /\ rows' = Without(Chain \cup Bare)
     /\ claimed' = claimed \ (Chain \cup Bare)
     /\ CloseLoops(loops \cup {l.loop : l \in HostLinks(leaf)}
                         \cup {rows[h].loop : h \in Bare}, "failed")

-----------------------------------------------------------------------------
(* A turn of the agent a stream is at, and its loop tools.                 *)

Lvl(p) == act[p].lvl
Cur(p, k) == act[p].cur[k]
Open(p, k) == act[p].open[k]

\* RunOptions._parent of the run at level k of this stream.
ParentOf(p, k) ==
  IF k = act[p].top THEN [act[p].link EXCEPT !.step = act[p].step[k]]
  ELSE [loop |-> Open(p, k - 1), host |-> 0, iter |-> 0, step |-> act[p].step[k]]

\* Mutant: no in-flight guard.
AnyCall(p, k) == TRUE
\* claimLoopCall: a runtime whose tool is running, or has just suspended,
\* refuses a second loop tool call of the step.
MayCall(p, k) == pc[p] = "turn" /\ k = Lvl(p)
Calling(p, k) ==
  /\ pc[p] \in {"turn", "suspending"}
  /\ k \in act[p].top..Lvl(p) /\ k < Depth
  /\ MayCall(p, k)

\* An iteration begins: the agent below gets a new run.  The call keeps hold
\* of its loop, whatever becomes of the active one.
Descend(a, k) ==
  [a EXCEPT !.lvl = k + 1, !.open[k] = a.cur[k], !.cur[k + 1] = 0, !.open[k + 1] = 0,
            !.mine[k + 1] = FALSE, !.step[k + 1] = 1]

StartLoop(p, k) ==
  /\ Calling(p, k) /\ Cur(p, k) = 0
  /\ \E l \in Unused :
       /\ \A x \in Unused : l <= x
       /\ status' = [status EXCEPT ![l] = "running"]
       /\ act' = [act EXCEPT ![p] =
                    Descend([@ EXCEPT !.cur[k] = l, !.mine[k] = TRUE], k)]
  /\ UNCHANGED <<rows, claimed, issued, recorded, clientVars, pc, child, snap,
                 frames, worker, happened>>

IterateLoop(p, k) ==
  /\ Calling(p, k) /\ Cur(p, k) # 0 /\ Done(Cur(p, k)) < MaxIterations
  /\ act' = [act EXCEPT ![p] = Descend(@, k)]
  /\ UNCHANGED <<storeVars, clientVars, pc, child, snap, frames, worker, happened>>

\* core_finish_loop, or core_iterate_loop past the cap.  updateLoop sets the
\* status whatever the row says.
CloseLoop(p, k) ==
  /\ Calling(p, k) /\ Cur(p, k) # 0
  /\ status' = [status EXCEPT ![Cur(p, k)] =
                  IF Done(Cur(p, k)) < MaxIterations THEN "completed" ELSE "exhausted"]
  /\ act' = [act EXCEPT ![p].cur[k] = 0]
  /\ UNCHANGED <<rows, claimed, issued, recorded, clientVars, pc, child, snap,
                 frames, worker, happened>>

\* Mutant: the run leaves its loop as it is.
LeaveOpen(p, k, how) == UNCHANGED status
\* LoopRuntime.finalize, when the run at level k is over.
Finalize(p, k, how) ==
  status' = IF Cur(p, k) = 0 THEN status ELSE [status EXCEPT ![Cur(p, k)] = how]

EndRun(p) ==
  /\ pc[p] = "turn" /\ Finalize(p, Lvl(p), "completed")
  /\ pc' = [pc EXCEPT ![p] = "ended"]
  /\ UNCHANGED <<rows, claimed, issued, recorded, clientVars, act, child, snap, frames,
                 worker, happened>>

\* The pipeline around a run that ended goes on with its next step.
NextStep(p) ==
  LET k == Lvl(p) IN
  /\ pc[p] = "ended" /\ ParentOf(p, k).loop # 0 /\ act[p].step[k] < Steps
  /\ act' = [act EXCEPT ![p].step[k] = @ + 1, ![p].cur[k] = 0, ![p].mine[k] = FALSE]
  /\ pc' = [pc EXCEPT ![p] = "turn"]
  /\ UNCHANGED <<storeVars, clientVars, child, snap, frames, worker, happened>>

\* The last step ends the host's tool call: finalizeIteration.
FinalizeIteration(p) ==
  LET k == Lvl(p) IN
  /\ pc[p] = "ended" /\ k > act[p].top /\ act[p].step[k] = Steps
  /\ recorded' = [recorded EXCEPT ![Open(p, k - 1)] = Append(@, Len(@) + 1)]
  /\ act' = [act EXCEPT ![p].lvl = k - 1, ![p].open[k - 1] = 0]
  /\ pc' = [pc EXCEPT ![p] = "turn"]
  /\ UNCHANGED <<rows, claimed, issued, status, clientVars, child, snap, frames, worker,
                 happened>>

\* At the top of the stack it is up to continueParent.
ContinueParent(p) ==
  LET a == act[p]  k == a.lvl IN
  /\ pc[p] = "ended" /\ k = a.top
  /\ a.link.loop = 0 \/ a.step[k] = Steps
  /\ IF a.link.host = 0 THEN Leave(p)
     ELSE pc' = [pc EXCEPT ![p] = "closing"] /\ UNCHANGED <<act, child, snap, frames, worker>>
  /\ UNCHANGED <<storeVars, clientVars, happened>>

-----------------------------------------------------------------------------
(* Failures.                                                               *)

Fault(kind) ==
  /\ kind \in Kinds \ happened
  /\ Cardinality(happened) < MaxFaults
  /\ happened' = happened \cup {kind}

\* An error below a host is its model's tool error; at the top of the stack
\* it leaves the stream.
Thrown(p) ==
  IF Lvl(p) > act[p].top
  THEN pc' = [pc EXCEPT ![p] = "turn"] /\ act' = [act EXCEPT ![p].lvl = @ - 1, ![p].open[Lvl(p) - 1] = 0]
  ELSE pc' = [pc EXCEPT ![p] = "throwing"] /\ UNCHANGED act

FailRun(p) ==
  /\ pc[p] = "turn" /\ Fault("error")
  /\ Finalize(p, Lvl(p), "failed") /\ Thrown(p)
  /\ UNCHANGED <<rows, claimed, issued, recorded, clientVars, child, snap, frames, worker>>

\* onError recovers the run: it ends without finalize.  Only
\* continueLoopHost closes what that leaves open.
RecoverRun(p) ==
  /\ pc[p] = "turn" /\ Fault("recover")
  /\ IF Lvl(p) = act[p].top /\ frames[p] # <<>>
     THEN CloseLoops({Last(frames[p]).loop}, "completed")
     ELSE UNCHANGED status
  /\ pc' = [pc EXCEPT ![p] = "ended"]
  /\ UNCHANGED <<rows, claimed, issued, recorded, clientVars, act, child, snap, frames,
                 worker>>

\* A throw goes through the catch of each continueLoopHost in turn.
Unwind(p) ==
  /\ pc[p] = "throwing" /\ frames[p] # <<>>
  /\ LET f == Last(frames[p]) IN
     \/ /\ f.open
        /\ DropHosts(f.link, f.child, {}, {})
        /\ frames' = [frames EXCEPT ![p][Len(frames[p])].open = FALSE]
     \/ /\ ~f.open
        /\ CloseLoops({f.loop}, "failed")
        /\ frames' = [frames EXCEPT ![p] = Front(@)]
        /\ UNCHANGED <<rows, claimed>>
  /\ UNCHANGED <<issued, recorded, clientVars, pc, act, child, snap, worker, happened>>

\* abandonLoopWorker, and the stream is over.
AbandonWorker(p) ==
  LET w == worker[p] IN
  /\ DropHosts(w.link, w.id, IF w.releasing THEN {w.id} ELSE {}, {})
  /\ Leave(p)
  /\ UNCHANGED <<issued, recorded, clientVars>>

Throw(p) ==
  /\ pc[p] = "throwing" /\ frames[p] = <<>>
  /\ AbandonWorker(p)
  /\ UNCHANGED happened

\* The consumer stops reading: only the finally blocks run.
Stop(p) ==
  /\ pc[p] = "turn" /\ Fault("stop")
  /\ IF worker[p].releasing THEN AbandonWorker(p)
     ELSE Leave(p) /\ UNCHANGED <<storeVars, clientVars>>

\* The process is gone, with every stream in it.
Crash ==
  /\ Fault("crash")
  /\ pc' = [p \in Streams |-> "off"]
  /\ act' = [p \in Streams |-> NoAct]
  /\ child' = [p \in Streams |-> 0]
  /\ snap' = [p \in Streams |-> <<>>]
  /\ frames' = [p \in Streams |-> <<>>]
  /\ worker' = [p \in Streams |-> NoWorker]
  /\ UNCHANGED <<storeVars, clientVars>>

-----------------------------------------------------------------------------
(* The worker asks, and the loops around it suspend.                       *)

\* suspendRun at the worker.  Bound: ids for the hosts around it are left.
Ask(p) ==
  /\ pc[p] = "turn" /\ Lvl(p) = Depth
  /\ NextId + (Depth - act[p].top) \in Ids
  /\ rows' = [rows EXCEPT ![NextId] =
                [level |-> Depth, link |-> ParentOf(p, Depth), loop |-> 0, pending |-> {}]]
  /\ issued' = NextId
  /\ child' = [child EXCEPT ![p] = NextId]
  /\ pc' = [pc EXCEPT ![p] = "retarget"]
  /\ UNCHANGED <<claimed, status, recorded, clientVars, act, snap, frames, worker, happened>>

ReadHosts(p) ==
  /\ pc[p] = "retarget"
  /\ snap' = [snap EXCEPT ![p] =
                Retargeted(child[p], IF worker[p].releasing THEN worker[p].id ELSE 0)]
  /\ pc' = [pc EXCEPT ![p] = "save"]
  /\ UNCHANGED <<storeVars, clientVars, act, child, frames, worker, happened>>

\* Every host read is saved, one that has gone in between included.
SaveHosts(p) ==
  /\ pc[p] = "save"
  /\ rows' = [i \in Ids |-> IF i \in DOMAIN snap[p] THEN snap[p][i] ELSE rows[i]]
  /\ snap' = [snap EXCEPT ![p] = <<>>]
  /\ pc' = [pc EXCEPT ![p] = "notify"]
  /\ UNCHANGED <<claimed, issued, status, recorded, clientVars, act, child, frames,
                 worker, happened>>

\* onHumanRequired: the worker's own run defers it while no host is linked;
\* a host that has linked its frame does not look further up.
Notify(p) ==
  /\ pc[p] = "notify"
  /\ announced' = IF Callback /\ (Lvl(p) = Depth => ~AwaitingHost(ParentOf(p, Depth)))
                  THEN announced \cup {child[p]} ELSE announced
  /\ pc' = [pc EXCEPT ![p] = "yield"]
  /\ UNCHANGED <<storeVars, answered, act, child, snap, frames, worker, happened>>

\* The watch over the crumbs a resume yields: the worker row goes once no
\* host names it.
Freed(p) == worker[p].releasing /\ ~StillPending(worker[p].id)
Release(p) ==
  LET gone == IF Freed(p) THEN {worker[p].id} ELSE {}
  IN rows' = Without(gone) /\ claimed' = claimed \ gone

\* human:required: the loop around a live run holds it back, the consumer
\* gets it from the run at the top.
Surfaces(p) == Lvl(p) = act[p].top
YieldRequired(p) ==
  /\ pc[p] = "yield"
  /\ IF Lvl(p) > act[p].top
     THEN /\ pc' = [pc EXCEPT ![p] = "suspending"]
          /\ act' = [act EXCEPT ![p].lvl = @ - 1]
          /\ UNCHANGED <<rows, claimed, worker, child, snap, frames>>
     ELSE Release(p) /\ Leave(p)
  /\ announced' = announced \cup IF Surfaces(p) THEN {child[p]} ELSE {}
  /\ UNCHANGED <<issued, status, recorded, answered, happened>>

\* The iteration a suspension leaves open.
OpenIteration(l) == Done(l) + 1

\* The host's turn after its loop tool threw LOOP_SUSPENDED: find the frame
\* to link, write the host checkpoint.
SuspendHost(p) ==
  LET k == Lvl(p)
      found == FrameOf(child[p], Open(p, k))
      link(f) == [rows[f].link EXCEPT !.host = NextId, !.iter = OpenIteration(Open(p, k))]
  IN /\ pc[p] = "suspending" /\ found # {} /\ NextId \in Ids
     /\ rows' = [rows EXCEPT ![NextId] =
                   [level |-> k, link |-> ParentOf(p, k), loop |-> Open(p, k),
                    pending |-> {child[p]}]]
     /\ issued' = NextId
     /\ snap' = [snap EXCEPT ![p] = [f \in found |-> [rows[f] EXCEPT !.link = link(f)]]]
     /\ pc' = [pc EXCEPT ![p] = "link"]
     /\ UNCHANGED <<claimed, status, recorded, clientVars, act, child, frames, worker,
                    happened>>

\* saveCheckpoint of the frame as it was read, with the link attached.
LinkFrame(p) ==
  /\ pc[p] = "link"
  /\ rows' = [i \in Ids |-> IF i \in DOMAIN snap[p] THEN snap[p][i] ELSE rows[i]]
  /\ snap' = [snap EXCEPT ![p] = <<>>]
  /\ pc' = [pc EXCEPT ![p] = "retarget"]
  /\ UNCHANGED <<claimed, issued, status, recorded, clientVars, act, child, frames,
                 worker, happened>>

\* MIXED_SUSPENSION_UNSUPPORTED: the frame is gone, or the turn suspended
\* for something else as well.
Unsupported(p) ==
  LET k == Lvl(p) IN
  /\ pc[p] = "suspending"
  /\ \/ FrameOf(child[p], Open(p, k)) = {} /\ UNCHANGED happened
     \/ Fault("mixed")
  /\ FailOpen({Open(p, k)}, child[p])
  /\ Thrown(p)
  /\ UNCHANGED <<issued, recorded, clientVars, child, snap, frames, worker>>

\* The model call fails after the suspension and the attempt is retried:
\* LoopRuntime.reset.
RetryHost(p) ==
  LET k == Lvl(p)
      started == IF act[p].mine[k] THEN {Cur(p, k)} ELSE {}
  IN /\ pc[p] = "suspending" /\ Fault("retry")
     /\ FailOpen(started, child[p])
     /\ act' = [act EXCEPT ![p].cur[k] = IF started = {} THEN @ ELSE 0,
                           ![p].mine[k] = FALSE,
                           ![p].open[k] = 0]
     /\ pc' = [pc EXCEPT ![p] = "turn"]
     /\ UNCHANGED <<issued, recorded, clientVars, child, snap, frames, worker>>

-----------------------------------------------------------------------------
(* Resuming.                                                               *)

ReadCheckpoint(p, c) ==
  /\ p \in Resumers /\ pc[p] = "off"
  /\ c \in Stored \cap (announced \cup IF p \in Inspectors THEN Hosts ELSE {})
  /\ child' = [child EXCEPT ![p] = c]
  /\ snap' = [snap EXCEPT ![p] = [i \in {c} |-> rows[i]]]
  /\ pc' = [pc EXCEPT ![p] = IF rows[c].loop = 0 THEN "claim" ELSE "inspect"]
  /\ UNCHANGED <<storeVars, clientVars, act, frames, worker, happened>>

\* claimCheckpoint, and deleteCheckpoint with unclaimedOnly.
WinsClaim(c) == c \in Stored \ claimed

\* A worker with a host is claimed, any other checkpoint is deleted; the
\* parent is the one that was read.
Claim(p) ==
  LET c == child[p]  link == snap[p][c].link  loopWorker == link.host # 0 IN
  /\ pc[p] = "claim"
  /\ IF WinsClaim(c)
     THEN /\ IF loopWorker THEN claimed' = claimed \cup {c} /\ UNCHANGED rows
             ELSE rows' = Without({c}) /\ UNCHANGED claimed
          /\ answered' = [answered EXCEPT ![c] = @ + 1]
          /\ worker' = [worker EXCEPT ![p] = [id |-> c, link |-> link, releasing |-> loopWorker]]
          /\ act' = [act EXCEPT ![p] =
                       [NoAct EXCEPT !.top = Depth, !.lvl = Depth, !.link = link,
                                     !.step[Depth] = link.step]]
          /\ pc' = [pc EXCEPT ![p] = "turn"]
          /\ UNCHANGED <<child, snap, frames>>
     ELSE Leave(p) /\ UNCHANGED <<rows, claimed, answered>>
  /\ UNCHANGED <<issued, status, recorded, announced, happened>>

\* resume() of a host checkpoint is refused; with no live child the host
\* goes, its loop fails, and so on upward.
InspectHost(p) ==
  LET h == child[p]
      read == snap[p][h]
      live == read.pending \cap Stored
  IN /\ pc[p] = "inspect"
     /\ IF live = {}
        THEN DropHosts(read.link, CHOOSE c \in read.pending : TRUE, {h}, {read.loop})
        ELSE /\ rows' = IF live = read.pending THEN rows
                        ELSE [rows EXCEPT ![h] = [read EXCEPT !.pending = live]]
             /\ UNCHANGED <<claimed, status>>
     /\ happened' = IF rows[h] = read THEN happened ELSE happened \cup {"overtaken"}
     /\ Leave(p)
     /\ UNCHANGED <<issued, recorded, clientVars>>

\* continueLoopHost: read the host checkpoint.
GetHost(p) ==
  LET link == act[p].link IN
  /\ pc[p] = "closing"
  /\ IF link.host \in Stored
     THEN /\ snap' = [snap EXCEPT ![p] = [i \in {link.host} |-> rows[i]]]
          /\ pc' = [pc EXCEPT ![p] = "host"]
          /\ UNCHANGED status
     ELSE /\ CloseLoops({link.loop}, "failed")
          /\ pc' = [pc EXCEPT ![p] = "throwing"]
          /\ UNCHANGED snap
  /\ UNCHANGED <<rows, claimed, issued, recorded, clientVars, act, child, frames, worker,
                 happened>>

\* completeLoopIteration up to the claim; onIterationEnd may throw first.
ClaimHost(p) ==
  LET h == act[p].link.host IN
  /\ pc[p] = "host"
  /\ \/ h \in Stored /\ rows' = Without({h}) /\ claimed' = claimed \ {h}
        /\ pc' = [pc EXCEPT ![p] = "record"] /\ UNCHANGED happened
     \/ /\ (h \notin Stored /\ UNCHANGED happened) \/ Fault("hook")
        /\ pc' = [pc EXCEPT ![p] = "throwing"]
        /\ UNCHANGED <<rows, claimed>>
  /\ UNCHANGED <<issued, status, recorded, clientVars, act, child, snap, frames, worker>>

\* The iteration row, loop:iteration:end, and the host's run goes on from
\* the checkpoint: buildLoopTools finds the loop only while it is running.
RecordIteration(p) ==
  LET link == act[p].link
      host == snap[p][link.host]
      k == act[p].top - 1
  IN /\ pc[p] = "record"
     /\ recorded' = [recorded EXCEPT ![link.loop] = Append(@, link.iter)]
     /\ Release(p)
     /\ worker' = [worker EXCEPT ![p].releasing = @ /\ ~Freed(p)]
     /\ frames' = [frames EXCEPT ![p] =
          Append(@, [link |-> host.link, loop |-> link.loop, open |-> TRUE,
                     child |-> CHOOSE c \in host.pending : TRUE])]
     /\ act' = [act EXCEPT ![p] =
          [NoAct EXCEPT !.top = k, !.lvl = k, !.link = host.link, !.step[k] = host.link.step,
                        !.cur[k] = IF link.loop \in Running THEN link.loop ELSE 0]]
     /\ snap' = [snap EXCEPT ![p] = <<>>]
     /\ pc' = [pc EXCEPT ![p] = "turn"]
     /\ UNCHANGED <<issued, status, clientVars, child, happened>>

\* The store fails after the host was claimed.
LoseRecord(p) ==
  /\ pc[p] = "record" /\ Fault("store")
  /\ CloseLoops({act[p].link.loop}, "failed")
  /\ pc' = [pc EXCEPT ![p] = "throwing"]
  /\ UNCHANGED <<rows, claimed, issued, recorded, clientVars, act, child, snap, frames, worker>>

-----------------------------------------------------------------------------
Step(p) ==
  /\ pc[p] # "off"
  /\ \/ \E k \in Levels : StartLoop(p, k) \/ IterateLoop(p, k) \/ CloseLoop(p, k)
     \/ EndRun(p) \/ NextStep(p) \/ FinalizeIteration(p) \/ ContinueParent(p)
     \/ Ask(p) \/ ReadHosts(p) \/ SaveHosts(p) \/ Notify(p) \/ YieldRequired(p)
     \/ SuspendHost(p) \/ LinkFrame(p) \/ Unsupported(p)
     \/ Claim(p) \/ InspectHost(p) \/ GetHost(p) \/ ClaimHost(p) \/ RecordIteration(p)
     \/ Unwind(p) \/ Throw(p)

Faults(p) == FailRun(p) \/ RecoverRun(p) \/ RetryHost(p) \/ LoseRecord(p) \/ Stop(p)

Next ==
  \/ \E p \in Streams : Step(p) \/ Faults(p)
  \/ \E p \in Streams, c \in Ids : ReadCheckpoint(p, c)
  \/ Crash

Fairness ==
  /\ \A p \in Streams : WF_vars(Step(p))
  /\ \A c \in Ids : SF_vars(\E p \in Streams : ReadCheckpoint(p, c))

Spec == Init /\ [][Next]_vars /\ Fairness

-----------------------------------------------------------------------------
(* What should hold.                                                       *)

PCs == {"off", "turn", "ended", "retarget", "save", "notify", "yield", "suspending", "link",
        "claim", "inspect", "closing", "host", "record", "throwing"}
Activation ==
  [top : Levels, lvl : Levels, cur : [Levels -> 0..MaxLoops], open : [Levels -> 0..MaxLoops],
   mine : [Levels -> BOOLEAN], step : [Levels -> 1..Steps], link : Link]
Frame == [link : Link, loop : 0..MaxLoops, open : BOOLEAN, child : Ids]

\* The state of the store and of every stream has its shape.
TypeOK ==
  /\ rows \in [Ids -> Row \cup {NoRow}]
  /\ claimed \subseteq Stored
  /\ issued \in 0..MaxRows
  /\ status \in [Loops -> {"none", "running", "completed", "exhausted", "failed"}]
  /\ recorded \in [Loops -> Seq(Nat)]
  /\ announced \subseteq Ids
  /\ answered \in [Ids -> Nat]
  /\ pc \in [Streams -> PCs]
  /\ act \in [Streams -> Activation]
  /\ child \in [Streams -> 0..MaxRows]
  /\ \A p \in Streams : DOMAIN snap[p] \subseteq Ids /\ \A i \in DOMAIN snap[p] : snap[p][i] \in Row
  /\ frames \in [Streams -> Seq(Frame)]
  /\ worker \in [Streams -> [id : 0..MaxRows, link : Link, releasing : BOOLEAN]]
  /\ happened \subseteq FaultKinds

\* The answer to a question is acted on once, whoever resumes it twice and
\* whether its checkpoint is deleted or claimed by then.
AnsweredOnce == \A i \in Ids : answered[i] <= 1

Resting == \A p \in Streams : pc[p] = "off"

\* The pending list of a host names leaves that a human can answer, and each
\* of them leads back to the host.
Resumable(h) ==
  /\ rows[h].pending # {}
  /\ \A c \in rows[h].pending :
       c \in Stored \ claimed /\ c \in announced /\ rows[c].loop = 0 /\ h \in Upward(c)

\* Once no stream is being drained, a loop that is still running has its
\* host checkpoint, whose iteration somebody can resume: no loop is left
\* open with nothing to close it.  A consumer that stops reading, a crash,
\* a store that fails, a recovered run and the resume of a host that reads
\* it before and looks for its children after they are replaced leave one.
Excused == {"stop", "crash", "store", "recover", "overtaken"}
OpenLoopHeld ==
  Resting /\ happened \cap Excused = {} =>
    \A l \in Running : \E h \in Hosts : rows[h].loop = l /\ Resumable(h)

\* And a host checkpoint is there for a loop that is still running, a
\* claimed worker for nobody: rows do not outlive what they are for.
NothingLeftOver ==
  Resting /\ happened \cap Excused = {} =>
    /\ \A h \in Hosts : rows[h].loop \in Running /\ Resumable(h)
    /\ claimed = {}

\* A loop's row goes the way AgentLoop promises: one iteration at a time,
\* none after it is closed, and it is closed once.
LoopLife ==
  INSTANCE AgentLoop WITH count <- [l \in Loops |-> Done(l)]
RefinesLoop ==
  /\ LoopLife!LoopInit
  /\ [][LoopLife!LoopNext \/ "overtaken" \in happened']_<<status, recorded>>

\* A loop whose questions are answered is closed in the end.
LoopsClose ==
  \A l \in Loops : l \in Running ~> l \notin Running \/ happened \cap Excused # {}
=============================================================================

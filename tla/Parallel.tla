------------------------------ MODULE Parallel ------------------------------
(***************************************************************************)
(* The parallel step of a pipeline: runParallelSteps drains every branch   *)
(* at once, waits until all have settled and, when some are suspended,     *)
(* fills in the sibling data of their checkpoints; continuePipelineParent  *)
(* fills the slot of a resumed branch and hands the merged outputs to the  *)
(* remaining steps.                                                        *)
(*                                                                         *)
(* Suspensions of siblings are answered one after another, which is what   *)
(* docs/hitl.md:119-121 supports; the same answer may be sent twice.  So   *)
(* nobody writes a sibling's checkpoint between the get and the save of a  *)
(* fill or of a merge, and each is one step; a crash can come in between   *)
(* two of them.  An output is known by its slot, and an agent's run by     *)
(* what it can do next: end with a decision label, ask a human, fail.      *)
(***************************************************************************)
EXTENDS Naturals, Sequences, FiniteSets

CONSTANTS
  Branches,   \* the nested steps
  Deciders,   \* those with a decision step
  Clients,    \* callers of resume()
  MaxAsk,     \* bound: human tool calls of one branch
  MaxAgain,   \* bound: asks of branches that have asked before
  MaxFaults,  \* bound: runs that fail, process crashes and dropped streams
  Labels,     \* labels a decision step of a branch can settle on
  Incoming,   \* the label, or its absence, the parallel step was entered with
  NoAsk

Asks == Branches \X (1..MaxAsk)

ASSUME BranchAssumption == IsFiniteSet(Branches) /\ Deciders \subseteq Branches
ASSUME BoundAssumption == MaxAsk \in Nat /\ MaxAgain \in Nat /\ MaxFaults \in Nat
ASSUME NullAssumption == Incoming \notin Labels /\ NoAsk \notin Asks

Slot == Labels \cup {Incoming}
CanDecide(b) == IF b \in Deciders THEN Slot ELSE {Incoming}

\* PipelineCheckpointParent of the parallel step: settledOutputs as the slots
\* that are not null, pendingCheckpointIds and decisionLabel.
Frame == [settled : SUBSET Branches, pending : Seq(Asks), label : Slot]
NewFrame == [settled |-> {}, pending |-> <<>>, label |-> Incoming]

VARIABLES
  rows,     \* checkpoints stored
  frame,    \* the parallel frame each stored checkpoint carries
  step,     \* where the call of runParallelSteps is
  got,      \* what it has collected from its branches
  tofill,   \* suspended checkpoints whose sibling data is to be written
  status,   \* where the agent run of each branch is
  asked,    \* how often it has asked
  decided,  \* the label it ended with
  call,     \* each client's call of resume()
  passed,   \* what was handed to the remaining steps, each time
  execs,    \* how often a checkpoint's answer was acted on
  faults, crashes

stepVars == <<step, got, tofill>>
countVars == <<execs, faults, crashes>>
vars == <<rows, frame, stepVars, status, asked, decided, call, passed, countVars>>

\* A call of resume(): where it is, its checkpoint, the frame it holds, the
\* siblings it has yet to write to.
Call == [pc : {"idle", "claiming", "driving", "sharing"}, id : Asks \cup {NoAsk},
         frame : Frame, toshare : Seq(Asks)]
Idle == [pc |-> "idle", id |-> NoAsk, frame |-> NewFrame, toshare |-> <<>>]

StoreTypes == rows \subseteq Asks /\ frame \in [Asks -> Frame]
StepTypes ==
  /\ step \in {"running", "filling", "suspended", "done", "failed", "dropped", "lost"}
  /\ got \in [outputs : SUBSET Branches, suspended : Seq(Asks), label : Slot,
              failed : BOOLEAN, conflict : BOOLEAN]
  /\ tofill \in Seq(Asks)
BranchTypes ==
  /\ status \in [Branches -> {"running", "suspended", "resumed", "ended",
                              "failed", "lost"}]
  /\ asked \in [Branches -> 0..MaxAsk]
  /\ decided \in [Branches -> Slot]
CountTypes ==
  /\ passed \in Seq([slots : SUBSET Branches, label : Slot])
  /\ execs \in [Asks -> Nat]
  /\ faults \in 0..MaxFaults
  /\ crashes \in 0..MaxFaults

TypeOK ==
  StoreTypes /\ StepTypes /\ BranchTypes /\ call \in [Clients -> Call] /\ CountTypes

Init ==
  /\ rows = {} /\ frame = [id \in Asks |-> NewFrame]
  /\ step = "running" /\ tofill = <<>>
  /\ got = [outputs |-> {}, suspended |-> <<>>, label |-> Incoming,
            failed |-> FALSE, conflict |-> FALSE]
  /\ status = [b \in Branches |-> "running"]
  /\ asked = [b \in Branches |-> 0]
  /\ decided = [b \in Branches |-> Incoming]
  /\ call = [p \in Clients |-> Idle]
  /\ passed = <<>>
  /\ execs = [id \in Asks |-> 0] /\ faults = 0 /\ crashes = 0

\* Mutant: the label that settles last wins.
LastLabelWins(current, slot) == FALSE
\* joinSlotLabel throws for a second new label...
Conflicts(current, slot) == slot # Incoming /\ current \notin {Incoming, slot}
\* ...and else returns the label so far or the slot's.
JoinSlotLabel(current, slot) == IF slot = Incoming THEN current ELSE slot

MayFault == faults + crashes < MaxFaults
Repeated == {id \in Asks : id[2] \in 2..asked[id[1]]}

-----------------------------------------------------------------------------
(* runParallelSteps.                                                       *)

\* suspendRun stores the checkpoint of the branch's next ask, with the frame
\* the branch was run or resumed with.
StoreAsk(b, f) ==
  LET id == <<b, asked[b] + 1>> IN
  /\ asked[b] < MaxAsk
  /\ rows' = rows \cup {id}
  /\ frame' = [frame EXCEPT ![id] = f]
  /\ asked' = [asked EXCEPT ![b] = @ + 1]
  /\ status' = [status EXCEPT ![b] = "suspended"]

\* drain: the branch's stream carries human:required, which is held back.
Suspend(b) ==
  /\ status[b] = "running"
  /\ StoreAsk(b, NewFrame)
  /\ got' = [got EXCEPT !.suspended = Append(@, <<b, asked'[b]>>)]
  /\ UNCHANGED <<step, tofill, decided, call, passed, countVars>>

\* adoptJoined: the first conflict is a failure, then labels are left alone.
Adopt(g, l) ==
  IF g.conflict \/ Conflicts(g.label, l)
  THEN [g EXCEPT !.conflict = TRUE, !.failed = TRUE]
  ELSE [g EXCEPT !.label = JoinSlotLabel(@, l)]

\* drain: the branch's pipeline returns with label l.
End(b, l) ==
  /\ status[b] = "running"
  /\ status' = [status EXCEPT ![b] = "ended"]
  /\ decided' = [decided EXCEPT ![b] = l]
  /\ got' = Adopt([got EXCEPT !.outputs = @ \cup {b}], l)
  /\ UNCHANGED <<rows, frame, step, tofill, asked, call, passed, countVars>>

\* drain: the branch's pipeline throws.
Fail(b) ==
  /\ status[b] = "running"
  /\ MayFault
  /\ faults' = faults + 1
  /\ status' = [status EXCEPT ![b] = "failed"]
  /\ got' = [got EXCEPT !.failed = TRUE]
  /\ UNCHANGED <<rows, frame, step, tofill, asked, decided, call, passed, execs, crashes>>

Settled == step = "running" /\ \A b \in Branches : status[b] # "running"

\* Every branch has settled and one has failed: its error is thrown.
Throw ==
  /\ Settled /\ got.failed
  /\ step' = "failed"
  /\ UNCHANGED <<rows, frame, got, tofill, status, asked, decided, call, passed, countVars>>

\* None has suspended: runPipeline goes on with the outputs.
Return ==
  /\ Settled /\ ~got.failed /\ got.suspended = <<>>
  /\ step' = "done"
  /\ passed' = Append(passed, [slots |-> got.outputs, label |-> got.label])
  /\ UNCHANGED <<rows, frame, got, tofill, status, asked, decided, call, countVars>>

StartFilling ==
  /\ Settled /\ ~got.failed /\ got.suspended # <<>>
  /\ step' = "filling" /\ tofill' = got.suspended
  /\ UNCHANGED <<rows, frame, got, status, asked, decided, call, passed, countVars>>

\* Mutant: the slots that settled at once are not written.
SiblingIdsOnly ==
  [settled |-> {}, pending |-> got.suspended, label |-> got.label]
\* The settled outputs and the suspended checkpoints, once both are known.
SiblingData ==
  [settled |-> got.outputs, pending |-> got.suspended, label |-> got.label]

\* The sibling data of the next suspended checkpoint becomes durable.
Fill ==
  /\ step = "filling" /\ tofill # <<>>
  /\ tofill' = Tail(tofill)
  /\ frame' = [frame EXCEPT ![Head(tofill)] = SiblingData]
  /\ UNCHANGED <<rows, step, got, status, asked, decided, call, passed, countVars>>

\* The held human:required crumbs are yielded and the pipeline stops.
Surface ==
  /\ step = "filling" /\ tofill = <<>>
  /\ step' = "suspended"
  /\ UNCHANGED <<rows, frame, got, tofill, status, asked, decided, call, passed, countVars>>

\* The consumer stops reading: the generator returns at its next yield, the
\* drains it started run on.
Drop ==
  /\ step = "running" /\ ~Settled /\ MayFault
  /\ step' = "dropped" /\ crashes' = crashes + 1
  /\ UNCHANGED <<rows, frame, got, tofill, status, asked, decided, call, passed,
                 execs, faults>>

-----------------------------------------------------------------------------
(* resumeRun and continuePipelineParent.                                   *)

\* A client knows a checkpoint from its human:required crumb, or lists the
\* store for it when the pipeline's stream ended without one.
Known(id) == id \in rows /\ step \in {"suspended", "failed", "dropped", "lost"}

\* resumeRun reads the checkpoint.
Resume(p, id) ==
  /\ call[p] = Idle
  /\ Known(id)
  /\ \A q \in Clients : call[q].id \in {id, NoAsk}
  /\ call' = [call EXCEPT ![p] = [@ EXCEPT !.pc = "claiming", !.id = id,
                                           !.frame = frame[id]]]
  /\ UNCHANGED <<rows, frame, stepVars, status, asked, decided, passed, countVars>>

\* deleteCheckpoint says whether this call removed the row.
WinsClaim(id) == id \in rows

Claim(p) ==
  LET id == call[p].id IN
  /\ call[p].pc = "claiming"
  /\ WinsClaim(id)
  /\ rows' = rows \ {id}
  /\ execs' = [execs EXCEPT ![id] = @ + 1]
  /\ status' = [status EXCEPT ![id[1]] = "resumed"]
  /\ call' = [call EXCEPT ![p].pc = "driving"]
  /\ UNCHANGED <<frame, stepVars, asked, decided, passed, faults, crashes>>

Leave(p) == call' = [call EXCEPT ![p] = Idle]

LoseClaim(p) ==
  /\ call[p].pc = "claiming"
  /\ call[p].id \notin rows
  /\ Leave(p)
  /\ UNCHANGED <<rows, frame, stepVars, status, asked, decided, passed, countVars>>

Drives(p, b) == call[p].pc = "driving" /\ call[p].id[1] = b

\* The resumed run asks again: its new checkpoint carries the parent that was
\* read from the old one.
SuspendAgain(p, b) ==
  /\ Drives(p, b)
  /\ Cardinality(Repeated) < MaxAgain
  /\ StoreAsk(b, call[p].frame)
  /\ Leave(p)
  /\ UNCHANGED <<stepVars, decided, passed, countVars>>

FailAgain(p, b) ==
  /\ Drives(p, b)
  /\ MayFault
  /\ faults' = faults + 1
  /\ status' = [status EXCEPT ![b] = "failed"]
  /\ Leave(p)
  /\ UNCHANGED <<rows, frame, stepVars, asked, decided, passed, execs, crashes>>

\* The resumed run ends with label l and its frame is to be continued.
Ends(p, b, l) ==
  /\ Drives(p, b)
  /\ status' = [status EXCEPT ![b] = "ended"]
  /\ decided' = [decided EXCEPT ![b] = l]
  /\ UNCHANGED <<rows, frame, stepVars, asked, countVars>>

\* adoptSlotLabel throws PIPELINE_DECISION_CONFLICT.
EndConflicting(p, b, l) ==
  /\ Ends(p, b, l)
  /\ Conflicts(call[p].frame.label, l)
  /\ Leave(p)
  /\ UNCHANGED passed

\* Mutant: a frame without sibling data is merged as it is.
NeverLosesState(f) == FALSE
LosesState(f) == f.pending = <<>>

\* continuePipelineParent throws PIPELINE_STATE_LOST.
EndWithoutState(p, b, l) ==
  /\ Ends(p, b, l)
  /\ ~Conflicts(call[p].frame.label, l)
  /\ LosesState(call[p].frame)
  /\ Leave(p)
  /\ UNCHANGED passed

\* The frame with the slot of branch b filled.
WithSlot(f, b, l) ==
  [f EXCEPT !.settled = @ \cup {b}, !.label = JoinSlotLabel(@, l)]
\* Mutant: siblings are taken to be pending without a look at the store.
AnyListed(f) == \E i \in DOMAIN f.pending : f.pending[i] # NoAsk
\* Whether a listed checkpoint is still stored; the claimed one is not.
StillPending(f) == \E i \in DOMAIN f.pending : f.pending[i] \in rows

\* Siblings are still suspended: the slot is to be written into each.
EndEarly(p, b, l) ==
  LET f == call[p].frame IN
  /\ Ends(p, b, l)
  /\ ~Conflicts(f.label, l) /\ ~LosesState(f) /\ StillPending(f)
  /\ call' = [call EXCEPT ![p] = [@ EXCEPT !.pc = "sharing",
                !.frame = WithSlot(f, b, l), !.toshare = f.pending]]
  /\ UNCHANGED passed

\* The last one outstanding carries the merged output into the rest.
EndLast(p, b, l) ==
  LET f == call[p].frame IN
  /\ Ends(p, b, l)
  /\ ~Conflicts(f.label, l) /\ ~LosesState(f) /\ ~StillPending(f)
  /\ passed' = Append(passed, [slots |-> WithSlot(f, b, l).settled,
                               label |-> WithSlot(f, b, l).label])
  /\ Leave(p)

\* joinSlotLabel throws for the sibling whose turn it is.
Throws(p) ==
  LET todo == call[p].toshare IN
  /\ todo # <<>> /\ Head(todo) \in rows
  /\ Conflicts(frame[Head(todo)].label, call[p].frame.label)

\* The next listed checkpoint, if stored, is saved with the slot and the label.
Share(p) ==
  LET id == Head(call[p].toshare) IN
  /\ call[p].pc = "sharing" /\ call[p].toshare # <<>> /\ ~Throws(p)
  /\ frame' = IF id \in rows
              THEN [frame EXCEPT ![id] = WithSlot(@, call[p].id[1], call[p].frame.label)]
              ELSE frame
  /\ call' = [call EXCEPT ![p].toshare = Tail(@)]
  /\ UNCHANGED <<rows, stepVars, status, asked, decided, passed, countVars>>

\* The stream ends: the last one is saved, or one throws and those before it
\* stay saved.
Shared(p) ==
  /\ call[p].pc = "sharing"
  /\ call[p].toshare # <<>> => Throws(p)
  /\ Leave(p)
  /\ UNCHANGED <<rows, frame, stepVars, status, asked, decided, passed, countVars>>

\* The process dies: what was only in memory is gone.
Crash ==
  /\ MayFault
  /\ crashes' = crashes + 1
  /\ step' = CASE step = "running" -> "dropped"
               [] step = "filling" -> "lost"
               [] OTHER -> step
  /\ status' = [b \in Branches |->
                  IF status[b] \in {"running", "resumed"} THEN "lost" ELSE status[b]]
  /\ call' = [p \in Clients |-> Idle]
  /\ UNCHANGED <<rows, frame, got, tofill, asked, decided, passed, execs, faults>>

BranchStep(b) == Suspend(b) \/ Fail(b) \/ \E l \in CanDecide(b) : End(b, l)
StepStep == Throw \/ Return \/ StartFilling \/ Fill \/ Surface
EndStep(p, b, l) ==
  \/ EndConflicting(p, b, l)
  \/ EndWithoutState(p, b, l)
  \/ EndEarly(p, b, l)
  \/ EndLast(p, b, l)
RunStep(p, b) ==
  SuspendAgain(p, b) \/ FailAgain(p, b) \/ \E l \in CanDecide(b) : EndStep(p, b, l)
ClientStep(p) ==
  \/ Claim(p) \/ LoseClaim(p)
  \/ \E b \in Branches : RunStep(p, b)
  \/ Share(p) \/ Shared(p)

Next ==
  \/ \E b \in Branches : BranchStep(b)
  \/ StepStep
  \/ \E p \in Clients : ClientStep(p)
  \/ \E p \in Clients, id \in Asks : Resume(p, id)
  \/ Drop
  \/ Crash

Spec == Init /\ [][Next]_vars

\* Promises that have been started are settled by the event loop, model calls
\* by their timeouts; people answer what they are asked.
Fairness ==
  /\ \A b \in Branches : WF_vars(BranchStep(b))
  /\ WF_vars(StepStep)
  /\ \A p \in Clients : WF_vars(ClientStep(p))
  /\ \A id \in Asks : WF_vars(\E p \in Clients : Resume(p, id))

FairSpec == Spec /\ Fairness

-----------------------------------------------------------------------------
(* Properties.                                                             *)

\* Two slots settled on different new labels.
Disagree == \E b, c \in Branches :
  decided[b] # Incoming /\ Conflicts(decided[b], decided[c])

\* A branch did not simply settle: its run failed or died, or asked again.
Disturbed ==
  \/ crashes > 0
  \/ Disagree
  \/ \E b \in Branches : status[b] \in {"failed", "lost"} \/ asked[b] > 1

\* A checkpoint is acted on once, however often its answer is sent: the claim
\* of resumeRun (runner-resume.ts:164-173).
ActsOnce == \A id \in Asks : execs[id] <= 1

\* When every branch settles, in whatever order people answer, the remaining
\* steps run once and get every slot (pipeline.ts:589-591).
JoinsOnce ==
  ~Disturbed =>
    /\ Len(passed) <= 1
    /\ \A i \in DOMAIN passed : passed[i].slots = Branches

\* A parallel step that threw, or whose stream ended before its sibling data
\* was written, is never continued by a checkpoint it left behind
\* (pipeline.ts:594-608).
NeverFromPartialState == step \in {"failed", "dropped"} => passed = <<>>

\* No slot the remaining steps see settled on another label than the one they
\* are given, crashes and repeated asks included (pipeline.ts:348-382).
LabelIsOfSlots ==
  \A i \in DOMAIN passed : \A b \in passed[i].slots :
    decided[b] \in {Incoming, passed[i].label}

\* The remaining steps run, unless something went wrong: when everybody
\* answers, the last resume finds that it is the last.
Continues == <>(passed # <<>> \/ Disturbed)

=============================================================================

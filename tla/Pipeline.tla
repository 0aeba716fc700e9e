------------------------------ MODULE Pipeline ------------------------------
(***************************************************************************)
(* Sequential pipelines: packages/core/src/pipeline.ts.                    *)
(*                                                                         *)
(* A pipeline is a list of steps.  runPipeline walks it, handing each      *)
(* step's output to the next; a branch runs one arm as a pipeline of its   *)
(* own; a decision leaves the value alone and sets the label a later       *)
(* branch reads; a map runs one agent per element.  When an agent pauses   *)
(* for a human, what is left is stored beside its checkpoint as a list of  *)
(* frames, innermost first, and every generator returns.  The answer may   *)
(* come in another process: continuePipelineParent then finishes one frame *)
(* after the other.  The two paths share no state, so the question is      *)
(* whether a paused pipeline does what it would have done unpaused.        *)
(*                                                                         *)
(* Parallel steps are in Parallel, loop hosts in HostLoop, the claim of a  *)
(* checkpoint in Delegation.                                               *)
(***************************************************************************)
EXTENDS Naturals, Sequences, SequencesExt

CONSTANTS Programs,    \* the step lists that are tried
          Input,       \* the value a pipeline is started with
          Statuses,    \* what an agent's output may hold at the path of an `on`
          Labels,      \* what a decision may answer
          Delegators,  \* the agents whose model delegates to a sub-agent
          MaxPauses    \* bound: pauses for a human in one behaviour

None == "none"         \* an absent label, status or agent

(***************************************************************************)
(* Values.  An output is the term that made it, with the status a branch   *)
(* can read from it.                                                       *)
(***************************************************************************)
Value(tag, args, status) == [tag |-> tag, args |-> args, status |-> status]
Atom(x) == Value(x, << >>, None)
Array(items) == Value("array", items, None)
Made(agent, input, status) == Value(agent, <<input>>, status)

\* Array.isArray(current) ? current : [current]
Items(v) == IF v.tag = "array" THEN v.args ELSE <<v>>

(***************************************************************************)
(* Steps.                                                                  *)
(***************************************************************************)
Step(type, agent) == [type |-> type, agent |-> agent, on |-> FALSE, cases |-> << >>, default |-> << >>]
AgentStep(agent) == Step("agent", agent)
MapStep(agent) == Step("map", agent)
DecisionStep == Step("decision", "decision")
\* `default` is a list of no arm or one arm.
BranchStep(on, cases, default) ==
    [Step("branch", "branch") EXCEPT !.on = on, !.cases = cases, !.default = default]

VARIABLES program,  \* the step list of this run
          stack,    \* the runPipeline generators that are open, outermost first
          run,      \* the agent run or decision the innermost one waits for
          saved,    \* the checkpoint of the paused agent, with its frames
          phase,    \* live, paused, done, failed, lost
          crumbs,   \* the pipeline crumbs every stream of this run has yielded
          said,     \* what agents and decisions answered, in order
          pauses

vars == <<program, stack, run, saved, phase, crumbs, said, pauses>>

Idle == [at |-> "idle", agent |-> None, input |-> Input, parent |-> << >>, results |-> << >>, child |-> FALSE]

Activation(pid, steps, base, current, label, outer) ==
    [pid |-> pid, steps |-> steps, base |-> base, i |-> 0,
     current |-> current, label |-> label, outer |-> outer]

Init ==
    /\ program \in Programs
    /\ stack = <<Activation(<< >>, program, 0, Input, None, << >>)>>
    /\ run = Idle
    /\ saved = << >>
    /\ phase = "live"
    /\ crumbs = << >>
    /\ said = << >>
    /\ pauses = 0

Top == Last(stack)
Current(a) == a.steps[a.i + 1]

\* stepRunIdOf: the nesting of pipeline ids and the index
StepRunId(pid, index) == Append(pid, index)

\* stepParent: this step's suffix only
StepParent(a) ==
    [pid |-> a.pid, stepIndex |-> a.base + a.i, stepAgentId |-> Current(a).agent,
     remainingSteps |-> SubSeq(a.steps, a.i + 2, Len(a.steps)),
     decisionLabel |-> a.label, mapped |-> FALSE, settledOutputs |-> << >>, remainingItems |-> << >>]

MapFrame(frame, results, todo) ==
    [frame EXCEPT !.mapped = TRUE, !.settledOutputs = results, !.remainingItems = todo]

AgentRun(at, agent, input, parent, results) ==
    [at |-> at, agent |-> agent, input |-> input, parent |-> parent, results |-> results, child |-> FALSE]

Crumb(type, at, out) == [type |-> type, at |-> at, out |-> out]
Started(a) == Crumb("step:start", StepRunId(a.pid, a.base + a.i), Atom(None))
Ended(a, out) == Crumb("step:end", StepRunId(a.pid, a.base + a.i), out)

\* A step of the innermost open generator is due.
Due(type) ==
    /\ phase = "live" /\ run = Idle /\ stack # << >>
    /\ Top.i < Len(Top.steps)
    /\ Current(Top).type = type

\* The step of activation a at position n of the stack ends with output out.
\* A decision's output is not handed on.
EndStep(n, a, out, next, label, yielded) ==
    /\ crumbs' = crumbs \o yielded \o <<Ended(a, out)>>
    /\ stack' = Append(SubSeq(stack, 1, n - 1), [a EXCEPT !.i = @ + 1, !.current = next, !.label = label])
    /\ run' = Idle

StartAgent ==
    /\ Due("agent")
    /\ crumbs' = Append(crumbs, Started(Top))
    /\ run' = AgentRun("step", Current(Top).agent, Top.current, <<StepParent(Top)>> \o Top.outer, << >>)
    /\ UNCHANGED <<program, stack, saved, phase, said, pauses>>

StartDecision ==
    /\ Due("decision")
    /\ crumbs' = Append(crumbs, Started(Top))
    /\ run' = AgentRun("decision", "decision", Top.current, << >>, << >>)
    /\ UNCHANGED <<program, stack, saved, phase, said, pauses>>

\* The next element of a map goes to the agent; its frame keeps what is
\* settled and what is left.
MapItem(at, frames, results, items) ==
    run' = AgentRun(at, Head(frames).stepAgentId, Head(items),
                    <<MapFrame(Head(frames), results, Tail(items))>> \o Tail(frames), results)

StartMap ==
    /\ Due("map")
    /\ LET items == Items(Top.current)
       IN  IF items = << >>
           THEN EndStep(Len(stack), Top, Array(<< >>), Array(<< >>), Top.label, <<Started(Top)>>)
           ELSE /\ crumbs' = Append(crumbs, Started(Top))
                /\ MapItem("item", <<StepParent(Top)>> \o Top.outer, << >>, items)
                /\ UNCHANGED stack
    /\ UNCHANGED <<program, saved, phase, said, pauses>>

(***************************************************************************)
(* Branches.                                                               *)
(***************************************************************************)
\* The label a branch compares: what `on` reads, or the latest decision.
BranchLabel(step, current, label) == IF step.on THEN current.status ELSE label

\* PIPELINE_BRANCH_DEFAULT and PIPELINE_BRANCH_NO_LABEL
Refused(step, label) == step.default = << >> \/ (~step.on /\ label = None)

\* selectArm: strict equality, first hit, else the default arm
SelectArm(step, current, label) ==
    LET hits == {n \in DOMAIN step.cases : step.cases[n].eq = BranchLabel(step, current, label)}
        first == CHOOSE n \in hits : \A o \in hits : n <= o
    IN  IF hits = {} THEN [eq |-> None, arm |-> step.default[1]]
                     ELSE [eq |-> step.cases[first].eq, arm |-> step.cases[first].steps]

Taken(a) == SelectArm(Current(a), a.current, a.label)
BranchCrumbs(a) ==
    <<Started(a), Crumb("branch:taken", StepRunId(a.pid, a.base + a.i), Atom(Taken(a).eq))>>

BranchThrows ==
    /\ Due("branch")
    /\ Refused(Current(Top), Top.label)
    /\ phase' = "failed"
    /\ crumbs' = Append(crumbs, Started(Top))
    /\ UNCHANGED <<program, stack, run, saved, said, pauses>>

SkipArm ==
    /\ Due("branch")
    /\ ~Refused(Current(Top), Top.label)
    /\ Taken(Top).arm = << >>
    /\ EndStep(Len(stack), Top, Top.current, Top.current, Top.label, BranchCrumbs(Top))
    /\ UNCHANGED <<program, saved, phase, said, pauses>>

EnterArm ==
    /\ Due("branch")
    /\ ~Refused(Current(Top), Top.label)
    /\ Taken(Top).arm # << >>
    /\ crumbs' = crumbs \o BranchCrumbs(Top)
    /\ stack' = Append(stack, Activation(StepRunId(Top.pid, Top.base + Top.i), Taken(Top).arm, 0,
                                         Top.current, Top.label, <<StepParent(Top)>> \o Top.outer))
    /\ UNCHANGED <<program, run, saved, phase, said, pauses>>

(***************************************************************************)
(* After a pause: continuePipelineParent.                                  *)
(***************************************************************************)
\* Closes the suspended step and runs what remains, numbered from there on.
CloseFrame(frames, out) ==
    LET f == Head(frames)
    IN  /\ crumbs' = Append(crumbs, Crumb("step:end", StepRunId(f.pid, f.stepIndex), out))
        /\ stack' = <<Activation(f.pid, f.remainingSteps, f.stepIndex + 1, out, f.decisionLabel, Tail(frames))>>
        /\ run' = Idle

\* An interrupted map first runs its remaining elements.
ResumeMap(frames, results) ==
    IF Head(frames).remainingItems = << >>
    THEN CloseFrame(frames, Array(results))
    ELSE /\ MapItem("rest", frames, results, Head(frames).remainingItems)
         /\ UNCHANGED <<stack, crumbs>>

ContinueParent(frames, out) ==
    IF Head(frames).mapped THEN ResumeMap(frames, Append(Head(frames).settledOutputs, out))
                           ELSE CloseFrame(frames, out)

\* Mutant: the label decided inside the arm stays in the arm.
AdoptNoLabel(frame, label) == frame

\* adoptSlotLabel for a frame that is not parallel
AdoptLabel(frame, label) == IF label = None THEN frame ELSE [frame EXCEPT !.decisionLabel = label]

\* A step list is through.  An arm returns to the branch step that runs it; a
\* resumed list pops its `outer` frame; the outermost one ends the pipeline.
ListEnds ==
    /\ phase = "live" /\ run = Idle /\ stack # << >>
    /\ Top.i = Len(Top.steps)
    /\ IF Len(stack) > 1
       THEN LET caller == stack[Len(stack) - 1]
            IN  /\ EndStep(Len(stack) - 1, caller, Top.current, Top.current,
                           IF Top.label = None THEN caller.label ELSE Top.label, << >>)
                /\ UNCHANGED phase
       ELSE IF Top.outer # << >>
       THEN /\ ContinueParent(<<AdoptLabel(Head(Top.outer), Top.label)>> \o Tail(Top.outer), Top.current)
            /\ UNCHANGED phase
       ELSE phase' = "done" /\ UNCHANGED <<stack, run, crumbs>>
    /\ UNCHANGED <<program, saved, said, pauses>>

(***************************************************************************)
(* What the awaited run does.                                              *)
(***************************************************************************)
Decided(label) ==
    /\ phase = "live" /\ run.at = "decision"
    /\ said' = Append(said, label)
    /\ EndStep(Len(stack), Top, Atom(label), Top.current, label, << >>)
    /\ UNCHANGED <<program, saved, phase, pauses>>

Working == phase = "live" /\ run.at \in {"step", "item", "resumed", "rest"}

\* The agent:run:end of a delegated run passes through its supervisor's
\* stream (visibility `passthrough`, the default).  A map collects every
\* agent:run:end it sees; a step that runs one agent keeps the last.
ChildEnds ==
    /\ Working /\ run.agent \in Delegators /\ ~run.child
    /\ run' = [run EXCEPT !.child = TRUE,
                          !.results = IF run.at \in {"item", "rest"} THEN Append(@, Atom("child")) ELSE @]
    /\ UNCHANGED <<program, stack, saved, phase, crumbs, said, pauses>>

\* The map goes on with the next element, in runPipeline or after a pause.
ItemEnds(results) ==
    IF run.at = "rest" THEN ResumeMap(run.parent, results)
    ELSE IF Head(run.parent).remainingItems = << >>
    THEN EndStep(Len(stack), Top, Array(results), Array(results), Top.label, << >>)
    ELSE /\ MapItem("item", run.parent, results, Head(run.parent).remainingItems)
         /\ UNCHANGED <<stack, crumbs>>

AgentEnds(status) ==
    LET out == Made(run.agent, run.input, status)
    IN  /\ Working
        /\ said' = Append(said, status)
        /\ CASE run.at = "step" -> EndStep(Len(stack), Top, out, out, Top.label, << >>)
             [] run.at = "resumed" -> ContinueParent(run.parent, out)
             [] OTHER -> ItemEnds(Append(run.results, out))
        /\ UNCHANGED <<program, saved, phase, pauses>>

\* suspendRun stores the frames with the checkpoint; every open generator
\* sees human:required and returns.
AgentPauses ==
    /\ Working /\ pauses < MaxPauses
    /\ saved' = <<[run EXCEPT !.at = "resumed", !.results = << >>, !.child = FALSE]>>
    /\ stack' = << >>
    /\ run' = Idle
    /\ phase' = "paused"
    /\ pauses' = pauses + 1
    /\ UNCHANGED <<program, crumbs, said>>

\* An agent, or the decision service, throws: the pipeline throws.
Throws ==
    /\ phase = "live" /\ run # Idle
    /\ phase' = "failed"
    /\ UNCHANGED <<program, stack, run, saved, crumbs, said, pauses>>

\* The human's answer, in any process: the checkpoint is claimed and its run continues.
Answer ==
    /\ phase = "paused"
    /\ run' = saved[1]
    /\ saved' = << >>
    /\ phase' = "live"
    /\ UNCHANGED <<program, stack, crumbs, said, pauses>>

\* The process dies, or the consumer stops reading: only a checkpoint survives.
Crash ==
    /\ phase = "live"
    /\ phase' = "lost"
    /\ UNCHANGED <<program, stack, run, saved, crumbs, said, pauses>>

Next ==
    \/ StartAgent \/ StartDecision \/ StartMap
    \/ BranchThrows \/ SkipArm \/ EnterArm
    \/ ListEnds
    \/ \E label \in Labels : Decided(label)
    \/ \E status \in Statuses : AgentEnds(status)
    \/ ChildEnds \/ AgentPauses \/ Throws \/ Answer \/ Crash

Spec == Init /\ [][Next]_vars

(***************************************************************************)
(* The reference: the pipeline as docs/pipelines.md describes it, walked   *)
(* from beginning to end without a pause, given what agents and decisions  *)
(* answered.  Where the answers end, so does the walk.                     *)
(***************************************************************************)
Reached(st, out, label, left, shown) ==
    [st |-> st, out |-> out, label |-> label, left |-> left, crumbs |-> shown]

RECURSIVE Walk(_, _, _, _, _, _)

\* One step, without its step:start: `out` is the value the next step receives.
WalkStep(step, at, current, label, left) ==
    LET end(out) == Crumb("step:end", at, out)
        stuck == Reached("open", current, label, << >>, << >>)
    IN  CASE step.type = "agent" ->
                 IF left = << >> THEN stuck
                 ELSE LET out == Made(step.agent, current, Head(left))
                      IN  Reached("done", out, label, Tail(left), <<end(out)>>)
          [] step.type = "map" ->
                 LET n == Len(Items(current))
                     out == Array([j \in 1..n |-> Made(step.agent, Items(current)[j], left[j])])
                 IN  IF Len(left) < n THEN stuck
                     ELSE Reached("done", out, label, SubSeq(left, n + 1, Len(left)), <<end(out)>>)
          [] step.type = "decision" ->
                 IF left = << >> THEN stuck
                 ELSE Reached("done", current, Head(left), Tail(left), <<end(Atom(Head(left)))>>)
          [] step.type = "branch" ->
                 IF Refused(step, label) THEN Reached("error", current, label, left, << >>)
                 ELSE LET taken == SelectArm(step, current, label)
                          arm == Walk(taken.arm, at, 0, current, label, left)
                          shown == <<Crumb("branch:taken", at, Atom(taken.eq))>> \o arm.crumbs
                      IN  [arm EXCEPT !.crumbs = IF arm.st = "done" THEN Append(shown, end(arm.out)) ELSE shown]

Walk(steps, pid, i, current, label, left) ==
    IF i = Len(steps) THEN Reached("done", current, label, left, << >>)
    ELSE LET at == StepRunId(pid, i)
             one == WalkStep(steps[i + 1], at, current, label, left)
             shown == <<Crumb("step:start", at, Atom(None))>> \o one.crumbs
             rest == Walk(steps, pid, i + 1, one.out, one.label, one.left)
         IN  IF one.st = "done" THEN [rest EXCEPT !.crumbs = shown \o @] ELSE [one EXCEPT !.crumbs = shown]

Unpaused == Walk(program, << >>, 0, Input, None, said)

(***************************************************************************)
(* Properties.                                                             *)
(***************************************************************************)
\* The crumbs of all the streams of one pipeline run, put end to end, are
\* those of the run without its pauses: every step opened is closed once,
\* with the output it would have had; a branch is taken once and from the
\* value it was reached with, never again on the answer; elements of a map
\* are neither lost nor run twice; a decision taken inside an arm before the
\* pause is the label after it.  A pipeline that finishes has done all its
\* steps, and one that a branch stops is one whose unpaused run stops there.
\* (continuePipelineParent, stepParent, adoptSlotLabel)
PausesDoNotShow ==
    /\ IsPrefix(crumbs, Unpaused.crumbs)
    /\ phase = "done" => Unpaused.st = "done" /\ crumbs = Unpaused.crumbs
    /\ phase = "failed" /\ run = Idle => Unpaused.st = "error"

=============================================================================

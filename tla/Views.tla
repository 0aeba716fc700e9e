------------------------------- MODULE Views -------------------------------
(***************************************************************************)
(* What the views of a run make of its crumbs.                             *)
(*                                                                         *)
(* A client posts a run and its stream is mapped, crumb by crumb, into     *)
(* another protocol: AG-UI events (protocols/ag-ui) or A2A task updates    *)
(* (protocols/a2a-server); the otel extension listens on the instance's    *)
(* event bus and keeps a span open between two crumbs.  Each mapper is a   *)
(* small automaton with state of its own, so the order in which crumbs of  *)
(* concurrent tool calls, of a delegated run, of a retried model step and  *)
(* of a resumed run arrive decides whether the client is left with an open *)
(* message, a second end or a task it can no longer cancel.                *)
(*                                                                         *)
(* Run "r" is a supervisor's; it may delegate to run "c", whose crumbs     *)
(* pass, are mediated or are hidden.  A paused run is resumed through      *)
(* another request: its crumbs then reach the bus, not the first stream.   *)
(* How the crumbs come about is in Turn and Delegation, how they reach     *)
(* other processes in RunStream.                                           *)
(***************************************************************************)
EXTENDS Naturals, Sequences, SequencesExt, FiniteSets

CONSTANTS Visibilities,  \* what `visibility` the supervisor configures for c
          MaxCalls,      \* bound: tool calls in one behaviour
          MaxTexts,      \* bound: text deltas
          MaxPauses      \* bound: pauses for a human
ASSUME BoundAssumption == {MaxCalls, MaxTexts, MaxPauses} \subseteq Nat

Runs == {"r", "c"}
Calls == 1..MaxCalls

VARIABLES vis,       \* the visibility of c's crumbs on r's stream
          state,     \* of each run: none, live, paused, done, failed, canceled
          calls,     \* tool calls: [id, run, at: input, early, ready, called, lost]
          deleg,     \* the call of r that runs c, or 0
          direct,    \* c was paused and resumed: its stream is no longer filtered
          texts, pauses, minted,
          stream,    \* the posted request's stream: open or closed
          aborted,   \* its abort controller has fired
          view,      \* what that request's mappers and their client hold
          spans,     \* otel: the open spans
          status,    \* what deriveTaskStatus makes of each run's crumb log
          cancel     \* a tasks/cancel call between its read and its decision

source == <<vis, state, calls, deleg, direct, texts, pauses, minted>>
vars == <<source, stream, aborted, view, spans, status, cancel>>

Crumb(type, run, call, code) == [type |-> type, run |-> run, call |-> call, code |-> code]
RunCrumb(type, run) == Crumb(type, run, 0, "")
CallCrumb(type, c) == Crumb(type, c.run, c.id, "")

(***************************************************************************)
(* AG-UI: createAgUiTransformer.  `open` is the run's open message.        *)
(***************************************************************************)
Event(type, id) == [type |-> type, id |-> id]
Mapped(ui, events) == [ui |-> ui, events |-> events]

\* closeMessage
Closing(ui, run) == IF ui.open[run] = 0 THEN << >> ELSE <<Event("TEXT_MESSAGE_END", ui.open[run])>>
Closed(ui, run) == [ui EXCEPT !.open[run] = 0]

\* Mutant: a tool call whose input was streamed is announced once more.
ForgetStreamed(ui, c) ==
    Mapped(Closed(ui, c.run),
           Closing(ui, c.run) \o <<Event("TOOL_CALL_START", c.call), Event("TOOL_CALL_ARGS", c.call),
                                   Event("TOOL_CALL_END", c.call)>>)

MapToolCall(ui, c) ==
    IF c.call \in ui.streaming
    THEN Mapped([ui EXCEPT !.streaming = @ \ {c.call}], << >>)
    ELSE Mapped(Closed(ui, c.run),
                Closing(ui, c.run) \o <<Event("TOOL_CALL_START", c.call), Event("TOOL_CALL_ARGS", c.call),
                                        Event("TOOL_CALL_END", c.call)>>)

MapText(ui, c) ==
    IF ui.open[c.run] # 0 THEN Mapped(ui, <<Event("TEXT_MESSAGE_CONTENT", ui.open[c.run])>>)
    ELSE Mapped([ui EXCEPT !.open[c.run] = ui.seq + 1, !.seq = @ + 1],
                <<Event("TEXT_MESSAGE_START", ui.seq + 1), Event("TEXT_MESSAGE_CONTENT", ui.seq + 1)>>)

AgUi(ui, c) ==
    CASE c.type = "agent:run:start" -> Mapped(ui, <<Event("RUN_STARTED", c.run)>>)
      [] c.type = "agent:run:end" -> Mapped(Closed(ui, c.run), Append(Closing(ui, c.run), Event("RUN_FINISHED", c.run)))
      [] c.type = "agent:error" -> Mapped(Closed(ui, c.run), Append(Closing(ui, c.run), Event("RUN_ERROR", "any")))
      [] c.type = "text:delta" -> MapText(ui, c)
      [] c.type = "tool:input:start" ->
             Mapped([Closed(ui, c.run) EXCEPT !.streaming = @ \cup {c.call}],
                    Append(Closing(ui, c.run), Event("TOOL_CALL_START", c.call)))
      [] c.type = "tool:input:delta" -> Mapped(ui, <<Event("TOOL_CALL_ARGS", c.call)>>)
      [] c.type = "tool:input:end" -> Mapped(ui, <<Event("TOOL_CALL_END", c.call)>>)
      [] c.type = "tool:call" -> MapToolCall(ui, c)
      [] c.type \in {"tool:result", "tool:error"} ->
             Mapped([ui EXCEPT !.seq = @ + 1], <<Event("TOOL_CALL_RESULT", c.call)>>)
      [] c.type = "human:required" -> Mapped(Closed(ui, c.run), Closing(ui, c.run))
      [] c.type = "subagent:run:start" -> Mapped(ui, <<Event("STEP_STARTED", c.run)>>)
      [] c.type = "subagent:run:end" -> Mapped(ui, <<Event("STEP_FINISHED", c.run)>>)
      [] OTHER -> Mapped(ui, << >>)

(***************************************************************************)
(* The AG-UI client: it keys what it renders on the ids of the events.     *)
(* `wrong` keeps the events that make no sense where they came.            *)
(***************************************************************************)
ToolOrder == [TOOL_CALL_START |-> {"none"}, TOOL_CALL_ARGS |-> {"TOOL_CALL_START", "TOOL_CALL_ARGS"},
              TOOL_CALL_END |-> {"TOOL_CALL_START", "TOOL_CALL_ARGS"}, TOOL_CALL_RESULT |-> {"TOOL_CALL_END"}]

Unless(fits, e) == IF fits THEN {} ELSE {e}

Receive(client, e) ==
    CASE e.type = "TEXT_MESSAGE_START" ->
             [client EXCEPT !.open = @ \cup {e.id}, !.wrong = @ \cup Unless(e.id \notin client.open, e)]
      [] e.type = "TEXT_MESSAGE_CONTENT" ->
             [client EXCEPT !.wrong = @ \cup Unless(e.id \in client.open, e)]
      [] e.type = "TEXT_MESSAGE_END" ->
             [client EXCEPT !.open = @ \ {e.id}, !.wrong = @ \cup Unless(e.id \in client.open, e)]
      [] e.type \in DOMAIN ToolOrder ->
             [client EXCEPT !.tools[e.id] = e.type,
                            !.wrong = @ \cup Unless(client.tools[e.id] \in ToolOrder[e.type], e)]
      [] e.type = "RUN_STARTED" ->
             [client EXCEPT !.running = @ + 1, !.begun = TRUE]
      [] e.type \in {"RUN_FINISHED", "RUN_ERROR"} ->
             IF client.running = 0
             THEN [client EXCEPT !.wrong = @ \cup Unless(~client.begun /\ e.type = "RUN_ERROR", e), !.begun = TRUE]
             ELSE [client EXCEPT !.running = @ - 1]
      [] OTHER -> client

(***************************************************************************)
(* A2A: crumbToEventV1 and its v0.3 twin.                                  *)
(***************************************************************************)
FinalOf(c) ==
    IF c.type = "agent:run:end" THEN "completed" ELSE IF c.code = "RUN_CANCELLED" THEN "canceled" ELSE "failed"

A2A(task, c) ==
    CASE c.type = "agent:run:start" -> [task EXCEPT !.taskId = c.run]
      [] c.type = "text:delta" -> [task EXCEPT !.opened = TRUE, !.fresh = @ + (IF task.opened THEN 0 ELSE 1)]
      [] c.type \in {"agent:run:end", "agent:error"} -> [task EXCEPT !.finals = Append(@, FinalOf(c))]
      [] OTHER -> task

\* The catch clause of runToA2AEvents: one more final update, which must agree
\* with the one the agent:error crumb was mapped to.
CaughtA2A(task, code) ==
    [task EXCEPT !.finals = Append(@, IF code = "RUN_CANCELLED" THEN "canceled" ELSE "failed")]

\* Mutant: the catch clause always reports a failure.
CaughtFailed(task, code) == [task EXCEPT !.finals = Append(@, "failed")]

Caught(task, code) == CaughtA2A(task, code)

\* deriveTaskStatus, entry by entry
Derive(s, c) ==
    CASE c.type = "human:required" -> "input-required"
      [] c.type \in {"agent:run:end", "agent:error"} -> FinalOf(c)
      [] c.type = "human:resumed" -> "working"
      [] OTHER -> IF s = "not-found" THEN "working" ELSE s

\* Statuses that tasks/cancel refuses: isTerminalTaskStatus
Terminal(s) == s \in {"completed", "failed", "canceled"}

(***************************************************************************)
(* otel: spans opened and closed by crumbs.                                *)
(***************************************************************************)
Span(kind, id) == [kind |-> kind, id |-> id]
Opens == [x \in {"agent:run:start", "tool:call", "human:required", "subagent:run:start"} |->
            CASE x = "agent:run:start" -> "run" [] x = "tool:call" -> "tool"
              [] x = "human:required" -> "human" [] OTHER -> "subagent"]
Ends == [x \in {"agent:run:end", "agent:error", "tool:result", "tool:error", "human:resumed", "subagent:run:end"} |->
            CASE x \in {"agent:run:end", "agent:error"} -> "run" [] x \in {"tool:result", "tool:error"} -> "tool"
              [] x = "human:resumed" -> "human" [] OTHER -> "subagent"]
Key(kind, c) == IF kind = "tool" THEN <<c.run, c.call>> ELSE <<c.run, 0>>

Otel(open, c) ==
    IF c.type \in DOMAIN Opens THEN open \cup {Span(Opens[c.type], Key(Opens[c.type], c))}
    ELSE IF c.type \in DOMAIN Ends THEN open \ {Span(Ends[c.type], Key(Ends[c.type], c))}
    ELSE open

\* Mutant: only a result ends a tool's span.
OtelNoError(open, c) == IF c.type = "tool:error" THEN open ELSE Otel(open, c)

OnCrumb(open, c) == Otel(open, c)

(***************************************************************************)
(* One crumb on the posted request's stream, and the end of that stream.   *)
(***************************************************************************)
Watch(v, c) ==
    LET mapped == AgUi(v.ui, c)
    IN  [ui |-> mapped.ui,
         client |-> FoldLeft(Receive, v.client, mapped.events),
         task |-> A2A(v.task, c),
         registry |-> IF c.type = "agent:run:start" THEN v.registry \cup {c.run} ELSE v.registry,
         terminalSeen |-> v.terminalSeen \/ c.type \in {"agent:run:end", "agent:error"}]

\* finally: cancelRegistry.delete(state.taskId)
Unregister(v) == [v EXCEPT !.registry = @ \ {v.task.taskId}]

StreamReturns(v) == Unregister(v)

\* The generator throws: A2A yields a final update, AG-UI a RUN_ERROR unless
\* the failure's own crumb was already mapped.
StreamThrows(v, code) ==
    StreamReturns([v EXCEPT !.task = Caught(@, code),
                            !.client = IF v.terminalSeen THEN @ ELSE Receive(@, Event("RUN_ERROR", "any"))])

\* filterSubAgentCrumb: nothing, or the crumb as the client is shown it.
Filter(c) ==
    IF c.type = "human:required" \/ vis = "passthrough" THEN <<c>>
    ELSE IF vis = "mediate" /\ c.type = "agent:run:start" THEN <<[c EXCEPT !.type = "subagent:run:start"]>>
    ELSE IF vis = "mediate" /\ c.type = "agent:run:end" THEN <<[c EXCEPT !.type = "subagent:run:end"]>>
    ELSE << >>

Surfaces(c) == IF c.run = "c" /\ ~direct THEN Filter(c) ELSE <<c>>

\* The crumb c surfaces; "on" leaves the stream open, "returns" and error
\* codes end it.
Emit(c, ending) ==
    LET shown == Surfaces(c)
        On(Reads(_, _), x) == IF shown = << >> THEN x ELSE Reads(x, shown[1])
        seen == On(Watch, view)
    IN  /\ spans' = On(OnCrumb, spans)
        /\ status' = [status EXCEPT ![c.run] = On(Derive, @)]
        /\ view' = IF stream = "closed" THEN view
                   ELSE CASE ending = "on" -> seen
                          [] ending = "returns" -> StreamReturns(seen)
                          [] OTHER -> StreamThrows(seen, ending)
        /\ stream' = IF ending = "on" THEN stream ELSE "closed"

Init ==
    /\ vis \in Visibilities
    /\ state = [x \in Runs |-> "none"]
    /\ calls = {} /\ deleg = 0 /\ direct = FALSE
    /\ texts = 0 /\ pauses = 0 /\ minted = 0
    /\ stream = "open" /\ aborted = FALSE
    /\ view = [ui |-> [open |-> [x \in Runs |-> 0], streaming |-> {}, seq |-> 0],
               client |-> [open |-> {}, tools |-> [k \in Calls |-> "none"], running |-> 0,
                           begun |-> FALSE, wrong |-> {}],
               task |-> [taskId |-> "none", opened |-> FALSE, fresh |-> 0, finals |-> << >>],
               registry |-> {}, terminalSeen |-> FALSE]
    /\ spans = {}
    /\ status = [x \in Runs |-> "not-found"]
    /\ cancel = [run |-> "none", status |-> "none"]

Live(x) == state[x] = "live"
Of(x) == {c \in calls : c.run = x}
Pending(x) == {c \in Of(x) : c.at # "lost"}
Running(set) == {c \in set : c.at \in {"early", "called"}}
Lost(set) == {[c EXCEPT !.at = "lost"] : c \in Running(set)}

(***************************************************************************)
(* The runs.                                                               *)
(***************************************************************************)
Begin ==
    /\ state["r"] = "none" /\ stream = "open"
    /\ state' = [state EXCEPT !["r"] = "live"]
    /\ Emit(RunCrumb("agent:run:start", "r"), "on")
    /\ UNCHANGED <<vis, calls, deleg, direct, texts, pauses, minted, aborted, cancel>>

\* CONCURRENCY_LIMIT: the generator throws on its first iteration.
Refused ==
    /\ state["r"] = "none" /\ stream = "open"
    /\ view' = StreamThrows(view, "CONCURRENCY_LIMIT") /\ stream' = "closed"
    /\ UNCHANGED <<source, aborted, spans, status, cancel>>

Text(x) ==
    /\ Live(x) /\ texts < MaxTexts
    /\ texts' = texts + 1
    /\ Emit(RunCrumb("text:delta", x), "on")
    /\ UNCHANGED <<vis, state, calls, deleg, direct, pauses, minted, aborted, cancel>>

\* The model begins a call whose input is streamed, or calls at once.
NewCall(x, at) == [id |-> minted + 1, run |-> x, at |-> at]
InputStarts(x) ==
    /\ Live(x) /\ minted < MaxCalls
    /\ calls' = calls \cup {NewCall(x, "input")} /\ minted' = minted + 1
    /\ Emit(CallCrumb("tool:input:start", NewCall(x, "input")), "on")
    /\ UNCHANGED <<vis, state, deleg, direct, texts, pauses, aborted, cancel>>

InputGrows(c) ==
    /\ c.at \in {"input", "early"} /\ Live(c.run)
    /\ Emit(CallCrumb("tool:input:delta", c), "on")
    /\ UNCHANGED <<source, aborted, cancel>>

CallsAtOnce(x) ==
    /\ Live(x) /\ minted < MaxCalls
    /\ calls' = calls \cup {NewCall(x, "called")} /\ minted' = minted + 1
    /\ Emit(CallCrumb("tool:call", NewCall(x, "called")), "on")
    /\ UNCHANGED <<vis, state, deleg, direct, texts, pauses, aborted, cancel>>

Becomes(c, at) == calls' = (calls \ {c}) \cup {[c EXCEPT !.at = at]}
InputEnds(c) ==
    /\ c.at \in {"input", "early"} /\ Live(c.run)
    /\ Becomes(c, IF c.at = "input" THEN "ready" ELSE "called")
    /\ Emit(CallCrumb("tool:input:end", c), "on")
    /\ UNCHANGED <<vis, state, deleg, direct, texts, pauses, minted, aborted, cancel>>

\* The SDK runs the tool as soon as it has read the call: the tool's own crumb
\* may overtake the end of the input, which is still in the model's stream.
Execute(c) ==
    /\ c.at \in {"input", "ready"} /\ Live(c.run)
    /\ Becomes(c, IF c.at = "input" THEN "early" ELSE "called")
    /\ Emit(CallCrumb("tool:call", c), "on")
    /\ UNCHANGED <<vis, state, deleg, direct, texts, pauses, minted, aborted, cancel>>

\* A tool returns or throws; core_delegate does what the run it started did.
Outcome(c, type) ==
    /\ c.at = "called" /\ Live(c.run)
    /\ c.id = deleg => state["c"] = (IF type = "tool:result" THEN "done" ELSE "failed")
    /\ calls' = calls \ {c}
    /\ Emit(CallCrumb(type, c), "on")
    /\ UNCHANGED <<vis, state, deleg, direct, texts, pauses, minted, aborted, cancel>>

Delegate(c) ==
    /\ c.at = "called" /\ c.run = "r" /\ Live("r") /\ deleg = 0 /\ state["c"] = "none"
    /\ deleg' = c.id
    /\ state' = [state EXCEPT !["c"] = "live"]
    /\ Emit(RunCrumb("agent:run:start", "c"), "on")
    /\ UNCHANGED <<vis, calls, direct, texts, pauses, minted, aborted, cancel>>

\* The model step fails and is retried: inputs it was streaming are dropped.
RetryStep(x) ==
    /\ Live(x) /\ Of(x) # {}
    /\ \A c \in Pending(x) : c.at \in {"input", "ready"}
    /\ Pending(x) # {}
    /\ calls' = calls \ Pending(x)
    /\ UNCHANGED <<vis, state, deleg, direct, texts, pauses, minted, stream, aborted, view, spans, status, cancel>>

\* The delegated run ends.  If it had been resumed, its supervisor continues.
ChildEnds(how, crumb) ==
    /\ Live("c")
    /\ how = "done" => Pending("c") = {}
    /\ state' = [state EXCEPT !["c"] = how, !["r"] = IF direct /\ how = "done" THEN "live" ELSE @]
    /\ calls' = IF direct /\ how = "done" THEN calls ELSE (calls \ Pending("c")) \cup Lost(Pending("c"))
    /\ Emit(crumb, "on")
    /\ UNCHANGED <<vis, deleg, direct, texts, pauses, minted, aborted, cancel>>

ChildReturns == ChildEnds("done", RunCrumb("agent:run:end", "c"))
ChildFails == ChildEnds("failed", Crumb("agent:error", "c", 0, "FAILED"))

Ending(how, crumb, code) ==
    /\ state' = [state EXCEPT !["r"] = how]
    /\ calls' = (calls \ Pending("r")) \cup Lost(Pending("r"))
    /\ Emit(crumb, code)
    /\ UNCHANGED <<vis, deleg, direct, texts, pauses, minted, aborted, cancel>>

Returns ==
    /\ Live("r") /\ Pending("r") = {} /\ ~Live("c")
    /\ Ending("done", RunCrumb("agent:run:end", "r"), "returns")

Fails ==
    /\ Live("r") /\ ~Live("c")
    /\ Ending("failed", Crumb("agent:error", "r", 0, "FAILED"), "FAILED")

\* The abort signal reaches the delegated run too; it fails first.
Cancelled ==
    /\ aborted /\ Live("r") /\ ~Live("c")
    /\ Ending("canceled", Crumb("agent:error", "r", 0, "RUN_CANCELLED"), "RUN_CANCELLED")

ChildCancelled ==
    /\ aborted /\ Live("r")
    /\ ChildEnds("canceled", Crumb("agent:error", "c", 0, "RUN_CANCELLED"))

\* The model calls a human tool: the run is stored and its stream returns.  A
\* delegated run takes its supervisor with it; only its own crumb says so.
Pauses(x) ==
    /\ Live(x) /\ pauses < MaxPauses
    /\ x = "c" => ~direct
    /\ Running(Pending(x)) = {}
    /\ {c \in Pending("r") : c.at # "lost" /\ c.id # deleg} = {}
    /\ x = "r" => ~Live("c") /\ Pending("r") = {}
    /\ state' = [y \in Runs |-> IF y = x \/ y = "r" THEN "paused" ELSE state[y]]
    /\ calls' = (calls \ (Pending("r") \cup Pending("c"))) \cup Lost(Pending("r"))
    /\ pauses' = pauses + 1
    /\ Emit(RunCrumb("human:required", x), "returns")
    /\ UNCHANGED <<vis, deleg, direct, texts, minted, aborted, cancel>>

\* The answer, through another request of the same process.
Resumes ==
    LET x == IF state["c"] = "paused" THEN "c" ELSE "r"
    IN  /\ state[x] = "paused"
        /\ state' = [state EXCEPT ![x] = "live"]
        /\ direct' = (direct \/ x = "c")
        /\ spans' = OnCrumb(spans, RunCrumb("human:resumed", x))
        /\ status' = [status EXCEPT ![x] = Derive(@, RunCrumb("human:resumed", x))]
        /\ UNCHANGED <<vis, calls, deleg, texts, pauses, minted, stream, aborted, view, cancel>>

(***************************************************************************)
(* tasks/cancel: the log is read, then the registry decides.               *)
(***************************************************************************)
CancelReads(x) ==
    /\ cancel.run = "none"
    /\ status[x] # "not-found"
    /\ cancel' = [run |-> x, status |-> status[x]]
    /\ UNCHANGED <<source, stream, aborted, view, spans, status>>

CancelDecides ==
    LET granted == ~Terminal(cancel.status) /\ cancel.run \in view.registry
    IN  /\ cancel.run # "none" /\ cancel.status # "answered"
        /\ aborted' = (aborted \/ granted)
        /\ view' = IF granted THEN [view EXCEPT !.registry = @ \ {cancel.run}] ELSE view
        /\ cancel' = [cancel EXCEPT !.status = "answered"]
        /\ UNCHANGED <<source, stream, spans, status>>

Next ==
    \/ Begin \/ Refused
    \/ \E x \in Runs : Text(x) \/ InputStarts(x) \/ CallsAtOnce(x) \/ RetryStep(x) \/ Pauses(x)
    \/ \E c \in calls : \/ InputGrows(c) \/ InputEnds(c) \/ Execute(c) \/ Delegate(c)
                        \/ Outcome(c, "tool:result") \/ Outcome(c, "tool:error")
    \/ ChildReturns \/ ChildFails \/ ChildCancelled
    \/ Returns \/ Fails \/ Cancelled
    \/ Resumes
    \/ \E x \in Runs : CancelReads(x)
    \/ CancelDecides

Spec == Init /\ [][Next]_vars

(***************************************************************************)
(* Properties.                                                             *)
(***************************************************************************)
Over(x) == state[x] \in {"done", "failed", "canceled"}

\* An AG-UI client never sees an event it cannot place: content outside its
\* message, a message or a tool call begun twice, a result before the call's
\* input is complete, an end of a run that has none.  And no message outlives
\* its run: one still open when the stream closes is that of a supervisor
\* suspended by the run it delegated, whose own suspension has no crumb.
\* (createAgUiTransformer and the route's terminalCrumbSeen)
WellFramed ==
    /\ view.client.wrong = {}
    /\ stream = "open" => \A x \in Runs : Over(x) => view.ui.open[x] = 0
    /\ stream = "closed" => \A x \in Runs : view.ui.open[x] = 0 \/ (x = "r" /\ pauses > 0 /\ deleg # 0)

\* A span is open only while what it measures goes on: a run not over, a call
\* without an outcome, a human still asked.  Left open until close() are the
\* calls no outcome was ever reported for, and the mediated run that failed
\* or that was resumed, whose end is not framed.  (otel's init)
SpansClose ==
    \A s \in spans :
        CASE s.kind = "run" -> ~Over(s.id[1])
          [] s.kind = "tool" -> \E c \in calls : <<c.run, c.id>> = s.id
          [] s.kind = "human" -> state[s.id[1]] = "paused"
          [] s.kind = "subagent" -> ~Over("c") \/ state["c"] # "done" \/ direct

\* An A2A client of a stream that saw no delegated run's start is told the
\* truth: final updates that agree with each other and with how the run
\* ended, none for a paused run, one fresh artifact; the status derived from
\* the crumb log says the same; and a task is cancelable only while the
\* stream whose controller would be aborted is open.  (runToA2AEvents,
\* deriveTaskStatus, cancelRegistry)
TaskTruth ==
    view.task.taskId # "c" =>
        /\ \A n \in DOMAIN view.task.finals :
              view.task.finals[n] = IF state["r"] = "none" THEN "failed"
                                    ELSE IF state["r"] = "done" THEN "completed" ELSE state["r"]
        /\ Over("r") /\ pauses = 0 => view.task.finals # << >>
        /\ view.task.fresh <= 1
        /\ Over("r") => status["r"] = (IF state["r"] = "done" THEN "completed" ELSE state["r"])
        /\ view.registry # {} => stream = "open"

=============================================================================

--------------------------------- MODULE Turn ---------------------------------
(***************************************************************************)
(* One agent's turns in a session: the model is streamed, the tools it     *)
(* calls run beside the stream, and a failed attempt is retried, recovered *)
(* or given up.  A call of a human tool, or of a tool gated by `ask`,      *)
(* suspends the run on a checkpoint; resuming settles the call and streams *)
(* the model again over the stored history.                                *)
(*                                                                         *)
(* Three parties share the state.  The model provider and the AI SDK (sdk, *)
(* parts) produce the parts of the stream and start the tools.  Each tool  *)
(* call runs in the SDK's promise chain and pushes its crumbs into         *)
(* crumbBuffer.  continueRun reads the parts one at a time and flushes the *)
(* buffer before each.                                                     *)
(***************************************************************************)
EXTENDS Naturals, Sequences, FiniteSets

CONSTANTS
  Kinds,         \* kinds of tools the agent has
  MaxPerStep,    \* calls of one model step
  MaxAsks,       \* human and gated calls of one model step
  MaxSteps,      \* cfg.steps.max
  RetryAttempts, \* cfg.errorHandling.retry.attempts, 0 if not configured
  ToolAttempts,  \* a tool's errorHandling.retry.attempts, 0 if not configured
  Faults,        \* what may go wrong here besides the model and its provider
  MaxFaults,     \* bound: kinds of faults in one behaviour
  MaxCalls,      \* bound: tool calls of one behaviour
  MaxRuns        \* bound: runs and resumes of the session

\* plain and stream execute at once, ask after an approval; human is answered.
ToolKinds == {"plain", "stream", "ask", "human"}
FaultKinds ==
  {"abort", "tool", "before", "after", "approved", "afterAgent", "onSuspend",
   "onError"}
ASSUME KindAssumption == Kinds \subseteq ToolKinds /\ Faults \subseteq FaultKinds
ASSUME SizeAssumption ==
  /\ MaxPerStep \in Nat /\ MaxAsks \in Nat /\ MaxSteps \in Nat
  /\ RetryAttempts \in Nat /\ ToolAttempts \in Nat
  /\ MaxFaults \in Nat /\ MaxCalls \in Nat /\ MaxRuns \in Nat

Calls == 1..MaxCalls
Asks == {"ask", "human"}
\* The life of a call.  A held call waits for a person.  A silent one is
\* settled without a crumb; a spoilt one by an afterRun that threw.
Underway == {"made", "short", "running", "fired"}
CallStates == Underway \cup {"none", "ok", "error", "silent", "spoilt", "held"}
NoCall == [kind |-> "plain", current |-> FALSE, step |-> 0, st |-> "none", tries |-> 0]
Crumbs == {"call", "result", "error"}
Decisions == {"void", "retry", "recover", "fail"}
Phases ==
  {"idle", "resolving", "streaming", "closing", "suspending", "ending",
   "failing", "backoff", "suspended", "ended", "failed", "cancelled"}
Over == {"ended", "failed", "cancelled"}
\* The run has stopped by itself or waits for a person.
Rest == Over \cup {"suspended"}

VARIABLES
  phase,      \* where continueRun is
  model,      \* resolveModel has returned
  retries,    \* decideRetry's state.attempt
  usedRetry,  \* decideRetry's state.usedUnconfiguredRetry
  pending,    \* the human or gated call read from the stream, 0 if none
  aborted,    \* ctx.signal.aborted
  \* the SDK
  sdk,        \* "thinking", "waiting" for tools, "closed"
  step,       \* steps of this attempt
  parts,      \* parts produced and not yet read
  calls,      \* tool calls by id; current: made in the present attempt
  made,       \* ids used
  \* crumbs
  buffer,     \* crumbBuffer, per call
  out,        \* crumbs yielded, per call
  \* the store
  rows,       \* calls in the session's assistant messages
  results,    \* tool-result rows by call: how many
  checkpoint, \* the call whose checkpoint is stored, 0 if none
  prompt,     \* calls without a result in the history the model was given
  \* bookkeeping
  happened,   \* faults so far
  runs        \* runs and resumes begun

runVars == <<phase, model, retries, usedRetry, pending, aborted>>
sdkVars == <<sdk, step, parts, calls, made>>
crumbVars == <<buffer, out>>
storeVars == <<rows, results, checkpoint, prompt>>
bookVars == <<happened, runs>>
vars == <<runVars, sdkVars, crumbVars, storeVars, bookVars>>

Init ==
  /\ phase = "idle" /\ model = FALSE /\ retries = 1 /\ usedRetry = FALSE
  /\ pending = 0 /\ aborted = FALSE
  /\ sdk = "closed" /\ step = 0 /\ parts = <<>>
  /\ calls = [i \in Calls |-> NoCall] /\ made = 0
  /\ buffer = [i \in Calls |-> <<>>] /\ out = [i \in Calls |-> <<>>]
  /\ rows = {} /\ results = [i \in Calls |-> 0] /\ checkpoint = 0 /\ prompt = {}
  /\ happened = {} /\ runs = 0

\* A fault strikes, within the bounds of the instance.
Strikes(f) ==
  /\ f \in Faults /\ happened' = happened \cup {f}
  /\ Cardinality(happened') <= MaxFaults

-----------------------------------------------------------------------------
(* The model and the SDK.                                                  *)

\* Calls of the step the model is in.
ThisStep == {i \in 1..made : calls[i].current /\ calls[i].step = step}

\* The model calls a tool: the part is on its way, and a tool that has an
\* `execute` is started.
ModelCalls(k) ==
  /\ sdk = "thinking" /\ made < MaxCalls
  /\ Cardinality(ThisStep) < MaxPerStep
  /\ k \in Asks =>
       Cardinality({i \in ThisStep : calls[i].kind \in Asks}) < MaxAsks
  /\ made' = made + 1
  /\ calls' = [calls EXCEPT ![made + 1] =
       [kind |-> k, current |-> TRUE, step |-> step,
        st |-> IF k \in Asks THEN "held" ELSE "made", tries |-> 1]]
  /\ parts' = Append(parts, [p |-> "call", c |-> made + 1])
  /\ UNCHANGED <<sdk, step, runVars, crumbVars, storeVars, bookVars>>

\* The model finishes a step.
ModelStops ==
  /\ sdk = "thinking"
  /\ sdk' = "waiting"
  /\ UNCHANGED <<step, parts, calls, made, runVars, crumbVars, storeVars, bookVars>>

\* Mutant: the step budget and the calls of a person do not stop the loop.
OnlyWhenSilent == ThisStep = {}
\* stopWhen: no call to answer, the step budget, or a call that only a
\* person can settle.
StopsHere ==
  \/ ThisStep = {}
  \/ step >= MaxSteps
  \/ \E i \in ThisStep : calls[i].kind \in Asks

\* Every tool of the step has settled: the stream ends, or the next step
\* begins.
NextStep ==
  /\ sdk = "waiting"
  /\ \A i \in ThisStep : calls[i].st \notin Underway
  /\ IF StopsHere
     THEN sdk' = "closed" /\ parts' = Append(parts, [p |-> "end", c |-> 0])
          /\ UNCHANGED step
     ELSE sdk' = "thinking" /\ step' = step + 1 /\ UNCHANGED parts
  /\ UNCHANGED <<calls, made, runVars, crumbVars, storeVars, bookVars>>

\* The provider fails inside the stream; tools already started go on.
ProviderFails ==
  /\ sdk = "thinking"
  /\ sdk' = "closed" /\ parts' = Append(parts, [p |-> "error", c |-> 0])
  /\ UNCHANGED <<step, calls, made, runVars, crumbVars, storeVars, bookVars>>

\* The caller's signal; a live stream closes with an abort part.
Active == phase \notin Rest \cup {"idle"}
Abort ==
  /\ Active /\ ~aborted /\ Strikes("abort")
  /\ aborted' = TRUE
  /\ IF sdk = "closed" THEN UNCHANGED <<sdk, parts>>
     ELSE sdk' = "closed" /\ parts' = Append(parts, [p |-> "abort", c |-> 0])
  /\ UNCHANGED <<phase, model, retries, usedRetry, pending, step, calls, made,
                 crumbVars, storeVars, runs>>

-----------------------------------------------------------------------------
(* A tool call: executeToolWithHooks and executeStreamingToolWithHooks.    *)

Live(i) == Active /\ calls[i].st \in Underway

\* A call of the attempt being streamed reports to the stream when it
\* settles; one of an abandoned attempt reports to nobody.
Reports(i) == IF calls[i].current /\ sdk # "closed"
              THEN Append(parts, [p |-> "settled", c |-> i]) ELSE parts
Push(i, crumbs) == [buffer EXCEPT ![i] = @ \o crumbs]
ToolSteps(i, st, crumbs, settles) ==
  /\ calls' = [calls EXCEPT ![i].st = st]
  /\ buffer' = Push(i, crumbs)
  /\ parts' = IF settles THEN Reports(i) ELSE parts
  /\ UNCHANGED <<sdk, step, made, out, runVars, storeVars, runs>>

\* The beforeRun chain passes, perhaps with an answer of its own, or throws
\* before the call was announced.
BeforeRun(i) ==
  /\ Live(i) /\ calls[i].st = "made"
  /\ \/ \E next \in {"running", "short"} : ToolSteps(i, next, <<"call">>, FALSE)
        /\ UNCHANGED happened
     \/ ToolSteps(i, "silent", <<>>, TRUE) /\ Strikes("before")
\* A short-circuited call: afterRun, then the crumb.
ShortCircuit(i) ==
  /\ Live(i) /\ calls[i].st = "short"
  /\ \/ ToolSteps(i, "ok", <<"result">>, TRUE) /\ UNCHANGED happened
     \/ ToolSteps(i, "spoilt", <<>>, TRUE) /\ Strikes("after")

\* `execute` returned, or onError recovered it: the crumb, then afterRun.  The
\* partial results of a streaming tool are left out.
Executes(i) ==
  /\ Live(i) /\ calls[i].st = "running"
  /\ ToolSteps(i, "fired", <<"result">>, FALSE) /\ UNCHANGED happened
\* `execute` throws: runWithOnErrorRetry calls it again while its attempts
\* last; a streaming tool is never retried.
Throws(i) ==
  /\ Live(i) /\ calls[i].st = "running" /\ Strikes("tool")
  /\ \/ /\ calls[i].kind = "plain" /\ calls[i].tries < ToolAttempts
        /\ calls' = [calls EXCEPT ![i].tries = @ + 1]
        /\ UNCHANGED <<sdk, step, parts, made, crumbVars, runVars, storeVars,
                       runs>>
     \/ ToolSteps(i, "error", <<"error">>, TRUE)
\* afterRun.  When it throws, the streaming sibling's catch still announces
\* an error; the other returns the chain's promise without awaiting it.
AfterRun(i) ==
  /\ Live(i) /\ calls[i].st = "fired"
  /\ \/ ToolSteps(i, "ok", <<>>, TRUE) /\ UNCHANGED happened
     \/ /\ Strikes("after")
        /\ ToolSteps(i, "spoilt", IF calls[i].kind = "stream" THEN <<"error">> ELSE <<>>,
                     TRUE)

-----------------------------------------------------------------------------
(* continueRun.                                                            *)

\* Mutant: what the tools of a closing attempt buffered is dropped.
Drop == buffer' = [i \in Calls |-> <<>>] /\ UNCHANGED out
\* while (crumbBuffer.length) yield crumbBuffer.shift()
Flush ==
  /\ out' = [i \in Calls |-> out[i] \o buffer[i]]
  /\ buffer' = [i \in Calls |-> <<>>]

\* What is left of the calls when an attempt, or a run, begins: those in the
\* stored history, and those that are still running.  The others are in no
\* row and report to nobody any more; they are forgotten.
Left(running) == {i \in 1..made : i \in rows \/ (running /\ calls[i].st \in Underway)}
Kept(left) ==
  [i \in Calls |-> IF i \in left THEN [calls[i] EXCEPT !.current = FALSE] ELSE NoCall]
Heard(left) == [i \in Calls |-> IF i \in left THEN out[i] ELSE <<>>]

\* The model is streamed over the messages loaded when the run began.  The
\* calls of an earlier attempt are no longer the stream's.
StreamModel ==
  /\ phase' = "streaming" /\ pending' = 0 /\ step' = 1
  /\ calls' = Kept(Left(TRUE)) /\ out' = Heard(Left(TRUE))
  /\ IF aborted THEN sdk' = "closed" /\ parts' = <<[p |-> "abort", c |-> 0]>>
     ELSE sdk' = "thinking" /\ parts' = <<>>

\* Calls the stored history leaves without a result.
Dangling == {i \in rows : results[i] = 0}

\* resolveModel, then getMessages and assembleTools.
ResolveModel ==
  /\ phase = "resolving"
  /\ \/ /\ StreamModel /\ model' = TRUE /\ prompt' = Dangling
        /\ retries' = 1 /\ usedRetry' = FALSE
     \/ /\ phase' = "failing"
        /\ UNCHANGED <<model, retries, usedRetry, pending, sdk, step, parts, calls,
                       out, prompt>>
  /\ UNCHANGED <<aborted, made, buffer, rows, results, checkpoint, bookVars>>

\* A part of the stream is read, after the buffer was flushed.
ReadPart ==
  /\ phase = "streaming" /\ parts # <<>>
  /\ Flush
  /\ parts' = Tail(parts)
  /\ LET part == Head(parts) IN
     /\ pending' = IF part.p = "call" /\ calls[part.c].kind \in Asks
                   THEN part.c ELSE pending
     /\ phase' = CASE part.p \in {"error", "abort"} -> "failing"
                   [] part.p = "end" -> "closing"
                   [] OTHER -> phase
  /\ UNCHANGED <<model, retries, usedRetry, aborted, sdk, step, calls, made,
                 storeVars, bookVars>>

\* The rows of the attempt's response messages: its calls, and a result for
\* each that the SDK has settled.
Attempted == {i \in 1..made : calls[i].current}
Settled == {i \in Attempted : calls[i].st \in {"ok", "error", "silent", "spoilt"}}
PersistTurn ==
  /\ rows' = rows \cup Attempted
  /\ results' = [i \in Calls |-> IF i \in Settled THEN results[i] + 1 ELSE results[i]]

\* The stream is over: what is buffered goes out, and the turn is stored,
\* with the checkpoint in one write if a person has to act.
CloseTurn ==
  /\ phase = "closing"
  /\ Flush /\ PersistTurn
  /\ IF pending # 0 THEN checkpoint' = pending /\ phase' = "suspending"
     ELSE UNCHANGED checkpoint /\ phase' = "ending"
  /\ UNCHANGED <<model, retries, usedRetry, pending, aborted, sdkVars, prompt,
                 bookVars>>

\* onSuspend runs after human:required was yielded.
Suspended ==
  /\ phase = "suspending"
  /\ \/ phase' = "suspended" /\ UNCHANGED happened
     \/ phase' = "failing" /\ Strikes("onSuspend")
  /\ UNCHANGED <<model, retries, usedRetry, pending, aborted, sdkVars,
                 crumbVars, storeVars, runs>>

\* The agent's afterRun, then agent:run:end.
EndRun ==
  /\ phase = "ending"
  /\ \/ phase' = "ended" /\ UNCHANGED happened
     \/ phase' = "failing" /\ Strikes("afterAgent")
  /\ UNCHANGED <<model, retries, usedRetry, pending, aborted, sdkVars,
                 crumbVars, storeVars, runs>>

\* decideRetry: whether the onError chain's decision means another attempt.
RetryConfigured == RetryAttempts > 0
ShouldRetry(d) ==
  IF RetryConfigured THEN d \in {"retry", "void"} /\ retries < RetryAttempts
  ELSE d = "retry" /\ ~usedRetry
Spent(d) == usedRetry' = (usedRetry \/ (~RetryConfigured /\ ShouldRetry(d)))

\* Mutant: an attempt is not counted.
NotCounted == UNCHANGED retries
\* state.attempt++
Counted == retries' = retries + 1

\* The catch clause.  A cancelled run flushes what its tools announced; so
\* does one that gives up.  A recovered one ends without.
Cancelled ==
  /\ phase = "failing" /\ aborted
  /\ phase' = "cancelled" /\ Flush
  /\ UNCHANGED <<model, retries, usedRetry, pending, aborted, sdkVars,
                 storeVars, bookVars>>
Recovers ==
  /\ phase = "failing" /\ ~aborted
  /\ phase' = "ended"
  /\ UNCHANGED <<model, retries, usedRetry, pending, aborted, sdkVars,
                 crumbVars, storeVars, bookVars>>
GivesUp(d) ==
  /\ phase = "failing" /\ ~aborted /\ d # "recover" /\ ~ShouldRetry(d)
  /\ phase' = "failed" /\ Flush
  /\ UNCHANGED <<model, retries, usedRetry, pending, aborted, sdkVars,
                 storeVars, bookVars>>
\* The crumbs of the attempt are thrown away; its tools may still run.
Retries(d) ==
  /\ phase = "failing" /\ ~aborted /\ ShouldRetry(d)
  /\ phase' = "backoff" /\ Spent(d)
  /\ buffer' = [i \in Calls |-> <<>>]
  /\ UNCHANGED <<model, retries, pending, aborted, sdkVars, out, storeVars,
                 bookVars>>
\* A hook of the onError chain throws out of the run.
OnErrorThrows ==
  /\ phase = "failing" /\ ~aborted /\ Strikes("onError")
  /\ phase' = "failed"
  /\ UNCHANGED <<model, retries, usedRetry, pending, aborted, sdkVars,
                 crumbVars, storeVars, runs>>

\* The wait before a retry, if there is one, is over: the model is resolved,
\* or streamed again.
Backoff ==
  /\ phase = "backoff"
  /\ IF aborted /\ RetryConfigured
     THEN phase' = "cancelled"
          /\ UNCHANGED <<retries, pending, sdk, step, parts, calls, out>>
     ELSE /\ Counted
          /\ IF model THEN StreamModel
             ELSE phase' = "resolving" /\ UNCHANGED <<pending, sdk, step, parts, calls, out>>
  /\ UNCHANGED <<model, usedRetry, aborted, made, buffer, storeVars, bookVars>>

-----------------------------------------------------------------------------
(* The session: runs and resumes.                                          *)

\* A run of its own: nothing of an earlier one reaches its buffer.
Begins ==
  /\ runs < MaxRuns /\ runs' = runs + 1
  /\ phase' = "resolving" /\ model' = FALSE /\ retries' = 1 /\ usedRetry' = FALSE
  /\ aborted' = FALSE /\ pending' = 0 /\ prompt' = {}
  /\ buffer' = [i \in Calls |-> <<>>]
\* runAgent: a user message, then the model.
StartRun ==
  /\ phase \in Over \cup {"idle"}
  /\ Begins
  /\ calls' = Kept(Left(FALSE)) /\ out' = Heard(Left(FALSE))
  /\ UNCHANGED <<sdk, step, parts, made, rows, results, checkpoint, happened>>

\* resumeRun: the checkpoint is claimed and the call settled.
Answer(crumbs, st) ==
  /\ checkpoint' = 0
  /\ calls' = [Kept(Left(FALSE)) EXCEPT ![checkpoint].st = st]
  /\ out' = [Heard(Left(FALSE)) EXCEPT ![checkpoint] = @ \o crumbs]
\* An answer, a rejection, or an approval whose tool ran: the result is stored
\* and the run continues.
Resume ==
  /\ phase = "suspended" /\ checkpoint # 0
  /\ Begins
  /\ \/ Answer(<<>>, "silent")
     \/ calls[checkpoint].kind = "ask" /\ Answer(<<"call", "result">>, "ok")
  /\ results' = [results EXCEPT ![checkpoint] = @ + 1]
  /\ UNCHANGED <<sdk, step, parts, made, rows, happened>>
\* An approved tool runs outside of any model stream, and its error leaves
\* the run.
ApprovedToolThrows ==
  /\ phase = "suspended" /\ checkpoint # 0 /\ calls[checkpoint].kind = "ask"
  /\ runs < MaxRuns /\ runs' = runs + 1
  /\ Strikes("approved")
  /\ Answer(<<"call", "error">>, "error")
  /\ phase' = "failed"
  /\ UNCHANGED <<model, retries, usedRetry, pending, aborted, sdk, step, parts,
                 made, buffer, rows, results, prompt>>

-----------------------------------------------------------------------------
ToolAct(i) ==
  BeforeRun(i) \/ ShortCircuit(i) \/ Executes(i) \/ Throws(i) \/ AfterRun(i)
SdkAct == (\E k \in Kinds : ModelCalls(k)) \/ ModelStops \/ NextStep
RunAct ==
  \/ ResolveModel \/ ReadPart \/ CloseTurn \/ Suspended \/ EndRun
  \/ Cancelled \/ Recovers \/ Backoff \/ OnErrorThrows
  \/ \E d \in Decisions : GivesUp(d) \/ Retries(d)
SessionAct == StartRun \/ Resume \/ ApprovedToolThrows

Next ==
  \/ \E i \in Calls : ToolAct(i)
  \/ SdkAct \/ ProviderFails \/ Abort
  \/ RunAct
  \/ SessionAct

\* A started run goes on, the model comes to the end of a step and the tools
\* return; nobody has to fail, to abort, to answer or to start a run.
Fairness ==
  /\ WF_vars(RunAct) /\ WF_vars(ModelStops) /\ WF_vars(NextStep)
  /\ \A i \in Calls : WF_vars(ToolAct(i))

Spec == Init /\ [][Next]_vars /\ Fairness

-----------------------------------------------------------------------------
(* Properties.                                                             *)

\* The variables keep their types; attempts stay within the retry policy.
TypeOK ==
  /\ phase \in Phases /\ model \in BOOLEAN
  /\ retries \in 1..(IF RetryConfigured THEN RetryAttempts ELSE 2)
  /\ usedRetry \in BOOLEAN /\ pending \in 0..made /\ aborted \in BOOLEAN
  /\ sdk \in {"thinking", "waiting", "closed"} /\ step \in 0..MaxSteps
  /\ parts \in Seq([p : {"call", "settled", "end", "error", "abort"}, c : 0..made])
  /\ calls \in [Calls -> [kind : ToolKinds, current : BOOLEAN, step : 0..MaxSteps,
                          st : CallStates, tries : Nat]]
  /\ made \in 0..MaxCalls
  /\ buffer \in [Calls -> Seq(Crumbs)] /\ out \in [Calls -> Seq(Crumbs)]
  /\ rows \subseteq 1..made /\ results \in [Calls -> Nat]
  /\ checkpoint \in 0..made /\ prompt \subseteq 1..made
  /\ happened \subseteq Faults /\ runs \in 0..MaxRuns

\* A call whose result is in the history was announced by tool:call and by one
\* outcome, the one the model sees; a call that was settled without running
\* was not announced (runner-tool-execution.ts, executeToolWithHooks and its
\* streaming sibling; continueRun's flushes).
ClientsSeeWhatTheModelSees ==
  \A i \in rows : results[i] > 0 =>
    \/ calls[i].st = "ok" /\ out[i] = <<"call", "result">>
    \/ calls[i].st = "error" /\ out[i] = <<"call", "error">>
    \/ calls[i].st = "silent" /\ out[i] = <<>>
    \/ calls[i].st = "spoilt"

\* The model is never given a history with a call that has no result, unless
\* an approved tool or an onSuspend hook threw, nor one with two results
\* (continueRun's rows and stop conditions, resumeClaimed's tool row).
HistoryComplete ==
  /\ phase = "streaming" /\ happened \cap {"approved", "onSuspend"} = {} => prompt = {}
  /\ \A i \in Calls : results[i] <= 1

\* A run that began ends, fails, is cancelled or waits for a person: the retry
\* policy is bounded whatever the hooks decide (decideRetry, continueRun).
ComesToRest == Active ~> phase \in Rest
=============================================================================

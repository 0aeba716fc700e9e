------------------------------ MODULE Toolset ------------------------------
(***************************************************************************)
(* packages/core/src/bread.ts with what an instance gives its runs: the    *)
(* life of the instance (start, stop), its concurrency slots, the tools a  *)
(* run assembles (runner-tool-assembly.ts) from its agent, its tasks and   *)
(* the plugins, the approval of a gated tool (runner-resume.ts) and the    *)
(* audit rows of a task (task.ts).                                         *)
(*                                                                         *)
(* start() and stop() are split at their awaits and may overlap the runs:  *)
(* stop() waits for none of them.  A run is its generator: fresh until it  *)
(* is iterated, and gone once it returned, threw or was abandoned.         *)
(***************************************************************************)
EXTENDS McpClient

CONSTANTS Runs,          \* calls of run and runPipeline
          Standalone,    \* calls of runTask
          Max,           \* config.concurrency.max
          AgentTools,    \* the agent's own tools and tasks: a set of [origin, ask]
          PluginOrigins, \* origins of a plugin's static tools
          McpOrigin,     \* origin of an MCP tool: of a connection kind and a name
          AskWrites,     \* McpServerConfig.askWrites of the configured server
          Policies,      \* the agent's permissions
          MaxStarts,     \* bound: calls of start()
          MaxBusy,       \* bound: changes of the server's list beside runs
          MaxCalls,      \* bound: tool calls of one run
          MaxAttempts    \* errorHandling.retry of a task

ASSUME ToolsetAssumption ==
  /\ Runs \cap Standalone = {} /\ IsFiniteSet(Runs \cup Standalone)
  /\ Max \in Nat \ {0}
  /\ \A t \in AgentTools : /\ t.origin \in ToolOrigin /\ t.origin.scope # "human"
                           /\ t.ask \in BOOLEAN
  /\ \A o \in PluginOrigins : o \in ToolOrigin /\ o.scope # "human"
  /\ \A k \in {"server", "external"}, t \in Originals :
        /\ McpOrigin[k, SanitizeMcpToolName[t]] \in ToolOrigin
        /\ McpOrigin[k, SanitizeMcpToolName[t]].scope = "plugin"
  /\ Policies \subseteq ToolPermissions
  /\ AskWrites \in BOOLEAN
  /\ MaxStarts \in Nat /\ MaxCalls \in Nat /\ MaxAttempts \in Nat

Callers == Runs \cup Standalone

VARIABLES boot,     \* the await start() or stop() stands at, "" when neither runs
          bus,      \* events and fabric are set
          store,    \* the instance's store is set
          storeUp,  \* config.store is open
          starts,   \* how often start() was called
          contribs, \* per pluginTools array, how often the plugins were pushed on it
          inFlight, \* the instance's counter
          policy,   \* cfg.permissions
          run,      \* the runs
          rows      \* TaskRunRecords that are not settled: <<attempt, status>>, the
                    \* status "running", or "lost" when the store refused to settle it

vars == <<mcpVars, boot, bus, store, storeUp, starts, contribs, inFlight, policy, run, rows>>
lifeVars == <<boot, bus, store, storeUp, starts, contribs>>

NoSources == [x \in {} |-> x]
NoEntry == [origin |-> None, ask |-> FALSE]

\* at      where the run stands
\* goal    what it assembles its tools for: to "go" on or to "claim" an answer
\* plugins the pluginTools array it captured when it was called
\* list    the list it took from the configured server, awaiting the other
\* via     the external connection it awaits
\* src     its assembled tools
\* entry   the tool it is running, leaf the one its checkpoint names
\* human   the answer to that checkpoint
\* gone    the consumer stopped reading
NewRun == [at |-> "new", goal |-> "go", plugins |-> 0, list |-> {}, via |-> 0, src |-> NoSources,
           entry |-> NoEntry, leaf |-> <<>>, human |-> "none", calls |-> 0, attempts |-> 0,
           gone |-> FALSE]

Busy == {"assembling", "resolving", "claiming", "choosing", "tool", "taskNext", "task", "taskThrew"}
Holds(r) == run[r].at \in Busy /\ ~ run[r].gone
Current == Len(contribs)
Becomes(r, record) == run' = [run EXCEPT ![r] = record]

Init ==
  /\ McpInit
  /\ boot = "" /\ bus = FALSE /\ store = FALSE /\ storeUp = TRUE /\ starts = 0
  /\ contribs = <<0>>
  /\ inFlight = 0
  /\ policy \in Policies
  /\ run = [r \in Callers |-> NewRun]
  /\ rows = [r \in Callers |-> {}]

---------------------------------------------------------------------------
(* start().  A second call after one that threw starts over without a      *)
(* stop(), and finds the plugins it pushed already there.                  *)

Start ==
  /\ boot = "" /\ starts < MaxStarts
  /\ bus => \A c \in DOMAIN conns : conns[c].stage = "open" => conns[c].closed
  /\ starts' = starts + 1
  /\ boot' = "fabric" /\ bus' = TRUE
  /\ UNCHANGED <<mcpVars, store, storeUp, contribs, inFlight, policy, run, rows>>

FabricReady ==
  /\ boot = "fabric"
  /\ boot' = "migrate" /\ store' = TRUE /\ storeUp' = TRUE
  /\ UNCHANGED <<mcpVars, bus, starts, contribs, inFlight, policy, run, rows>>

\* The store is migrated: the plugins' tools and resolvers are pushed, and the
\* MCP plugin's init begins to connect.
PluginsPushed ==
  /\ boot = "migrate"
  /\ contribs' = [contribs EXCEPT ![Current] = @ + 1]
  /\ BeginConnect("server") /\ UNCHANGED cache
  /\ boot' = "init"
  /\ UNCHANGED <<bus, store, storeUp, starts, inFlight, policy, run, rows>>

\* The plugin's connection is up, and start() returns, or it failed and
\* start() throws.
PluginReady ==
  /\ boot = "init"
  /\ \E c \in DOMAIN conns :
       /\ conns[c].for = "server" /\ conns[c].stage \in {"open", "failed"}
       /\ \A d \in DOMAIN conns : conns[d].for = "server" => d <= c
  /\ boot' = ""
  /\ UNCHANGED <<mcpVars, bus, store, storeUp, starts, contribs, inFlight, policy, run, rows>>

\* fabric.init or store.migrate rejects.
StartThrows ==
  /\ boot \in {"fabric", "migrate"} /\ drops < MaxDrops
  /\ drops' = drops + 1
  /\ boot' = ""
  /\ UNCHANGED <<served, conns, refreshes, cache, bus, store, storeUp, starts, contribs, inFlight,
                 policy, run, rows>>

(* stop(): the plugins close, then everything is let go.                   *)

Stop ==
  /\ boot = "" /\ bus
  /\ boot' = "destroy"
  /\ UNCHANGED <<mcpVars, bus, store, storeUp, starts, contribs, inFlight, policy, run, rows>>

\* external.destroy() has awaited the cached connection and closed it, and the
\* configured connections are closed; the contributions are new empty arrays.
PluginsClosed ==
  /\ boot = "destroy"
  /\ cache # 0 => conns[cache].stage \in {"open", "failed"}
  /\ CloseConns({c \in DOMAIN conns :
       conns[c].stage = "open" /\ (conns[c].for = "server" \/ c = cache)})
  /\ cache' = 0
  /\ contribs' = Append(contribs, 0)
  /\ boot' = "close"
  /\ UNCHANGED <<served, drops, bus, store, storeUp, starts, inFlight, policy, run, rows>>

StoreClosed ==
  /\ boot = "close"
  /\ storeUp' = FALSE
  /\ boot' = "release"
  /\ UNCHANGED <<mcpVars, bus, store, starts, contribs, inFlight, policy, run, rows>>

Stopped ==
  /\ boot = "release"
  /\ bus' = FALSE /\ store' = FALSE
  /\ boot' = ""
  /\ UNCHANGED <<mcpVars, storeUp, starts, contribs, inFlight, policy, run, rows>>

---------------------------------------------------------------------------
(* The entry points and the slots.                                         *)

\* requireStarted and requireStore, and the bound on what runs beside changes.
Started == bus /\ store /\ Latest <= MaxBusy + 1

\* A streamed run or pipeline: a generator, and no slot before it is iterated.
Run(r) ==
  /\ run[r].at = "new" /\ Started
  /\ Becomes(r, [run[r] EXCEPT !.at = "fresh", !.plugins = Current])
  /\ UNCHANGED <<mcpVars, lifeVars, inFlight, policy, rows>>

RunPipeline(r) == Run(r)

\* The record of a call that throws before it claimed a checkpoint: one that
\* was made to answer a checkpoint leaves it there.
BackOut(r, place) ==
  IF run[r].goal = "claim"
    THEN [NewRun EXCEPT !.at = "suspended", !.leaf = run[r].leaf, !.calls = run[r].calls]
    ELSE [NewRun EXCEPT !.at = place]

\* Mutant: the refusal falls into the finally that gives the slot back.
IterateFinally(r) ==
  /\ run[r].at = "fresh"
  /\ IF inFlight >= Max
       THEN /\ Becomes(r, BackOut(r, "refused"))
            /\ inFlight' = inFlight - 1
       ELSE /\ Becomes(r, [run[r] EXCEPT !.at = "assembling"])
            /\ inFlight' = inFlight + 1
  /\ UNCHANGED <<mcpVars, lifeVars, policy, rows>>

\* The first next() of the generator: the cap, then the slot.
Iterate(r) ==
  /\ run[r].at = "fresh"
  /\ IF inFlight >= Max
       THEN /\ Becomes(r, BackOut(r, "refused"))
            /\ UNCHANGED inFlight
       ELSE /\ Becomes(r, [run[r] EXCEPT !.at = "assembling"])
            /\ inFlight' = inFlight + 1
  /\ UNCHANGED <<mcpVars, lifeVars, policy, rows>>

\* mode sync takes its slot at the call.
RunSync(r) ==
  /\ run[r].at = "new" /\ Started /\ inFlight < Max
  /\ Becomes(r, [run[r] EXCEPT !.at = "assembling", !.plugins = Current])
  /\ inFlight' = inFlight + 1
  /\ UNCHANGED <<mcpVars, lifeVars, policy, rows>>

\* A standalone task: no agent, no permissions, no crumbs.
RunTask(r) ==
  /\ run[r].at = "new" /\ Started /\ inFlight < Max
  /\ Becomes(r, [run[r] EXCEPT !.at = "taskNext", !.goal = "task"])
  /\ inFlight' = inFlight + 1
  /\ UNCHANGED <<mcpVars, lifeVars, policy, rows>>

\* The consumer stops reading: the generator's finally gives the slot back.  A
\* tool that is running runs on.
Abandon(r) ==
  /\ run[r].at \in {"choosing", "tool", "taskNext", "task", "taskThrew"} /\ ~ run[r].gone
  /\ run[r].goal # "task"
  /\ Becomes(r, [run[r] EXCEPT !.gone = TRUE,
                    !.at = IF run[r].at = "choosing" THEN "ended" ELSE run[r].at])
  /\ inFlight' = inFlight - 1
  /\ UNCHANGED <<mcpVars, lifeVars, policy, rows>>

\* What a run's record and the counter are once its generator returned at the
\* place given, or threw.
Leave(r, place) ==
  /\ Becomes(r, [NewRun EXCEPT !.at = place])
  /\ inFlight' = IF run[r].gone THEN inFlight ELSE inFlight - 1

\* Whoever holds the checkpoint answers it: resume() is called like run().
Resume(r) ==
  /\ run[r].at = "suspended" /\ Started
  /\ \E answer \in {"yes", "no"} :
       Becomes(r, [run[r] EXCEPT !.at = "fresh", !.plugins = Current, !.goal = "claim",
                                 !.human = answer])
  /\ UNCHANGED <<mcpVars, lifeVars, inFlight, policy, rows>>

---------------------------------------------------------------------------
(* assembleTools, for a run and again for an answered checkpoint.          *)

\* connected.find: the first configured connection the plugin's init pushed.
ServerConns == {c \in DOMAIN conns : conns[c].for = "server" /\ conns[c].stage = "open"}
FirstServer == CHOOSE c \in ServerConns : \A d \in ServerConns : c <= d

McpEntries(kind, list, pushed) ==
  {<<kind, k, t>> : k \in 1..pushed, t \in list}

\* The entries of every source, the plugins' once per time they were pushed.
Sources(pushed, list, external) ==
  [i \in {<<"agent", 1, t>> : t \in AgentTools}
         \cup {<<"plugin", k, o>> : k \in 1..pushed, o \in PluginOrigins}
         \cup McpEntries("server", list, pushed) \cup McpEntries("external", external, pushed)
     |-> CASE i[1] = "agent"  -> i[3]
           [] i[1] = "plugin" -> [origin |-> i[3], ask |-> FALSE]
           [] OTHER -> [origin |-> McpOrigin[i[1], SanitizeMcpToolName[i[3]]],
                        ask |-> i[1] = "server" /\ AskWrites]]

\* assembleTools throws: nothing was claimed yet.
Unassembled(r) ==
  /\ Becomes(r, BackOut(r, "failed"))
  /\ inFlight' = inFlight - 1

\* The tools are there: the run goes on with them, or throws on a collision.
Assembled(r, src) ==
  IF Collides(src, policy) THEN Unassembled(r)
  ELSE /\ Becomes(r, [run[r] EXCEPT
                       !.at = IF run[r].goal = "claim" THEN "claiming" ELSE "choosing",
                       !.src = src, !.via = 0, !.list = {}])
       /\ UNCHANGED inFlight

\* The resolver reads the configured server's list and then awaits the agent's
\* own server, connecting it when no connection is cached.  It throws when the
\* plugin has not connected its server.
AwaitServers(r) ==
  /\ run[r].at = "assembling"
  /\ IF contribs[run[r].plugins] = 0
       THEN Assembled(r, Sources(0, {}, {})) /\ UNCHANGED mcpVars
     ELSE IF ServerConns = {}
       THEN Unassembled(r) /\ UNCHANGED mcpVars
     ELSE /\ IF cache = 0
               THEN BeginConnect("external") /\ cache' = Len(conns) + 1
               ELSE UNCHANGED mcpVars
          /\ Becomes(r, [run[r] EXCEPT !.at = "resolving", !.via = cache',
                                !.list = served[conns[FirstServer].tools]])
          /\ UNCHANGED inFlight
  /\ UNCHANGED <<lifeVars, policy, rows>>

ServersResolved(r) ==
  /\ run[r].at = "resolving"
  /\ LET ext == conns[run[r].via] IN
       \/ /\ ext.stage = "failed"
          /\ Unassembled(r)
       \/ /\ ext.stage = "open"
          /\ Assembled(r, Sources(contribs[run[r].plugins], run[r].list, served[ext.tools]))
  /\ UNCHANGED <<mcpVars, lifeVars, policy, rows>>

---------------------------------------------------------------------------
(* The model's choice, the gate and the answer.                            *)

Tool(r, leaf) == run[r].src[EntryOf(run[r].src, policy, leaf)]

\* The run's record as its tool starts.
Starts(rec, entry) ==
  [rec EXCEPT !.at = IF entry.origin.scope = "task" THEN "taskNext" ELSE "tool",
              !.entry = entry, !.attempts = 0]

\* The model calls a tool nobody has to approve.
CallTool(r) ==
  /\ run[r].at = "choosing" /\ run[r].calls < MaxCalls
  /\ \E leaf \in Leaves(run[r].src, policy) \ Gated(run[r].src, policy) :
       Becomes(r, [Starts(run[r], Tool(r, leaf)) EXCEPT !.calls = run[r].calls + 1])
  /\ UNCHANGED <<mcpVars, lifeVars, inFlight, policy, rows>>

\* It calls one that is gated: the run is suspended on a checkpoint.
Suspend(r) ==
  /\ run[r].at = "choosing" /\ run[r].calls < MaxCalls
  /\ \E leaf \in Gated(run[r].src, policy) :
       /\ Becomes(r, [NewRun EXCEPT !.at = "suspended", !.leaf = leaf,
                                     !.calls = run[r].calls + 1])
       /\ inFlight' = inFlight - 1
  /\ UNCHANGED <<mcpVars, lifeVars, policy, rows>>

\* It answers, and the run returns.
Finish(r) ==
  /\ run[r].at = "choosing"
  /\ Leave(r, "ended")
  /\ UNCHANGED <<mcpVars, lifeVars, policy, rows>>

\* resumeRun has claimed (deleted) the checkpoint.  An approved tool runs, if it
\* is still there; a rejected one is answered for, and the run goes on.
Claim(r) ==
  /\ run[r].at = "claiming"
  /\ LET r0 == run[r] IN
       \/ /\ r0.human = "yes" /\ r0.leaf \in Leaves(r0.src, policy)
          /\ Becomes(r, Starts(r0, Tool(r, r0.leaf)))
          /\ UNCHANGED inFlight
       \/ /\ r0.human = "yes" /\ r0.leaf \notin Leaves(r0.src, policy)
          /\ Leave(r, "failed")
       \/ /\ r0.human = "no"
          /\ Becomes(r, [r0 EXCEPT !.at = "assembling", !.goal = "go", !.human = "none",
                                !.leaf = <<>>, !.src = NoSources])
          /\ UNCHANGED inFlight
  /\ UNCHANGED <<mcpVars, lifeVars, policy, rows>>

\* The tool is done: a live call goes back to the model, an approved one to a
\* new segment of the run; a run nobody reads is over.
ToolReturns(r) ==
  /\ IF run[r].gone \/ run[r].goal = "task" THEN Leave(r, "ended")
     ELSE /\ Becomes(r, [run[r] EXCEPT
               !.entry = NoEntry, !.human = "none", !.leaf = <<>>, !.goal = "go",
               !.src = IF run[r].goal = "claim" THEN NoSources ELSE run[r].src,
               !.at = IF run[r].goal = "claim" THEN "assembling" ELSE "choosing"])
          /\ UNCHANGED inFlight

ToolDone(r) ==
  /\ run[r].at = "tool"
  /\ ToolReturns(r)
  /\ UNCHANGED <<mcpVars, lifeVars, policy, rows>>

---------------------------------------------------------------------------
(* executeTask and its retries.                                            *)

\* createTaskRun; when it throws there is no row.
TaskBegins(r) ==
  /\ run[r].at = "taskNext"
  /\ \/ /\ storeUp
        /\ rows' = [rows EXCEPT ![r] = @ \cup {<<run[r].attempts + 1, "running">>}]
        /\ Becomes(r, [run[r] EXCEPT !.at = "task", !.attempts = run[r].attempts + 1])
     \/ /\ ~ storeUp
        /\ Becomes(r, [run[r] EXCEPT !.at = "taskThrew", !.attempts = run[r].attempts + 1])
        /\ UNCHANGED rows
  /\ UNCHANGED <<mcpVars, lifeVars, inFlight, policy>>

OwnRow(r) == <<run[r].attempts, "running">>

\* completed or failed: the row of this attempt is settled.
FinishTaskRun(r) == rows' = [rows EXCEPT ![r] = @ \ {OwnRow(r)}]

\* generateObject answers and the row is completed.
TaskAnswers(r) ==
  /\ run[r].at = "task" /\ storeUp
  /\ FinishTaskRun(r)
  /\ ToolReturns(r)
  /\ UNCHANGED <<mcpVars, lifeVars, policy>>

\* Mutant: the catch rethrows and leaves the row.
TaskRethrows(r) ==
  /\ run[r].at = "task"
  /\ Becomes(r, [run[r] EXCEPT !.at = "taskThrew"])
  /\ UNCHANGED <<mcpVars, lifeVars, inFlight, policy, rows>>

\* It throws, or completing the row does: the catch marks the row failed, which
\* a closed store refuses, and the error is thrown on.
TaskThrows(r) ==
  /\ run[r].at = "task"
  /\ IF storeUp THEN FinishTaskRun(r)
     ELSE rows' = [rows EXCEPT ![r] = (@ \ {OwnRow(r)}) \cup {<<run[r].attempts, "lost">>}]
  /\ Becomes(r, [run[r] EXCEPT !.at = "taskThrew"])
  /\ UNCHANGED <<mcpVars, lifeVars, inFlight, policy>>

\* onError retries the task, or recovers it or lets it fail.
TaskOnError(r) ==
  /\ run[r].at = "taskThrew"
  /\ \/ /\ run[r].attempts <= MaxAttempts
        /\ Becomes(r, [run[r] EXCEPT !.at = "taskNext"])
        /\ UNCHANGED inFlight
     \/ ToolReturns(r)
  /\ UNCHANGED <<mcpVars, lifeVars, policy, rows>>

---------------------------------------------------------------------------
TaskWorks(r) == TaskBegins(r) \/ TaskAnswers(r) \/ TaskThrows(r) \/ TaskOnError(r)

Life == Start \/ FabricReady \/ PluginsPushed \/ PluginReady \/ StartThrows
          \/ Stop \/ PluginsClosed \/ StoreClosed \/ Stopped

Calls(r) == Run(r) \/ RunPipeline(r) \/ Iterate(r) \/ RunSync(r) \/ Abandon(r)
              \/ Resume(r)

Works(r) == \/ AwaitServers(r) \/ ServersResolved(r)
            \/ CallTool(r) \/ Suspend(r) \/ Finish(r) \/ Claim(r) \/ ToolDone(r)
            \/ TaskWorks(r)

Next ==
  \/ Life
  \/ /\ McpStep
     /\ Len(served') > MaxBusy + 1 => \A r \in Callers : run[r].at = "new"
     /\ UNCHANGED <<lifeVars, inFlight, policy, run, rows>>
  \/ \E r \in Runs : Calls(r) \/ Works(r)
  \/ \E r \in Standalone : RunTask(r) \/ TaskWorks(r)

Spec == Init /\ [][Next]_vars

---------------------------------------------------------------------------
\* SlotsHeld: the counter is the number of runs under way, and never more than
\* the configured cap, whatever way a run ends. (bread.ts:239-260, 300-311;
\* config.concurrency.max.)
SlotsHeld ==
  /\ inFlight = Cardinality({r \in Callers : Holds(r)})
  /\ inFlight <= Max

\* GateHolds: a tool the configuration or its own definition asks about runs only
\* for the run whose checkpoint a human approved. (docs/mcp-client.md:150-163;
\* runner-tool-assembly.ts:180-190, runner-resume.ts:250-262.)
GateHolds ==
  \A r \in Callers :
     run[r].at \in {"tool", "taskNext", "task", "taskThrew"} /\ r \in Runs
       => (NeedsApproval(run[r].entry, policy) => run[r].human = "yes")

\* RowsSettle: a task's audit row is "running" only while that very attempt is,
\* unless the store was closed under it. (task.ts:88-158.)
RowsSettle ==
  \A r \in Callers : \A row \in rows[r] :
     row[2] = "running" => run[r].at = "task" /\ row[1] = run[r].attempts
============================================================================

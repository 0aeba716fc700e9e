--------------------------- MODULE ToolsetProofs ---------------------------
(***************************************************************************)
(* Proofs about Toolset and the MCP connections of its instance, for any   *)
(* runs, tools, lists, permissions and bounds: the instance's counter is   *)
(* the number of runs under way, nothing that waits for a human runs       *)
(* unapproved, a task's audit row is running only while its attempt is,    *)
(* and a connection at rest holds its server's present list.  A step       *)
(* changes the record and the rows of one run, so each action is shown to  *)
(* be a StepOf that run, and one lemma says that such a step keeps the     *)
(* invariant.                                                              *)
(***************************************************************************)
EXTENDS Toolset, FiniteSetTheorems, SequenceTheorems, TLAPS

---------------------------------------------------------------------------
(* The invariant.                                                          *)

RunFields == {"at", "goal", "plugins", "list", "via", "src", "entry", "leaf", "human", "calls",
              "attempts", "gone"}
IsRun(x) == x = [f \in RunFields |-> x[f]] /\ x.gone \in BOOLEAN

Running == {"tool", "taskNext", "task", "taskThrew"}

Shapes ==
  /\ run = [r \in Callers |-> run[r]] /\ \A r \in Callers : IsRun(run[r])
  /\ rows = [r \in Callers |-> rows[r]]

\* A run nobody reads any more only waits for its tool.
GoneWaits(r) == run[r].gone => run[r].at \in Running \cup {"ended"}

Approved(r) ==
  r \in Runs /\ run[r].at \in Running
    => (NeedsApproval(run[r].entry, policy) => run[r].human = "yes")

RowsOf(r) ==
  \A row \in rows[r] :
     /\ row = <<row[1], row[2]>>
     /\ row[2] = "running" => run[r].at = "task" /\ row[1] = run[r].attempts

RunInv == Shapes /\ SlotsHeld /\ \A r \in Callers : GoneWaits(r) /\ Approved(r) /\ RowsOf(r)

\* What a step of run r does: to no other run, and its slot is counted.
StepOf(r) ==
  /\ Becomes(r, run'[r]) /\ IsRun(run'[r])
  /\ rows' = [rows EXCEPT ![r] = rows'[r]]
  /\ GoneWaits(r)' /\ Approved(r)' /\ RowsOf(r)'
  /\ (Holds(r) <=> Holds(r)') => inFlight' = inFlight
  /\ Holds(r) /\ ~ Holds(r)' => inFlight' = inFlight - 1
  /\ ~ Holds(r) /\ Holds(r)' => inFlight' = inFlight + 1 /\ inFlight < Max

---------------------------------------------------------------------------
(* The gate, for any family of tools.                                      *)

\* Whatever the configuration asks about is gated by its leaf.
LEMMA GateCovers ==
  ASSUME NEW src, NEW p, NEW i \in ResolveAllowed(src, p), NeedsApproval(src[i], p)
  PROVE  LeafName(src[i].origin) \in Gated(src, p)
<1> DEFINE o == src[i].origin
<1>1. o.scope # "human"
  BY DEF NeedsApproval
<1>2. CASE MatchesAny(p.ask, o)
  BY <1>1, <1>2 DEF Gated, ResolveGated
<1>3. CASE /\ src[i].ask
           /\ ~ \E s \in p.allow : s.sub = o.sub /\ s.name = o.name /\ s.scope = o.scope
  <2>1. ~ MatchesAny(Exact(p.allow), o)
    BY <1>3 DEF MatchesAny, Exact, MatchesSelector, SegmentMatches
  <2> QED
    BY <1>3, <2>1 DEF Gated, GateAskDefaults
<1> QED
  BY <1>2, <1>3 DEF NeedsApproval

\* Behind a leaf that is not gated is a tool nobody has to approve.
LEMMA UngatedIsFree ==
  ASSUME NEW src, NEW p, NEW leaf \in Leaves(src, p) \ Gated(src, p)
  PROVE  ~ NeedsApproval(src[EntryOf(src, p, leaf)], p)
<1>1. \E i \in ResolveAllowed(src, p) : LeafName(src[i].origin) = leaf
  BY DEF Leaves
<1>2. /\ EntryOf(src, p, leaf) \in ResolveAllowed(src, p)
      /\ LeafName(src[EntryOf(src, p, leaf)].origin) = leaf
  BY <1>1 DEF EntryOf
<1> QED
  BY <1>2, GateCovers

---------------------------------------------------------------------------
(* A step of one run keeps the invariant.                                  *)

LEMMA Counting ==
  ASSUME Shapes, SlotsHeld, NEW r \in Callers, StepOf(r)
  PROVE  SlotsHeld'
<1> DEFINE H == {s \in Callers : Holds(s)}
<1>1. IsFiniteSet(Callers) /\ Max \in Nat
  BY ToolsetAssumption DEF Callers
<1>2. IsFiniteSet(H) /\ Cardinality(H) \in Nat
  BY <1>1, FS_Subset, FS_CardinalityType
<1>3. inFlight = Cardinality(H) /\ inFlight <= Max
  BY DEF SlotsHeld
<1>4. \A s \in Callers : s # r => run'[s] = run[s]
  BY DEF StepOf, Becomes, Shapes
<1>5. \A s \in Callers : s # r => (Holds(s)' <=> Holds(s))
  BY <1>4 DEF Holds
<1>6. CASE Holds(r) <=> Holds(r)'
  <2>1. H' = H
    BY <1>5, <1>6
  <2>2. inFlight' = inFlight
    BY <1>6 DEF StepOf
  <2> HIDE DEF H
  <2>3. inFlight' = Cardinality(H') /\ inFlight' <= Max
    BY <1>3, <2>1, <2>2
  <2> QED
    BY <2>3 DEF SlotsHeld, H
<1>7. CASE Holds(r) /\ ~ Holds(r)'
  <2>1. H' = H \ {r} /\ r \in H
    BY <1>5, <1>7
  <2>2. inFlight' = inFlight - 1
    BY <1>7 DEF StepOf
  <2> HIDE DEF H
  <2>3. Cardinality(H \ {r}) = Cardinality(H) - 1
    BY <1>2, <2>1, FS_RemoveElement
  <2>4. inFlight' = Cardinality(H') /\ inFlight' <= Max
    BY <1>1, <1>2, <1>3, <2>1, <2>2, <2>3
  <2> QED
    BY <2>4 DEF SlotsHeld, H
<1>8. CASE ~ Holds(r) /\ Holds(r)'
  <2>1. H' = H \cup {r} /\ r \notin H
    BY <1>5, <1>8
  <2>2. inFlight' = inFlight + 1 /\ inFlight < Max
    BY <1>8 DEF StepOf
  <2> HIDE DEF H
  <2>3. Cardinality(H \cup {r}) = Cardinality(H) + 1
    BY <1>2, <2>1, FS_AddElement
  <2>4. inFlight' = Cardinality(H') /\ inFlight' <= Max
    BY <1>1, <1>2, <1>3, <2>1, <2>2, <2>3
  <2> QED
    BY <2>4 DEF SlotsHeld, H
<1> QED
  BY <1>6, <1>7, <1>8

LEMMA Counter == RunInv => inFlight \in Nat /\ Max \in Nat
<1> SUFFICES ASSUME RunInv PROVE inFlight \in Nat /\ Max \in Nat
  OBVIOUS
<1>1. IsFiniteSet(Callers) /\ Max \in Nat
  BY ToolsetAssumption DEF Callers
<1>2. Cardinality({r \in Callers : Holds(r)}) \in Nat
  BY <1>1, FS_Subset, FS_CardinalityType
<1> QED
  BY <1>1, <1>2 DEF RunInv, SlotsHeld

LEMMA StepKeeps ==
  ASSUME RunInv, NEW r \in Callers, StepOf(r), UNCHANGED policy
  PROVE  RunInv'
<1>1. SlotsHeld'
  BY Counting DEF RunInv
<1>2. \A s \in Callers : s # r => run'[s] = run[s] /\ rows'[s] = rows[s]
  BY DEF StepOf, Becomes, RunInv, Shapes
<1>3. Shapes'
  BY <1>2 DEF StepOf, Becomes, RunInv, Shapes
<1>4. ASSUME NEW s \in Callers PROVE GoneWaits(s)' /\ Approved(s)' /\ RowsOf(s)'
  <2>1. CASE s = r
    BY <2>1 DEF StepOf
  <2>2. CASE s # r
    BY <1>2, <2>2 DEF RunInv, GoneWaits, Approved, RowsOf
  <2> QED
    BY <2>1, <2>2
<1> QED
  BY <1>1, <1>3, <1>4 DEF RunInv

\* A record it becomes, and rows that stay, make a StepOf r.
LEMMA Becoming ==
  ASSUME RunInv, NEW r \in Callers, NEW e, IsRun(e), Becomes(r, e), UNCHANGED <<rows, policy>>,
         e.gone => e.at \in Running \cup {"ended"},
         r \in Runs /\ e.at \in Running
           => (NeedsApproval(e.entry, policy) => e.human = "yes"),
         run[r].at = "task" => e.at = "task" /\ e.attempts = run[r].attempts,
         (Holds(r) <=> e.at \in Busy /\ ~ e.gone) => inFlight' = inFlight,
         Holds(r) /\ ~ (e.at \in Busy /\ ~ e.gone) => inFlight' = inFlight - 1,
         ~ Holds(r) /\ e.at \in Busy /\ ~ e.gone => inFlight' = inFlight + 1 /\ inFlight < Max
  PROVE  StepOf(r)
<1>1. run'[r] = e /\ rows'[r] = rows[r]
  BY DEF Becomes, RunInv, Shapes
<1>2. Becomes(r, run'[r]) /\ IsRun(run'[r]) /\ rows' = [rows EXCEPT ![r] = rows'[r]]
  BY <1>1 DEF RunInv, Shapes
<1>3. GoneWaits(r)' /\ Approved(r)'
  BY <1>1 DEF GoneWaits, Approved
<1>4. RowsOf(r)'
  BY <1>1 DEF RunInv, RowsOf
<1>5. Holds(r)' <=> e.at \in Busy /\ ~ e.gone
  BY <1>1 DEF Holds
<1> QED
  BY <1>2, <1>3, <1>4, <1>5 DEF StepOf

---------------------------------------------------------------------------
(* The actions.                                                            *)

\* A fresh record is one, and so is one with some of its fields set.
LEMMA NewIsRun ==
  ASSUME NEW place
  PROVE  /\ IsRun([NewRun EXCEPT !.at = place])
         /\ [NewRun EXCEPT !.at = place].at = place
         /\ [NewRun EXCEPT !.at = place].gone = FALSE
  BY DEF IsRun, RunFields, NewRun

\* A generator that returned or threw: its slot is given back, once.
LEMMA Leaving ==
  ASSUME RunInv, NEW r \in Callers, NEW place \in {"ended", "failed"}, Leave(r, place),
         UNCHANGED <<rows, policy>>, run[r].at \in Busy, run[r].at # "task"
  PROVE  StepOf(r)
<1> DEFINE e == [NewRun EXCEPT !.at = place]
<1>1. IsRun(e) /\ e.at = place /\ e.gone = FALSE
  BY NewIsRun
<1>2. Becomes(r, e)
  BY DEF Leave
<1>3. Holds(r) <=> ~ run[r].gone
  BY DEF Holds
<1>4. (~ Holds(r) => inFlight' = inFlight) /\ (Holds(r) => inFlight' = inFlight - 1)
  BY <1>3 DEF Leave
<1>5. e.at \notin Busy /\ e.at \notin Running
  BY <1>1 DEF Busy, Running
<1> HIDE DEF e
<1> QED
  BY <1>1, <1>2, <1>4, <1>5, Becoming

\* A call that throws before it claimed anything.
LEMMA BackedOut ==
  ASSUME RunInv, NEW r \in Callers, NEW place \in {"refused", "failed"}
  PROVE  /\ IsRun(BackOut(r, place)) /\ BackOut(r, place).gone = FALSE
         /\ BackOut(r, place).at \notin Busy /\ BackOut(r, place).at \notin Running
  BY DEF BackOut, IsRun, RunFields, NewRun, Busy, Running

\* The record of a run with some of its fields set.
LEMMA SetRun ==
  ASSUME RunInv, NEW r \in Callers
  PROVE  /\ IsRun(run[r])
         /\ \A place : LET e == [run[r] EXCEPT !.at = place] IN
              /\ IsRun(e) /\ e.at = place /\ e.gone = run[r].gone
              /\ e.entry = run[r].entry /\ e.human = run[r].human
              /\ e.attempts = run[r].attempts
<1>1. IsRun(run[r])
  BY DEF RunInv, Shapes
<1> QED
  BY <1>1 DEF IsRun, RunFields

LEMMA CallsStep ==
  ASSUME RunInv, NEW r \in Runs, Calls(r)
  PROVE  StepOf(r) /\ UNCHANGED policy
<1> r \in Callers
  BY DEF Callers
<1>1. IsRun(run[r]) /\ GoneWaits(r)
  BY SetRun DEF RunInv
<1>2. CASE Run(r) \/ RunPipeline(r)
  <2> DEFINE e == [run[r] EXCEPT !.at = "fresh", !.plugins = Current]
  <2>1. IsRun(e) /\ e.at = "fresh" /\ e.gone = run[r].gone
    BY <1>1 DEF IsRun, RunFields
  <2>2. Becomes(r, e) /\ UNCHANGED <<rows, policy, inFlight>> /\ run[r].at = "new"
    BY <1>2 DEF Run, RunPipeline
  <2>3. ~ run[r].gone /\ ~ Holds(r) /\ e.at \notin Busy /\ e.at \notin Running
    BY <1>1, <2>1, <2>2 DEF GoneWaits, Running, Holds, Busy
  <2> HIDE DEF e
  <2> QED
    BY <2>1, <2>2, <2>3, Becoming
<1>3. CASE Iterate(r)
  <2>1. run[r].at = "fresh" /\ UNCHANGED <<rows, policy>>
    BY <1>3 DEF Iterate
  <2>2. ~ run[r].gone /\ ~ Holds(r)
    BY <1>1, <2>1 DEF GoneWaits, Running, Holds, Busy
  <2>3. CASE inFlight >= Max
    <3>1. Becomes(r, BackOut(r, "refused")) /\ UNCHANGED inFlight
      BY <1>3, <2>3 DEF Iterate
    <3> QED
      BY <2>1, <2>2, <3>1, BackedOut, Becoming
  <2>4. CASE ~ (inFlight >= Max)
    <3> DEFINE e == [run[r] EXCEPT !.at = "assembling"]
    <3>1. Becomes(r, e) /\ inFlight' = inFlight + 1
      BY <1>3, <2>4 DEF Iterate
    <3>2. IsRun(e) /\ e.at = "assembling" /\ e.gone = run[r].gone
      BY SetRun
    <3>3. e.at \in Busy /\ e.at \notin Running /\ inFlight < Max
      BY <2>4, <3>2, Counter DEF Busy, Running
    <3> HIDE DEF e
    <3> QED
      BY <2>1, <2>2, <3>1, <3>2, <3>3, Becoming
  <2> QED
    BY <2>3, <2>4
<1>4. CASE RunSync(r)
  <2> DEFINE e == [run[r] EXCEPT !.at = "assembling", !.plugins = Current]
  <2>1. IsRun(e) /\ e.at = "assembling" /\ e.gone = run[r].gone
    BY <1>1 DEF IsRun, RunFields
  <2>2. /\ Becomes(r, e) /\ UNCHANGED <<rows, policy>> /\ run[r].at = "new"
        /\ inFlight' = inFlight + 1 /\ inFlight < Max
    BY <1>4 DEF RunSync
  <2>3. ~ run[r].gone /\ ~ Holds(r) /\ e.at \in Busy /\ e.at \notin Running
    BY <1>1, <2>1, <2>2 DEF GoneWaits, Running, Holds, Busy
  <2> HIDE DEF e
  <2> QED
    BY <2>1, <2>2, <2>3, Becoming
<1>5. CASE Abandon(r)
  <2> DEFINE place == IF run[r].at = "choosing" THEN "ended" ELSE run[r].at
             e == [run[r] EXCEPT !.gone = TRUE, !.at = place]
  <2>1. IsRun(e) /\ e.at = place /\ e.gone = TRUE /\ e.entry = run[r].entry
          /\ e.human = run[r].human /\ e.attempts = run[r].attempts
    BY <1>1 DEF IsRun, RunFields
  <2>2. /\ Becomes(r, e) /\ UNCHANGED <<rows, policy>> /\ inFlight' = inFlight - 1
        /\ run[r].at \in {"choosing"} \cup Running /\ ~ run[r].gone
    BY <1>5 DEF Abandon, Running
  <2>3. Holds(r)
    BY <2>2 DEF Holds, Busy, Running
  <2>4. /\ place \in Running \cup {"ended"}
        /\ place \in Running => place = run[r].at
        /\ run[r].at = "task" => place = "task"
    BY <2>2 DEF Running
  <2>5. Approved(r)
    BY DEF RunInv
  <2> HIDE DEF e, place
  <2>6. r \in Runs /\ e.at \in Running => (NeedsApproval(e.entry, policy) => e.human = "yes")
    BY <2>1, <2>4, <2>5 DEF Approved
  <2> QED
    BY <2>1, <2>2, <2>3, <2>4, <2>6, Becoming
<1>6. CASE Resume(r)
  <2>1. PICK answer \in {"yes", "no"} :
          Becomes(r, [run[r] EXCEPT !.at = "fresh", !.plugins = Current, !.goal = "claim",
                                    !.human = answer])
    BY <1>6 DEF Resume
  <2> DEFINE e == [run[r] EXCEPT !.at = "fresh", !.plugins = Current, !.goal = "claim",
                                 !.human = answer]
  <2>2. IsRun(e) /\ e.at = "fresh" /\ e.gone = run[r].gone
    BY <1>1 DEF IsRun, RunFields
  <2>3. UNCHANGED <<rows, policy, inFlight>> /\ run[r].at = "suspended"
    BY <1>6 DEF Resume
  <2>4. ~ run[r].gone /\ ~ Holds(r) /\ e.at \notin Busy /\ e.at \notin Running
    BY <1>1, <2>2, <2>3 DEF GoneWaits, Running, Holds, Busy
  <2> HIDE DEF e
  <2> QED
    BY <2>1, <2>2, <2>3, <2>4, Becoming DEF e
<1> QED
  BY <1>2, <1>3, <1>4, <1>5, <1>6 DEF Calls, Run, RunPipeline, Iterate, RunSync, Abandon, Resume

\* A standalone task takes its slot at the call.
LEMMA RunTaskStep ==
  ASSUME RunInv, NEW r \in Standalone, RunTask(r)
  PROVE  StepOf(r) /\ UNCHANGED policy
<1> r \in Callers /\ r \notin Runs
  BY ToolsetAssumption DEF Callers
<1> DEFINE e == [run[r] EXCEPT !.at = "taskNext", !.goal = "task"]
<1>1. IsRun(run[r]) /\ GoneWaits(r)
  BY SetRun DEF RunInv
<1>2. IsRun(e) /\ e.at = "taskNext" /\ e.gone = run[r].gone
  BY <1>1 DEF IsRun, RunFields
<1>3. /\ Becomes(r, e) /\ UNCHANGED <<rows, policy>> /\ run[r].at = "new"
      /\ inFlight' = inFlight + 1 /\ inFlight < Max
  BY DEF RunTask
<1>4. ~ run[r].gone /\ ~ Holds(r) /\ e.at \in Busy
  BY <1>1, <1>2, <1>3 DEF GoneWaits, Running, Holds, Busy
<1> HIDE DEF e
<1> QED
  BY <1>2, <1>3, <1>4, Becoming

\* assembleTools throws, or gives the run its tools.
LEMMA AssembledStep ==
  ASSUME RunInv, NEW r \in Callers, NEW src, Unassembled(r) \/ Assembled(r, src),
         UNCHANGED <<rows, policy>>, run[r].at \in {"assembling", "resolving"}
  PROVE  StepOf(r)
<1>1. IsRun(run[r]) /\ ~ run[r].gone /\ Holds(r)
  BY SetRun DEF RunInv, GoneWaits, Running, Holds, Busy
<1>2. CASE Unassembled(r)
  <2>1. Becomes(r, BackOut(r, "failed")) /\ inFlight' = inFlight - 1
    BY <1>2 DEF Unassembled
  <2> QED
    BY <1>1, <2>1, BackedOut, Becoming
<1>3. CASE Assembled(r, src) /\ ~ Unassembled(r)
  <2> DEFINE place == IF run[r].goal = "claim" THEN "claiming" ELSE "choosing"
             e == [run[r] EXCEPT !.at = place, !.src = src, !.via = 0, !.list = {}]
  <2>1. Becomes(r, e) /\ UNCHANGED inFlight
    BY <1>3 DEF Assembled
  <2>2. IsRun(e) /\ e.at = place /\ e.gone = run[r].gone
    BY <1>1 DEF IsRun, RunFields
  <2>3. e.at \in Busy /\ e.at \notin Running
    BY <2>2 DEF Busy, Running
  <2> HIDE DEF e
  <2> QED
    BY <1>1, <2>1, <2>2, <2>3, Becoming
<1> QED
  BY <1>2, <1>3

LEMMA ToolsStep ==
  ASSUME RunInv, NEW r \in Runs, AwaitServers(r) \/ ServersResolved(r)
  PROVE  StepOf(r) /\ UNCHANGED policy
<1> r \in Callers
  BY DEF Callers
<1>1. /\ UNCHANGED <<rows, policy>> /\ run[r].at \in {"assembling", "resolving"}
  BY DEF AwaitServers, ServersResolved, lifeVars
<1>2. CASE Unassembled(r) \/ \E src : Assembled(r, src)
  BY <1>1, <1>2, AssembledStep
<1>3. CASE ~ (Unassembled(r) \/ \E src : Assembled(r, src))
  <2> DEFINE e == [run[r] EXCEPT !.at = "resolving", !.via = cache',
                                 !.list = served[conns[FirstServer].tools]]
  <2>1. Becomes(r, e) /\ UNCHANGED inFlight /\ run[r].at = "assembling"
    BY <1>3 DEF AwaitServers, ServersResolved
  <2>2. IsRun(run[r]) /\ ~ run[r].gone /\ Holds(r)
    BY <2>1, SetRun DEF RunInv, GoneWaits, Running, Holds, Busy
  <2>3. IsRun(e) /\ e.at = "resolving" /\ e.gone = run[r].gone
    BY <2>2 DEF IsRun, RunFields
  <2>4. e.at \in Busy /\ e.at \notin Running
    BY <2>3 DEF Busy, Running
  <2> HIDE DEF e
  <2> QED
    BY <1>1, <2>1, <2>2, <2>3, <2>4, Becoming
<1> QED
  BY <1>2, <1>3

\* The record of a run whose tool starts.
LEMMA Starting ==
  ASSUME NEW x, IsRun(x), NEW entry, NEW n
  PROVE  LET e == Starts(x, entry)
             c == [Starts(x, entry) EXCEPT !.calls = n]
         IN /\ IsRun(e) /\ e.at \in {"taskNext", "tool"} /\ e.gone = x.gone
            /\ e.entry = entry /\ e.human = x.human
            /\ IsRun(c) /\ c.at \in {"taskNext", "tool"} /\ c.gone = x.gone
            /\ c.entry = entry /\ c.human = x.human
  BY DEF Starts, IsRun, RunFields

\* The model's choice: what it may call freely needs no approval, and a gated
\* call suspends the run.
LEMMA ChoosingStep ==
  ASSUME RunInv, NEW r \in Runs, CallTool(r) \/ Suspend(r) \/ Finish(r)
  PROVE  StepOf(r) /\ UNCHANGED policy
<1> r \in Callers
  BY DEF Callers
<1>1. UNCHANGED <<rows, policy>> /\ run[r].at = "choosing"
  BY DEF CallTool, Suspend, Finish
<1>2. IsRun(run[r]) /\ ~ run[r].gone /\ Holds(r)
  BY <1>1, SetRun DEF RunInv, GoneWaits, Running, Holds, Busy
<1>3. CASE CallTool(r)
  <2>1. PICK leaf \in Leaves(run[r].src, policy) \ Gated(run[r].src, policy) :
          Becomes(r, [Starts(run[r], Tool(r, leaf)) EXCEPT !.calls = run[r].calls + 1])
    BY <1>3 DEF CallTool
  <2> DEFINE e == [Starts(run[r], Tool(r, leaf)) EXCEPT !.calls = run[r].calls + 1]
  <2>2. /\ IsRun(e) /\ e.at \in {"taskNext", "tool"} /\ e.gone = run[r].gone
        /\ e.entry = Tool(r, leaf)
    BY <1>2, Starting
  <2>3. ~ NeedsApproval(Tool(r, leaf), policy)
    BY UngatedIsFree DEF Tool
  <2>4. UNCHANGED inFlight
    BY <1>3 DEF CallTool
  <2>5. Becomes(r, e)
    BY <2>1
  <2>6. e.at \in Busy
    BY <2>2 DEF Busy
  <2> HIDE DEF e
  <2> QED
    BY <1>1, <1>2, <2>2, <2>3, <2>4, <2>5, <2>6, Becoming
<1>4. CASE Suspend(r)
  <2>1. PICK leaf : Becomes(r, [NewRun EXCEPT !.at = "suspended", !.leaf = leaf,
                                              !.calls = run[r].calls + 1])
    BY <1>4 DEF Suspend
  <2> DEFINE e == [NewRun EXCEPT !.at = "suspended", !.leaf = leaf, !.calls = run[r].calls + 1]
  <2>2. IsRun(e) /\ e.at = "suspended" /\ e.gone = FALSE
    BY DEF NewRun, IsRun, RunFields
  <2>3. inFlight' = inFlight - 1 /\ e.at \notin Busy /\ e.at \notin Running
    BY <1>4, <2>2 DEF Suspend, Busy, Running
  <2>4. Becomes(r, e)
    BY <2>1
  <2> HIDE DEF e
  <2> QED
    BY <1>1, <1>2, <2>2, <2>3, <2>4, Becoming
<1>5. CASE Finish(r)
  BY <1>1, <1>5, Leaving DEF Finish, Busy
<1> QED
  BY <1>3, <1>4, <1>5

\* The answer: an approved tool runs, a rejected one does not.
LEMMA ClaimStep ==
  ASSUME RunInv, NEW r \in Runs, Claim(r)
  PROVE  StepOf(r) /\ UNCHANGED policy
<1> r \in Callers
  BY DEF Callers
<1>1. UNCHANGED <<rows, policy>> /\ run[r].at = "claiming"
  BY DEF Claim
<1>2. IsRun(run[r]) /\ ~ run[r].gone /\ Holds(r)
  BY <1>1, SetRun DEF RunInv, GoneWaits, Running, Holds, Busy
<1>3. CASE /\ run[r].human = "yes" /\ UNCHANGED inFlight
           /\ Becomes(r, Starts(run[r], Tool(r, run[r].leaf)))
  <2> DEFINE e == Starts(run[r], Tool(r, run[r].leaf))
  <2>1. /\ IsRun(e) /\ e.at \in {"taskNext", "tool"} /\ e.gone = run[r].gone
        /\ e.human = run[r].human
    BY <1>2, Starting
  <2>2. e.at \in Busy /\ Becomes(r, e)
    BY <1>3, <2>1 DEF Busy
  <2> HIDE DEF e
  <2> QED
    BY <1>1, <1>2, <1>3, <2>1, <2>2, Becoming
<1>4. CASE Leave(r, "failed")
  BY <1>1, <1>4, Leaving DEF Busy
<1>5. CASE /\ UNCHANGED inFlight
           /\ Becomes(r, [run[r] EXCEPT !.at = "assembling", !.goal = "go", !.human = "none",
                                        !.leaf = <<>>, !.src = NoSources])
  <2> DEFINE e == [run[r] EXCEPT !.at = "assembling", !.goal = "go", !.human = "none",
                                 !.leaf = <<>>, !.src = NoSources]
  <2>1. IsRun(e) /\ e.at = "assembling" /\ e.gone = run[r].gone
    BY <1>2 DEF IsRun, RunFields
  <2>2. e.at \in Busy /\ e.at \notin Running /\ Becomes(r, e)
    BY <1>5, <2>1 DEF Busy, Running
  <2> HIDE DEF e
  <2> QED
    BY <1>1, <1>2, <1>5, <2>1, <2>2, Becoming
<1> QED
  BY <1>3, <1>4, <1>5 DEF Claim

\* A tool or a task is over: what it returned to goes on, or the run ends.  The
\* rows are those of a run that holds no running one.
LEMMA ReturnsStep ==
  ASSUME RunInv, NEW r \in Callers, ToolReturns(r), run[r].at \in Running, UNCHANGED policy,
         rows' = [rows EXCEPT ![r] = rows'[r]],
         \A row \in rows'[r] : row \in rows[r] /\ row[2] # "running"
  PROVE  StepOf(r)
<1>1. IsRun(run[r])
  BY SetRun
<1>2. Holds(r) <=> ~ run[r].gone
  BY DEF Holds, Busy, Running
<1>3. RowsOf(r)'
  BY DEF RunInv, RowsOf
<1>4. ASSUME NEW e, Becomes(r, e), IsRun(e), ~ e.gone, e.at \notin Running,
             (Holds(r) <=> e.at \in Busy) => inFlight' = inFlight,
             Holds(r) /\ e.at \notin Busy => inFlight' = inFlight - 1,
             ~ Holds(r) => e.at \notin Busy
      PROVE  StepOf(r)
  <2>1. run'[r] = e
    BY <1>4 DEF Becomes, RunInv, Shapes
  <2> QED
    BY <1>3, <1>4, <2>1 DEF StepOf, Becomes, GoneWaits, Approved, Holds, RunInv, Shapes
<1>5. CASE run[r].gone \/ run[r].goal = "task"
  <2> DEFINE e == [NewRun EXCEPT !.at = "ended"]
  <2>1. IsRun(e) /\ e.at = "ended" /\ e.gone = FALSE
    BY NewIsRun
  <2>2. Becomes(r, e) /\ inFlight' = IF run[r].gone THEN inFlight ELSE inFlight - 1
    BY <1>5 DEF ToolReturns, Leave
  <2>3. e.at \notin Busy /\ e.at \notin Running
    BY <2>1 DEF Busy, Running
  <2> HIDE DEF e
  <2> QED
    BY <1>2, <1>4, <2>1, <2>2, <2>3
<1>6. CASE ~ (run[r].gone \/ run[r].goal = "task")
  <2> DEFINE src == IF run[r].goal = "claim" THEN NoSources ELSE run[r].src
             place == IF run[r].goal = "claim" THEN "assembling" ELSE "choosing"
             e == [run[r] EXCEPT !.entry = NoEntry, !.human = "none", !.leaf = <<>>,
                                 !.goal = "go", !.src = src, !.at = place]
  <2>1. Becomes(r, e) /\ UNCHANGED inFlight
    BY <1>6 DEF ToolReturns
  <2>2. IsRun(e) /\ e.at = place /\ e.gone = run[r].gone
    BY <1>1 DEF IsRun, RunFields
  <2>3. e.at \in Busy /\ e.at \notin Running
    BY <2>2 DEF Busy, Running
  <2> HIDE DEF e
  <2> QED
    BY <1>2, <1>4, <1>6, <2>1, <2>2, <2>3
<1> QED
  BY <1>5, <1>6

\* No row is running beside an attempt.
LEMMA NoneRunning ==
  ASSUME RunInv, NEW r \in Callers, run[r].at # "task"
  PROVE  \A row \in rows[r] : row[2] # "running"
  BY DEF RunInv, RowsOf

LEMMA ToolDoneStep ==
  ASSUME RunInv, NEW r \in Runs, ToolDone(r)
  PROVE  StepOf(r) /\ UNCHANGED policy
<1> r \in Callers
  BY DEF Callers
<1>1. ToolReturns(r) /\ UNCHANGED <<rows, policy>> /\ run[r].at = "tool"
  BY DEF ToolDone
<1>2. rows' = [rows EXCEPT ![r] = rows'[r]]
  BY <1>1 DEF RunInv, Shapes
<1> QED
  BY <1>1, <1>2, NoneRunning, ReturnsStep DEF Running

\* An attempt begins with a row of its own, or with none when the store refuses.
LEMMA BeginsStep ==
  ASSUME RunInv, NEW r \in Callers, TaskBegins(r)
  PROVE  StepOf(r) /\ UNCHANGED policy
<1>1. IsRun(run[r]) /\ Approved(r) /\ run[r].at = "taskNext" /\ UNCHANGED <<policy, inFlight>>
  BY SetRun DEF TaskBegins, RunInv
<1>2. PICK place \in {"task", "taskThrew"} :
        /\ Becomes(r, [run[r] EXCEPT !.at = place, !.attempts = run[r].attempts + 1])
        /\ \/ UNCHANGED rows
           \/ /\ place = "task"
              /\ rows' = [rows EXCEPT ![r] = @ \cup {<<run[r].attempts + 1, "running">>}]
  BY DEF TaskBegins
<1> DEFINE e == [run[r] EXCEPT !.at = place, !.attempts = run[r].attempts + 1]
<1>3. /\ IsRun(e) /\ e.at = place /\ e.gone = run[r].gone /\ e.entry = run[r].entry
      /\ e.human = run[r].human /\ e.attempts = run[r].attempts + 1
  BY <1>1 DEF IsRun, RunFields
<1>4. Becomes(r, e)
  BY <1>2
<1> HIDE DEF e
<1>5. run'[r] = e /\ Becomes(r, run'[r])
  BY <1>4 DEF Becomes, RunInv, Shapes
<1>6. rows' = [rows EXCEPT ![r] = rows'[r]] /\
      rows'[r] \subseteq rows[r] \cup {<<e.attempts, "running">>} /\
      (e.at # "task" => rows'[r] = rows[r])
  BY <1>2, <1>3 DEF RunInv, Shapes
<1>7. GoneWaits(r)' /\ Approved(r)'
  BY <1>1, <1>3, <1>5 DEF GoneWaits, Approved, Running
<1>8. RowsOf(r)'
  <2>1. \A row \in rows[r] : row = <<row[1], row[2]>> /\ row[2] # "running"
    BY <1>1, NoneRunning DEF RunInv, RowsOf
  <2>2. CASE e.at = "task"
    BY <1>5, <1>6, <2>1, <2>2 DEF RowsOf
  <2>3. CASE e.at # "task"
    BY <1>5, <1>6, <2>1, <2>3 DEF RowsOf
  <2> QED
    BY <2>2, <2>3
<1>9. Holds(r) <=> Holds(r)'
  BY <1>1, <1>3, <1>5 DEF Holds, Busy
<1> QED
  BY <1>1, <1>3, <1>5, <1>6, <1>7, <1>8, <1>9 DEF StepOf

\* What is left of a run's rows when its attempt is over.
LEMMA Settling ==
  ASSUME RunInv, NEW r \in Callers, run[r].at = "task",
         \/ FinishTaskRun(r)
         \/ rows' = [rows EXCEPT ![r] = (@ \ {OwnRow(r)}) \cup {<<run[r].attempts, "lost">>}]
  PROVE  /\ rows' = [rows EXCEPT ![r] = rows'[r]]
         /\ \A row \in rows'[r] : row = <<row[1], row[2]>> /\ row[2] # "running"
         /\ FinishTaskRun(r) => \A row \in rows'[r] : row \in rows[r]
<1>1. rows'[r] \subseteq (rows[r] \ {OwnRow(r)}) \cup {<<run[r].attempts, "lost">>}
  BY DEF RunInv, Shapes, FinishTaskRun
<1>2. \A row \in rows[r] \ {OwnRow(r)} : row = <<row[1], row[2]>> /\ row[2] # "running"
  BY DEF RunInv, RowsOf, OwnRow
<1>3. rows' = [rows EXCEPT ![r] = rows'[r]]
  BY DEF RunInv, Shapes, FinishTaskRun
<1>4. FinishTaskRun(r) => \A row \in rows'[r] : row \in rows[r]
  BY DEF RunInv, Shapes, FinishTaskRun
<1> QED
  BY <1>1, <1>2, <1>3, <1>4

LEMMA TaskStep ==
  ASSUME RunInv, NEW r \in Callers, TaskWorks(r)
  PROVE  StepOf(r) /\ UNCHANGED policy
<1>1. CASE TaskBegins(r)
  BY <1>1, BeginsStep
<1>2. CASE TaskAnswers(r)
  <2>1. run[r].at = "task" /\ FinishTaskRun(r) /\ ToolReturns(r) /\ UNCHANGED policy
    BY <1>2 DEF TaskAnswers
  <2> QED
    BY <2>1, Settling, ReturnsStep DEF Running
<1>3. CASE TaskThrows(r)
  <2> DEFINE e == [run[r] EXCEPT !.at = "taskThrew"]
  <2>1. /\ IsRun(e) /\ e.at = "taskThrew" /\ e.gone = run[r].gone /\ e.entry = run[r].entry
        /\ e.human = run[r].human
    BY SetRun
  <2>2. Becomes(r, e) /\ UNCHANGED <<policy, inFlight>> /\ run[r].at = "task" /\ Approved(r)
    BY <1>3 DEF TaskThrows, RunInv
  <2> HIDE DEF e
  <2>3. run'[r] = e /\ Becomes(r, run'[r])
    BY <2>2 DEF Becomes, RunInv, Shapes
  <2>4. /\ rows' = [rows EXCEPT ![r] = rows'[r]]
        /\ \A row \in rows'[r] : row = <<row[1], row[2]>> /\ row[2] # "running"
    BY <1>3, <2>2, Settling DEF TaskThrows
  <2>5. GoneWaits(r)' /\ Approved(r)' /\ RowsOf(r)'
    BY <2>1, <2>2, <2>3, <2>4 DEF GoneWaits, Approved, RowsOf, Running
  <2>6. Holds(r) <=> Holds(r)'
    BY <2>1, <2>2, <2>3 DEF Holds, Busy
  <2> QED
    BY <2>1, <2>2, <2>3, <2>4, <2>5, <2>6 DEF StepOf
<1>4. CASE TaskOnError(r)
  <2>1. run[r].at = "taskThrew" /\ UNCHANGED <<policy, rows>> /\ GoneWaits(r) /\ Approved(r)
    BY <1>4 DEF TaskOnError, RunInv
  <2>2. CASE ToolReturns(r)
    <3>1. rows' = [rows EXCEPT ![r] = rows'[r]]
      BY <2>1 DEF RunInv, Shapes
    <3> QED
      BY <2>1, <2>2, <3>1, NoneRunning, ReturnsStep DEF Running
  <2>3. CASE Becomes(r, [run[r] EXCEPT !.at = "taskNext"]) /\ UNCHANGED inFlight
    <3> DEFINE e == [run[r] EXCEPT !.at = "taskNext"]
    <3>1. /\ IsRun(e) /\ e.at = "taskNext" /\ e.gone = run[r].gone /\ e.entry = run[r].entry
          /\ e.human = run[r].human
      BY SetRun
    <3>2. /\ (Holds(r) <=> e.at \in Busy /\ ~ e.gone)
          /\ e.at \in Running \cup {"ended"} /\ run[r].at \in Running
      BY <2>1, <3>1 DEF Holds, Busy, Running
    <3>3. Becomes(r, e)
      BY <2>3
    <3> HIDE DEF e
    <3> QED
      BY <2>1, <2>3, <3>1, <3>2, <3>3, Becoming DEF Approved
  <2> QED
    BY <1>4, <2>2, <2>3 DEF TaskOnError
<1> QED
  BY <1>1, <1>2, <1>3, <1>4 DEF TaskWorks

---------------------------------------------------------------------------
(* The theorems.                                                           *)

LEMMA RunInitially == Init => RunInv
<1> SUFFICES ASSUME Init PROVE RunInv
  OBVIOUS
<1>1. run = [r \in Callers |-> NewRun] /\ rows = [r \in Callers |-> {}] /\ inFlight = 0
  BY DEF Init
<1>2. IsRun(NewRun) /\ NewRun.gone = FALSE /\ NewRun.at = "new"
  BY DEF IsRun, RunFields, NewRun
<1>3. Shapes
  BY <1>1, <1>2 DEF Shapes
<1>4. {r \in Callers : Holds(r)} = {}
  BY <1>1, <1>2 DEF Holds, Busy
<1>5. SlotsHeld
  <2>1. Cardinality({r \in Callers : Holds(r)}) = 0
    BY <1>4, FS_EmptySet
  <2>2. Max \in Nat
    BY ToolsetAssumption
  <2> QED
    BY <1>1, <2>1, <2>2 DEF SlotsHeld
<1>6. ASSUME NEW r \in Callers PROVE GoneWaits(r) /\ Approved(r) /\ RowsOf(r)
  BY <1>1, <1>2 DEF GoneWaits, Approved, RowsOf, Running
<1> QED
  BY <1>3, <1>5, <1>6 DEF RunInv

LEMMA RunSteps == RunInv /\ [Next]_vars => RunInv'
<1> SUFFICES ASSUME RunInv, [Next]_vars PROVE RunInv'
  OBVIOUS
<1>1. CASE UNCHANGED <<inFlight, policy, run, rows>>
  <2>1. SlotsHeld'
    BY <1>1 DEF RunInv, SlotsHeld, Holds
  <2> QED
    BY <1>1, <2>1 DEF RunInv, Shapes, GoneWaits, Approved, RowsOf
<1>2. CASE Life
  BY <1>1, <1>2 DEF Life, Start, FabricReady, PluginsPushed, PluginReady, StartThrows, Stop,
    PluginsClosed, StoreClosed, Stopped
<1>3. ASSUME NEW r \in Runs, Calls(r) \/ Works(r) PROVE RunInv'
  <2>1. StepOf(r) /\ UNCHANGED policy
    BY <1>3, CallsStep, ToolsStep, ChoosingStep, ClaimStep, ToolDoneStep, TaskStep
    DEF Works, Callers
  <2> QED
    BY <2>1, StepKeeps DEF Callers
<1>4. ASSUME NEW r \in Standalone, RunTask(r) \/ TaskWorks(r) PROVE RunInv'
  <2>1. StepOf(r) /\ UNCHANGED policy
    BY <1>4, RunTaskStep, TaskStep DEF Callers
  <2> QED
    BY <2>1, StepKeeps DEF Callers
<1> QED
  BY <1>1, <1>2, <1>3, <1>4 DEF Next, vars

LEMMA RunInvariant == Spec => []RunInv
  BY RunInitially, RunSteps, PTL DEF Spec

\* SlotsAlways: however runs and tasks end, are refused, suspended or abandoned,
\* the counter is the number of those under way and within the cap.
\* (bread.ts:239-260, 300-311.)
THEOREM SlotsAlways == Spec => []SlotsHeld
<1>1. RunInv => SlotsHeld
  BY DEF RunInv
<1> QED
  BY <1>1, RunInvariant, PTL

\* GateAlways: for any tools and permissions, a tool that needs approval runs
\* only for a run whose checkpoint was approved. (permissions.ts;
\* runner-tool-assembly.ts:180-190, runner-resume.ts:250-262.)
THEOREM GateAlways == Spec => []GateHolds
<1>1. RunInv => GateHolds
  BY DEF RunInv, Approved, Running, GateHolds, Callers
<1> QED
  BY <1>1, RunInvariant, PTL

\* RowsAlways: a task's audit row is "running" only while that attempt is.
\* (task.ts:88-158.)
THEOREM RowsAlways == Spec => []RowsSettle
<1>1. RunInv => RowsSettle
  BY DEF RunInv, RowsOf, RowsSettle
<1> QED
  BY <1>1, RunInvariant, PTL

---------------------------------------------------------------------------
(* The MCP connections: one at rest holds its server's present list.  The  *)
(* invariant says of every connection, at rest or not, that nothing is     *)
(* excused, or its list is the present one, or a refresh that will bring   *)
(* the present one is under way.                                           *)

USE DEF Latest

ConnStage == {"connecting", "asking", "listed", "listening", "open", "failed"}
Conn == [for : {"server", "external"}, stage : ConnStage, tools : Nat, told : BOOLEAN,
         excuse : {"", "missed", "failed", "overtaken"}, closed : BOOLEAN]
Refresh == [conn : Nat, change : Nat, at : Nat]

\* What the lists, connections and refreshes are.
McpTypes ==
  /\ served \in Seq(SUBSET Originals) /\ Len(served) \in Nat \ {0}
  /\ conns \in Seq(Conn)
  /\ refreshes \subseteq Refresh

\* Every position in the history of lists is one, and a connection that could
\* be told, or is up, has taken a list.
Positions ==
  /\ \A c \in DOMAIN conns :
       /\ conns[c].tools <= Latest
       /\ conns[c].stage \in {"listed", "listening", "open"} \/ conns[c].told
            => conns[c].tools # 0
  /\ \A f \in refreshes :
       /\ f.conn \in DOMAIN conns /\ conns[f.conn].tools # 0
       /\ f.at <= Latest

\* A list nothing excuses is the present one, or a refresh that will bring the
\* present one is under way.
Fresh(c) ==
  conns[c].tools # 0 /\ ~ conns[c].closed /\ conns[c].excuse = ""
    => \/ conns[c].tools = Latest
       \/ \E f \in refreshes : f.conn = c /\ (f.at = 0 \/ f.at = Latest)

McpInv == McpTypes /\ Positions /\ (\A c \in DOMAIN conns : Fresh(c))

\* What a step of the instance may do to the connections.
McpActs ==
  \/ UNCHANGED <<served, conns, refreshes>>
  \/ \E for \in {"server", "external"} : BeginConnect(for)
  \/ \E C \in SUBSET DOMAIN conns : CloseConns(C) /\ UNCHANGED served
  \/ McpStep

---------------------------------------------------------------------------
\* Replacing one element, or every one, leaves a sequence a sequence.
LEMMA SetAt ==
  ASSUME NEW S, NEW s \in Seq(S), NEW i \in DOMAIN s, NEW e \in S
  PROVE  /\ [s EXCEPT ![i] = e] \in Seq(S)
         /\ DOMAIN [s EXCEPT ![i] = e] = DOMAIN s
  BY ExceptSeq

LEMMA MapSeq ==
  ASSUME NEW S, NEW s \in Seq(S), NEW t, t = [i \in DOMAIN s |-> t[i]],
         \A i \in DOMAIN s : t[i] \in S
  PROVE  t \in Seq(S) /\ DOMAIN t = DOMAIN s
<1>1. Len(s) \in Nat /\ DOMAIN s = 1..Len(s)
  OBVIOUS
<1>2. t \in [1..Len(s) -> S]
  BY <1>1
<1> QED
  BY <1>1, <1>2, SeqDef

\* A list of the history stays where it is as lists are added.
LEMMA Appended ==
  ASSUME NEW S, NEW s \in Seq(S), NEW e \in S
  PROVE  /\ Append(s, e) \in Seq(S) /\ Len(Append(s, e)) = Len(s) + 1
         /\ DOMAIN Append(s, e) = DOMAIN s \cup {Len(s) + 1}
         /\ \A i \in DOMAIN s : Append(s, e)[i] = s[i]
         /\ Append(s, e)[Len(s) + 1] = e
<1>1. Len(s) \in Nat /\ DOMAIN s = 1..Len(s)
  OBVIOUS
<1> QED
  BY <1>1, AppendProperties

LEMMA Elements ==
  ASSUME NEW S, NEW s \in Seq(S), NEW i \in DOMAIN s
  PROVE  s[i] \in S /\ i \in Nat
  BY ElementOfSeq

---------------------------------------------------------------------------
(* The connections.                                                        *)

LEMMA ConnsTyped == McpTypes => \A c \in DOMAIN conns : conns[c] \in Conn /\ c \in Nat
  BY Elements DEF McpTypes

\* Every step of the instance is one of those four for its connections.
LEMMA ActsOnConnections == Next => McpActs
<1> SUFFICES ASSUME Next PROVE McpActs
  OBVIOUS
<1> USE DEF McpActs, mcpVars
<1>1. ASSUME Life PROVE McpActs
  <2>1. CASE PluginsPushed
    BY <2>1 DEF PluginsPushed
  <2>2. CASE PluginsClosed
    <3> DEFINE C == {c \in DOMAIN conns :
                       conns[c].stage = "open" /\ (conns[c].for = "server" \/ c = cache)}
    <3>1. CloseConns(C) /\ UNCHANGED served
      BY <2>2 DEF PluginsClosed
    <3>2. C \in SUBSET DOMAIN conns
      OBVIOUS
    <3> QED
      BY <3>1, <3>2
  <2>3. CASE Start \/ FabricReady \/ PluginReady \/ StartThrows \/ Stop \/ StoreClosed \/ Stopped
    BY <2>3 DEF Start, FabricReady, PluginReady, StartThrows, Stop, StoreClosed, Stopped
  <2> QED
    BY <1>1, <2>1, <2>2, <2>3 DEF Life
<1>2. ASSUME NEW r \in Callers, AwaitServers(r) PROVE McpActs
  BY <1>2 DEF AwaitServers
<1>3. ASSUME NEW r \in Callers, TaskWorks(r) PROVE McpActs
  BY <1>3 DEF TaskWorks, TaskBegins, TaskAnswers, TaskThrows, TaskOnError
<1>4. ASSUME NEW r \in Runs, Calls(r) PROVE McpActs
  BY <1>4 DEF Calls, Run, RunPipeline, Iterate, RunSync, Abandon, Resume
<1>5. ASSUME NEW r \in Runs, Works(r) PROVE McpActs
  BY <1>2, <1>3, <1>5 DEF Works, ServersResolved, CallTool, Suspend, Finish, Claim, ToolDone,
    Callers
<1>6. ASSUME NEW r \in Standalone, RunTask(r) PROVE McpActs
  BY <1>6 DEF RunTask
<1> QED
  BY <1>1, <1>3, <1>4, <1>5, <1>6 DEF Next, Callers

LEMMA McpInitially == Init => McpInv
<1> SUFFICES ASSUME Init PROVE McpInv
  OBVIOUS
<1>1. PICK list \in Lists : served = <<list>>
  BY DEF Init, McpInit
<1>2. served \in Seq(SUBSET Originals) /\ Len(served) = 1
  BY <1>1, McpAssumption
<1>3. conns = <<>> /\ refreshes = {}
  BY DEF Init, McpInit
<1> QED
  BY <1>2, <1>3 DEF McpInv, McpTypes, Positions

\* One connection changes its record and the refreshes stay.
LEMMA OneConnection ==
  ASSUME McpInv, NEW c \in DOMAIN conns, NEW e \in Conn,
         conns' = [conns EXCEPT ![c] = e], UNCHANGED <<served, refreshes>>,
         e.tools <= Latest,
         e.stage \in {"listed", "listening", "open"} \/ e.told => e.tools # 0,
         conns[c].tools # 0 => e.tools # 0,
         e.tools \in {conns[c].tools, Latest},
         e.closed = FALSE => conns[c].closed = FALSE,
         e.excuse = conns[c].excuse \/ e.excuse # ""
  PROVE  McpInv'
<1> USE DEF McpInv, McpTypes, Positions
<1>1. conns' \in Seq(Conn) /\ DOMAIN conns' = DOMAIN conns
  BY SetAt
<1>2. conns'[c] = e /\ \A d \in DOMAIN conns : d # c => conns'[d] = conns[d]
  OBVIOUS
<1>3. \A d \in DOMAIN conns : conns[d] \in Conn
  BY ConnsTyped
<1>4. McpTypes'
  BY <1>1
<1>5. Positions'
  <2>1. ASSUME NEW d \in DOMAIN conns
        PROVE  /\ conns'[d].tools <= Latest
               /\ conns'[d].stage \in {"listed", "listening", "open"} \/ conns'[d].told
                    => conns'[d].tools # 0
    <3>1. CASE d = c
      BY <1>2, <3>1
    <3>2. CASE d # c
      BY <1>2, <3>2
    <3> QED
      BY <3>1, <3>2
  <2>2. ASSUME NEW f \in refreshes
        PROVE  f.conn \in DOMAIN conns /\ conns'[f.conn].tools # 0 /\ f.at <= Latest
    <3>1. CASE f.conn = c
      BY <1>2, <3>1
    <3>2. CASE f.conn # c
      BY <1>2, <3>2
    <3> QED
      BY <3>1, <3>2
  <2>3. Latest' = Latest /\ refreshes' = refreshes
    BY DEF Latest
  <2> HIDE DEF McpInv, McpTypes, Latest
  <2> QED
    BY <1>1, <2>1, <2>2, <2>3
<1>6. \A d \in DOMAIN conns : Fresh(d)'
  <2> TAKE d \in DOMAIN conns
  <2>1. Fresh(d)
    OBVIOUS
  <2>2. CASE d # c
    BY <1>2, <2>1, <2>2 DEF Fresh
  <2>3. CASE d = c
    BY <1>2, <1>3, <2>1, <2>3 DEF Fresh, Conn
  <2> QED
    BY <2>2, <2>3
<1> QED
  BY <1>1, <1>4, <1>5, <1>6

\* Closing connections drops what they await.
LEMMA Closing ==
  ASSUME McpInv, NEW C \in SUBSET DOMAIN conns, CloseConns(C), UNCHANGED served
  PROVE  McpInv'
<1>1. \A c \in DOMAIN conns : conns[c] \in Conn
  BY ConnsTyped DEF McpInv
<1>2. /\ conns' = [c \in DOMAIN conns |-> conns'[c]]
      /\ refreshes' = {f \in refreshes : f.conn \notin C}
  BY DEF CloseConns
<1>3. ASSUME NEW c \in DOMAIN conns
      PROVE  /\ conns'[c] \in Conn
             /\ conns'[c].tools = conns[c].tools /\ conns'[c].stage = conns[c].stage
             /\ conns'[c].told => conns[c].told
             /\ c \in C => conns'[c].closed
             /\ c \notin C => conns'[c] = conns[c]
  <2>1. conns'[c] = IF c \in C THEN [conns[c] EXCEPT !.closed = TRUE, !.told = FALSE, !.excuse = ""]
                               ELSE conns[c]
    BY DEF CloseConns
  <2> QED
    BY <1>1, <2>1 DEF Conn
<1>4. conns \in Seq(Conn)
  BY DEF McpInv, McpTypes
<1>5. conns' \in Seq(Conn) /\ DOMAIN conns' = DOMAIN conns
  BY <1>2, <1>3, <1>4, MapSeq
<1>6. McpTypes'
  BY <1>2, <1>5 DEF McpInv, McpTypes
<1>7. Positions'
  BY <1>2, <1>3, <1>5 DEF McpInv, Positions
<1>8. \A c \in DOMAIN conns : Fresh(c)'
  BY <1>2, <1>3 DEF McpInv, Fresh
<1> QED
  BY <1>5, <1>6, <1>7, <1>8 DEF McpInv

LEMMA Beginning ==
  ASSUME McpInv, NEW for \in {"server", "external"}, BeginConnect(for)
  PROVE  McpInv'
<1>1. /\ Connection(for) \in Conn
      /\ Connection(for).tools = 0 /\ ~ Connection(for).told
      /\ Connection(for).stage = "connecting"
  BY DEF Connection, Conn, ConnStage
<1>2. /\ conns' \in Seq(Conn) /\ DOMAIN conns' = DOMAIN conns \cup {Len(conns) + 1}
      /\ \A c \in DOMAIN conns : conns'[c] = conns[c]
      /\ conns'[Len(conns) + 1] = Connection(for)
  BY <1>1, Appended DEF BeginConnect, McpInv, McpTypes
<1>3. UNCHANGED <<served, refreshes>>
  BY DEF BeginConnect
<1>4. Len(conns) + 1 \notin DOMAIN conns /\ Len(served) \in Nat
  BY DEF McpInv, McpTypes
<1>5. Positions'
  <2>1. conns'[Len(conns) + 1].tools = 0 /\ ~ conns'[Len(conns) + 1].told
          /\ conns'[Len(conns) + 1].stage = "connecting"
    BY <1>1, <1>2
  <2> QED
    BY <1>2, <1>3, <1>4, <2>1 DEF McpInv, Positions
<1>6. ASSUME NEW c \in DOMAIN conns' PROVE Fresh(c)'
  <2>1. CASE c = Len(conns) + 1
    <3>1. conns'[c].tools = 0
      BY <1>1, <1>2, <2>1
    <3> QED
      BY <3>1 DEF Fresh
  <2>2. CASE c \in DOMAIN conns
    BY <1>2, <1>3, <2>2 DEF McpInv, Fresh
  <2> QED
    BY <1>2, <2>1, <2>2
<1> QED
  BY <1>2, <1>3, <1>5, <1>6 DEF McpInv, McpTypes

\* The server changes its list: whoever is told asks for it, and the others are
\* excused.
LEMMA Changing == ASSUME McpInv, ServerChanges PROVE McpInv'
<1>1. PICK list \in Lists : served' = Append(served, list)
  BY DEF ServerChanges
<1>2. served' \in Seq(SUBSET Originals) /\ Len(served') = Len(served) + 1
  BY <1>1, Appended, McpAssumption DEF McpInv, McpTypes
<1> DEFINE Asked == {[conn |-> c, change |-> Latest + 1, at |-> 0] :
                       c \in {d \in DOMAIN conns : conns[d].told}}
<1>3. refreshes' = refreshes \cup Asked
  BY DEF ServerChanges
<1>4. \A c \in DOMAIN conns : c \in Nat /\ conns[c] \in Conn
  BY ConnsTyped DEF McpInv
<1>5. conns' = [c \in DOMAIN conns |-> conns'[c]]
  BY DEF ServerChanges
<1>6. \A c \in DOMAIN conns :
        /\ conns'[c] \in Conn
        /\ conns'[c].tools = conns[c].tools /\ conns'[c].stage = conns[c].stage
        /\ conns'[c].told = conns[c].told /\ conns'[c].closed = conns[c].closed
        /\ conns[c].tools # 0 /\ ~ conns[c].told /\ ~ conns[c].closed
             => conns'[c].excuse = "missed"
  BY <1>4 DEF ServerChanges, Conn
<1>7. conns' \in Seq(Conn) /\ DOMAIN conns' = DOMAIN conns
  BY <1>5, <1>6, MapSeq DEF McpInv, McpTypes
<1>8. refreshes' \subseteq Refresh
  BY <1>3, <1>4 DEF Refresh, McpInv, McpTypes
<1>9. Positions'
  <2>1. Len(served) \in Nat
    BY DEF McpInv, McpTypes
  <2>2. ASSUME NEW c \in DOMAIN conns'
        PROVE  /\ conns'[c].tools <= Latest'
               /\ conns'[c].stage \in {"listed", "listening", "open"} \/ conns'[c].told
                    => conns'[c].tools # 0
    <3>1. conns[c].tools \in Nat /\ conns[c].tools <= Len(served)
      BY <1>4, <1>7 DEF McpInv, Positions, Conn
    <3> QED
      BY <1>2, <1>6, <1>7, <2>1, <3>1 DEF McpInv, Positions
  <2>3. ASSUME NEW f \in refreshes'
        PROVE  f.conn \in DOMAIN conns' /\ conns'[f.conn].tools # 0 /\ f.at <= Latest'
    <3>1. CASE f \in refreshes
      <4>1. f.at \in Nat /\ f.at <= Len(served)
        BY <3>1 DEF McpInv, McpTypes, Positions, Refresh
      <4> QED
        BY <1>2, <1>6, <1>7, <2>1, <3>1, <4>1 DEF McpInv, Positions
    <3>2. CASE f \in Asked
      BY <1>2, <1>6, <1>7, <2>1, <3>2 DEF McpInv, Positions
    <3> QED
      BY <1>3, <3>1, <3>2
  <2> QED
    BY <2>2, <2>3 DEF Positions
<1>10. \A c \in DOMAIN conns : Fresh(c)'
  <2> TAKE c \in DOMAIN conns
  <2>1. CASE conns[c].told
    <3>1. [conn |-> c, change |-> Latest + 1, at |-> 0] \in refreshes'
      BY <1>3, <2>1
    <3> QED
      BY <3>1 DEF Fresh
  <2>2. CASE ~ conns[c].told
    BY <1>4, <1>6, <2>2 DEF Fresh, Conn
  <2> QED
    BY <2>1, <2>2
<1> QED
  BY <1>2, <1>7, <1>8, <1>9, <1>10 DEF McpInv, McpTypes

\* A refresh is answered with the present list; it arrives, or fails.
LEMMA Refreshing ==
  ASSUME McpInv, NEW f \in refreshes,
         RefreshAnswered(f) \/ RefreshArrives(f) \/ RefreshFails(f)
  PROVE  McpInv'
<1>1. f \in Refresh /\ f.conn \in DOMAIN conns
  BY DEF McpInv, McpTypes, Positions
<1>2. \A c \in DOMAIN conns : conns[c] \in Conn
  BY ConnsTyped DEF McpInv
<1>3. CASE RefreshAnswered(f)
  <2> DEFINE g == [f EXCEPT !.at = Latest]
  <2>1. g \in Refresh /\ g.conn = f.conn /\ g.at = Latest
    BY <1>1 DEF Refresh
  <2>2. refreshes' = (refreshes \ {f}) \cup {g} /\ UNCHANGED <<served, conns>>
    BY <1>3 DEF RefreshAnswered
  <2>3. McpTypes' /\ Positions'
    BY <1>1, <2>1, <2>2 DEF Refresh, McpInv, McpTypes, Positions
  <2>4. ASSUME NEW c \in DOMAIN conns PROVE Fresh(c)'
    <3>1. CASE c = f.conn
      BY <2>1, <2>2, <3>1 DEF Fresh
    <3>2. CASE c # f.conn
      BY <2>2, <3>2 DEF McpInv, Fresh
    <3> QED
      BY <3>1, <3>2
  <2> QED
    BY <2>2, <2>3, <2>4 DEF McpInv
<1>4. CASE RefreshArrives(f) \/ RefreshFails(f)
  <2>1. refreshes' = refreshes \ {f} /\ UNCHANGED served
    BY <1>4 DEF RefreshArrives, RefreshFails
  <2>2. PICK e \in Conn :
          /\ conns' = [conns EXCEPT ![f.conn] = e]
          /\ e.stage = conns[f.conn].stage /\ e.told = conns[f.conn].told
          /\ e.closed = conns[f.conn].closed
          /\ \/ e.excuse = "failed" /\ e.tools = conns[f.conn].tools
             \/ /\ f.at # 0 /\ e.tools = f.at
                /\ e.excuse = IF f.at < conns[f.conn].tools THEN "overtaken"
                              ELSE IF f.at = Latest THEN "" ELSE conns[f.conn].excuse
    <3>1. CASE RefreshFails(f)
      <4> DEFINE e == [conns[f.conn] EXCEPT !.excuse = "failed"]
      <4>1. e \in Conn /\ conns' = [conns EXCEPT ![f.conn] = e]
        BY <1>1, <1>2, <3>1 DEF RefreshFails, Conn
      <4> QED
        BY <1>1, <1>2, <4>1 DEF Conn
    <3>2. CASE RefreshArrives(f) /\ Clash(served[f.at])
      <4> DEFINE e == [conns[f.conn] EXCEPT !.excuse = "failed"]
      <4>1. e \in Conn /\ conns' = [conns EXCEPT ![f.conn] = e]
        BY <1>1, <1>2, <3>2 DEF RefreshArrives, Conn
      <4> QED
        BY <1>1, <1>2, <4>1 DEF Conn
    <3>3. CASE RefreshArrives(f) /\ ~ Clash(served[f.at])
      <4> DEFINE x == IF f.at < conns[f.conn].tools THEN "overtaken"
                      ELSE IF f.at = Latest THEN "" ELSE conns[f.conn].excuse
      <4> DEFINE e == [conns[f.conn] EXCEPT !.tools = f.at, !.excuse = x]
      <4>1. x \in {"", "missed", "failed", "overtaken"} /\ f.at \in Nat
        BY <1>1, <1>2 DEF Conn, Refresh
      <4> HIDE DEF x
      <4>2. e \in Conn /\ e.tools = f.at /\ e.excuse = x /\ e.stage = conns[f.conn].stage
              /\ e.told = conns[f.conn].told /\ e.closed = conns[f.conn].closed
        BY <1>1, <1>2, <4>1 DEF Conn
      <4>3. conns' = [conns EXCEPT ![f.conn] = e] /\ f.at # 0
        BY <3>3 DEF RefreshArrives, x
      <4> HIDE DEF e
      <4> QED
        BY <4>2, <4>3 DEF x
    <3> QED
      BY <1>4, <3>1, <3>2, <3>3
  <2>3. conns' \in Seq(Conn) /\ DOMAIN conns' = DOMAIN conns
    BY <1>1, <2>2, SetAt DEF McpInv, McpTypes
  <2>4. conns'[f.conn] = e /\ \A d \in DOMAIN conns : d # f.conn => conns'[d] = conns[d]
    BY <1>1, <2>2
  <2>5. McpTypes'
    BY <2>1, <2>3 DEF McpInv, McpTypes
  <2>6. Positions'
    <3>1. e.tools \in {f.at, conns[f.conn].tools} /\ e.tools # 0
      BY <1>1, <2>2 DEF McpInv, Positions
    <3>2. \A d \in DOMAIN conns : /\ conns'[d].stage = conns[d].stage
                                  /\ conns'[d].told = conns[d].told
                                  /\ conns'[d].tools <= Latest
                                  /\ conns[d].tools # 0 => conns'[d].tools # 0
      BY <1>1, <2>2, <2>4, <3>1 DEF McpInv, Positions
    <3> QED
      BY <2>1, <2>3, <3>2 DEF McpInv, Positions
  <2>7. ASSUME NEW c \in DOMAIN conns PROVE Fresh(c)'
    <3>1. CASE c # f.conn
      BY <2>1, <2>4, <3>1 DEF McpInv, Fresh
    <3>2. CASE c = f.conn
      <4>1. /\ Fresh(f.conn) /\ conns[f.conn].tools \in Nat /\ f.at \in Nat
            /\ conns[f.conn].tools <= Latest /\ f.at <= Latest /\ Latest \in Nat
            /\ conns[f.conn].tools # 0
        BY <1>1, <1>2 DEF Refresh, Conn, McpInv, McpTypes, Positions
      <4>2. CASE e.excuse # ""
        BY <2>4, <3>2, <4>2 DEF Fresh
      <4>3. CASE e.excuse = "" /\ e.tools = Latest
        BY <2>1, <2>4, <3>2, <4>3 DEF Fresh
      <4>4. CASE e.excuse = "" /\ e.tools # Latest
        <5>1. /\ e.tools = f.at /\ f.at # 0 /\ f.at # Latest
              /\ conns[f.conn].excuse = "" /\ ~ (f.at < conns[f.conn].tools)
          BY <2>2, <4>4
        <5>2. conns[f.conn].tools # Latest
          <6>1. \A a, b, n \in Nat : a <= n /\ a # n /\ ~ (a < b) => b # n
            OBVIOUS
          <6> QED
            BY <4>1, <5>1, <6>1
        <5>3. ~ conns[f.conn].closed =>
                \E g \in refreshes \ {f} : g.conn = f.conn /\ (g.at = 0 \/ g.at = Latest)
          BY <1>1, <4>1, <5>1, <5>2 DEF Fresh
        <5>4. e.closed = conns[f.conn].closed
          BY <2>2
        <5> QED
          BY <2>1, <2>4, <3>2, <5>3, <5>4 DEF Fresh
      <4> QED
        BY <4>2, <4>3, <4>4
    <3> QED
      BY <3>1, <3>2
  <2> QED
    BY <2>3, <2>5, <2>6, <2>7 DEF McpInv
<1> QED
  BY <1>3, <1>4

\* One connection takes a step of finishConnect.
LEMMA Connecting ==
  ASSUME McpInv, NEW c \in DOMAIN conns,
         ConnectRefused(c) \/ Connected(c) \/ ListAnswered(c) \/ HandlerInstalled(c)
           \/ ListenEnds(c)
  PROVE  McpInv'
<1>1. conns[c] \in Conn /\ served \in Seq(SUBSET Originals) /\ Len(served) \in Nat \ {0}
  BY ConnsTyped DEF McpInv, McpTypes
<1>2. /\ conns[c].tools <= Latest
      /\ conns[c].stage \in {"listed", "listening", "open"} \/ conns[c].told
           => conns[c].tools # 0
  BY DEF McpInv, Positions
<1>3. CASE ConnectRefused(c)
  <2> DEFINE e == [conns[c] EXCEPT !.stage = "failed", !.closed = TRUE]
  <2>1. e \in Conn /\ conns' = [conns EXCEPT ![c] = e] /\ UNCHANGED <<served, refreshes>>
    BY <1>1, <1>3 DEF ConnectRefused, Conn, ConnStage
  <2> QED
    BY <1>1, <1>2, <2>1, OneConnection DEF Conn
<1>4. CASE Connected(c)
  <2> DEFINE e == [conns[c] EXCEPT !.stage = "asking"]
  <2>1. e \in Conn /\ conns' = [conns EXCEPT ![c] = e] /\ UNCHANGED <<served, refreshes>>
    BY <1>1, <1>4 DEF Connected, Conn, ConnStage
  <2> QED
    BY <1>1, <1>2, <2>1, OneConnection DEF Conn
<1>5. CASE ListAnswered(c)
  <2> DEFINE e == [conns[c] EXCEPT !.stage = "listed", !.tools = Latest]
  <2>1. e \in Conn /\ conns' = [conns EXCEPT ![c] = e] /\ UNCHANGED <<served, refreshes>>
    BY <1>1, <1>5 DEF ListAnswered, Conn, ConnStage
  <2>2. Latest \in Nat /\ Latest # 0 /\ Latest <= Latest
    BY <1>1
  <2>3. e.tools = Latest /\ e.told = conns[c].told /\ e.closed = conns[c].closed
          /\ e.excuse = conns[c].excuse
    BY <1>1, <2>2 DEF Conn
  <2> HIDE DEF e
  <2> QED
    BY <2>1, <2>2, <2>3, OneConnection
<1>6. CASE HandlerInstalled(c)
  <2>1. PICK st \in {"failed", "listening", "open"}, told \in BOOLEAN :
          conns' = [conns EXCEPT ![c] = [conns[c] EXCEPT !.stage = st, !.told = told]]
    <3>1. CASE Clash(served[conns[c].tools])
      <4>1. conns' = [conns EXCEPT ![c] = [conns[c] EXCEPT !.stage = "failed"]]
        BY <1>6, <3>1 DEF HandlerInstalled
      <4>2. [conns[c] EXCEPT !.stage = "failed"]
              = [conns[c] EXCEPT !.stage = "failed", !.told = conns[c].told]
        BY <1>1 DEF Conn
      <4> QED
        BY <1>1, <4>1, <4>2 DEF Conn
    <3>2. CASE ~ Clash(served[conns[c].tools])
      <4>1. PICK era \in Eras : conns' = [conns EXCEPT ![c].told = era = "legacy",
                             ![c].stage = IF era = "modern" THEN "listening" ELSE "open"]
        BY <1>6, <3>2 DEF HandlerInstalled
      <4> DEFINE st == IF era = "modern" THEN "listening" ELSE "open"
      <4>2. [[conns EXCEPT ![c].told = era = "legacy"] EXCEPT ![c].stage = st]
              = [conns EXCEPT ![c] = [conns[c] EXCEPT !.stage = st, !.told = era = "legacy"]]
        BY <1>1 DEF Conn
      <4> QED
        BY <4>1, <4>2
    <3> QED
      BY <3>1, <3>2
  <2> DEFINE e == [conns[c] EXCEPT !.stage = st, !.told = told]
  <2>2. e \in Conn /\ conns' = [conns EXCEPT ![c] = e] /\ UNCHANGED <<served, refreshes>>
    BY <1>1, <1>6, <2>1 DEF HandlerInstalled, Conn, ConnStage
  <2>3. conns[c].tools # 0
    BY <1>2, <1>6 DEF HandlerInstalled
  <2> QED
    BY <1>1, <1>2, <2>2, <2>3, OneConnection DEF Conn
<1>7. CASE ListenEnds(c)
  <2>1. PICK told \in BOOLEAN :
          conns' = [conns EXCEPT ![c] = [@ EXCEPT !.stage = "open", !.told = told]]
    BY <1>1, <1>7 DEF ListenEnds, Conn
  <2> DEFINE e == [conns[c] EXCEPT !.stage = "open", !.told = told]
  <2>2. e \in Conn /\ conns' = [conns EXCEPT ![c] = e] /\ UNCHANGED <<served, refreshes>>
    BY <1>1, <1>7, <2>1 DEF ListenEnds, Conn, ConnStage
  <2>3. conns[c].tools # 0
    BY <1>2, <1>7 DEF ListenEnds
  <2> QED
    BY <1>1, <1>2, <2>2, <2>3, OneConnection DEF Conn
<1> QED
  BY <1>3, <1>4, <1>5, <1>6, <1>7

LEMMA McpSteps == McpInv /\ [Next]_vars => McpInv'
<1> SUFFICES ASSUME McpInv, [Next]_vars PROVE McpInv'
  OBVIOUS
<1>1. CASE UNCHANGED <<served, conns, refreshes>>
  BY <1>1 DEF McpInv, McpTypes, Positions, Fresh
<1>2. CASE Next
  BY <1>1, <1>2, ActsOnConnections, Beginning, Closing, Connecting, Changing, Refreshing
  DEF McpActs, McpStep
<1> QED
  BY <1>1, <1>2 DEF vars, mcpVars

\* FreshAlways: whatever the server's lists, the connections and the bounds, an
\* MCP connection at rest that nothing excuses holds the present list of its
\* server. (client.ts:134-152; docs/mcp-client.md:103-108.)
THEOREM FreshAlways == Spec => []FreshAtRest
<1>1. McpInv => FreshAtRest
  BY DEF McpInv, Positions, Fresh, FreshAtRest
<1> QED
  BY <1>1, McpInitially, McpSteps, PTL DEF Spec

============================================================================

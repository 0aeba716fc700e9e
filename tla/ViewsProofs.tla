------------------------------ MODULE ViewsProofs ------------------------------
(***************************************************************************)
(* Proofs about Views, for every choice of visibilities and any number of  *)
(* tool calls, deltas and pauses: no AG-UI client gets an event it cannot  *)
(* place, no otel span outlives what it measures, and no A2A client is     *)
(* told an end that is not the run's.                                      *)
(*                                                                         *)
(* Each of the three mappers is an automaton that sees the crumbs only,    *)
(* so each proof relates what it holds to the runs and calls the crumbs    *)
(* come from, and shows crumb by crumb that the two stay related:          *)
(*                                                                         *)
(*   RunsOK, CallsLive   what the runs owe each other: only a live run has *)
(*                       calls under way, a delegated run is live only in  *)
(*                       a live supervisor or after a resume of its own,   *)
(*                       and the posted stream is open only until the      *)
(*                       first pause or the end of r;                      *)
(*   SpansOK             a span is of a run that is not over, a call under *)
(*                       way, a run that waits, or a mediated run; and its *)
(*                       crumbs are shown, so the one that ends it is too; *)
(*   FramesOK            while the stream is open, the client's messages   *)
(*                       are the mapper's, under ids never used before, it *)
(*                       counts the runs that are live, and each shown     *)
(*                       call is in the stage its place in calls says;     *)
(*   TaskOK              while the stream is open no final update was      *)
(*                       sent and only this task is registered; after it   *)
(*                       none is registered, and every final update says   *)
(*                       how r ended.                                      *)
(*                                                                         *)
(* SpansClose, WellFramed and TaskTruth are what these say without the     *)
(* parts about the client's own state, which a step needs to know where    *)
(* the next event finds it.                                                *)
(***************************************************************************)
EXTENDS Views, FiniteSetsExt, Folds, TLAPS

-----------------------------------------------------------------------------
(* The parts of the inductive invariant.                                   *)

Places == {"none", "live", "paused", "done", "failed", "canceled"}
Statuses == {"not-found", "working", "input-required", "completed", "canceled", "failed"}
CallRow == [id : Calls, run : Runs, at : {"input", "early", "ready", "called", "lost"}]
ToolStages == {"none"} \cup DOMAIN ToolOrder
UiTypes(ui) ==
  /\ DOMAIN ui = {"open", "streaming", "seq"}
  /\ ui.open \in [Runs -> Nat] /\ ui.seq \in Nat
ClientTypes(client) ==
  /\ DOMAIN client = {"open", "tools", "running", "begun", "wrong"}
  /\ client.tools \in [Calls -> ToolStages] /\ client.running \in Nat
  /\ client.begun \in BOOLEAN
TaskTypes(task) ==
  /\ DOMAIN task = {"taskId", "opened", "fresh", "finals"}
  /\ task.taskId \in {"none", "r", "c"} /\ task.opened \in BOOLEAN
  /\ task.fresh = (IF task.opened THEN 1 ELSE 0)
  /\ task.finals \in Seq({"completed", "canceled", "failed"})
ViewTypes(v) ==
  /\ DOMAIN v = {"ui", "client", "task", "registry", "terminalSeen"}
  /\ UiTypes(v.ui) /\ ClientTypes(v.client) /\ TaskTypes(v.task)
\* Calls with ids of their own, none beyond m.
CallsOK(set, m) ==
  /\ set \subseteq CallRow /\ \A c \in set : c.id <= m
  /\ \A c, d \in set : c.id = d.id => c = d
RunTypes ==
  /\ state \in [Runs -> Places] /\ minted \in 0..MaxCalls /\ CallsOK(calls, minted)
  /\ deleg \in Nat /\ direct \in BOOLEAN /\ pauses \in Nat
  /\ stream \in {"open", "closed"}
VTypes == RunTypes /\ status \in [Runs -> Statuses] /\ ViewTypes(view)

\* The two runs and the calls they make.
RunsOK ==
  /\ Live("c") => Live("r") \/ (state["r"] = "paused" /\ direct)
  /\ state["c"] = "paused" => state["r"] = "paused"
  /\ state["c"] # "none" => deleg # 0
  /\ stream = "open" => state["r"] \in {"none", "live"} /\ pauses = 0 /\ ~direct
  /\ Live("r") /\ pauses = 0 => stream = "open"
  /\ state["r"] = "paused" => pauses > 0
  /\ direct => state["c"] # "none"

\* Only a live run has calls under way.
CallsLive == \A c \in calls : c.at # "lost" => Live(c.run)

\* The crumbs of a run's tools reach this process's listeners.
Shown(x) == x = "r" \/ vis = "passthrough" \/ direct
SpanOK(s) ==
  \/ /\ s.kind = "run" /\ \E x \in Runs : s.id = <<x, 0>> /\ ~Over(x)
     /\ s.id = <<"c", 0>> => vis = "passthrough"
  \/ /\ s.kind = "tool"
     /\ \E c \in calls : s.id = <<c.run, c.id>> /\ c.at \notin {"input", "ready"} /\ Shown(c.run)
  \/ /\ s.kind = "human"
     /\ \E x \in Runs : s.id = <<x, 0>> /\ state[x] = "paused"
     /\ s.id = <<"r", 0>> => state["c"] \notin {"live", "paused"}
  \/ /\ s.kind = "subagent" /\ s.id = <<"c", 0>> /\ vis = "mediate"
     /\ state["c"] = "done" => direct
SpansOK == \A s \in spans : s = Span(s.kind, s.id) /\ SpanOK(s)

\* The client has open what the mapper has open, and knows each call at the
\* stage the mapper left it in.
Linked(ui, client) ==
  /\ client.open = {ui.open["r"], ui.open["c"]} \ {0}
  /\ ui.open["r"] = ui.open["c"] => ui.open["r"] = 0
  /\ ui.open["r"] <= ui.seq /\ ui.open["c"] <= ui.seq
Opened(x) == view.ui.open[x]
Stage(c) ==
  CASE c.at \in {"input", "early"} -> {"TOOL_CALL_START", "TOOL_CALL_ARGS"}
    [] OTHER -> {"TOOL_CALL_END"}
CallOK(c) ==
  c.at # "lost" =>
    /\ view.client.tools[c.id] \in Stage(c)
    /\ c.id \in view.ui.streaming <=> c.at \in {"input", "ready"}
\* No message is open of a run that is not live, or not shown.
IdleShut ==
  /\ \A x \in Runs : ~Live(x) => Opened(x) = 0
  /\ vis # "passthrough" => Opened("c") = 0
RunsShown ==
  /\ state["r"] = "none" => ~view.client.begun
  /\ view.client.running = (IF Live("r") THEN 1 ELSE 0)
                           + (IF vis = "passthrough" /\ Live("c") THEN 1 ELSE 0)
Unborn == \A k \in Calls : k > minted => view.client.tools[k] = "none" /\ k \notin view.ui.streaming
CallsShown == \A c \in calls : c.run = "r" \/ vis = "passthrough" => CallOK(c)
FrameOK == Linked(view.ui, view.client) /\ IdleShut /\ RunsShown /\ Unborn /\ CallsShown
FramesOK ==
  /\ view.client.wrong = {}
  /\ stream = "open" => FrameOK
  /\ stream = "closed" => \A x \in Runs : Opened(x) = 0 \/ (x = "r" /\ pauses > 0 /\ deleg # 0)

How(x) == IF state[x] = "done" THEN "completed" ELSE state[x]
\* What an A2A client of the stream holds, as long as it saw no delegated start.
OpenTask ==
  /\ view.task.finals = << >> /\ view.registry \subseteq {view.task.taskId}
  /\ vis = "passthrough" => state["c"] = "none"
ClosedTask ==
  /\ view.registry = {}
  /\ \A n \in DOMAIN view.task.finals :
       view.task.finals[n] = IF state["r"] = "none" THEN "failed" ELSE How("r")
  /\ view.task.finals # << >> => Over("r") \/ state["r"] = "none"
  /\ Over("r") /\ pauses = 0 => view.task.finals # << >>
TaskOK ==
  /\ view.task.taskId # "c" => IF stream = "open" THEN OpenTask ELSE ClosedTask
  /\ state["r"] = "none" => view.task.taskId = "none" /\ view.registry = {}
  /\ Over("r") => status["r"] = How("r")

VInv == VTypes /\ RunsOK /\ CallsLive /\ SpansOK /\ FramesOK /\ TaskOK

LEMMA MaxOf ==
  ASSUME NEW s, s \subseteq {1, 2, 3, 4}, NEW m \in s, \A y \in s : m >= y
  PROVE  Max(s) = m
<1> DEFINE P(x) == x \in s /\ \A y \in s : x >= y
<1>1. Max(s) = CHOOSE x : P(x) BY Zenon DEF Max
<1>2. P(m) OBVIOUS
<1>3. P(Max(s))
  <2> HIDE DEF P
  <2>1. P(CHOOSE x : P(x)) BY <1>2, Zenon
  <2>2. Max(s) = CHOOSE x : P(x) BY <1>1
  <2> QED BY <2>1, <2>2, Zenon
<1>4. Max(s) \in s /\ Max(s) >= m /\ m >= Max(s) BY <1>3
<1> HIDE DEF P
<1>5. Max(s) \in {1, 2, 3, 4} /\ m \in {1, 2, 3, 4} BY <1>4
<1> QED BY <1>4, <1>5

\* At most four events, one after another.
Short(s) == DOMAIN s \in {{}, {1}, {1, 2}, {1, 2, 3}, {1, 2, 3, 4}}
Nth(events, i, x) == IF i \in DOMAIN events THEN Receive(x, events[i]) ELSE x
After(client, events) ==
  Nth(events, 4, Nth(events, 3, Nth(events, 2, Nth(events, 1, client))))

\* A fold over so few events, by the definition of the library's folds.
LEMMA FoldReceive ==
  ASSUME NEW client, NEW events, Short(events)
  PROVE  FoldLeft(Receive, client, events) = After(client, events)
<1> DEFINE S == DOMAIN events
           Step(f, s) == IF s = {} THEN client ELSE Receive(f[s \ {Max(s)}], events[Max(s)])
           Def(f) == f = [s \in SUBSET S |-> Step(f, s)]
           g == CHOOSE f : Def(f)
           In(s, i, x) == IF i \in s THEN Receive(x, events[i]) ELSE x
           All(s) == In(s, 4, In(s, 3, In(s, 2, In(s, 1, client))))
           w == [s \in SUBSET S |-> All(s)]
<1>0. S \in {{}, {1}, {1, 2}, {1, 2, 3}, {1, 2, 3, 4}} BY DEF Short
<1>1. FoldLeft(Receive, client, events) = g[S]
  BY Zenon DEF FoldLeft, MapThenFoldSet
<1>2. ASSUME NEW s \in SUBSET S PROVE w[s] = Step(w, s)
  <2>1. s \subseteq {1, 2, 3, 4} BY <1>0
  <2>2. CASE s = {} BY <2>2
  <2>3. ASSUME NEW m \in s, \A y \in s : m >= y PROVE w[s] = Step(w, s)
    <3>1. Max(s) = m BY <2>1, <2>3, MaxOf
    <3>2. s \ {m} \in SUBSET S OBVIOUS
    <3>3. m \in {1, 2, 3, 4} /\ \A y \in {1, 2, 3, 4} : y > m => y \notin s BY <2>1, <2>3
    <3>4. All(s) = Receive(All(s \ {m}), events[m])
      <4>1. CASE m = 1 BY <3>3, <4>1
      <4>2. CASE m = 2 BY <3>3, <4>2
      <4>3. CASE m = 3 BY <3>3, <4>3
      <4>4. CASE m = 4 BY <3>3, <4>4
      <4> QED BY <3>3, <4>1, <4>2, <4>3, <4>4
    <3> QED BY <3>1, <3>2, <3>4
  <2>4. s = {} \/ \E m \in s : \A y \in s : m >= y BY <2>1
  <2> QED BY <2>2, <2>3, <2>4
<1>3. Def(w)
  <2>1. w = [s \in SUBSET S |-> w[s]] OBVIOUS
  <2> HIDE DEF w
  <2> QED BY <1>2, <2>1
<1>4. Def(g)
  <2> HIDE DEF Def, w
  <2> QED BY <1>3, Zenon
<1> HIDE DEF g
<1>5. \A s \in SUBSET S : g[s] = Step(g, s) BY <1>4
<1>6. \A s \in SUBSET S : \A m \in s : (s \subseteq {1, 2, 3, 4} /\ \A y \in s : m >= y)
                            => g[s] = Receive(g[s \ {m}], events[m])
  BY <1>5, MaxOf
<1>7. g[{}] = client BY <1>5
<1>8. 1 \in S => g[{1}] = Receive(g[{}], events[1])
  <2>1. {1} \ {1} = {} OBVIOUS
  <2> QED BY <1>6, <2>1
<1>9. 2 \in S => g[{1, 2}] = Receive(g[{1}], events[2])
  <2>1. {1, 2} \ {2} = {1} OBVIOUS
  <2>2. 2 \in {1, 2} /\ \A y \in {1, 2} : 2 >= y OBVIOUS
  <2>3. ASSUME 2 \in S PROVE {1, 2} \in SUBSET S BY <1>0, <2>3
  <2>4. {1, 2} \subseteq {1, 2, 3, 4} OBVIOUS
  <2> HIDE DEF S
  <2> QED BY <1>6, <2>1, <2>2, <2>3, <2>4
<1>10. 3 \in S => g[{1, 2, 3}] = Receive(g[{1, 2}], events[3])
  <2>1. {1, 2, 3} \ {3} = {1, 2} OBVIOUS
  <2>2. 3 \in {1, 2, 3} /\ \A y \in {1, 2, 3} : 3 >= y OBVIOUS
  <2>3. ASSUME 3 \in S PROVE {1, 2, 3} \in SUBSET S BY <1>0, <2>3
  <2>4. {1, 2, 3} \subseteq {1, 2, 3, 4} OBVIOUS
  <2> HIDE DEF S
  <2> QED BY <1>6, <2>1, <2>2, <2>3, <2>4
<1>11. 4 \in S => g[{1, 2, 3, 4}] = Receive(g[{1, 2, 3}], events[4])
  <2>1. {1, 2, 3, 4} \ {4} = {1, 2, 3} OBVIOUS
  <2>2. 4 \in {1, 2, 3, 4} /\ \A y \in {1, 2, 3, 4} : 4 >= y OBVIOUS
  <2>3. ASSUME 4 \in S PROVE {1, 2, 3, 4} \in SUBSET S BY <1>0, <2>3
  <2>4. {1, 2, 3, 4} \subseteq {1, 2, 3, 4} OBVIOUS
  <2> HIDE DEF S
  <2> QED BY <1>6, <2>1, <2>2, <2>3, <2>4
<1>12. g[S] = After(client, events)
  BY <1>0, <1>7, <1>8, <1>9, <1>10, <1>11 DEF After, Nth
<1> QED BY <1>1, <1>12, Zenon

-----------------------------------------------------------------------------
(* Types.                                                                  *)

\* What the client does with each event.
LEMMA ToolEvents ==
  DOMAIN ToolOrder = {"TOOL_CALL_START", "TOOL_CALL_ARGS", "TOOL_CALL_END", "TOOL_CALL_RESULT"}
BY DEF ToolOrder

LEMMA ReceiveOpens ==
  ASSUME NEW client, NEW e, e.type = "TEXT_MESSAGE_START"
  PROVE  Receive(client, e) =
           [client EXCEPT !.open = @ \cup {e.id}, !.wrong = @ \cup Unless(e.id \notin client.open, e)]
BY DEF Receive, ToolOrder

LEMMA ReceiveMore ==
  ASSUME NEW client, NEW e, e.type = "TEXT_MESSAGE_CONTENT"
  PROVE  Receive(client, e) =
           [client EXCEPT !.wrong = @ \cup Unless(e.id \in client.open, e)]
BY DEF Receive, ToolOrder

LEMMA ReceiveCloses ==
  ASSUME NEW client, NEW e, e.type = "TEXT_MESSAGE_END"
  PROVE  Receive(client, e) =
           [client EXCEPT !.open = @ \ {e.id}, !.wrong = @ \cup Unless(e.id \in client.open, e)]
BY DEF Receive, ToolOrder

LEMMA ReceiveTool ==
  ASSUME NEW client, NEW e, e.type \in DOMAIN ToolOrder
  PROVE  Receive(client, e) =
           [client EXCEPT !.tools[e.id] = e.type,
                          !.wrong = @ \cup Unless(client.tools[e.id] \in ToolOrder[e.type], e)]
<1>1. e.type # "TEXT_MESSAGE_START" /\ e.type # "TEXT_MESSAGE_CONTENT" /\ e.type # "TEXT_MESSAGE_END"
      /\ e.type # "RUN_STARTED"
      /\ e.type \notin {"RUN_FINISHED", "RUN_ERROR"}
  BY ToolEvents
<1> QED BY <1>1, ToolEvents, Zenon DEF Receive

LEMMA ReceiveStart ==
  ASSUME NEW client, NEW e, e.type = "RUN_STARTED"
  PROVE  Receive(client, e) = [client EXCEPT !.running = @ + 1, !.begun = TRUE]
BY DEF Receive, ToolOrder

LEMMA ReceiveEnd ==
  ASSUME NEW client, NEW e, e.type \in {"RUN_FINISHED", "RUN_ERROR"}, client.running # 0
  PROVE  Receive(client, e) = [client EXCEPT !.running = @ - 1]
<1>1. e.type # "TEXT_MESSAGE_START" /\ e.type # "TEXT_MESSAGE_CONTENT" /\ e.type # "TEXT_MESSAGE_END"
      /\ e.type \notin DOMAIN ToolOrder /\ e.type # "RUN_STARTED"
  BY ToolEvents
<1> QED BY <1>1, ToolEvents, Zenon DEF Receive

LEMMA ReceiveRefused ==
  ASSUME NEW client, ClientTypes(client), NEW e, e.type = "RUN_ERROR", client.running = 0, ~client.begun
  PROVE  Receive(client, e).wrong = client.wrong
<1> DEFINE set == client.wrong \cup Unless(~client.begun /\ e.type = "RUN_ERROR", e)
           got == Receive(client, e)
<1>1. e.type # "TEXT_MESSAGE_START" /\ e.type # "TEXT_MESSAGE_CONTENT" /\ e.type # "TEXT_MESSAGE_END"
      /\ e.type \notin DOMAIN ToolOrder /\ e.type # "RUN_STARTED" /\ e.type \in {"RUN_FINISHED", "RUN_ERROR"}
  BY ToolEvents
<1>2. got = [client EXCEPT !.wrong = set, !.begun = TRUE]
  BY <1>1, ToolEvents, Zenon DEF Receive
<1>3. set = client.wrong BY DEF Unless
<1> HIDE DEF set, got
<1>4. got.wrong = set BY <1>2 DEF ClientTypes
<1> QED BY <1>3, <1>4 DEF got

LEMMA ReceiveEndTypes ==
  ASSUME NEW client, ClientTypes(client), NEW e,
         e.type \in {"RUN_FINISHED", "RUN_ERROR"}, client.running = 0
  PROVE  ClientTypes(Receive(client, e))
<1> DEFINE set == client.wrong \cup Unless(~client.begun /\ e.type = "RUN_ERROR", e)
           got == Receive(client, e)
<1>1. e.type # "TEXT_MESSAGE_START" /\ e.type # "TEXT_MESSAGE_CONTENT" /\ e.type # "TEXT_MESSAGE_END"
      /\ e.type \notin DOMAIN ToolOrder /\ e.type # "RUN_STARTED"
  BY ToolEvents
<1>2. got = [client EXCEPT !.wrong = set, !.begun = TRUE]
  BY <1>1, ToolEvents, Zenon DEF Receive
<1> HIDE DEF set, got
<1>4. got.begun = TRUE /\ got.tools = client.tools
      /\ got.running = client.running /\ DOMAIN got = DOMAIN client
  BY <1>2 DEF ClientTypes
<1>5. ClientTypes(got) BY <1>4 DEF ClientTypes
<1> QED BY <1>5 DEF got

LEMMA ReceiveOther ==
  ASSUME NEW client, NEW e, e.type \notin {"TEXT_MESSAGE_START", "TEXT_MESSAGE_CONTENT", "TEXT_MESSAGE_END",
                    "RUN_STARTED", "RUN_FINISHED", "RUN_ERROR"} \cup DOMAIN ToolOrder
  PROVE  Receive(client, e) = client
<1>1. e.type # "TEXT_MESSAGE_START" /\ e.type # "TEXT_MESSAGE_CONTENT" /\ e.type # "TEXT_MESSAGE_END"
      /\ e.type \notin DOMAIN ToolOrder /\ e.type # "RUN_STARTED"
      /\ e.type \notin {"RUN_FINISHED", "RUN_ERROR"}
  BY ToolEvents
<1> QED BY <1>1, ToolEvents, Zenon DEF Receive

LEMMA ReceiveTypes ==
  ASSUME NEW client, ClientTypes(client), NEW e
  PROVE  ClientTypes(Receive(client, e))
<1>1. client.running # 0 => client.running - 1 \in Nat BY DEF ClientTypes
<1>3. DOMAIN client = {"open", "tools", "running", "begun", "wrong"}
      /\ client.tools \in [Calls -> ToolStages] /\ client.running \in Nat
      /\ client.begun \in BOOLEAN
  BY DEF ClientTypes
<1>4. CASE e.type = "TEXT_MESSAGE_START"
  <2> DEFINE set == client.wrong \cup Unless(e.id \notin client.open, e)
  <2>1. Receive(client, e) = [client EXCEPT !.open = @ \cup {e.id}, !.wrong = set]
    BY <1>4, ReceiveOpens
  <2> HIDE DEF set
  <2> QED BY <1>3, <2>1 DEF ClientTypes
<1>5. CASE e.type = "TEXT_MESSAGE_CONTENT"
  <2> DEFINE set == client.wrong \cup Unless(e.id \in client.open, e)
  <2>1. Receive(client, e) = [client EXCEPT !.wrong = set] BY <1>5, ReceiveMore
  <2> HIDE DEF set
  <2> QED BY <1>3, <2>1 DEF ClientTypes
<1>6. CASE e.type = "TEXT_MESSAGE_END"
  <2> DEFINE set == client.wrong \cup Unless(e.id \in client.open, e)
  <2>1. Receive(client, e) = [client EXCEPT !.open = @ \ {e.id}, !.wrong = set]
    BY <1>6, ReceiveCloses
  <2> HIDE DEF set
  <2> QED BY <1>3, <2>1 DEF ClientTypes
<1>7. CASE e.type \in DOMAIN ToolOrder
  <2> DEFINE set == client.wrong \cup Unless(client.tools[e.id] \in ToolOrder[e.type], e)
             tools == [client.tools EXCEPT ![e.id] = e.type]
  <2>1. Receive(client, e) = [client EXCEPT !.tools = tools, !.wrong = set]
    BY <1>7, ReceiveTool
  <2>2. tools \in [Calls -> ToolStages] BY <1>3, <1>7 DEF ToolStages
  <2> HIDE DEF set, tools
  <2> QED BY <1>3, <2>1, <2>2 DEF ClientTypes
<1>8. CASE e.type = "RUN_STARTED"
  <2>1. Receive(client, e) = [client EXCEPT !.running = @ + 1, !.begun = TRUE]
    BY <1>8, ReceiveStart
  <2> QED BY <1>3, <2>1 DEF ClientTypes
<1>9. CASE e.type \in {"RUN_FINISHED", "RUN_ERROR"}
  <2>1. client.running # 0 => Receive(client, e) = [client EXCEPT !.running = @ - 1]
    BY <1>9, ReceiveEnd
  <2>2. ASSUME client.running = 0 PROVE ClientTypes(Receive(client, e))
    BY <1>9, <2>2, ReceiveEndTypes
  <2> QED BY <1>1, <1>3, <2>1, <2>2 DEF ClientTypes
<1>10. CASE e.type \notin {"TEXT_MESSAGE_START", "TEXT_MESSAGE_CONTENT", "TEXT_MESSAGE_END",
                           "RUN_STARTED", "RUN_FINISHED", "RUN_ERROR"} \cup DOMAIN ToolOrder
  <2>1. Receive(client, e) = client BY <1>10, ReceiveOther
  <2> QED BY <2>1
<1> QED BY <1>4, <1>5, <1>6, <1>7, <1>8, <1>9, <1>10

\* The few events a crumb is mapped to, by position.
LEMMA Tuples ==
  ASSUME NEW u, NEW x, NEW y, NEW z
  PROVE  /\ DOMAIN << >> = {} /\ DOMAIN <<z>> = {1} /\ DOMAIN <<y, z>> = {1, 2}
         /\ <<z>>[1] = z /\ <<y, z>>[1] = y /\ <<y, z>>[2] = z
         /\ DOMAIN Append(<< >>, z) = {1} /\ Append(<< >>, z)[1] = z
         /\ DOMAIN Append(<<y>>, z) = {1, 2}
         /\ Append(<<y>>, z)[1] = y /\ Append(<<y>>, z)[2] = z
<1>1. DOMAIN Append(<<y>>, z) = {1, 2} /\ Append(<<y>>, z)[1] = y /\ Append(<<y>>, z)[2] = z
  OBVIOUS
<1>2. DOMAIN Append(<< >>, z) = {1} /\ Append(<< >>, z)[1] = z OBVIOUS
<1> QED BY <1>1, <1>2

LEMMA Joined ==
  ASSUME NEW u, NEW x, NEW y, NEW z
  PROVE  LET s == << >> \o <<x, y, z>>
             t == <<u>> \o <<x, y, z>> IN
         /\ DOMAIN s = {1, 2, 3} /\ s[1] = x /\ s[2] = y /\ s[3] = z
         /\ DOMAIN t = {1, 2, 3, 4} /\ t[1] = u /\ t[2] = x /\ t[3] = y /\ t[4] = z
<1> DEFINE s == << >> \o <<x, y, z>>
           t == <<u>> \o <<x, y, z>>
<1>1. <<u>> \in Seq({u, x, y, z}) /\ <<x, y, z>> \in Seq({u, x, y, z})
      /\ << >> \in Seq({u, x, y, z})
      /\ Len(<<u>>) = 1 /\ Len(<<x, y, z>>) = 3 /\ Len(<< >>) = 0
  OBVIOUS
<1>2. Len(t) = 4 /\ t \in Seq({u, x, y, z}) BY <1>1
<1>3. t[1] = u /\ t[2] = x /\ t[3] = y /\ t[4] = z BY <1>1
<1>4. Len(s) = 3 /\ s \in Seq({u, x, y, z}) BY <1>1
<1>5. s[1] = x /\ s[2] = y /\ s[3] = z BY <1>1
<1> HIDE DEF s, t
<1>6. DOMAIN t = {1, 2, 3, 4} BY <1>2
<1>7. DOMAIN s = {1, 2, 3} BY <1>4
<1> QED BY <1>3, <1>5, <1>6, <1>7 DEF s, t

LEMMA FoldTypes ==
  ASSUME NEW client, ClientTypes(client), NEW events, Short(events)
  PROVE  ClientTypes(FoldLeft(Receive, client, events))
<1>1. FoldLeft(Receive, client, events) = After(client, events) BY FoldReceive
<1>2. ASSUME NEW x, ClientTypes(x), NEW i PROVE ClientTypes(Nth(events, i, x))
  BY <1>2, ReceiveTypes DEF Nth
<1>3. ClientTypes(After(client, events)) BY <1>2 DEF After
<1> QED BY <1>1, <1>3, Zenon

\* What closing an open message emits.
LEMMA ClosingIs ==
  ASSUME NEW ui, NEW x
  PROVE  /\ ui.open[x] = 0 => Closing(ui, x) = << >>
         /\ ui.open[x] # 0 => Closing(ui, x) = <<Event("TEXT_MESSAGE_END", ui.open[x])>>
BY DEF Closing

LEMMA ClosedTypes ==
  ASSUME NEW ui, UiTypes(ui), NEW x \in Runs
  PROVE  UiTypes(Closed(ui, x))
         /\ Closed(ui, x).open = [ui.open EXCEPT ![x] = 0]
         /\ Closed(ui, x).streaming = ui.streaming /\ Closed(ui, x).seq = ui.seq
<1>1. DOMAIN ui = {"open", "streaming", "seq"}
      /\ ui.open \in [Runs -> Nat] /\ ui.seq \in Nat
  BY DEF UiTypes
<1>2. [ui.open EXCEPT ![x] = 0] \in [Runs -> Nat] BY <1>1
<1> QED BY <1>1, <1>2 DEF UiTypes, Closed

IsCrumb(c) == c.run \in Runs /\ c = Crumb(c.type, c.run, c.call, c.code)

LEMMA AgUiTypes ==
  ASSUME NEW ui, UiTypes(ui), NEW c, IsCrumb(c)
  PROVE  UiTypes(AgUi(ui, c).ui) /\ Short(AgUi(ui, c).events)
<1>r. c.run \in Runs BY DEF IsCrumb
<1>u. DOMAIN ui = {"open", "streaming", "seq"}
      /\ ui.open \in [Runs -> Nat] /\ ui.seq \in Nat
  BY DEF UiTypes
<1> DEFINE k == Closed(ui, c.run)
           e == Closing(ui, c.run)
<1>k. UiTypes(k) BY <1>r, ClosedTypes
<1>k2. DOMAIN k = {"open", "streaming", "seq"}
      /\ k.open \in [Runs -> Nat] /\ k.seq \in Nat
  BY <1>k DEF UiTypes
<1>e. e = << >> \/ \E z : e = <<z>> BY ClosingIs
<1> HIDE DEF k, e
<1>e1. ASSUME NEW z PROVE Short(Append(e, z))
  <2>1. CASE e = << >> BY <2>1, Tuples DEF Short
  <2>2. ASSUME NEW u, e = <<u>> PROVE Short(Append(e, z)) BY <2>2, Tuples DEF Short
  <2> QED BY <1>e, <2>1, <2>2
<1>e3. ASSUME NEW x, NEW y, NEW z PROVE Short(e \o <<x, y, z>>)
  <2>1. CASE e = << >> BY <2>1, Joined DEF Short
  <2>2. ASSUME NEW u, e = <<u>> PROVE Short(e \o <<x, y, z>>) BY <2>2, Joined DEF Short
  <2> QED BY <1>e, <2>1, <2>2
<1>e0. Short(e) BY <1>e DEF Short
<1>s. Short(<< >>) /\ (\A z : Short(<<z>>)) /\ (\A y, z : Short(<<y, z>>)) BY Tuples DEF Short
<1>m. \A x, y : Mapped(x, y).ui = x /\ Mapped(x, y).events = y BY DEF Mapped
<1>1. CASE c.type \in {"agent:run:start", "subagent:run:start", "subagent:run:end",
                       "tool:input:delta", "tool:input:end"}
  BY <1>1, <1>m, <1>s DEF AgUi
<1>2. CASE c.type \in {"agent:run:end", "agent:error", "human:required"}
  BY <1>2, <1>m, <1>k, <1>e0, <1>e1 DEF AgUi, k, e
<1>3. CASE c.type = "text:delta"
  <2>1. AgUi(ui, c) = MapText(ui, c) BY <1>3, Zenon DEF AgUi
  <2>n. ui.seq + 1 \in Nat BY <1>u
  <2>2. [ui.open EXCEPT ![c.run] = ui.seq + 1] \in [Runs -> Nat]
    <3> DEFINE n == ui.seq + 1
    <3> HIDE DEF n
    <3>1. n \in Nat BY <2>n DEF n
    <3>2. [ui.open EXCEPT ![c.run] = n] \in [Runs -> Nat] BY <1>u, <3>1
    <3> QED BY <3>2 DEF n
  <2>3. UiTypes([ui EXCEPT !.open[c.run] = ui.seq + 1, !.seq = @ + 1])
    <3> DEFINE o == [ui.open EXCEPT ![c.run] = ui.seq + 1]
    <3>1. [ui EXCEPT !.open[c.run] = ui.seq + 1, !.seq = @ + 1] = [ui EXCEPT !.open = o, !.seq = @ + 1]
      OBVIOUS
    <3> HIDE DEF o
    <3>2. UiTypes([ui EXCEPT !.open = o, !.seq = @ + 1]) BY <1>u, <2>2 DEF UiTypes, o
    <3> QED BY <3>1, <3>2
  <2> QED BY <1>m, <1>s, <2>1, <2>3 DEF MapText
<1>4. CASE c.type = "tool:input:start"
  <2>1. AgUi(ui, c) = Mapped([k EXCEPT !.streaming = @ \cup {c.call}],
                             Append(e, Event("TOOL_CALL_START", c.call)))
    BY <1>4 DEF AgUi, k, e
  <2>2. UiTypes([k EXCEPT !.streaming = @ \cup {c.call}]) BY <1>k2 DEF UiTypes
  <2> QED BY <1>m, <1>e1, <2>1, <2>2
<1>5. CASE c.type = "tool:call"
  <2>1. AgUi(ui, c) = MapToolCall(ui, c) BY <1>5 DEF AgUi
  <2>2. UiTypes([ui EXCEPT !.streaming = @ \ {c.call}]) BY <1>u DEF UiTypes
  <2> QED BY <1>m, <1>s, <1>k, <1>e3, <2>1, <2>2 DEF MapToolCall, k, e
<1>6. CASE c.type \in {"tool:result", "tool:error"}
  <2>1. AgUi(ui, c) = Mapped([ui EXCEPT !.seq = @ + 1], <<Event("TOOL_CALL_RESULT", c.call)>>)
    BY <1>6 DEF AgUi
  <2>2. UiTypes([ui EXCEPT !.seq = @ + 1]) BY <1>u DEF UiTypes
  <2> QED BY <1>m, <1>s, <2>1, <2>2
<1>7. CASE c.type \notin {"agent:run:start", "subagent:run:start", "subagent:run:end",
                       "tool:input:delta", "tool:input:end", "agent:run:end", "agent:error",
                       "human:required", "text:delta", "tool:input:start", "tool:call",
                       "tool:result", "tool:error"}
  BY <1>7, <1>m, <1>s DEF AgUi
<1> QED BY <1>1, <1>2, <1>3, <1>4, <1>5, <1>6, <1>7

-----------------------------------------------------------------------------
(* What the client makes of the events of one crumb.                       *)
LEMMA EventIs ==
  ASSUME NEW type, NEW id
  PROVE  Event(type, id).type = type /\ Event(type, id).id = id
BY DEF Event

\* The client once the run's open message is closed.
Shut(ui, client, x) ==
  IF ui.open[x] = 0 THEN client ELSE Receive(client, Event("TEXT_MESSAGE_END", ui.open[x]))

LEMMA AfterNone ==
  ASSUME NEW client
  PROVE  Short(<< >>) /\ After(client, << >>) = client
<1>1. DOMAIN << >> = {} BY Tuples
<1> QED BY <1>1 DEF After, Nth, Short

LEMMA AfterOne ==
  ASSUME NEW client, NEW z
  PROVE  Short(<<z>>) /\ After(client, <<z>>) = Receive(client, z)
<1> DEFINE s == <<z>>
<1>1. DOMAIN s = {1} /\ s[1] = z BY Tuples
<1> HIDE DEF s
<1>2. Short(s) /\ After(client, s) = Receive(client, z) BY <1>1 DEF After, Nth, Short
<1> QED BY <1>2 DEF s

LEMMA AfterTwo ==
  ASSUME NEW client, NEW y, NEW z
  PROVE  Short(<<y, z>>) /\ After(client, <<y, z>>) = Receive(Receive(client, y), z)
<1> DEFINE s == <<y, z>>
<1>1. DOMAIN s = {1, 2} /\ s[1] = y /\ s[2] = z BY Tuples
<1> HIDE DEF s
<1>2. Short(s) /\ After(client, s) = Receive(Receive(client, y), z) BY <1>1 DEF After, Nth, Short
<1> QED BY <1>2 DEF s

LEMMA AfterShut ==
  ASSUME NEW ui, NEW client, NEW x
  PROVE  Short(Closing(ui, x)) /\ After(client, Closing(ui, x)) = Shut(ui, client, x)
<1>1. CASE ui.open[x] = 0
  <2>1. Closing(ui, x) = << >> /\ Shut(ui, client, x) = client BY <1>1, ClosingIs DEF Shut
  <2> QED BY <2>1, AfterNone
<1>2. CASE ui.open[x] # 0
  <2> DEFINE u == Event("TEXT_MESSAGE_END", ui.open[x])
  <2>1. Closing(ui, x) = <<u>> /\ Shut(ui, client, x) = Receive(client, u)
    BY <1>2, ClosingIs DEF Shut
  <2> HIDE DEF u
  <2> QED BY <2>1, AfterOne
<1> QED BY <1>1, <1>2

LEMMA AfterShutThen ==
  ASSUME NEW ui, NEW client, NEW x, NEW z
  PROVE  /\ Short(Append(Closing(ui, x), z))
         /\ After(client, Append(Closing(ui, x), z)) = Receive(Shut(ui, client, x), z)
<1> DEFINE s == Append(Closing(ui, x), z)
           u == Event("TEXT_MESSAGE_END", ui.open[x])
<1>1. CASE ui.open[x] = 0
  <2>1. Closing(ui, x) = << >> /\ Shut(ui, client, x) = client BY <1>1, ClosingIs DEF Shut
  <2>2. DOMAIN s = {1} /\ s[1] = z BY <2>1, Tuples
  <2> HIDE DEF s
  <2>3. Short(s) BY <2>2 DEF Short
  <2>4. After(client, s) = Receive(Shut(ui, client, x), z) BY <2>1, <2>2 DEF After, Nth
  <2> QED BY <2>3, <2>4 DEF s
<1>2. CASE ui.open[x] # 0
  <2>1. Closing(ui, x) = <<u>> /\ Shut(ui, client, x) = Receive(client, u)
    BY <1>2, ClosingIs DEF Shut
  <2> HIDE DEF u
  <2>2. DOMAIN s = {1, 2} /\ s[1] = u /\ s[2] = z BY <2>1, Tuples
  <2> HIDE DEF s
  <2>3. Short(s) BY <2>2 DEF Short
  <2>4. After(client, s) = Receive(Shut(ui, client, x), z) BY <2>1, <2>2 DEF After, Nth
  <2> QED BY <2>3, <2>4 DEF s
<1> QED BY <1>1, <1>2

LEMMA AfterShutCall ==
  ASSUME NEW ui, NEW client, NEW x, NEW a, NEW b, NEW z
  PROVE  /\ Short(Closing(ui, x) \o <<a, b, z>>)
         /\ After(client, Closing(ui, x) \o <<a, b, z>>)
              = Receive(Receive(Receive(Shut(ui, client, x), a), b), z)
<1> DEFINE s == Closing(ui, x) \o <<a, b, z>>
           u == Event("TEXT_MESSAGE_END", ui.open[x])
<1>1. CASE ui.open[x] = 0
  <2>1. Closing(ui, x) = << >> /\ Shut(ui, client, x) = client BY <1>1, ClosingIs DEF Shut
  <2>2. DOMAIN s = {1, 2, 3} /\ s[1] = a /\ s[2] = b /\ s[3] = z BY <2>1, Joined
  <2> HIDE DEF s
  <2>3. Short(s) BY <2>2 DEF Short
  <2>4. After(client, s) = Receive(Receive(Receive(Shut(ui, client, x), a), b), z)
    BY <2>1, <2>2 DEF After, Nth
  <2> QED BY <2>3, <2>4 DEF s
<1>2. CASE ui.open[x] # 0
  <2>1. Closing(ui, x) = <<u>> /\ Shut(ui, client, x) = Receive(client, u)
    BY <1>2, ClosingIs DEF Shut
  <2> HIDE DEF u
  <2>2. DOMAIN s = {1, 2, 3, 4} /\ s[1] = u /\ s[2] = a /\ s[3] = b /\ s[4] = z
    BY <2>1, Joined
  <2> HIDE DEF s
  <2>3. Short(s) BY <2>2 DEF Short
  <2>4. After(client, s) = Receive(Receive(Receive(Shut(ui, client, x), a), b), z)
    BY <2>1, <2>2 DEF After, Nth
  <2> QED BY <2>3, <2>4 DEF s
<1> QED BY <1>1, <1>2

\* Fields the client keeps.
SameRuns(new, old) == new.running = old.running /\ new.begun = old.begun

LEMMA ShutIs ==
  ASSUME NEW ui, UiTypes(ui), NEW client, ClientTypes(client), Linked(ui, client), NEW x \in Runs
  PROVE  /\ ClientTypes(Shut(ui, client, x)) /\ Linked(Closed(ui, x), Shut(ui, client, x))
         /\ Shut(ui, client, x).wrong = client.wrong /\ Shut(ui, client, x).tools = client.tools
         /\ SameRuns(Shut(ui, client, x), client)
<1> DEFINE a == ui.open[x]
           e == Event("TEXT_MESSAGE_END", a)
           got == Receive(client, e)
<1>0. Closed(ui, x).open = [ui.open EXCEPT ![x] = 0] /\ Closed(ui, x).seq = ui.seq
  BY ClosedTypes
<1>u. ui.open \in [Runs -> Nat] /\ ui.seq \in Nat BY DEF UiTypes
<1>1. CASE a = 0
  <2>1. Shut(ui, client, x) = client BY <1>1 DEF Shut
  <2>2. [ui.open EXCEPT ![x] = 0] = ui.open BY <1>u, <1>1
  <2>3. Linked(Closed(ui, x), client) BY <1>0, <2>2 DEF Linked
  <2> QED BY <2>1, <2>3 DEF SameRuns
<1>2. CASE a # 0
  <2>1. Shut(ui, client, x) = got BY <1>2 DEF Shut
  <2>2. e.type = "TEXT_MESSAGE_END" /\ e.id = a BY EventIs
  <2>3. a \in client.open BY <1>2 DEF Linked, Runs
  <2> HIDE DEF e
  <2>4. got = [client EXCEPT !.open = @ \ {e.id}, !.wrong = @ \cup Unless(e.id \in client.open, e)]
    BY <2>2, ReceiveCloses
  <2>5. Unless(e.id \in client.open, e) = {} BY <2>2, <2>3 DEF Unless
  <2>6. got.open = client.open \ {a} /\ got.wrong = client.wrong /\ got.tools = client.tools
        /\ got.running = client.running /\ got.begun = client.begun
    BY <2>2, <2>4, <2>5 DEF ClientTypes
  <2>7. ClientTypes(got) BY ReceiveTypes
  <2> HIDE DEF got
  <2>8. Linked(Closed(ui, x), got)
    <3>1. got.open = {Closed(ui, x).open["r"], Closed(ui, x).open["c"]} \ {0}
      BY <1>0, <1>u, <1>2, <2>6 DEF Linked, Runs
    <3> QED BY <1>0, <1>u, <3>1 DEF Linked, Runs
  <2> QED BY <2>1, <2>6, <2>7, <2>8 DEF SameRuns
<1> QED BY <1>1, <1>2

LEMMA ToolIs ==
  ASSUME NEW client, ClientTypes(client), NEW k \in Calls, NEW type \in DOMAIN ToolOrder,
         client.tools[k] \in ToolOrder[type]
  PROVE  LET got == Receive(client, Event(type, k)) IN
         /\ ClientTypes(got) /\ got.tools = [client.tools EXCEPT ![k] = type]
         /\ got.wrong = client.wrong /\ got.open = client.open /\ SameRuns(got, client)
<1> DEFINE e == Event(type, k)
           got == Receive(client, e)
<1>1. e.type = type /\ e.id = k BY EventIs
<1> HIDE DEF e
<1>2. got = [client EXCEPT !.tools[e.id] = e.type,
                           !.wrong = @ \cup Unless(client.tools[e.id] \in ToolOrder[e.type], e)]
  BY <1>1, ReceiveTool
<1>3. Unless(client.tools[e.id] \in ToolOrder[e.type], e) = {} BY <1>1 DEF Unless
<1>4. got.tools = [client.tools EXCEPT ![k] = type] /\ got.wrong = client.wrong
      /\ got.open = client.open /\ got.running = client.running /\ got.begun = client.begun
  BY <1>1, <1>2, <1>3 DEF ClientTypes
<1>5. ClientTypes(got) BY ReceiveTypes
<1> QED BY <1>4, <1>5 DEF SameRuns, e

-----------------------------------------------------------------------------
(* What a request's view makes of one crumb.                               *)
LEMMA WatchIs ==
  ASSUME NEW v, NEW c
  PROVE  /\ Watch(v, c).ui = AgUi(v.ui, c).ui
         /\ Watch(v, c).client = FoldLeft(Receive, v.client, AgUi(v.ui, c).events)
         /\ Watch(v, c).task = A2A(v.task, c)
         /\ Watch(v, c).registry = (IF c.type = "agent:run:start" THEN v.registry \cup {c.run}
                                    ELSE v.registry)
         /\ c.type \in {"agent:run:end", "agent:error"} => Watch(v, c).terminalSeen
         /\ DOMAIN Watch(v, c) = {"ui", "client", "task", "registry", "terminalSeen"}
BY DEF Watch

LEMMA MappedIs ==
  ASSUME NEW x, NEW y
  PROVE  Mapped(x, y).ui = x /\ Mapped(x, y).events = y
BY DEF Mapped

LEMMA WatchFold ==
  ASSUME NEW v, NEW c, Short(AgUi(v.ui, c).events)
  PROVE  Watch(v, c).client = After(v.client, AgUi(v.ui, c).events)
<1>1. FoldLeft(Receive, v.client, AgUi(v.ui, c).events) = After(v.client, AgUi(v.ui, c).events)
  BY FoldReceive, Zenon
<1>2. Watch(v, c).client = FoldLeft(Receive, v.client, AgUi(v.ui, c).events) BY DEF Watch
<1> QED BY <1>1, <1>2, Zenon

LEMMA WatchVia ==
  ASSUME NEW v, NEW c, NEW k, NEW s, AgUi(v.ui, c) = Mapped(k, s), Short(s)
  PROVE  Watch(v, c).ui = k /\ Watch(v, c).client = After(v.client, s)
<1>1. AgUi(v.ui, c).ui = k /\ AgUi(v.ui, c).events = s BY MappedIs
<1>2. Watch(v, c).client = After(v.client, s) BY <1>1, WatchFold
<1>3. Watch(v, c).ui = AgUi(v.ui, c).ui BY DEF Watch
<1> QED BY <1>1, <1>2, <1>3

\* The client once the events of a crumb have been received, by their shape.
LEMMA WatchOne ==
  ASSUME NEW v, NEW c, NEW k, NEW e,
         AgUi(v.ui, c) = Mapped(k, <<e>>)
  PROVE  /\ Watch(v, c).ui = k
         /\ Watch(v, c).client = Receive(v.client, e)
<1> DEFINE s == <<e>>
<1>1. Short(s) /\ After(v.client, s) = Receive(v.client, e)
  BY AfterOne
<1> HIDE DEF s
<1>2. AgUi(v.ui, c) = Mapped(k, s) BY DEF s
<1> QED BY <1>1, <1>2, WatchVia

LEMMA WatchTwo ==
  ASSUME NEW v, NEW c, NEW k, NEW d, NEW e,
         AgUi(v.ui, c) = Mapped(k, <<d, e>>)
  PROVE  /\ Watch(v, c).ui = k
         /\ Watch(v, c).client = Receive(Receive(v.client, d), e)
<1> DEFINE s == <<d, e>>
<1>1. Short(s) /\ After(v.client, s) = Receive(Receive(v.client, d), e)
  BY AfterTwo
<1> HIDE DEF s
<1>2. AgUi(v.ui, c) = Mapped(k, s) BY DEF s
<1> QED BY <1>1, <1>2, WatchVia

LEMMA WatchNone ==
  ASSUME NEW v, NEW c, NEW k,
         AgUi(v.ui, c) = Mapped(k, << >>)
  PROVE  /\ Watch(v, c).ui = k
         /\ Watch(v, c).client = v.client
<1> DEFINE s == << >>
<1>1. Short(s) /\ After(v.client, s) = v.client
  BY AfterNone
<1> HIDE DEF s
<1>2. AgUi(v.ui, c) = Mapped(k, s) BY DEF s
<1> QED BY <1>1, <1>2, WatchVia

LEMMA WatchShut ==
  ASSUME NEW v, NEW c, NEW k,
         AgUi(v.ui, c) = Mapped(k, Closing(v.ui, c.run))
  PROVE  /\ Watch(v, c).ui = k
         /\ Watch(v, c).client = Shut(v.ui, v.client, c.run)
<1> DEFINE s == Closing(v.ui, c.run)
<1>1. Short(s) /\ After(v.client, s) = Shut(v.ui, v.client, c.run)
  BY AfterShut
<1> HIDE DEF s
<1>2. AgUi(v.ui, c) = Mapped(k, s) BY DEF s
<1> QED BY <1>1, <1>2, WatchVia

LEMMA WatchShutThen ==
  ASSUME NEW v, NEW c, NEW k, NEW e,
         AgUi(v.ui, c) = Mapped(k, Append(Closing(v.ui, c.run), e))
  PROVE  /\ Watch(v, c).ui = k
         /\ Watch(v, c).client = Receive(Shut(v.ui, v.client, c.run), e)
<1> DEFINE s == Append(Closing(v.ui, c.run), e)
<1>1. Short(s) /\ After(v.client, s) = Receive(Shut(v.ui, v.client, c.run), e)
  BY AfterShutThen
<1> HIDE DEF s
<1>2. AgUi(v.ui, c) = Mapped(k, s) BY DEF s
<1> QED BY <1>1, <1>2, WatchVia

LEMMA WatchShutCall ==
  ASSUME NEW v, NEW c, NEW k, NEW a, NEW b, NEW e,
         AgUi(v.ui, c) = Mapped(k, Closing(v.ui, c.run) \o <<a, b, e>>)
  PROVE  /\ Watch(v, c).ui = k
         /\ Watch(v, c).client = Receive(Receive(Receive(Shut(v.ui, v.client, c.run), a), b), e)
<1> DEFINE s == Closing(v.ui, c.run) \o <<a, b, e>>
<1>1. Short(s) /\ After(v.client, s) = Receive(Receive(Receive(Shut(v.ui, v.client, c.run), a), b), e)
  BY AfterShutCall
<1> HIDE DEF s
<1>2. AgUi(v.ui, c) = Mapped(k, s) BY DEF s
<1> QED BY <1>1, <1>2, WatchVia

LEMMA TaskOther ==
  ASSUME NEW task, NEW c,
         c.type \notin {"agent:run:start", "text:delta", "agent:run:end", "agent:error"}
  PROVE  A2A(task, c) = task
BY DEF A2A

LEMMA TaskStart ==
  ASSUME NEW task, TaskTypes(task), NEW c, c.run \in Runs, c.type = "agent:run:start"
  PROVE  /\ TaskTypes(A2A(task, c)) /\ A2A(task, c).taskId = c.run
         /\ A2A(task, c).finals = task.finals
BY DEF A2A, TaskTypes, Runs

LEMMA TaskText ==
  ASSUME NEW task, TaskTypes(task), NEW c, c.type = "text:delta"
  PROVE  /\ TaskTypes(A2A(task, c)) /\ A2A(task, c).taskId = task.taskId
         /\ A2A(task, c).finals = task.finals
<1> DEFINE n == task.fresh + (IF task.opened THEN 0 ELSE 1)
           got == A2A(task, c)
<1>1. got = [task EXCEPT !.opened = TRUE, !.fresh = @ + (IF task.opened THEN 0 ELSE 1)]
  BY DEF A2A
<1>2. n = 1
  <2>1. CASE task.opened BY <2>1 DEF TaskTypes
  <2>2. CASE ~task.opened BY <2>2 DEF TaskTypes
  <2> QED BY <2>1, <2>2
<1>3. got.fresh = n /\ got.opened = TRUE /\ got.taskId = task.taskId
      /\ got.finals = task.finals /\ DOMAIN got = DOMAIN task
  BY <1>1 DEF TaskTypes
<1> HIDE DEF got, n
<1>4. TaskTypes(got) BY <1>2, <1>3 DEF TaskTypes
<1> QED BY <1>3, <1>4 DEF got

LEMMA TaskEnd ==
  ASSUME NEW task, TaskTypes(task), NEW c, c.type \in {"agent:run:end", "agent:error"}
  PROVE  /\ TaskTypes(A2A(task, c)) /\ A2A(task, c).taskId = task.taskId
         /\ A2A(task, c).finals = Append(task.finals, FinalOf(c))
<1>1. FinalOf(c) \in {"completed", "canceled", "failed"} BY DEF FinalOf
<1>2. A2A(task, c) = [task EXCEPT !.finals = Append(@, FinalOf(c))] BY DEF A2A
<1>3. Append(task.finals, FinalOf(c)) \in Seq({"completed", "canceled", "failed"})
  BY <1>1 DEF TaskTypes
<1> QED BY <1>2, <1>3 DEF TaskTypes

LEMMA TaskKept ==
  ASSUME NEW task, TaskTypes(task), NEW c, c.run \in Runs
  PROVE  TaskTypes(A2A(task, c))
<1>1. CASE c.type = "agent:run:start" BY <1>1, TaskStart
<1>2. CASE c.type = "text:delta" BY <1>2, TaskText
<1>3. CASE c.type \in {"agent:run:end", "agent:error"} BY <1>3, TaskEnd
<1>4. CASE c.type \notin {"agent:run:start", "text:delta", "agent:run:end", "agent:error"}
  BY <1>4, TaskOther
<1> QED BY <1>1, <1>2, <1>3, <1>4

LEMMA WatchTypes ==
  ASSUME NEW v, ViewTypes(v), NEW c, IsCrumb(c)
  PROVE  ViewTypes(Watch(v, c))
<1> DEFINE w == Watch(v, c)
<1>0. UiTypes(v.ui) /\ ClientTypes(v.client) /\ TaskTypes(v.task) BY DEF ViewTypes
<1>1. DOMAIN w = {"ui", "client", "task", "registry", "terminalSeen"}
      /\ w.ui = AgUi(v.ui, c).ui
      /\ w.client = FoldLeft(Receive, v.client, AgUi(v.ui, c).events)
      /\ w.task = A2A(v.task, c)
  BY WatchIs
<1>2. UiTypes(AgUi(v.ui, c).ui) /\ Short(AgUi(v.ui, c).events) BY <1>0, AgUiTypes
<1>3. ClientTypes(FoldLeft(Receive, v.client, AgUi(v.ui, c).events)) BY <1>0, <1>2, FoldTypes
<1>4. TaskTypes(A2A(v.task, c)) BY <1>0, TaskKept DEF IsCrumb
<1> HIDE DEF w
<1>5. UiTypes(w.ui) BY <1>1, <1>2
<1>6. ClientTypes(w.client) BY <1>1, <1>3, Zenon
<1>7. TaskTypes(w.task) BY <1>1, <1>4
<1>8. ViewTypes(w) BY <1>1, <1>5, <1>6, <1>7 DEF ViewTypes
<1> QED BY <1>8 DEF w

\* A view whose client has open what its mapper has open.
Good(v) == ViewTypes(v) /\ Linked(v.ui, v.client)

LEMMA WatchQuiet ==
  ASSUME NEW v, NEW c, c.type \in {"subagent:run:start", "subagent:run:end"}
  PROVE  Watch(v, c).ui = v.ui /\ Watch(v, c).client = v.client
<1>1. PICK e : AgUi(v.ui, c) = Mapped(v.ui, <<e>>) /\ e.type \in {"STEP_STARTED", "STEP_FINISHED"}
  <2>1. CASE c.type = "subagent:run:start"
    <3>1. AgUi(v.ui, c) = Mapped(v.ui, <<Event("STEP_STARTED", c.run)>>) BY <2>1 DEF AgUi
    <3> QED BY <3>1, EventIs
  <2>2. CASE c.type = "subagent:run:end"
    <3>1. AgUi(v.ui, c) = Mapped(v.ui, <<Event("STEP_FINISHED", c.run)>>) BY <2>2 DEF AgUi
    <3> QED BY <3>1, EventIs
  <2> QED BY <2>1, <2>2
<1>2. Receive(v.client, e) = v.client BY <1>1, ToolEvents, ReceiveOther
<1>3. Watch(v, c).ui = v.ui /\ Watch(v, c).client = Receive(v.client, e) BY <1>1, WatchOne
<1> QED BY <1>2, <1>3

LEMMA WatchStart ==
  ASSUME NEW v, Good(v), NEW c, IsCrumb(c), c.type = "agent:run:start"
  PROVE  /\ Good(Watch(v, c)) /\ Watch(v, c).ui = v.ui
         /\ Watch(v, c).client.wrong = v.client.wrong
         /\ Watch(v, c).client.tools = v.client.tools
         /\ Watch(v, c).client.running = v.client.running + 1
         /\ Watch(v, c).client.begun = TRUE
<1> DEFINE e == Event("RUN_STARTED", c.run)
           got == Receive(v.client, e)
           w == Watch(v, c)
<1>1. AgUi(v.ui, c) = Mapped(v.ui, <<e>>) BY DEF AgUi
<1>2. e.type = "RUN_STARTED" BY EventIs
<1> HIDE DEF e
<1>3. got = [v.client EXCEPT !.running = @ + 1, !.begun = TRUE] BY <1>2, ReceiveStart
<1>4. ClientTypes(v.client) BY DEF Good, ViewTypes
<1>5. got.wrong = v.client.wrong /\ got.tools = v.client.tools /\ got.open = v.client.open
      /\ got.running = v.client.running + 1 /\ got.begun = TRUE
  BY <1>3, <1>4 DEF ClientTypes
<1>6. w.ui = v.ui /\ w.client = got BY <1>1, WatchOne
<1>7. ViewTypes(w) BY WatchTypes DEF Good
<1> HIDE DEF got, w
<1>8. Good(w) BY <1>5, <1>6, <1>7 DEF Good, Linked
<1>9. w.client.wrong = v.client.wrong /\ w.client.tools = v.client.tools
      /\ w.client.running = v.client.running + 1 /\ w.client.begun = TRUE
  BY <1>5, <1>6
<1> QED BY <1>6, <1>8, <1>9 DEF w

LEMMA WatchEnd ==
  ASSUME NEW v, Good(v), NEW c, IsCrumb(c), c.type \in {"agent:run:end", "agent:error"},
         v.client.running # 0
  PROVE  /\ Good(Watch(v, c)) /\ Watch(v, c).ui = Closed(v.ui, c.run)
         /\ Watch(v, c).client.wrong = v.client.wrong
         /\ Watch(v, c).client.tools = v.client.tools
         /\ Watch(v, c).client.running = v.client.running - 1
         /\ Watch(v, c).client.begun = v.client.begun
<1>0. c.run \in Runs /\ UiTypes(v.ui) /\ ClientTypes(v.client) /\ Linked(v.ui, v.client)
  BY DEF IsCrumb, Good, ViewTypes
<1>1. PICK e : /\ AgUi(v.ui, c) = Mapped(Closed(v.ui, c.run), Append(Closing(v.ui, c.run), e))
               /\ e.type \in {"RUN_FINISHED", "RUN_ERROR"}
  <2> DEFINE P(e) == /\ AgUi(v.ui, c) = Mapped(Closed(v.ui, c.run), Append(Closing(v.ui, c.run), e))
                     /\ e.type \in {"RUN_FINISHED", "RUN_ERROR"}
  <2>1. CASE c.type = "agent:run:end"
    <3>1. AgUi(v.ui, c) = Mapped(Closed(v.ui, c.run), Append(Closing(v.ui, c.run), Event("RUN_FINISHED", c.run)))
      BY <2>1 DEF AgUi
    <3>2. P(Event("RUN_FINISHED", c.run)) BY <3>1, EventIs
    <3> QED BY <3>2
  <2>2. CASE c.type = "agent:error"
    <3>1. AgUi(v.ui, c) = Mapped(Closed(v.ui, c.run), Append(Closing(v.ui, c.run), Event("RUN_ERROR", "any")))
      BY <2>2 DEF AgUi
    <3>2. P(Event("RUN_ERROR", "any")) BY <3>1, EventIs
    <3> QED BY <3>2
  <2> QED BY <2>1, <2>2
<1> DEFINE sh == Shut(v.ui, v.client, c.run)
           got == Receive(sh, e)
           w == Watch(v, c)
<1>2. w.ui = Closed(v.ui, c.run) /\ w.client = got BY <1>1, WatchShutThen
<1>3. ClientTypes(sh) /\ Linked(Closed(v.ui, c.run), sh) /\ sh.wrong = v.client.wrong
      /\ sh.tools = v.client.tools /\ SameRuns(sh, v.client)
  BY <1>0, ShutIs
<1>4. ViewTypes(w) BY WatchTypes DEF Good
<1> HIDE DEF sh, w
<1>5. got = [sh EXCEPT !.running = @ - 1] BY <1>1, <1>3, ReceiveEnd DEF SameRuns
<1> HIDE DEF got
<1>6. got.wrong = sh.wrong /\ got.tools = sh.tools /\ got.open = sh.open
      /\ got.running = sh.running - 1 /\ got.begun = sh.begun
  BY <1>3, <1>5 DEF ClientTypes
<1>7. Linked(Closed(v.ui, c.run), got) BY <1>3, <1>6 DEF Linked
<1>8. Good(w) BY <1>2, <1>4, <1>7 DEF Good
<1>9. w.client.wrong = v.client.wrong /\ w.client.tools = v.client.tools
      /\ w.client.running = v.client.running - 1 /\ w.client.begun = v.client.begun
  BY <1>2, <1>3, <1>6 DEF SameRuns
<1> QED BY <1>2, <1>8, <1>9 DEF w

LEMMA WatchAsks ==
  ASSUME NEW v, Good(v), NEW c, IsCrumb(c), c.type = "human:required"
  PROVE  /\ Good(Watch(v, c)) /\ Watch(v, c).ui = Closed(v.ui, c.run)
         /\ Watch(v, c).client.wrong = v.client.wrong
         /\ Watch(v, c).client.tools = v.client.tools
         /\ SameRuns(Watch(v, c).client, v.client)
<1> DEFINE sh == Shut(v.ui, v.client, c.run)
           w == Watch(v, c)
<1>0. c.run \in Runs /\ UiTypes(v.ui) /\ ClientTypes(v.client) /\ Linked(v.ui, v.client)
  BY DEF IsCrumb, Good, ViewTypes
<1>1. AgUi(v.ui, c) = Mapped(Closed(v.ui, c.run), Closing(v.ui, c.run)) BY DEF AgUi
<1>2. w.ui = Closed(v.ui, c.run) /\ w.client = sh BY <1>1, WatchShut
<1>3. ClientTypes(sh) /\ Linked(Closed(v.ui, c.run), sh) /\ sh.wrong = v.client.wrong
      /\ sh.tools = v.client.tools /\ SameRuns(sh, v.client)
  BY <1>0, ShutIs
<1>4. ViewTypes(w) BY WatchTypes DEF Good
<1> HIDE DEF sh, w
<1>5. Good(w) BY <1>2, <1>3, <1>4 DEF Good
<1>6. w.client.wrong = v.client.wrong /\ w.client.tools = v.client.tools
      /\ SameRuns(w.client, v.client)
  BY <1>2, <1>3
<1> QED BY <1>2, <1>5, <1>6 DEF w

LEMMA WatchText ==
  ASSUME NEW v, Good(v), NEW c, IsCrumb(c), c.type = "text:delta"
  PROVE  /\ Good(Watch(v, c))
         /\ \A x \in Runs : x # c.run => Watch(v, c).ui.open[x] = v.ui.open[x]
         /\ Watch(v, c).ui.streaming = v.ui.streaming
         /\ Watch(v, c).client.wrong = v.client.wrong
         /\ Watch(v, c).client.tools = v.client.tools
         /\ SameRuns(Watch(v, c).client, v.client)
<1> DEFINE w == Watch(v, c)
           a == v.ui.open[c.run]
           n == v.ui.seq + 1
           more == Event("TEXT_MESSAGE_CONTENT", IF a # 0 THEN a ELSE n)
<1>0. c.run \in Runs /\ UiTypes(v.ui) /\ ClientTypes(v.client) /\ Linked(v.ui, v.client)
  BY DEF IsCrumb, Good, ViewTypes
<1>t. ViewTypes(w) BY WatchTypes DEF Good
<1>m. AgUi(v.ui, c) = MapText(v.ui, c) BY Zenon DEF AgUi
<1>1. CASE a # 0
  <2> DEFINE e == Event("TEXT_MESSAGE_CONTENT", a)
             got == Receive(v.client, e)
  <2>1. AgUi(v.ui, c) = Mapped(v.ui, <<e>>) BY <1>1, <1>m DEF MapText
  <2>2. w.ui = v.ui /\ w.client = got BY <2>1, WatchOne
  <2>3. e.type = "TEXT_MESSAGE_CONTENT" /\ e.id = a BY EventIs
  <2>4. a \in v.client.open BY <1>0, <1>1 DEF Linked, Runs
  <2> HIDE DEF e
  <2>5. Unless(e.id \in v.client.open, e) = {} BY <2>3, <2>4 DEF Unless
  <2>6. got = [v.client EXCEPT !.wrong = @ \cup Unless(e.id \in v.client.open, e)]
    BY <2>3, ReceiveMore
  <2>7. got.wrong = v.client.wrong /\ got.open = v.client.open /\ got.tools = v.client.tools
        /\ got.running = v.client.running /\ got.begun = v.client.begun
    BY <1>0, <2>5, <2>6 DEF ClientTypes
  <2> HIDE DEF w, got
  <2>8. Good(w) BY <1>0, <1>t, <2>2, <2>7 DEF Good, Linked
  <2>9. w.client.wrong = v.client.wrong /\ w.client.tools = v.client.tools
        /\ SameRuns(w.client, v.client)
    BY <2>2, <2>7 DEF SameRuns
  <2> QED BY <2>2, <2>8, <2>9 DEF w
<1>2. CASE a = 0
  <2> DEFINE d == Event("TEXT_MESSAGE_START", n)
             e == Event("TEXT_MESSAGE_CONTENT", n)
             k == [v.ui EXCEPT !.open[c.run] = n, !.seq = @ + 1]
             got == Receive(v.client, d)
             last == Receive(got, e)
  <2>1. AgUi(v.ui, c) = Mapped(k, <<d, e>>) BY <1>2, <1>m DEF MapText
  <2>2. w.ui = k /\ w.client = last BY <2>1, WatchTwo
  <2>3. /\ d.type = "TEXT_MESSAGE_START" /\ d.id = n
        /\ e.type = "TEXT_MESSAGE_CONTENT" /\ e.id = n
    BY EventIs
  <2>4. v.ui.open["r"] \in Nat /\ v.ui.open["c"] \in Nat /\ v.ui.seq \in Nat
    BY <1>0 DEF UiTypes, Runs
  <2>5. n \in Nat /\ n # 0 /\ n # v.ui.open["r"] /\ n # v.ui.open["c"]
        /\ v.ui.open["r"] <= n /\ v.ui.open["c"] <= n
    BY <1>0, <2>4 DEF Linked
  <2> DEFINE o == [v.ui.open EXCEPT ![c.run] = n]
  <2>k. k.open = o /\ k.seq = n /\ k.streaming = v.ui.streaming
    BY <1>0 DEF UiTypes
  <2> HIDE DEF d, e, k, n
  <2>6. n \notin v.client.open BY <1>0, <2>5 DEF Linked
  <2>7. Unless(d.id \notin v.client.open, d) = {} BY <2>3, <2>6 DEF Unless
  <2>8. got = [v.client EXCEPT !.open = @ \cup {d.id},
                               !.wrong = @ \cup Unless(d.id \notin v.client.open, d)]
    BY <2>3, ReceiveOpens
  <2> HIDE DEF got
  <2>9. got.wrong = v.client.wrong /\ got.open = v.client.open \cup {n}
        /\ got.tools = v.client.tools
        /\ got.running = v.client.running /\ got.begun = v.client.begun
        /\ DOMAIN got = DOMAIN v.client
    BY <1>0, <2>3, <2>7, <2>8 DEF ClientTypes
  <2>10. Unless(e.id \in got.open, e) = {} BY <2>3, <2>9 DEF Unless
  <2>11. last = [got EXCEPT !.wrong = @ \cup Unless(e.id \in got.open, e)]
    BY <2>3, ReceiveMore
  <2> HIDE DEF last
  <2>12. last.wrong = v.client.wrong /\ last.open = v.client.open \cup {n}
         /\ last.tools = v.client.tools
         /\ last.running = v.client.running /\ last.begun = v.client.begun
    BY <1>0, <2>9, <2>10, <2>11 DEF ClientTypes
  <2>13. o[c.run] = n /\ \A x \in Runs : x # c.run => o[x] = v.ui.open[x]
    BY <1>0 DEF UiTypes
  <2> HIDE DEF o
  <2>14. Linked(k, last)
    <3>1. CASE c.run = "r"
      <4>1. o["r"] = n /\ o["c"] = v.ui.open["c"] BY <2>13, <3>1 DEF Runs
      <4>2. v.client.open = {v.ui.open["c"]} \ {0} BY <1>0, <1>2, <3>1 DEF Linked
      <4>3. last.open = {n, v.ui.open["c"]} \ {0} BY <2>5, <2>12, <4>2
      <4> QED BY <2>4, <2>5, <2>k, <4>1, <4>3 DEF Linked
    <3>2. CASE c.run = "c"
      <4>1. o["c"] = n /\ o["r"] = v.ui.open["r"] BY <2>13, <3>2 DEF Runs
      <4>2. v.client.open = {v.ui.open["r"]} \ {0} BY <1>0, <1>2, <3>2 DEF Linked
      <4>3. last.open = {v.ui.open["r"], n} \ {0} BY <2>5, <2>12, <4>2
      <4> QED BY <2>4, <2>5, <2>k, <4>1, <4>3 DEF Linked
    <3> QED BY <1>0, <3>1, <3>2 DEF Runs
  <2> HIDE DEF w
  <2>15. Good(w) BY <1>t, <2>2, <2>14 DEF Good
  <2>16. w.client.wrong = v.client.wrong /\ w.client.tools = v.client.tools
         /\ SameRuns(w.client, v.client)
    BY <2>2, <2>12 DEF SameRuns
  <2>17. w.ui.streaming = v.ui.streaming /\ \A x \in Runs : x # c.run => w.ui.open[x] = v.ui.open[x]
    BY <2>2, <2>k, <2>13
  <2> QED BY <2>15, <2>16, <2>17 DEF w
<1> QED BY <1>1, <1>2

\* What a tool's crumb does to the stage the client has its call at.
Moves(w, v, k, to) ==
  /\ w.client.wrong = v.client.wrong /\ w.client.tools = [v.client.tools EXCEPT ![k] = to]
  /\ SameRuns(w.client, v.client)

LEMMA WatchInputStart ==
  ASSUME NEW v, Good(v), NEW c, IsCrumb(c), c.type = "tool:input:start", c.call \in Calls,
         v.client.tools[c.call] = "none"
  PROVE  /\ Good(Watch(v, c)) /\ Moves(Watch(v, c), v, c.call, "TOOL_CALL_START")
         /\ Watch(v, c).ui.open = [v.ui.open EXCEPT ![c.run] = 0]
         /\ Watch(v, c).ui.streaming = v.ui.streaming \cup {c.call}
<1> DEFINE w == Watch(v, c)
           sh == Shut(v.ui, v.client, c.run)
           e == Event("TOOL_CALL_START", c.call)
           z == Closed(v.ui, c.run)
           k == [z EXCEPT !.streaming = @ \cup {c.call}]
           got == Receive(sh, e)
<1>0. c.run \in Runs /\ UiTypes(v.ui) /\ ClientTypes(v.client) /\ Linked(v.ui, v.client)
  BY DEF IsCrumb, Good, ViewTypes
<1>t. ViewTypes(w) BY WatchTypes DEF Good
<1>1. AgUi(v.ui, c) = Mapped(k, Append(Closing(v.ui, c.run), e)) BY DEF AgUi
<1>z. UiTypes(z) /\ z.open = [v.ui.open EXCEPT ![c.run] = 0]
      /\ z.streaming = v.ui.streaming /\ z.seq = v.ui.seq
  BY <1>0, ClosedTypes
<1> HIDE DEF e, z
<1>k. k.open = z.open /\ k.seq = z.seq /\ k.streaming = v.ui.streaming \cup {c.call}
  BY <1>z DEF UiTypes
<1> HIDE DEF k
<1>2. w.ui = k /\ w.client = got BY <1>1, WatchShutThen
<1>3. ClientTypes(sh) /\ Linked(z, sh) /\ sh.wrong = v.client.wrong
      /\ sh.tools = v.client.tools /\ SameRuns(sh, v.client)
  BY <1>0, ShutIs DEF z
<1> HIDE DEF sh
<1>4. "TOOL_CALL_START" \in DOMAIN ToolOrder /\ ToolOrder["TOOL_CALL_START"] = {"none"}
  BY DEF ToolOrder
<1>5. got.tools = [sh.tools EXCEPT ![c.call] = "TOOL_CALL_START"]
      /\ got.wrong = sh.wrong /\ got.open = sh.open /\ SameRuns(got, sh)
  BY <1>3, <1>4, ToolIs DEF e
<1> HIDE DEF w, got
<1>6. Linked(k, got) BY <1>3, <1>5, <1>k DEF Linked
<1>7. Good(w) BY <1>t, <1>2, <1>6 DEF Good
<1>8. Moves(w, v, c.call, "TOOL_CALL_START") BY <1>2, <1>3, <1>5 DEF Moves, SameRuns
<1>9. w.ui.open = [v.ui.open EXCEPT ![c.run] = 0] /\ w.ui.streaming = v.ui.streaming \cup {c.call}
  BY <1>2, <1>k, <1>z
<1> QED BY <1>7, <1>8, <1>9 DEF w

LEMMA WatchInput ==
  ASSUME NEW v, Good(v), NEW c, IsCrumb(c), c.type \in {"tool:input:delta", "tool:input:end"},
         c.call \in Calls, v.client.tools[c.call] \in {"TOOL_CALL_START", "TOOL_CALL_ARGS"}
  PROVE  /\ Good(Watch(v, c)) /\ Watch(v, c).ui = v.ui
         /\ Moves(Watch(v, c), v, c.call,
                  IF c.type = "tool:input:delta" THEN "TOOL_CALL_ARGS" ELSE "TOOL_CALL_END")
<1> DEFINE w == Watch(v, c)
<1>0. ClientTypes(v.client) /\ Linked(v.ui, v.client) /\ ViewTypes(w)
  BY WatchTypes DEF Good, ViewTypes
<1>1. ASSUME NEW t \in DOMAIN ToolOrder, v.client.tools[c.call] \in ToolOrder[t],
             AgUi(v.ui, c) = Mapped(v.ui, <<Event(t, c.call)>>)
      PROVE  Good(w) /\ w.ui = v.ui /\ Moves(w, v, c.call, t)
  <2> DEFINE e == Event(t, c.call)
             got == Receive(v.client, e)
  <2>1. w.ui = v.ui /\ w.client = got BY <1>1, WatchOne
  <2>2. got.tools = [v.client.tools EXCEPT ![c.call] = t]
        /\ got.wrong = v.client.wrong /\ got.open = v.client.open /\ SameRuns(got, v.client)
    BY <1>0, <1>1, ToolIs
  <2> HIDE DEF w, got
  <2>3. Good(w) BY <1>0, <2>1, <2>2 DEF Good, Linked
  <2>4. Moves(w, v, c.call, t) BY <2>1, <2>2 DEF Moves
  <2> QED BY <2>1, <2>3, <2>4
<1>2. CASE c.type = "tool:input:delta"
  <2>1. AgUi(v.ui, c) = Mapped(v.ui, <<Event("TOOL_CALL_ARGS", c.call)>>) BY <1>2 DEF AgUi
  <2>2. "TOOL_CALL_ARGS" \in DOMAIN ToolOrder
        /\ ToolOrder["TOOL_CALL_ARGS"] = {"TOOL_CALL_START", "TOOL_CALL_ARGS"}
    BY DEF ToolOrder
  <2>3. Good(w) /\ w.ui = v.ui /\ Moves(w, v, c.call, "TOOL_CALL_ARGS") BY <1>1, <2>1, <2>2
  <2> QED BY <1>2, <2>3
<1>3. CASE c.type = "tool:input:end"
  <2>1. AgUi(v.ui, c) = Mapped(v.ui, <<Event("TOOL_CALL_END", c.call)>>) BY <1>3 DEF AgUi
  <2>2. "TOOL_CALL_END" \in DOMAIN ToolOrder
        /\ ToolOrder["TOOL_CALL_END"] = {"TOOL_CALL_START", "TOOL_CALL_ARGS"}
    BY DEF ToolOrder
  <2>3. Good(w) /\ w.ui = v.ui /\ Moves(w, v, c.call, "TOOL_CALL_END") BY <1>1, <2>1, <2>2
  <2> QED BY <1>3, <2>3
<1> QED BY <1>2, <1>3

LEMMA WatchOutcome ==
  ASSUME NEW v, Good(v), NEW c, IsCrumb(c), c.type \in {"tool:result", "tool:error"},
         c.call \in Calls, v.client.tools[c.call] = "TOOL_CALL_END"
  PROVE  /\ Good(Watch(v, c)) /\ Moves(Watch(v, c), v, c.call, "TOOL_CALL_RESULT")
         /\ Watch(v, c).ui.open = v.ui.open /\ Watch(v, c).ui.streaming = v.ui.streaming
<1> DEFINE w == Watch(v, c)
           e == Event("TOOL_CALL_RESULT", c.call)
           k == [v.ui EXCEPT !.seq = @ + 1]
           got == Receive(v.client, e)
<1>0. UiTypes(v.ui) /\ ClientTypes(v.client) /\ Linked(v.ui, v.client) /\ ViewTypes(w)
  BY WatchTypes DEF Good, ViewTypes
<1>1. AgUi(v.ui, c) = Mapped(k, <<e>>) BY DEF AgUi
<1>2. w.ui = k /\ w.client = got BY <1>1, WatchOne
<1>3. "TOOL_CALL_RESULT" \in DOMAIN ToolOrder /\ ToolOrder["TOOL_CALL_RESULT"] = {"TOOL_CALL_END"}
  BY DEF ToolOrder
<1>4. got.tools = [v.client.tools EXCEPT ![c.call] = "TOOL_CALL_RESULT"]
      /\ got.wrong = v.client.wrong /\ got.open = v.client.open /\ SameRuns(got, v.client)
  BY <1>0, <1>3, ToolIs
<1>5. k.open = v.ui.open /\ k.streaming = v.ui.streaming /\ k.seq = v.ui.seq + 1
  BY <1>0 DEF UiTypes
<1>6. v.ui.open["r"] \in Nat /\ v.ui.open["c"] \in Nat /\ v.ui.seq \in Nat
  BY <1>0 DEF UiTypes, Runs
<1> HIDE DEF w, got, k
<1>7. Linked(k, got) BY <1>0, <1>4, <1>5, <1>6 DEF Linked
<1>8. Good(w) BY <1>0, <1>2, <1>7 DEF Good
<1>9. Moves(w, v, c.call, "TOOL_CALL_RESULT") BY <1>2, <1>4 DEF Moves
<1>10. w.ui.open = v.ui.open /\ w.ui.streaming = v.ui.streaming BY <1>2, <1>5
<1> QED BY <1>8, <1>9, <1>10 DEF w

\* A call whose input was streamed was announced by that input.
LEMMA WatchCallStreamed ==
  ASSUME NEW v, Good(v), NEW c, IsCrumb(c), c.type = "tool:call", c.call \in v.ui.streaming
  PROVE  /\ Good(Watch(v, c)) /\ Watch(v, c).client = v.client
         /\ Watch(v, c).ui.open = v.ui.open
         /\ Watch(v, c).ui.streaming = v.ui.streaming \ {c.call}
<1> DEFINE w == Watch(v, c)
           k == [v.ui EXCEPT !.streaming = @ \ {c.call}]
<1>0. UiTypes(v.ui) /\ ClientTypes(v.client) /\ Linked(v.ui, v.client) /\ ViewTypes(w)
  BY WatchTypes DEF Good, ViewTypes
<1>m. AgUi(v.ui, c) = MapToolCall(v.ui, c) BY DEF AgUi
<1>1. AgUi(v.ui, c) = Mapped(k, << >>) BY <1>m DEF MapToolCall
<1>2. w.ui = k /\ w.client = v.client BY <1>1, WatchNone
<1>3. k.open = v.ui.open /\ k.streaming = v.ui.streaming \ {c.call} /\ k.seq = v.ui.seq
  BY <1>0 DEF UiTypes
<1> HIDE DEF w, k
<1>4. Good(w) BY <1>0, <1>2, <1>3 DEF Good, Linked
<1> QED BY <1>2, <1>3, <1>4 DEF w

LEMMA WatchCallAtOnce ==
  ASSUME NEW v, Good(v), NEW c, IsCrumb(c), c.type = "tool:call", c.call \in Calls,
         c.call \notin v.ui.streaming, v.client.tools[c.call] = "none"
  PROVE  /\ Good(Watch(v, c)) /\ Moves(Watch(v, c), v, c.call, "TOOL_CALL_END")
         /\ Watch(v, c).ui = Closed(v.ui, c.run)
<1> DEFINE w == Watch(v, c)
           sh == Shut(v.ui, v.client, c.run)
           z == Closed(v.ui, c.run)
           d1 == Event("TOOL_CALL_START", c.call)
           d2 == Event("TOOL_CALL_ARGS", c.call)
           d3 == Event("TOOL_CALL_END", c.call)
           g1 == Receive(sh, d1)
           g2 == Receive(g1, d2)
           g3 == Receive(g2, d3)
<1>0. c.run \in Runs /\ UiTypes(v.ui) /\ ClientTypes(v.client) /\ Linked(v.ui, v.client)
  BY DEF IsCrumb, Good, ViewTypes
<1>t. ViewTypes(w) BY WatchTypes DEF Good
<1>m. AgUi(v.ui, c) = MapToolCall(v.ui, c) BY DEF AgUi
<1>1. AgUi(v.ui, c) = Mapped(z, Closing(v.ui, c.run) \o <<d1, d2, d3>>) BY <1>m DEF MapToolCall
<1>2. w.ui = z /\ w.client = g3 BY <1>1, WatchShutCall
<1>3. ClientTypes(sh) /\ Linked(z, sh) /\ sh.wrong = v.client.wrong
      /\ sh.tools = v.client.tools /\ SameRuns(sh, v.client)
  BY <1>0, ShutIs
<1>4. /\ "TOOL_CALL_START" \in DOMAIN ToolOrder /\ ToolOrder["TOOL_CALL_START"] = {"none"}
      /\ "TOOL_CALL_ARGS" \in DOMAIN ToolOrder
      /\ "TOOL_CALL_START" \in ToolOrder["TOOL_CALL_ARGS"]
      /\ "TOOL_CALL_END" \in DOMAIN ToolOrder /\ "TOOL_CALL_ARGS" \in ToolOrder["TOOL_CALL_END"]
  BY DEF ToolOrder
<1> HIDE DEF sh, w, z
<1>5. ClientTypes(g1) /\ g1.tools = [sh.tools EXCEPT ![c.call] = "TOOL_CALL_START"]
      /\ g1.wrong = sh.wrong /\ g1.open = sh.open /\ SameRuns(g1, sh)
  BY <1>3, <1>4, ToolIs
<1> HIDE DEF g1
<1>a. g1.tools[c.call] = "TOOL_CALL_START" BY <1>3, <1>5 DEF ClientTypes
<1>6. g1.tools[c.call] \in ToolOrder["TOOL_CALL_ARGS"] /\ ClientTypes(g1)
      /\ "TOOL_CALL_ARGS" \in DOMAIN ToolOrder
  BY <1>a, <1>4, <1>5
<1>7. ClientTypes(g2) /\ g2.tools = [g1.tools EXCEPT ![c.call] = "TOOL_CALL_ARGS"]
      /\ g2.wrong = g1.wrong /\ g2.open = g1.open /\ SameRuns(g2, g1)
  BY <1>6, ToolIs
<1> HIDE DEF g2
<1>b. g2.tools[c.call] = "TOOL_CALL_ARGS" BY <1>5, <1>7 DEF ClientTypes
<1>8. g2.tools[c.call] \in ToolOrder["TOOL_CALL_END"] /\ ClientTypes(g2)
      /\ "TOOL_CALL_END" \in DOMAIN ToolOrder
  BY <1>b, <1>4, <1>7
<1>9. ClientTypes(g3) /\ g3.tools = [g2.tools EXCEPT ![c.call] = "TOOL_CALL_END"]
      /\ g3.wrong = g2.wrong /\ g3.open = g2.open /\ SameRuns(g3, g2)
  BY <1>8, ToolIs
<1> HIDE DEF g3
<1>10. g3.tools = [v.client.tools EXCEPT ![c.call] = "TOOL_CALL_END"]
  BY <1>0, <1>3, <1>5, <1>7, <1>9 DEF ClientTypes
<1>11. Linked(z, g3) BY <1>3, <1>5, <1>7, <1>9 DEF Linked
<1>12. Good(w) BY <1>t, <1>2, <1>11 DEF Good
<1>13. Moves(w, v, c.call, "TOOL_CALL_END")
  BY <1>2, <1>3, <1>5, <1>7, <1>9, <1>10 DEF Moves, SameRuns
<1> QED BY <1>2, <1>12, <1>13 DEF w, z

-----------------------------------------------------------------------------
(* What an emitted crumb changes.                                          *)
\* The crumb c is kept from the stream, or shown as d.
Hides(c) == c.run = "c" /\ ~direct /\ c.type # "human:required" /\ vis # "passthrough"
Renamed(c, type) == Crumb(type, c.run, c.call, c.code)

LEMMA SurfacesAsIs ==
  ASSUME NEW c, ~Hides(c)
  PROVE  Surfaces(c) = <<c>>
<1>1. CASE c.run = "c" /\ ~direct
  <2>1. Surfaces(c) = Filter(c) BY <1>1 DEF Surfaces
  <2>2. c.type = "human:required" \/ vis = "passthrough" BY <1>1 DEF Hides
  <2>3. Filter(c) = <<c>> BY <2>2 DEF Filter
  <2> QED BY <2>1, <2>3
<1>2. CASE ~(c.run = "c" /\ ~direct) BY <1>2 DEF Surfaces
<1> QED BY <1>1, <1>2

LEMMA SurfacesStart ==
  ASSUME NEW c, IsCrumb(c), Hides(c), vis = "mediate", c.type = "agent:run:start"
  PROVE  Surfaces(c) = <<Renamed(c, "subagent:run:start")>>
<1>1. c = [type |-> c.type, run |-> c.run, call |-> c.call, code |-> c.code]
  BY DEF IsCrumb, Crumb
<1>2. [c EXCEPT !.type = "subagent:run:start"] = Renamed(c, "subagent:run:start")
  BY <1>1 DEF Renamed, Crumb
<1>3. Surfaces(c) = Filter(c) BY DEF Surfaces, Hides
<1>4. Filter(c) = <<[c EXCEPT !.type = "subagent:run:start"]>> BY DEF Filter, Hides
<1> QED BY <1>2, <1>3, <1>4

LEMMA SurfacesEnd ==
  ASSUME NEW c, IsCrumb(c), Hides(c), vis = "mediate", c.type = "agent:run:end"
  PROVE  Surfaces(c) = <<Renamed(c, "subagent:run:end")>>
<1>1. c = [type |-> c.type, run |-> c.run, call |-> c.call, code |-> c.code]
  BY DEF IsCrumb, Crumb
<1>2. [c EXCEPT !.type = "subagent:run:end"] = Renamed(c, "subagent:run:end")
  BY <1>1 DEF Renamed, Crumb
<1>3. Surfaces(c) = Filter(c) BY DEF Surfaces, Hides
<1>4. Filter(c) = <<[c EXCEPT !.type = "subagent:run:end"]>> BY DEF Filter, Hides
<1> QED BY <1>2, <1>3, <1>4

LEMMA SurfacesNot ==
  ASSUME NEW c, Hides(c), vis = "mediate" => c.type \notin {"agent:run:start", "agent:run:end"}
  PROVE  Surfaces(c) = << >>
<1>1. Surfaces(c) = Filter(c) BY DEF Surfaces, Hides
<1>2. Filter(c) = << >> BY DEF Filter, Hides
<1> QED BY <1>1, <1>2

\* What the end of the stream adds.
Closes(v, ending) ==
  IF ending = "on" THEN v ELSE IF ending = "returns" THEN StreamReturns(v)
  ELSE StreamThrows(v, ending)
Streams(ending, v) ==
  /\ view' = IF stream = "closed" THEN view ELSE Closes(v, ending)
  /\ stream' = IF ending = "on" THEN stream ELSE "closed"

LEMMA EmitNot ==
  ASSUME NEW c, NEW ending, Emit(c, ending), Surfaces(c) = << >>, status \in [Runs -> Statuses]
  PROVE  spans' = spans /\ status' = status /\ Streams(ending, view)
<1>1. spans' = spans BY DEF Emit
<1>2. status' = status BY DEF Emit
<1>3. stream' = IF ending = "on" THEN stream ELSE "closed" BY DEF Emit
<1>4. view' = IF stream = "closed" THEN view ELSE Closes(view, ending) BY DEF Emit, Closes
<1> QED BY <1>1, <1>2, <1>3, <1>4 DEF Streams

LEMMA EmitAs ==
  ASSUME NEW c, NEW ending, NEW d, Emit(c, ending), Surfaces(c) = <<d>>
  PROVE  /\ spans' = Otel(spans, d) /\ status' = [status EXCEPT ![c.run] = Derive(@, d)]
         /\ Streams(ending, Watch(view, d))
<1>0. Surfaces(c) # << >> /\ Surfaces(c)[1] = d BY Tuples
<1>1. spans' = Otel(spans, d) BY <1>0 DEF Emit, OnCrumb
<1>2. status' = [status EXCEPT ![c.run] = Derive(@, d)] BY <1>0 DEF Emit
<1>3. stream' = IF ending = "on" THEN stream ELSE "closed" BY DEF Emit
<1>4. view' = IF stream = "closed" THEN view ELSE Closes(Watch(view, d), ending)
  BY <1>0 DEF Emit, Closes
<1> QED BY <1>1, <1>2, <1>3, <1>4 DEF Streams

-----------------------------------------------------------------------------
(* The calls and the two runs.                                             *)
LEMMA CallsAdd ==
  ASSUME NEW S, NEW m \in 0..MaxCalls, CallsOK(S, m), m < MaxCalls, NEW x \in Runs,
         NEW at \in {"input", "called"}
  PROVE  LET c == [id |-> m + 1, run |-> x, at |-> at] IN
         CallsOK(S \cup {c}, m + 1) /\ c \in CallRow /\ m + 1 \in 0..MaxCalls /\ m + 1 \in Calls
         /\ \A d \in S : d.id # m + 1
<1> DEFINE c == [id |-> m + 1, run |-> x, at |-> at]
<1>0. MaxCalls \in Nat BY BoundAssumption
<1>1. m + 1 \in 1..MaxCalls /\ m + 1 \in 0..MaxCalls BY <1>0
<1>2. c \in CallRow BY <1>1 DEF CallRow, Calls
<1>3. \A d \in S : d.id \in 1..MaxCalls /\ d.id <= m BY DEF CallsOK, CallRow, Calls
<1>4. \A d \in S : d.id <= m + 1 /\ d.id # m + 1 BY <1>0, <1>3
<1>5. c.id = m + 1 /\ m + 1 <= m + 1 BY <1>0
<1> HIDE DEF c
<1>6. CallsOK(S \cup {c}, m + 1) BY <1>2, <1>4, <1>5 DEF CallsOK
<1> QED BY <1>1, <1>2, <1>4, <1>6 DEF c, Calls

LEMMA CallsSub ==
  ASSUME NEW S, NEW m, CallsOK(S, m), NEW T, T \subseteq S
  PROVE  CallsOK(T, m)
BY DEF CallsOK

LEMMA MoveIs ==
  ASSUME NEW c \in CallRow, NEW at \in {"input", "early", "ready", "called", "lost"}
  PROVE  LET d == [c EXCEPT !.at = at] IN
         d \in CallRow /\ d.id = c.id /\ d.run = c.run /\ d.at = at
BY DEF CallRow

LEMMA CallsMove ==
  ASSUME NEW S, NEW m, CallsOK(S, m), NEW c \in S,
         NEW at \in {"input", "early", "ready", "called", "lost"}
  PROVE  CallsOK((S \ {c}) \cup {[c EXCEPT !.at = at]}, m)
<1> DEFINE d == [c EXCEPT !.at = at]
<1>1. c \in CallRow BY DEF CallsOK
<1>2. d \in CallRow /\ d.id = c.id BY <1>1, MoveIs
<1> HIDE DEF d
<1>3. \A e \in S \ {c} : e.id # d.id BY <1>2 DEF CallsOK
<1>4. CallsOK((S \ {c}) \cup {d}, m) BY <1>2, <1>3 DEF CallsOK
<1> QED BY <1>4 DEF d

LEMMA LostIs ==
  ASSUME NEW P, P \subseteq CallRow
  PROVE  /\ Lost(P) \subseteq CallRow
         /\ \A d \in Lost(P) : d.at = "lost" /\ \E c \in P : /\ c.at \in {"early", "called"}
                                                           /\ c.id = d.id /\ c.run = d.run
                                                           /\ d = [c EXCEPT !.at = "lost"]
         /\ \A c \in P : c.at \in {"early", "called"} => [c EXCEPT !.at = "lost"] \in Lost(P)
<1>1. ASSUME NEW d \in Lost(P)
      PROVE  \E c \in P : c.at \in {"early", "called"} /\ d = [c EXCEPT !.at = "lost"]
  BY DEF Lost, Running
<1>2. ASSUME NEW d \in Lost(P)
      PROVE  d \in CallRow /\ d.at = "lost" /\ \E c \in P : /\ c.at \in {"early", "called"}
                                                           /\ c.id = d.id /\ c.run = d.run
                                                           /\ d = [c EXCEPT !.at = "lost"]
  <2>1. PICK c \in P : c.at \in {"early", "called"} /\ d = [c EXCEPT !.at = "lost"] BY <1>1
  <2>2. c \in CallRow OBVIOUS
  <2>3. [c EXCEPT !.at = "lost"] \in CallRow /\ [c EXCEPT !.at = "lost"].id = c.id
        /\ [c EXCEPT !.at = "lost"].run = c.run /\ [c EXCEPT !.at = "lost"].at = "lost"
    BY <2>2, MoveIs
  <2>4. d \in CallRow /\ d.id = c.id /\ d.run = c.run /\ d.at = "lost" BY <2>1, <2>3
  <2> QED BY <2>1, <2>4
<1>3. \A c \in P : c.at \in {"early", "called"} => [c EXCEPT !.at = "lost"] \in Lost(P)
  BY DEF Lost, Running
<1> QED BY <1>2, <1>3

LEMMA CallsLose ==
  ASSUME NEW S, NEW m, CallsOK(S, m), NEW P, P \subseteq S
  PROVE  CallsOK((S \ P) \cup Lost(P), m)
<1>0. P \subseteq CallRow /\ S \subseteq CallRow BY DEF CallsOK
<1>1. Lost(P) \subseteq CallRow BY <1>0, LostIs
<1>2. \A d \in Lost(P) : \E c \in P : c.id = d.id /\ d = [c EXCEPT !.at = "lost"]
  BY <1>0, LostIs
<1>3. \A d \in Lost(P) : d.id <= m BY <1>2 DEF CallsOK
<1>4. ASSUME NEW d \in Lost(P), NEW e \in S \ P PROVE d.id # e.id
  BY <1>2 DEF CallsOK
<1>5. ASSUME NEW d \in Lost(P), NEW e \in Lost(P), d.id = e.id PROVE d = e
  <2>1. PICK c \in P : c.id = d.id /\ d = [c EXCEPT !.at = "lost"] BY <1>2
  <2>2. PICK b \in P : b.id = e.id /\ e = [b EXCEPT !.at = "lost"] BY <1>2
  <2>3. c = b BY <1>5, <2>1, <2>2 DEF CallsOK
  <2> QED BY <2>1, <2>2, <2>3
<1>6. \A d, e \in (S \ P) \cup Lost(P) : d.id = e.id => d = e BY <1>4, <1>5 DEF CallsOK
<1> QED BY <1>0, <1>1, <1>3, <1>6 DEF CallsOK

LEMMA PendingIs ==
  ASSUME NEW x
  PROVE  Pending(x) \subseteq calls
         /\ \A c \in calls : c \in Pending(x) <=> c.run = x /\ c.at # "lost"
BY DEF Pending, Of

\* The end of the stream is decided by the crumb's `ending` alone.
LEMMA EmitStream ==
  ASSUME NEW c, NEW ending, Emit(c, ending)
  PROVE  stream' = IF ending = "on" THEN stream ELSE "closed"
BY DEF Emit

\* RunTypes and RunsOK are about the runs; they do not read what is shown of them.
RunBase == RunTypes /\ RunsOK

LEMMA RunStates ==
  ASSUME state \in [Runs -> Places]
  PROVE  /\ state["r"] \in Places /\ state["c"] \in Places
         /\ \A y \in Places : /\ [state EXCEPT !["r"] = y]["r"] = y
                              /\ [state EXCEPT !["r"] = y]["c"] = state["c"]
                              /\ [state EXCEPT !["c"] = y]["c"] = y
                              /\ [state EXCEPT !["c"] = y]["r"] = state["r"]
                              /\ [state EXCEPT !["r"] = y] \in [Runs -> Places]
                              /\ [state EXCEPT !["c"] = y] \in [Runs -> Places]
BY DEF Runs

\* Steps that leave the runs where they are.
LEMMA SameStates ==
  ASSUME RunBase, UNCHANGED <<state, deleg, direct, pauses, stream>>,
         minted' \in 0..MaxCalls, CallsOK(calls', minted')
  PROVE  RunBase'
BY DEF RunBase, RunTypes, RunsOK, Live

LEMMA RunQuiet ==
  ASSUME RunBase
  PROVE  /\ \A x \in Runs : Text(x) => RunBase'
         /\ \A x \in Runs : CancelReads(x) => RunBase'
         /\ CancelDecides => RunBase'
         /\ UNCHANGED vars => RunBase'
         /\ \A c \in calls : InputGrows(c) => RunBase'
         /\ \A x \in Runs : RetryStep(x) => RunBase'
         /\ \A c \in calls : \A type : Outcome(c, type) => RunBase'
         /\ \A c \in calls : InputEnds(c) => RunBase'
         /\ \A c \in calls : Execute(c) => RunBase'
<1>0. minted \in 0..MaxCalls /\ CallsOK(calls, minted) BY DEF RunBase, RunTypes
<1>1. ASSUME NEW x \in Runs, Text(x) PROVE RunBase'
  BY <1>0, <1>1, SameStates, EmitStream DEF Text
<1>2. ASSUME NEW x \in Runs, CancelReads(x) PROVE RunBase'
  BY <1>0, <1>2, SameStates DEF CancelReads, source
<1>3. ASSUME CancelDecides PROVE RunBase'
  BY <1>0, <1>3, SameStates DEF CancelDecides, source
<1>4. ASSUME UNCHANGED vars PROVE RunBase'
  BY <1>0, <1>4, SameStates DEF vars, source
<1>5. ASSUME NEW c \in calls, InputGrows(c) PROVE RunBase'
  BY <1>0, <1>5, SameStates, EmitStream DEF InputGrows, source
<1>6. ASSUME NEW x \in Runs, RetryStep(x) PROVE RunBase'
  <2>1. calls' \subseteq calls /\ minted' = minted BY <1>6 DEF RetryStep
  <2>2. CallsOK(calls', minted') BY <1>0, <2>1, CallsSub
  <2> QED BY <1>0, <1>6, <2>1, <2>2, SameStates DEF RetryStep
<1>7. ASSUME NEW c \in calls, NEW type, Outcome(c, type) PROVE RunBase'
  <2>1. calls' \subseteq calls /\ minted' = minted BY <1>7 DEF Outcome
  <2>2. CallsOK(calls', minted') BY <1>0, <2>1, CallsSub
  <2>3. stream' = stream BY <1>7, EmitStream DEF Outcome
  <2> QED BY <1>0, <1>7, <2>1, <2>2, <2>3, SameStates DEF Outcome
<1>8. ASSUME NEW c \in calls, NEW at \in {"input", "early", "ready", "called", "lost"},
             Becomes(c, at), UNCHANGED <<state, deleg, direct, pauses, minted, stream>>
      PROVE  RunBase'
  <2>1. CallsOK(calls', minted') BY <1>0, <1>8, CallsMove DEF Becomes
  <2> QED BY <1>0, <1>8, <2>1, SameStates
<1>9. ASSUME NEW c \in calls, InputEnds(c) PROVE RunBase'
  <2>1. stream' = stream BY <1>9, EmitStream DEF InputEnds
  <2>2. \E at \in {"input", "early", "ready", "called", "lost"} : Becomes(c, at)
    BY <1>9 DEF InputEnds
  <2> QED BY <1>8, <1>9, <2>1, <2>2 DEF InputEnds
<1>10. ASSUME NEW c \in calls, Execute(c) PROVE RunBase'
  <2>1. stream' = stream BY <1>10, EmitStream DEF Execute
  <2>2. \E at \in {"input", "early", "ready", "called", "lost"} : Becomes(c, at)
    BY <1>10 DEF Execute
  <2> QED BY <1>8, <1>10, <2>1, <2>2 DEF Execute
<1> QED BY <1>1, <1>2, <1>3, <1>4, <1>5, <1>6, <1>7, <1>9, <1>10

LEMMA RunCalls ==
  ASSUME RunBase, NEW x \in Runs, InputStarts(x) \/ CallsAtOnce(x)
  PROVE  RunBase'
<1>0. minted \in 0..MaxCalls /\ CallsOK(calls, minted) BY DEF RunBase, RunTypes
<1>1. PICK at \in {"input", "called"} : calls' = calls \cup {NewCall(x, at)}
  BY DEF InputStarts, CallsAtOnce
<1>2. minted < MaxCalls /\ minted' = minted + 1 /\ stream' = stream
      /\ UNCHANGED <<state, deleg, direct, pauses>>
  BY EmitStream DEF InputStarts, CallsAtOnce
<1>3. CallsOK(calls', minted + 1) /\ minted + 1 \in 0..MaxCalls
  BY <1>0, <1>1, <1>2, CallsAdd DEF NewCall
<1> QED BY <1>2, <1>3, SameStates

LEMMA RunBegins ==
  ASSUME RunBase, Begin \/ Refused
  PROVE  RunBase'
<1>1. CASE Begin
  <2>1. stream' = stream BY <1>1, EmitStream DEF Begin
  <2>2. state' = [state EXCEPT !["r"] = "live"] /\ "live" \in Places BY <1>1 DEF Begin, Places
  <2>3. state'["r"] = "live" /\ state'["c"] = state["c"] /\ state' \in [Runs -> Places]
    BY <2>2, RunStates DEF RunBase, RunTypes
  <2> QED BY <1>1, <2>1, <2>3 DEF RunBase, RunTypes, RunsOK, Begin, Live
<1>2. CASE Refused BY <1>2 DEF Refused, source, RunBase, RunTypes, RunsOK, Live
<1> QED BY <1>1, <1>2

LEMMA RunDelegates ==
  ASSUME RunBase, NEW c \in calls, Delegate(c)
  PROVE  RunBase'
<1>1. stream' = stream BY EmitStream DEF Delegate
<1>2. state' = [state EXCEPT !["c"] = "live"] /\ "live" \in Places BY DEF Delegate, Places
<1>3. state'["c"] = "live" /\ state'["r"] = state["r"] /\ state' \in [Runs -> Places]
  BY <1>2, RunStates DEF RunBase, RunTypes
<1>4. c.id \in 1..MaxCalls BY DEF RunBase, RunTypes, CallsOK, CallRow, Calls
<1>5. deleg' \in Nat /\ deleg' # 0 BY <1>4 DEF Delegate
<1> QED BY <1>1, <1>3, <1>5 DEF RunBase, RunTypes, RunsOK, Delegate, Live

LEMMA RunChildEnds ==
  ASSUME RunBase, NEW how \in {"done", "failed", "canceled"}, NEW crumb, ChildEnds(how, crumb)
  PROVE  RunBase'
<1>0. CallsOK(calls, minted) /\ state \in [Runs -> Places] BY DEF RunBase, RunTypes
<1>1. stream' = stream BY EmitStream DEF ChildEnds
<1>2. state' = [state EXCEPT !["c"] = how, !["r"] = IF direct /\ how = "done" THEN "live" ELSE @]
  BY DEF ChildEnds
<1>3. state'["c"] = how /\ state'["r"] = (IF direct /\ how = "done" THEN "live" ELSE state["r"])
      /\ state' \in [Runs -> Places]
  BY <1>0, <1>2 DEF Runs, Places
<1>4. Pending("c") \subseteq calls BY PendingIs
<1>5. CallsOK((calls \ Pending("c")) \cup Lost(Pending("c")), minted)
  BY <1>0, <1>4, CallsLose
<1>6. CallsOK(calls', minted') BY <1>0, <1>5 DEF ChildEnds
<1>7. RunTypes' BY <1>1, <1>3, <1>6 DEF RunBase, RunTypes, ChildEnds
<1>8. UNCHANGED <<deleg, direct, pauses>> /\ state["c"] = "live" BY DEF ChildEnds, Live
<1>9. RunsOK' BY <1>0, <1>1, <1>3, <1>8 DEF RunBase, RunTypes, RunsOK, Live
<1> QED BY <1>7, <1>9 DEF RunBase

LEMMA RunEnds ==
  ASSUME RunBase, NEW how \in {"done", "failed", "canceled"}, NEW crumb, NEW code, code # "on",
         Ending(how, crumb, code), Live("r"), ~Live("c")
  PROVE  RunBase'
<1>0. CallsOK(calls, minted) /\ state \in [Runs -> Places] BY DEF RunBase, RunTypes
<1>1. stream' = "closed" BY EmitStream DEF Ending
<1>2. state' = [state EXCEPT !["r"] = how] /\ how \in Places BY DEF Ending, Places
<1>3. state'["r"] = how /\ state'["c"] = state["c"] /\ state' \in [Runs -> Places]
  BY <1>0, <1>2, RunStates
<1>4. Pending("r") \subseteq calls BY PendingIs
<1>5. CallsOK(calls', minted') BY <1>0, <1>4, CallsLose DEF Ending
<1>7. RunTypes' BY <1>1, <1>3, <1>5 DEF RunBase, RunTypes, Ending
<1>8. UNCHANGED <<deleg, direct, pauses>> BY DEF Ending
<1>9. RunsOK' BY <1>0, <1>1, <1>3, <1>8 DEF RunBase, RunTypes, RunsOK, Live
<1> QED BY <1>7, <1>9 DEF RunBase

LEMMA RunPauses ==
  ASSUME RunBase, NEW x \in Runs, Pauses(x)
  PROVE  RunBase'
<1>0. CallsOK(calls, minted) /\ state \in [Runs -> Places] BY DEF RunBase, RunTypes
<1>1. stream' = "closed" BY EmitStream DEF Pauses
<1>2. state'["r"] = "paused" /\ state'["c"] = (IF x = "c" THEN "paused" ELSE state["c"])
      /\ state' \in [Runs -> Places]
  BY <1>0 DEF Pauses, Runs, Places
<1> DEFINE P == Pending("r") \cup Pending("c")
<1>3. P \subseteq calls BY PendingIs
<1>4. CallsOK((calls \ P) \cup Lost(P), minted) BY <1>0, <1>3, CallsLose
<1>5. Lost(Pending("r")) \subseteq Lost(P) BY DEF Lost, Running
<1>6. calls' \subseteq (calls \ P) \cup Lost(P) /\ minted' = minted BY <1>5 DEF Pauses
<1>7. CallsOK(calls', minted') BY <1>4, <1>6, CallsSub
<1>8. pauses' \in Nat /\ pauses' > 0 BY DEF RunBase, RunTypes, Pauses
<1> QED BY <1>1, <1>2, <1>7, <1>8 DEF RunBase, RunTypes, RunsOK, Pauses, Live, Runs

LEMMA RunResumes ==
  ASSUME RunBase, Resumes
  PROVE  RunBase'
<1> DEFINE x == IF state["c"] = "paused" THEN "c" ELSE "r"
<1>0. state \in [Runs -> Places] BY DEF RunBase, RunTypes
<1>1. /\ state[x] = "paused" /\ state' = [state EXCEPT ![x] = "live"]
      /\ direct' = (direct \/ x = "c")
      /\ UNCHANGED <<calls, deleg, pauses, minted, stream>>
  BY DEF Resumes
<1>2. CASE state["c"] = "paused"
  <2>1. state'["c"] = "live" /\ state'["r"] = state["r"] /\ state' \in [Runs -> Places]
    BY <1>0, <1>1, <1>2, RunStates DEF Places
  <2>2. direct' = TRUE BY <1>1, <1>2 DEF RunBase, RunTypes
  <2> QED BY <1>1, <1>2, <2>1, <2>2 DEF RunBase, RunTypes, RunsOK, Live
<1>3. CASE state["c"] # "paused"
  <2>1. state'["r"] = "live" /\ state'["c"] = state["c"] /\ state' \in [Runs -> Places]
    BY <1>0, <1>1, <1>3, RunStates DEF Places
  <2>2. direct' = direct BY <1>1, <1>3 DEF RunBase, RunTypes
  <2> QED BY <1>1, <1>3, <2>1, <2>2 DEF RunBase, RunTypes, RunsOK, Live
<1> QED BY <1>2, <1>3

-----------------------------------------------------------------------------
(* The calls under way.                                                    *)
RunInv == RunBase /\ CallsLive

LEMMA StillLive ==
  ASSUME RunInv, calls' \subseteq calls, \A x \in Runs : Live(x) => Live(x)'
  PROVE  CallsLive'
<1>1. \A c \in calls : c.run \in Runs BY DEF RunInv, RunBase, RunTypes, CallsOK, CallRow
<1> QED BY <1>1 DEF RunInv, CallsLive

LEMMA LiveQuiet ==
  ASSUME RunInv, calls' \subseteq calls, state' = state
  PROVE  CallsLive'
BY StillLive DEF Live

LEMMA LiveCalls ==
  ASSUME RunInv, NEW x \in Runs, InputStarts(x) \/ CallsAtOnce(x)
  PROVE  CallsLive'
<1>1. PICK at \in {"input", "called"} : calls' = calls \cup {NewCall(x, at)}
  BY DEF InputStarts, CallsAtOnce
<1>2. NewCall(x, at).run = x BY DEF NewCall
<1>3. Live(x) /\ state' = state BY DEF InputStarts, CallsAtOnce
<1> QED BY <1>1, <1>2, <1>3 DEF RunInv, CallsLive, Live

LEMMA LiveMoves ==
  ASSUME RunInv, NEW c \in calls, InputEnds(c) \/ Execute(c)
  PROVE  CallsLive'
<1>1. PICK at \in {"input", "early", "ready", "called", "lost"} : Becomes(c, at)
  BY DEF InputEnds, Execute
<1>2. c \in CallRow BY DEF RunInv, RunBase, RunTypes, CallsOK
<1>3. [c EXCEPT !.at = at].run = c.run BY <1>2, MoveIs
<1>4. Live(c.run) /\ state' = state BY DEF InputEnds, Execute
<1> QED BY <1>1, <1>3, <1>4 DEF RunInv, CallsLive, Live, Becomes

LEMMA LiveLost ==
  ASSUME RunInv, NEW x \in Runs, calls' \subseteq (calls \ Pending(x)) \cup Lost(Pending(x)),
         \A y \in Runs : y # x /\ Live(y) => Live(y)'
  PROVE  CallsLive'
<1>0. calls \subseteq CallRow BY DEF RunInv, RunBase, RunTypes, CallsOK
<1>1. Pending(x) \subseteq CallRow BY <1>0, PendingIs
<1>2. \A c \in Lost(Pending(x)) : c.at = "lost" BY <1>1, LostIs
<1>3. ASSUME NEW c \in calls \ Pending(x), c.at # "lost" PROVE Live(c.run)'
  <2>1. c.run # x /\ c.run \in Runs BY <1>0, <1>3, PendingIs DEF CallRow
  <2> QED BY <1>3, <2>1 DEF RunInv, CallsLive
<1> QED BY <1>2, <1>3 DEF CallsLive

LEMMA LivePauses ==
  ASSUME RunInv, NEW x \in Runs, Pauses(x)
  PROVE  CallsLive'
<1>0. calls \subseteq CallRow BY DEF RunInv, RunBase, RunTypes, CallsOK
<1>1. Pending("r") \subseteq CallRow BY <1>0, PendingIs
<1>2. \A c \in Lost(Pending("r")) : c.at = "lost" BY <1>1, LostIs
<1>3. calls' = (calls \ (Pending("r") \cup Pending("c"))) \cup Lost(Pending("r")) BY DEF Pauses
<1>4. ASSUME NEW c \in calls \ (Pending("r") \cup Pending("c")) PROVE c.at = "lost"
  <2>1. c.run \in {"r", "c"} BY <1>0 DEF CallRow, Runs
  <2> QED BY <2>1, PendingIs
<1> QED BY <1>2, <1>3, <1>4 DEF CallsLive

LEMMA LiveChildEnds ==
  ASSUME RunInv, NEW how \in {"done", "failed", "canceled"}, NEW crumb, ChildEnds(how, crumb)
  PROVE  CallsLive'
<1>1. state \in [Runs -> Places] BY DEF RunInv, RunBase, RunTypes
<1>2. state'["r"] = (IF direct /\ how = "done" THEN "live" ELSE state["r"])
  BY <1>1 DEF Runs, ChildEnds
<1>3. \A y \in Runs : y # "c" /\ Live(y) => Live(y)' BY <1>2 DEF Runs, Live
<1>4. how = "done" => Pending("c") = {} BY DEF ChildEnds
<1>5. calls' \subseteq (calls \ Pending("c")) \cup Lost(Pending("c")) BY <1>4 DEF ChildEnds
<1> QED BY <1>3, <1>5, LiveLost DEF Runs

LEMMA LiveEnds ==
  ASSUME RunInv, NEW how, NEW crumb, NEW code, Ending(how, crumb, code)
  PROVE  CallsLive'
<1>1. state \in [Runs -> Places] BY DEF RunInv, RunBase, RunTypes
<1>2. state' = [state EXCEPT !["r"] = how] BY DEF Ending
<1>3. \A y \in Runs : y # "r" /\ Live(y) => Live(y)' BY <1>1, <1>2 DEF Runs, Live
<1>4. calls' = (calls \ Pending("r")) \cup Lost(Pending("r")) BY DEF Ending
<1> QED BY <1>3, <1>4, LiveLost DEF Runs

\* The crumbs and the endings of a child's and of a supervisor's end.
ChildCrumb(how) ==
  CASE how = "done" -> RunCrumb("agent:run:end", "c")
    [] how = "failed" -> Crumb("agent:error", "c", 0, "FAILED")
    [] OTHER -> Crumb("agent:error", "c", 0, "RUN_CANCELLED")
EndCrumb(how) ==
  CASE how = "done" -> RunCrumb("agent:run:end", "r")
    [] how = "failed" -> Crumb("agent:error", "r", 0, "FAILED")
    [] OTHER -> Crumb("agent:error", "r", 0, "RUN_CANCELLED")
EndCode(how) ==
  CASE how = "done" -> "returns" [] how = "failed" -> "FAILED" [] OTHER -> "RUN_CANCELLED"
Hows == {"done", "failed", "canceled"}

LEMMA ChildEnding ==
  ASSUME ChildReturns \/ ChildFails \/ ChildCancelled
  PROVE  \E how \in Hows : ChildEnds(how, ChildCrumb(how))
<1>1. CASE ChildReturns
  <2>1. ChildEnds("done", ChildCrumb("done")) BY <1>1 DEF ChildReturns, ChildCrumb
  <2> QED BY <2>1 DEF Hows
<1>2. CASE ChildFails
  <2>1. ChildEnds("failed", ChildCrumb("failed")) BY <1>2 DEF ChildFails, ChildCrumb
  <2> QED BY <2>1 DEF Hows
<1>3. CASE ChildCancelled
  <2>1. ChildEnds("canceled", ChildCrumb("canceled")) BY <1>3 DEF ChildCancelled, ChildCrumb
  <2> QED BY <2>1 DEF Hows
<1> QED BY <1>1, <1>2, <1>3

LEMMA RunEnding ==
  ASSUME Returns \/ Fails \/ Cancelled
  PROVE  \E how \in Hows : Ending(how, EndCrumb(how), EndCode(how)) /\ Live("r") /\ ~Live("c")
                           /\ EndCode(how) \in {"returns", "FAILED", "RUN_CANCELLED"}
<1>1. CASE Returns
  <2>1. Ending("done", EndCrumb("done"), EndCode("done")) /\ EndCode("done") = "returns"
    BY <1>1 DEF Returns, EndCrumb, EndCode
  <2> QED BY <1>1, <2>1 DEF Hows, Returns
<1>2. CASE Fails
  <2>1. Ending("failed", EndCrumb("failed"), EndCode("failed")) /\ EndCode("failed") = "FAILED"
    BY <1>2 DEF Fails, EndCrumb, EndCode
  <2> QED BY <1>2, <2>1 DEF Hows, Fails
<1>3. CASE Cancelled
  <2>1. Ending("canceled", EndCrumb("canceled"), EndCode("canceled"))
        /\ EndCode("canceled") = "RUN_CANCELLED"
    BY <1>3 DEF Cancelled, EndCrumb, EndCode
  <2> QED BY <1>3, <2>1 DEF Hows, Cancelled
<1> QED BY <1>1, <1>2, <1>3

\* The disjuncts of Next, the ends of runs gathered.
LEMMA NextCases ==
  ASSUME [Next]_vars
  PROVE  \/ Begin \/ Refused \/ Resumes \/ CancelDecides \/ UNCHANGED vars
         \/ \E x \in Runs : \/ Text(x) \/ InputStarts(x) \/ CallsAtOnce(x) \/ RetryStep(x)
                            \/ Pauses(x) \/ CancelReads(x)
         \/ \E c \in calls : \/ InputGrows(c) \/ InputEnds(c) \/ Execute(c) \/ Delegate(c)
                             \/ \E type \in {"tool:result", "tool:error"} : Outcome(c, type)
         \/ \E how \in Hows : ChildEnds(how, ChildCrumb(how))
         \/ \E how \in Hows : Ending(how, EndCrumb(how), EndCode(how)) /\ Live("r") /\ ~Live("c")
                              /\ EndCode(how) \in {"returns", "FAILED", "RUN_CANCELLED"}
BY ChildEnding, RunEnding, Zenon DEF Next

LEMMA RunStep ==
  ASSUME RunInv, [Next]_vars
  PROVE  RunInv'
<1>0. RunBase BY DEF RunInv
<1>1. CASE Begin
  <2>1. state' = [state EXCEPT !["r"] = "live"] /\ calls' = calls /\ state \in [Runs -> Places]
    BY <1>1 DEF Begin, RunInv, RunBase, RunTypes
  <2>2. \A x \in Runs : Live(x) => Live(x)' BY <2>1 DEF Live, Runs
  <2> QED BY <1>0, <1>1, <2>1, <2>2, RunBegins, StillLive DEF RunInv
<1>2. CASE Refused
  BY <1>0, <1>2, RunBegins, LiveQuiet DEF RunInv, Refused, source
<1>3. CASE Resumes
  <2>1. state \in [Runs -> Places] /\ calls' = calls
        /\ \E x \in Runs : state' = [state EXCEPT ![x] = "live"]
    BY <1>3 DEF Resumes, RunInv, RunBase, RunTypes, Runs
  <2>2. \A x \in Runs : Live(x) => Live(x)' BY <2>1 DEF Live
  <2> QED BY <1>0, <1>3, <2>1, <2>2, RunResumes, StillLive DEF RunInv
<1>4. CASE CancelDecides
  BY <1>0, <1>4, RunQuiet, LiveQuiet DEF RunInv, CancelDecides, source
<1>5. CASE UNCHANGED vars
  BY <1>0, <1>5, RunQuiet, LiveQuiet DEF RunInv, vars, source
<1>6. ASSUME NEW x \in Runs, Text(x) PROVE RunInv'
  BY <1>0, <1>6, RunQuiet, LiveQuiet DEF RunInv, Text
<1>7. ASSUME NEW x \in Runs, InputStarts(x) \/ CallsAtOnce(x) PROVE RunInv'
  BY <1>0, <1>7, RunCalls, LiveCalls DEF RunInv
<1>8. ASSUME NEW x \in Runs, RetryStep(x) PROVE RunInv'
  <2>1. calls' \subseteq calls /\ state' = state BY <1>8 DEF RetryStep
  <2> QED BY <1>0, <1>8, <2>1, RunQuiet, LiveQuiet DEF RunInv
<1>9. ASSUME NEW x \in Runs, Pauses(x) PROVE RunInv'
  BY <1>0, <1>9, RunPauses, LivePauses DEF RunInv
<1>10. ASSUME NEW x \in Runs, CancelReads(x) PROVE RunInv'
  BY <1>0, <1>10, RunQuiet, LiveQuiet DEF RunInv, CancelReads, source
<1>11. ASSUME NEW c \in calls, InputGrows(c) PROVE RunInv'
  BY <1>0, <1>11, RunQuiet, LiveQuiet DEF RunInv, InputGrows, source
<1>12. ASSUME NEW c \in calls, InputEnds(c) \/ Execute(c) PROVE RunInv'
  BY <1>0, <1>12, RunQuiet, LiveMoves DEF RunInv
<1>13. ASSUME NEW c \in calls, Delegate(c) PROVE RunInv'
  <2>1. state' = [state EXCEPT !["c"] = "live"] /\ calls' = calls /\ state \in [Runs -> Places]
    BY <1>13 DEF Delegate, RunInv, RunBase, RunTypes
  <2>2. \A x \in Runs : Live(x) => Live(x)' BY <2>1 DEF Live, Runs
  <2> QED BY <1>0, <1>13, <2>1, <2>2, RunDelegates, StillLive DEF RunInv
<1>14. ASSUME NEW c \in calls, NEW type, Outcome(c, type) PROVE RunInv'
  <2>1. calls' \subseteq calls /\ state' = state BY <1>14 DEF Outcome
  <2> QED BY <1>0, <1>14, <2>1, RunQuiet, LiveQuiet DEF RunInv
<1>15. ASSUME NEW how \in Hows, ChildEnds(how, ChildCrumb(how)) PROVE RunInv'
  BY <1>0, <1>15, RunChildEnds, LiveChildEnds DEF RunInv, Hows
<1>16. ASSUME NEW how \in Hows, Ending(how, EndCrumb(how), EndCode(how)), Live("r"), ~Live("c"),
              EndCode(how) \in {"returns", "FAILED", "RUN_CANCELLED"}
       PROVE  RunInv'
  BY <1>0, <1>16, RunEnds, LiveEnds DEF RunInv, Hows
<1> QED BY <1>1, <1>2, <1>3, <1>4, <1>5, <1>6, <1>7, <1>8, <1>9, <1>10, <1>11, <1>12, <1>13,
           <1>14, <1>15, <1>16, NextCases, Zenon

-----------------------------------------------------------------------------
(* The ends of the posted request's stream.                                *)
LEMMA ReturnsIs ==
  ASSUME NEW v, ViewTypes(v)
  PROVE  LET w == StreamReturns(v) IN
         /\ ViewTypes(w) /\ w.ui = v.ui /\ w.client = v.client /\ w.task = v.task
         /\ w.registry = v.registry \ {v.task.taskId}
BY DEF StreamReturns, Unregister, ViewTypes

LEMMA CaughtIs ==
  ASSUME NEW task, TaskTypes(task), NEW code
  PROVE  LET final == IF code = "RUN_CANCELLED" THEN "canceled" ELSE "failed" IN
         /\ TaskTypes(Caught(task, code)) /\ Caught(task, code).taskId = task.taskId
         /\ Caught(task, code).finals = Append(task.finals, final)
<1> DEFINE final == IF code = "RUN_CANCELLED" THEN "canceled" ELSE "failed"
<1>1. Caught(task, code) = [task EXCEPT !.finals = Append(@, final)] BY DEF Caught, CaughtA2A
<1>2. final \in {"completed", "canceled", "failed"} OBVIOUS
<1> HIDE DEF final
<1>3. Append(task.finals, final) \in Seq({"completed", "canceled", "failed"})
  BY <1>2 DEF TaskTypes
<1>4. TaskTypes(Caught(task, code)) /\ Caught(task, code).taskId = task.taskId
      /\ Caught(task, code).finals = Append(task.finals, final)
  BY <1>1, <1>3 DEF TaskTypes
<1> QED BY <1>4 DEF final

LEMMA ThrowsIs ==
  ASSUME NEW v, ViewTypes(v), NEW code
  PROVE  LET w == StreamThrows(v, code) IN
         /\ ViewTypes(w) /\ w.ui = v.ui /\ w.task = Caught(v.task, code)
         /\ w.client = (IF v.terminalSeen THEN v.client
                        ELSE Receive(v.client, Event("RUN_ERROR", "any")))
         /\ w.registry = v.registry \ {v.task.taskId}
<1> DEFINE got == IF v.terminalSeen THEN v.client ELSE Receive(v.client, Event("RUN_ERROR", "any"))
           task == Caught(v.task, code)
           u == [v EXCEPT !.task = task, !.client = got]
           w == StreamThrows(v, code)
<1>0. UiTypes(v.ui) /\ ClientTypes(v.client) /\ TaskTypes(v.task) BY DEF ViewTypes
<1>1. w = StreamReturns(u) BY DEF StreamThrows
<1>2. ClientTypes(got) BY <1>0, ReceiveTypes
<1>3. TaskTypes(task) /\ task.taskId = v.task.taskId BY <1>0, CaughtIs
<1> HIDE DEF got, task
<1>4. ViewTypes(u) /\ u.ui = v.ui /\ u.client = got /\ u.task = task /\ u.registry = v.registry
  BY <1>0, <1>2, <1>3 DEF ViewTypes
<1> HIDE DEF u, w
<1>5. ViewTypes(w) /\ w.ui = u.ui /\ w.client = u.client /\ w.task = u.task
      /\ w.registry = u.registry \ {u.task.taskId}
  BY <1>1, <1>4, ReturnsIs
<1>6. ViewTypes(w) /\ w.ui = v.ui /\ w.task = task /\ w.client = got
      /\ w.registry = v.registry \ {v.task.taskId}
  BY <1>3, <1>4, <1>5
<1> QED BY <1>6 DEF got, task, w

Endings == {"on", "returns", "FAILED", "RUN_CANCELLED"}

LEMMA DeriveTypes ==
  ASSUME NEW s \in Statuses, NEW c
  PROVE  Derive(s, c) \in Statuses
BY DEF Derive, Statuses, FinalOf

LEMMA RenamedIs ==
  ASSUME NEW c, IsCrumb(c), NEW type
  PROVE  LET d == Renamed(c, type) IN
         IsCrumb(d) /\ d.type = type /\ d.run = c.run /\ d.call = c.call /\ d.code = c.code
BY DEF IsCrumb, Renamed, Crumb

\* A crumb is shown as it is, renamed or not at all.
LEMMA SurfacesCases ==
  ASSUME NEW c, IsCrumb(c)
  PROVE  \/ Surfaces(c) = << >>
         \/ \E d : /\ Surfaces(c) = <<d>> /\ IsCrumb(d) /\ d.run = c.run /\ d.code = c.code
                   /\ d = c \/ d.type \in {"subagent:run:start", "subagent:run:end"}
<1>1. CASE ~Hides(c) BY <1>1, SurfacesAsIs
<1>2. CASE Hides(c) /\ vis = "mediate" /\ c.type = "agent:run:start"
  BY <1>2, SurfacesStart, RenamedIs
<1>3. CASE Hides(c) /\ vis = "mediate" /\ c.type = "agent:run:end"
  BY <1>3, SurfacesEnd, RenamedIs
<1>4. CASE Hides(c) /\ ~(vis = "mediate" /\ c.type \in {"agent:run:start", "agent:run:end"})
  BY <1>4, SurfacesNot
<1> QED BY <1>1, <1>2, <1>3, <1>4

LEMMA EmitTypes ==
  ASSUME ViewTypes(view), status \in [Runs -> Statuses], NEW c, IsCrumb(c), NEW ending \in Endings,
         Emit(c, ending)
  PROVE  ViewTypes(view') /\ status' \in [Runs -> Statuses]
<1>a. ASSUME NEW v, ViewTypes(v), Streams(ending, v) PROVE ViewTypes(view')
  <2>1. ViewTypes(Closes(v, ending))
    <3>1. CASE ending = "on" BY <1>a, <3>1 DEF Closes
    <3>2. CASE ending = "returns" BY <1>a, <3>2, ReturnsIs DEF Closes
    <3>3. CASE ending \notin {"on", "returns"} BY <1>a, <3>3, ThrowsIs DEF Closes
    <3> QED BY <3>1, <3>2, <3>3
  <2> QED BY <1>a, <2>1 DEF Streams
<1>1. CASE Surfaces(c) = << >> BY <1>1, <1>a, EmitNot
<1>2. ASSUME NEW d, Surfaces(c) = <<d>>, IsCrumb(d)
      PROVE  ViewTypes(view') /\ status' \in [Runs -> Statuses]
  <2>1. status' = [status EXCEPT ![c.run] = Derive(@, d)] /\ Streams(ending, Watch(view, d))
    BY <1>2, EmitAs
  <2>2. ViewTypes(Watch(view, d)) BY <1>2, WatchTypes
  <2>3. status' \in [Runs -> Statuses] BY <2>1, DeriveTypes DEF IsCrumb
  <2> QED BY <1>a, <2>1, <2>2, <2>3
<1> QED BY <1>1, <1>2, SurfacesCases

\* The crumbs of the actions.
LEMMA RunCrumbIs ==
  ASSUME NEW type, NEW x \in Runs
  PROVE  IsCrumb(RunCrumb(type, x)) /\ RunCrumb(type, x).type = type /\ RunCrumb(type, x).run = x
BY DEF RunCrumb, IsCrumb, Crumb

LEMMA CallCrumbIs ==
  ASSUME NEW type, NEW c, c.run \in Runs
  PROVE  /\ IsCrumb(CallCrumb(type, c)) /\ CallCrumb(type, c).type = type
         /\ CallCrumb(type, c).run = c.run /\ CallCrumb(type, c).call = c.id
BY DEF CallCrumb, IsCrumb, Crumb

LEMMA ChildCrumbIs ==
  ASSUME NEW how \in Hows
  PROVE  /\ IsCrumb(ChildCrumb(how)) /\ ChildCrumb(how).run = "c"
         /\ ChildCrumb(how).type = (IF how = "done" THEN "agent:run:end" ELSE "agent:error")
<1>1. CASE how = "done" BY <1>1 DEF ChildCrumb, RunCrumb, Crumb, IsCrumb, Runs
<1>2. CASE how = "failed" BY <1>2 DEF ChildCrumb, Crumb, IsCrumb, Runs
<1>3. CASE how = "canceled" BY <1>3 DEF ChildCrumb, Crumb, IsCrumb, Runs
<1> QED BY <1>1, <1>2, <1>3 DEF Hows

Final(how) == IF how = "done" THEN "completed" ELSE how
LEMMA EndCrumbIs ==
  ASSUME NEW how \in Hows
  PROVE  /\ IsCrumb(EndCrumb(how)) /\ EndCrumb(how).run = "r"
         /\ EndCrumb(how).type \in {"agent:run:end", "agent:error"}
         /\ FinalOf(EndCrumb(how)) = Final(how)
<1>1. CASE how = "done" BY <1>1 DEF EndCrumb, RunCrumb, Crumb, IsCrumb, Runs, FinalOf, Final
<1>2. CASE how = "failed" BY <1>2 DEF EndCrumb, Crumb, IsCrumb, Runs, FinalOf, Final
<1>3. CASE how = "canceled" BY <1>3 DEF EndCrumb, Crumb, IsCrumb, Runs, FinalOf, Final
<1> QED BY <1>1, <1>2, <1>3 DEF Hows

LEMMA TypesStep ==
  ASSUME VTypes, RunInv, [Next]_vars
  PROVE  VTypes'
<1>0. ViewTypes(view) /\ status \in [Runs -> Statuses] /\ \A c \in calls : c.run \in Runs
  BY DEF VTypes, RunInv, RunBase, RunTypes, CallsOK, CallRow
<1> DEFINE Done == ViewTypes(view') /\ status' \in [Runs -> Statuses]
<1>e. ASSUME NEW c, IsCrumb(c), NEW ending \in Endings, Emit(c, ending) PROVE Done
  BY <1>0, <1>e, EmitTypes
<1>r. "r" \in Runs /\ "c" \in Runs /\ "on" \in Endings BY DEF Runs, Endings
<1> HIDE DEF Done
<1>1. ASSUME Begin PROVE Done BY <1>1, <1>e, <1>r, RunCrumbIs DEF Begin
<1>2. ASSUME Refused PROVE Done
  <2>1. ViewTypes(view') BY <1>0, <1>2, ThrowsIs DEF Refused
  <2>2. status' = status BY <1>2 DEF Refused
  <2> QED BY <1>0, <2>1, <2>2 DEF Done
<1>3. ASSUME Resumes PROVE Done
  <2>1. view' = view BY <1>3 DEF Resumes
  <2>2. \E x \in Runs : \E d : status' = [status EXCEPT ![x] = Derive(@, d)] BY <1>3, <1>r DEF Resumes
  <2>3. status' \in [Runs -> Statuses] BY <1>0, <2>2, DeriveTypes
  <2> QED BY <1>0, <2>1, <2>3 DEF Done
<1>4. ASSUME CancelDecides PROVE Done
  <2>1. \E set : view' = view \/ view' = [view EXCEPT !.registry = set]
    BY <1>4 DEF CancelDecides
  <2>2. ViewTypes(view') BY <1>0, <2>1 DEF ViewTypes
  <2> QED BY <1>0, <1>4, <2>2 DEF Done, CancelDecides
<1>5. ASSUME UNCHANGED vars PROVE Done BY <1>0, <1>5 DEF Done, vars
<1>6. ASSUME NEW x \in Runs, Text(x) PROVE Done
  BY <1>6, <1>e, <1>r, RunCrumbIs DEF Text
<1>7. ASSUME NEW x \in Runs, InputStarts(x) \/ CallsAtOnce(x) PROVE Done
  <2>1. \A at : NewCall(x, at).run \in Runs BY DEF NewCall
  <2> QED BY <1>7, <1>e, <1>r, <2>1, CallCrumbIs DEF InputStarts, CallsAtOnce
<1>8. ASSUME NEW x \in Runs, RetryStep(x) PROVE Done BY <1>0, <1>8 DEF Done, RetryStep
<1>9. ASSUME NEW x \in Runs, Pauses(x) PROVE Done
  BY <1>9, <1>e, RunCrumbIs DEF Pauses, Endings
<1>10. ASSUME NEW x \in Runs, CancelReads(x) PROVE Done BY <1>0, <1>10 DEF Done, CancelReads
<1>11. ASSUME NEW c \in calls, InputGrows(c) PROVE Done
  BY <1>0, <1>11, <1>e, <1>r, CallCrumbIs DEF InputGrows
<1>12. ASSUME NEW c \in calls, InputEnds(c) \/ Execute(c) PROVE Done
  BY <1>0, <1>12, <1>e, <1>r, CallCrumbIs DEF InputEnds, Execute
<1>13. ASSUME NEW c \in calls, Delegate(c) PROVE Done
  BY <1>13, <1>e, <1>r, RunCrumbIs DEF Delegate
<1>14. ASSUME NEW c \in calls, NEW type, Outcome(c, type) PROVE Done
  BY <1>0, <1>14, <1>e, <1>r, CallCrumbIs DEF Outcome
<1>15. ASSUME NEW how \in Hows, ChildEnds(how, ChildCrumb(how)) PROVE Done
  BY <1>15, <1>e, <1>r, ChildCrumbIs DEF ChildEnds
<1>16. ASSUME NEW how \in Hows, Ending(how, EndCrumb(how), EndCode(how)),
              EndCode(how) \in {"returns", "FAILED", "RUN_CANCELLED"}
       PROVE  Done
  BY <1>16, <1>e, EndCrumbIs DEF Ending, Endings
<1>17. Done
  BY <1>1, <1>2, <1>3, <1>4, <1>5, <1>6, <1>7, <1>8, <1>9, <1>10, <1>11, <1>12, <1>13,
     <1>14, <1>15, <1>16, NextCases, Zenon
<1>18. RunInv' BY RunStep
<1> QED BY <1>17, <1>18 DEF VTypes, RunInv, RunBase, Done

-----------------------------------------------------------------------------
(* otel's spans.                                                           *)
LEMMA OtelOpens ==
  ASSUME NEW open, NEW d
  PROVE  /\ d.type = "agent:run:start" => Otel(open, d) = open \cup {Span("run", <<d.run, 0>>)}
         /\ d.type = "tool:call" => Otel(open, d) = open \cup {Span("tool", <<d.run, d.call>>)}
         /\ d.type = "human:required" => Otel(open, d) = open \cup {Span("human", <<d.run, 0>>)}
         /\ d.type = "subagent:run:start" => Otel(open, d) = open \cup {Span("subagent", <<d.run, 0>>)}
BY DEF Otel, Opens, Key

LEMMA OtelEnds ==
  ASSUME NEW open, NEW d
  PROVE  /\ d.type \in {"agent:run:end", "agent:error"} => Otel(open, d) = open \ {Span("run", <<d.run, 0>>)}
         /\ d.type \in {"tool:result", "tool:error"}
              => Otel(open, d) = open \ {Span("tool", <<d.run, d.call>>)}
         /\ d.type = "human:resumed" => Otel(open, d) = open \ {Span("human", <<d.run, 0>>)}
         /\ d.type = "subagent:run:end" => Otel(open, d) = open \ {Span("subagent", <<d.run, 0>>)}
BY DEF Otel, Opens, Ends, Key

LEMMA OtelOther ==
  ASSUME NEW open, NEW d,
         d.type \in {"text:delta", "tool:input:start", "tool:input:delta", "tool:input:end"}
  PROVE  Otel(open, d) = open
BY DEF Otel, Opens, Ends

LEMMA SpanIs ==
  ASSUME NEW kind, NEW id
  PROVE  Span(kind, id).kind = kind /\ Span(kind, id).id = id
         /\ Span(kind, id) = Span(Span(kind, id).kind, Span(kind, id).id)
BY DEF Span

Begun(c) == c.at \notin {"input", "ready"}

\* What a span needs of a step to stay one that may be open.
LEMMA SpanStays ==
  ASSUME NEW s, SpanOK(s), vis' = vis, direct => direct',
         s.kind = "run" => \A x \in Runs : s.id = <<x, 0>> /\ ~Over(x) => ~Over(x)',
         s.kind = "tool" => \A c \in calls : s.id = <<c.run, c.id>> /\ Begun(c) =>
                              \E d \in calls' : d.run = c.run /\ d.id = c.id /\ Begun(d),
         s.kind = "human" =>
           /\ \A x \in Runs : s.id = <<x, 0>> /\ state[x] = "paused" => state'[x] = "paused"
           /\ s.id = <<"r", 0>> /\ state'["c"] \in {"live", "paused"} => state["c"] \in {"live", "paused"},
         s.kind = "subagent" => (state'["c"] = "done" => state["c"] = "done" \/ direct')
  PROVE  SpanOK(s)'
<1>1. ASSUME s.kind = "run" PROVE SpanOK(s)' BY <1>1, Zenon DEF SpanOK
<1>2. ASSUME s.kind = "tool" PROVE SpanOK(s)'
  <2>1. PICK c \in calls : s.id = <<c.run, c.id>> /\ c.at \notin {"input", "ready"} /\ Shown(c.run)
    BY <1>2 DEF SpanOK
  <2>2. PICK d \in calls' : d.run = c.run /\ d.id = c.id /\ Begun(d) BY <1>2, <2>1 DEF Begun
  <2>3. Shown(c.run)' BY <2>1 DEF Shown
  <2>4. s.id = <<d.run, d.id>> /\ d.at \notin {"input", "ready"} /\ Shown(d.run)'
    BY <2>1, <2>2, <2>3 DEF Begun, Shown
  <2> QED BY <1>2, <2>4 DEF SpanOK
<1>3. ASSUME s.kind = "human" PROVE SpanOK(s)'
  BY <1>3, Zenon DEF SpanOK
<1>4. ASSUME s.kind = "subagent" PROVE SpanOK(s)'
  BY <1>4 DEF SpanOK
<1>5. s.kind \in {"run", "tool", "human", "subagent"} BY DEF SpanOK
<1> QED BY <1>1, <1>2, <1>3, <1>4, <1>5

\* Steps that neither open a span nor end a run.
LEMMA SpansQuiet ==
  ASSUME SpansOK, vis' = vis, direct' = direct, state' = state, spans' \subseteq spans,
         \A c \in calls : Begun(c) => \E d \in calls' : d.run = c.run /\ d.id = c.id /\ Begun(d)
  PROVE  SpansOK'
<1>1. ASSUME NEW s \in spans' PROVE s = Span(s.kind, s.id) /\ SpanOK(s)'
  <2>1. s = Span(s.kind, s.id) /\ SpanOK(s) BY DEF SpansOK
  <2>2. \A x \in Runs : ~Over(x) => ~Over(x)' BY DEF Over
  <2> QED BY <2>1, <2>2, SpanStays
<1> QED BY <1>1 DEF SpansOK

LEMMA ShownAsIs ==
  ASSUME NEW c, NEW ending, Emit(c, ending), ~Hides(c)
  PROVE  spans' = Otel(spans, c)
BY SurfacesAsIs, EmitAs

LEMMA NotShown ==
  ASSUME NEW c, NEW ending, Emit(c, ending), Hides(c),
         c.type \notin {"agent:run:start", "agent:run:end"}, status \in [Runs -> Statuses]
  PROVE  spans' = spans
BY SurfacesNot, EmitNot

LEMMA NoSpan ==
  ASSUME NEW c, NEW ending, Emit(c, ending), status \in [Runs -> Statuses],
         c.type \in {"text:delta", "tool:input:start", "tool:input:delta", "tool:input:end"}
  PROVE  spans' = spans
BY ShownAsIs, NotShown, OtelOther

\* A tool's span is only of a call whose crumbs are shown.
LEMMA ToolSpan ==
  ASSUME CallsOK(calls, minted), NEW c \in calls, NEW s, SpanOK(s), s.kind = "tool", s.id = <<c.run, c.id>>
  PROVE  Begun(c) /\ Shown(c.run)
<1>1. PICK d \in calls : s.id = <<d.run, d.id>> /\ d.at \notin {"input", "ready"} /\ Shown(d.run)
  BY DEF SpanOK
<1>2. d.id = c.id BY <1>1
<1>3. d = c BY <1>2 DEF CallsOK
<1> QED BY <1>1, <1>3 DEF Begun

LEMMA SpansCalls ==
  ASSUME VTypes, SpansOK, RunInv, NEW x \in Runs, InputStarts(x) \/ CallsAtOnce(x)
  PROVE  SpansOK'
<1>0. status \in [Runs -> Statuses] /\ CallsOK(calls, minted) BY DEF VTypes, RunTypes
<1>v. vis' = vis /\ direct' = direct /\ state' = state BY DEF InputStarts, CallsAtOnce
<1>c. \A at : NewCall(x, at).run = x /\ NewCall(x, at).id = minted + 1 /\ NewCall(x, at).at = at
  BY DEF NewCall
<1>1. ASSUME InputStarts(x) PROVE SpansOK'
  <2>1. spans' = spans BY <1>0, <1>1, <1>c, NoSpan, CallCrumbIs DEF InputStarts
  <2>2. calls \subseteq calls' BY <1>1 DEF InputStarts
  <2> QED BY <1>v, <2>1, <2>2, SpansQuiet
<1>2. ASSUME CallsAtOnce(x) PROVE SpansOK'
  <2>n. PICK n : n = NewCall(x, "called") OBVIOUS
  <2> DEFINE c == CallCrumb("tool:call", n)
  <2>1. calls' = calls \cup {n} /\ Emit(c, "on") BY <1>2, <2>n DEF CallsAtOnce
  <2>2. n.run = x /\ n.at = "called" BY <1>c, <2>n
  <2>3. IsCrumb(c) /\ c.type = "tool:call" /\ c.run = x /\ c.call = n.id
    BY <2>2, CallCrumbIs
  <2> HIDE DEF c
  <2>4. CASE Hides(c)
    <3>1. spans' = spans BY <1>0, <2>1, <2>3, <2>4, NotShown
    <3> QED BY <1>v, <2>1, <3>1, SpansQuiet
  <2>5. CASE ~Hides(c)
    <3> DEFINE new == Span("tool", <<x, n.id>>)
    <3>a. spans' = Otel(spans, c) BY <2>1, <2>5, ShownAsIs
    <3>b. Otel(spans, c) = spans \cup {Span("tool", <<c.run, c.call>>)} BY <2>3, OtelOpens
    <3>1. spans' = spans \cup {new} BY <2>3, <3>a, <3>b
    <3>2. Shown(x)' BY <1>v, <2>3, <2>5 DEF Hides, Shown, Runs
    <3>3. new.kind = "tool" /\ new.id = <<n.run, n.id>> /\ new = Span(new.kind, new.id)
      BY <2>2, SpanIs
    <3> HIDE DEF new
    <3>4. SpanOK(new)'
      <4>1. n \in calls' /\ n.at \notin {"input", "ready"} /\ Shown(n.run)'
        BY <2>1, <2>2, <3>2 DEF Shown
      <4> QED BY <3>3, <4>1 DEF SpanOK
    <3>5. ASSUME NEW s \in spans PROVE s = Span(s.kind, s.id) /\ SpanOK(s)'
      <4>1. s = Span(s.kind, s.id) /\ SpanOK(s) BY DEF SpansOK
      <4>2. \A y \in Runs : ~Over(y) => ~Over(y)' BY <1>v DEF Over
      <4>3. calls \subseteq calls' BY <2>1
      <4> QED BY <1>v, <4>1, <4>2, <4>3, SpanStays
    <3>6. \A s \in spans' : s = Span(s.kind, s.id) /\ SpanOK(s)' BY <3>1, <3>3, <3>4, <3>5
    <3> QED BY <3>6 DEF SpansOK
  <2> QED BY <2>4, <2>5
<1> QED BY <1>1, <1>2

LEMMA MovedCalls ==
  ASSUME calls \subseteq CallRow, NEW c \in calls, NEW at \in {"input", "early", "ready", "called", "lost"},
         Becomes(c, at), Begun(c) => at \notin {"input", "ready"}
  PROVE  /\ \A d \in calls : Begun(d) => \E e \in calls' : e.run = d.run /\ e.id = d.id /\ Begun(e)
         /\ at \notin {"input", "ready"} =>
              \E e \in calls' : e.run = c.run /\ e.id = c.id /\ Begun(e)
<1> DEFINE e == [c EXCEPT !.at = at]
<1>1. c \in CallRow OBVIOUS
<1>2. e.id = c.id /\ e.run = c.run /\ e.at = at BY <1>1, MoveIs
<1>3. calls' = (calls \ {c}) \cup {e} BY DEF Becomes
<1> HIDE DEF e
<1>4. at \notin {"input", "ready"} => \E f \in calls' : f.run = c.run /\ f.id = c.id /\ Begun(f)
  BY <1>2, <1>3 DEF Begun
<1>5. \A d \in calls : d # c => d \in calls' BY <1>3
<1> QED BY <1>4, <1>5

LEMMA SpansMoves ==
  ASSUME VTypes, SpansOK, RunInv, NEW c \in calls, InputEnds(c) \/ Execute(c)
  PROVE  SpansOK'
<1>0. status \in [Runs -> Statuses] /\ calls \subseteq CallRow /\ c.run \in Runs
  BY DEF VTypes, RunTypes, CallsOK, CallRow
<1>v. vis' = vis /\ direct' = direct /\ state' = state BY DEF InputEnds, Execute
<1>1. ASSUME InputEnds(c) PROVE SpansOK'
  <2>1. spans' = spans BY <1>0, <1>1, NoSpan, CallCrumbIs DEF InputEnds
  <2> DEFINE at == IF c.at = "input" THEN "ready" ELSE "called"
  <2>2. Becomes(c, at) /\ c.at \in {"input", "early"} BY <1>1 DEF InputEnds
  <2>3. Begun(c) => at \notin {"input", "ready"} BY <2>2 DEF Begun
  <2>4. at \in {"input", "early", "ready", "called", "lost"} OBVIOUS
  <2>5. \A d \in calls : Begun(d) => \E e \in calls' : e.run = d.run /\ e.id = d.id /\ Begun(e)
    <3> HIDE DEF at
    <3> QED BY <1>0, <2>2, <2>3, <2>4, MovedCalls
  <2> QED BY <1>v, <2>1, <2>5, SpansQuiet
<1>2. ASSUME Execute(c) PROVE SpansOK'
  <2> DEFINE at == IF c.at = "input" THEN "early" ELSE "called"
             k == CallCrumb("tool:call", c)
  <2>1. Becomes(c, at) /\ Emit(k, "on") BY <1>2 DEF Execute
  <2>2. at \notin {"input", "ready"} /\ at \in {"input", "early", "ready", "called", "lost"} OBVIOUS
  <2> HIDE DEF at
  <2>3. /\ \A d \in calls : Begun(d) => \E e \in calls' : e.run = d.run /\ e.id = d.id /\ Begun(e)
        /\ \E e \in calls' : e.run = c.run /\ e.id = c.id /\ Begun(e)
    BY <1>0, <2>1, <2>2, MovedCalls
  <2>4. IsCrumb(k) /\ k.type = "tool:call" /\ k.run = c.run /\ k.call = c.id BY <1>0, CallCrumbIs
  <2> HIDE DEF k
  <2>5. CASE Hides(k)
    <3>1. spans' = spans BY <1>0, <2>1, <2>4, <2>5, NotShown
    <3> QED BY <1>v, <2>3, <3>1, SpansQuiet
  <2>6. CASE ~Hides(k)
    <3> DEFINE new == Span("tool", <<c.run, c.id>>)
    <3>a. spans' = Otel(spans, k) BY <2>1, <2>6, ShownAsIs
    <3>b. Otel(spans, k) = spans \cup {Span("tool", <<k.run, k.call>>)} BY <2>4, OtelOpens
    <3>1. spans' = spans \cup {new} BY <2>4, <3>a, <3>b
    <3>2. Shown(c.run)' BY <1>0, <1>v, <2>4, <2>6 DEF Hides, Shown, Runs
    <3>3. new.kind = "tool" /\ new.id = <<c.run, c.id>> /\ new = Span(new.kind, new.id) BY SpanIs
    <3> HIDE DEF new
    <3>4. SpanOK(new)'
      <4>1. PICK e \in calls' : e.run = c.run /\ e.id = c.id /\ Begun(e) BY <2>3
      <4>2. new.id = <<e.run, e.id>> /\ e.at \notin {"input", "ready"} /\ Shown(e.run)'
        BY <3>2, <3>3, <4>1 DEF Begun, Shown
      <4> QED BY <3>3, <4>2 DEF SpanOK
    <3>5. ASSUME NEW s \in spans PROVE s = Span(s.kind, s.id) /\ SpanOK(s)'
      <4>1. s = Span(s.kind, s.id) /\ SpanOK(s) BY DEF SpansOK
      <4>2. \A y \in Runs : ~Over(y) => ~Over(y)' BY <1>v DEF Over
      <4> QED BY <1>v, <2>3, <4>1, <4>2, SpanStays
    <3>6. \A s \in spans' : s = Span(s.kind, s.id) /\ SpanOK(s)' BY <3>1, <3>3, <3>4, <3>5
    <3> QED BY <3>6 DEF SpansOK
  <2> QED BY <2>5, <2>6
<1> QED BY <1>1, <1>2

LEMMA SpansOutcome ==
  ASSUME VTypes, SpansOK, RunInv, NEW c \in calls, NEW type \in {"tool:result", "tool:error"},
         Outcome(c, type)
  PROVE  SpansOK'
<1> DEFINE k == CallCrumb(type, c)
<1>0. status \in [Runs -> Statuses] /\ CallsOK(calls, minted) /\ c.run \in Runs
  BY DEF VTypes, RunTypes, CallsOK, CallRow
<1>v. vis' = vis /\ direct' = direct /\ state' = state /\ calls' = calls \ {c} /\ Emit(k, "on")
  BY DEF Outcome
<1>1. IsCrumb(k) /\ k.type = type /\ k.run = c.run /\ k.call = c.id BY <1>0, CallCrumbIs
<1> HIDE DEF k
<1>2. spans' \subseteq spans /\ Span("tool", <<c.run, c.id>>) \notin spans'
  <2>1. CASE Hides(k)
    <3>1. spans' = spans BY <1>0, <1>1, <1>v, <2>1, NotShown
    <3>2. ~Shown(c.run) BY <1>1, <2>1 DEF Hides, Shown
    <3>3. Span("tool", <<c.run, c.id>>) \notin spans
      BY <1>0, <3>2, ToolSpan, SpanIs DEF SpansOK
    <3> QED BY <3>1, <3>3
  <2>2. CASE ~Hides(k)
    <3>a. spans' = Otel(spans, k) BY <1>v, <2>2, ShownAsIs
    <3>b. Otel(spans, k) = spans \ {Span("tool", <<k.run, k.call>>)} BY <1>1, OtelEnds
    <3>1. spans' = spans \ {Span("tool", <<c.run, c.id>>)} BY <1>1, <3>a, <3>b
    <3> QED BY <3>1
  <2> QED BY <2>1, <2>2
<1>3. ASSUME NEW s \in spans' PROVE s = Span(s.kind, s.id) /\ SpanOK(s)'
  <2>1. s = Span(s.kind, s.id) /\ SpanOK(s) BY <1>2 DEF SpansOK
  <2>2. \A y \in Runs : ~Over(y) => ~Over(y)' BY <1>v DEF Over
  <2>3. ~(s.kind = "tool" /\ s.id = <<c.run, c.id>>) BY <1>2, <2>1
  <2>4. s.kind = "tool" => \A d \in calls : s.id = <<d.run, d.id>> /\ Begun(d) =>
          \E e \in calls' : e.run = d.run /\ e.id = d.id /\ Begun(e)
    BY <1>v, <2>3
  <2> QED BY <1>v, <2>1, <2>2, <2>4, SpanStays
<1> QED BY <1>3 DEF SpansOK

LEMMA LostKeeps ==
  ASSUME calls \subseteq CallRow, NEW P, P \subseteq calls, \A c \in P : c.at # "lost",
         calls' = (calls \ P) \cup Lost(P)
  PROVE  \A c \in calls : Begun(c) => \E d \in calls' : d.run = c.run /\ d.id = c.id /\ Begun(d)
<1> TAKE c \in calls
<1> HAVE Begun(c)
<1>0. P \subseteq CallRow /\ c \in CallRow OBVIOUS
<1>1. CASE c \notin P BY <1>1
<1>2. CASE c \in P
  <2>1. c.at \in {"early", "called"} BY <1>0, <1>2 DEF Begun, CallRow
  <2>2. [c EXCEPT !.at = "lost"] \in Lost(P) BY <1>0, <1>2, <2>1, LostIs
  <2>3. [c EXCEPT !.at = "lost"].run = c.run /\ [c EXCEPT !.at = "lost"].id = c.id
        /\ [c EXCEPT !.at = "lost"].at = "lost"
    BY <1>0, MoveIs
  <2> QED BY <2>2, <2>3 DEF Begun
<1> QED BY <1>1, <1>2

LEMMA PendingRows ==
  ASSUME VTypes, NEW x
  PROVE  /\ calls \subseteq CallRow /\ Pending(x) \subseteq calls
         /\ \A c \in Pending(x) : c.at # "lost" /\ c.run = x
BY PendingIs DEF VTypes, RunTypes, CallsOK

\* A span opened by a run's own crumb.
LEMMA SpanNew ==
  ASSUME NEW new, new = Span(new.kind, new.id), SpanOK(new)', spans' \subseteq spans \cup {new},
         \A s \in spans : SpanOK(s) => SpanOK(s)', SpansOK
  PROVE  SpansOK'
<1>1. \A s \in spans' : s = Span(s.kind, s.id) /\ SpanOK(s)' BY DEF SpansOK
<1> QED BY <1>1 DEF SpansOK

LEMMA SpansBegin ==
  ASSUME VTypes, RunInv, SpansOK, Begin
  PROVE  SpansOK'
<1> DEFINE k == RunCrumb("agent:run:start", "r")
           new == Span("run", <<"r", 0>>)
<1>0. state \in [Runs -> Places] BY DEF VTypes, RunTypes
<1>1. vis' = vis /\ direct' = direct /\ calls' = calls /\ Emit(k, "on") /\ state["r"] = "none"
      /\ state' = [state EXCEPT !["r"] = "live"]
  BY DEF Begin
<1>2. state'["r"] = "live" /\ state'["c"] = state["c"] BY <1>0, <1>1 DEF Runs
<1>3. k.type = "agent:run:start" /\ k.run = "r" BY RunCrumbIs DEF Runs
<1> HIDE DEF k
<1>4. ~Hides(k) BY <1>3 DEF Hides
<1>a. spans' = Otel(spans, k) BY <1>1, <1>4, ShownAsIs
<1>b. Otel(spans, k) = spans \cup {Span("run", <<k.run, 0>>)} BY <1>3, OtelOpens
<1>5. spans' = spans \cup {new} BY <1>3, <1>a, <1>b
<1>6. new.kind = "run" /\ new.id = <<"r", 0>> /\ new = Span(new.kind, new.id) BY SpanIs
<1> HIDE DEF new
<1>7. SpanOK(new)'
  <2>1. ~Over("r")' /\ "r" \in Runs BY <1>2 DEF Over, Runs
  <2> QED BY <1>6, <2>1 DEF SpanOK
<1>8. ASSUME NEW s \in spans, SpanOK(s) PROVE SpanOK(s)'
  <2>1. \A x \in Runs : ~Over(x) => ~Over(x)' BY <1>2 DEF Over, Runs
  <2>2. \A x \in Runs : state[x] = "paused" => state'[x] = "paused" BY <1>1, <1>2 DEF Runs
  <2> QED BY <1>1, <1>2, <1>8, <2>1, <2>2, SpanStays
<1> QED BY <1>5, <1>6, <1>7, <1>8, SpanNew

LEMMA SpansDelegate ==
  ASSUME VTypes, RunInv, SpansOK, NEW c \in calls, Delegate(c)
  PROVE  SpansOK'
<1> DEFINE k == RunCrumb("agent:run:start", "c")
<1>0. state \in [Runs -> Places] /\ status \in [Runs -> Statuses] BY DEF VTypes, RunTypes
<1>1. vis' = vis /\ direct' = direct /\ calls' = calls /\ Emit(k, "on") /\ state["c"] = "none"
      /\ state' = [state EXCEPT !["c"] = "live"] /\ state["r"] = "live"
  BY DEF Delegate, Live
<1>2. state'["c"] = "live" /\ state'["r"] = "live" BY <1>0, <1>1 DEF Runs
<1>3. IsCrumb(k) /\ k.type = "agent:run:start" /\ k.run = "c" BY RunCrumbIs DEF Runs
<1>d. ~direct BY <1>1 DEF RunInv, RunBase, RunsOK
<1> HIDE DEF k
<1>8. ASSUME NEW s \in spans, SpanOK(s) PROVE SpanOK(s)'
  <2>1. \A x \in Runs : ~Over(x) => ~Over(x)' BY <1>2 DEF Over, Runs
  <2>2. \A x \in Runs : state[x] # "paused" BY <1>1 DEF Runs
  <2>3. ~(s.kind = "human") BY <1>8, <2>2 DEF SpanOK
  <2> QED BY <1>1, <1>2, <1>8, <2>1, <2>3, SpanStays
<1>4. CASE vis = "passthrough"
  <2> DEFINE new == Span("run", <<"c", 0>>)
  <2>1. ~Hides(k) BY <1>4 DEF Hides
  <2>a. spans' = Otel(spans, k) BY <1>1, <2>1, ShownAsIs
  <2>b. Otel(spans, k) = spans \cup {Span("run", <<k.run, 0>>)} BY <1>3, OtelOpens
  <2>5. spans' = spans \cup {new} BY <1>3, <2>a, <2>b
  <2>6. new.kind = "run" /\ new.id = <<"c", 0>> /\ new = Span(new.kind, new.id) BY SpanIs
  <2> HIDE DEF new
  <2>7. SpanOK(new)'
    <3>1. ~Over("c")' /\ "c" \in Runs /\ vis' = "passthrough" BY <1>1, <1>2, <1>4 DEF Over, Runs
    <3> QED BY <2>6, <3>1 DEF SpanOK
  <2> QED BY <1>8, <2>5, <2>6, <2>7, SpanNew
<1>5. CASE vis = "mediate"
  <2> DEFINE new == Span("subagent", <<"c", 0>>)
             d == Renamed(k, "subagent:run:start")
  <2>1. Hides(k) BY <1>3, <1>5, <1>d DEF Hides
  <2>2. Surfaces(k) = <<d>> BY <1>3, <1>5, <2>1, SurfacesStart
  <2>3. d.type = "subagent:run:start" /\ d.run = "c" BY <1>3, RenamedIs
  <2> HIDE DEF d
  <2>a. spans' = Otel(spans, d) BY <1>1, <2>2, EmitAs
  <2>b. Otel(spans, d) = spans \cup {Span("subagent", <<d.run, 0>>)} BY <2>3, OtelOpens
  <2>5. spans' = spans \cup {new} BY <2>3, <2>a, <2>b
  <2>6. new.kind = "subagent" /\ new.id = <<"c", 0>> /\ new = Span(new.kind, new.id) BY SpanIs
  <2> HIDE DEF new
  <2>7. SpanOK(new)' BY <1>1, <1>2, <1>5, <2>6 DEF SpanOK
  <2> QED BY <1>8, <2>5, <2>6, <2>7, SpanNew
<1>6. CASE vis \notin {"passthrough", "mediate"}
  <2>1. Hides(k) BY <1>3, <1>6, <1>d DEF Hides
  <2>2. Surfaces(k) = << >> BY <1>6, <2>1, SurfacesNot
  <2>3. spans' = spans BY <1>0, <1>1, <2>2, EmitNot
  <2>4. \A s \in spans' : s = Span(s.kind, s.id) /\ SpanOK(s)' BY <1>8, <2>3 DEF SpansOK
  <2> QED BY <2>4 DEF SpansOK
<1> QED BY <1>4, <1>5, <1>6

\* No question is open while one of the two runs goes on.
LEMMA NoHuman ==
  ASSUME RunInv, NEW s, SpanOK(s), Live("c") \/ Live("r"), s.kind = "human"
  PROVE  FALSE
<1>1. PICK x \in Runs : s.id = <<x, 0>> /\ state[x] = "paused" BY DEF SpanOK
<1>2. CASE x = "c"
  BY <1>1, <1>2 DEF RunInv, RunBase, RunsOK, Live
<1>3. CASE x = "r"
  BY <1>1, <1>3 DEF SpanOK, Live
<1> QED BY <1>2, <1>3 DEF Runs

LEMMA SpansChildEnds ==
  ASSUME VTypes, RunInv, SpansOK, NEW how \in Hows, ChildEnds(how, ChildCrumb(how))
  PROVE  SpansOK'
<1> DEFINE k == ChildCrumb(how)
<1>0. state \in [Runs -> Places] /\ status \in [Runs -> Statuses] BY DEF VTypes, RunTypes
<1>1. vis' = vis /\ direct' = direct /\ Emit(k, "on") /\ Live("c") BY DEF ChildEnds
<1>2. state'["c"] = how /\ state'["r"] = (IF direct /\ how = "done" THEN "live" ELSE state["r"])
  BY <1>0 DEF ChildEnds, Runs
<1>3. IsCrumb(k) /\ k.run = "c" /\ k.type = (IF how = "done" THEN "agent:run:end" ELSE "agent:error")
  BY ChildCrumbIs
<1> HIDE DEF k
<1>4. /\ spans' \subseteq spans
      /\ vis = "passthrough" => Span("run", <<"c", 0>>) \notin spans'
      /\ vis = "mediate" /\ ~direct /\ how = "done" => Span("subagent", <<"c", 0>>) \notin spans'
  <2>1. CASE ~Hides(k)
    <3>a. spans' = Otel(spans, k) BY <1>1, <2>1, ShownAsIs
    <3>b. Otel(spans, k) = spans \ {Span("run", <<k.run, 0>>)} BY <1>3, OtelEnds
    <3>c. spans' = spans \ {Span("run", <<"c", 0>>)} BY <1>3, <3>a, <3>b
    <3> QED BY <1>3, <2>1, <3>c DEF Hides
  <2>2. CASE Hides(k) /\ vis = "mediate" /\ how = "done"
    <3> DEFINE d == Renamed(k, "subagent:run:end")
    <3>1. Surfaces(k) = <<d>> BY <1>3, <2>2, SurfacesEnd
    <3>2. d.type = "subagent:run:end" /\ d.run = "c" BY <1>3, RenamedIs
    <3> HIDE DEF d
    <3>a. spans' = Otel(spans, d) BY <1>1, <3>1, EmitAs
    <3>b. Otel(spans, d) = spans \ {Span("subagent", <<d.run, 0>>)} BY <3>2, OtelEnds
    <3>c. spans' = spans \ {Span("subagent", <<"c", 0>>)} BY <3>2, <3>a, <3>b
    <3> QED BY <2>2, <3>c
  <2>3. CASE Hides(k) /\ ~(vis = "mediate" /\ how = "done")
    <3>1. Surfaces(k) = << >> BY <1>3, <2>3, SurfacesNot
    <3>2. spans' = spans BY <1>0, <1>1, <3>1, EmitNot
    <3> QED BY <2>3, <3>2 DEF Hides
  <2> QED BY <2>1, <2>2, <2>3
<1>5. \A c \in calls : Begun(c) => \E d \in calls' : d.run = c.run /\ d.id = c.id /\ Begun(d)
  <2>1. CASE direct /\ how = "done" BY <2>1 DEF ChildEnds
  <2>2. CASE ~(direct /\ how = "done")
    <3>1. calls' = (calls \ Pending("c")) \cup Lost(Pending("c")) BY <2>2 DEF ChildEnds
    <3> QED BY <3>1, LostKeeps, PendingRows
  <2> QED BY <2>1, <2>2
<1>6. ASSUME NEW s \in spans' PROVE s = Span(s.kind, s.id) /\ SpanOK(s)'
  <2>1. s = Span(s.kind, s.id) /\ SpanOK(s) BY <1>4 DEF SpansOK
  <2>2. s.kind # "human" BY <1>1, <2>1, NoHuman
  <2>3. s.kind = "run" => \A x \in Runs : s.id = <<x, 0>> /\ ~Over(x) => ~Over(x)'
    <3>1. ~(s.kind = "run" /\ s.id = <<"c", 0>>) BY <1>4, <2>1 DEF SpanOK
    <3>2. ~Over("r") => ~Over("r")' BY <1>2 DEF Over
    <3> QED BY <3>1, <3>2 DEF Runs
  <2>4. s.kind = "subagent" => (state'["c"] = "done" => state["c"] = "done" \/ direct')
    BY <1>1, <1>2, <1>4, <2>1 DEF SpanOK
  <2> QED BY <1>1, <1>5, <2>1, <2>2, <2>3, <2>4, SpanStays
<1> QED BY <1>6 DEF SpansOK

LEMMA SpansEnds ==
  ASSUME VTypes, RunInv, SpansOK, NEW how \in Hows, Ending(how, EndCrumb(how), EndCode(how)), Live("r")
  PROVE  SpansOK'
<1> DEFINE k == EndCrumb(how)
<1>0. state \in [Runs -> Places] BY DEF VTypes, RunTypes
<1>1. vis' = vis /\ direct' = direct /\ Emit(k, EndCode(how)) BY DEF Ending
<1>2. state'["r"] = how /\ state'["c"] = state["c"] BY <1>0 DEF Ending, Runs
<1>3. IsCrumb(k) /\ k.run = "r" /\ k.type \in {"agent:run:end", "agent:error"} BY EndCrumbIs
<1> HIDE DEF k
<1>4. spans' = spans \ {Span("run", <<"r", 0>>)}
  <2>1. ~Hides(k) BY <1>3 DEF Hides
  <2>a. spans' = Otel(spans, k) BY <1>1, <2>1, ShownAsIs
  <2>b. Otel(spans, k) = spans \ {Span("run", <<k.run, 0>>)} BY <1>3, OtelEnds
  <2> QED BY <1>3, <2>a, <2>b
<1>5. \A c \in calls : Begun(c) => \E d \in calls' : d.run = c.run /\ d.id = c.id /\ Begun(d)
  <2>1. calls' = (calls \ Pending("r")) \cup Lost(Pending("r")) BY DEF Ending
  <2> QED BY <2>1, LostKeeps, PendingRows
<1>6. ASSUME NEW s \in spans' PROVE s = Span(s.kind, s.id) /\ SpanOK(s)'
  <2>1. s = Span(s.kind, s.id) /\ SpanOK(s) BY <1>4 DEF SpansOK
  <2>2. s.kind # "human" BY <2>1, NoHuman
  <2>3. s.kind = "run" => \A x \in Runs : s.id = <<x, 0>> /\ ~Over(x) => ~Over(x)'
    <3>1. ~(s.kind = "run" /\ s.id = <<"r", 0>>) BY <1>4, <2>1
    <3>2. ~Over("c") => ~Over("c")' BY <1>2 DEF Over
    <3> QED BY <3>1, <3>2 DEF Runs
  <2> QED BY <1>1, <1>2, <1>5, <2>1, <2>2, <2>3, SpanStays
<1> QED BY <1>6 DEF SpansOK

LEMMA SpansPauses ==
  ASSUME VTypes, RunInv, SpansOK, NEW x \in Runs, Pauses(x)
  PROVE  SpansOK'
<1> DEFINE k == RunCrumb("human:required", x)
           new == Span("human", <<x, 0>>)
<1>0. state \in [Runs -> Places] BY DEF VTypes, RunTypes
<1>1. vis' = vis /\ direct' = direct /\ Emit(k, "returns") /\ state[x] = "live"
  BY DEF Pauses, Live
<1>r. (x = "r") => (state["c"] # "live") BY DEF Pauses, Live
<1>2. state'["r"] = "paused" /\ state'["c"] = (IF x = "c" THEN "paused" ELSE state["c"])
  BY <1>0 DEF Pauses, Runs
<1>3. k.type = "human:required" /\ k.run = x BY RunCrumbIs
<1> HIDE DEF k
<1>4. ~Hides(k) BY <1>3 DEF Hides
<1>a. spans' = Otel(spans, k) BY <1>1, <1>4, ShownAsIs
<1>b. Otel(spans, k) = spans \cup {Span("human", <<k.run, 0>>)} BY <1>3, OtelOpens
<1>5. spans' = spans \cup {new} BY <1>3, <1>a, <1>b
<1>6. new.kind = "human" /\ new.id = <<x, 0>> /\ new = Span(new.kind, new.id) BY SpanIs
<1>l. Live("c") \/ Live("r") BY <1>1 DEF Runs, Live
<1> HIDE DEF new
<1>7. SpanOK(new)'
  <2>1. state'[x] = "paused" BY <1>2 DEF Runs
  <2>2. x = "r" => state'["c"] \notin {"live", "paused"}
    BY <1>1, <1>2, <1>r DEF RunInv, RunBase, RunsOK, Live
  <2>3. new.id = <<"r", 0>> => x = "r" BY <1>6
  <2> QED BY <1>6, <2>1, <2>2, <2>3 DEF SpanOK
<1>c. \A c \in calls : Begun(c) => \E d \in calls' : d.run = c.run /\ d.id = c.id /\ Begun(d)
  <2> DEFINE P == Pending("r")
             S == Pending("c")
  <2>0. calls \subseteq CallRow /\ P \subseteq calls /\ S \subseteq calls
        /\ (\A c \in P : c.at # "lost" /\ c.run = "r") /\ (\A c \in S : c.at # "lost" /\ c.run = "c")
    BY PendingRows
  <2>1. calls' = (calls \ (P \cup S)) \cup Lost(P) BY DEF Pauses
  <2>2. \A c \in S : ~Begun(c)
    <3>1. CASE x = "c"
      <4>1. Running(S) = {} BY <3>1 DEF Pauses
      <4> QED BY <2>0, <4>1 DEF Running, Begun, CallRow
    <3>2. CASE x = "r"
      <4>1. ~Live("c") BY <1>r, <3>2 DEF Live
      <4>2. S = {} BY <2>0, <4>1 DEF RunInv, CallsLive
      <4> QED BY <4>2
    <3> QED BY <3>1, <3>2 DEF Runs
  <2> HIDE DEF P, S
  <2> TAKE c \in calls
  <2> HAVE Begun(c)
  <2>3. CASE c \notin P BY <2>1, <2>2, <2>3
  <2>4. CASE c \in P
    <3>0. P \subseteq CallRow /\ c \in CallRow BY <2>0
    <3>1. c.at \in {"early", "called"} BY <2>0, <3>0, <2>4 DEF Begun, CallRow
    <3>2. [c EXCEPT !.at = "lost"] \in Lost(P) BY <3>0, <2>4, <3>1, LostIs
    <3>3. [c EXCEPT !.at = "lost"].run = c.run /\ [c EXCEPT !.at = "lost"].id = c.id
          /\ [c EXCEPT !.at = "lost"].at = "lost"
      BY <3>0, MoveIs
    <3> QED BY <2>1, <3>2, <3>3 DEF Begun
  <2> QED BY <2>3, <2>4
<1>8. ASSUME NEW s \in spans, SpanOK(s) PROVE SpanOK(s)'
  <2>1. \A y \in Runs : ~Over(y) => ~Over(y)' BY <1>2 DEF Over, Runs
  <2>2. s.kind # "human" BY <1>l, <1>8, NoHuman
  <2>3. state'["c"] = "done" => state["c"] = "done" BY <1>2
  <2> QED BY <1>1, <1>c, <1>8, <2>1, <2>2, <2>3, SpanStays
<1> QED BY <1>5, <1>6, <1>7, <1>8, SpanNew

LEMMA SpansResumes ==
  ASSUME VTypes, RunInv, SpansOK, Resumes
  PROVE  SpansOK'
<1>p. PICK x \in Runs : x = (IF state["c"] = "paused" THEN "c" ELSE "r") BY DEF Runs
<1> DEFINE k == RunCrumb("human:resumed", x)
<1>0. state \in [Runs -> Places] BY DEF VTypes, RunTypes
<1>1. /\ vis' = vis /\ calls' = calls /\ direct' = (direct \/ x = "c")
      /\ state[x] = "paused" /\ state' = [state EXCEPT ![x] = "live"]
      /\ spans' = OnCrumb(spans, k)
  BY <1>p DEF Resumes
<1>2. k.type = "human:resumed" /\ k.run = x BY RunCrumbIs
<1> HIDE DEF k
<1>a. spans' = Otel(spans, k) BY <1>1 DEF OnCrumb
<1>b. Otel(spans, k) = spans \ {Span("human", <<k.run, 0>>)} BY <1>2, OtelEnds
<1>3. spans' = spans \ {Span("human", <<x, 0>>)} BY <1>2, <1>a, <1>b
<1>4. ASSUME NEW s \in spans' PROVE s = Span(s.kind, s.id) /\ SpanOK(s)'
  <2>1. s = Span(s.kind, s.id) /\ SpanOK(s) BY <1>3 DEF SpansOK
  <2>2. \A y \in Runs : ~Over(y) => ~Over(y)' BY <1>0, <1>1 DEF Over, Runs
  <2>3. s.kind = "human" => s.id # <<x, 0>> BY <1>3, <2>1
  <2>4. ASSUME s.kind = "human"
        PROVE  /\ \A y \in Runs : s.id = <<y, 0>> /\ state[y] = "paused" => state'[y] = "paused"
               /\ s.id = <<"r", 0>> /\ state'["c"] \in {"live", "paused"} => state["c"] \in {"live", "paused"}
    <3>1. \A y \in Runs : y # x => state'[y] = state[y] BY <1>0, <1>1
    <3>2. \A y \in Runs : s.id = <<y, 0>> => y # x BY <2>3, <2>4
    <3>3. CASE x = "c" BY <1>1, <3>1, <3>2, <3>3 DEF Runs
    <3>4. CASE x = "r" BY <1>0, <1>1, <3>1, <3>2, <3>4 DEF Runs
    <3> QED BY <3>3, <3>4 DEF Runs
  <2>5. state'["c"] = "done" => state["c"] = "done" BY <1>0, <1>1 DEF Runs
  <2> QED BY <1>1, <2>1, <2>2, <2>4, <2>5, SpanStays
<1> QED BY <1>4 DEF SpansOK

LEMMA SpansRetry ==
  ASSUME VTypes, SpansOK, NEW x \in Runs, RetryStep(x)
  PROVE  SpansOK'
<1>1. vis' = vis /\ direct' = direct /\ state' = state /\ spans' = spans
      /\ calls' = calls \ Pending(x) /\ \A c \in Pending(x) : c.at \in {"input", "ready"}
  BY DEF RetryStep
<1>2. \A c \in calls : Begun(c) => c \in calls' BY <1>1 DEF Begun
<1> QED BY <1>1, <1>2, SpansQuiet

LEMMA SpansStep ==
  ASSUME VTypes, RunInv, SpansOK, [Next]_vars
  PROVE  SpansOK'
<1>0. status \in [Runs -> Statuses] /\ \A c \in calls : c.run \in Runs
  BY DEF VTypes, RunTypes, CallsOK, CallRow
<1>q. ASSUME vis' = vis, direct' = direct, state' = state, spans' = spans, calls' = calls
      PROVE  SpansOK'
  BY <1>q, SpansQuiet
<1>1. CASE Begin BY <1>1, SpansBegin
<1>2. CASE Refused BY <1>2, <1>q DEF Refused, source
<1>3. CASE Resumes BY <1>3, SpansResumes
<1>4. CASE CancelDecides BY <1>4, <1>q DEF CancelDecides, source
<1>5. CASE UNCHANGED vars BY <1>5, <1>q DEF vars, source
<1>6. ASSUME NEW x \in Runs, Text(x) PROVE SpansOK'
  <2>1. spans' = spans BY <1>0, <1>6, NoSpan, RunCrumbIs DEF Text
  <2> QED BY <1>6, <1>q, <2>1 DEF Text
<1>7. ASSUME NEW x \in Runs, InputStarts(x) \/ CallsAtOnce(x) PROVE SpansOK'
  BY <1>7, SpansCalls
<1>8. ASSUME NEW x \in Runs, RetryStep(x) PROVE SpansOK' BY <1>8, SpansRetry
<1>9. ASSUME NEW x \in Runs, Pauses(x) PROVE SpansOK' BY <1>9, SpansPauses
<1>10. ASSUME NEW x \in Runs, CancelReads(x) PROVE SpansOK'
  BY <1>10, <1>q DEF CancelReads, source
<1>11. ASSUME NEW c \in calls, InputGrows(c) PROVE SpansOK'
  <2>1. spans' = spans BY <1>0, <1>11, NoSpan, CallCrumbIs DEF InputGrows
  <2> QED BY <1>11, <1>q, <2>1 DEF InputGrows, source
<1>12. ASSUME NEW c \in calls, InputEnds(c) \/ Execute(c) PROVE SpansOK' BY <1>12, SpansMoves
<1>13. ASSUME NEW c \in calls, Delegate(c) PROVE SpansOK' BY <1>13, SpansDelegate
<1>14. ASSUME NEW c \in calls, NEW type \in {"tool:result", "tool:error"}, Outcome(c, type)
       PROVE  SpansOK'
  BY <1>14, SpansOutcome
<1>15. ASSUME NEW how \in Hows, ChildEnds(how, ChildCrumb(how)) PROVE SpansOK'
  BY <1>15, SpansChildEnds
<1>16. ASSUME NEW how \in Hows, Ending(how, EndCrumb(how), EndCode(how)), Live("r") PROVE SpansOK'
  BY <1>16, SpansEnds
<1> QED BY <1>1, <1>2, <1>3, <1>4, <1>5, <1>6, <1>7, <1>8, <1>9, <1>10, <1>11, <1>12, <1>13,
           <1>14, <1>15, <1>16, NextCases, Zenon

-----------------------------------------------------------------------------
(* The events of an open stream.                                           *)
LEMMA EmitClosed ==
  ASSUME NEW c, NEW ending, Emit(c, ending), stream = "closed"
  PROVE  view' = view /\ stream' = "closed"
BY DEF Emit

LEMMA EmitSeen ==
  ASSUME NEW c, Emit(c, "on"), stream = "open", ~Hides(c)
  PROVE  view' = Watch(view, c) /\ stream' = "open"
<1>1. Streams("on", Watch(view, c)) BY SurfacesAsIs, EmitAs
<1> QED BY <1>1 DEF Streams, Closes

LEMMA EmitUnseen ==
  ASSUME NEW c, IsCrumb(c), Emit(c, "on"), stream = "open", Hides(c), status \in [Runs -> Statuses]
  PROVE  view'.ui = view.ui /\ view'.client = view.client /\ stream' = "open"
<1>1. CASE Surfaces(c) = << >>
  <2>1. Streams("on", view) BY <1>1, EmitNot
  <2> QED BY <2>1 DEF Streams, Closes
<1>2. ASSUME NEW d, Surfaces(c) = <<d>>, d.type \in {"subagent:run:start", "subagent:run:end"}
      PROVE  view'.ui = view.ui /\ view'.client = view.client /\ stream' = "open"
  <2>1. Streams("on", Watch(view, d)) BY <1>2, EmitAs
  <2>2. view' = Watch(view, d) /\ stream' = "open" BY <2>1 DEF Streams, Closes
  <2> QED BY <1>2, <2>2, WatchQuiet
<1>3. CASE vis = "mediate" /\ c.type = "agent:run:start"
  <2>1. Renamed(c, "subagent:run:start").type = "subagent:run:start" BY RenamedIs
  <2> QED BY <1>2, <1>3, <2>1, SurfacesStart
<1>4. CASE vis = "mediate" /\ c.type = "agent:run:end"
  <2>1. Renamed(c, "subagent:run:end").type = "subagent:run:end" BY RenamedIs
  <2> QED BY <1>2, <1>4, <2>1, SurfacesEnd
<1>5. CASE ~(vis = "mediate" /\ c.type \in {"agent:run:start", "agent:run:end"})
  BY <1>1, <1>5, SurfacesNot
<1> QED BY <1>3, <1>4, <1>5

\* What a step of the open stream establishes.
FrameNext == FrameOK' /\ view'.client.wrong = view.client.wrong

\* A crumb that changes nothing for the client but an open message.
LEMMA FrameKeep ==
  ASSUME FrameOK, UNCHANGED <<vis, state, minted>>, calls' \subseteq calls, Linked(view'.ui, view'.client),
         \A y \in Runs : view'.ui.open[y] = view.ui.open[y] \/ (Live(y) /\ (y = "r" \/ vis = "passthrough")),
         view'.ui.streaming = view.ui.streaming, view'.client.tools = view.client.tools,
         SameRuns(view'.client, view.client), view'.client.wrong = view.client.wrong
  PROVE  FrameNext
<1>1. IdleShut' BY DEF FrameOK, IdleShut, Live, Opened, Runs
<1>2. RunsShown' BY DEF FrameOK, RunsShown, Live, SameRuns
<1>3. Unborn' BY DEF FrameOK, Unborn
<1>4. CallsShown' BY DEF FrameOK, CallsShown, CallOK, Stage
<1> QED BY <1>1, <1>2, <1>3, <1>4 DEF FrameOK, FrameNext

LEMMA FrameSame ==
  ASSUME FrameOK, UNCHANGED <<vis, state, minted>>, calls' \subseteq calls,
         view'.ui = view.ui, view'.client = view.client
  PROVE  FrameNext
<1>1. SameRuns(view'.client, view.client) /\ Linked(view'.ui, view'.client)
  BY DEF SameRuns, FrameOK
<1> QED BY <1>1, FrameKeep

\* What is known of an open stream.
LEMMA OpenIs ==
  ASSUME VTypes, RunInv, stream = "open", FrameOK
  PROVE  /\ Good(view) /\ ~direct /\ pauses = 0 /\ status \in [Runs -> Statuses]
         /\ state["r"] \in {"none", "live"} /\ state \in [Runs -> Places]
         /\ CallsOK(calls, minted) /\ calls \subseteq CallRow /\ minted \in 0..MaxCalls
         /\ ClientTypes(view.client) /\ UiTypes(view.ui)
         /\ view.client.tools \in [Calls -> ToolStages]
BY DEF VTypes, RunTypes, RunInv, RunBase, RunsOK, Good, FrameOK, CallsOK, ViewTypes, ClientTypes

LEMMA FrameText ==
  ASSUME VTypes, RunInv, stream = "open", FrameOK, NEW x \in Runs, Text(x)
  PROVE  FrameNext
<1> DEFINE k == RunCrumb("text:delta", x)
<1>0. UNCHANGED <<vis, state, minted, calls>> /\ Live(x) /\ Emit(k, "on") BY DEF Text
<1>1. IsCrumb(k) /\ k.type = "text:delta" /\ k.run = x BY RunCrumbIs
<1>o. Good(view) /\ ~direct /\ status \in [Runs -> Statuses] BY OpenIs
<1> HIDE DEF k
<1>2. CASE Hides(k)
  <2>1. view'.ui = view.ui /\ view'.client = view.client BY <1>0, <1>1, <1>2, <1>o, EmitUnseen
  <2> QED BY <1>0, <2>1, FrameSame
<1>3. CASE ~Hides(k)
  <2>1. view' = Watch(view, k) BY <1>0, <1>3, EmitSeen
  <2>2. x = "r" \/ vis = "passthrough" BY <1>1, <1>3, <1>o DEF Hides, Runs
  <2>3. /\ Good(view') /\ \A y \in Runs : y # x => view'.ui.open[y] = view.ui.open[y]
        /\ view'.ui.streaming = view.ui.streaming /\ view'.client.wrong = view.client.wrong
        /\ view'.client.tools = view.client.tools /\ SameRuns(view'.client, view.client)
    BY <1>1, <1>o, <2>1, WatchText
  <2>4. \A y \in Runs : view'.ui.open[y] = view.ui.open[y] \/ (Live(y) /\ (y = "r" \/ vis = "passthrough"))
    BY <1>0, <2>2, <2>3
  <2> QED BY <1>0, <2>3, <2>4, FrameKeep DEF Good
<1> QED BY <1>2, <1>3

LEMMA FrameGrows ==
  ASSUME VTypes, RunInv, stream = "open", FrameOK, NEW c \in calls, InputGrows(c)
  PROVE  FrameNext
<1> DEFINE k == CallCrumb("tool:input:delta", c)
<1>0. UNCHANGED <<vis, state, minted, calls>> /\ Live(c.run) /\ Emit(k, "on") /\ c.at \in {"input", "early"}
  BY DEF InputGrows, source
<1>o. Good(view) /\ ~direct /\ status \in [Runs -> Statuses] /\ calls \subseteq CallRow
      /\ CallsOK(calls, minted) /\ view.client.tools \in [Calls -> ToolStages] /\ minted \in 0..MaxCalls
  BY OpenIs
<1>c. c.run \in Runs /\ c.id \in Calls BY <1>o DEF CallRow
<1>1. IsCrumb(k) /\ k.type = "tool:input:delta" /\ k.run = c.run /\ k.call = c.id BY <1>c, CallCrumbIs
<1> HIDE DEF k
<1>2. CASE Hides(k)
  <2>1. view'.ui = view.ui /\ view'.client = view.client BY <1>0, <1>1, <1>2, <1>o, EmitUnseen
  <2> QED BY <1>0, <2>1, FrameSame
<1>3. CASE ~Hides(k)
  <2>1. view' = Watch(view, k) BY <1>0, <1>3, EmitSeen
  <2>2. c.run = "r" \/ vis = "passthrough" BY <1>c, <1>1, <1>3, <1>o DEF Hides, Runs
  <2>3. view.client.tools[c.id] \in {"TOOL_CALL_START", "TOOL_CALL_ARGS"}
    BY <1>0, <2>2 DEF FrameOK, CallsShown, CallOK, Stage
  <2>4. Good(view') /\ view'.ui = view.ui /\ Moves(view', view, c.id, "TOOL_CALL_ARGS")
    BY <1>c, <1>1, <1>o, <2>1, <2>3, WatchInput
  <2>5. IdleShut' BY <1>0, <2>4 DEF FrameOK, IdleShut, Live, Opened
  <2>6. RunsShown' BY <1>0, <2>4 DEF FrameOK, RunsShown, Live, Moves, SameRuns
  <2>7. \A n \in Calls : n # c.id => view'.client.tools[n] = view.client.tools[n]
    BY <1>o, <2>4 DEF Moves
  <2>8. view'.client.tools[c.id] = "TOOL_CALL_ARGS" BY <1>c, <1>o, <2>4 DEF Moves
  <2>9. Unborn'
    <3>1. c.id <= minted /\ c.id \in Nat /\ minted \in Nat BY <1>o, <1>c DEF CallsOK, Calls
    <3>2. \A n \in Calls : n > minted => n # c.id BY <3>1 DEF Calls
    <3> QED BY <1>0, <2>4, <2>7, <3>2 DEF FrameOK, Unborn
  <2>10. CallsShown'
    <3>1. ASSUME NEW d \in calls, d.run = "r" \/ vis = "passthrough" PROVE CallOK(d)'
      <4>1. CASE d = c
        BY <1>0, <2>2, <2>4, <2>8, <4>1 DEF FrameOK, CallsShown, CallOK, Stage
      <4>2. CASE d # c
        <5>1. d.id # c.id /\ d.id \in Calls BY <1>o, <4>2 DEF CallsOK, CallRow
        <5>2. CallOK(d) BY <3>1 DEF FrameOK, CallsShown
        <5> QED BY <2>4, <2>7, <5>1, <5>2 DEF CallOK, Stage
      <4> QED BY <4>1, <4>2
    <3> QED BY <1>0, <3>1 DEF CallsShown
  <2> QED BY <2>4, <2>5, <2>6, <2>9, <2>10 DEF FrameNext, FrameOK, Good, Moves
<1> QED BY <1>2, <1>3

\* The call d, as the client of v is shown it.
Fits(v, d) ==
  d.at # "lost" =>
    /\ v.client.tools[d.id] \in Stage(d)
    /\ d.id \in v.ui.streaming <=> d.at \in {"input", "ready"}

\* A crumb of call k, which may be a new one.
LEMMA FrameCall ==
  ASSUME FrameOK, UNCHANGED <<vis, state>>, minted \in Nat, minted' \in Nat, minted <= minted',
         NEW k \in Calls, k <= minted', Linked(view'.ui, view'.client),
         \A y \in Runs : view'.ui.open[y] \in {view.ui.open[y], 0},
         \A n \in Calls : n # k => /\ view'.client.tools[n] = view.client.tools[n]
                                   /\ n \in view'.ui.streaming <=> n \in view.ui.streaming,
         SameRuns(view'.client, view.client), view'.client.wrong = view.client.wrong,
         \A d \in calls' : d.run = "r" \/ vis = "passthrough" =>
                             (d \in calls /\ d.id \in Calls /\ d.id # k) \/ Fits(view', d)
  PROVE  FrameNext
<1>1. IdleShut' BY DEF FrameOK, IdleShut, Live, Opened, Runs
<1>2. RunsShown' BY DEF FrameOK, RunsShown, Live, SameRuns
<1>3. Unborn'
  <2>1. ASSUME NEW n \in Calls, n > minted'
        PROVE view'.client.tools[n] = "none" /\ n \notin view'.ui.streaming
    <3>1. n # k /\ n > minted BY <2>1 DEF Calls
    <3> QED BY <2>1, <3>1 DEF FrameOK, Unborn
  <2> QED BY <2>1 DEF Unborn
<1>4. CallsShown'
  <2>1. ASSUME NEW d \in calls', d.run = "r" \/ vis = "passthrough" PROVE CallOK(d)'
    <3>1. CASE Fits(view', d) BY <3>1 DEF Fits, CallOK
    <3>2. CASE d \in calls /\ d.id \in Calls /\ d.id # k
      <4>1. CallOK(d) BY <2>1, <3>2 DEF FrameOK, CallsShown
      <4> QED BY <3>2, <4>1 DEF CallOK
    <3> QED BY <2>1, <3>1, <3>2
  <2> QED BY <2>1 DEF CallsShown
<1> QED BY <1>1, <1>2, <1>3, <1>4 DEF FrameOK, FrameNext

\* A call the client is not shown.
LEMMA FrameHidden ==
  ASSUME FrameOK, UNCHANGED <<vis, state>>, minted \in Nat, minted' \in Nat, minted <= minted',
         view'.ui = view.ui, view'.client = view.client,
         \A d \in calls' : d \in calls \/ ~(d.run = "r" \/ vis = "passthrough")
  PROVE  FrameNext
<1>1. IdleShut' BY DEF FrameOK, IdleShut, Live, Opened, Runs
<1>2. RunsShown' BY DEF FrameOK, RunsShown, Live
<1>3. Unborn' BY DEF FrameOK, Unborn, Calls
<1>4. CallsShown' BY DEF FrameOK, CallsShown, CallOK, Stage
<1>5. Linked(view.ui, view.client)' BY DEF FrameOK
<1> QED BY <1>1, <1>2, <1>3, <1>4, <1>5 DEF FrameOK, FrameNext

LEMMA FrameInputStarts ==
  ASSUME VTypes, RunInv, stream = "open", FrameOK, NEW x \in Runs, InputStarts(x)
  PROVE  FrameNext
<1> PICK c : c = NewCall(x, "input") OBVIOUS
<1> PICK k : k = CallCrumb("tool:input:start", c) OBVIOUS
<1>0. UNCHANGED <<vis, state>> /\ calls' = calls \cup {c} /\ minted' = minted + 1 /\ minted < MaxCalls
      /\ Emit(k, "on")
  BY DEF InputStarts
<1>o. Good(view) /\ ~direct /\ status \in [Runs -> Statuses] /\ calls \subseteq CallRow
      /\ CallsOK(calls, minted) /\ view.client.tools \in [Calls -> ToolStages]
      /\ minted \in Nat /\ UiTypes(view.ui)
  BY OpenIs
<1>c. c.run = x /\ c.id = minted + 1 /\ c.at = "input" BY DEF NewCall
<1>m. c.id \in Calls /\ c.id > minted /\ minted' \in Nat /\ minted <= minted' /\ c.id <= minted'
  BY <1>0, <1>c, <1>o, BoundAssumption DEF Calls
<1>1. IsCrumb(k) /\ k.type = "tool:input:start" /\ k.run = x /\ k.call = c.id BY <1>c, CallCrumbIs
<1>2. CASE Hides(k)
  <2>1. view'.ui = view.ui /\ view'.client = view.client BY <1>0, <1>1, <1>2, <1>o, EmitUnseen
  <2>2. c.run # "r" /\ vis # "passthrough" BY <1>1, <1>2, <1>c DEF Hides
  <2> QED BY <1>0, <1>o, <1>m, <2>1, <2>2, FrameHidden
<1>3. CASE ~Hides(k)
  <2>1. view' = Watch(view, k) BY <1>0, <1>3, EmitSeen
  <2>2. view.client.tools[c.id] = "none" /\ c.id \notin view.ui.streaming
    BY <1>m DEF FrameOK, Unborn
  <2>3. /\ Good(view') /\ Moves(view', view, c.id, "TOOL_CALL_START")
        /\ view'.ui.open = [view.ui.open EXCEPT ![x] = 0]
        /\ view'.ui.streaming = view.ui.streaming \cup {c.id}
    BY <1>1, <1>m, <1>o, <2>1, <2>2, WatchInputStart
  <2>4. \A n \in Calls : n # c.id => /\ view'.client.tools[n] = view.client.tools[n]
                                     /\ n \in view'.ui.streaming <=> n \in view.ui.streaming
    BY <1>o, <2>3 DEF Moves
  <2>5. view'.client.tools[c.id] = "TOOL_CALL_START" BY <1>m, <1>o, <2>3 DEF Moves
  <2>6. Fits(view', c) BY <1>c, <2>3, <2>5 DEF Fits, Stage
  <2>7. \A y \in Runs : view'.ui.open[y] \in {view.ui.open[y], 0} BY <1>o, <2>3 DEF UiTypes
  <2>8. \A d \in calls : d.id \in Calls /\ d.id # c.id
    <3>1. \A d \in calls : d.id <= minted /\ d.id \in Nat BY <1>o DEF CallsOK, CallRow, Calls
    <3> QED BY <1>o, <1>c, <3>1 DEF CallRow
  <2>9. SameRuns(view'.client, view.client) /\ view'.client.wrong = view.client.wrong
        /\ Linked(view'.ui, view'.client)
    BY <2>3 DEF Moves, Good
  <2> QED BY <1>0, <1>o, <1>m, <2>4, <2>6, <2>7, <2>8, <2>9, FrameCall
<1> QED BY <1>2, <1>3

LEMMA FrameCallsAtOnce ==
  ASSUME VTypes, RunInv, stream = "open", FrameOK, NEW x \in Runs, CallsAtOnce(x)
  PROVE  FrameNext
<1> PICK c : c = NewCall(x, "called") OBVIOUS
<1> PICK k : k = CallCrumb("tool:call", c) OBVIOUS
<1>0. UNCHANGED <<vis, state>> /\ calls' = calls \cup {c} /\ minted' = minted + 1 /\ minted < MaxCalls
      /\ Emit(k, "on")
  BY DEF CallsAtOnce
<1>o. Good(view) /\ ~direct /\ status \in [Runs -> Statuses] /\ calls \subseteq CallRow
      /\ CallsOK(calls, minted) /\ view.client.tools \in [Calls -> ToolStages]
      /\ minted \in Nat /\ UiTypes(view.ui)
  BY OpenIs
<1>c. c.run = x /\ c.id = minted + 1 /\ c.at = "called" BY DEF NewCall
<1>m. c.id \in Calls /\ c.id > minted /\ minted' \in Nat /\ minted <= minted' /\ c.id <= minted'
  BY <1>0, <1>c, <1>o, BoundAssumption DEF Calls
<1>1. IsCrumb(k) /\ k.type = "tool:call" /\ k.run = x /\ k.call = c.id BY <1>c, CallCrumbIs
<1>2. CASE Hides(k)
  <2>1. view'.ui = view.ui /\ view'.client = view.client BY <1>0, <1>1, <1>2, <1>o, EmitUnseen
  <2>2. c.run # "r" /\ vis # "passthrough" BY <1>1, <1>2, <1>c DEF Hides
  <2> QED BY <1>0, <1>o, <1>m, <2>1, <2>2, FrameHidden
<1>3. CASE ~Hides(k)
  <2>1. view' = Watch(view, k) BY <1>0, <1>3, EmitSeen
  <2>2. view.client.tools[c.id] = "none" /\ c.id \notin view.ui.streaming
    BY <1>m DEF FrameOK, Unborn
  <2>3. /\ Good(view') /\ Moves(view', view, c.id, "TOOL_CALL_END")
        /\ view'.ui = Closed(view.ui, x)
    BY <1>1, <1>m, <1>o, <2>1, <2>2, WatchCallAtOnce
  <2>3a. view'.ui.open = [view.ui.open EXCEPT ![x] = 0] /\ view'.ui.streaming = view.ui.streaming
    BY <1>o, <2>3 DEF Closed, UiTypes
  <2>4. \A n \in Calls : n # c.id => /\ view'.client.tools[n] = view.client.tools[n]
                                     /\ n \in view'.ui.streaming <=> n \in view.ui.streaming
    BY <1>o, <2>3, <2>3a DEF Moves
  <2>5. view'.client.tools[c.id] = "TOOL_CALL_END" BY <1>m, <1>o, <2>3 DEF Moves
  <2>6. Fits(view', c) BY <1>c, <2>2, <2>3a, <2>5 DEF Fits, Stage
  <2>7. \A y \in Runs : view'.ui.open[y] \in {view.ui.open[y], 0} BY <1>o, <2>3a DEF UiTypes
  <2>8. \A d \in calls : d.id \in Calls /\ d.id # c.id
    <3>1. \A d \in calls : d.id <= minted /\ d.id \in Nat BY <1>o DEF CallsOK, CallRow, Calls
    <3> QED BY <1>o, <1>c, <3>1 DEF CallRow
  <2>9. SameRuns(view'.client, view.client) /\ view'.client.wrong = view.client.wrong
        /\ Linked(view'.ui, view'.client)
    BY <2>3 DEF Moves, Good
  <2> QED BY <1>0, <1>o, <1>m, <2>4, <2>6, <2>7, <2>8, <2>9, FrameCall
<1> QED BY <1>2, <1>3

\* The other calls of a row c that moves on.
LEMMA OtherCalls ==
  ASSUME CallsOK(calls, minted), minted \in 0..MaxCalls, NEW c \in calls
  PROVE  /\ c \in CallRow /\ c.run \in Runs /\ c.id \in Calls /\ c.id <= minted /\ minted \in Nat
         /\ \A d \in calls \ {c} : d.id \in Calls /\ d.id # c.id
BY BoundAssumption DEF CallsOK, CallRow

LEMMA FrameInputEnds ==
  ASSUME VTypes, RunInv, stream = "open", FrameOK, NEW c \in calls, InputEnds(c)
  PROVE  FrameNext
<1> PICK at \in {"ready", "called"} : at = IF c.at = "input" THEN "ready" ELSE "called" OBVIOUS
<1> PICK d : d = [c EXCEPT !.at = at] OBVIOUS
<1> PICK k : k = CallCrumb("tool:input:end", c) OBVIOUS
<1>0. UNCHANGED <<vis, state, minted>> /\ calls' = (calls \ {c}) \cup {d} /\ c.at \in {"input", "early"}
      /\ Emit(k, "on")
  BY DEF InputEnds, Becomes
<1>o. Good(view) /\ ~direct /\ status \in [Runs -> Statuses] /\ minted \in 0..MaxCalls
      /\ CallsOK(calls, minted) /\ view.client.tools \in [Calls -> ToolStages]
  BY OpenIs
<1>m. c \in CallRow /\ c.run \in Runs /\ c.id \in Calls /\ c.id <= minted /\ minted \in Nat
      /\ \A e \in calls \ {c} : e.id \in Calls /\ e.id # c.id
  BY <1>o, OtherCalls
<1>c. d.id = c.id /\ d.run = c.run /\ d.at = at BY <1>m, MoveIs
<1>1. IsCrumb(k) /\ k.type = "tool:input:end" /\ k.run = c.run /\ k.call = c.id BY <1>m, CallCrumbIs
<1>2. CASE Hides(k)
  <2>1. view'.ui = view.ui /\ view'.client = view.client BY <1>0, <1>1, <1>2, <1>o, EmitUnseen
  <2>2. d.run # "r" /\ vis # "passthrough" BY <1>1, <1>2, <1>c DEF Hides
  <2>3. \A e \in calls' : e \in calls \/ ~(e.run = "r" \/ vis = "passthrough") BY <1>0, <2>2
  <2>4. minted' \in Nat /\ minted <= minted' BY <1>0, <1>m
  <2> QED BY <1>0, <1>m, <2>1, <2>3, <2>4, FrameHidden
<1>3. CASE ~Hides(k)
  <2>1. view' = Watch(view, k) BY <1>0, <1>3, EmitSeen
  <2>2. c.run = "r" \/ vis = "passthrough" BY <1>m, <1>1, <1>3, <1>o DEF Hides, Runs
  <2>2a. view.client.tools[c.id] \in {"TOOL_CALL_START", "TOOL_CALL_ARGS"}
         /\ (c.id \in view.ui.streaming <=> c.at = "input")
    BY <1>0, <2>2 DEF FrameOK, CallsShown, CallOK, Stage
  <2>3. Good(view') /\ view'.ui = view.ui /\ Moves(view', view, c.id, "TOOL_CALL_END")
    BY <1>1, <1>m, <1>o, <2>1, <2>2a, WatchInput
  <2>4. \A n \in Calls : n # c.id => /\ view'.client.tools[n] = view.client.tools[n]
                                     /\ n \in view'.ui.streaming <=> n \in view.ui.streaming
    BY <1>o, <2>3 DEF Moves
  <2>5. view'.client.tools[c.id] = "TOOL_CALL_END" BY <1>m, <1>o, <2>3 DEF Moves
  <2>6. Fits(view', d) BY <1>0, <1>c, <2>2a, <2>3, <2>5 DEF Fits, Stage
  <2>7. \A y \in Runs : view'.ui.open[y] \in {view.ui.open[y], 0} BY <2>3
  <2>9. SameRuns(view'.client, view.client) /\ view'.client.wrong = view.client.wrong
        /\ Linked(view'.ui, view'.client)
    BY <2>3 DEF Moves, Good
  <2> QED BY <1>0, <1>m, <2>4, <2>6, <2>7, <2>9, FrameCall
<1> QED BY <1>2, <1>3

LEMMA FrameExecute ==
  ASSUME VTypes, RunInv, stream = "open", FrameOK, NEW c \in calls, Execute(c)
  PROVE  FrameNext
<1> PICK at \in {"early", "called"} : at = IF c.at = "input" THEN "early" ELSE "called" OBVIOUS
<1> PICK d : d = [c EXCEPT !.at = at] OBVIOUS
<1> PICK k : k = CallCrumb("tool:call", c) OBVIOUS
<1>0. UNCHANGED <<vis, state, minted>> /\ calls' = (calls \ {c}) \cup {d} /\ c.at \in {"input", "ready"}
      /\ Emit(k, "on")
  BY DEF Execute, Becomes
<1>o. Good(view) /\ ~direct /\ status \in [Runs -> Statuses] /\ minted \in 0..MaxCalls
      /\ CallsOK(calls, minted) /\ view.client.tools \in [Calls -> ToolStages]
      /\ ClientTypes(view.client)
  BY OpenIs
<1>m. c \in CallRow /\ c.run \in Runs /\ c.id \in Calls /\ c.id <= minted /\ minted \in Nat
      /\ \A e \in calls \ {c} : e.id \in Calls /\ e.id # c.id
  BY <1>o, OtherCalls
<1>c. d.id = c.id /\ d.run = c.run /\ d.at = at BY <1>m, MoveIs
<1>1. IsCrumb(k) /\ k.type = "tool:call" /\ k.run = c.run /\ k.call = c.id BY <1>m, CallCrumbIs
<1>2. CASE Hides(k)
  <2>1. view'.ui = view.ui /\ view'.client = view.client BY <1>0, <1>1, <1>2, <1>o, EmitUnseen
  <2>2. d.run # "r" /\ vis # "passthrough" BY <1>1, <1>2, <1>c DEF Hides
  <2>3. \A e \in calls' : e \in calls \/ ~(e.run = "r" \/ vis = "passthrough") BY <1>0, <2>2
  <2>4. minted' \in Nat /\ minted <= minted' BY <1>0, <1>m
  <2> QED BY <1>0, <1>m, <2>1, <2>3, <2>4, FrameHidden
<1>3. CASE ~Hides(k)
  <2>1. view' = Watch(view, k) BY <1>0, <1>3, EmitSeen
  <2>2. c.run = "r" \/ vis = "passthrough" BY <1>m, <1>1, <1>3, <1>o DEF Hides, Runs
  <2>2a. view.client.tools[c.id] \in Stage(c) /\ c.id \in view.ui.streaming
    BY <1>0, <2>2 DEF FrameOK, CallsShown, CallOK
  <2>3. /\ Good(view') /\ view'.client = view.client /\ view'.ui.open = view.ui.open
        /\ view'.ui.streaming = view.ui.streaming \ {c.id}
    BY <1>1, <1>o, <2>1, <2>2a, WatchCallStreamed
  <2>4. \A n \in Calls : n # c.id => /\ view'.client.tools[n] = view.client.tools[n]
                                     /\ n \in view'.ui.streaming <=> n \in view.ui.streaming
    BY <2>3
  <2>6. Fits(view', d) BY <1>0, <1>c, <2>2a, <2>3 DEF Fits, Stage
  <2>7. \A y \in Runs : view'.ui.open[y] \in {view.ui.open[y], 0} BY <2>3
  <2>9. SameRuns(view'.client, view.client) /\ view'.client.wrong = view.client.wrong
        /\ Linked(view'.ui, view'.client)
    BY <2>3 DEF SameRuns, Good
  <2> QED BY <1>0, <1>m, <2>4, <2>6, <2>7, <2>9, FrameCall
<1> QED BY <1>2, <1>3

LEMMA FrameOutcome ==
  ASSUME VTypes, RunInv, stream = "open", FrameOK, NEW c \in calls,
         NEW type \in {"tool:result", "tool:error"}, Outcome(c, type)
  PROVE  FrameNext
<1> PICK k : k = CallCrumb(type, c) OBVIOUS
<1>0. UNCHANGED <<vis, state, minted>> /\ calls' = calls \ {c} /\ c.at = "called" /\ Emit(k, "on")
  BY DEF Outcome
<1>o. Good(view) /\ ~direct /\ status \in [Runs -> Statuses] /\ minted \in 0..MaxCalls
      /\ CallsOK(calls, minted) /\ view.client.tools \in [Calls -> ToolStages]
  BY OpenIs
<1>m. c \in CallRow /\ c.run \in Runs /\ c.id \in Calls /\ c.id <= minted /\ minted \in Nat
      /\ \A e \in calls \ {c} : e.id \in Calls /\ e.id # c.id
  BY <1>o, OtherCalls
<1>1. IsCrumb(k) /\ k.type = type /\ k.run = c.run /\ k.call = c.id BY <1>m, CallCrumbIs
<1>2. CASE Hides(k)
  <2>1. view'.ui = view.ui /\ view'.client = view.client BY <1>0, <1>1, <1>2, <1>o, EmitUnseen
  <2> QED BY <1>0, <1>m, <2>1, FrameHidden
<1>3. CASE ~Hides(k)
  <2>1. view' = Watch(view, k) BY <1>0, <1>3, EmitSeen
  <2>2. c.run = "r" \/ vis = "passthrough" BY <1>m, <1>1, <1>3, <1>o DEF Hides, Runs
  <2>2a. view.client.tools[c.id] = "TOOL_CALL_END"
    BY <1>0, <2>2 DEF FrameOK, CallsShown, CallOK, Stage
  <2>3. /\ Good(view') /\ Moves(view', view, c.id, "TOOL_CALL_RESULT")
        /\ view'.ui.open = view.ui.open /\ view'.ui.streaming = view.ui.streaming
    BY <1>1, <1>m, <1>o, <2>1, <2>2a, WatchOutcome
  <2>4. \A n \in Calls : n # c.id => /\ view'.client.tools[n] = view.client.tools[n]
                                     /\ n \in view'.ui.streaming <=> n \in view.ui.streaming
    BY <1>o, <2>3 DEF Moves
  <2>7. \A y \in Runs : view'.ui.open[y] \in {view.ui.open[y], 0} BY <2>3
  <2>9. SameRuns(view'.client, view.client) /\ view'.client.wrong = view.client.wrong
        /\ Linked(view'.ui, view'.client)
    BY <2>3 DEF Moves, Good
  <2> QED BY <1>0, <1>m, <2>4, <2>7, <2>9, FrameCall
<1> QED BY <1>2, <1>3

LEMMA FrameBegin ==
  ASSUME VTypes, RunInv, stream = "open", FrameOK, Begin
  PROVE  FrameNext
<1> PICK k : k = RunCrumb("agent:run:start", "r") OBVIOUS
<1>0. UNCHANGED <<vis, calls, minted>> /\ state' = [state EXCEPT !["r"] = "live"] /\ state["r"] = "none"
      /\ Emit(k, "on")
  BY DEF Begin
<1>o. Good(view) /\ ~direct /\ pauses = 0 /\ state \in [Runs -> Places] /\ ClientTypes(view.client) BY OpenIs
<1>1. IsCrumb(k) /\ k.type = "agent:run:start" /\ k.run = "r" BY RunCrumbIs DEF Runs
<1>2. ~Hides(k) BY <1>1 DEF Hides
<1>3. view' = Watch(view, k) BY <1>0, <1>2, EmitSeen
<1>4. /\ Good(view') /\ view'.ui = view.ui /\ view'.client.wrong = view.client.wrong
      /\ view'.client.tools = view.client.tools /\ view'.client.running = view.client.running + 1
  BY <1>1, <1>3, <1>o, WatchStart
<1>5. state'["r"] = "live" /\ state'["c"] = state["c"] BY <1>0, <1>o DEF Runs
<1>6. state["c"] # "live" BY <1>0 DEF RunInv, RunBase, RunsOK, Live
<1>7. IdleShut' BY <1>0, <1>4, <1>5 DEF FrameOK, IdleShut, Live, Opened, Runs
<1>8. RunsShown' BY <1>0, <1>4, <1>5, <1>6 DEF FrameOK, RunsShown, Live
<1>9. Unborn' BY <1>0, <1>4 DEF FrameOK, Unborn
<1>10. CallsShown' BY <1>0, <1>4 DEF FrameOK, CallsShown, CallOK, Stage
<1> QED BY <1>4, <1>7, <1>8, <1>9, <1>10 DEF FrameOK, FrameNext, Good

LEMMA FrameDelegate ==
  ASSUME VTypes, RunInv, stream = "open", FrameOK, NEW c \in calls, Delegate(c)
  PROVE  FrameNext
<1> PICK k : k = RunCrumb("agent:run:start", "c") OBVIOUS
<1>0. UNCHANGED <<vis, calls, minted>> /\ state' = [state EXCEPT !["c"] = "live"] /\ state["c"] = "none"
      /\ state["r"] = "live" /\ Emit(k, "on")
  BY DEF Delegate, Live
<1>o. Good(view) /\ ~direct /\ state \in [Runs -> Places] /\ ClientTypes(view.client)
      /\ status \in [Runs -> Statuses]
  BY OpenIs
<1>1. IsCrumb(k) /\ k.type = "agent:run:start" /\ k.run = "c" BY RunCrumbIs DEF Runs
<1>5. state'["c"] = "live" /\ state'["r"] = state["r"] BY <1>0, <1>o DEF Runs
<1>2. CASE Hides(k)
  <2>1. view'.ui = view.ui /\ view'.client = view.client BY <1>0, <1>1, <1>2, <1>o, EmitUnseen
  <2>2. vis # "passthrough" BY <1>2 DEF Hides
  <2>7. IdleShut' BY <1>0, <2>1, <1>5 DEF FrameOK, IdleShut, Live, Opened, Runs
  <2>8. RunsShown' BY <1>0, <2>1, <1>5, <2>2 DEF FrameOK, RunsShown, Live
  <2>9. Unborn' BY <1>0, <2>1 DEF FrameOK, Unborn
  <2>10. CallsShown' BY <1>0, <2>1 DEF FrameOK, CallsShown, CallOK, Stage
  <2> QED BY <2>1, <2>7, <2>8, <2>9, <2>10 DEF FrameOK, FrameNext
<1>3. CASE ~Hides(k)
  <2>1. view' = Watch(view, k) BY <1>0, <1>3, EmitSeen
  <2>2. vis = "passthrough" BY <1>1, <1>3, <1>o DEF Hides
  <2>4. /\ Good(view') /\ view'.ui = view.ui /\ view'.client.wrong = view.client.wrong
        /\ view'.client.tools = view.client.tools /\ view'.client.running = view.client.running + 1
    BY <1>1, <2>1, <1>o, WatchStart
  <2>7. IdleShut' BY <1>0, <2>2, <2>4, <1>5 DEF FrameOK, IdleShut, Live, Opened, Runs
  <2>8. RunsShown' BY <1>0, <2>2, <2>4, <1>5 DEF FrameOK, RunsShown, Live
  <2>9. Unborn' BY <1>0, <2>4 DEF FrameOK, Unborn
  <2>10. CallsShown' BY <1>0, <2>4 DEF FrameOK, CallsShown, CallOK, Stage
  <2> QED BY <2>4, <2>7, <2>8, <2>9, <2>10 DEF FrameOK, FrameNext, Good
<1> QED BY <1>2, <1>3

LEMMA FrameChildEnds ==
  ASSUME VTypes, RunInv, stream = "open", FrameOK, NEW how \in Hows, ChildEnds(how, ChildCrumb(how))
  PROVE  FrameNext
<1> PICK k : k = ChildCrumb(how) OBVIOUS
<1>o. Good(view) /\ ~direct /\ state \in [Runs -> Places] /\ ClientTypes(view.client)
      /\ status \in [Runs -> Statuses] /\ UiTypes(view.ui) /\ calls \subseteq CallRow
      /\ state["r"] \in {"none", "live"}
  BY OpenIs
<1>0. UNCHANGED <<vis, minted>> /\ state' = [state EXCEPT !["c"] = how, !["r"] = @] /\ state["c"] = "live"
      /\ calls' = (calls \ Pending("c")) \cup Lost(Pending("c")) /\ Emit(k, "on")
  BY <1>o DEF ChildEnds, Live
<1>1. IsCrumb(k) /\ k.type \in {"agent:run:end", "agent:error"} /\ k.run = "c" BY ChildCrumbIs
<1>5. state'["c"] = how /\ how # "live" /\ state'["r"] = state["r"] BY <1>0, <1>o DEF Runs, Hows
<1>6. state["r"] = "live" BY <1>0, <1>o DEF RunInv, RunBase, RunsOK, Live
<1>11. \A d \in calls' : d \in calls \/ d.at = "lost"
  <2>1. Pending("c") \subseteq CallRow BY <1>o, PendingIs
  <2> QED BY <1>0, <2>1, LostIs
<1>2. CASE Hides(k)
  <2>1. view'.ui = view.ui /\ view'.client = view.client BY <1>0, <1>1, <1>2, <1>o, EmitUnseen
  <2>2. vis # "passthrough" BY <1>2 DEF Hides
  <2>7. IdleShut' BY <1>0, <2>1, <2>2, <1>5 DEF FrameOK, IdleShut, Live, Opened, Runs
  <2>8. RunsShown' BY <1>0, <2>1, <1>5, <2>2 DEF FrameOK, RunsShown, Live
  <2>9. Unborn' BY <1>0, <2>1 DEF FrameOK, Unborn
  <2>10. CallsShown' BY <1>0, <2>1, <1>11 DEF FrameOK, CallsShown, CallOK, Stage
  <2> QED BY <2>1, <2>7, <2>8, <2>9, <2>10 DEF FrameOK, FrameNext
<1>3. CASE ~Hides(k)
  <2>1. view' = Watch(view, k) BY <1>0, <1>3, EmitSeen
  <2>2. vis = "passthrough" BY <1>1, <1>3, <1>o DEF Hides
  <2>3. view.client.running = 2 BY <1>0, <1>6, <2>2 DEF FrameOK, RunsShown, Live
  <2>4. /\ Good(view') /\ view'.ui = Closed(view.ui, "c") /\ view'.client.wrong = view.client.wrong
        /\ view'.client.tools = view.client.tools /\ view'.client.running = view.client.running - 1
    BY <1>1, <2>1, <2>3, <1>o, WatchEnd
  <2>5. view'.ui.open["c"] = 0 /\ view'.ui.open["r"] = view.ui.open["r"]
        /\ view'.ui.streaming = view.ui.streaming
    BY <2>4, <1>o DEF Closed, UiTypes, Runs
  <2>7. IdleShut' BY <1>0, <2>2, <2>5, <1>5 DEF FrameOK, IdleShut, Live, Opened, Runs
  <2>8. RunsShown' BY <1>0, <2>2, <2>3, <2>4, <1>5, <1>6 DEF FrameOK, RunsShown, Live
  <2>9. Unborn' BY <1>0, <2>4, <2>5 DEF FrameOK, Unborn
  <2>10. CallsShown' BY <1>0, <2>4, <2>5, <1>11 DEF FrameOK, CallsShown, CallOK, Stage
  <2> QED BY <2>4, <2>7, <2>8, <2>9, <2>10 DEF FrameOK, FrameNext, Good
<1> QED BY <1>2, <1>3

-----------------------------------------------------------------------------
(* The crumb or the failure that ends the stream.                          *)
LEMMA ClosesTerminal ==
  ASSUME NEW v, NEW c, c.type \in {"agent:run:end", "agent:error"}, ViewTypes(Watch(v, c)),
         NEW ending \in {"returns", "FAILED", "RUN_CANCELLED"}
  PROVE  LET w == Watch(v, c)
             z == Closes(w, ending)
         IN  /\ z.ui = w.ui /\ z.client = w.client /\ z.registry = w.registry \ {w.task.taskId}
             /\ z.task = (IF ending = "returns" THEN w.task ELSE Caught(w.task, ending))
<1>1. PICK w : w = Watch(v, c) OBVIOUS
<1>2. ViewTypes(w) BY <1>1
<1>3. Watch(v, c).terminalSeen BY DEF Watch
<1>4. w.terminalSeen BY <1>1, <1>3
<1>5. CASE ending = "returns"
  <2>1. Closes(w, ending) = StreamReturns(w) BY <1>5 DEF Closes
  <2> QED BY <1>1, <1>2, <1>5, <2>1, ReturnsIs
<1>6. CASE ending # "returns"
  <2>1. Closes(w, ending) = StreamThrows(w, ending) BY <1>6 DEF Closes
  <2>2. LET z == StreamThrows(w, ending) IN
        z.ui = w.ui /\ z.task = Caught(w.task, ending) /\ z.registry = w.registry \ {w.task.taskId}
    BY <1>2, ThrowsIs
  <2>3. StreamThrows(w, ending).client = w.client BY <1>2, <1>4, ThrowsIs
  <2> QED BY <1>1, <1>6, <2>1, <2>2, <2>3
<1> QED BY <1>5, <1>6

LEMMA EndingIs ==
  ASSUME VTypes, RunInv, stream = "open", FrameOK, NEW how \in Hows, Live("r"), ~Live("c"),
         Ending(how, EndCrumb(how), EndCode(how)), EndCode(how) \in {"returns", "FAILED", "RUN_CANCELLED"}
  PROVE  LET seen == Watch(view, EndCrumb(how)) IN
         /\ stream' = "closed"
         /\ view'.ui = Closed(view.ui, "r") /\ view'.client.wrong = view.client.wrong
         /\ view'.task = (IF how = "done" THEN seen.task ELSE Caught(seen.task, EndCode(how)))
         /\ view'.registry = seen.registry \ {seen.task.taskId}
         /\ status' = [status EXCEPT !["r"] = Derive(@, EndCrumb(how))]
<1> PICK k : k = EndCrumb(how) OBVIOUS
<1> PICK w : w = Watch(view, k) OBVIOUS
<1> PICK code : code = EndCode(how) OBVIOUS
<1>0. Emit(k, code) /\ state["r"] = "live" /\ code \in {"returns", "FAILED", "RUN_CANCELLED"}
  BY DEF Ending, Live
<1>o. Good(view) BY OpenIs
<1>1. IsCrumb(k) /\ k.type \in {"agent:run:end", "agent:error"} /\ k.run = "r" BY EndCrumbIs
<1>2. Surfaces(k) = <<k>> BY <1>1, SurfacesAsIs DEF Hides
<1>3. Streams(code, w) /\ status' = [status EXCEPT !["r"] = Derive(@, k)] BY <1>0, <1>1, <1>2, EmitAs
<1>4. view' = Closes(w, code) /\ stream' = "closed" BY <1>0, <1>3 DEF Streams
<1>5. view.client.running # 0 BY <1>0 DEF FrameOK, RunsShown, Live
<1>6. Good(w) /\ w.ui = Closed(view.ui, "r") /\ w.client.wrong = view.client.wrong
  BY <1>1, <1>5, <1>o, WatchEnd
<1>8. /\ view'.ui = w.ui /\ view'.client = w.client /\ view'.registry = w.registry \ {w.task.taskId}
      /\ view'.task = (IF code = "returns" THEN w.task ELSE Caught(w.task, code))
  <2>1. ViewTypes(Watch(view, k)) BY <1>6 DEF Good
  <2> QED BY <1>0, <1>1, <1>4, <2>1, ClosesTerminal
<1>9. code = "returns" <=> how = "done" BY DEF EndCode, Hows
<1> QED BY <1>0, <1>3, <1>4, <1>6, <1>8, <1>9

LEMMA PausesIs ==
  ASSUME VTypes, RunInv, stream = "open", FrameOK, NEW x \in Runs, Pauses(x)
  PROVE  LET seen == Watch(view, RunCrumb("human:required", x)) IN
         /\ stream' = "closed"
         /\ view'.ui = Closed(view.ui, x) /\ view'.client.wrong = view.client.wrong
         /\ view'.task = seen.task /\ view'.registry = seen.registry \ {seen.task.taskId}
         /\ status' = [status EXCEPT ![x] = Derive(@, RunCrumb("human:required", x))]
<1> PICK k : k = RunCrumb("human:required", x) OBVIOUS
<1> PICK w : w = Watch(view, k) OBVIOUS
<1>0. Emit(k, "returns") BY DEF Pauses
<1>o. Good(view) BY OpenIs
<1>1. IsCrumb(k) /\ k.type = "human:required" /\ k.run = x BY RunCrumbIs
<1>2. Surfaces(k) = <<k>> BY <1>1, SurfacesAsIs DEF Hides
<1>3. Streams("returns", w) /\ status' = [status EXCEPT ![x] = Derive(@, k)] BY <1>0, <1>1, <1>2, EmitAs
<1>4. view' = StreamReturns(w) /\ stream' = "closed" BY <1>3 DEF Streams, Closes
<1>6. Good(w) /\ w.ui = Closed(view.ui, x) /\ w.client.wrong = view.client.wrong
  BY <1>1, <1>o, WatchAsks
<1>8. /\ view'.ui = w.ui /\ view'.client = w.client
      /\ view'.task = w.task /\ view'.registry = w.registry \ {w.task.taskId}
  BY <1>4, <1>6, ReturnsIs DEF Good
<1> QED BY <1>3, <1>4, <1>6, <1>8

LEMMA RefusedIs ==
  ASSUME VTypes, RunInv, stream = "open", FrameOK, Refused
  PROVE  /\ stream' = "closed" /\ view'.ui = view.ui /\ view'.client.wrong = view.client.wrong
         /\ view'.task = Caught(view.task, "CONCURRENCY_LIMIT")
         /\ view'.registry = view.registry \ {view.task.taskId}
<1> PICK e : e = Event("RUN_ERROR", "any") OBVIOUS
<1>o. ViewTypes(view) /\ ClientTypes(view.client) BY OpenIs DEF Good
<1>1. view' = StreamThrows(view, "CONCURRENCY_LIMIT") /\ stream' = "closed" /\ state["r"] = "none"
  BY DEF Refused
<1>2. /\ view'.ui = view.ui /\ view'.task = Caught(view.task, "CONCURRENCY_LIMIT")
      /\ view'.client = (IF view.terminalSeen THEN view.client ELSE Receive(view.client, e))
      /\ view'.registry = view.registry \ {view.task.taskId}
  BY <1>1, <1>o, ThrowsIs
<1>3. view.client.running = 0 /\ ~view.client.begun
  <2>1. ~Live("c") /\ ~Live("r") BY <1>1 DEF RunInv, RunBase, RunsOK, Live
  <2>2. view.client.running = 0 BY <2>1 DEF FrameOK, RunsShown
  <2>3. ~view.client.begun BY <1>1 DEF FrameOK, RunsShown
  <2> QED BY <2>2, <2>3
<1>4. e.type = "RUN_ERROR" BY EventIs
<1>5. Receive(view.client, e).wrong = view.client.wrong BY <1>o, <1>3, <1>4, ReceiveRefused, Zenon
<1> QED BY <1>1, <1>2, <1>5

\* A closed stream shows its client nothing more.
LEMMA ClosedStep ==
  ASSUME VTypes, RunInv, stream = "closed", [Next]_vars
  PROVE  /\ stream' = "closed" /\ view'.ui = view.ui /\ view'.client = view.client
         /\ view'.task = view.task /\ view'.registry \subseteq view.registry
         /\ pauses > 0 => pauses' > 0
         /\ deleg # 0 => deleg' # 0
<1> DEFINE Kept == /\ stream' = "closed" /\ view'.ui = view.ui /\ view'.client = view.client
                   /\ view'.task = view.task /\ view'.registry \subseteq view.registry
                   /\ pauses > 0 => pauses' > 0
                   /\ deleg # 0 => deleg' # 0
<1>0. pauses \in Nat BY DEF VTypes, RunTypes
<1>1. ASSUME view' = view, stream' = "closed", UNCHANGED <<pauses, deleg>> PROVE Kept
  BY <1>1
<1>2. ASSUME NEW c, NEW ending, Emit(c, ending), UNCHANGED <<pauses, deleg>> PROVE Kept
  BY <1>1, <1>2, EmitClosed
<1>3. CASE Begin \/ Refused BY <1>3 DEF Begin, Refused
<1>4. CASE Resumes BY <1>1, <1>4 DEF Resumes
<1>5. ASSUME CancelDecides PROVE Kept
  <2>0. ViewTypes(view) BY DEF VTypes
  <2>1. view' = view \/ view' = [view EXCEPT !.registry = @ \ {cancel.run}] BY <1>5 DEF CancelDecides
  <2>2. view'.ui = view.ui /\ view'.client = view.client /\ view'.task = view.task
        /\ view'.registry \subseteq view.registry
    BY <2>0, <2>1 DEF ViewTypes
  <2>3. UNCHANGED <<stream, pauses, deleg>> BY <1>5 DEF CancelDecides, source
  <2> QED BY <2>2, <2>3
<1>6. CASE UNCHANGED vars BY <1>1, <1>6 DEF vars, source
<1>7. ASSUME NEW x \in Runs, Text(x) \/ InputStarts(x) \/ CallsAtOnce(x) PROVE Kept
  BY <1>2, <1>7 DEF Text, InputStarts, CallsAtOnce
<1>8. ASSUME NEW x \in Runs, RetryStep(x) PROVE Kept BY <1>1, <1>8 DEF RetryStep
<1>9. ASSUME NEW x \in Runs, Pauses(x) PROVE Kept
  <2>1. pauses' = pauses + 1 /\ deleg' = deleg /\ Emit(RunCrumb("human:required", x), "returns")
    BY <1>9 DEF Pauses
  <2>2. view' = view /\ stream' = "closed" BY <2>1, EmitClosed
  <2> QED BY <1>0, <2>1, <2>2
<1>10. ASSUME NEW x \in Runs, CancelReads(x) PROVE Kept BY <1>1, <1>10 DEF CancelReads, source
<1>11. ASSUME NEW c \in calls, InputGrows(c) \/ InputEnds(c) \/ Execute(c) PROVE Kept
  BY <1>2, <1>11 DEF InputGrows, InputEnds, Execute, source
<1>12. ASSUME NEW c \in calls, Delegate(c) PROVE Kept
  <2>1. pauses' = pauses /\ deleg = 0 /\ Emit(RunCrumb("agent:run:start", "c"), "on")
    BY <1>12 DEF Delegate
  <2>2. view' = view /\ stream' = "closed" BY <2>1, EmitClosed
  <2> QED BY <2>1, <2>2
<1>13. ASSUME NEW c \in calls, NEW type, Outcome(c, type) PROVE Kept
  BY <1>2, <1>13 DEF Outcome
<1>14. ASSUME NEW how \in Hows, ChildEnds(how, ChildCrumb(how)) PROVE Kept
  BY <1>2, <1>14 DEF ChildEnds
<1>15. ASSUME NEW how \in Hows, Ending(how, EndCrumb(how), EndCode(how)) PROVE Kept
  BY <1>2, <1>15 DEF Ending
<1> QED BY <1>3, <1>4, <1>5, <1>6, <1>7, <1>8, <1>9, <1>10, <1>11, <1>12, <1>13, <1>14, <1>15, NextCases, Zenon

\* The steps that leave the stream open, and the three that close it.
Shuts ==
  \/ Refused
  \/ \E x \in Runs : Pauses(x)
  \/ \E how \in Hows : /\ Ending(how, EndCrumb(how), EndCode(how)) /\ Live("r") /\ ~Live("c")
                       /\ EndCode(how) \in {"returns", "FAILED", "RUN_CANCELLED"}

LEMMA FrameStep ==
  ASSUME VTypes, RunInv, stream = "open", FrameOK, [Next]_vars, ~Shuts
  PROVE  FrameNext
<1>1. CASE Begin BY <1>1, FrameBegin
<1>2. CASE Resumes
  <2>1. UNCHANGED <<vis, minted, view, calls>> BY <1>2 DEF Resumes
  <2>2. state["r"] # "paused" /\ state["c"] # "paused"
    BY OpenIs DEF RunInv, RunBase, RunsOK
  <2> QED BY <1>2, <2>2 DEF Resumes
<1>3. CASE CancelDecides
  <2>0. ViewTypes(view) BY DEF VTypes
  <2>1. view' = view \/ view' = [view EXCEPT !.registry = @ \ {cancel.run}] BY <1>3 DEF CancelDecides
  <2>2. view'.ui = view.ui /\ view'.client = view.client BY <2>0, <2>1 DEF ViewTypes
  <2> QED BY <1>3, <2>2, FrameSame DEF CancelDecides, source
<1>4. CASE UNCHANGED vars BY <1>4, FrameSame DEF vars, source
<1>5. ASSUME NEW x \in Runs, Text(x) PROVE FrameNext BY <1>5, FrameText
<1>6. ASSUME NEW x \in Runs, InputStarts(x) PROVE FrameNext BY <1>6, FrameInputStarts
<1>7. ASSUME NEW x \in Runs, CallsAtOnce(x) PROVE FrameNext BY <1>7, FrameCallsAtOnce
<1>8. ASSUME NEW x \in Runs, RetryStep(x) PROVE FrameNext
  <2>1. calls' \subseteq calls /\ UNCHANGED <<vis, state, minted, view>> BY <1>8 DEF RetryStep
  <2> QED BY <2>1, FrameSame
<1>9. ASSUME NEW x \in Runs, CancelReads(x) PROVE FrameNext
  BY <1>9, FrameSame DEF CancelReads, source
<1>10. ASSUME NEW c \in calls, InputGrows(c) PROVE FrameNext BY <1>10, FrameGrows
<1>11. ASSUME NEW c \in calls, InputEnds(c) PROVE FrameNext BY <1>11, FrameInputEnds
<1>12. ASSUME NEW c \in calls, Execute(c) PROVE FrameNext BY <1>12, FrameExecute
<1>13. ASSUME NEW c \in calls, Delegate(c) PROVE FrameNext BY <1>13, FrameDelegate
<1>14. ASSUME NEW c \in calls, NEW type \in {"tool:result", "tool:error"}, Outcome(c, type) PROVE FrameNext
  BY <1>14, FrameOutcome
<1>15. ASSUME NEW how \in Hows, ChildEnds(how, ChildCrumb(how)) PROVE FrameNext BY <1>15, FrameChildEnds
<1>16. ~Refused /\ ~(\E x \in Runs : Pauses(x))
       /\ ~(\E how \in Hows : /\ Ending(how, EndCrumb(how), EndCode(how)) /\ Live("r") /\ ~Live("c")
                              /\ EndCode(how) \in {"returns", "FAILED", "RUN_CANCELLED"})
  BY DEF Shuts
<1> QED BY <1>1, <1>2, <1>3, <1>4, <1>5, <1>6, <1>7, <1>8, <1>9, <1>10, <1>11, <1>12, <1>13, <1>14, <1>15, <1>16,
           NextCases, Zenon

\* A message left open by a closed stream is a suspended supervisor's.
LEMMA FrameShuts ==
  ASSUME VTypes, RunInv, stream = "open", FrameOK, Shuts
  PROVE  /\ stream' = "closed" /\ view'.client.wrong = view.client.wrong
         /\ \A x \in Runs : view'.ui.open[x] = 0 \/ (x = "r" /\ pauses' > 0 /\ deleg' # 0)
<1>o. UiTypes(view.ui) /\ IdleShut /\ pauses = 0 /\ state["r"] \in {"none", "live"}
  BY OpenIs DEF FrameOK
<1>1. CASE Refused
  <2>1. state["r"] = "none" BY <1>1 DEF Refused
  <2>2. ~Live("c") /\ ~Live("r") BY <2>1 DEF RunInv, RunBase, RunsOK, Live
  <2>3. \A x \in Runs : view.ui.open[x] = 0 BY <1>o, <2>2 DEF IdleShut, Opened, Runs
  <2> QED BY <1>1, <2>3, RefusedIs
<1>2. ASSUME NEW x \in Runs, Pauses(x)
      PROVE  /\ stream' = "closed" /\ view'.client.wrong = view.client.wrong
             /\ \A y \in Runs : view'.ui.open[y] = 0 \/ (y = "r" /\ pauses' > 0 /\ deleg' # 0)
  <2>1. view'.ui = Closed(view.ui, x) /\ stream' = "closed" /\ view'.client.wrong = view.client.wrong
    BY <1>2, PausesIs
  <2>2. view'.ui.open = [view.ui.open EXCEPT ![x] = 0] BY <1>o, <2>1 DEF UiTypes, Closed
  <2>3. pauses' = pauses + 1 /\ deleg' = deleg /\ Live(x) BY <1>2 DEF Pauses
  <2>4. CASE x = "r"
    <3>1. ~Live("c") BY <1>2, <2>4 DEF Pauses
    <3>2. view.ui.open["c"] = 0 BY <1>o, <3>1 DEF IdleShut, Opened, Runs
    <3> QED BY <1>o, <2>1, <2>2, <2>4, <3>2 DEF UiTypes, Runs
  <2>5. CASE x = "c"
    <3>1. deleg # 0 BY <2>3, <2>5 DEF RunInv, RunBase, RunsOK, Live
    <3> QED BY <1>o, <2>1, <2>2, <2>3, <2>5, <3>1 DEF UiTypes, Runs
  <2> QED BY <2>4, <2>5 DEF Runs
<1>3. ASSUME NEW how \in Hows, Ending(how, EndCrumb(how), EndCode(how)), Live("r"), ~Live("c"),
             EndCode(how) \in {"returns", "FAILED", "RUN_CANCELLED"}
      PROVE  /\ stream' = "closed" /\ view'.client.wrong = view.client.wrong
             /\ \A y \in Runs : view'.ui.open[y] = 0
  <2>1. view'.ui = Closed(view.ui, "r") /\ stream' = "closed" /\ view'.client.wrong = view.client.wrong
    BY <1>3, EndingIs
  <2>2. view'.ui.open = [view.ui.open EXCEPT !["r"] = 0] BY <1>o, <2>1 DEF UiTypes, Closed
  <2>3. view.ui.open["c"] = 0 BY <1>o, <1>3 DEF IdleShut, Opened, Runs
  <2> QED BY <1>o, <2>1, <2>2, <2>3 DEF UiTypes, Runs
<1> QED BY <1>1, <1>2, <1>3 DEF Shuts

LEMMA StaysOpen ==
  ASSUME stream = "open", [Next]_vars, ~Shuts
  PROVE  stream' = "open"
BY NextCases, EmitStream DEF Shuts, Begin, Resumes, CancelDecides, vars, Text, InputStarts, CallsAtOnce, RetryStep,
   CancelReads, InputGrows, InputEnds, Execute, Delegate, Outcome, ChildEnds

LEMMA FramesStep ==
  ASSUME VTypes, RunInv, FramesOK, [Next]_vars
  PROVE  FramesOK'
<1>0. stream \in {"open", "closed"} BY DEF VTypes, RunTypes
<1>1. CASE stream = "closed"
  BY <1>1, ClosedStep DEF FramesOK, Opened
<1>2. CASE stream = "open" /\ Shuts
  <2>1. FrameOK /\ view.client.wrong = {} BY <1>2 DEF FramesOK
  <2> QED BY <1>2, <2>1, FrameShuts DEF FramesOK, Opened
<1>3. CASE stream = "open" /\ ~Shuts
  <2>1. FrameOK /\ view.client.wrong = {} BY <1>3 DEF FramesOK
  <2>2. FrameNext BY <1>3, <2>1, FrameStep
  <2>3. stream' = "open" BY <1>3, StaysOpen
  <2> QED BY <2>1, <2>2, <2>3 DEF FramesOK, FrameNext
<1> QED BY <1>0, <1>1, <1>2, <1>3

-----------------------------------------------------------------------------
(* The task of an A2A client.                                              *)
SameTask(w, v) ==
  w.task.taskId = v.task.taskId /\ w.task.finals = v.task.finals /\ w.registry \subseteq v.registry

LEMMA WatchTask ==
  ASSUME NEW v, ViewTypes(v), NEW c, IsCrumb(c),
         c.type \notin {"agent:run:start", "agent:run:end", "agent:error"}
  PROVE  SameTask(Watch(v, c), v)
<1>1. Watch(v, c).task = A2A(v.task, c) BY WatchIs
<1>2. Watch(v, c).registry = v.registry BY DEF Watch
<1>3. CASE c.type = "text:delta" BY <1>1, <1>2, <1>3, TaskText DEF SameTask, ViewTypes
<1>4. CASE c.type # "text:delta" BY <1>1, <1>2, <1>4, TaskOther DEF SameTask
<1> QED BY <1>3, <1>4

LEMMA WatchTaskStart ==
  ASSUME NEW v, ViewTypes(v), NEW c, IsCrumb(c), c.type = "agent:run:start"
  PROVE  /\ Watch(v, c).task.taskId = c.run /\ Watch(v, c).task.finals = v.task.finals
         /\ Watch(v, c).registry = v.registry \cup {c.run}
<1>1. Watch(v, c).task = A2A(v.task, c) BY WatchIs
<1>2. Watch(v, c).registry = v.registry \cup {c.run} BY DEF Watch
<1> QED BY <1>1, <1>2, TaskStart DEF IsCrumb, ViewTypes

LEMMA WatchTaskEnd ==
  ASSUME NEW v, ViewTypes(v), NEW c, IsCrumb(c), c.type \in {"agent:run:end", "agent:error"}
  PROVE  /\ Watch(v, c).task.taskId = v.task.taskId /\ TaskTypes(Watch(v, c).task)
         /\ Watch(v, c).task.finals = Append(v.task.finals, FinalOf(c))
         /\ Watch(v, c).registry = v.registry
<1>1. Watch(v, c).task = A2A(v.task, c) BY WatchIs
<1>2. Watch(v, c).registry = v.registry BY DEF Watch
<1> QED BY <1>1, <1>2, TaskEnd DEF IsCrumb, ViewTypes

LEMMA EmitTask ==
  ASSUME NEW c, IsCrumb(c), Emit(c, "on"), stream = "open", status \in [Runs -> Statuses], ViewTypes(view),
         Hides(c) \/ c.type \notin {"agent:run:start", "agent:run:end", "agent:error"}
  PROVE  SameTask(view', view)
<1>0. SameTask(view, view) BY DEF SameTask
<1>1. CASE Surfaces(c) = << >>
  <2>1. Streams("on", view) BY <1>1, EmitNot
  <2> QED BY <1>0, <2>1 DEF Streams, Closes
<1>2. ASSUME NEW d, IsCrumb(d), Surfaces(c) = <<d>>,
             d.type \notin {"agent:run:start", "agent:run:end", "agent:error"}
      PROVE  SameTask(view', view)
  <2>1. Streams("on", Watch(view, d)) BY <1>2, EmitAs
  <2>2. view' = Watch(view, d) BY <2>1 DEF Streams, Closes
  <2> QED BY <1>2, <2>2, WatchTask
<1>3. CASE ~Hides(c) BY <1>2, <1>3, SurfacesAsIs
<1>4. CASE Hides(c) /\ vis = "mediate" /\ c.type = "agent:run:start"
  <2>1. Renamed(c, "subagent:run:start").type = "subagent:run:start"
        /\ IsCrumb(Renamed(c, "subagent:run:start"))
    BY RenamedIs
  <2> QED BY <1>2, <1>4, <2>1, SurfacesStart
<1>5. CASE Hides(c) /\ vis = "mediate" /\ c.type = "agent:run:end"
  <2>1. Renamed(c, "subagent:run:end").type = "subagent:run:end" /\ IsCrumb(Renamed(c, "subagent:run:end"))
    BY RenamedIs
  <2> QED BY <1>2, <1>5, <2>1, SurfacesEnd
<1>6. CASE Hides(c) /\ ~(vis = "mediate" /\ c.type \in {"agent:run:start", "agent:run:end"})
  BY <1>1, <1>6, SurfacesNot
<1> QED BY <1>3, <1>4, <1>5, <1>6

\* Once the supervisor's run is over, or was refused, nothing happens to it.
LEMMA RunStays ==
  ASSUME VTypes, RunInv, state["r"] \notin {"live", "paused"}, state["r"] = "none" => stream = "closed",
         [Next]_vars
  PROVE  UNCHANGED <<state, status, pauses>>
<1>1. ~Live("r") /\ ~Live("c") /\ state["c"] # "paused" /\ state["r"] # "paused"
  BY DEF RunInv, RunBase, RunsOK, Live
<1>2. \A x \in Runs : ~Live(x) BY <1>1 DEF Runs
<1>3. \A c \in calls : c.run \in Runs BY DEF VTypes, RunTypes, CallsOK, CallRow
<1>4. stream # "open" \/ state["r"] # "none" BY DEF VTypes
<1>5. ~Begin /\ ~Resumes /\ (Refused => UNCHANGED <<state, status, pauses>>)
  BY <1>1, <1>4 DEF Begin, Resumes, Refused, source
<1>6. CancelDecides \/ UNCHANGED vars => UNCHANGED <<state, status, pauses>>
  BY DEF CancelDecides, vars, source
<1>7. \A x \in Runs : ~(Text(x) \/ InputStarts(x) \/ CallsAtOnce(x) \/ RetryStep(x) \/ Pauses(x))
  BY <1>2 DEF Text, InputStarts, CallsAtOnce, RetryStep, Pauses
<1>8. \A x \in Runs : CancelReads(x) => UNCHANGED <<state, status, pauses>> BY DEF CancelReads, source
<1>9. \A c \in calls : ~(InputGrows(c) \/ InputEnds(c) \/ Execute(c) \/ Delegate(c))
  BY <1>1, <1>2, <1>3 DEF InputGrows, InputEnds, Execute, Delegate
<1>10. \A c \in calls : \A type : ~Outcome(c, type)
  BY <1>2, <1>3 DEF Outcome
<1>11. \A how \in Hows : ~ChildEnds(how, ChildCrumb(how)) BY <1>1 DEF ChildEnds
<1> QED BY <1>1, <1>5, <1>6, <1>7, <1>8, <1>9, <1>10, <1>11, NextCases, Zenon

EndsNow == \E how \in Hows : /\ Ending(how, EndCrumb(how), EndCode(how)) /\ Live("r") /\ ~Live("c")
                             /\ EndCode(how) \in {"returns", "FAILED", "RUN_CANCELLED"}
\* Only its own end makes the supervisor's run over, and only Begin makes it begin.
LEMMA RunOver ==
  ASSUME VTypes, RunInv, ~Over("r"), [Next]_vars, ~EndsNow
  PROVE  ~Over("r")' /\ (state'["r"] = "none" => state["r"] = "none")
<1> DEFINE Kept == ~Over("r")' /\ (state'["r"] = "none" => state["r"] = "none")
<1>0. state \in [Runs -> Places] BY DEF VTypes, RunTypes
<1>1. ASSUME state' = state PROVE Kept BY <1>1 DEF Over
<1>2. ASSUME NEW x \in Runs, state' = [state EXCEPT ![x] = "live"] PROVE Kept
  BY <1>0, <1>2 DEF Over, Runs
<1>3. CASE Begin BY <1>2, <1>3 DEF Begin, Runs
<1>4. CASE Refused \/ CancelDecides \/ UNCHANGED vars
  BY <1>1, <1>4 DEF Refused, CancelDecides, vars, source
<1>5. CASE Resumes BY <1>2, <1>5 DEF Resumes, Runs
<1>6. ASSUME NEW x \in Runs, Text(x) \/ InputStarts(x) \/ CallsAtOnce(x) \/ RetryStep(x) \/ CancelReads(x) PROVE Kept
  BY <1>1, <1>6 DEF Text, InputStarts, CallsAtOnce, RetryStep, CancelReads, source
<1>7. ASSUME NEW x \in Runs, Pauses(x) PROVE Kept
  <2>1. state'["r"] = "paused" BY <1>7 DEF Pauses, Runs
  <2> QED BY <2>1 DEF Over
<1>8. ASSUME NEW c \in calls, InputGrows(c) \/ InputEnds(c) \/ Execute(c) PROVE Kept
  BY <1>1, <1>8 DEF InputGrows, InputEnds, Execute, source
<1>9. ASSUME NEW c \in calls, Delegate(c) PROVE Kept BY <1>2, <1>9 DEF Delegate, Runs
<1>10. ASSUME NEW c \in calls, NEW type, Outcome(c, type) PROVE Kept BY <1>1, <1>10 DEF Outcome
<1>11. ASSUME NEW how \in Hows, ChildEnds(how, ChildCrumb(how)) PROVE Kept
  <2>1. state'["r"] \in {"live", state["r"]} BY <1>0, <1>11 DEF ChildEnds, Runs
  <2> QED BY <2>1 DEF Over
<1>12. ~(\E how \in Hows : /\ Ending(how, EndCrumb(how), EndCode(how)) /\ Live("r") /\ ~Live("c")
                           /\ EndCode(how) \in {"returns", "FAILED", "RUN_CANCELLED"})
  BY DEF EndsNow
<1> QED BY <1>3, <1>4, <1>5, <1>6, <1>7, <1>8, <1>9, <1>10, <1>11, <1>12, NextCases, Zenon

LEMMA EndStatus ==
  ASSUME VTypes, RunInv, NEW how \in Hows, Ending(how, EndCrumb(how), EndCode(how))
  PROVE  state'["r"] = how /\ pauses' = pauses /\ status'["r"] = Final(how) /\ How("r")' = Final(how)
         /\ Over("r")'
<1> PICK k : k = EndCrumb(how) OBVIOUS
<1> PICK code : code = EndCode(how) OBVIOUS
<1>0. Emit(k, code) /\ state' = [state EXCEPT !["r"] = how] /\ pauses' = pauses BY DEF Ending
<1>o. state \in [Runs -> Places] /\ status \in [Runs -> Statuses] BY DEF VTypes, RunTypes
<1>1. IsCrumb(k) /\ k.type \in {"agent:run:end", "agent:error"} /\ k.run = "r" /\ FinalOf(k) = Final(how)
  BY EndCrumbIs
<1>2. Surfaces(k) = <<k>> BY <1>1, SurfacesAsIs DEF Hides
<1>3. status' = [status EXCEPT !["r"] = Derive(@, k)] BY <1>0, <1>1, <1>2, EmitAs
<1>4. Derive(status["r"], k) = Final(how) BY <1>1 DEF Derive
<1>5. state'["r"] = how /\ status'["r"] = Final(how) BY <1>0, <1>3, <1>4, <1>o DEF Runs
<1> QED BY <1>0, <1>5 DEF How, Final, Over, Hows

LEMMA StatusStep ==
  ASSUME VTypes, RunInv, Over("r") => status["r"] = How("r"), [Next]_vars
  PROVE  (Over("r") => status["r"] = How("r"))'
<1>1. CASE Over("r")
  <2>1. state["r"] \notin {"live", "paused", "none"} BY <1>1 DEF Over
  <2> QED BY <1>1, <2>1, RunStays DEF How, Over
<1>2. CASE ~Over("r") /\ ~EndsNow BY <1>2, RunOver
<1>3. CASE EndsNow BY <1>3, EndStatus DEF EndsNow
<1> QED BY <1>1, <1>2, <1>3

\* The task of an open stream: what OpenTask says of the next state.
LEMMA TaskOpen ==
  ASSUME VTypes, RunInv, stream = "open", FrameOK, TaskOK, [Next]_vars, ~Shuts, view'.task.taskId # "c"
  PROVE  OpenTask' /\ (state'["r"] = "none" => view'.task.taskId = "none" /\ view'.registry = {})
<1> DEFINE Kept == OpenTask' /\ (state'["r"] = "none" => view'.task.taskId = "none" /\ view'.registry = {})
<1>o. ViewTypes(view) /\ ~direct /\ status \in [Runs -> Statuses] /\ state["r"] \in {"none", "live"}
      /\ state \in [Runs -> Places] /\ calls \subseteq CallRow
  BY OpenIs DEF Good
<1>t. view.task.taskId # "c" => OpenTask BY DEF TaskOK
<1>n. state["r"] = "none" => view.task.taskId = "none" /\ view.registry = {} BY DEF TaskOK
<1>1. ASSUME SameTask(view', view), vis' = vis, state'["c"] = state["c"] \/ vis # "passthrough",
             state'["r"] = state["r"]
      PROVE  Kept
  <2>1. view.task.taskId # "c" /\ view'.task.taskId = view.task.taskId BY <1>1 DEF SameTask
  <2> QED BY <1>1, <1>t, <1>n, <2>1 DEF SameTask, OpenTask
<1>2. ASSUME NEW c, IsCrumb(c), Emit(c, "on"), vis' = vis, state' = state,
             c.type \notin {"agent:run:start", "agent:run:end", "agent:error"}
      PROVE  Kept
  BY <1>1, <1>2, <1>o, EmitTask
<1>3. CASE Begin
  <2> PICK k : k = RunCrumb("agent:run:start", "r") OBVIOUS
  <2>1. IsCrumb(k) /\ k.type = "agent:run:start" /\ k.run = "r" BY RunCrumbIs DEF Runs
  <2>2. view' = Watch(view, k) BY <1>3, <2>1, EmitSeen DEF Begin, Hides
  <2>3. view'.task.taskId = "r" /\ view'.task.finals = view.task.finals
        /\ view'.registry = view.registry \cup {"r"}
    BY <1>o, <2>1, <2>2, WatchTaskStart
  <2>4. state["r"] = "none" /\ state' = [state EXCEPT !["r"] = "live"] /\ vis' = vis BY <1>3 DEF Begin
  <2>5. state'["r"] = "live" /\ state'["c"] = state["c"] BY <1>o, <2>4 DEF Runs
  <2> QED BY <1>t, <1>n, <2>3, <2>4, <2>5 DEF OpenTask
<1>4. CASE Resumes
  <2>1. state["r"] # "paused" /\ state["c"] # "paused" BY <1>o DEF RunInv, RunBase, RunsOK
  <2> QED BY <1>4, <2>1 DEF Resumes
<1>5. CASE CancelDecides
  <2>1. view' = view \/ view' = [view EXCEPT !.registry = @ \ {cancel.run}] BY <1>5 DEF CancelDecides
  <2>2. SameTask(view', view) BY <1>o, <2>1 DEF ViewTypes, SameTask
  <2> QED BY <1>1, <1>5, <2>2 DEF CancelDecides, source
<1>6. ASSUME view' = view, vis' = vis, state' = state PROVE Kept
  BY <1>1, <1>6 DEF SameTask
<1>7. CASE UNCHANGED vars BY <1>6, <1>7 DEF vars, source
<1>8. ASSUME NEW x \in Runs, Text(x) PROVE Kept
  <2> PICK k : k = RunCrumb("text:delta", x) OBVIOUS
  <2>1. IsCrumb(k) /\ k.type = "text:delta" BY RunCrumbIs
  <2> QED BY <1>2, <1>8, <2>1 DEF Text
<1>9. ASSUME NEW x \in Runs, InputStarts(x) PROVE Kept
  <2> PICK c : c = NewCall(x, "input") OBVIOUS
  <2> PICK k : k = CallCrumb("tool:input:start", c) OBVIOUS
  <2>1. c.run = x BY DEF NewCall
  <2>2. IsCrumb(k) /\ k.type = "tool:input:start" BY <2>1, CallCrumbIs
  <2> QED BY <1>2, <1>9, <2>2 DEF InputStarts
<1>10. ASSUME NEW x \in Runs, CallsAtOnce(x) PROVE Kept
  <2> PICK c : c = NewCall(x, "called") OBVIOUS
  <2> PICK k : k = CallCrumb("tool:call", c) OBVIOUS
  <2>1. c.run = x BY DEF NewCall
  <2>2. IsCrumb(k) /\ k.type = "tool:call" BY <2>1, CallCrumbIs
  <2> QED BY <1>2, <1>10, <2>2 DEF CallsAtOnce
<1>11. ASSUME NEW x \in Runs, RetryStep(x) PROVE Kept BY <1>6, <1>11 DEF RetryStep
<1>12. ASSUME NEW x \in Runs, CancelReads(x) PROVE Kept BY <1>6, <1>12 DEF CancelReads, source
<1>13. ASSUME NEW c \in calls, NEW type \in {"tool:input:delta", "tool:input:end", "tool:call",
                                             "tool:result", "tool:error"},
              Emit(CallCrumb(type, c), "on"), vis' = vis, state' = state
       PROVE  Kept
  <2> PICK k : k = CallCrumb(type, c) OBVIOUS
  <2>1. c.run \in Runs BY <1>o DEF CallRow
  <2>2. IsCrumb(k) /\ k.type = type BY <2>1, CallCrumbIs
  <2> QED BY <1>2, <1>13, <2>2
<1>14. ASSUME NEW c \in calls, InputGrows(c) PROVE Kept BY <1>13, <1>14 DEF InputGrows, source
<1>15. ASSUME NEW c \in calls, InputEnds(c) PROVE Kept BY <1>13, <1>15 DEF InputEnds
<1>16. ASSUME NEW c \in calls, Execute(c) PROVE Kept BY <1>13, <1>16 DEF Execute
<1>17. ASSUME NEW c \in calls, NEW type \in {"tool:result", "tool:error"}, Outcome(c, type) PROVE Kept
  BY <1>13, <1>17 DEF Outcome
<1>18. ASSUME NEW c \in calls, Delegate(c) PROVE Kept
  <2> PICK k : k = RunCrumb("agent:run:start", "c") OBVIOUS
  <2>1. IsCrumb(k) /\ k.type = "agent:run:start" /\ k.run = "c" BY RunCrumbIs DEF Runs
  <2>2. Emit(k, "on") /\ vis' = vis /\ state' = [state EXCEPT !["c"] = "live"] BY <1>18 DEF Delegate
  <2>3. state'["r"] = state["r"] BY <1>o, <2>2 DEF Runs
  <2>4. CASE Hides(k)
    <3>1. SameTask(view', view) BY <1>o, <2>1, <2>2, <2>4, EmitTask
    <3> QED BY <1>1, <2>2, <2>3, <2>4, <3>1 DEF Hides
  <2>5. CASE ~Hides(k)
    <3>1. view' = Watch(view, k) BY <2>2, <2>5, EmitSeen
    <3>2. view'.task.taskId = "c" BY <1>o, <2>1, <3>1, WatchTaskStart
    <3> QED BY <3>2
  <2> QED BY <2>4, <2>5
<1>19. ASSUME NEW how \in Hows, ChildEnds(how, ChildCrumb(how)) PROVE Kept
  <2> PICK k : k = ChildCrumb(how) OBVIOUS
  <2>1. IsCrumb(k) /\ k.type \in {"agent:run:end", "agent:error"} /\ k.run = "c" BY ChildCrumbIs
  <2>2. Emit(k, "on") /\ vis' = vis /\ state' = [state EXCEPT !["c"] = how, !["r"] = @] /\ state["c"] = "live"
    BY <1>o, <1>19 DEF ChildEnds, Live
  <2>3. state'["r"] = state["r"] BY <1>o, <2>2 DEF Runs
  <2>4. CASE Hides(k)
    <3>1. SameTask(view', view) BY <1>o, <2>1, <2>2, <2>4, EmitTask
    <3> QED BY <1>1, <2>2, <2>3, <2>4, <3>1 DEF Hides
  <2>5. CASE ~Hides(k)
    <3>1. view' = Watch(view, k) BY <2>2, <2>5, EmitSeen
    <3>2. view'.task.taskId = view.task.taskId BY <1>o, <2>1, <3>1, WatchTaskEnd
    <3>3. vis = "passthrough" BY <1>o, <2>1, <2>5 DEF Hides
    <3>4. FALSE BY <1>t, <2>2, <3>2, <3>3 DEF OpenTask
    <3> QED BY <3>4
  <2> QED BY <2>4, <2>5
<1>20. ~Refused /\ ~(\E x \in Runs : Pauses(x))
       /\ ~(\E how \in Hows : /\ Ending(how, EndCrumb(how), EndCode(how)) /\ Live("r") /\ ~Live("c")
                              /\ EndCode(how) \in {"returns", "FAILED", "RUN_CANCELLED"})
  BY DEF Shuts
<1> QED BY <1>3, <1>4, <1>5, <1>7, <1>8, <1>9, <1>10, <1>11, <1>12, <1>14, <1>15, <1>16, <1>17, <1>18, <1>19,
           <1>20, NextCases, Zenon

\* The final updates of one or of two appends that agree.
LEMMA OneFinal ==
  ASSUME NEW s, s = << >>, NEW a
  PROVE  LET t == Append(s, a) IN t # << >> /\ \A n \in DOMAIN t : t[n] = a
OBVIOUS

LEMMA TwoFinals ==
  ASSUME NEW s, s = << >>, NEW a
  PROVE  LET t == Append(Append(s, a), a) IN t # << >> /\ \A n \in DOMAIN t : t[n] = a
OBVIOUS

LEMMA TaskShuts ==
  ASSUME VTypes, RunInv, stream = "open", FrameOK, TaskOK, Shuts, view'.task.taskId # "c"
  PROVE  ClosedTask' /\ (state'["r"] = "none" => view'.task.taskId = "none" /\ view'.registry = {})
<1> DEFINE Kept == ClosedTask' /\ (state'["r"] = "none" => view'.task.taskId = "none" /\ view'.registry = {})
<1>o. ViewTypes(view) /\ TaskTypes(view.task) /\ state \in [Runs -> Places] BY OpenIs DEF Good, ViewTypes
<1>t. view.task.taskId # "c" => OpenTask BY DEF TaskOK
<1>n. state["r"] = "none" => view.task.taskId = "none" /\ view.registry = {} BY DEF TaskOK
<1>1. ASSUME Refused PROVE Kept
  <2>1. view'.task = Caught(view.task, "CONCURRENCY_LIMIT")
        /\ view'.registry = view.registry \ {view.task.taskId}
    BY <1>1, RefusedIs
  <2>2. Caught(view.task, "CONCURRENCY_LIMIT").taskId = view.task.taskId
        /\ Caught(view.task, "CONCURRENCY_LIMIT").finals = Append(view.task.finals, "failed")
    BY <1>o, CaughtIs
  <2>3. OpenTask /\ view'.task.taskId = view.task.taskId /\ view'.task.finals = Append(view.task.finals, "failed")
    BY <1>t, <2>1, <2>2
  <2>4. view'.registry = {} BY <2>1, <2>3 DEF OpenTask
  <2>5. \A n \in DOMAIN view'.task.finals : view'.task.finals[n] = "failed" BY <2>3, OneFinal DEF OpenTask
  <2>6. state["r"] = "none" /\ state' = state BY <1>1 DEF Refused, source
  <2> QED BY <1>n, <2>3, <2>4, <2>5, <2>6 DEF ClosedTask, Over
<1>2. ASSUME NEW x \in Runs, Pauses(x) PROVE Kept
  <2> PICK k : k = RunCrumb("human:required", x) OBVIOUS
  <2>1. IsCrumb(k) /\ k.type = "human:required" BY RunCrumbIs
  <2>2. view'.task = Watch(view, k).task
        /\ view'.registry = Watch(view, k).registry \ {Watch(view, k).task.taskId}
    BY <1>2, PausesIs
  <2>3. SameTask(Watch(view, k), view) BY <1>o, <2>1, WatchTask
  <2>4. view'.task.finals = << >> /\ view'.registry = {} BY <1>t, <2>2, <2>3 DEF SameTask, OpenTask
  <2>5. state'["r"] = "paused" BY <1>2 DEF Pauses, Runs
  <2> QED BY <2>4, <2>5 DEF ClosedTask, Over
<1>3. ASSUME NEW how \in Hows, Ending(how, EndCrumb(how), EndCode(how)), Live("r"), ~Live("c"),
             EndCode(how) \in {"returns", "FAILED", "RUN_CANCELLED"}
      PROVE  Kept
  <2> PICK k : k = EndCrumb(how) OBVIOUS
  <2> PICK w : w = Watch(view, k) OBVIOUS
  <2>1. IsCrumb(k) /\ k.type \in {"agent:run:end", "agent:error"} /\ FinalOf(k) = Final(how) BY EndCrumbIs
  <2>2. view'.task = (IF how = "done" THEN w.task ELSE Caught(w.task, EndCode(how)))
        /\ view'.registry = w.registry \ {w.task.taskId}
    BY <1>3, EndingIs
  <2>3. w.task.taskId = view.task.taskId /\ w.task.finals = Append(view.task.finals, Final(how))
        /\ w.registry = view.registry /\ TaskTypes(w.task)
    BY <1>o, <2>1, WatchTaskEnd
  <2>4. how # "done" => /\ Caught(w.task, EndCode(how)).taskId = w.task.taskId
                        /\ Caught(w.task, EndCode(how)).finals = Append(w.task.finals, Final(how))
    <3>1. Caught(w.task, EndCode(how)).taskId = w.task.taskId
          /\ Caught(w.task, EndCode(how)).finals
               = Append(w.task.finals, IF EndCode(how) = "RUN_CANCELLED" THEN "canceled" ELSE "failed")
      BY <2>3, CaughtIs
    <3>2. how # "done" => (IF EndCode(how) = "RUN_CANCELLED" THEN "canceled" ELSE "failed") = Final(how)
      BY DEF EndCode, Final, Hows
    <3> QED BY <3>1, <3>2
  <2>5. view'.task.taskId = view.task.taskId BY <2>2, <2>3, <2>4
  <2>6. view.task.finals = << >> /\ view.registry \subseteq {view.task.taskId} BY <1>t, <2>5 DEF OpenTask
  <2>7. view'.registry = {} BY <2>2, <2>3, <2>6
  <2>8. view'.task.finals # << >> /\ \A n \in DOMAIN view'.task.finals : view'.task.finals[n] = Final(how)
    <3>1. CASE how = "done"
      <4>1. view'.task.finals = Append(view.task.finals, Final(how)) BY <2>2, <2>3, <3>1
      <4> QED BY <2>6, <4>1, OneFinal
    <3>2. CASE how # "done"
      <4>1. view'.task.finals = Append(Append(view.task.finals, Final(how)), Final(how))
        BY <2>2, <2>3, <2>4, <3>2
      <4> QED BY <2>6, <4>1, TwoFinals
    <3> QED BY <3>1, <3>2
  <2>9. state'["r"] = how /\ How("r")' = Final(how) /\ Over("r")' BY <1>3, EndStatus
  <2> QED BY <2>7, <2>8, <2>9 DEF ClosedTask, Hows
<1> QED BY <1>1, <1>2, <1>3 DEF Shuts

LEMMA TaskClosed ==
  ASSUME VTypes, RunInv, stream = "closed", TaskOK, [Next]_vars, view'.task.taskId # "c"
  PROVE  ClosedTask' /\ (state'["r"] = "none" => view'.task.taskId = "none" /\ view'.registry = {})
<1>1. view'.task = view.task /\ view'.registry \subseteq view.registry BY ClosedStep
<1>2. ClosedTask BY <1>1 DEF TaskOK
<1>n. state["r"] = "none" => view.task.taskId = "none" /\ view.registry = {} BY DEF TaskOK
<1>3. view'.registry = {} BY <1>1, <1>2 DEF ClosedTask
<1>4. CASE Over("r") \/ state["r"] = "none"
  <2>1. state["r"] \notin {"live", "paused"} BY <1>4 DEF Over
  <2>2. UNCHANGED <<state, pauses>> BY <2>1, RunStays
  <2> QED BY <1>1, <1>2, <1>3, <1>n, <2>2 DEF ClosedTask, Over, How
<1>5. CASE ~Over("r") /\ state["r"] # "none"
  <2>1. view'.task.finals = << >> BY <1>1, <1>2, <1>5 DEF ClosedTask
  <2>2. CASE EndsNow
    <3>1. PICK how \in Hows : Ending(how, EndCrumb(how), EndCode(how)) /\ Live("r") BY <2>2 DEF EndsNow
    <3>2. pauses > 0
      <4>1. pauses # 0 /\ pauses \in Nat BY <3>1 DEF RunInv, RunBase, RunsOK, RunTypes
      <4> QED BY <4>1
    <3>3. pauses' = pauses /\ state'["r"] = how BY <3>1, EndStatus
    <3> QED BY <1>3, <2>1, <3>2, <3>3 DEF ClosedTask, Hows
  <2>3. CASE ~EndsNow
    <3>1. ~Over("r")' /\ state'["r"] # "none" BY <1>5, <2>3, RunOver
    <3> QED BY <1>3, <2>1, <3>1 DEF ClosedTask
  <2> QED BY <2>2, <2>3
<1> QED BY <1>4, <1>5

\* A run that has not begun belongs to no task.
LEMMA TaskUnborn ==
  ASSUME VTypes, RunInv, TaskOK, [Next]_vars, state'["r"] = "none"
  PROVE  view'.task.taskId = "none"
<1>0. ViewTypes(view) /\ TaskTypes(view.task) /\ state \in [Runs -> Places]
  BY DEF VTypes, RunTypes, ViewTypes
<1>1. state["r"] = "none"
  <2>1. CASE Over("r")
    <3>1. state' = state BY <2>1, RunStays DEF Over
    <3> QED BY <3>1
  <2>2. CASE EndsNow BY <2>2, EndStatus DEF EndsNow, Hows
  <2>3. CASE ~Over("r") /\ ~EndsNow BY <2>3, RunOver
  <2> QED BY <2>1, <2>2, <2>3
<1>2. view.task.taskId = "none" BY <1>1 DEF TaskOK
<1>3. ~Live("r") /\ ~Live("c") /\ state["c"] # "paused"
  BY <1>1 DEF RunInv, RunBase, RunsOK, Live
<1>4. \A x \in Runs : ~Live(x) BY <1>3 DEF Runs
<1>5. \A c \in calls : c.run \in Runs BY DEF VTypes, RunTypes, CallsOK, CallRow
<1>6. CASE Begin
  <2>1. state'["r"] = "live" BY <1>0, <1>6 DEF Begin, Runs
  <2> QED BY <2>1
<1>7. CASE Refused
  <2>1. view'.task = Caught(view.task, "CONCURRENCY_LIMIT") BY <1>0, <1>7, ThrowsIs DEF Refused
  <2> QED BY <1>0, <1>2, <2>1, CaughtIs
<1>8. ~Resumes BY <1>1, <1>3 DEF Resumes
<1>9. CASE CancelDecides
  <2>1. view' = view \/ view' = [view EXCEPT !.registry = @ \ {cancel.run}] BY <1>9 DEF CancelDecides
  <2> QED BY <1>0, <1>2, <2>1 DEF ViewTypes
<1>10. CASE UNCHANGED vars BY <1>2, <1>10 DEF vars
<1>11. \A x \in Runs : ~(Text(x) \/ InputStarts(x) \/ CallsAtOnce(x) \/ RetryStep(x) \/ Pauses(x))
  BY <1>4 DEF Text, InputStarts, CallsAtOnce, RetryStep, Pauses
<1>12. ASSUME NEW x \in Runs, CancelReads(x) PROVE view'.task.taskId = "none" BY <1>2, <1>12 DEF CancelReads
<1>13. \A c \in calls : ~(InputGrows(c) \/ InputEnds(c) \/ Execute(c) \/ Delegate(c))
  BY <1>3, <1>4, <1>5 DEF InputGrows, InputEnds, Execute, Delegate
<1>14. \A c \in calls : \A type : ~Outcome(c, type)
  BY <1>4, <1>5 DEF Outcome
<1>15. \A how \in Hows : ~ChildEnds(how, ChildCrumb(how)) BY <1>3 DEF ChildEnds
<1> QED BY <1>3, <1>6, <1>7, <1>8, <1>9, <1>10, <1>11, <1>12, <1>13, <1>14, <1>15, NextCases, Zenon

LEMMA TaskStep ==
  ASSUME VTypes, RunInv, FramesOK, TaskOK, [Next]_vars
  PROVE  TaskOK'
<1>0. stream \in {"open", "closed"} BY DEF VTypes, RunTypes
<1>1. (Over("r") => status["r"] = How("r"))' BY StatusStep DEF TaskOK
<1>2. state'["r"] = "none" => view'.task.taskId = "none" BY TaskUnborn
<1>3. CASE view'.task.taskId = "c" BY <1>1, <1>2, <1>3 DEF TaskOK
<1>4. ASSUME view'.task.taskId # "c"
      PROVE  /\ IF stream' = "open" THEN OpenTask' ELSE ClosedTask'
             /\ state'["r"] = "none" => view'.task.taskId = "none" /\ view'.registry = {}
  <2>1. CASE stream = "closed" BY <1>4, <2>1, ClosedStep, TaskClosed
  <2>2. CASE stream = "open" /\ Shuts
    <3>1. FrameOK BY <2>2 DEF FramesOK
    <3> QED BY <1>4, <2>2, <3>1, FrameShuts, TaskShuts
  <2>3. CASE stream = "open" /\ ~Shuts
    <3>1. FrameOK BY <2>3 DEF FramesOK
    <3> QED BY <1>4, <2>3, <3>1, StaysOpen, TaskOpen
  <2> QED BY <1>0, <2>1, <2>2, <2>3
<1> QED BY <1>1, <1>3, <1>4 DEF TaskOK

-----------------------------------------------------------------------------
(* The theorems.                                                           *)
LEMMA ViewsInit ==
  ASSUME Init
  PROVE  VInv
<1>1. CallsOK(calls, minted) /\ minted \in 0..MaxCalls BY BoundAssumption DEF Init, CallsOK
<1>2. RunTypes BY <1>1 DEF Init, RunTypes, Runs, Places
<1>3. ViewTypes(view)
  <2>1. UiTypes(view.ui) BY DEF Init, UiTypes
  <2>2. ClientTypes(view.client) BY DEF Init, ClientTypes, ToolStages
  <2>3. TaskTypes(view.task)
    <3>1. view.task = [taskId |-> "none", opened |-> FALSE, fresh |-> 0, finals |-> << >>] BY DEF Init
    <3> QED BY <3>1 DEF TaskTypes
  <2>4. DOMAIN view = {"ui", "client", "task", "registry", "terminalSeen"} BY DEF Init
  <2> QED BY <2>1, <2>2, <2>3, <2>4 DEF ViewTypes
<1>4. VTypes BY <1>2, <1>3 DEF VTypes, Init, Statuses
<1>5. RunsOK BY DEF Init, RunsOK, Live, Runs
<1>6. CallsLive BY DEF Init, CallsLive
<1>7. SpansOK BY DEF Init, SpansOK
<1>8. FramesOK
  <2>1. view.ui.open = [x \in Runs |-> 0] /\ view.ui.streaming = {} /\ view.ui.seq = 0 BY DEF Init
  <2>2. /\ view.client.open = {} /\ view.client.tools = [k \in Calls |-> "none"] /\ view.client.running = 0
        /\ view.client.wrong = {}
    BY DEF Init
  <2>3. ~view.client.begun BY DEF Init
  <2>4. Linked(view.ui, view.client) BY <2>1, <2>2 DEF Linked, Runs
  <2>5. IdleShut BY <2>1 DEF IdleShut, Opened, Runs
  <2>6. RunsShown BY <2>2, <2>3 DEF RunsShown, Live, Init, Runs
  <2>7. Unborn BY <2>1, <2>2 DEF Unborn
  <2>8. CallsShown BY DEF CallsShown, Init
  <2> QED BY <2>1, <2>2, <2>4, <2>5, <2>6, <2>7, <2>8 DEF FramesOK, FrameOK, Opened
<1>9. TaskOK BY DEF Init, TaskOK, OpenTask, Over, Runs
<1> QED BY <1>4, <1>5, <1>6, <1>7, <1>8, <1>9 DEF VInv

LEMMA ViewsStep ==
  ASSUME VInv, [Next]_vars
  PROVE  VInv'
<1>1. VTypes /\ RunInv /\ SpansOK /\ FramesOK /\ TaskOK BY DEF VInv, RunInv, RunBase, VTypes
<1>2. VTypes' BY <1>1, TypesStep
<1>3. RunInv' BY <1>1, RunStep
<1>4. SpansOK' BY <1>1, SpansStep
<1>5. FramesOK' BY <1>1, FramesStep
<1>6. TaskOK' BY <1>1, TaskStep
<1> QED BY <1>2, <1>3, <1>4, <1>5, <1>6 DEF VInv, RunInv, RunBase

LEMMA ViewsInv == Spec => []VInv
<1>1. Init => VInv BY ViewsInit
<1>2. VInv /\ [Next]_vars => VInv' BY ViewsStep
<1> QED BY <1>1, <1>2, PTL DEF Spec

\* Every open otel span measures something still under way, in whichever order
\* runs, calls, pauses and resumes end (otel's init): SpansOK, which says
\* besides whose crumbs reach the listener.
THEOREM NoSpanOutlives == Spec => []SpansClose
<1>1. ASSUME VInv PROVE SpansClose
  <2> SUFFICES ASSUME NEW s \in spans
               PROVE  CASE s.kind = "run" -> ~Over(s.id[1])
                        [] s.kind = "tool" -> \E c \in calls : <<c.run, c.id>> = s.id
                        [] s.kind = "human" -> state[s.id[1]] = "paused"
                        [] s.kind = "subagent" -> ~Over("c") \/ state["c"] # "done" \/ direct
    BY DEF SpansClose
  <2>1. SpanOK(s) BY <1>1 DEF VInv, SpansOK
  <2>2. CASE s.kind = "run"
    <3>1. PICK x \in Runs : s.id = <<x, 0>> /\ ~Over(x) BY <2>1, <2>2 DEF SpanOK
    <3> QED BY <2>2, <3>1
  <2>3. CASE s.kind = "tool"
    <3>1. PICK c \in calls : s.id = <<c.run, c.id>> BY <2>1, <2>3 DEF SpanOK
    <3> QED BY <2>3, <3>1
  <2>4. CASE s.kind = "human"
    <3>1. PICK x \in Runs : s.id = <<x, 0>> /\ state[x] = "paused" BY <2>1, <2>4 DEF SpanOK
    <3> QED BY <2>4, <3>1
  <2>5. CASE s.kind = "subagent" BY <2>1, <2>5 DEF SpanOK
  <2> QED BY <2>1, <2>2, <2>3, <2>4, <2>5 DEF SpanOK
<1> QED BY <1>1, ViewsInv, PTL

\* An AG-UI client can place every event, whatever the interleaving of tool
\* calls, of the delegated run, of retried steps and of a stream that throws,
\* and no message outlives its run (createAgUiTransformer and the route's
\* terminalCrumbSeen). The calls of a hidden or mediated run are not shown, so
\* nothing is said of their stage.
THEOREM NothingMisplaced == Spec => []WellFramed
<1>1. ASSUME VInv PROVE WellFramed
  <2>1. FramesOK BY <1>1 DEF VInv
  <2>2. stream = "open" => \A x \in Runs : Over(x) => view.ui.open[x] = 0
    BY <2>1 DEF FramesOK, FrameOK, IdleShut, Opened, Over, Live
  <2> QED BY <2>1, <2>2 DEF FramesOK, WellFramed, Opened
<1> QED BY <1>1, ViewsInv, PTL

\* An A2A client whose stream showed no delegated start gets final updates that
\* agree with how the run ended, none for a pause; deriveTaskStatus says the
\* same, and only an open stream's task is in the cancel registry
\* (runToA2AEvents, cancelRegistry).
THEOREM ClientToldTheTruth == Spec => []TaskTruth
<1>1. ASSUME VInv PROVE TaskTruth
  <2> SUFFICES ASSUME view.task.taskId # "c"
               PROVE  /\ \A n \in DOMAIN view.task.finals :
                            view.task.finals[n] = IF state["r"] = "none" THEN "failed"
                                                  ELSE IF state["r"] = "done" THEN "completed" ELSE state["r"]
                      /\ Over("r") /\ pauses = 0 => view.task.finals # << >>
                      /\ view.task.fresh <= 1
                      /\ Over("r") => status["r"] = (IF state["r"] = "done" THEN "completed" ELSE state["r"])
                      /\ view.registry # {} => stream = "open"
    BY DEF TaskTruth
  <2>1. TaskOK /\ RunsOK /\ TaskTypes(view.task) BY <1>1 DEF VInv, VTypes, ViewTypes
  <2>2. view.task.fresh <= 1 BY <2>1 DEF TaskTypes
  <2>3. Over("r") => status["r"] = (IF state["r"] = "done" THEN "completed" ELSE state["r"])
    BY <2>1 DEF TaskOK, How
  <2>4. CASE stream = "open"
    <3>1. view.task.finals = << >> /\ ~Over("r") BY <2>1, <2>4 DEF TaskOK, OpenTask, RunsOK, Over
    <3> QED BY <2>2, <2>3, <2>4, <3>1
  <2>5. CASE stream # "open"
    <3>1. ClosedTask BY <2>1, <2>5 DEF TaskOK
    <3> QED BY <2>2, <2>3, <3>1 DEF ClosedTask, How
  <2> QED BY <2>4, <2>5
<1> QED BY <1>1, ViewsInv, PTL
=============================================================================

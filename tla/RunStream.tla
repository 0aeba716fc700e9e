------------------------------ MODULE RunStream ------------------------------
(***************************************************************************)
(* One run's crumbs from the instance to a passive reader.  Every stream   *)
(* of the run (run(), then each resume()) has a crumb log writer: it gives *)
(* each crumb its seq, collects deltas in a window per channel, and chains *)
(* the writes to the log; the crumb is then published and handed out.  A   *)
(* reader of GET /runs/:runId/stream subscribes, replays the log from its  *)
(* Last-Event-ID, and goes over to live frames.                            *)
(*                                                                         *)
(* A crumb is known by its place in `sent`.  A write is a call over a      *)
(* network, so it lands later than the crumb is published; windows are     *)
(* flushed by timers in between.                                           *)
(***************************************************************************)
EXTENDS Naturals, Sequences, FiniteSets, SequencesExt

CONSTANTS
  Channels,        \* kinds of delta crumbs, each with a window of its own
  Readers,         \* passive readers
  MaxAsk,          \* bound: human tool calls, each resumed by a new stream
  MaxSent,         \* bound: crumbs
  MaxFaults,       \* bound: lost connections, failed store calls, crashes and
                   \* overtaking resumes, all together
  Routes           \* ways to tail a run, of "stream" and "resubscribe"

Streams == 1..(MaxAsk + 1)
Boundaries == {"step", "ask", "end"}

ASSUME ChannelAssumption == Channels \cap Boundaries = {}
ASSUME BoundAssumption ==
  MaxAsk \in Nat /\ MaxSent \in Nat /\ MaxFaults \in Nat
\* GET /runs/:runId/stream subscribes, then reads the log; tasks/resubscribe
\* of the A2A server reads the log, then subscribes.
ASSUME RouteAssumption == Routes \subseteq {"stream", "resubscribe"}

VARIABLES
  sent,      \* crumbs published, with kind and seq
  stage,     \* where the run's latest stream is
  stream,    \* how many streams it has had
  counter,   \* RunState.counter of the latest writer
  window,    \* RunState.windows: the deltas collected on each channel, in the
             \* order in which the windows were opened
  chain,     \* RunState.chain of each writer: entries still to be written
  disabled,  \* RunState.disabled of each writer
  log,       \* the crumb log: entries with their seq and the crumbs they hold
  route,     \* the route each reader tails the run by
  pc,        \* where each reader's connection is
  pending,   \* frames received and not yet looked at
  maxseq,    \* replayedMax of the connection
  lastid,    \* the id of the last event the reader was sent
  shown,     \* boundary crumbs the reader was sent, in order
  text,      \* deltas the reader was sent, live or in an aggregate
  inflight,  \* crumbs underway when the reader read the log, and those that
             \* came before it was subscribed
  drops,     \* connections lost
  faults     \* anything else that went wrong

writerVars == <<sent, stage, stream, counter, window, chain, disabled>>
readerVars == <<route, pc, pending, maxseq, lastid, shown, text, inflight>>
countVars == <<drops, faults>>
vars == <<writerVars, log, readerVars, countVars>>

Places == 1..Len(sent)
Deltas == {p \in Places : sent[p].kind \in Channels}
\* The full replay asks for seq > 0.
Seqs == Nat \ {0}
Entry == [seq : Seqs, of : SUBSET (1..MaxSent)]

TypeOK ==
  /\ sent \in Seq([kind : Channels \cup Boundaries, seq : Seqs])
  /\ stage \in {"idle", "live", "asked", "suspended", "ending", "ended", "lost"}
  /\ stream \in 0..(MaxAsk + 1)
  /\ counter \in Nat
  /\ window \in Seq([kind : Channels, of : SUBSET Places])
  /\ chain \in [Streams -> Seq(Entry)]
  /\ disabled \in [Streams -> BOOLEAN]
  /\ log \subseteq Entry
  /\ route \in [Readers -> Routes]
  /\ pc \in [Readers -> {"off", "subscribed", "replayed", "live", "closed"}]
  /\ pending \in [Readers -> Seq(Places)]
  /\ maxseq \in [Readers -> Nat] /\ lastid \in [Readers -> Nat]
  /\ shown \in [Readers -> Seq(Places)]
  /\ text \in [Readers -> SUBSET Places]
  /\ inflight \in [Readers -> SUBSET Places]
  /\ drops \in 0..MaxFaults
  /\ faults \in 0..MaxFaults

Init ==
  /\ sent = <<>> /\ stage = "idle" /\ stream = 0 /\ counter = 0
  /\ window = <<>>
  /\ chain = [s \in Streams |-> <<>>]
  /\ disabled = [s \in Streams |-> FALSE]
  /\ log = {}
  /\ route \in [Readers -> Routes]
  /\ pc = [r \in Readers |-> "off"]
  /\ pending = [r \in Readers |-> <<>>]
  /\ maxseq = [r \in Readers |-> 0] /\ lastid = [r \in Readers |-> 0]
  /\ shown = [r \in Readers |-> <<>>]
  /\ text = [r \in Readers |-> {}]
  /\ inflight = [r \in Readers |-> {}]
  /\ drops = 0
  /\ faults = 0

Logged == UNION {e.of : e \in log}
MayFail == drops + faults < MaxFaults
Fault == MayFail /\ faults' = faults + 1 /\ drops' = drops

-----------------------------------------------------------------------------
(* The writer: createCrumbLogWriter and instrument.                        *)

\* publish: the frame goes to whoever is subscribed.
Publish(kind, seq) ==
  /\ Len(sent) < MaxSent
  /\ sent' = Append(sent, [kind |-> kind, seq |-> seq])
  /\ pending' = [r \in Readers |->
                   IF pc[r] \in {"subscribed", "live"}
                   THEN Append(pending[r], Len(sent) + 1) ELSE pending[r]]
  /\ inflight' = [r \in Readers |->
                   IF pc[r] = "replayed" THEN inflight[r] \cup {Len(sent) + 1}
                   ELSE inflight[r]]

\* enqueue: nothing is chained once a write has failed.
Enqueue(s, entries) ==
  chain' = [chain EXCEPT ![s] = IF disabled[s] THEN @ ELSE @ \o entries]

\* flushAllWindows: every aggregate takes a seq of its own.
FlushAll ==
  [i \in DOMAIN window |-> [seq |-> counter + i, of |-> window[i].of]]

\* A boundary crumb closes the open windows, then takes its own seq.
OwnSeq == counter + Len(window) + 1
WindowsFirst(p) == Append(FlushAll, [seq |-> OwnSeq, of |-> {p}])

\* process and publish of a boundary crumb by a writer that goes on.
Boundary(kind) ==
  /\ stage = "live"
  /\ Enqueue(stream, WindowsFirst(Len(sent) + 1))
  /\ window' = <<>>
  /\ counter' = OwnSeq
  /\ Publish(kind, OwnSeq)
  /\ UNCHANGED <<stream, disabled, log, route, pc, maxseq, lastid, shown, text, countVars>>

Step == Boundary("step") /\ stage' = stage
\* human:required: the stream ends, but not before its writes have landed.
Ask == stream <= MaxAsk /\ Boundary("ask") /\ stage' = "asked"
\* agent:run:end or agent:error.
End == Boundary("end") /\ stage' = "ending"

\* A delta joins the window of its channel, which is opened if need be.
Collected(c, p) ==
  IF \E i \in DOMAIN window : window[i].kind = c
  THEN [i \in DOMAIN window |->
          IF window[i].kind = c THEN [kind |-> c, of |-> window[i].of \cup {p}]
          ELSE window[i]]
  ELSE Append(window, [kind |-> c, of |-> {p}])

\* flushWindow of the window at i among those there are.
Flush(windows, i) ==
  /\ window' = RemoveAt(windows, i)
  /\ counter' = counter + 1
  /\ Enqueue(stream, <<[seq |-> counter + 1, of |-> windows[i].of]>>)

\* A delta carries the watermark; its window is flushed at maxBufferBytes.
Delta(c) ==
  LET windows == Collected(c, Len(sent) + 1) IN
  /\ stage = "live"
  /\ Publish(c, counter)
  /\ \/ disabled[stream] /\ UNCHANGED <<window, counter, chain>>
     \/ ~disabled[stream] /\ window' = windows /\ UNCHANGED <<counter, chain>>
     \/ /\ ~disabled[stream]
        /\ \E i \in DOMAIN windows : windows[i].kind = c /\ Flush(windows, i)
  /\ UNCHANGED <<stage, stream, disabled, log, route, pc, maxseq, lastid, shown, text,
                 countVars>>

\* The timer of a window that is maxBufferMs old.
Timer(i) ==
  /\ stage = "live" /\ Flush(window, i)
  /\ UNCHANGED <<sent, stage, stream, disabled, log, readerVars, countVars>>

LastLogged == IF log = {} THEN 0 ELSE CHOOSE n \in {e.seq : e \in log} :
                                        \A e \in log : e.seq <= n

\* Mutant: every writer starts anew.
Unseeded == 0
\* getRun: the counter goes on from what getMaxCrumbSeq returns.
Seed == LastLogged

\* The next stream's writer is seeded with n and its first crumb comes:
\* agent:run:start, or human:resumed.
Opens(n, failed) ==
  LET s == stream + 1 IN
  /\ s \in Streams
  /\ stream' = s /\ stage' = "live"
  /\ disabled' = [disabled EXCEPT ![s] = failed]
  /\ counter' = n + 1
  /\ chain' = IF failed THEN chain
              ELSE [chain EXCEPT ![s] = <<[seq |-> n + 1, of |-> {Len(sent) + 1}]>>]
  /\ Publish("step", n + 1)
  /\ UNCHANGED <<window, log, route, pc, maxseq, lastid, shown, text>>

\* run(), or a resume() by a client that has seen the stream end.
OpenStream ==
  /\ stage \in {"idle", "suspended"}
  /\ Opens(Seed, FALSE)
  /\ UNCHANGED countVars

\* A resume() by a client that answers while the stream is still closing.
Overtake ==
  /\ stage = "asked" /\ Opens(Seed, FALSE)
  /\ Fault

\* getMaxCrumbSeq fails: the counter stays zero and nothing is logged.
SeedFails == stage \in {"idle", "suspended"} /\ Opens(0, TRUE) /\ Fault

\* A write lands, unless the log has an entry with its primary key.
Write(s) ==
  LET e == Head(chain[s]) IN
  /\ chain[s] # <<>>
  /\ chain' = [chain EXCEPT ![s] = Tail(@)]
  /\ IF \E f \in log : f.seq = e.seq
     THEN log' = log /\ disabled' = [disabled EXCEPT ![s] = TRUE]
     ELSE log' = log \cup {e} /\ disabled' = disabled
  /\ UNCHANGED <<sent, stage, stream, counter, window, readerVars, countVars>>

\* It fails: no further write is chained, those that are go on.
WriteFails(s) ==
  /\ chain[s] # <<>> /\ Fault
  /\ chain' = [chain EXCEPT ![s] = Tail(@)]
  /\ disabled' = [disabled EXCEPT ![s] = TRUE]
  /\ UNCHANGED <<sent, stage, stream, counter, window, log, readerVars>>

\* Mutant: the stream closes while writes are underway.
NotAwaited == TRUE
\* finalize awaits the writer's chain.
Awaited == chain[stream] = <<>>

\* The generator returns, and with it the caller's stream ends.
Close ==
  /\ \/ stage = "asked" /\ stage' = "suspended"
     \/ stage = "ending" /\ stage' = "ended"
  /\ Awaited
  /\ UNCHANGED <<sent, stream, counter, window, chain, disabled, log, readerVars, countVars>>

\* The consumer stops reading: the open windows are flushed and awaited.
Abandon ==
  /\ stage = "live" /\ stage' = "lost"
  /\ Enqueue(stream, FlushAll)
  /\ window' = <<>>
  /\ counter' = counter + Len(window)
  /\ UNCHANGED <<sent, stream, disabled, log, readerVars, countVars>>

\* The process dies with its windows and chains; a stored checkpoint stays.
Crash ==
  /\ stage \in {"live", "asked", "ending"} /\ Fault
  /\ stage' = CASE stage = "live" -> "lost"
                [] stage = "asked" -> "suspended"
                [] stage = "ending" -> "ended"
  /\ window' = <<>>
  /\ chain' = [s \in Streams |-> <<>>]
  /\ UNCHANGED <<sent, stream, counter, disabled, log, readerVars>>

-----------------------------------------------------------------------------
(* A reader: GET /runs/:runId/stream of the chunked and the SSE transport, *)
(* and tasks/resubscribe of both versions of the A2A server.               *)

Connecting(r) == pc[r] = "off" /\ stage # "idle"

Subscribe(r) ==
  /\ \/ route[r] = "stream" /\ Connecting(r) /\ pc' = [pc EXCEPT ![r] = "subscribed"]
     \/ pc[r] = "replayed" /\ pc' = [pc EXCEPT ![r] = "live"]
  /\ pending' = [pending EXCEPT ![r] = <<>>]
  /\ UNCHANGED <<writerVars, log, route, maxseq, lastid, shown, text, inflight, countVars>>

HasEnd(ps) == \E p \in ps : sent[p].kind = "end"

\* deriveTaskStatus: the A2A server knows a task by its crumb log only.
TaskStatus ==
  IF log = {} THEN "not-found"
  ELSE IF \E e \in log : HasEnd(e.of) THEN "terminal" ELSE "active"

\* A task that is over is not tailed.
Refuse(r) ==
  /\ route[r] = "resubscribe" /\ Connecting(r) /\ TaskStatus = "terminal"
  /\ pc' = [pc EXCEPT ![r] = "closed"]
  /\ UNCHANGED <<writerVars, log, route, pending, maxseq, lastid, shown, text, inflight,
                 countVars>>

\* Mutant: a terminal crumb in the log is replayed like any other.
OnlyLiveEnds(ps) == FALSE
\* A replayed terminal crumb ends the stream.
EndsReplay(ps) == HasEnd(ps)

\* The crumbs the reader cannot get any more: those underway to the log
\* that it is not subscribed for either, and the deltas underway.
Underway(r) ==
  {p \in Places \ Logged : p \in Deltas \/ p \notin ToSet(pending[r])}

\* The ways to list entries by seq: one.
BySeq(entries) ==
  {s \in [1..Cardinality(entries) -> entries] :
     /\ \A i, j \in DOMAIN s : i < j => s[i].seq < s[j].seq
     /\ ToSet(s) = entries}

\* getCrumbs, and the replay of what it returned up to seq n.
Replay(r, n) ==
  LET entries == {e \in log : e.seq > lastid[r] /\ e.seq <= n} IN
  /\ \/ pc[r] = "subscribed"
     \/ route[r] = "resubscribe" /\ Connecting(r) /\ TaskStatus = "active"
  /\ \E s \in BySeq({e \in entries : e.of \cap Deltas = {}}) :
       shown' = [shown EXCEPT ![r] =
                   @ \o [i \in DOMAIN s |-> CHOOSE p \in Places : s[i].of = {p}]]
  /\ text' = [text EXCEPT ![r] = @ \cup ((UNION {e.of : e \in entries}) \cap Deltas)]
  /\ inflight' = [inflight EXCEPT ![r] = @ \cup Underway(r)]
  /\ maxseq' = [maxseq EXCEPT ![r] = IF n > lastid[r] THEN n ELSE lastid[r]]
  /\ lastid' = [lastid EXCEPT ![r] = maxseq'[r]]
  /\ UNCHANGED <<writerVars, log, route>>

ReplayAll(r) ==
  LET replayed == UNION {e.of : e \in {d \in log : d.seq > lastid[r]}} IN
  /\ Replay(r, LastLogged)
  /\ IF EndsReplay(replayed)
     THEN pc' = [pc EXCEPT ![r] = "closed"] /\ pending' = [pending EXCEPT ![r] = <<>>]
     ELSE /\ pc' = [pc EXCEPT ![r] = IF route[r] = "stream" THEN "live" ELSE "replayed"]
          /\ pending' = pending
  /\ UNCHANGED countVars

Loses(r) ==
  /\ MayFail
  /\ drops' = drops + 1 /\ faults' = faults
  /\ pc' = [pc EXCEPT ![r] = "off"]
  /\ pending' = [pending EXCEPT ![r] = <<>>]

\* The connection is lost in the middle of the replay.
DropInReplay(r) == \E e \in log : e.seq < LastLogged /\ Replay(r, e.seq) /\ Loses(r)

\* ... or later; the client reconnects with the last id it was sent.
DropLive(r) ==
  /\ pc[r] \in {"subscribed", "replayed", "live"}
  /\ Loses(r)
  /\ maxseq' = [maxseq EXCEPT ![r] = lastid[r]]
  /\ UNCHANGED <<writerVars, log, route, lastid, shown, text, inflight>>

\* Mutant: one rule for all crumbs.
SameRule(p, n) == sent[p].seq <= n
\* Mutant: a frame at the replayed maximum is taken for a new one.
SkipsBelow(p, n) == sent[p].seq < n
\* The frames a live reader takes for duplicates of what it replayed.
Skips(p, n) == IF p \in Deltas THEN sent[p].seq < n ELSE sent[p].seq <= n

\* The id of an event is the seq of its crumb.
EventId(p) == sent[p].seq

\* The loop of the handler takes the next frame.
Deliver(r) ==
  LET p == Head(pending[r]) IN
  /\ pc[r] = "live" /\ pending[r] # <<>>
  /\ IF Skips(p, maxseq[r])
     THEN UNCHANGED <<maxseq, lastid, shown, text>>
     ELSE /\ lastid' = [lastid EXCEPT ![r] = EventId(p)]
          /\ IF p \in Deltas
             THEN text' = [text EXCEPT ![r] = @ \cup {p}] /\ UNCHANGED <<maxseq, shown>>
             ELSE /\ shown' = [shown EXCEPT ![r] = Append(@, p)]
                  /\ maxseq' = [maxseq EXCEPT ![r] = sent[p].seq]
                  /\ text' = text
  /\ IF HasEnd({p}) /\ ~Skips(p, maxseq[r])
     THEN pc' = [pc EXCEPT ![r] = "closed"] /\ pending' = [pending EXCEPT ![r] = <<>>]
     ELSE pc' = pc /\ pending' = [pending EXCEPT ![r] = Tail(@)]
  /\ UNCHANGED <<writerVars, log, route, inflight, countVars>>

Writer ==
  \/ Step \/ Ask \/ End \/ Close
  \/ \E c \in Channels : Delta(c)
  \/ \E i \in DOMAIN window : Timer(i)
  \/ \E s \in Streams : Write(s)
  \/ OpenStream
Faulty ==
  \/ Overtake \/ SeedFails \/ Abandon \/ Crash
  \/ \E s \in Streams : WriteFails(s)
Reader(r) == Subscribe(r) \/ Refuse(r) \/ ReplayAll(r) \/ Deliver(r)

Next ==
  \/ Writer
  \/ Faulty
  \/ \E r \in Readers : Reader(r) \/ DropInReplay(r) \/ DropLive(r)

Spec == Init /\ [][Next]_vars

\* A reader that is connected is served: the store answers, the loop of the
\* handler takes every frame.  Nobody has to go on with the run.
FairSpec == Spec /\ \A r \in Readers : WF_vars(Reader(r))

-----------------------------------------------------------------------------
(* Properties.                                                             *)

\* A seq was given to two boundary crumbs.
Reused == \E p, q \in Places \ Deltas : p < q /\ sent[q].seq <= sent[p].seq

\* A write failed and a later one landed.
Hole == \E p \in Places \ Deltas :
  p \notin Logged /\ \E e \in log : e.seq > sent[p].seq

\* As long as the store and the clients behave, seq is a position: boundary
\* crumbs of all the run's streams have increasing ones, and a delta carries
\* none below theirs (docs/http-api.md:10-11, "per-run monotonic").
SeqIsPosition ==
  faults = 0 => \A p, q \in Places : p < q =>
    IF q \in Deltas THEN sent[p].seq <= sent[q].seq ELSE sent[p].seq < sent[q].seq

\* A stream that closed left everything it carried in the log.
LogComplete ==
  faults = 0 /\ stage \in {"suspended", "ended"} => Logged = Places

Sent(r) == ToSet(shown[r]) \cup text[r]
AtRest(r) == pc[r] = "live" /\ pending[r] = <<>>

\* A reader that is up to date misses a crumb only if it was published and
\* still underway to the log when the reader read it, or came before it was
\* subscribed: what the log held is replayed, what is published later is not
\* taken for a duplicate.
MissesOnlyInFlight ==
  \A r \in Readers : AtRest(r) /\ ~Reused /\ ~Hole => Places \subseteq Sent(r) \cup inflight[r]

\* Over all its connections a reader is sent no boundary crumb twice and,
\* unless a seq was given out again, none after a later one (docs/transports.md:58-61).
InOrder ==
  \A r \in Readers : \A i, j \in DOMAIN shown[r] : i < j =>
    IF Reused THEN shown[r][i] # shown[r][j] ELSE shown[r][i] < shown[r][j]

EndMissed(r) == \E p \in inflight[r] : HasEnd({p})

\* The stream closes after a terminal crumb (docs/http-api.md:162-163), unless
\* the crumb was underway when the reader read the log, or numbers broke.
Closes ==
  \A r \in Readers :
    stage = "ended" /\ pc[r] \in {"subscribed", "replayed", "live"}
      ~> pc[r] \in {"closed", "off"} \/ EndMissed(r) \/ Reused \/ Hole

=============================================================================

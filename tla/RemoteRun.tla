------------------------------- MODULE RemoteRun -------------------------------
(***************************************************************************)
(* A run on another bread server: remoteAgent() of the HTTP transports     *)
(* posts the run, relays the crumbs of the response, and after a drop asks *)
(* for the rest of the run by its id and the last sequence number.  The    *)
(* server side is streamCrumbs with its cancel registry, the cancel route  *)
(* and the passive stream of a run.                                        *)
(*                                                                         *)
(* The stream of a posted run also carries the runs it delegates to, each  *)
(* with its own id and numbering.  A run that waits for a person ends its  *)
(* stream; somebody else resumes it on a stream of its own.  RunStream     *)
(* shows how the passive stream is put together from the log and the bus;  *)
(* here it sends the run's crumbs after the given number, in order.        *)
(***************************************************************************)
EXTENDS Naturals, Sequences, FiniteSets

CONSTANTS
  MaxRuns,     \* bound: runs on the server
  MaxStreams,  \* bound: generators the server streams
  MaxFrames,   \* bound: crumbs of one run
  MaxRetries,  \* opts.maxRetries
  MaxFaults,   \* bound: dropped connections and refused requests
  MayAbort     \* whether the caller has a signal

ASSUME RemoteAssumption ==
  /\ MaxRuns \in Nat /\ MaxStreams \in Nat /\ MaxFrames \in Nat \ {0}
  /\ MaxRetries \in Nat /\ MaxFaults \in Nat /\ MayAbort \in BOOLEAN

Runs == 1..MaxRuns
Streams == 1..MaxStreams

VARIABLES
  \* remoteAgent().run
  pc,         \* "connecting", "reading", "backoff", "returned", "failed", "cancelled"
  runId,      \* 0 while undefined
  lastSeq,
  attempt,
  aborted,    \* runOpts.signal.aborted
  got,        \* crumbs yielded to the caller
  conn,       \* the request underway, and what it carries
  \* the server
  root,       \* the run a posted run belongs to, 0 if there is no such run
  len,        \* crumbs of each run
  over,       \* runs whose last crumb ends them
  suspended,  \* runs that wait for a person
  streams,    \* streamCrumbs calls
  registry,   \* cancelRegistry: the stream whose controller a run has, 0 if none
  cancel,     \* the request to cancel
  faults

clientVars == <<pc, runId, lastSeq, attempt, aborted, got>>
runVars == <<root, len, over, suspended>>
vars == <<clientVars, conn, runVars, streams, registry, cancel, faults>>

NoConn == [st |-> "none", stream |-> 0, run |-> 0, pos |-> 0, wire |-> <<>>]
NoStream == [st |-> "free", root |-> 0, registered |-> {}, aborted |-> FALSE]

Init ==
  /\ pc = "connecting" /\ runId = 0 /\ lastSeq = 0 /\ attempt = 0
  /\ aborted = FALSE /\ got = <<>> /\ conn = NoConn
  /\ root = [r \in Runs |-> 0] /\ len = [r \in Runs |-> 0]
  /\ over = {} /\ suspended = {}
  /\ streams = [k \in Streams |-> NoStream] /\ registry = [r \in Runs |-> 0]
  /\ cancel = [st |-> "none", run |-> 0, entry |-> 0] /\ faults = 0

Returned == {"returned", "failed", "cancelled"}
Fault == faults < MaxFaults /\ faults' = faults + 1

-----------------------------------------------------------------------------
(* The server.                                                             *)

Unused == {r \in Runs : root[r] = 0}
NextRun(r) == r \in Unused /\ \A q \in Unused : r <= q
Free == {k \in Streams : streams[k].st = "free"}
NextStream(k) == k \in Free /\ \A j \in Free : k <= j

\* POST /agents/:id/run: a run of its own, streamed into the response.
AcceptRun(k, r) ==
  /\ conn.st = "asked" /\ conn.run = 0
  /\ NextRun(r) /\ NextStream(k)
  /\ root' = [root EXCEPT ![r] = r]
  /\ streams' = [streams EXCEPT ![k] = [NoStream EXCEPT !.st = "live", !.root = r]]
  /\ conn' = [conn EXCEPT !.st = "open", !.stream = k]
  /\ UNCHANGED <<clientVars, len, over, suspended, registry, cancel, faults>>

\* GET /runs/:runId/stream.
AcceptTail ==
  /\ conn.st = "asked" /\ conn.run # 0
  /\ conn' = [conn EXCEPT !.st = "open"]
  /\ UNCHANGED <<clientVars, runVars, streams, registry, cancel, faults>>

\* A crumb of a run the stream carries.  The first one of each run puts the
\* stream's controller into the registry.
Carries(k, r) == streams[k].st = "live" /\ root[r] = streams[k].root
Frame(r) == [run |-> r, seq |-> len[r] + 1]
Send(k, r) ==
  /\ len' = [len EXCEPT ![r] = @ + 1]
  /\ streams' = [streams EXCEPT ![k].registered = @ \cup {r}]
  /\ registry' = IF r \in streams[k].registered THEN registry
                 ELSE [registry EXCEPT ![r] = k]
  /\ conn' = IF conn.st = "open" /\ conn.stream = k
             THEN [conn EXCEPT !.wire = Append(@, Frame(r))] ELSE conn
Open(r) == r \notin over /\ r \notin suspended

Crumb(k, r) ==
  /\ Carries(k, r) /\ Open(r) /\ len[r] + 1 < MaxFrames
  /\ Send(k, r)
  /\ UNCHANGED <<clientVars, root, over, suspended, cancel, faults>>
\* A run ends after the runs it delegated to.
Ends(k, r) ==
  /\ Carries(k, r) /\ Open(r)
  /\ r = root[r] => \A q \in Runs : root[q] = r /\ q # r => q \in over
  /\ Send(k, r) /\ over' = over \cup {r}
  /\ UNCHANGED <<clientVars, root, suspended, cancel, faults>>
\* human:required is the last crumb of a stream whose run suspends.
Suspends(k) ==
  LET r == streams[k].root IN
  /\ Carries(k, r) /\ Open(r) /\ len[r] + 1 < MaxFrames
  /\ \A q \in Runs : root[q] = r /\ q # r => q \in over
  /\ Send(k, r) /\ suspended' = suspended \cup {r}
  /\ UNCHANGED <<clientVars, root, over, cancel, faults>>
Delegates(k, r) ==
  /\ streams[k].st = "live" /\ Open(streams[k].root) /\ NextRun(r)
  /\ root' = [root EXCEPT ![r] = streams[k].root]
  /\ UNCHANGED <<clientVars, conn, len, over, suspended, streams, registry, cancel,
                 faults>>

\* POST /resume/:checkpointId of somebody else, perhaps before the suspended
\* run's stream was closed.
ResumeElsewhere(k, r) ==
  /\ r \in suspended /\ NextStream(k)
  /\ suspended' = suspended \ {r}
  /\ streams' = [j \in Streams |->
       IF j = k THEN [NoStream EXCEPT !.st = "live", !.root = r]
       ELSE IF streams[j].root = r /\ streams[j].st = "live"
            THEN [streams[j] EXCEPT !.st = "closing"] ELSE streams[j]]
  /\ UNCHANGED <<clientVars, conn, root, len, over, registry, cancel, faults>>

\* What the stream's end takes out of the registry.
\* Mutant: whatever stream the entry belongs to.
Everything(k) == streams[k].registered
Entries(k) == {r \in streams[k].registered : registry[r] = k}

\* The generator is done: the finally of streamCrumbs, and the end of the
\* response.
CloseStream(k) ==
  /\ \/ streams[k].st = "closing"
     \/ streams[k].st = "live" /\ ~Open(streams[k].root)
  /\ streams' = [streams EXCEPT ![k].st = "done"]
  /\ registry' = [r \in Runs |-> IF r \in Entries(k) THEN 0 ELSE registry[r]]
  /\ conn' = IF conn.st = "open" /\ conn.stream = k
             THEN [conn EXCEPT !.st = "closed"] ELSE conn
  /\ UNCHANGED <<clientVars, runVars, cancel, faults>>

\* The passive stream sends the next crumb and closes after an end.
TailSends ==
  LET r == conn.run IN
  /\ conn.st = "open" /\ r # 0 /\ conn.pos < len[r]
  /\ conn' = [conn EXCEPT !.pos = @ + 1,
       !.wire = Append(@, [run |-> r, seq |-> conn.pos + 1]),
       !.st = IF r \in over /\ conn.pos + 1 = len[r] THEN "closed" ELSE @]
  /\ UNCHANGED <<clientVars, runVars, streams, registry, cancel, faults>>

\* POST /runs/:runId/cancel: the entry is read before the authorization is
\* awaited, and used after it.
CancelLooksUp ==
  /\ cancel.st = "sent"
  /\ LET entry == registry[cancel.run] IN
     cancel' = [cancel EXCEPT !.st = IF entry = 0 THEN "done" ELSE "authorizing",
                              !.entry = entry]
  /\ UNCHANGED <<clientVars, conn, runVars, streams, registry, faults>>
CancelAborts ==
  /\ cancel.st = "authorizing"
  /\ streams' = [streams EXCEPT ![cancel.entry].aborted = TRUE]
  /\ registry' = [registry EXCEPT ![cancel.run] = 0]
  /\ cancel' = [cancel EXCEPT !.st = "done"]
  /\ UNCHANGED <<clientVars, conn, runVars, faults>>

-----------------------------------------------------------------------------
(* The client.                                                             *)

\* The run is posted until a crumb told its id; then its rest is asked for.
\* Mutant: the run is asked for from its last crumb on.
FromLast == IF lastSeq = 0 THEN 0 ELSE lastSeq - 1
LastEventId == lastSeq
Connect ==
  /\ pc = "connecting" /\ ~aborted
  /\ pc' = "reading"
  /\ conn' = [NoConn EXCEPT !.st = "asked", !.run = runId, !.pos = LastEventId]
  /\ UNCHANGED <<runId, lastSeq, attempt, aborted, got, runVars, streams, registry,
                 cancel, faults>>

\* A request that is answered with an error is not repeated.
Refused ==
  /\ conn.st = "asked" /\ Fault
  /\ pc' = "failed" /\ conn' = NoConn
  /\ UNCHANGED <<runId, lastSeq, attempt, aborted, got, runVars, streams, registry,
                 cancel>>

\* isTerminalCrumb, of whichever run
Terminal(f) == f.run \in over /\ f.seq = len[f.run]
Read ==
  /\ pc = "reading" /\ conn.wire # <<>>
  /\ LET frame == Head(conn.wire) IN
     /\ runId' = frame.run /\ lastSeq' = frame.seq
     /\ got' = Append(got, frame)
     /\ IF Terminal(frame) THEN pc' = "returned" /\ conn' = NoConn
        ELSE UNCHANGED pc /\ conn' = [conn EXCEPT !.wire = Tail(@)]
  /\ UNCHANGED <<attempt, aborted, runVars, streams, registry, cancel, faults>>

\* The connection breaks; what is underway is lost, the server's run is not.
Drop ==
  /\ conn.st \in {"asked", "open", "closed"} /\ Fault
  /\ conn' = [NoConn EXCEPT !.st = "broken"]
  /\ UNCHANGED <<clientVars, runVars, streams, registry, cancel>>

\* The response is over without an end of the run.
Interrupted ==
  /\ pc = "reading" /\ conn.wire = <<>> /\ conn.st \in {"closed", "broken"}
  /\ conn' = NoConn /\ attempt' = attempt + 1
  /\ pc' = IF aborted /\ conn.st = "broken" THEN "cancelled"
           ELSE IF attempt' > MaxRetries THEN "failed" ELSE "backoff"
  /\ UNCHANGED <<runId, lastSeq, aborted, got, runVars, streams, registry, cancel,
                 faults>>
Slept ==
  /\ pc = "backoff"
  /\ pc' = IF aborted THEN "cancelled" ELSE "connecting"
  /\ UNCHANGED <<runId, lastSeq, attempt, aborted, got, conn, runVars, streams,
                 registry, cancel, faults>>
CancelledConnecting ==
  /\ pc = "connecting" /\ aborted
  /\ pc' = "cancelled"
  /\ UNCHANGED <<runId, lastSeq, attempt, aborted, got, conn, runVars, streams,
                 registry, cancel, faults>>

\* The caller's signal: the server is told, if the run is known, and the
\* request breaks.
Abort ==
  /\ MayAbort /\ pc \notin Returned /\ ~aborted
  /\ aborted' = TRUE
  /\ cancel' = IF runId # 0 THEN [cancel EXCEPT !.st = "sent", !.run = runId] ELSE cancel
  /\ conn' = IF pc = "reading" THEN [NoConn EXCEPT !.st = "broken"] ELSE conn
  /\ UNCHANGED <<pc, runId, lastSeq, attempt, got, runVars, streams, registry, faults>>

-----------------------------------------------------------------------------
ServerAct ==
  \/ AcceptTail \/ TailSends \/ CancelLooksUp \/ CancelAborts
  \/ \E k \in Streams : Suspends(k) \/ CloseStream(k)
  \/ \E k \in Streams, r \in Runs :
       \/ AcceptRun(k, r) \/ Delegates(k, r) \/ Crumb(k, r) \/ Ends(k, r)
       \/ ResumeElsewhere(k, r)
ClientAct == Connect \/ Read \/ Interrupted \/ Slept \/ CancelledConnecting
Next == ServerAct \/ ClientAct \/ Refused \/ Drop \/ Abort

Spec == Init /\ [][Next]_vars

-----------------------------------------------------------------------------
(* Properties.                                                             *)

\* Of every run, the caller gets the first crumbs, each once and in order,
\* over drops and reconnects, and a return means that one of the runs was
\* relayed to its end (remoteAgent's lastSeq and Last-Event-ID).
Relayed(r) == {got[i].seq : i \in {j \in DOMAIN got : got[j].run = r}}
RelaysInOrder ==
  /\ \A i, j \in DOMAIN got : i < j /\ got[i].run = got[j].run => got[i].seq < got[j].seq
  /\ \A i \in DOMAIN got : \A n \in 1..got[i].seq :
       \E j \in 1..i : got[j] = [run |-> got[i].run, seq |-> n]
  /\ pc = "returned" => runId \in over /\ Relayed(runId) = 1..len[runId]

\* The registry names no stream that is over, and a stream that carries a run
\* can be cancelled by it, unless a cancel of that run has been carried out
\* (streamCrumbs: registration and the finally that undoes it).
LiveIsCancellable ==
  /\ \A r \in Runs : registry[r] # 0 => streams[registry[r]].st \in {"live", "closing"}
  /\ \A k \in Streams : streams[k].st = "live" =>
       \A r \in streams[k].registered :
         registry[r] = k \/ (cancel.st = "done" /\ cancel.run = r)
=============================================================================

------------------------- MODULE TransportProofs --------------------------
(***************************************************************************)
(* Proofs about what carries a run's crumbs between processes: the remote  *)
(* agent's request (RemoteRun), the Redis stream (RedisFabric), and the    *)
(* server's sockets (Listener).                                            *)
(*                                                                         *)
(* RemoteRun: its cancel registry names no stream that is over, and a live *)
(* stream can be cancelled by every run it has sent a crumb of; the caller *)
(* gets the first crumbs of every run, in order.  The streams that have    *)
(* carried a run all belong to the run it was posted under, and of those   *)
(* only one is live: a resume opens the next one and leaves the one before *)
(* it closing.  So no stream takes an entry from another live one, a       *)
(* stream that closes takes out its own alone, and the connection that     *)
(* hangs on a live stream misses no crumb of its runs.                     *)
(*                                                                         *)
(* RedisFabric: no frame falls between what a subscriber was replayed and  *)
(* the point the read loop goes on from.  The argument is about the order  *)
(* of the pub connection.  A subscriber's replay is asked for after the    *)
(* anchor of its Subscription, so it is executed later and covers what     *)
(* lies before the anchor; sending the commands again keeps that order.    *)
(* An id the read loop was at before the replay was executed is covered as *)
(* well, because no id is beyond the stream; one it gets to later comes    *)
(* with every entry up to it.                                              *)
(*                                                                         *)
(* Listener: a request being read always has a timer that is due by its    *)
(* deadline, and a deadline cuts nothing else. The argument is about one   *)
(* socket at a time: what its clock, its parser and the requests in flight *)
(* on it have to do with each other between two chunks (Shape), and before *)
(* the first event of a chunk (Ready).                                     *)
(***************************************************************************)
EXTENDS RemoteRun, RedisFabric, Listener, SequenceTheorems, TLAPS

-----------------------------------------------------------------------------
(* RemoteRun: the cancel registry.                                         *)

StreamStage == {"free", "live", "closing", "done"}
Stream == [st : StreamStage, root : {0} \cup Runs, registered : SUBSET Runs,
           aborted : BOOLEAN]

Types ==
  /\ root \in [Runs -> {0} \cup Runs]
  /\ streams \in [Streams -> Stream]
  /\ registry \in [Runs -> {0} \cup Streams]
  /\ cancel = [st |-> cancel.st, run |-> cancel.run, entry |-> cancel.entry]

\* What a stream carries belongs to its root, which is a run that was posted.
Rooted ==
  \A k \in Streams :
    /\ streams[k].st = "free" => streams[k].registered = {}
    /\ streams[k].st # "free" =>
         streams[k].root \in Runs /\ root[streams[k].root] = streams[k].root
    /\ \A r \in streams[k].registered : root[r] = streams[k].root

\* A run that waits for a person is one that was posted.
Waiting == \A r \in suspended : r \in Runs /\ root[r] = r

\* Of the streams of one root, one is live.
OneLive ==
  \A j, k \in Streams :
    streams[j].st = "live" /\ streams[k].st = "live"
      /\ streams[j].root = streams[k].root => j = k

\* An entry of the registry is a stream that was registered for the run, and
\* is not over.
Named ==
  \A r \in Runs : registry[r] # 0 =>
    /\ r \in streams[registry[r]].registered
    /\ streams[registry[r]].st \in {"live", "closing"}

CancelCarriedOut(r) == cancel.st = "done" /\ cancel.run = r
Registered ==
  \A k \in Streams : streams[k].st = "live" =>
    \A r \in streams[k].registered : registry[r] = k \/ CancelCarriedOut(r)

ServerInv == Types /\ Rooted /\ Waiting /\ OneLive /\ Named /\ Registered

LEMMA ZeroIsNone == 0 \notin Runs /\ 0 \notin Streams
BY DEF Runs, Streams

LEMMA ServerInitially == Init => ServerInv
BY DEF Init, NoStream, Stream, StreamStage, ServerInv, Types, Rooted, Waiting, OneLive,
  Named, Registered

\* A step that leaves the server alone, but may send the cancel.
LEMMA NoServer ==
  ASSUME ServerInv, UNCHANGED <<root, streams, registry, suspended>>,
         cancel.st # "done" \/ cancel' = cancel,
         cancel' = [st |-> cancel'.st, run |-> cancel'.run, entry |-> cancel'.entry]
  PROVE  ServerInv'
BY DEF ServerInv, Types, Rooted, Waiting, OneLive, Named, Registered, CancelCarriedOut

\* A run that belongs to nobody yet joins a stream's root.
LEMMA Joins ==
  ASSUME ServerInv, NEW r \in Runs, root[r] = 0, NEW q \in Runs,
         root[q] = q, root' = [root EXCEPT ![r] = q],
         UNCHANGED <<streams, registry, suspended, cancel>>
  PROVE  ServerInv'
<1>1. Types'
  BY DEF ServerInv, Types
<1>2. r \notin {streams[k].root : k \in {j \in Streams : streams[j].st # "free"}}
  BY ZeroIsNone DEF ServerInv, Rooted
<1>3. \A k \in Streams : r \notin streams[k].registered
  BY ZeroIsNone DEF ServerInv, Rooted
<1>4. Rooted'
  BY <1>2, <1>3 DEF ServerInv, Types, Stream, Rooted
<1>5. Waiting'
  BY ZeroIsNone DEF ServerInv, Types, Waiting
<1> QED
  BY <1>1, <1>4, <1>5 DEF ServerInv, OneLive, Named, Registered, CancelCarriedOut

LEMMA Accepting ==
  ASSUME ServerInv, NEW k \in Streams, NEW r \in Runs, AcceptRun(k, r)
  PROVE  ServerInv'
<1>1. /\ root[r] = 0 /\ streams[k].st = "free" /\ root' = [root EXCEPT ![r] = r]
      /\ streams' = [streams EXCEPT ![k] = [NoStream EXCEPT !.st = "live", !.root = r]]
      /\ UNCHANGED <<registry, suspended, cancel>>
  BY DEF AcceptRun, NextRun, NextStream, Unused, Free
<1> DEFINE new == [NoStream EXCEPT !.st = "live", !.root = r]
<1>2. /\ new \in Stream /\ new.st = "live" /\ new.root = r /\ new.registered = {}
      /\ streams'[k] = new /\ \A j \in Streams : j # k => streams'[j] = streams[j]
  BY <1>1 DEF NoStream, Stream, StreamStage, ServerInv, Types
<1> HIDE DEF new
<1>3. \A j \in Streams : streams[j].st # "free" => streams[j].root # r
  BY <1>1, ZeroIsNone DEF ServerInv, Rooted
<1>4. \A j \in Streams : r \notin streams[j].registered
  BY <1>1, <1>3, ZeroIsNone DEF ServerInv, Rooted
<1>5. Types'
  BY <1>1, <1>2 DEF ServerInv, Types
<1>6. Rooted' /\ Waiting'
  <2>1. root'[r] = r /\ \A q \in Runs : q # r => root'[q] = root[q]
    BY <1>1 DEF ServerInv, Types
  <2>2. \A j \in Streams : streams[j].registered \subseteq Runs
    BY DEF ServerInv, Types, Stream
  <2>3. Waiting'
    BY <1>1, <2>1 DEF ServerInv, Waiting
  <2>4. ASSUME NEW j \in Streams, j # k
        PROVE  /\ streams[j].st = "free" => streams[j].registered = {}
               /\ streams[j].st # "free" =>
                    streams[j].root \in Runs /\ root'[streams[j].root] = streams[j].root
               /\ \A q \in streams[j].registered : root'[q] = streams[j].root
    BY <1>3, <1>4, <2>1, <2>2 DEF ServerInv, Rooted
  <2> QED
    BY <1>2, <2>1, <2>3, <2>4 DEF Rooted
<1>7. OneLive'
  BY <1>1, <1>2, <1>3 DEF ServerInv, OneLive
<1>8. Named'
  BY <1>1, <1>2 DEF ServerInv, Types, Named
<1>9. Registered'
  BY <1>1, <1>2 DEF ServerInv, Registered, CancelCarriedOut
<1> QED
  BY <1>5, <1>6, <1>7, <1>8, <1>9 DEF ServerInv

LEMMA Delegating ==
  ASSUME ServerInv, NEW k \in Streams, NEW r \in Runs, Delegates(k, r)
  PROVE  ServerInv'
<1>1. streams[k].root \in Runs /\ root[streams[k].root] = streams[k].root
  BY DEF Delegates, ServerInv, Rooted
<1>2. root[r] = 0 /\ UNCHANGED <<streams, registry, suspended, cancel>>
      /\ root' = [root EXCEPT ![r] = streams[k].root]
  BY DEF Delegates, NextRun, Unused
<1> QED
  BY <1>1, <1>2, Joins

\* A crumb is sent; the first one of its run registers the stream.
LEMMA Sending ==
  ASSUME ServerInv, NEW k \in Streams, NEW r \in Runs, Carries(k, r), Send(k, r),
         suspended' \subseteq suspended \cup {streams[k].root}, UNCHANGED <<root, cancel>>
  PROVE  ServerInv'
<1>1. /\ streams[k].st = "live" /\ root[r] = streams[k].root
      /\ streams' = [streams EXCEPT ![k].registered = @ \cup {r}]
      /\ registry' = IF r \in streams[k].registered THEN registry
                     ELSE [registry EXCEPT ![r] = k]
  BY DEF Carries, Send
<1>2. streams \in [Streams -> Stream]
  BY DEF ServerInv, Types
<1>3. /\ \A j \in Streams : streams'[j].st = streams[j].st /\ streams'[j].root = streams[j].root
      /\ \A j \in Streams : j # k => streams'[j] = streams[j]
      /\ streams'[k].registered = streams[k].registered \cup {r}
  BY <1>1, <1>2 DEF Stream
<1>4. streams' \in [Streams -> Stream]
  BY <1>1, <1>2 DEF Stream
<1>5. Types'
  BY <1>1, <1>4 DEF ServerInv, Types
<1>6. Rooted' /\ Waiting'
  BY <1>1, <1>2, <1>3 DEF ServerInv, Rooted, Waiting
<1>7. OneLive'
  BY <1>3 DEF ServerInv, OneLive
<1>8. Named'
  <2>1. CASE r \in streams[k].registered
    BY <1>1, <1>2, <1>3, <2>1 DEF ServerInv, Types, Named
  <2>2. CASE r \notin streams[k].registered
    <3>1. registry'[r] = k /\ \A q \in Runs : q # r => registry'[q] = registry[q]
      BY <1>1, <2>2 DEF ServerInv, Types
    <3> QED
      BY <1>1, <1>2, <1>3, <3>1 DEF ServerInv, Types, Named
  <2> QED
    BY <2>1, <2>2
<1>9. Registered'
  <2> SUFFICES ASSUME NEW j \in Streams, streams[j].st = "live",
                      NEW q \in streams'[j].registered
               PROVE  registry'[q] = j \/ CancelCarriedOut(q)
    BY <1>3 DEF Registered, CancelCarriedOut
  <2>1. q \in Runs
    BY <1>4 DEF Stream
  <2>2. CASE q = r
    <3>1. root[r] = streams[j].root
      BY <1>1, <1>3, <2>2 DEF ServerInv, Rooted
    <3>2. j = k
      BY <1>1, <3>1 DEF ServerInv, OneLive
    <3> QED
      BY <1>1, <2>2, <3>2 DEF ServerInv, Types, Registered
  <2>3. CASE q # r
    <3>1. registry'[q] = registry[q] /\ q \in streams[j].registered
      BY <1>1, <1>3, <2>1, <2>3 DEF ServerInv, Types
    <3> QED
      BY <3>1 DEF ServerInv, Registered
  <2> QED
    BY <2>2, <2>3
<1> QED
  BY <1>5, <1>6, <1>7, <1>8, <1>9 DEF ServerInv

LEMMA Resuming ==
  ASSUME ServerInv, NEW k \in Streams, NEW r \in Runs, ResumeElsewhere(k, r)
  PROVE  ServerInv'
<1> DEFINE new == [NoStream EXCEPT !.st = "live", !.root = r]
           later(j) == IF streams[j].root = r /\ streams[j].st = "live"
                       THEN [streams[j] EXCEPT !.st = "closing"] ELSE streams[j]
<1>1. /\ streams[k].st = "free" /\ suspended' \subseteq suspended /\ root[r] = r
      /\ UNCHANGED <<root, registry, cancel>>
      /\ streams' = [j \in Streams |-> IF j = k THEN new ELSE later(j)]
  BY DEF ResumeElsewhere, NextStream, Free, ServerInv, Waiting
<1>2. streams \in [Streams -> Stream]
  BY DEF ServerInv, Types
<1>3. new \in Stream /\ new.st = "live" /\ new.root = r /\ new.registered = {}
  BY DEF NoStream, Stream, StreamStage
<1>4. \A j \in Streams :
        /\ later(j) \in Stream
        /\ later(j).root = streams[j].root /\ later(j).registered = streams[j].registered
        /\ later(j).st = streams[j].st \/ (later(j).st = "closing" /\ streams[j].st = "live")
        /\ later(j).st = "live" => streams[j].root # r /\ streams[j].st = "live"
  BY <1>2 DEF Stream, StreamStage
<1> HIDE DEF new, later
<1>5. streams'[k] = new /\ \A j \in Streams : j # k => streams'[j] = later(j)
  BY <1>1
<1>6. Types'
  BY <1>1, <1>3, <1>4 DEF ServerInv, Types
<1>7. Rooted' /\ Waiting'
  BY <1>1, <1>3, <1>4, <1>5 DEF ServerInv, Rooted, Waiting
<1>8. OneLive'
  BY <1>3, <1>4, <1>5 DEF ServerInv, OneLive
<1>9. Named'
  BY <1>1, <1>3, <1>4, <1>5 DEF ServerInv, Types, Named
<1>10. Registered'
  BY <1>1, <1>3, <1>4, <1>5 DEF ServerInv, Registered, CancelCarriedOut
<1> QED
  BY <1>6, <1>7, <1>8, <1>9, <1>10 DEF ServerInv

LEMMA Closing ==
  ASSUME ServerInv, NEW k \in Streams, CloseStream(k)
  PROVE  ServerInv'
<1>1. /\ streams[k].st # "free" /\ UNCHANGED <<root, suspended, cancel>>
      /\ streams' = [streams EXCEPT ![k].st = "done"]
      /\ registry' = [r \in Runs |-> IF r \in Entries(k) THEN 0 ELSE registry[r]]
  BY DEF CloseStream, runVars
<1>2. streams \in [Streams -> Stream] /\ registry \in [Runs -> {0} \cup Streams]
  BY DEF ServerInv, Types
<1>3. /\ streams' \in [Streams -> Stream] /\ streams'[k].st = "done"
      /\ \A j \in Streams : /\ streams'[j].root = streams[j].root
                            /\ streams'[j].registered = streams[j].registered
                            /\ j # k => streams'[j] = streams[j]
  BY <1>1, <1>2 DEF Stream, StreamStage
<1>4. \A r \in Runs : IF registry[r] = k THEN registry'[r] = 0
                                         ELSE registry'[r] = registry[r]
  BY <1>1, <1>2, ZeroIsNone DEF Entries, ServerInv, Named
<1>5. Types'
  BY <1>1, <1>2, <1>3 DEF ServerInv, Types
<1>6. Rooted' /\ Waiting' /\ OneLive'
  BY <1>1, <1>3 DEF ServerInv, Rooted, Waiting, OneLive
<1>7. Named'
  BY <1>2, <1>3, <1>4 DEF ServerInv, Named
<1>8. Registered'
  <2> SUFFICES ASSUME NEW j \in Streams, j # k, streams[j].st = "live",
                      NEW q \in streams[j].registered
               PROVE  registry'[q] = j \/ CancelCarriedOut(q)
    BY <1>1, <1>3 DEF Registered, CancelCarriedOut
  <2>1. q \in Runs
    BY <1>2 DEF Stream
  <2> QED
    BY <1>4, <2>1 DEF ServerInv, Registered
<1> QED
  BY <1>5, <1>6, <1>7, <1>8 DEF ServerInv

\* The cancel takes its run's entry out of the registry, whichever stream's
\* controller it aborts.
LEMMA Cancelling ==
  ASSUME ServerInv, CancelAborts
  PROVE  ServerInv'
<1>1. /\ streams' = [streams EXCEPT ![cancel.entry].aborted = TRUE]
      /\ registry' = [registry EXCEPT ![cancel.run] = 0]
      /\ cancel.st = "authorizing" /\ cancel' = [cancel EXCEPT !.st = "done"]
      /\ UNCHANGED <<root, suspended>>
  BY DEF CancelAborts, runVars
<1>2. /\ streams \in [Streams -> Stream] /\ registry \in [Runs -> {0} \cup Streams]
      /\ cancel = [st |-> cancel.st, run |-> cancel.run, entry |-> cancel.entry]
  BY DEF ServerInv, Types
<1>3. /\ streams' \in [Streams -> Stream]
      /\ \A j \in Streams : /\ streams'[j].root = streams[j].root
                            /\ streams'[j].registered = streams[j].registered
                            /\ streams'[j].st = streams[j].st
  BY <1>1, <1>2 DEF Stream
<1>4. /\ cancel'.st = "done" /\ cancel'.run = cancel.run
      /\ cancel' = [st |-> cancel'.st, run |-> cancel'.run, entry |-> cancel'.entry]
  BY <1>1, <1>2
<1>5. registry' \in [Runs -> {0} \cup Streams]
      /\ \A r \in Runs : IF r = cancel.run THEN registry'[r] = 0
                                           ELSE registry'[r] = registry[r]
  BY <1>1, <1>2
<1>6. Types' /\ Rooted' /\ Waiting' /\ OneLive'
  BY <1>1, <1>3, <1>4, <1>5 DEF ServerInv, Types, Rooted, Waiting, OneLive
<1>7. Named'
  BY <1>2, <1>3, <1>5 DEF ServerInv, Named
<1>8. Registered'
  <2> SUFFICES ASSUME NEW j \in Streams, streams[j].st = "live",
                      NEW q \in streams[j].registered, q # cancel.run
               PROVE  registry'[q] = j
    BY <1>3, <1>4 DEF Registered, CancelCarriedOut
  <2>1. q \in Runs /\ registry[q] = j
    BY <1>1, <1>2 DEF Stream, ServerInv, Registered, CancelCarriedOut
  <2> QED
    BY <1>5, <2>1
<1> QED
  BY <1>6, <1>7, <1>8 DEF ServerInv

\* A caller that did not abort has not asked for a cancel.
Once == ~aborted => cancel.st = "none"

LEMMA CancelsOnce == Once /\ [Next]_vars => Once'
<1> SUFFICES ASSUME Once, [Next]_vars PROVE Once'
  OBVIOUS
<1>1. CASE UNCHANGED <<aborted, cancel>>
  BY <1>1 DEF Once
<1>2. CASE ServerAct
  BY <1>1, <1>2 DEF ServerAct, AcceptTail, TailSends, CancelLooksUp, CancelAborts, Suspends,
    CloseStream, AcceptRun, Delegates, Crumb, Ends, ResumeElsewhere, clientVars, Once
<1>3. CASE ClientAct \/ Refused \/ Drop
  BY <1>1, <1>3 DEF ClientAct, Connect, Read, Interrupted, Slept, CancelledConnecting,
    Refused, Drop, clientVars
<1>4. CASE Abort
  BY <1>4 DEF Abort, Once
<1> QED
  BY <1>1, <1>2, <1>3, <1>4 DEF Next, vars, clientVars

LEMMA ServerSteps == ServerInv /\ Once /\ [Next]_vars => ServerInv'
<1> SUFFICES ASSUME ServerInv, Once, [Next]_vars PROVE ServerInv'
  OBVIOUS
<1>1. cancel = [st |-> cancel.st, run |-> cancel.run, entry |-> cancel.entry]
  BY DEF ServerInv, Types
<1>2. CASE UNCHANGED <<root, streams, registry, suspended, cancel>>
  BY <1>1, <1>2, NoServer
<1>3. CASE AcceptTail \/ TailSends
  BY <1>2, <1>3 DEF AcceptTail, TailSends, runVars
<1>4. CASE CancelLooksUp
  <2>1. /\ UNCHANGED <<root, streams, registry, suspended>> /\ cancel.st = "sent"
        /\ \E st \in {"done", "authorizing"}, held \in {registry[cancel.run]} :
             cancel' = [cancel EXCEPT !.st = st, !.entry = held]
    BY <1>4 DEF CancelLooksUp, runVars
  <2>2. cancel' = [st |-> cancel'.st, run |-> cancel'.run, entry |-> cancel'.entry]
    BY <1>1, <2>1
  <2> QED
    BY <2>1, <2>2, NoServer
<1>5. CASE CancelAborts
  BY <1>5, Cancelling
<1>6. ASSUME NEW k \in Streams, Suspends(k) PROVE ServerInv'
  <2>1. /\ Carries(k, streams[k].root) /\ Send(k, streams[k].root)
        /\ suspended' = suspended \cup {streams[k].root} /\ UNCHANGED <<root, cancel>>
    BY <1>6 DEF Suspends
  <2>2. streams[k].root \in Runs
    BY <2>1 DEF Carries, ServerInv, Rooted
  <2> QED
    BY <2>1, <2>2, Sending
<1>7. ASSUME NEW k \in Streams, CloseStream(k) PROVE ServerInv'
  BY <1>7, Closing
<1>8. ASSUME NEW k \in Streams, NEW r \in Runs, AcceptRun(k, r) PROVE ServerInv'
  BY <1>8, Accepting
<1>9. ASSUME NEW k \in Streams, NEW r \in Runs, Delegates(k, r) PROVE ServerInv'
  BY <1>9, Delegating
<1>10. ASSUME NEW k \in Streams, NEW r \in Runs, Crumb(k, r) \/ Ends(k, r)
       PROVE  ServerInv'
  BY <1>10, Sending DEF Crumb, Ends
<1>11. ASSUME NEW k \in Streams, NEW r \in Runs, ResumeElsewhere(k, r)
       PROVE  ServerInv'
  BY <1>11, Resuming
<1>12. CASE ServerAct
  BY <1>3, <1>4, <1>5, <1>6, <1>7, <1>8, <1>9, <1>10, <1>11, <1>12 DEF ServerAct
<1>13. CASE ClientAct \/ Refused \/ Drop
  BY <1>2, <1>13 DEF ClientAct, Connect, Read, Interrupted, Slept, CancelledConnecting,
    Refused, Drop, runVars
<1>14. CASE Abort
  <2>1. /\ UNCHANGED <<root, streams, registry, suspended>>
        /\ \/ cancel' = [cancel EXCEPT !.st = "sent", !.run = runId]
           \/ cancel' = cancel
    BY <1>14 DEF Abort, runVars
  <2>2. cancel' = [st |-> cancel'.st, run |-> cancel'.run, entry |-> cancel'.entry]
    BY <1>1, <2>1
  <2>3. cancel.st # "done"
    BY <1>14 DEF Abort, Once
  <2> QED
    BY <2>1, <2>2, <2>3, NoServer
<1> QED
  BY <1>2, <1>12, <1>13, <1>14 DEF Next, vars, runVars

\* CancellableAlways: for any number of runs, streams, faults and retries, the
\* registry names no stream that is over, and the stream that carries a run can
\* be cancelled by it. (http-chunked transport.ts, streamCrumbs and the cancel
\* route.)
THEOREM CancellableAlways == Spec => []LiveIsCancellable
<1>1. ServerInv => LiveIsCancellable
  BY DEF ServerInv, Named, Registered, CancelCarriedOut, LiveIsCancellable
<1>2. Init => Once
  BY DEF Init, Once
<1> QED
  BY <1>1, <1>2, ServerInitially, CancelsOnce, ServerSteps, PTL DEF Spec

-----------------------------------------------------------------------------
(* What the caller gets.                                                   *)
(*                                                                         *)
(* Received and on the way, the crumbs are the first ones of every run, in *)
(* order: a stream's connection holds all that its live stream has sent of *)
(* its root's runs, a connection that asked for a run's rest holds its     *)
(* crumbs up to the position it sends from.  A dropped connection loses    *)
(* what was on the way, and then the last crumb received says where to go  *)
(* on.                                                                     *)

Frames == [run : Runs, seq : Nat \ {0}]
Told == got \o conn.wire

CTypes ==
  /\ got \in Seq(Frames) /\ len \in [Runs -> Nat]
  /\ runId \in {0} \cup Runs /\ lastSeq \in Nat
  /\ conn \in [st : {"none", "asked", "open", "closed", "broken"}, stream : {0} \cup Streams,
               run : {0} \cup Runs, pos : Nat, wire : Seq(Frames)]

\* The first crumbs of each run, in order; and these are n for run r.
InSteps(s) ==
  /\ \A i, j \in DOMAIN s : i < j /\ s[i].run = s[j].run => s[i].seq < s[j].seq
  /\ \A i \in DOMAIN s : \A n \in 1..s[i].seq :
       \E j \in 1..i : s[j] = [run |-> s[i].run, seq |-> n]
UpTo(s, r, n) ==
  /\ \A i \in DOMAIN s : s[i].run = r => s[i].seq <= n
  /\ n = 0 \/ \E i \in DOMAIN s : s[i] = [run |-> r, seq |-> n]

\* Only a posted run has crumbs.
Posted ==
  \A r \in Runs :
    /\ root[r] = 0 => len[r] = 0
    /\ root[r] # 0 => root[root[r]] = root[r]
Existing == \A i \in DOMAIN Told : Told[i].seq <= len[Told[i].run]
Position ==
  IF got = <<>> THEN runId = 0 /\ lastSeq = 0
  ELSE got[Len(got)] = [run |-> runId, seq |-> lastSeq]
AskedFor ==
  conn.st = "asked" => conn.wire = <<>> /\ (conn.run = 0 => got = <<>>)
OfOneRun ==
  conn.run # 0 => /\ conn.run = runId /\ conn.stream = 0
                  /\ \A i \in DOMAIN conn.wire : conn.wire[i].run = runId
                  /\ UpTo(Told, runId, conn.pos)
OfAStream ==
  conn.run = 0 /\ conn.st = "open" =>
    /\ conn.stream \in Streams /\ streams[conn.stream].st # "free"
    /\ streams[conn.stream].st = "live" =>
         \A r \in Runs : root[r] = streams[conn.stream].root => UpTo(Told, r, len[r])
Relays == pc = "returned" => runId \in over /\ lastSeq = len[runId]

ClientInv ==
  /\ CTypes /\ InSteps(Told) /\ Posted /\ Existing /\ Position
  /\ AskedFor /\ OfOneRun /\ OfAStream /\ Relays

\* Taking a crumb off the connection moves it, and a crumb sent comes last.
LEMMA HeadMoves ==
  ASSUME NEW S, NEW s \in Seq(S), NEW w \in Seq(S), w # <<>>
  PROVE  /\ Append(s, Head(w)) \in Seq(S) /\ Tail(w) \in Seq(S)
         /\ Append(s, Head(w)) \o Tail(w) = s \o w
<1>1. Len(w) > 0 /\ Head(w) = w[1] /\ Head(w) \in S
  OBVIOUS
<1>2. Append(s, Head(w)) \in Seq(S) /\ Tail(w) \in Seq(S)
  BY <1>1
<1>3. Len(Append(s, Head(w)) \o Tail(w)) = Len(s \o w)
  BY <1>1, <1>2
<1>4. ASSUME NEW i \in 1..Len(s \o w)
      PROVE  (Append(s, Head(w)) \o Tail(w))[i] = (s \o w)[i]
  BY <1>1, <1>2
<1>5. Append(s, Head(w)) \o Tail(w) \in Seq(S) /\ s \o w \in Seq(S)
  BY <1>2
<1> QED
  BY <1>2, <1>3, <1>4, <1>5, SeqEqual

LEMMA EndGrows ==
  ASSUME NEW S, NEW s \in Seq(S), NEW w \in Seq(S), NEW e \in S
  PROVE  /\ Append(w, e) \in Seq(S) /\ s \o w \in Seq(S)
         /\ s \o Append(w, e) = Append(s \o w, e)
<1>1. Append(w, e) \in Seq(S) /\ s \o w \in Seq(S)
  OBVIOUS
<1>2. s \o Append(w, e) \in Seq(S) /\ Append(s \o w, e) \in Seq(S)
  BY <1>1
<1>3. Len(s \o Append(w, e)) = Len(Append(s \o w, e))
  BY <1>1
<1>4. ASSUME NEW i \in 1..Len(Append(s \o w, e))
      PROVE  (s \o Append(w, e))[i] = Append(s \o w, e)[i]
  BY <1>1
<1> QED
  BY <1>1, <1>2, <1>3, <1>4, SeqEqual

LEMMA OldAndLast ==
  ASSUME NEW S, NEW s \in Seq(S), NEW e \in S
  PROVE  \A i \in DOMAIN Append(s, e) :
           Append(s, e)[i] = e \/ (i \in DOMAIN s /\ Append(s, e)[i] = s[i])
<1>1. /\ DOMAIN s = 1..Len(s) /\ Len(s) \in Nat /\ Len(Append(s, e)) = Len(s) + 1
      /\ DOMAIN Append(s, e) = 1..Len(Append(s, e)) /\ Append(s, e)[Len(s) + 1] = e
      /\ \A i \in 1..Len(s) : Append(s, e)[i] = s[i]
  OBVIOUS
<1>2. \A i \in 1..Len(Append(s, e)) : i \in 1..Len(s) \/ i = Len(s) + 1
  BY <1>1
<1> QED
  BY <1>1, <1>2

\* The next crumb of a run.
LEMMA NextInSteps ==
  ASSUME NEW s \in Seq(Frames), NEW r \in Runs, NEW n \in Nat, InSteps(s), UpTo(s, r, n)
  PROVE  LET t == Append(s, [run |-> r, seq |-> n + 1]) IN
         /\ t \in Seq(Frames) /\ InSteps(t) /\ UpTo(t, r, n + 1)
         /\ \A q \in Runs, m \in Nat : q # r /\ UpTo(s, q, m) => UpTo(t, q, m)
<1> DEFINE f == [run |-> r, seq |-> n + 1]
           t == Append(s, f)
<1>1. f \in Frames /\ f.run = r /\ f.seq = n + 1
  BY DEF Frames
<1>2. /\ t \in Seq(Frames) /\ DOMAIN s = 1..Len(s) /\ DOMAIN t = 1..(Len(s) + 1)
      /\ Len(s) \in Nat /\ t[Len(s) + 1] = f /\ \A i \in 1..Len(s) : t[i] = s[i]
  BY <1>1
<1>3. \A i \in DOMAIN s : s[i].seq \in Nat \ {0} /\ s[i].run \in Runs
  <2>1. \A i \in DOMAIN s : s[i] \in Frames
    OBVIOUS
  <2> QED
    BY <2>1 DEF Frames
<1> HIDE DEF f, t
<1>4. ASSUME NEW i \in DOMAIN t, NEW j \in DOMAIN t, i < j, t[i].run = t[j].run
      PROVE  t[i].seq < t[j].seq
  <2>1. i \in 1..Len(s) /\ t[i] = s[i]
    BY <1>2, <1>4
  <2>2. CASE j = Len(s) + 1
    BY <1>1, <1>2, <1>3, <1>4, <2>1, <2>2 DEF UpTo
  <2>3. CASE j # Len(s) + 1
    <3>1. j \in 1..Len(s) /\ t[j] = s[j]
      BY <1>2, <2>3
    <3> QED
      BY <1>2, <1>4, <2>1, <3>1 DEF InSteps
  <2> QED
    BY <2>2, <2>3
<1>5. ASSUME NEW i \in DOMAIN t, NEW m \in 1..t[i].seq
      PROVE  \E j \in 1..i : t[j] = [run |-> t[i].run, seq |-> m]
  <2>1. CASE i \in 1..Len(s)
    <3>1. t[i] = s[i]
      BY <1>2, <2>1
    <3>2. PICK j \in 1..i : s[j] = [run |-> s[i].run, seq |-> m]
      BY <1>2, <1>5, <2>1, <3>1 DEF InSteps
    <3> QED
      BY <1>2, <2>1, <3>1, <3>2
  <2>2. CASE i = Len(s) + 1 /\ m = n + 1
    BY <1>1, <1>2, <2>2 DEF f
  <2>3. CASE i = Len(s) + 1 /\ m # n + 1
    <3>1. t[i] = f /\ m \in 1..n /\ n # 0
      BY <1>1, <1>2, <1>5, <2>3
    <3>2. PICK k \in DOMAIN s : s[k] = [run |-> r, seq |-> n]
      BY <3>1 DEF UpTo
    <3>3. m \in 1..s[k].seq /\ s[k].run = r
      BY <3>1, <3>2
    <3>4. PICK j \in 1..k : s[j] = [run |-> r, seq |-> m]
      BY <3>3 DEF InSteps
    <3> QED
      BY <1>1, <1>2, <2>3, <3>1, <3>4
  <2> QED
    BY <1>2, <2>1, <2>2, <2>3
<1>6. InSteps(t)
  BY <1>4, <1>5 DEF InSteps
<1>7. UpTo(t, r, n + 1)
  <2>1. \A i \in DOMAIN t : t[i].run = r => t[i].seq <= n + 1
    <3> SUFFICES ASSUME NEW i \in DOMAIN t, t[i].run = r PROVE t[i].seq <= n + 1
      OBVIOUS
    <3>1. CASE i \in DOMAIN s
      BY <1>2, <1>3, <3>1 DEF UpTo
    <3>2. CASE i \notin DOMAIN s
      BY <1>1, <1>2, <3>2
    <3> QED
      BY <3>1, <3>2
  <2> QED
    BY <1>2, <2>1 DEF UpTo, f
<1>8. ASSUME NEW q \in Runs, NEW m \in Nat, q # r, UpTo(s, q, m)
      PROVE  UpTo(t, q, m)
  <2>1. \A i \in DOMAIN t : t[i].run = q => i \in DOMAIN s /\ t[i] = s[i]
    BY <1>1, <1>2, <1>8
  <2>2. \A i \in DOMAIN s : i \in DOMAIN t /\ t[i] = s[i]
    BY <1>2
  <2> QED
    BY <1>8, <2>1, <2>2 DEF UpTo
<1> QED
  BY <1>2, <1>6, <1>7, <1>8 DEF t, f

\* What was received is in order by itself, and its last crumb says how far.
LEMMA ReceivedInSteps ==
  ASSUME NEW s \in Seq(Frames), NEW w \in Seq(Frames), InSteps(s \o w)
  PROVE  InSteps(s)
<1>1. /\ DOMAIN s = 1..Len(s) /\ DOMAIN (s \o w) = 1..(Len(s) + Len(w))
      /\ Len(s) \in Nat /\ Len(w) \in Nat /\ \A i \in 1..Len(s) : (s \o w)[i] = s[i]
  OBVIOUS
<1>2. \A i, j \in DOMAIN s : i < j /\ s[i].run = s[j].run => s[i].seq < s[j].seq
  <2> SUFFICES ASSUME NEW i \in DOMAIN s, NEW j \in DOMAIN s, i < j, s[i].run = s[j].run
               PROVE  s[i].seq < s[j].seq
    OBVIOUS
  <2>1. /\ i \in DOMAIN (s \o w) /\ j \in DOMAIN (s \o w)
        /\ (s \o w)[i] = s[i] /\ (s \o w)[j] = s[j]
    BY <1>1
  <2> HIDE DEF Frames
  <2> QED
    BY <2>1 DEF InSteps
<1>3. ASSUME NEW i \in DOMAIN s, NEW n \in 1..s[i].seq
      PROVE  \E j \in 1..i : s[j] = [run |-> s[i].run, seq |-> n]
  <2>1. i \in DOMAIN (s \o w) /\ (s \o w)[i] = s[i]
    BY <1>1
  <2>2. PICK j \in 1..i : (s \o w)[j] = [run |-> s[i].run, seq |-> n]
    BY <2>1 DEF InSteps
  <2>3. j \in 1..Len(s)
    BY <1>1
  <2> QED
    BY <1>1, <2>2, <2>3
<1> QED
  BY <1>2, <1>3 DEF InSteps

LEMMA LastSaysHowFar ==
  ASSUME NEW s \in Seq(Frames), s # <<>>, InSteps(s)
  PROVE  UpTo(s, s[Len(s)].run, s[Len(s)].seq)
<1> DEFINE l == Len(s)
<1>1. l \in Nat /\ l \in DOMAIN s /\ DOMAIN s = 1..l
  OBVIOUS
<1>2. s[l] = [run |-> s[l].run, seq |-> s[l].seq]
      /\ \A i \in DOMAIN s : s[i].seq \in Nat
  <2>1. \A i \in DOMAIN s : s[i] \in Frames
    OBVIOUS
  <2> QED
    BY <1>1, <2>1 DEF Frames
<1>3. \A i \in DOMAIN s : s[i].run = s[l].run => s[i].seq <= s[l].seq
  <2> SUFFICES ASSUME NEW i \in DOMAIN s, s[i].run = s[l].run PROVE s[i].seq <= s[l].seq
    OBVIOUS
  <2>1. CASE i = l
    BY <1>1, <1>2, <2>1
  <2>2. CASE i < l
    <3>1. s[i].seq < s[l].seq
      BY <1>1, <2>2 DEF InSteps
    <3> QED
      BY <1>1, <1>2, <3>1
  <2> QED
    BY <1>1, <2>1, <2>2
<1> QED
  BY <1>1, <1>2, <1>3 DEF UpTo

LEMMA ToldIsSeq == CTypes => Told \in Seq(Frames)
BY DEF CTypes, Told

LEMMA ClientInitially == Init => ClientInv
<1> SUFFICES ASSUME Init PROVE ClientInv
  OBVIOUS
<1>1. /\ got = <<>> /\ conn = NoConn /\ Told = <<>> /\ runId = 0 /\ lastSeq = 0
      /\ root = [r \in Runs |-> 0] /\ len = [r \in Runs |-> 0] /\ pc = "connecting"
  BY DEF Init, Told, NoConn
<1>2. CTypes
  BY <1>1 DEF CTypes, NoConn
<1> QED
  BY <1>1, <1>2 DEF ClientInv, InSteps, Posted, Existing, Position, AskedFor, OfOneRun,
    OfAStream, Relays, NoConn

\* A step of the streams alone: none becomes live that the connection hangs on.
StreamsMove ==
  \A k \in Streams : streams[k].st # "free" =>
    /\ streams'[k].st # "free" /\ streams'[k].root = streams[k].root
    /\ streams'[k].st = "live" => streams[k].st = "live"

LEMMA StreamsOnly ==
  ASSUME ClientInv, StreamsMove, UNCHANGED <<got, conn, runId, lastSeq, len, root, over, pc>>
  PROVE  ClientInv'
<1>1. Told' = Told
  BY DEF Told
<1>2. OfAStream'
  BY <1>1 DEF ClientInv, OfAStream, StreamsMove, UpTo
<1> QED
  BY <1>1, <1>2 DEF ClientInv, CTypes, InSteps, Posted, Existing, Position, AskedFor,
    OfOneRun, UpTo, Relays

\* The connection is lost, or over, and with it perhaps what was on the way.
LEMMA Losing ==
  ASSUME ClientInv, conn' \in {NoConn, [NoConn EXCEPT !.st = "broken"]},
         UNCHANGED <<got, runId, lastSeq, len, root, over>>,
         pc' = "returned" => pc = "returned"
  PROVE  ClientInv'
<1> PICK now \in {"none", "broken"} :
      conn' = [st |-> now, stream |-> 0, run |-> 0, pos |-> 0, wire |-> <<>>]
  BY DEF NoConn
<1>1. /\ conn'.run = 0 /\ conn'.st \in {"none", "broken"} /\ conn'.wire = <<>>
      /\ conn'.stream = 0 /\ conn'.pos = 0
  OBVIOUS
<1>2. got \in Seq(Frames) /\ conn.wire \in Seq(Frames)
  BY DEF ClientInv, CTypes
<1>3. /\ DOMAIN got = 1..Len(got) /\ DOMAIN Told = 1..(Len(got) + Len(conn.wire))
      /\ Len(got) \in Nat /\ Len(conn.wire) \in Nat
      /\ \A i \in 1..Len(got) : Told[i] = got[i]
  BY <1>2 DEF Told
<1>4. Told' = got
  BY <1>1, <1>2 DEF Told
<1>5. CTypes'
  <2>1. <<>> \in Seq(Frames)
    OBVIOUS
  <2>2. conn' \in [st : {"none", "asked", "open", "closed", "broken"},
                   stream : {0} \cup Streams, run : {0} \cup Runs, pos : Nat,
                   wire : Seq(Frames)]
    BY <2>1
  <2> QED
    BY <2>2 DEF ClientInv, CTypes
<1>6. InSteps(got)
  BY <1>2, ReceivedInSteps DEF ClientInv, Told
<1>7. Existing'
  <2> SUFFICES ASSUME NEW i \in DOMAIN got PROVE got[i].seq <= len[got[i].run]
    BY <1>4 DEF Existing
  <2> QED
    BY <1>3 DEF ClientInv, Existing
<1>8. InSteps(Told)'
  BY <1>4, <1>6 DEF InSteps
<1>9. Posted' /\ Position' /\ AskedFor' /\ OfOneRun' /\ OfAStream' /\ Relays'
  BY <1>1 DEF ClientInv, Posted, Position, AskedFor, OfOneRun, OfAStream, Relays
<1> QED
  BY <1>5, <1>7, <1>8, <1>9 DEF ClientInv

\* The request: a post of a new run, or for the rest of the one that is known.
LEMMA Connecting ==
  ASSUME ClientInv, Connect
  PROVE  ClientInv'
<1>1. /\ conn' = [NoConn EXCEPT !.st = "asked", !.run = runId, !.pos = lastSeq]
      /\ UNCHANGED <<got, runId, lastSeq, len, root, over>> /\ pc' = "reading"
  BY DEF Connect, LastEventId, runVars
<1>2. /\ conn' = [st |-> "asked", stream |-> 0, run |-> runId, pos |-> lastSeq,
                  wire |-> <<>>]
      /\ conn'.st = "asked" /\ conn'.stream = 0 /\ conn'.run = runId
      /\ conn'.pos = lastSeq /\ conn'.wire = <<>>
  BY <1>1 DEF NoConn
<1>3. /\ got \in Seq(Frames) /\ conn.wire \in Seq(Frames) /\ runId \in {0} \cup Runs
      /\ lastSeq \in Nat
  BY DEF ClientInv, CTypes
<1>4. /\ DOMAIN got = 1..Len(got) /\ DOMAIN Told = 1..(Len(got) + Len(conn.wire))
      /\ Len(got) \in Nat /\ Len(conn.wire) \in Nat
      /\ \A i \in 1..Len(got) : Told[i] = got[i]
  BY <1>3 DEF Told
<1>5. Told' = got
  BY <1>1, <1>2, <1>3 DEF Told
<1>6. CTypes'
  <2>1. <<>> \in Seq(Frames)
    OBVIOUS
  <2> QED
    BY <1>1, <1>2, <1>3, <2>1 DEF ClientInv, CTypes
<1>7. InSteps(got)
  BY <1>3, ReceivedInSteps DEF ClientInv, Told
<1>8. Existing'
  <2> SUFFICES ASSUME NEW i \in DOMAIN got PROVE got[i].seq <= len[got[i].run]
    BY <1>1, <1>5 DEF Existing
  <2> QED
    BY <1>4 DEF ClientInv, Existing
<1>9. InSteps(Told)'
  BY <1>5, <1>7 DEF InSteps
<1>10. OfOneRun'
  <2> SUFFICES ASSUME runId # 0 PROVE UpTo(got, runId, lastSeq)
    BY <1>1, <1>2, <1>5 DEF OfOneRun, UpTo
  <2>1. got # <<>> /\ got[Len(got)] = [run |-> runId, seq |-> lastSeq]
    BY DEF ClientInv, Position
  <2>2. got[Len(got)].run = runId /\ got[Len(got)].seq = lastSeq
    BY <2>1
  <2>3. UpTo(got, got[Len(got)].run, got[Len(got)].seq)
    BY <1>3, <1>7, <2>1, LastSaysHowFar
  <2> QED
    BY <2>2, <2>3
<1>11. AskedFor'
  <2>1. runId = 0 => got = <<>>
    <3> SUFFICES ASSUME got # <<>> PROVE runId # 0
      OBVIOUS
    <3>1. got[Len(got)] \in Frames /\ got[Len(got)].run = runId
      BY <1>3, <1>4 DEF ClientInv, Position
    <3> QED
      BY <3>1, ZeroIsNone DEF Frames
  <2> QED
    BY <1>1, <1>2, <2>1 DEF AskedFor
<1>12. Posted' /\ Position' /\ OfAStream' /\ Relays'
  BY <1>1, <1>2 DEF ClientInv, Posted, Position, OfAStream, Relays
<1> QED
  BY <1>6, <1>8, <1>9, <1>10, <1>11, <1>12 DEF ClientInv

\* A crumb is taken off the connection, which ends with the end of a run.
LEMMA Reading ==
  ASSUME ClientInv, Read
  PROVE  ClientInv'
<1> DEFINE f == Head(conn.wire)
<1>1. /\ conn.wire # <<>> /\ runId' = f.run /\ lastSeq' = f.seq /\ got' = Append(got, f)
      /\ UNCHANGED <<len, root, over, streams>>
      /\ \/ Terminal(f) /\ pc' = "returned" /\ conn' = NoConn
         \/ pc' = "reading" /\ conn' = [conn EXCEPT !.wire = Tail(@)]
  BY DEF Read, runVars
<1>2. /\ got \in Seq(Frames) /\ conn.wire \in Seq(Frames) /\ len \in [Runs -> Nat]
      /\ conn \in [st : {"none", "asked", "open", "closed", "broken"}, stream : {0} \cup Streams,
                   run : {0} \cup Runs, pos : Nat, wire : Seq(Frames)]
  BY DEF ClientInv, CTypes
<1>3. f = conn.wire[1] /\ f \in Frames /\ 1 \in DOMAIN conn.wire
  BY <1>1, <1>2
<1>4. /\ got' \in Seq(Frames) /\ Tail(conn.wire) \in Seq(Frames)
      /\ got' \o Tail(conn.wire) = Told
  BY <1>1, <1>2, HeadMoves DEF Told
<1>5. f = [run |-> f.run, seq |-> f.seq] /\ f.run \in Runs /\ f.seq \in Nat
  BY <1>3 DEF Frames
<1>6. Posted' /\ Position'
  <2>1. got' # <<>> /\ got'[Len(got')] = f
    <3> HIDE DEF f
    <3> QED
      BY <1>1, <1>2, <1>3
  <2> QED
    BY <1>1, <1>5, <2>1 DEF ClientInv, Posted, Position
<1>7. CASE pc' = "reading" /\ conn' = [conn EXCEPT !.wire = Tail(@)]
  <2>1. /\ conn'.wire = Tail(conn.wire) /\ conn'.st = conn.st /\ conn'.run = conn.run
        /\ conn'.pos = conn.pos /\ conn'.stream = conn.stream
        /\ conn' \in [st : {"none", "asked", "open", "closed", "broken"},
                      stream : {0} \cup Streams, run : {0} \cup Runs, pos : Nat,
                      wire : Seq(Frames)]
    BY <1>2, <1>4, <1>7
  <2>2. Told' = Told
    BY <1>4, <2>1 DEF Told
  <2>3. CTypes'
    BY <1>1, <1>2, <1>4, <1>5, <2>1 DEF CTypes
  <2>4. InSteps(Told)' /\ Existing' /\ OfAStream'
    BY <1>1, <2>1, <2>2 DEF ClientInv, InSteps, Existing, OfAStream, UpTo
  <2>5. AskedFor' /\ Relays'
    BY <1>1, <1>7, <2>1 DEF ClientInv, AskedFor, Relays
  <2>6. OfOneRun'
    <3> SUFFICES ASSUME conn.run # 0 PROVE OfOneRun'
      BY <2>1 DEF OfOneRun
    <3>1. f.run = runId
      BY <1>3 DEF ClientInv, OfOneRun
    <3>2. \A i \in DOMAIN Tail(conn.wire) : Tail(conn.wire)[i].run = runId
      <4> SUFFICES ASSUME NEW i \in DOMAIN Tail(conn.wire) PROVE Tail(conn.wire)[i].run = runId
        OBVIOUS
      <4>1. i + 1 \in DOMAIN conn.wire /\ Tail(conn.wire)[i] = conn.wire[i + 1]
        BY <1>1, <1>2
      <4> QED
        BY <4>1 DEF ClientInv, OfOneRun
    <3> QED
      BY <1>1, <2>1, <2>2, <3>1, <3>2 DEF ClientInv, OfOneRun, UpTo
  <2> QED
    BY <1>6, <2>3, <2>4, <2>5, <2>6 DEF ClientInv
<1>8. CASE Terminal(f) /\ pc' = "returned" /\ conn' = NoConn
  <2>1. /\ conn'.wire = <<>> /\ conn'.st = "none" /\ conn'.run = 0
        /\ conn' = [st |-> "none", stream |-> 0, run |-> 0, pos |-> 0, wire |-> <<>>]
    BY <1>8 DEF NoConn
  <2>2. Told' = got'
    BY <1>4, <2>1 DEF Told
  <2>3. CTypes'
    <3>1. <<>> \in Seq(Frames)
      OBVIOUS
    <3> QED
      BY <1>1, <1>2, <1>4, <1>5, <2>1, <3>1 DEF CTypes
  <2>4. InSteps(got')
    BY <1>4, ReceivedInSteps DEF ClientInv
  <2>5. InSteps(Told)'
    BY <2>2, <2>4 DEF InSteps
  <2>6. Existing'
    <3> SUFFICES ASSUME NEW i \in DOMAIN got' PROVE got'[i].seq <= len[got'[i].run]
      BY <1>1, <2>2 DEF Existing
    <3>1. i \in DOMAIN Told /\ Told[i] = got'[i]
      <4>1. /\ DOMAIN got' = 1..Len(got') /\ Len(got') \in Nat /\ Len(Tail(conn.wire)) \in Nat
            /\ DOMAIN (got' \o Tail(conn.wire)) = 1..(Len(got') + Len(Tail(conn.wire)))
            /\ \A j \in 1..Len(got') : (got' \o Tail(conn.wire))[j] = got'[j]
        BY <1>4
      <4> QED
        BY <1>4, <4>1
    <3> QED
      BY <3>1 DEF ClientInv, Existing
  <2>7. AskedFor' /\ OfOneRun' /\ OfAStream' /\ Relays'
    BY <1>1, <1>8, <2>1 DEF AskedFor, OfOneRun, OfAStream, Relays, Terminal
  <2> QED
    BY <1>6, <2>3, <2>5, <2>6, <2>7 DEF ClientInv
<1> QED
  BY <1>1, <1>7, <1>8

\* The request is accepted: as a run of its own, of which nothing was told ...
LEMMA Posting ==
  ASSUME ServerInv, ClientInv, NEW k \in Streams, NEW r \in Runs, AcceptRun(k, r)
  PROVE  ClientInv'
<1> DEFINE new == [NoStream EXCEPT !.st = "live", !.root = r]
<1>1. /\ conn.st = "asked" /\ conn.run = 0 /\ root[r] = 0 /\ streams[k].st = "free"
      /\ root' = [root EXCEPT ![r] = r] /\ streams' = [streams EXCEPT ![k] = new]
      /\ conn' = [conn EXCEPT !.st = "open", !.stream = k]
      /\ UNCHANGED <<got, runId, lastSeq, pc, len, over>>
  BY DEF AcceptRun, NextRun, NextStream, Unused, Free, clientVars
<1>2. streams \in [Streams -> Stream] /\ root \in [Runs -> {0} \cup Runs]
  BY DEF ServerInv, Types
<1>3. streams'[k].st = "live" /\ streams'[k].root = r
  BY <1>1, <1>2 DEF NoStream, Stream
<1> HIDE DEF new
<1>4. conn \in [st : {"none", "asked", "open", "closed", "broken"}, stream : {0} \cup Streams,
                run : {0} \cup Runs, pos : Nat, wire : Seq(Frames)]
  BY DEF ClientInv, CTypes
<1>5. /\ conn'.st = "open" /\ conn'.stream = k /\ conn'.run = 0 /\ conn'.wire = conn.wire
      /\ conn' \in [st : {"none", "asked", "open", "closed", "broken"},
                    stream : {0} \cup Streams, run : {0} \cup Runs, pos : Nat,
                    wire : Seq(Frames)]
  BY <1>1, <1>4
<1>6. got = <<>> /\ conn.wire = <<>> /\ Told = <<>> /\ Told' = <<>>
  BY <1>1, <1>5 DEF ClientInv, AskedFor, Told
<1>7. \A q \in Runs : q # r => root[q] # r
  BY <1>1, ZeroIsNone DEF ClientInv, Posted
<1>8. Posted'
  <2>1. root'[r] = r /\ \A q \in Runs : q # r => root'[q] = root[q]
    BY <1>1, <1>2
  <2> QED
    BY <1>1, <1>2, <1>7, <2>1, ZeroIsNone DEF ClientInv, Posted
<1>9. OfAStream'
  <2> SUFFICES ASSUME NEW q \in Runs, root'[q] = r PROVE UpTo(<<>>, q, len[q])
    BY <1>1, <1>3, <1>5, <1>6 DEF OfAStream, UpTo
  <2>1. q = r /\ len[r] = 0
    BY <1>1, <1>2, <1>7 DEF ClientInv, Posted
  <2> QED
    BY <2>1 DEF UpTo
<1>10. CTypes' /\ InSteps(Told)' /\ Existing' /\ Position' /\ AskedFor' /\ OfOneRun' /\ Relays'
  BY <1>1, <1>5, <1>6
     DEF ClientInv, CTypes, InSteps, Existing, Position, AskedFor, OfOneRun, Relays
<1> QED
  BY <1>8, <1>9, <1>10 DEF ClientInv

\* ... or for the rest of one; and the response may end.
LEMMA Answering ==
  ASSUME ClientInv, NEW st \in {"open", "closed"}, conn' = [conn EXCEPT !.st = st],
         conn.run = 0 => st = "closed",
         UNCHANGED <<got, runId, lastSeq, pc, len, over, root>>
  PROVE  ClientInv'
<1>1. conn \in [st : {"none", "asked", "open", "closed", "broken"}, stream : {0} \cup Streams,
                run : {0} \cup Runs, pos : Nat, wire : Seq(Frames)]
  BY DEF ClientInv, CTypes
<1>2. /\ conn'.st = st /\ conn'.stream = conn.stream /\ conn'.run = conn.run
      /\ conn'.wire = conn.wire /\ conn'.pos = conn.pos
      /\ conn' \in [st : {"none", "asked", "open", "closed", "broken"},
                    stream : {0} \cup Streams, run : {0} \cup Runs, pos : Nat,
                    wire : Seq(Frames)]
  BY <1>1
<1>3. Told' = Told
  BY <1>2 DEF Told
<1> QED
  BY <1>2, <1>3 DEF ClientInv, CTypes, InSteps, Posted, Existing, Position, AskedFor,
    OfOneRun, OfAStream, UpTo, Relays

\* The next crumb of a run is put on the connection.
LEMMA NextIsTold ==
  ASSUME ClientInv, NEW r \in Runs, NEW n \in Nat, UpTo(Told, r, n),
         conn'.wire = Append(conn.wire, [run |-> r, seq |-> n + 1]), UNCHANGED got
  PROVE  /\ conn'.wire \in Seq(Frames) /\ Told' \in Seq(Frames) /\ InSteps(Told')
         /\ UpTo(Told', r, n + 1)
         /\ \A q \in Runs, m \in Nat : q # r /\ UpTo(Told, q, m) => UpTo(Told', q, m)
         /\ \A i \in DOMAIN Told' :
              Told'[i] = [run |-> r, seq |-> n + 1] \/ (i \in DOMAIN Told /\ Told'[i] = Told[i])
         /\ \A i \in DOMAIN conn'.wire :
              conn'.wire[i].run = r
                \/ (i \in DOMAIN conn.wire /\ conn'.wire[i] = conn.wire[i])
<1> DEFINE f == [run |-> r, seq |-> n + 1]
<1>1. got \in Seq(Frames) /\ conn.wire \in Seq(Frames) /\ Told \in Seq(Frames)
  BY DEF ClientInv, CTypes, Told
<1>2. f \in Frames
  BY DEF Frames
<1>3. Told' = Append(Told, f) /\ conn'.wire \in Seq(Frames)
  BY <1>1, <1>2, EndGrows DEF Told
<1>4. InSteps(Told)
  BY DEF ClientInv
<1>5. /\ Append(Told, f) \in Seq(Frames) /\ InSteps(Append(Told, f))
      /\ UpTo(Append(Told, f), r, n + 1)
      /\ \A q \in Runs, m \in Nat :
           q # r /\ UpTo(Told, q, m) => UpTo(Append(Told, f), q, m)
  BY <1>1, <1>4, NextInSteps
<1>6. \A i \in DOMAIN Append(Told, f) :
        Append(Told, f)[i] = f \/ (i \in DOMAIN Told /\ Append(Told, f)[i] = Told[i])
  BY <1>1, <1>2, OldAndLast
<1>7. \A i \in DOMAIN conn'.wire :
        conn'.wire[i] = f \/ (i \in DOMAIN conn.wire /\ conn'.wire[i] = conn.wire[i])
  BY <1>1, <1>2, OldAndLast
<1>8. f.run = r
  OBVIOUS
<1> HIDE DEF f
<1> QED
  BY <1>3, <1>5, <1>6, <1>7, <1>8 DEF f

\* A posted run's stream sends a crumb.
LEMMA Streaming ==
  ASSUME ServerInv, ClientInv, NEW k \in Streams, NEW r \in Runs, Carries(k, r), Open(r),
         Send(k, r), UNCHANGED <<got, runId, lastSeq, pc, root>>,
         over' \in {over, over \cup {r}}
  PROVE  ClientInv'
<1>1. /\ streams[k].st = "live" /\ root[r] = streams[k].root /\ r \notin over
      /\ len' = [len EXCEPT ![r] = @ + 1]
      /\ streams' = [streams EXCEPT ![k].registered = @ \cup {r}]
  BY DEF Carries, Send, Open
<1>2. streams \in [Streams -> Stream] /\ root \in [Runs -> {0} \cup Runs] /\ len \in [Runs -> Nat]
  BY DEF ServerInv, Types, ClientInv, CTypes
<1>3. /\ len' \in [Runs -> Nat] /\ len'[r] = len[r] + 1 /\ len[r] \in Nat
      /\ \A q \in Runs : q # r => len'[q] = len[q]
      /\ \A q \in Runs : len[q] <= len'[q]
  BY <1>1, <1>2
<1>4. \A j \in Streams : streams'[j].st = streams[j].st /\ streams'[j].root = streams[j].root
  BY <1>1, <1>2 DEF Stream
<1>5. root[r] # 0
  BY <1>1, ZeroIsNone DEF ServerInv, Rooted
<1>6. Posted'
  BY <1>3, <1>5 DEF ClientInv, Posted
<1>7. Position'
  BY DEF ClientInv, Position
<1>8. Relays'
  BY <1>1, <1>2 DEF ClientInv, Relays
<1>9. conn \in [st : {"none", "asked", "open", "closed", "broken"}, stream : {0} \cup Streams,
                run : {0} \cup Runs, pos : Nat, wire : Seq(Frames)]
  BY DEF ClientInv, CTypes
<1>10. CASE conn.st = "open" /\ conn.stream = k
  <2>1. /\ conn.run = 0 /\ UpTo(Told, r, len[r])
        /\ \A q \in Runs : root[q] = streams[k].root => UpTo(Told, q, len[q])
    BY <1>1, <1>10, ZeroIsNone DEF ClientInv, OfOneRun, OfAStream
  <2>2. conn' = [conn EXCEPT !.wire = Append(@, [run |-> r, seq |-> len[r] + 1])]
    BY <1>10 DEF Send, Frame
  <2>3. /\ conn'.wire = Append(conn.wire, [run |-> r, seq |-> len[r] + 1])
        /\ conn'.st = "open" /\ conn'.stream = k /\ conn'.run = 0 /\ conn'.pos = conn.pos
    BY <1>9, <1>10, <2>1, <2>2
  <2>4. /\ conn'.wire \in Seq(Frames) /\ Told' \in Seq(Frames) /\ InSteps(Told')
        /\ UpTo(Told', r, len[r] + 1)
        /\ \A q \in Runs, m \in Nat : q # r /\ UpTo(Told, q, m) => UpTo(Told', q, m)
        /\ \A i \in DOMAIN Told' :
             \/ Told'[i] = [run |-> r, seq |-> len[r] + 1]
             \/ i \in DOMAIN Told /\ Told'[i] = Told[i]
    BY <1>3, <2>1, <2>3, NextIsTold
  <2>5. CTypes'
    <3>1. conn' \in [st : {"none", "asked", "open", "closed", "broken"},
                     stream : {0} \cup Streams, run : {0} \cup Runs, pos : Nat,
                     wire : Seq(Frames)]
      BY <1>9, <2>2, <2>3, <2>4
    <3> QED
      BY <1>3, <3>1 DEF ClientInv, CTypes
  <2>6. InSteps(Told)'
    BY <2>4 DEF InSteps
  <2>7. Existing'
    <3> SUFFICES ASSUME NEW i \in DOMAIN Told' PROVE Told'[i].seq <= len'[Told'[i].run]
      BY DEF Existing
    <3>1. CASE Told'[i] = [run |-> r, seq |-> len[r] + 1]
      BY <1>3, <3>1
    <3>2. CASE i \in DOMAIN Told /\ Told'[i] = Told[i]
      <4>1. Told[i] \in Frames /\ Told[i].seq <= len[Told[i].run]
        BY <3>2, ToldIsSeq DEF ClientInv, Existing
      <4>2. Told[i].run \in Runs /\ Told[i].seq \in Nat
        BY <4>1 DEF Frames
      <4> QED
        BY <1>2, <1>3, <3>2, <4>1, <4>2
    <3> QED
      BY <2>4, <3>1, <3>2
  <2>8. OfAStream'
    <3>1. \A q \in Runs : root[q] = streams[k].root => UpTo(Told', q, len'[q])
      BY <1>2, <1>3, <2>1, <2>4
    <3>2. (\A q \in Runs : root[q] = streams[conn.stream].root => UpTo(Told, q, len[q]))'
      BY <1>4, <2>3, <3>1 DEF UpTo
    <3> QED
      BY <1>1, <1>4, <2>3, <3>2 DEF OfAStream
  <2>9. AskedFor' /\ OfOneRun'
    BY <2>3 DEF AskedFor, OfOneRun
  <2> QED
    BY <1>6, <1>7, <1>8, <2>5, <2>6, <2>7, <2>8, <2>9 DEF ClientInv
<1>11. CASE ~(conn.st = "open" /\ conn.stream = k)
  <2>1. conn' = conn /\ Told' = Told
    BY <1>11 DEF Send, Told
  <2>2. CTypes' /\ InSteps(Told)' /\ AskedFor' /\ OfOneRun'
    BY <1>3, <2>1 DEF ClientInv, CTypes, InSteps, AskedFor, OfOneRun, UpTo
  <2>3. Existing'
    <3> SUFFICES ASSUME NEW i \in DOMAIN Told PROVE Told[i].seq <= len'[Told[i].run]
      BY <2>1 DEF Existing
    <3>1. Told[i] \in Frames /\ Told[i].seq <= len[Told[i].run]
      BY ToldIsSeq DEF ClientInv, Existing
    <3>2. Told[i].run \in Runs /\ Told[i].seq \in Nat
      BY <3>1 DEF Frames
    <3> QED
      BY <1>2, <1>3, <3>1, <3>2
  <2>4. OfAStream'
    <3> SUFFICES ASSUME conn.run = 0, conn.st = "open" PROVE OfAStream'
      BY <2>1 DEF OfAStream
    <3>1. /\ conn.stream \in Streams /\ streams[conn.stream].st # "free"
          /\ streams[conn.stream].st = "live" =>
               \A q \in Runs : root[q] = streams[conn.stream].root => UpTo(Told, q, len[q])
      BY DEF ClientInv, OfAStream
    <3>2. streams[conn.stream].st = "live" => streams[conn.stream].root # root[r]
      BY <1>1, <1>11, <3>1 DEF ServerInv, OneLive
    <3>3. streams[conn.stream].st = "live" =>
            \A q \in Runs : root[q] = streams[conn.stream].root => UpTo(Told, q, len'[q])
      BY <1>3, <3>1, <3>2
    <3>4. (streams[conn.stream].st = "live" =>
            \A q \in Runs : root[q] = streams[conn.stream].root => UpTo(Told, q, len[q]))'
      BY <1>4, <2>1, <3>1, <3>3 DEF UpTo
    <3> QED
      BY <1>4, <2>1, <3>1, <3>4 DEF OfAStream
  <2> QED
    BY <1>6, <1>7, <1>8, <2>2, <2>3, <2>4 DEF ClientInv
<1> QED
  BY <1>10, <1>11

\* The passive stream sends the crumb after its position.
LEMMA Tailing ==
  ASSUME ClientInv, TailSends
  PROVE  ClientInv'
<1> DEFINE r == conn.run
<1>1. /\ conn.st = "open" /\ r # 0 /\ conn.pos < len[r]
      /\ UNCHANGED <<got, runId, lastSeq, pc, len, over, root, streams>>
      /\ \E st \in {"open", "closed"} :
           conn' = [conn EXCEPT !.pos = @ + 1, !.st = st,
                                !.wire = Append(@, [run |-> r, seq |-> conn.pos + 1])]
  BY DEF TailSends, clientVars, runVars
<1>2. /\ conn \in [st : {"none", "asked", "open", "closed", "broken"},
                   stream : {0} \cup Streams, run : {0} \cup Runs, pos : Nat,
                   wire : Seq(Frames)]
      /\ len \in [Runs -> Nat]
  BY DEF ClientInv, CTypes
<1>3. r \in Runs /\ conn.pos \in Nat
  BY <1>1, <1>2
<1>4. /\ r = runId /\ conn.stream = 0 /\ UpTo(Told, r, conn.pos)
      /\ \A i \in DOMAIN conn.wire : conn.wire[i].run = r
  BY <1>1 DEF ClientInv, OfOneRun
<1>5. /\ conn'.wire = Append(conn.wire, [run |-> r, seq |-> conn.pos + 1])
      /\ conn'.run = r /\ conn'.stream = 0 /\ conn'.pos = conn.pos + 1
      /\ conn'.st # "asked"
  BY <1>1, <1>2, <1>4
<1> HIDE DEF r
<1>6. /\ conn'.wire \in Seq(Frames) /\ InSteps(Told')
      /\ UpTo(Told', r, conn.pos + 1)
      /\ \A i \in DOMAIN Told' :
           \/ Told'[i] = [run |-> r, seq |-> conn.pos + 1]
           \/ i \in DOMAIN Told /\ Told'[i] = Told[i]
      /\ \A i \in DOMAIN conn'.wire :
           conn'.wire[i].run = r
             \/ (i \in DOMAIN conn.wire /\ conn'.wire[i] = conn.wire[i])
  BY <1>1, <1>3, <1>4, <1>5, NextIsTold
<1>7. CTypes'
  <2>1. conn' \in [st : {"none", "asked", "open", "closed", "broken"},
                   stream : {0} \cup Streams, run : {0} \cup Runs, pos : Nat,
                   wire : Seq(Frames)]
    <3> PICK st \in {"open", "closed"} :
          conn' = [conn EXCEPT !.pos = @ + 1, !.st = st,
                               !.wire = Append(@, [run |-> r, seq |-> conn.pos + 1])]
      BY <1>1
    <3>1. Append(conn.wire, [run |-> r, seq |-> conn.pos + 1]) \in Seq(Frames)
      BY <1>5, <1>6
    <3>2. conn.pos + 1 \in Nat
      BY <1>3
    <3>3. conn' = [st |-> st, stream |-> conn.stream, run |-> conn.run, pos |-> conn.pos + 1,
                   wire |-> Append(conn.wire, [run |-> r, seq |-> conn.pos + 1])]
      BY <1>2
    <3> QED
      BY <1>2, <3>1, <3>2, <3>3
  <2> QED
    BY <1>1, <2>1 DEF ClientInv, CTypes
<1>8. Existing'
  <2> SUFFICES ASSUME NEW i \in DOMAIN Told' PROVE Told'[i].seq <= len[Told'[i].run]
    BY <1>1 DEF Existing
  <2>1. CASE Told'[i] = [run |-> r, seq |-> conn.pos + 1]
    BY <1>1, <1>2, <1>3, <2>1
  <2>2. CASE i \in DOMAIN Told /\ Told'[i] = Told[i]
    BY <2>2 DEF ClientInv, Existing
  <2> QED
    BY <1>6, <2>1, <2>2
<1>9. InSteps(Told)'
  BY <1>6 DEF InSteps
<1>10. OfOneRun'
  <2>1. \A i \in DOMAIN conn'.wire : conn'.wire[i].run = r
    BY <1>4, <1>6
  <2> QED
    BY <1>1, <1>4, <1>5, <1>6, <2>1 DEF OfOneRun, UpTo
<1>11. AskedFor' /\ OfAStream'
  BY <1>3, <1>5, ZeroIsNone DEF AskedFor, OfAStream
<1>12. Posted' /\ Position' /\ Relays'
  BY <1>1 DEF ClientInv, Posted, Position, Relays
<1> QED
  BY <1>7, <1>8, <1>9, <1>10, <1>11, <1>12 DEF ClientInv

\* A run joins the root of a live stream: it has no crumbs yet.
LEMMA Dividing ==
  ASSUME ServerInv, ClientInv, NEW k \in Streams, NEW r \in Runs, Delegates(k, r)
  PROVE  ClientInv'
<1>1. /\ streams[k].st = "live" /\ root[r] = 0 /\ root' = [root EXCEPT ![r] = streams[k].root]
      /\ UNCHANGED <<got, conn, runId, lastSeq, pc, len, over, streams>>
  BY DEF Delegates, NextRun, Unused, clientVars
<1>2. /\ streams[k].root \in Runs /\ root[streams[k].root] = streams[k].root
      /\ root \in [Runs -> {0} \cup Runs]
  BY <1>1 DEF ServerInv, Rooted, Types
<1>3. /\ root'[r] = streams[k].root /\ r # streams[k].root
      /\ \A q \in Runs : q # r => root'[q] = root[q]
  BY <1>1, <1>2, ZeroIsNone
<1>4. Told' = Told /\ len[r] = 0
  BY <1>1 DEF Told, ClientInv, Posted
<1>5. Posted'
  <2> SUFFICES ASSUME NEW q \in Runs
               PROVE  /\ root'[q] = 0 => len[q] = 0
                      /\ root'[q] # 0 => root'[root'[q]] = root'[q]
    BY <1>1 DEF Posted
  <2>1. CASE q = r
    BY <1>2, <1>3, <2>1, ZeroIsNone
  <2>2. CASE q # r
    <3>1. root[q] # 0 => root[q] \in Runs /\ root[q] # r
      BY <1>1, <1>2 DEF ClientInv, Posted
    <3> QED
      BY <1>3, <2>2, <3>1 DEF ClientInv, Posted
  <2> QED
    BY <2>1, <2>2
<1>6. OfAStream'
  <2> SUFFICES ASSUME conn.run = 0, conn.st = "open", conn.stream \in Streams,
                      streams[conn.stream].st = "live",
                      NEW q \in Runs, root'[q] = streams[conn.stream].root
               PROVE  UpTo(Told, q, len[q])
    BY <1>1, <1>4 DEF ClientInv, OfAStream, UpTo
  <2>1. CASE q = r
    <3>1. \A i \in DOMAIN Told : Told[i].seq <= 0 \/ Told[i].run # r
      BY <1>4 DEF ClientInv, Existing
    <3> QED
      BY <1>4, <2>1, <3>1 DEF UpTo
  <2>2. CASE q # r
    BY <1>3, <2>2 DEF ClientInv, OfAStream
  <2> QED
    BY <2>1, <2>2
<1>7. CTypes' /\ InSteps(Told)' /\ Existing' /\ Position' /\ AskedFor' /\ OfOneRun' /\ Relays'
  BY <1>1, <1>4
     DEF ClientInv, CTypes, InSteps, Existing, Position, AskedFor, OfOneRun, UpTo, Relays
<1> QED
  BY <1>5, <1>6, <1>7 DEF ClientInv

LEMMA ClientSteps == ServerInv /\ ClientInv /\ [Next]_vars => ClientInv'
<1> SUFFICES ASSUME ServerInv, ClientInv, [Next]_vars PROVE ClientInv'
  OBVIOUS
<1>1. streams \in [Streams -> Stream] /\ root \in [Runs -> {0} \cup Runs]
  BY DEF ServerInv, Types
<1>2. CASE UNCHANGED <<got, conn, runId, lastSeq, len, root, over, streams>>
           /\ (pc' = "returned" => pc = "returned")
  <2>1. Told' = Told
    BY <1>2 DEF Told
  <2> QED
    BY <1>2, <2>1 DEF ClientInv, CTypes, InSteps, Posted, Existing, Position, AskedFor,
      OfOneRun, OfAStream, UpTo, Relays
<1>3. CASE AcceptTail
  BY <1>3, Answering DEF AcceptTail, clientVars, runVars
<1>4. CASE TailSends
  BY <1>4, Tailing
<1>5. CASE CancelLooksUp
  BY <1>2, <1>5 DEF CancelLooksUp, clientVars, runVars
<1>6. CASE CancelAborts
  <2>1. /\ streams' = [streams EXCEPT ![cancel.entry].aborted = TRUE]
        /\ UNCHANGED <<got, conn, runId, lastSeq, len, root, over, pc>>
    BY <1>6 DEF CancelAborts, clientVars, runVars
  <2>2. StreamsMove
    BY <1>1, <2>1 DEF StreamsMove, Stream
  <2> QED
    BY <2>1, <2>2, StreamsOnly
<1>7. ASSUME NEW k \in Streams, Suspends(k) PROVE ClientInv'
  <2>1. /\ Carries(k, streams[k].root) /\ Open(streams[k].root) /\ Send(k, streams[k].root)
        /\ UNCHANGED <<got, runId, lastSeq, pc, root, over>>
    BY <1>7 DEF Suspends, clientVars
  <2>2. streams[k].root \in Runs
    BY <2>1 DEF Carries, ServerInv, Rooted
  <2> QED
    BY <2>1, <2>2, Streaming
<1>8. ASSUME NEW k \in Streams, CloseStream(k) PROVE ClientInv'
  <2>1. /\ streams' = [streams EXCEPT ![k].st = "done"]
        /\ UNCHANGED <<got, runId, lastSeq, len, root, over, pc>>
        /\ \/ conn' = [conn EXCEPT !.st = "closed"]
           \/ conn' = conn
    BY <1>8 DEF CloseStream, clientVars, runVars
  <2>2. StreamsMove
    BY <1>1, <2>1 DEF StreamsMove, Stream
  <2> QED
    BY <2>1, <2>2, StreamsOnly, Answering
<1>9. ASSUME NEW k \in Streams, NEW r \in Runs, AcceptRun(k, r) PROVE ClientInv'
  BY <1>9, Posting
<1>10. ASSUME NEW k \in Streams, NEW r \in Runs, Delegates(k, r) PROVE ClientInv'
  BY <1>10, Dividing
<1>11. ASSUME NEW k \in Streams, NEW r \in Runs, Crumb(k, r) \/ Ends(k, r)
       PROVE  ClientInv'
  <2>1. /\ Carries(k, r) /\ Open(r) /\ Send(k, r) /\ over' \in {over, over \cup {r}}
        /\ UNCHANGED <<got, runId, lastSeq, pc, root>>
    BY <1>11 DEF Crumb, Ends, clientVars
  <2> QED
    BY <2>1, Streaming
<1>12. ASSUME NEW k \in Streams, NEW r \in Runs, ResumeElsewhere(k, r)
       PROVE  ClientInv'
  <2> DEFINE new == [NoStream EXCEPT !.st = "live", !.root = r]
  <2>1. /\ streams[k].st = "free"
        /\ UNCHANGED <<got, conn, runId, lastSeq, len, root, over, pc>>
        /\ \A j \in Streams : j # k =>
             streams'[j] \in {streams[j], [streams[j] EXCEPT !.st = "closing"]}
    BY <1>12 DEF ResumeElsewhere, NextStream, Free, clientVars
  <2>2. StreamsMove
    BY <1>1, <2>1 DEF StreamsMove, Stream
  <2> QED
    BY <2>1, <2>2, StreamsOnly
<1>13. CASE ServerAct
  BY <1>3, <1>4, <1>5, <1>6, <1>7, <1>8, <1>9, <1>10, <1>11, <1>12, <1>13 DEF ServerAct
<1>14. CASE Connect
  BY <1>14, Connecting
<1>15. CASE Read
  BY <1>15, Reading
<1>16. CASE Interrupted \/ Refused \/ Drop
  BY <1>16, Losing DEF Interrupted, Refused, Drop, clientVars, runVars
<1>17. CASE Slept \/ CancelledConnecting
  BY <1>2, <1>17 DEF Slept, CancelledConnecting, runVars
<1>18. CASE Abort
  BY <1>2, <1>18, Losing DEF Abort, runVars
<1> QED
  BY <1>2, <1>13, <1>14, <1>15, <1>16, <1>17, <1>18
     DEF Next, ClientAct, vars, clientVars, runVars

\* RelayedInOrder: for any number of runs, streams, faults and retries, over
\* drops, reconnects and resumes by somebody else, the caller gets the first
\* crumbs of every run, each once and in order, and a return means that one of
\* the runs was relayed to its end. (remoteAgent's lastSeq and Last-Event-ID.)
THEOREM RelayedInOrder == Spec => []RelaysInOrder
<1>1. ClientInv => RelaysInOrder
  <2> SUFFICES ASSUME ClientInv PROVE RelaysInOrder
    OBVIOUS
  <2>1. got \in Seq(Frames) /\ conn.wire \in Seq(Frames)
    BY DEF ClientInv, CTypes
  <2>2. InSteps(got)
    BY <2>1, ReceivedInSteps DEF ClientInv, Told
  <2>3. ASSUME pc = "returned" PROVE runId \in over /\ Relayed(runId) = 1..len[runId]
    <3>1. runId \in over /\ lastSeq = len[runId]
      BY <2>3 DEF ClientInv, Relays
    <3>2. \A i \in DOMAIN got : got[i].seq \in Nat \ {0} /\ got[i].run \in Runs
      <4>1. \A i \in DOMAIN got : got[i] \in Frames
        BY <2>1
      <4> QED
        BY <4>1 DEF Frames
    <3>3. CASE got = <<>>
      <4>1. lastSeq = 0 /\ DOMAIN got = {}
        BY <3>3 DEF ClientInv, Position
      <4> QED
        BY <3>1, <4>1 DEF Relayed
    <3>4. CASE got # <<>>
      <4>1. /\ Len(got) \in DOMAIN got
            /\ got[Len(got)] = [run |-> runId, seq |-> lastSeq]
        BY <2>1, <3>4 DEF ClientInv, Position
      <4>2. got[Len(got)].run = runId /\ got[Len(got)].seq = lastSeq
        BY <4>1
      <4>3. UpTo(got, runId, lastSeq)
        BY <2>1, <2>2, <3>4, <4>2, LastSaysHowFar
      <4>4. \A i \in DOMAIN got : got[i].run = runId => got[i].seq \in 1..lastSeq
        BY <3>2, <4>1, <4>2, <4>3 DEF UpTo
      <4>5. ASSUME NEW n \in 1..lastSeq
            PROVE  \E i \in DOMAIN got : got[i].run = runId /\ got[i].seq = n
        <5>1. PICK i \in 1..Len(got) : got[i] = [run |-> runId, seq |-> n]
          BY <2>2, <4>1, <4>2 DEF InSteps
        <5> QED
          BY <2>1, <5>1
      <4> QED
        BY <3>1, <4>4, <4>5 DEF Relayed
    <3> QED
      BY <3>3, <3>4
  <2> QED
    BY <2>2, <2>3 DEF InSteps, RelaysInOrder
<1>2. Init => Once
  BY DEF Init, Once
<1> QED
  BY <1>1, <1>2, ServerInitially, CancelsOnce, ServerSteps, ClientInitially, ClientSteps,
     PTL DEF Spec

-----------------------------------------------------------------------------
(* RedisFabric: the pub connection and the read loop.                      *)

Commands == [cmd : {"anchor", "range", "add"}, who : Handlers \cup Nat,
             ran : BOOLEAN, reply : SUBSET Nat]
HandlerState == [st : {"out", "in", "gone"}, of : Nat, after : Nat,
                 replayed : BOOLEAN, got : SUBSET Nat]
SubState == [handlers : SUBSET Handlers, lastId : Nat \cup {Null}, anchored : BOOLEAN]
LoopState == [pc : {"idle", "blocked", "answered"}, from : Nat \cup {Null},
              reply : SUBSET Nat]

FabricTypes ==
  /\ entries \in Seq(Handlers \cup Nat) /\ trimmed \in Nat /\ published \in Nat
  /\ pub \in Seq(Commands)
  /\ subs \in 0..created /\ created \in 0..MaxSubs
  /\ state \in [Subs -> SubState]
  /\ handler \in [Handlers -> HandlerState]
  /\ loop \in LoopState

Places == 1..Len(pub)
IsAnchor(k, n) == pub[k].cmd = "anchor" /\ pub[k].who = n
IsRange(k, h) == pub[k].cmd = "range" /\ pub[k].who = h

\* Handlers belong to the Subscription there is; one that is still to come is
\* as FabricInit left it.
Belonging ==
  /\ \A h \in Handlers : Subscribed(h) =>
       subs # 0 /\ handler[h].of = subs /\ h \in state[subs].handlers
  /\ \A h \in Handlers : handler[h].st = "out" => ~handler[h].replayed
  /\ \A n \in Subs : n > created => state[n].lastId = Null /\ ~state[n].anchored

\* The pub connection runs its commands in order; a handler's replay is asked
\* for once, and after the anchor of its Subscription.
Ordered ==
  /\ \A j, k \in Places : j < k /\ pub[k].ran => pub[j].ran
  /\ \A k \in Places : \A n : IsAnchor(k, n) => n \in 1..created
  /\ \A k \in Places : \A h : IsRange(k, h) =>
       h \in Handlers /\ handler[h].st # "out" /\ ~handler[h].replayed
  /\ \A j, k \in Places : \A h : IsRange(j, h) /\ IsRange(k, h) => j = k
  /\ \A j \in Places : \A h \in Handlers : IsAnchor(j, subs) /\ Subscribed(h) =>
       ~handler[h].replayed /\ \A k \in Places : IsRange(k, h) => j < k

\* A Subscription that was not told yet where to begin.
Unplaced(n) == state[n].lastId = Null /\ ~state[n].anchored

\* No id is beyond the stream.
Bounded ==
  /\ \A k \in Places : \A n : IsAnchor(k, n) /\ pub[k].ran =>
       \A x \in pub[k].reply : x <= Len(entries)
  /\ loop.pc = "blocked" => loop.from \in Nat /\ loop.from <= Len(entries)
  /\ loop.pc = "answered" => \A x \in loop.reply : x <= Len(entries)
  /\ subs # 0 => Unplaced(subs) \/ (state[subs].lastId \in Nat
                                      /\ state[subs].lastId <= Len(entries))

\* What a handler was given, or is about to be by its replay.
Replayed(h) ==
  handler[h].replayed \/ \E k \in Places : IsRange(k, h) /\ pub[k].ran
Known(h, i) ==
  i \in handler[h].got \/ \E k \in Places : IsRange(k, h) /\ pub[k].ran /\ i \in pub[k].reply
HasUpTo(h, x) == \A i \in Wanted(h) : i <= x => Known(h, i)

Covered(h) ==
  /\ Unplaced(subs) \/ HasUpTo(h, state[subs].lastId)
  /\ loop.pc = "blocked" => HasUpTo(h, loop.from)
  /\ loop.pc = "answered" => \A i \in Wanted(h) : \A x \in loop.reply :
       i <= x => Known(h, i) \/ i \in loop.reply
  /\ \A k \in Places : IsAnchor(k, subs) /\ pub[k].ran =>
       \A x \in pub[k].reply : HasUpTo(h, x)

Covering == \A h \in Handlers : Subscribed(h) /\ Replayed(h) => Covered(h)

FabricInv == FabricTypes /\ Belonging /\ Ordered /\ Bounded /\ Covering

-----------------------------------------------------------------------------
(* What keeps a handler covered.                                           *)

\* A step that loses nothing the handler knows of the ids there were.
LEMMA StillCovered ==
  ASSUME FabricTypes, Bounded, subs # 0, NEW h \in Handlers, Covered(h),
         UNCHANGED <<subs, loop>>,
         state'[subs].lastId = state[subs].lastId,
         state'[subs].anchored = state[subs].anchored,
         \A i \in Wanted(h)' : i <= Len(entries) =>
           i \in Wanted(h) /\ (Known(h, i) => Known(h, i)'),
         \A k \in Places' : IsAnchor(k, subs)' /\ pub'[k].ran =>
           \E j \in Places : IsAnchor(j, subs) /\ pub[j].ran /\ pub'[k].reply = pub[j].reply
  PROVE  Covered(h)'
<1> DEFINE Keeps(x) == HasUpTo(h, x) => \A i \in Wanted(h)' : i <= x => Known(h, i)'
<1>1. ASSUME NEW x \in Nat, x <= Len(entries), HasUpTo(h, x)
      PROVE  \A i \in Wanted(h)' : i <= x => Known(h, i)'
  <2> SUFFICES ASSUME NEW i \in Wanted(h)', i <= x PROVE Known(h, i)'
    OBVIOUS
  <2>1. i \in Nat /\ Len(entries) \in Nat
    BY DEF Wanted, Good, Stored, Ids, FabricTypes
  <2>2. i <= Len(entries)
    BY <1>1, <2>1
  <2> QED
    BY <1>1, <2>2 DEF HasUpTo
<1>2. Unplaced(subs)' \/ \A i \in Wanted(h)' : i <= state'[subs'].lastId => Known(h, i)'
  <2>1. CASE Unplaced(subs)
    BY <2>1 DEF Unplaced
  <2>2. CASE ~Unplaced(subs)
    <3>1. /\ state[subs].lastId \in Nat /\ state[subs].lastId <= Len(entries)
          /\ HasUpTo(h, state[subs].lastId)
      BY <2>2 DEF Bounded, Covered
    <3> QED
      BY <1>1, <3>1
  <2> QED
    BY <2>1, <2>2
<1>3. loop'.pc = "blocked" => \A i \in Wanted(h)' : i <= loop'.from => Known(h, i)'
  BY <1>1 DEF Bounded, Covered
<1>4. loop'.pc = "answered" => \A i \in Wanted(h)' : \A x \in loop'.reply :
        i <= x => Known(h, i)' \/ i \in loop'.reply
  <2> SUFFICES ASSUME loop.pc = "answered", NEW i \in Wanted(h)', NEW x \in loop.reply,
                      i <= x, i \notin loop.reply
               PROVE  Known(h, i)'
    OBVIOUS
  <2>1. i \in Nat /\ Len(entries) \in Nat /\ x \in Nat
    BY DEF Wanted, Good, Stored, Ids, FabricTypes, LoopState
  <2>2. i <= Len(entries)
    BY <2>1 DEF Bounded
  <2> QED
    BY <2>2 DEF Covered
<1>5. \A k \in Places' : IsAnchor(k, subs)' /\ pub'[k].ran =>
        \A x \in pub'[k].reply : \A i \in Wanted(h)' : i <= x => Known(h, i)'
  <2> SUFFICES ASSUME NEW j \in Places, IsAnchor(j, subs), pub[j].ran, NEW x \in pub[j].reply
               PROVE  \A i \in Wanted(h)' : i <= x => Known(h, i)'
    OBVIOUS
  <2>1. pub[j] \in Commands
    BY DEF FabricTypes, Places
  <2>2. x \in Nat /\ x <= Len(entries) /\ HasUpTo(h, x)
    BY <2>1 DEF Commands, Bounded, Covered
  <2> QED
    BY <1>1, <2>2
<1>6. UNCHANGED <<subs, loop>>
  OBVIOUS
<1> QED
  BY <1>2, <1>3, <1>4, <1>5 DEF Covered, HasUpTo

\* A handler that knows all it wants is covered.
LEMMA AllKnown ==
  ASSUME NEW h \in Handlers, \A i \in Wanted(h)' : Known(h, i)'
  PROVE  Covered(h)'
BY DEF Covered, HasUpTo

LEMMA Indices ==
  ASSUME FabricTypes
  PROVE  /\ Len(pub) \in Nat /\ Len(entries) \in Nat
         /\ \A k \in Places : pub[k] \in Commands /\ k \in Nat
         /\ \A h : Wanted(h) \subseteq 1..Len(entries)
         /\ 0 \notin Subs /\ created \in Nat /\ subs \in Nat
BY FabricAssumption DEF FabricTypes, Places, Wanted, Good, Stored, Ids, Subs

\* An entry is added: the ids there were keep what they hold.
LEMMA Adds ==
  ASSUME FabricTypes, NEW seq \in Handlers \cup Nat, XAdd(seq)
  PROVE  /\ entries' \in Seq(Handlers \cup Nat) /\ trimmed' \in Nat
         /\ Len(entries') = Len(entries) + 1
         /\ \A h : handler'[h].after = handler[h].after =>
              \A i \in Wanted(h)' : i <= Len(entries) => i \in Wanted(h)
<1>1. /\ entries \in Seq(Handlers \cup Nat) /\ entries' = Append(entries, seq)
      /\ trimmed \in Nat /\ Len(entries) \in Nat
  BY DEF FabricTypes, XAdd
<1>2. /\ entries' \in Seq(Handlers \cup Nat) /\ Len(entries') = Len(entries) + 1
      /\ \A i \in 1..Len(entries) : entries'[i] = entries[i]
  BY <1>1
<1>3. trimmed' \in Nat /\ trimmed <= trimmed'
  BY <1>1 DEF XAdd, Ids
<1>4. ASSUME NEW h, handler'[h].after = handler[h].after, NEW i \in Wanted(h)',
             i <= Len(entries)
      PROVE  i \in Wanted(h)
  <2>1. i \in 1..Len(entries') /\ i > trimmed' /\ entries'[i] # 0
        /\ entries'[i] > handler'[h].after
    BY DEF Wanted, Good, Stored, Ids
  <2>2. i \in 1..Len(entries) /\ i > trimmed
    BY <1>1, <1>2, <1>3, <1>4, <2>1
  <2> QED
    BY <1>2, <1>4, <2>1, <2>2 DEF Wanted, Good, Stored, Ids
<1> QED
  BY <1>2, <1>3, <1>4

LEMMA FabricInitially == FabricInit => FabricInv
<1> SUFFICES ASSUME FabricInit PROVE FabricInv
  OBVIOUS
<1>1. FabricTypes
  BY FabricAssumption DEF FabricInit, FabricTypes, NoState, NoHandler, Idle, SubState, HandlerState,
    LoopState
<1>2. Places = {}
  BY DEF FabricInit, Places
<1>3. \A h \in Handlers : handler[h].st = "out" /\ ~handler[h].replayed
  BY DEF FabricInit, NoHandler
<1>4. Belonging
  BY <1>3 DEF FabricInit, Belonging, NoState, Subscribed
<1>5. Ordered
  BY <1>2 DEF Ordered
<1>6. Bounded
  BY <1>2 DEF FabricInit, Bounded, Idle
<1>7. Covering
  BY <1>3 DEF Covering, Subscribed
<1> QED
  BY <1>1, <1>4, <1>5, <1>6, <1>7 DEF FabricInv

-----------------------------------------------------------------------------
(* subscribe and publish.                                                  *)

LEMMA Publishing ==
  ASSUME FabricInv, Publish
  PROVE  FabricInv'
<1> DEFINE c == Command("add", published')
<1>1. FabricTypes /\ Belonging /\ Ordered /\ Bounded /\ Covering
  BY DEF FabricInv
<1>2. /\ published' = published + 1 /\ pub' = Append(pub, c)
      /\ UNCHANGED <<entries, trimmed, subs, created, state, handler, loop>>
  BY DEF Publish
<1>3. c \in Commands /\ c.cmd = "add" /\ ~c.ran
  BY <1>1, <1>2 DEF FabricTypes, Command, Commands
<1> HIDE DEF c
<1>4. /\ pub' \in Seq(Commands) /\ Len(pub') = Len(pub) + 1 /\ pub'[Len(pub) + 1] = c
      /\ \A k \in Places : pub'[k] = pub[k]
      /\ Places' = Places \cup {Len(pub) + 1}
  BY <1>1, <1>2, <1>3 DEF FabricTypes, Places
<1>5. FabricTypes'
  BY <1>1, <1>2, <1>4 DEF FabricTypes
<1>6. Belonging'
  BY <1>1, <1>2 DEF Belonging, Subscribed
<1>7. \A k \in Places' : \A n : IsAnchor(k, n)' => k \in Places /\ IsAnchor(k, n)
  BY <1>3, <1>4 DEF IsAnchor
<1>8. \A k \in Places' : \A h : IsRange(k, h)' => k \in Places /\ IsRange(k, h)
  BY <1>3, <1>4 DEF IsRange
<1>9. Ordered'
  <2>1. ASSUME NEW j \in Places', NEW k \in Places', j < k, pub'[k].ran PROVE pub'[j].ran
    <3>1. k \in Places
      BY <1>3, <1>4, <2>1
    <3>2. j \in Places
      BY <1>1, <1>4, <2>1, <3>1, Indices DEF Places
    <3> QED
      BY <1>1, <1>4, <2>1, <3>1, <3>2 DEF Ordered
  <2> QED
    BY <1>1, <1>2, <1>4, <1>7, <1>8, <2>1 DEF Ordered, Subscribed
<1>10. Bounded'
  BY <1>1, <1>2, <1>4, <1>7 DEF Bounded, Unplaced
<1>11. Covering'
  <2> SUFFICES ASSUME NEW h \in Handlers, Subscribed(h)', Replayed(h)' PROVE Covered(h)'
    BY DEF Covering
  <2>1. Subscribed(h) /\ Replayed(h)
    BY <1>2, <1>4, <1>8 DEF Subscribed, Replayed
  <2>2. Covered(h) /\ subs # 0
    BY <1>1, <2>1 DEF Covering, Belonging
  <2>3. \A i \in Wanted(h)' : i \in Wanted(h) /\ (Known(h, i) => Known(h, i)')
    BY <1>2, <1>4 DEF Wanted, Good, Stored, Ids, Known, IsRange
  <2>4. \A k \in Places' : IsAnchor(k, subs)' /\ pub'[k].ran =>
          \E j \in Places : IsAnchor(j, subs) /\ pub[j].ran /\ pub'[k].reply = pub[j].reply
    BY <1>2, <1>4, <1>7
  <2> QED
    BY <1>1, <1>2, <2>2, <2>3, <2>4, StillCovered
<1> QED
  BY <1>5, <1>6, <1>9, <1>10, <1>11 DEF FabricInv

LEMMA PublishingElsewhere ==
  ASSUME FabricInv, PublishElsewhere
  PROVE  FabricInv'
<1>1. FabricTypes /\ Belonging /\ Ordered /\ Bounded /\ Covering
  BY DEF FabricInv
<1>2. /\ UNCHANGED <<pub, subs, created, state, handler, loop>>
      /\ published' \in Nat /\ \E seq \in Nat : XAdd(seq)
  BY <1>1 DEF PublishElsewhere, FabricTypes
<1>3. /\ entries' \in Seq(Handlers \cup Nat) /\ trimmed' \in Nat
      /\ Len(entries') = Len(entries) + 1
      /\ \A h \in Handlers : \A i \in Wanted(h)' : i <= Len(entries) => i \in Wanted(h)
  BY <1>1, <1>2, Adds
<1>4. FabricTypes'
  BY <1>1, <1>2, <1>3 DEF FabricTypes
<1>5. Belonging' /\ Ordered'
  BY <1>1, <1>2 DEF Belonging, Subscribed, Ordered, Places, IsAnchor, IsRange
<1>6. Bounded'
  <2>1. Len(entries) \in Nat
    BY <1>1, Indices
  <2>2. \A k \in Places : \A x \in pub[k].reply : x \in Nat
    BY <1>1, Indices DEF Commands
  <2>3. \A x \in loop.reply : x \in Nat
    BY <1>1 DEF FabricTypes, LoopState
  <2>4. \A x \in Nat : x <= Len(entries) => x <= Len(entries')
    BY <1>3, <2>1
  <2>5. Places' = Places
    BY <1>2 DEF Places
  <2> QED
    BY <1>1, <1>2, <2>2, <2>3, <2>4, <2>5 DEF Bounded, Unplaced, IsAnchor
<1>7. Covering'
  <2> SUFFICES ASSUME NEW h \in Handlers, Subscribed(h)', Replayed(h)' PROVE Covered(h)'
    BY DEF Covering
  <2>1. Places' = Places
    BY <1>2 DEF Places
  <2>2. Subscribed(h) /\ Replayed(h)
    BY <1>2, <2>1 DEF Subscribed, Replayed, IsRange
  <2>3. Covered(h) /\ subs # 0
    BY <1>1, <2>2 DEF Covering, Belonging
  <2>4. \A i : Known(h, i) => Known(h, i)'
    BY <1>2, <2>1 DEF Known, IsRange
  <2>5. \A k \in Places' : IsAnchor(k, subs)' /\ pub'[k].ran =>
          \E j \in Places : IsAnchor(j, subs) /\ pub[j].ran /\ pub'[k].reply = pub[j].reply
    BY <1>2, <2>1 DEF IsAnchor
  <2> QED
    BY <1>1, <1>2, <1>3, <2>3, <2>4, <2>5, StillCovered
<1> QED
  BY <1>4, <1>5, <1>6, <1>7 DEF FabricInv

LEMMA Subscribing ==
  ASSUME FabricInv, NEW g \in Handlers, NEW after \in AfterSeqs, Subscribe(g, after)
  PROVE  FabricInv'
<1> DEFINE new == subs = 0
           n == IF new THEN created + 1 ELSE subs
           a == Command("anchor", n)
           r == Command("range", g)
<1>1. FabricTypes /\ Belonging /\ Ordered /\ Bounded /\ Covering
  BY DEF FabricInv
<1>2. /\ handler[g].st = "out" /\ n <= MaxSubs
      /\ subs' = n /\ created' = IF new THEN n ELSE created
      /\ state' = [state EXCEPT ![n].handlers = @ \cup {g}]
      /\ handler' = [handler EXCEPT ![g] = [@ EXCEPT !.st = "in", !.of = n, !.after = after]]
      /\ pub' = (IF new THEN Append(pub, a) ELSE pub) \o <<r>>
      /\ UNCHANGED <<redisVars, loop>>
  BY DEF Subscribe, Lookups
<1>3. UNCHANGED <<entries, trimmed, published>>
  BY <1>2 DEF redisVars
<1>4. n \in Subs /\ n \in 1..created' /\ created' \in 0..MaxSubs /\ n # 0
      /\ created' \in Nat /\ created <= created'
  BY <1>1, <1>2, FabricAssumption DEF FabricTypes, Subs
<1>5. /\ r \in Commands /\ r.cmd = "range" /\ r.who = g /\ ~r.ran
      /\ a \in Commands /\ a.cmd = "anchor" /\ a.who = n /\ ~a.ran
  BY <1>1, <1>4 DEF Command, Commands
<1> HIDE DEF n, a, r
<1> DEFINE l == Len(pub')
<1>6. /\ pub' \in Seq(Commands) /\ l \in Nat /\ Len(pub) < l /\ pub'[l] = r
      /\ \A k \in Places : pub'[k] = pub[k] /\ k \in Places' /\ k < l
      /\ \A k \in Places' : k \in Places \/ k = l \/ (new /\ k = l - 1 /\ pub'[k] = a)
      /\ new => Len(pub) + 2 = l
  <2>0. pub \in Seq(Commands) /\ Len(pub) \in Nat
    BY <1>1 DEF FabricTypes
  <2>1. CASE new
    <3>1. pub' = Append(pub, a) \o <<r>>
      BY <1>2, <2>1
    <3>2. /\ pub' \in Seq(Commands) /\ Len(pub') = Len(pub) + 2
          /\ pub'[Len(pub) + 2] = r /\ pub'[Len(pub) + 1] = a
          /\ \A k \in 1..Len(pub) : pub'[k] = pub[k]
      BY <1>5, <2>0, <3>1
    <3> QED
      BY <2>0, <2>1, <3>2 DEF Places
  <2>2. CASE ~new
    <3>1. pub' = pub \o <<r>>
      BY <1>2, <2>2
    <3>2. /\ pub' \in Seq(Commands) /\ Len(pub') = Len(pub) + 1 /\ pub'[Len(pub) + 1] = r
          /\ \A k \in 1..Len(pub) : pub'[k] = pub[k]
      BY <1>5, <2>0, <3>1
    <3> QED
      BY <2>0, <2>2, <3>2 DEF Places
  <2> QED
    BY <2>1, <2>2
<1> HIDE DEF l
<1>7. /\ handler' \in [Handlers -> HandlerState]
      /\ handler'[g].st = "in" /\ handler'[g].of = n
      /\ handler'[g].replayed = handler[g].replayed
      /\ \A h \in Handlers : h # g => handler'[h] = handler[h]
  <2> DEFINE e == [handler[g] EXCEPT !.st = "in", !.of = n, !.after = after]
  <2>1. after \in Nat /\ n \in Nat /\ handler[g] \in HandlerState
    BY <1>1, <1>4, FabricAssumption DEF FabricTypes, Subs
  <2>2. /\ e \in HandlerState /\ e.st = "in" /\ e.of = n
        /\ e.replayed = handler[g].replayed
    BY <2>1 DEF HandlerState
  <2>3. handler' = [handler EXCEPT ![g] = e]
    BY <1>2
  <2> HIDE DEF e
  <2> QED
    BY <1>1, <2>2, <2>3 DEF FabricTypes
<1>8. /\ state' \in [Subs -> SubState] /\ state'[n].handlers = state[n].handlers \cup {g}
      /\ \A m \in Subs : /\ m # n => state'[m] = state[m]
                         /\ state'[m].lastId = state[m].lastId
                         /\ state'[m].anchored = state[m].anchored
  BY <1>1, <1>2, <1>4 DEF FabricTypes, SubState
<1>9. \A k \in Places' : \A m : IsAnchor(k, m)' =>
        \/ k \in Places /\ IsAnchor(k, m)
        \/ new /\ m = n /\ k = l - 1 /\ ~pub'[k].ran
  BY <1>5, <1>6 DEF IsAnchor
<1>10. \A k \in Places' : \A h : IsRange(k, h)' =>
         \/ k \in Places /\ IsRange(k, h) /\ h # g
         \/ k = l /\ h = g /\ ~pub'[k].ran
  <2>1. ASSUME NEW k \in Places', NEW h, IsRange(k, h)', k \in Places
        PROVE  IsRange(k, h) /\ h # g
    <3>1. IsRange(k, h)
      BY <1>6, <2>1 DEF IsRange
    <3> QED
      BY <1>1, <1>2, <2>1, <3>1 DEF Ordered
  <2>2. ASSUME NEW k \in Places', NEW h, IsRange(k, h)', k \notin Places
        PROVE  k = l /\ h = g /\ ~pub'[k].ran
    BY <1>5, <1>6, <2>2 DEF IsRange
  <2> QED
    BY <2>1, <2>2
<1>11. ~handler[g].replayed /\ (new => \A h \in Handlers : ~Subscribed(h))
  BY <1>1, <1>2 DEF Belonging
<1>12. ~new => n = subs
  BY DEF n
<1>13. FabricTypes'
  BY <1>1, <1>2, <1>3, <1>4, <1>6, <1>7, <1>8 DEF FabricTypes
<1>14. Belonging'
  <2>1. \A h \in Handlers : Subscribed(h)' =>
          subs' # 0 /\ handler'[h].of = subs' /\ h \in state'[subs'].handlers
    BY <1>1, <1>2, <1>4, <1>7, <1>8, <1>11, <1>12 DEF Belonging, Subscribed
  <2>2. \A m \in Subs : m > created' => m > created
    BY <1>1, <1>4, Indices DEF Subs
  <2> QED
    BY <1>1, <1>7, <1>8, <1>11, <2>1, <2>2 DEF Belonging
<1>15. Ordered'
  <2>1. ASSUME NEW j \in Places', NEW k \in Places', j < k, pub'[k].ran PROVE pub'[j].ran
    <3>1. k \in Places
      BY <1>5, <1>6, <2>1
    <3>2. j \in Places
      BY <1>1, <1>6, <2>1, <3>1, Indices DEF Places
    <3> QED
      BY <1>1, <1>6, <2>1, <3>1, <3>2 DEF Ordered
  <2>2. \A k \in Places' : \A m : IsAnchor(k, m)' => m \in 1..created'
    <3>1. 1..created \subseteq 1..created'
      BY <1>1, <1>4, Indices
    <3> QED
      BY <1>1, <1>4, <1>9, <3>1 DEF Ordered
  <2>3. \A k \in Places' : \A h : IsRange(k, h)' =>
          h \in Handlers /\ handler'[h].st # "out" /\ ~handler'[h].replayed
    BY <1>1, <1>7, <1>10, <1>11 DEF Ordered
  <2>4. \A j, k \in Places' : \A h : IsRange(j, h)' /\ IsRange(k, h)' => j = k
    BY <1>1, <1>10 DEF Ordered
  <2>5. ASSUME NEW j \in Places', NEW h \in Handlers, IsAnchor(j, subs)', Subscribed(h)'
        PROVE  ~handler'[h].replayed /\ \A k \in Places' : IsRange(k, h)' => j < k
    <3>1. CASE h = g
      <4>1. j \in Places \/ j = l - 1
        BY <1>9, <2>5
      <4>2. j < l
        BY <1>6, <4>1
      <4> QED
        BY <1>7, <1>10, <1>11, <3>1, <4>2
    <3>2. CASE h # g
      <4>1. Subscribed(h) /\ ~new /\ subs' = subs /\ handler'[h] = handler[h]
        BY <1>2, <1>7, <1>11, <1>12, <2>5, <3>2 DEF Subscribed
      <4>2. j \in Places /\ IsAnchor(j, subs)
        BY <1>9, <2>5, <4>1 DEF IsAnchor
      <4> QED
        BY <1>1, <1>10, <3>2, <4>1, <4>2 DEF Ordered
    <3> QED
      BY <3>1, <3>2
  <2> QED
    BY <2>1, <2>2, <2>3, <2>4, <2>5 DEF Ordered
<1>16. Bounded'
  <2>1. \A k \in Places' : \A m : IsAnchor(k, m)' /\ pub'[k].ran =>
          \A x \in pub'[k].reply : x <= Len(entries)
    BY <1>1, <1>6, <1>9 DEF Bounded
  <2>2. \/ state'[n].lastId = Null /\ ~state'[n].anchored
        \/ state'[n].lastId \in Nat /\ state'[n].lastId <= Len(entries)
    <3>1. CASE new
      <4>1. n > created
        BY <1>1, <3>1, Indices DEF n
      <4> QED
        BY <1>1, <1>4, <1>8, <4>1 DEF Belonging
    <3>2. CASE ~new
      <4>1. n = subs /\ subs # 0
        BY <1>12, <3>2
      <4>2. state'[n].lastId = state[n].lastId /\ state'[n].anchored = state[n].anchored
        BY <1>4, <1>8
      <4> HIDE DEF new
      <4> QED
        BY <1>1, <4>1, <4>2 DEF Bounded, Unplaced
    <3> QED
      BY <3>1, <3>2
  <2>3. \/ state'[subs'].lastId = Null /\ ~state'[subs'].anchored
        \/ state'[subs'].lastId \in Nat /\ state'[subs'].lastId <= Len(entries)
    BY <1>2, <2>2
  <2> QED
    BY <1>1, <1>2, <1>3, <2>1, <2>3 DEF Bounded, Unplaced
<1>17. Covering'
  <2> SUFFICES ASSUME NEW h \in Handlers, Subscribed(h)', Replayed(h)' PROVE Covered(h)'
    BY DEF Covering
  <2>1. h # g /\ handler'[h] = handler[h] /\ Replayed(h) /\ Subscribed(h)
    BY <1>6, <1>7, <1>10, <1>11 DEF Replayed, Subscribed
  <2>2. ~new /\ n = subs /\ subs' = subs /\ Covered(h) /\ subs # 0
    BY <1>1, <1>2, <1>11, <1>12, <2>1 DEF Covering
  <2>3. \A i \in Wanted(h)' : i \in Wanted(h) /\ (Known(h, i) => Known(h, i)')
    BY <1>3, <1>6, <2>1 DEF Wanted, Good, Stored, Ids, Known, IsRange
  <2>4. \A k \in Places' : IsAnchor(k, subs)' /\ pub'[k].ran =>
          \E j \in Places : IsAnchor(j, subs) /\ pub[j].ran /\ pub'[k].reply = pub[j].reply
    BY <1>6, <1>9, <2>2
  <2>5. state'[subs].lastId = state[subs].lastId
        /\ state'[subs].anchored = state[subs].anchored
    BY <1>4, <1>8, <2>2
  <2> QED
    BY <1>1, <1>2, <2>2, <2>3, <2>4, <2>5, StillCovered
<1> QED
  BY <1>13, <1>14, <1>15, <1>16, <1>17 DEF FabricInv

LEMMA Unsubscribing ==
  ASSUME FabricInv, NEW g \in Handlers, Unsubscribe(g)
  PROVE  FabricInv'
<1> DEFINE n == handler[g].of
<1>1. FabricTypes /\ Belonging /\ Ordered /\ Bounded /\ Covering
  BY DEF FabricInv
<1>2. /\ handler[g].st = "in"
      /\ handler' = [handler EXCEPT ![g] = [NoHandler EXCEPT !.st = "gone"]]
      /\ state' = [state EXCEPT ![n].handlers = @ \ {g}]
      /\ subs' = IF state[n].handlers = {g} THEN 0 ELSE subs
      /\ UNCHANGED <<entries, trimmed, published, pub, created, loop>>
  BY DEF Unsubscribe, redisVars
<1>3. n = subs /\ subs # 0 /\ n \in Subs
  <2>1. n = subs /\ subs # 0
    BY <1>1, <1>2 DEF Belonging, Subscribed
  <2>2. subs \in 0..created /\ created \in 0..MaxSubs /\ MaxSubs \in Nat
    BY <1>1, FabricAssumption DEF FabricTypes
  <2> QED
    BY <2>1, <2>2 DEF Subs
<1>4. /\ handler' \in [Handlers -> HandlerState] /\ handler'[g].st = "gone"
      /\ ~handler'[g].replayed
      /\ \A h \in Handlers : h # g => handler'[h] = handler[h]
  BY <1>1, <1>2 DEF FabricTypes, HandlerState, NoHandler
<1>5. /\ state' \in [Subs -> SubState] /\ state'[n].handlers = state[n].handlers \ {g}
      /\ \A m \in Subs : /\ m # n => state'[m] = state[m]
                         /\ state'[m].lastId = state[m].lastId
                         /\ state'[m].anchored = state[m].anchored
  BY <1>1, <1>2, <1>3 DEF FabricTypes, SubState
<1> HIDE DEF n
<1>6. \A h \in Handlers : Subscribed(h)' =>
        Subscribed(h) /\ h # g /\ subs' = subs /\ handler'[h] = handler[h]
  BY <1>1, <1>2, <1>3, <1>4 DEF Subscribed, Belonging
<1>7. FabricTypes'
  BY <1>1, <1>2, <1>3, <1>4, <1>5 DEF FabricTypes
<1>8. Belonging'
  BY <1>1, <1>2, <1>3, <1>4, <1>5, <1>6 DEF Belonging
<1>9. /\ Places' = Places /\ \A k : \A h : IsRange(k, h)' <=> IsRange(k, h)
      /\ \A k : \A m : IsAnchor(k, m)' <=> IsAnchor(k, m)
  BY <1>2 DEF Places, IsRange, IsAnchor
<1>10. Ordered'
  <2>1. \A k \in Places : \A h : IsRange(k, h) =>
          h \in Handlers /\ handler'[h].st # "out" /\ ~handler'[h].replayed
    BY <1>1, <1>4 DEF Ordered
  <2>2. \A j \in Places : \A h \in Handlers : IsAnchor(j, subs)' /\ Subscribed(h)' =>
          ~handler'[h].replayed /\ \A k \in Places : IsRange(k, h) => j < k
    BY <1>1, <1>2, <1>6 DEF Ordered, IsAnchor
  <2> QED
    BY <1>1, <1>2, <1>9, <2>1, <2>2 DEF Ordered
<1>11. Bounded'
  <2>1. subs' # 0 => Unplaced(subs)' \/ (state'[subs'].lastId \in Nat
                                           /\ state'[subs'].lastId <= Len(entries))
    BY <1>1, <1>2, <1>3, <1>5 DEF Bounded, Unplaced
  <2> QED
    BY <1>1, <1>2, <1>9, <2>1 DEF Bounded
<1>12. Covering'
  <2> SUFFICES ASSUME NEW h \in Handlers, Subscribed(h)', Replayed(h)' PROVE Covered(h)'
    BY DEF Covering
  <2>1. Subscribed(h) /\ subs' = subs /\ handler'[h] = handler[h]
    BY <1>6
  <2>2. Replayed(h)
    BY <1>2, <1>9, <2>1 DEF Replayed
  <2>3. Covered(h)
    BY <1>1, <2>1, <2>2 DEF Covering
  <2>4. \A i \in Wanted(h)' : i \in Wanted(h) /\ (Known(h, i) => Known(h, i)')
    BY <1>2, <1>9, <2>1 DEF Wanted, Good, Stored, Ids, Known
  <2>5. \A k \in Places' : IsAnchor(k, subs)' /\ pub'[k].ran =>
          \E j \in Places : IsAnchor(j, subs) /\ pub[j].ran /\ pub'[k].reply = pub[j].reply
    BY <1>2, <1>9, <2>1 DEF IsAnchor
  <2>6. state'[subs].lastId = state[subs].lastId
        /\ state'[subs].anchored = state[subs].anchored
    BY <1>3, <1>5
  <2> QED
    BY <1>1, <1>2, <1>3, <2>1, <2>3, <2>4, <2>5, <2>6, StillCovered
<1> QED
  BY <1>7, <1>8, <1>10, <1>11, <1>12 DEF FabricInv

-----------------------------------------------------------------------------
(* The pub connection.                                                     *)

LEMMA Executing ==
  ASSUME FabricInv, Execute
  PROVE  FabricInv'
<1>1. FabricTypes /\ Belonging /\ Ordered /\ Bounded /\ Covering
  BY DEF FabricInv
<1>2. PICK c \in ToRun :
        /\ \A j \in ToRun : c <= j
        /\ pub' = [pub EXCEPT ![c] = [@ EXCEPT !.ran = TRUE, !.reply = Reply(pub[c])]]
        /\ IF pub[c].cmd = "add" THEN XAdd(pub[c].who) ELSE UNCHANGED <<entries, trimmed>>
  BY DEF Execute
<1>3. UNCHANGED <<published, subs, created, state, handler, loop>>
  BY DEF Execute
<1>4. c \in Places /\ ~pub[c].ran /\ pub \in Seq(Commands) /\ pub[c] \in Commands
      /\ \A j \in Places : j < c => pub[j].ran
  <2>1. DOMAIN pub = Places /\ \A j \in Places : j \in Nat
    BY <1>1, Indices DEF FabricTypes, Places
  <2> QED
    BY <1>1, <1>2, <2>1, Indices DEF ToRun, FabricTypes
<1> DEFINE run == [pub[c] EXCEPT !.ran = TRUE, !.reply = Reply(pub[c])]
<1>5. Newest \in Nat /\ Newest <= Len(entries) /\ Stored \subseteq Nat
  BY <1>1, Indices DEF Newest, Stored, Ids
<1>6. /\ run \in Commands /\ run.ran /\ run.cmd = pub[c].cmd /\ run.who = pub[c].who
      /\ run.cmd = "anchor" => run.reply = {Newest}
      /\ run.cmd = "range" => run.reply = Stored
  <2>1. Reply(pub[c]) \subseteq Nat
    BY <1>4, <1>5 DEF Reply, Commands
  <2> QED
    BY <1>4, <2>1 DEF Commands, Reply
<1> HIDE DEF run
<1>7. /\ pub' \in Seq(Commands) /\ Places' = Places /\ pub'[c] = run
      /\ \A j \in Places : j # c => pub'[j] = pub[j]
      /\ \A j \in Places : pub'[j].cmd = pub[j].cmd /\ pub'[j].who = pub[j].who
  <2>1. pub' = [pub EXCEPT ![c] = run]
    BY <1>2 DEF run
  <2> QED
    BY <1>4, <1>6, <2>1 DEF Places
<1>8. /\ entries' \in Seq(Handlers \cup Nat) /\ trimmed' \in Nat /\ Len(entries) <= Len(entries')
      /\ \A h \in Handlers : \A i \in Wanted(h)' : i <= Len(entries) => i \in Wanted(h)
      /\ pub[c].cmd # "add" => UNCHANGED <<entries, trimmed>>
  <2>1. CASE pub[c].cmd = "add"
    <3>1. pub[c].who \in Handlers \cup Nat /\ XAdd(pub[c].who)
      BY <1>2, <1>4, <2>1 DEF Commands
    <3> QED
      BY <1>1, <1>3, <2>1, <3>1, Adds, Indices
  <2>2. CASE pub[c].cmd # "add"
    BY <1>1, <1>2, <1>3, <2>2, Indices DEF FabricTypes, Wanted, Good, Stored, Ids
  <2> QED
    BY <2>1, <2>2
<1>9. /\ \A j \in Places : \A n : IsAnchor(j, n)' <=> IsAnchor(j, n)
      /\ \A j \in Places : \A h : IsRange(j, h)' <=> IsRange(j, h)
  BY <1>7 DEF IsAnchor, IsRange
<1>10. FabricTypes'
  BY <1>1, <1>3, <1>7, <1>8 DEF FabricTypes
<1>11. Belonging'
  BY <1>1, <1>3 DEF Belonging, Subscribed
<1>12. Ordered'
  <2>1. \A j, k \in Places : j < k /\ pub'[k].ran => pub'[j].ran
    BY <1>1, <1>4, <1>6, <1>7 DEF Ordered
  <2> QED
    BY <1>1, <1>3, <1>7, <1>9, <2>1 DEF Ordered, Subscribed
<1>13. Bounded'
  <2>0. Len(entries) \in Nat /\ Len(entries') \in Nat
    BY <1>1, <1>8, Indices
  <2>1. \A x \in Nat : x <= Len(entries) => x <= Len(entries')
    BY <1>8, <2>0
  <2>2. ASSUME NEW j \in Places, NEW n, IsAnchor(j, n), pub'[j].ran, NEW x \in pub'[j].reply
        PROVE  x <= Len(entries')
    <3>1. CASE j = c
      BY <1>5, <1>6, <1>7, <2>1, <2>2, <3>1 DEF IsAnchor
    <3>2. CASE j # c
      <4>1. pub[j].ran /\ x \in pub[j].reply /\ pub[j] \in Commands
        BY <1>1, <1>7, <2>2, <3>2, Indices
      <4> QED
        BY <1>1, <2>1, <2>2, <4>1 DEF Bounded, Commands
    <3> QED
      BY <3>1, <3>2
  <2>3. \A x \in loop.reply : x \in Nat
    BY <1>1 DEF FabricTypes, LoopState
  <2> QED
    BY <1>1, <1>3, <1>7, <1>9, <2>1, <2>2, <2>3 DEF Bounded, Unplaced
<1>14. Covering'
  <2> SUFFICES ASSUME NEW h \in Handlers, Subscribed(h)', Replayed(h)' PROVE Covered(h)'
    BY DEF Covering
  <2>1. Subscribed(h) /\ subs # 0 /\ handler[h].of = subs
    BY <1>1, <1>3 DEF Subscribed, Belonging
  <2>2. CASE IsRange(c, h)
    <3>1. \A i \in Wanted(h)' : i \in Stored
      BY <1>7, <1>8, <2>2 DEF IsRange, Wanted, Good, Stored, Ids
    <3>2. IsRange(c, h)' /\ pub'[c].ran /\ pub'[c].reply = Stored
      BY <1>4, <1>6, <1>7, <1>9, <2>2 DEF IsRange
    <3>3. \A i \in Wanted(h)' : Known(h, i)'
      BY <1>4, <1>7, <3>1, <3>2 DEF Known
    <3> QED
      BY <3>3, AllKnown
  <2>3. CASE ~IsRange(c, h)
    <3>1. Replayed(h)
      BY <1>3, <1>7, <1>9, <2>3 DEF Replayed
    <3>2. Covered(h)
      BY <1>1, <2>1, <3>1 DEF Covering
    <3>3. \A i : Known(h, i) => Known(h, i)'
      BY <1>3, <1>4, <1>7, <1>9 DEF Known
    <3>4. ~IsAnchor(c, subs)
      <4> SUFFICES ASSUME IsAnchor(c, subs) PROVE FALSE
        OBVIOUS
      <4>1. ~handler[h].replayed /\ \A k \in Places : IsRange(k, h) => c < k
        BY <1>1, <1>4, <2>1 DEF Ordered
      <4>2. PICK k \in Places : IsRange(k, h) /\ pub[k].ran
        BY <3>1, <4>1 DEF Replayed
      <4> QED
        BY <1>1, <1>4, <4>1, <4>2 DEF Ordered
    <3>5. \A k \in Places' : IsAnchor(k, subs)' /\ pub'[k].ran =>
            \E j \in Places : IsAnchor(j, subs) /\ pub[j].ran /\ pub'[k].reply = pub[j].reply
      BY <1>3, <1>7, <1>9, <3>4 DEF IsAnchor
    <3> QED
      BY <1>1, <1>3, <1>8, <2>1, <3>2, <3>3, <3>5, StillCovered
  <2> QED
    BY <2>2, <2>3
<1> QED
  BY <1>10, <1>11, <1>12, <1>13, <1>14 DEF FabricInv

\* The commands that were not answered are to be executed again.
LEMMA Reconnecting ==
  ASSUME FabricInv, PubReconnects
  PROVE  FabricInv'
<1>1. FabricTypes /\ Belonging /\ Ordered /\ Bounded /\ Covering
  BY DEF FabricInv
<1>2. /\ pub' = [k \in DOMAIN pub |-> [pub[k] EXCEPT !.ran = FALSE, !.reply = {}]]
      /\ UNCHANGED <<entries, trimmed, published, subs, created, state, handler, loop>>
  BY DEF PubReconnects, redisVars
<1>3. /\ pub' \in Seq(Commands) /\ Places' = Places
      /\ \A k \in Places : /\ pub'[k].cmd = pub[k].cmd /\ pub'[k].who = pub[k].who
                           /\ ~pub'[k].ran
  <2> DEFINE e(k) == [pub[k] EXCEPT !.ran = FALSE, !.reply = {}]
  <2>1. \A k \in Places : /\ e(k) \in Commands /\ e(k).cmd = pub[k].cmd
                          /\ e(k).who = pub[k].who /\ ~e(k).ran
    BY <1>1, Indices DEF Commands
  <2>2. DOMAIN pub = 1..Len(pub) /\ Len(pub) \in Nat
    BY <1>1 DEF FabricTypes
  <2>3. pub' = [k \in 1..Len(pub) |-> e(k)]
    BY <1>2, <2>2
  <2> HIDE DEF e
  <2> QED
    BY <2>1, <2>2, <2>3 DEF Places
<1>4. /\ \A j \in Places : \A n : IsAnchor(j, n)' <=> IsAnchor(j, n)
      /\ \A j \in Places : \A h : IsRange(j, h)' <=> IsRange(j, h)
  BY <1>3 DEF IsAnchor, IsRange
<1>5. FabricTypes'
  BY <1>1, <1>2, <1>3 DEF FabricTypes
<1>6. Belonging'
  BY <1>1, <1>2 DEF Belonging, Subscribed
<1>7. Ordered' /\ Bounded'
  <2>1. \A k \in Places' : ~pub'[k].ran
    BY <1>3
  <2>2. Ordered'
    BY <1>1, <1>2, <1>3, <1>4, <2>1 DEF Ordered, Subscribed
  <2>3. Bounded'
    BY <1>1, <1>2, <2>1 DEF Bounded, Unplaced
  <2> QED
    BY <2>2, <2>3
<1>8. Covering'
  <2> SUFFICES ASSUME NEW h \in Handlers, Subscribed(h)', Replayed(h)' PROVE Covered(h)'
    BY DEF Covering
  <2>1. handler[h].replayed /\ Subscribed(h)
    BY <1>2, <1>3 DEF Replayed, Subscribed
  <2>2. Covered(h) /\ subs # 0
    BY <1>1, <2>1 DEF Covering, Replayed, Belonging
  <2>3. \A k \in Places : ~IsRange(k, h)
    BY <1>1, <2>1 DEF Ordered
  <2>4. \A i \in Wanted(h)' : i \in Wanted(h) /\ (Known(h, i) => Known(h, i)')
    BY <1>2, <2>3 DEF Wanted, Good, Stored, Ids, Known
  <2>5. \A k \in Places' : ~pub'[k].ran
    BY <1>3
  <2> QED
    BY <1>1, <1>2, <2>2, <2>4, <2>5, StillCovered
<1> QED
  BY <1>5, <1>6, <1>7, <1>8 DEF FabricInv

\* The head of the queue is answered: the positions of the others.
LEMMA Answers ==
  ASSUME FabricTypes, Ordered, pub # <<>>, pub' = Tail(pub)
  PROVE  /\ pub' \in Seq(Commands) /\ 1 \in Places /\ Head(pub) = pub[1]
         /\ \A k \in Places' : k + 1 \in Places /\ pub'[k] = pub[k + 1]
         /\ \A k \in Places : k = 1 \/ (k - 1 \in Places' /\ pub'[k - 1] = pub[k])
<1>1. /\ pub \in Seq(Commands) /\ Len(pub) \in Nat \ {0}
      /\ pub' \in Seq(Commands) /\ Len(pub') = Len(pub) - 1 /\ Head(pub) = pub[1]
      /\ \A k \in 1..(Len(pub) - 1) : pub'[k] = pub[k + 1]
  BY DEF FabricTypes
<1>2. \A k \in Places' : k + 1 \in Places /\ pub'[k] = pub[k + 1]
  BY <1>1 DEF Places
<1>3. \A k \in Places : k # 1 => k - 1 \in Places' /\ (k - 1) + 1 = k
  BY <1>1 DEF Places
<1> QED
  BY <1>1, <1>2, <1>3 DEF Places

LEMMA PubAnswering ==
  ASSUME FabricInv, Answered
  PROVE  FabricInv'
<1> DEFINE c == pub[1]
<1>1. FabricTypes /\ Belonging /\ Ordered /\ Bounded /\ Covering
  BY DEF FabricInv
<1>2. /\ pub # <<>> /\ Head(pub).ran /\ pub' = Tail(pub)
      /\ UNCHANGED <<entries, trimmed, published, subs, created, loop>>
  BY DEF Answered, redisVars
<1>3. /\ pub' \in Seq(Commands) /\ 1 \in Places /\ Head(pub) = c /\ c.ran
      /\ \A k \in Places' : k + 1 \in Places /\ pub'[k] = pub[k + 1]
      /\ \A k \in Places : k = 1 \/ (k - 1 \in Places' /\ pub'[k - 1] = pub[k])
  BY <1>1, <1>2, Answers
<1>4. c \in Commands
  BY <1>1, <1>3, Indices
<1>5. /\ c.cmd = "anchor" => AnchorAnswered(c.who, c.reply)
      /\ c.cmd = "range" => RangeAnswered(c.who, c.reply)
      /\ c.cmd = "add" => UNCHANGED <<state, handler>>
  BY <1>3, <1>4 DEF Answered, Commands
<1> HIDE DEF c
<1>6. /\ \A k \in Places' : \A n : IsAnchor(k, n)' <=> IsAnchor(k + 1, n)
      /\ \A k \in Places' : \A h : IsRange(k, h)' <=> IsRange(k + 1, h)
  BY <1>3 DEF IsAnchor, IsRange
<1>7. \A k \in Places' : k \in Nat /\ k >= 1
  BY DEF Places
<1>8. \A j, k \in Places' : j < k => j + 1 < k + 1
  BY <1>7
<1>9. \A j, k \in Places' : j + 1 < k + 1 => j < k
  BY <1>7
<1>10. \A k \in Places' : k + 1 # 1
  BY <1>7
\* What the three cases have in common.
<1>11. SUFFICES
         /\ state' \in [Subs -> SubState] /\ handler' \in [Handlers -> HandlerState]
         /\ Belonging'
         /\ \A h \in Handlers :
              /\ handler'[h].st = handler[h].st /\ handler'[h].after = handler[h].after
              /\ handler'[h].replayed <=>
                   (handler[h].replayed \/ (IsRange(1, h) /\ handler[h].st # "gone"))
         /\ subs # 0 => Unplaced(subs)' \/ (state'[subs].lastId \in Nat
                                              /\ state'[subs].lastId <= Len(entries))
         /\ \A h \in Handlers : Subscribed(h) /\ Covered(h) /\ subs # 0 => Covered(h)'
  <2>1. FabricTypes'
    BY <1>1, <1>2, <1>3, <1>11 DEF FabricTypes
  <2>2. Ordered'
    <3>1. \A j, k \in Places' : j < k /\ pub'[k].ran => pub'[j].ran
      BY <1>1, <1>3, <1>8 DEF Ordered
    <3>2. \A k \in Places' : \A n : IsAnchor(k, n)' => n \in 1..created
      BY <1>1, <1>3, <1>6 DEF Ordered
    <3>3. ASSUME NEW k \in Places', NEW h, IsRange(k, h)'
          PROVE  h \in Handlers /\ handler'[h].st # "out" /\ ~handler'[h].replayed
      <4>1. IsRange(k + 1, h) /\ k + 1 \in Places /\ k + 1 # 1
        BY <1>3, <1>6, <1>10, <3>3
      <4>2. ~IsRange(1, h)
        BY <1>1, <1>3, <4>1 DEF Ordered
      <4> QED
        BY <1>1, <1>11, <4>1, <4>2 DEF Ordered
    <3>4. ASSUME NEW j \in Places', NEW k \in Places', NEW h, IsRange(j, h)', IsRange(k, h)'
          PROVE  j = k
      <4>1. j + 1 = k + 1
        BY <1>1, <1>3, <1>6, <3>4 DEF Ordered
      <4> QED
        BY <1>7, <4>1
    <3>5. ASSUME NEW j \in Places', NEW h \in Handlers, IsAnchor(j, subs)', Subscribed(h)'
          PROVE  ~handler'[h].replayed /\ \A k \in Places' : IsRange(k, h)' => j < k
      <4>1. j + 1 \in Places /\ IsAnchor(j + 1, subs) /\ Subscribed(h)
        BY <1>2, <1>3, <1>6, <1>11, <3>5 DEF IsAnchor, Subscribed
      <4>2. ~handler[h].replayed /\ \A k \in Places : IsRange(k, h) => j + 1 < k
        BY <1>1, <4>1 DEF Ordered
      <4>3. ~IsRange(1, h)
        BY <1>3, <1>7, <4>2
      <4> QED
        BY <1>3, <1>6, <1>9, <1>11, <4>2, <4>3
    <3> QED
      BY <1>2, <3>1, <3>2, <3>3, <3>4, <3>5 DEF Ordered
  <2>3. Bounded'
    BY <1>1, <1>2, <1>3, <1>6, <1>11 DEF Bounded, Unplaced
  <2>4. Covering'
    <3> SUFFICES ASSUME NEW h \in Handlers, Subscribed(h)', Replayed(h)' PROVE Covered(h)'
      BY DEF Covering
    <3>1. Subscribed(h) /\ subs # 0
      BY <1>1, <1>11 DEF Subscribed, Belonging
    <3>2. Replayed(h)
      BY <1>3, <1>6, <1>11 DEF Replayed
    <3> QED
      BY <1>1, <1>11, <3>1, <3>2 DEF Covering
  <2> QED
    BY <1>11, <2>1, <2>2, <2>3, <2>4 DEF FabricInv
<1>12. ASSUME NEW k \in Places', pub'[k].ran, IsAnchor(k, subs)'
       PROVE  \E j \in Places : IsAnchor(j, subs) /\ pub[j].ran /\ pub'[k].reply = pub[j].reply
  <2>1. k + 1 \in Places /\ pub'[k] = pub[k + 1]
    BY <1>3
  <2>2. IsAnchor(k + 1, subs) /\ pub[k + 1].ran /\ pub'[k].reply = pub[k + 1].reply
    BY <1>2, <1>12, <2>1 DEF IsAnchor
  <2> QED
    BY <2>1, <2>2
<1>13. ASSUME handler' = handler, NEW h \in Handlers, c.cmd # "range"
       PROVE  /\ \A i \in Wanted(h)' : i \in Wanted(h) /\ (Known(h, i) => Known(h, i)')
              /\ ~IsRange(1, h)
  <2>1. ~IsRange(1, h)
    BY <1>13 DEF IsRange, c
  <2>2. ASSUME NEW i, Known(h, i) PROVE Known(h, i)'
    <3>1. CASE i \in handler[h].got
      BY <1>13, <3>1 DEF Known
    <3>2. CASE i \notin handler[h].got
      <4>1. PICK k \in Places : IsRange(k, h) /\ pub[k].ran /\ i \in pub[k].reply
        BY <2>2, <3>2 DEF Known
      <4>2. k - 1 \in Places' /\ pub'[k - 1] = pub[k]
        BY <1>3, <2>1, <4>1
      <4>3. IsRange(k - 1, h)'
        BY <4>1, <4>2 DEF IsRange
      <4> QED
        BY <4>1, <4>2, <4>3 DEF Known
    <3> QED
      BY <3>1, <3>2
  <2> QED
    BY <1>2, <1>13, <2>1, <2>2 DEF Wanted, Good, Stored, Ids
<1>14. CASE c.cmd = "add"
  <2>1. UNCHANGED <<state, handler>> /\ c.cmd # "range"
    BY <1>5, <1>14
  <2>2. ASSUME NEW h \in Handlers, Covered(h), subs # 0 PROVE Covered(h)'
    BY <1>1, <1>2, <1>12, <1>13, <2>1, <2>2, StillCovered
  <2> QED
    BY <1>1, <1>2, <1>13, <2>1, <2>2 DEF FabricTypes, Belonging, Subscribed, Bounded, Unplaced
<1>15. CASE c.cmd = "range"
  <2> DEFINE g == c.who
  <2>1. IsRange(1, g) /\ g \in Handlers /\ handler[g].st # "out" /\ ~handler[g].replayed
    BY <1>1, <1>3, <1>15 DEF IsRange, c, Ordered
  <2>2. \A h : h # g => ~IsRange(1, h)
    BY DEF IsRange, c
  <2>3. state' = state /\ c.reply = pub[1].reply /\ pub[1].ran /\ c.reply \subseteq Nat
    BY <1>3, <1>4, <1>5, <1>15 DEF RangeAnswered, c, Commands
  <2> DEFINE e == [handler[g] EXCEPT !.replayed = TRUE,
                     !.got = @ \cup {i \in Good(c.reply) : entries[i] > handler[g].after}]
  <2>4. handler' = IF handler[g].st = "gone" THEN handler ELSE [handler EXCEPT ![g] = e]
    BY <1>5, <1>15 DEF RangeAnswered
  <2>5. /\ e \in HandlerState /\ e.st = handler[g].st /\ e.of = handler[g].of
        /\ e.after = handler[g].after /\ e.replayed
        /\ e.got = handler[g].got \cup {i \in Good(c.reply) : entries[i] > handler[g].after}
    BY <1>1, <2>1, <2>3 DEF FabricTypes, HandlerState, Good
  <2> HIDE DEF g, e
  <2>6. /\ handler' \in [Handlers -> HandlerState]
        /\ \A h \in Handlers : h # g => handler'[h] = handler[h]
        /\ handler[g].st # "gone" => handler'[g] = e
        /\ handler[g].st = "gone" => handler' = handler
    BY <1>1, <2>1, <2>4, <2>5 DEF FabricTypes
  <2>7. \A h \in Handlers :
          /\ handler'[h].st = handler[h].st /\ handler'[h].of = handler[h].of
          /\ handler'[h].after = handler[h].after
          /\ handler'[h].replayed <=>
               (handler[h].replayed \/ (IsRange(1, h) /\ handler[h].st # "gone"))
    BY <2>1, <2>2, <2>5, <2>6
  <2>8. Belonging'
    <3>1. \A h \in Handlers : Subscribed(h)' => Subscribed(h)
      BY <2>7 DEF Subscribed
    <3>2. ASSUME NEW h \in Handlers, handler'[h].st = "out" PROVE ~handler'[h].replayed
      <4>1. handler[h].st = "out" /\ h # g
        BY <2>1, <2>7, <3>2
      <4> QED
        BY <1>1, <2>6, <4>1 DEF Belonging
    <3> QED
      BY <1>1, <1>2, <2>3, <2>7, <3>1, <3>2 DEF Belonging
  <2>9. ASSUME NEW h \in Handlers, Subscribed(h), Covered(h), subs # 0 PROVE Covered(h)'
    <3>1. \A i \in Wanted(h)' : i \in Wanted(h)
      BY <1>2, <2>7 DEF Wanted, Good, Stored, Ids
    <3>2. ASSUME NEW i \in Wanted(h), Known(h, i) PROVE Known(h, i)'
      <4>1. handler[h].got \subseteq handler'[h].got
        BY <2>1, <2>5, <2>6
      <4>2. CASE i \in handler[h].got
        BY <4>1, <4>2 DEF Known
      <4>3. CASE i \notin handler[h].got
        <5>1. PICK k \in Places : IsRange(k, h) /\ pub[k].ran /\ i \in pub[k].reply
          BY <3>2, <4>3 DEF Known
        <5>2. CASE k = 1
          <6>1. h = g /\ i \in c.reply
            BY <2>2, <2>3, <5>1, <5>2
          <6>2. i \in Good(c.reply) /\ entries[i] > handler[g].after
            BY <6>1 DEF Wanted, Good
          <6> QED
            BY <2>5, <2>6, <2>9, <6>1, <6>2 DEF Known, Subscribed
        <5>3. CASE k # 1
          <6>1. k - 1 \in Places' /\ pub'[k - 1] = pub[k]
            BY <1>3, <5>3
          <6>2. IsRange(k - 1, h)'
            BY <5>1, <6>1 DEF IsRange
          <6> QED
            BY <5>1, <6>1, <6>2 DEF Known
        <5> QED
          BY <5>2, <5>3
      <4> QED
        BY <4>2, <4>3
    <3> QED
      BY <1>1, <1>2, <1>12, <2>3, <2>9, <3>1, <3>2, StillCovered
  <2>10. subs # 0 => Unplaced(subs)' \/ (state'[subs].lastId \in Nat
                                           /\ state'[subs].lastId <= Len(entries))
    BY <1>1, <1>2, <2>3 DEF Bounded, Unplaced
  <2> QED
    BY <1>1, <2>3, <2>6, <2>7, <2>8, <2>9, <2>10 DEF FabricTypes
<1>16. CASE c.cmd = "anchor"
  <2> DEFINE n == c.who
  <2>1. IsAnchor(1, n) /\ n \in 1..created /\ n \in Subs /\ c.ran /\ c.reply = pub[1].reply
    <3>1. IsAnchor(1, n) /\ n \in 1..created
      BY <1>1, <1>3, <1>16 DEF IsAnchor, c, Ordered
    <3> QED
      BY <1>1, <1>3, <3>1, FabricAssumption DEF FabricTypes, Subs, c
  <2>2. handler' = handler /\ \E id \in c.reply \cup {0} : Anchor(n, id)
    BY <1>5, <1>16 DEF AnchorAnswered
  <2>3. PICK id \in c.reply \cup {0} : Anchor(n, id)
    BY <2>2
  <2>4. id \in Nat /\ id <= Len(entries)
    BY <1>1, <1>3, <1>4, <2>1, Indices DEF Bounded, Commands, c
  <2> HIDE DEF n
  <2>5. /\ state' \in [Subs -> SubState]
        /\ \A m \in Subs : m # n => state'[m] = state[m]
        /\ state'[n].anchored /\ state'[n].handlers = state[n].handlers
        /\ state'[n].lastId = IF state[n].lastId = Null THEN id ELSE state[n].lastId
    <3> DEFINE e == [state[n] EXCEPT !.anchored = TRUE,
                       !.lastId = IF state[n].lastId = Null THEN id ELSE state[n].lastId]
    <3>1. state[n] \in SubState
      BY <1>1, <2>1 DEF FabricTypes
    <3>2. state' = [state EXCEPT ![n] = e]
      BY <2>1, <2>3, <1>1 DEF Anchor, FabricTypes
    <3>3. /\ e \in SubState /\ e.anchored /\ e.handlers = state[n].handlers
          /\ e.lastId = IF state[n].lastId = Null THEN id ELSE state[n].lastId
      BY <2>4, <3>1 DEF SubState
    <3> HIDE DEF e
    <3> QED
      BY <1>1, <2>1, <3>2, <3>3 DEF FabricTypes
  <2>6. Belonging'
    <3>1. \A m \in Subs : m > created => m # n
      BY <1>1, <2>1, Indices DEF Subs
    <3>2. \A m \in Subs : state'[m].handlers = state[m].handlers
      BY <2>5
    <3>3. subs # 0 => subs \in Subs
      BY <1>1, FabricAssumption DEF FabricTypes, Subs
    <3> QED
      BY <1>1, <1>2, <2>2, <2>5, <3>1, <3>2, <3>3 DEF Belonging, Subscribed
  <2>7. subs # 0 => Unplaced(subs)' \/ (state'[subs].lastId \in Nat
                                          /\ state'[subs].lastId <= Len(entries))
    <3>1. CASE subs = n
      BY <1>1, <1>2, <2>1, <2>4, <2>5, <3>1, Indices DEF Bounded, Unplaced
    <3>2. CASE subs # n
      <4>1. subs # 0 => state'[subs] = state[subs]
        BY <1>1, <2>5, <3>2, FabricAssumption DEF FabricTypes, Subs
      <4> QED
        BY <1>1, <1>2, <4>1 DEF Bounded, Unplaced
    <3> QED
      BY <3>1, <3>2
  <2>8. ASSUME NEW h \in Handlers, Subscribed(h), Covered(h), subs # 0 PROVE Covered(h)'
    <3>1. \A i \in Wanted(h)' : i \in Wanted(h) /\ (Known(h, i) => Known(h, i)')
      BY <1>13, <1>16, <2>2
    <3>2. CASE subs # n
      <4>1. state'[subs] = state[subs]
        BY <1>1, <2>5, <2>8, <3>2, FabricAssumption DEF FabricTypes, Subs
      <4> QED
        BY <1>1, <1>2, <1>12, <2>8, <3>1, <4>1, StillCovered
    <3>3. CASE subs = n
      <4>1. \A i \in Wanted(h) : i \in Nat /\ i >= 1
        BY <1>1, Indices
      <4>2. HasUpTo(h, id)
        <5>1. CASE id \in c.reply
          BY <1>3, <2>1, <2>8, <3>3, <5>1 DEF Covered
        <5>2. CASE id = 0
          BY <4>1, <5>2 DEF HasUpTo
        <5> QED
          BY <5>1, <5>2
      <4>3. HasUpTo(h, state'[subs].lastId)
        BY <2>5, <2>8, <3>3, <4>2 DEF Covered, Unplaced
      <4>4. HasUpTo(h, state[subs].lastId)'
        BY <1>2, <3>1, <4>3 DEF HasUpTo
      <4>5. loop.pc = "blocked" => HasUpTo(h, loop.from)'
        BY <1>2, <2>8, <3>1 DEF Covered, HasUpTo
      <4>6. loop.pc = "answered" => \A i \in Wanted(h)' : \A x \in loop.reply :
              i <= x => Known(h, i)' \/ i \in loop.reply
        BY <2>8, <3>1 DEF Covered
      <4>7. \A k \in Places' : IsAnchor(k, subs)' /\ pub'[k].ran =>
              \A x \in pub'[k].reply : HasUpTo(h, x)'
        BY <1>12, <2>8, <3>1 DEF Covered, HasUpTo
      <4> QED
        BY <1>2, <4>4, <4>5, <4>6, <4>7 DEF Covered
    <3> QED
      BY <3>2, <3>3
  <2> QED
    BY <1>1, <1>13, <1>16, <2>2, <2>5, <2>6, <2>7, <2>8 DEF FabricTypes
<1> QED
  BY <1>4, <1>14, <1>15, <1>16 DEF Commands

-----------------------------------------------------------------------------
(* The read loop.                                                          *)

\* A step of the loop alone: only what the loop was at needs a proof.
LEMMA LoopAlone ==
  ASSUME FabricInv,
         UNCHANGED <<entries, trimmed, published, pub, subs, created, state, handler>>,
         loop' \in LoopState,
         loop'.pc = "blocked" => loop'.from \in Nat /\ loop'.from <= Len(entries),
         loop'.pc = "answered" => \A x \in loop'.reply : x <= Len(entries),
         \A h \in Handlers : subs # 0 /\ Covered(h) =>
           /\ loop'.pc = "blocked" => HasUpTo(h, loop'.from)
           /\ loop'.pc = "answered" => \A i \in Wanted(h) : \A x \in loop'.reply :
                i <= x => Known(h, i) \/ i \in loop'.reply
  PROVE  FabricInv'
<1>1. FabricTypes /\ Belonging /\ Ordered /\ Bounded /\ Covering
  BY DEF FabricInv
<1>2. Places' = Places
  BY DEF Places
<1>3. FabricTypes'
  BY <1>1 DEF FabricTypes
<1>4. Belonging' /\ Ordered'
  BY <1>1, <1>2 DEF Belonging, Subscribed, Ordered, IsAnchor, IsRange
<1>5. Bounded'
  BY <1>1, <1>2 DEF Bounded, Unplaced, IsAnchor
<1>6. Covering'
  <2> SUFFICES ASSUME NEW h \in Handlers, Subscribed(h)', Replayed(h)' PROVE Covered(h)'
    BY DEF Covering
  <2>1. Subscribed(h) /\ Replayed(h)
    BY <1>2 DEF Subscribed, Replayed, IsRange
  <2>2. Covered(h) /\ subs # 0
    BY <1>1, <2>1 DEF Covering, Belonging
  <2>3. Wanted(h)' = Wanted(h) /\ \A i : Known(h, i)' <=> Known(h, i)
    BY <1>2 DEF Wanted, Good, Stored, Ids, Known, IsRange
  <2>4. \A x \in Nat \cup {Null} : HasUpTo(h, x) => \A i \in Wanted(h)' : i <= x => Known(h, i)'
    BY <2>3 DEF HasUpTo
  <2>5. Unplaced(subs)' \/ \A i \in Wanted(h)' : i <= state'[subs'].lastId => Known(h, i)'
    BY <2>2, <2>3 DEF Covered, HasUpTo, Unplaced
  <2>6. loop'.pc = "blocked" => \A i \in Wanted(h)' : i <= loop'.from => Known(h, i)'
    BY <2>2, <2>3 DEF HasUpTo
  <2>7. loop'.pc = "answered" => \A i \in Wanted(h)' : \A x \in loop'.reply :
          i <= x => Known(h, i)' \/ i \in loop'.reply
    BY <2>2, <2>3
  <2>8. \A k \in Places' : IsAnchor(k, subs)' /\ pub'[k].ran =>
          \A x \in pub'[k].reply : \A i \in Wanted(h)' : i <= x => Known(h, i)'
    BY <1>2, <2>2, <2>3 DEF Covered, HasUpTo, IsAnchor
  <2> QED
    BY <2>5, <2>6, <2>7, <2>8 DEF Covered, HasUpTo
<1> QED
  BY <1>3, <1>4, <1>5, <1>6 DEF FabricInv

LEMMA IdleIsFine == Idle \in LoopState /\ Idle.pc = "idle"
BY DEF Idle, LoopState

LEMMA LoopReading ==
  ASSUME FabricInv, XRead
  PROVE  FabricInv'
<1>1. FabricTypes /\ Bounded
  BY DEF FabricInv
<1>2. /\ subs # 0 /\ ~Unplaced(subs)
      /\ UNCHANGED <<entries, trimmed, published, pub, subs, created, state, handler>>
  BY DEF XRead, redisVars, Unplaced
<1>3. state[subs].lastId \in Nat /\ state[subs].lastId <= Len(entries)
  BY <1>1, <1>2 DEF Bounded
<1>4. loop' \in LoopState /\ loop'.pc = "blocked" /\ loop'.from = state[subs].lastId
  BY <1>3 DEF XRead, Idle, LoopState
<1>5. \A h \in Handlers : Covered(h) => HasUpTo(h, state[subs].lastId)
  BY <1>2 DEF Covered
<1> QED
  BY <1>2, <1>3, <1>4, <1>5, LoopAlone

LEMMA Replying ==
  ASSUME FabricInv, XReadReplies
  PROVE  FabricInv'
<1> DEFINE ids == {i \in Stored : i > loop.from}
<1>1. FabricTypes /\ Bounded
  BY DEF FabricInv
<1>2. /\ loop.pc = "blocked"
      /\ loop' = IF ids = {} THEN Idle ELSE [Idle EXCEPT !.pc = "answered", !.reply = ids]
      /\ UNCHANGED <<entries, trimmed, published, pub, subs, created, state, handler>>
  BY DEF XReadReplies, redisVars
<1>3. /\ loop.from \in Nat
      /\ \A i \in ids : i \in Nat /\ i <= Len(entries)
  BY <1>1, <1>2, Indices DEF Bounded, Stored, Ids
<1>4. \A h \in Handlers : \A i \in Wanted(h) : i <= loop.from \/ i \in ids
  BY <1>1, <1>3, Indices DEF Wanted, Good, Stored, Ids
<1> HIDE DEF ids
<1>5. ids \in SUBSET Nat
  BY <1>3
<1>6. CASE ids = {}
  BY <1>2, <1>6, IdleIsFine, LoopAlone
<1>7. CASE ids # {}
  <2>1. loop' \in LoopState /\ loop'.pc = "answered" /\ loop'.reply = ids
    BY <1>2, <1>5, <1>7 DEF Idle, LoopState
  <2>2. ASSUME NEW h \in Handlers, Covered(h), NEW i \in Wanted(h)
        PROVE  Known(h, i) \/ i \in ids
    BY <1>2, <1>4, <2>2 DEF Covered, HasUpTo
  <2> QED
    BY <1>2, <1>3, <2>1, <2>2, LoopAlone
<1> QED
  BY <1>6, <1>7

LEMMA Failing ==
  ASSUME FabricInv, ReadFails
  PROVE  FabricInv'
BY IdleIsFine, LoopAlone DEF ReadFails, redisVars

LEMMA Dispatching ==
  ASSUME FabricInv, Dispatch
  PROVE  FabricInv'
<1> DEFINE ids == loop.reply
           given(h) == IF h \in state[subs].handlers
                     THEN [handler[h] EXCEPT !.got = @ \cup Good(ids)] ELSE handler[h]
<1>1. FabricTypes /\ Belonging /\ Ordered /\ Bounded /\ Covering
  BY DEF FabricInv
<1>2. /\ loop.pc = "answered" /\ loop' = Idle
      /\ UNCHANGED <<entries, trimmed, published, pub, subs, created>>
  BY DEF Dispatch, redisVars
<1>3. CASE UNCHANGED <<state, handler>>
  BY <1>2, <1>3, IdleIsFine, LoopAlone
<1>4. ASSUME subs # 0, NEW last \in ids, \A i \in ids : i <= last,
             state' = [state EXCEPT ![subs].lastId = last],
             handler' = [h \in Handlers |-> given(h)]
      PROVE  FabricInv'
  <2>1. ids \subseteq Nat /\ last \in Nat /\ last <= Len(entries) /\ subs \in Subs
        /\ subs <= created
    BY <1>1, <1>2, <1>4, FabricAssumption DEF FabricTypes, LoopState, Bounded, Subs
  <2>2. /\ state' \in [Subs -> SubState]
        /\ \A m \in Subs : m # subs => state'[m] = state[m]
        /\ state'[subs].lastId = last /\ state'[subs].handlers = state[subs].handlers
        /\ state'[subs].anchored = state[subs].anchored
    <3> DEFINE e == [state[subs] EXCEPT !.lastId = last]
    <3>1. state[subs] \in SubState
      BY <1>1, <2>1 DEF FabricTypes
    <3>2. e \in SubState /\ e.lastId = last /\ e.handlers = state[subs].handlers
          /\ e.anchored = state[subs].anchored
      BY <2>1, <3>1 DEF SubState
    <3>3. state' = [state EXCEPT ![subs] = e]
      BY <1>4
    <3> HIDE DEF e
    <3> QED
      BY <1>1, <2>1, <3>2, <3>3 DEF FabricTypes
  <2>3. ASSUME NEW h \in Handlers
        PROVE  /\ given(h) \in HandlerState
               /\ given(h).st = handler[h].st /\ given(h).of = handler[h].of
               /\ given(h).after = handler[h].after /\ given(h).replayed = handler[h].replayed
               /\ handler[h].got \subseteq given(h).got
               /\ h \in state[subs].handlers => Good(ids) \subseteq given(h).got
    <3>1. handler[h] \in HandlerState /\ Good(ids) \subseteq Nat
      BY <1>1, <2>1 DEF FabricTypes, Good
    <3> QED
      BY <3>1 DEF HandlerState
  <2> HIDE DEF given, ids
  <2>4. /\ handler' \in [Handlers -> HandlerState]
        /\ \A h \in Handlers :
             /\ handler'[h].st = handler[h].st /\ handler'[h].of = handler[h].of
             /\ handler'[h].after = handler[h].after
             /\ handler'[h].replayed = handler[h].replayed
             /\ handler[h].got \subseteq handler'[h].got
             /\ h \in state[subs].handlers => Good(ids) \subseteq handler'[h].got
    BY <1>4, <2>3
  <2>5. loop' \in LoopState /\ loop'.pc = "idle" /\ Places' = Places
    BY <1>2, IdleIsFine DEF Places
  <2>6. FabricTypes'
    BY <1>1, <1>2, <2>2, <2>4, <2>5 DEF FabricTypes
  <2>7. Belonging'
    <3>1. \A h \in Handlers : Subscribed(h)' <=> Subscribed(h)
      BY <2>4 DEF Subscribed
    <3>2. \A m \in Subs : m > created => m # subs
      BY <1>1, <2>1, Indices DEF Subs
    <3> QED
      BY <1>1, <1>2, <2>1, <2>2, <2>4, <3>1, <3>2 DEF Belonging
  <2>8. Ordered'
    <3>1. /\ \A k \in Places' : \A n : IsAnchor(k, n)' <=> IsAnchor(k, n)
          /\ \A k \in Places' : \A h : IsRange(k, h)' <=> IsRange(k, h)
      BY <1>2, <2>5 DEF IsAnchor, IsRange
    <3>2. \A h \in Handlers : Subscribed(h)' <=> Subscribed(h)
      BY <2>4 DEF Subscribed
    <3> QED
      BY <1>1, <1>2, <2>4, <2>5, <3>1, <3>2 DEF Ordered
  <2>9. Bounded'
    BY <1>1, <1>2, <2>1, <2>2, <2>5 DEF Bounded, IsAnchor
  <2>10. Covering'
    <3> SUFFICES ASSUME NEW h \in Handlers, Subscribed(h)', Replayed(h)' PROVE Covered(h)'
      BY DEF Covering
    <3>1. Subscribed(h) /\ Replayed(h)
      BY <1>2, <2>4, <2>5 DEF Subscribed, Replayed, IsRange
    <3>2. Covered(h) /\ h \in state[subs].handlers
      BY <1>1, <3>1 DEF Covering, Belonging
    <3>3. Wanted(h)' = Wanted(h) /\ \A i : Known(h, i) => Known(h, i)'
      BY <1>2, <2>4, <2>5 DEF Wanted, Good, Stored, Ids, Known, IsRange
    <3>4. \A i \in Wanted(h)' : i <= last => Known(h, i)'
      <4> SUFFICES ASSUME NEW i \in Wanted(h), i <= last PROVE Known(h, i)'
        BY <3>3
      <4>1. CASE Known(h, i)
        BY <3>3, <4>1
      <4>2. CASE i \in ids
        <5>1. i \in Good(ids)
          BY <4>2 DEF Wanted, Good
        <5> QED
          BY <2>4, <3>2, <5>1 DEF Known
      <4>3. Known(h, i) \/ i \in ids
        BY <1>2, <1>4, <3>2 DEF Covered, ids
      <4> QED
        BY <4>1, <4>2, <4>3
    <3>5. \A k \in Places' : IsAnchor(k, subs)' /\ pub'[k].ran =>
            \A x \in pub'[k].reply : \A i \in Wanted(h)' : i <= x => Known(h, i)'
      BY <1>2, <2>5, <3>2, <3>3 DEF Covered, HasUpTo, IsAnchor
    <3>6. state'[subs'].lastId = last
      BY <1>2, <2>2
    <3> QED
      BY <2>5, <3>4, <3>5, <3>6 DEF Covered, HasUpTo
  <2> QED
    BY <2>6, <2>7, <2>8, <2>9, <2>10 DEF FabricInv
<1> QED
  BY <1>3, <1>4 DEF Dispatch, Handled

-----------------------------------------------------------------------------
LEMMA FabricSteps == FabricInv /\ [FabricNext]_fabricVars => FabricInv'
<1> SUFFICES ASSUME FabricInv, [FabricNext]_fabricVars PROVE FabricInv'
  OBVIOUS
<1>1. CASE UNCHANGED fabricVars
  <2>1. FabricTypes
    BY DEF FabricInv
  <2>2. /\ UNCHANGED <<entries, trimmed, published, pub, subs, created, state, handler>>
        /\ loop' = loop
    BY <1>1 DEF fabricVars, redisVars
  <2>3. loop \in LoopState /\ Bounded
    BY DEF FabricInv, FabricTypes
  <2> QED
    BY <2>2, <2>3, LoopAlone DEF Bounded, Covered
<1>2. ASSUME NEW h \in Handlers, Unsubscribe(h) PROVE FabricInv'
  BY <1>2, Unsubscribing
<1>3. ASSUME NEW h \in Handlers, NEW after \in AfterSeqs, Subscribe(h, after) PROVE FabricInv'
  BY <1>3, Subscribing
<1>4. CASE Publish
  BY <1>4, Publishing
<1>5. CASE PublishElsewhere
  BY <1>5, PublishingElsewhere
<1>6. CASE Execute
  BY <1>6, Executing
<1>7. CASE Answered
  BY <1>7, PubAnswering
<1>8. CASE PubReconnects
  BY <1>8, Reconnecting
<1>9. CASE XRead
  BY <1>9, LoopReading
<1>10. CASE XReadReplies
  BY <1>10, Replying
<1>11. CASE Dispatch
  BY <1>11, Dispatching
<1>12. CASE ReadFails
  BY <1>12, Failing
<1> QED
  BY <1>1, <1>2, <1>3, <1>4, <1>5, <1>6, <1>7, <1>8, <1>9, <1>10, <1>11, <1>12
     DEF FabricNext, ConnAct, LoopAct

LEMMA InvHasNothingMissed == FabricInv => NothingMissed
<1> SUFFICES ASSUME FabricInv, NEW h \in Handlers, Subscribed(h), handler[h].replayed,
                    state[handler[h].of].lastId # Null,
                    NEW i \in Wanted(h), i <= state[handler[h].of].lastId
             PROVE  i \in handler[h].got
  BY DEF NothingMissed
<1>1. FabricTypes /\ Belonging /\ Ordered /\ Bounded /\ Covering
  BY DEF FabricInv
<1>2. handler[h].of = subs /\ Covered(h)
  BY <1>1 DEF Belonging, Covering, Replayed
<1>3. Known(h, i)
  BY <1>2 DEF Covered, Unplaced, HasUpTo
<1>4. \A k \in Places : ~IsRange(k, h)
  BY <1>1 DEF Ordered
<1> QED
  BY <1>3, <1>4 DEF Known

\* Once its replay was answered, a subscriber has every frame it asked for up to
\* the point the read loop goes on from, unless it was trimmed: for any number of
\* handlers, entries and broken connections (subscribe's anchor, asked for
\* before the replay on the same connection, and the read loop's last id).
THEOREM MissedNever == FabricSpec => []NothingMissed
<1>1. FabricInit => FabricInv
  BY FabricInitially
<1>2. FabricInv /\ [FabricNext]_fabricVars => FabricInv'
  BY FabricSteps
<1>3. FabricInv => NothingMissed
  BY InvHasNothingMissed
<1> QED
  BY <1>1, <1>2, <1>3, PTL DEF FabricSpec

-----------------------------------------------------------------------------
(* Listener: the deadlines of one socket.                                  *)

Clock == [tracked : BOOLEAN, elapsed : 0..RequestTimeout, headersDone : BOOLEAN,
          done : BOOLEAN, timer : Nat]
Request == [current : BOOLEAN, read : BOOLEAN, aborted : BOOLEAN]
ParserPlaces == {"fresh", "head", "body", "between"}
Socket == [st : {"new", "handshake", "open", "gone"}, at : ParserPlaces, age : 0..RequestTimeout,
           shared : BOOLEAN, idle : Nat,
           why : {"", "handshake", "peer", "deadline", "idle", "answered", "stop"},
           late : BOOLEAN]
Chunked == [at : ParserPlaces, age : 0..RequestTimeout, shared : BOOLEAN, clock : Clock,
            reqs : Seq(Request), ended : BOOLEAN, cut : BOOLEAN]

\* The variables have their types.
ListenerTypeOK ==
  /\ idle \in [given : BOOLEAN, ms : Nat]
  /\ sock \in [Sockets -> Socket]
  /\ entry \in [Sockets -> Clock]
  /\ requests \in [Sockets -> Seq(Request)]

\* Which requests can still finish the clock of their socket.
NoneCurrent(reqs) == \A i \in DOMAIN reqs : ~reqs[i].current
LastCurrent(reqs) == reqs # <<>> /\ reqs[Len(reqs)].current
OnlyLast(reqs) == \A i \in DOMAIN reqs : i # Len(reqs) => ~reqs[i].current

\* The deadline a running clock is armed for.
Due(clock) == IF clock.headersDone THEN RequestTimeout ELSE HeadersTimeout
Running(clock) ==
  /\ clock.tracked
  /\ clock.done => clock.timer = Off
  /\ ~clock.done => clock.timer + clock.elapsed = Due(clock)

\* A socket between two chunks.
Shape(at, age, shared, clock, reqs) ==
  /\ Running(clock) /\ OnlyLast(reqs)
  /\ at = "between" => clock.done
  /\ at = "body" /\ reqs = <<>> => clock.done
  /\ at = "body" /\ reqs # <<>> => LastCurrent(reqs) /\ ~clock.done /\ clock.headersDone
  /\ at \in {"fresh", "head"} /\ ~clock.done => ~clock.headersDone /\ NoneCurrent(reqs)
  /\ at \in {"fresh", "head"} /\ ~shared => ~clock.done
  /\ ~shared /\ ~clock.done => age = clock.elapsed
Shaped(st) == Shape(st.at, st.age, st.shared, st.clock, st.reqs)

\* A socket before the first event of a chunk that is not part of a body.
Ready(st) ==
  /\ st \in Chunked /\ st.at # "body" /\ ~st.ended /\ ~st.cut
  /\ Running(st.clock) /\ ~st.clock.done /\ ~st.clock.headersDone /\ NoneCurrent(st.reqs)
  /\ IF st.at = "between" THEN st.clock.elapsed = 0
     ELSE st.shared \/ st.age = st.clock.elapsed

LInv ==
  /\ ListenerTypeOK
  /\ \A s \in Sockets :
       /\ IF SocketOpen(s)
          THEN /\ Shape(sock[s].at, sock[s].age, sock[s].shared, entry[s], requests[s])
               /\ sock[s].why = ""
          ELSE entry[s] = Untracked
       /\ sock[s].st \in {"new", "handshake"} =>
            /\ sock[s].at = "fresh" /\ sock[s].age = 0 /\ ~sock[s].shared /\ sock[s].why = ""
            /\ requests[s] = <<>>

----------------------------------------------------------------------------
(* Clocks and lists of requests.                                           *)

LEMMA RemainsBounded ==
  ASSUME NEW c \in Clock
  PROVE  RemainingMs(c) \in Nat
BY ListenerAssumption DEF RemainingMs, Smaller, Left, Clock

LEMMA RemainsDue ==
  ASSUME NEW c \in Clock
  PROVE  RemainingMs(c) = IF c.elapsed < Due(c) THEN Due(c) - c.elapsed ELSE 0
BY ListenerAssumption DEF RemainingMs, Smaller, Left, Clock, Due

LEMMA Armed ==
  ASSUME NEW c \in Clock, c.tracked, ~c.done
  PROVE  /\ Arm(c) \in Clock
         /\ Arm(c).tracked /\ ~Arm(c).done /\ Arm(c).headersDone = c.headersDone
         /\ Arm(c).elapsed = c.elapsed /\ Arm(c).timer = RemainingMs(c)
BY RemainsBounded DEF Arm, Clock

LEMMA ClockTypes ==
  /\ Untracked \in Clock /\ FreshClock \in Clock
  /\ ~Untracked.tracked /\ Untracked.done /\ Untracked.timer = Off
  /\ FreshClock.tracked /\ ~FreshClock.done /\ ~FreshClock.headersDone /\ FreshClock.elapsed = 0
<1>1. 0 \in 0..RequestTimeout /\ Off \in Nat BY ListenerAssumption
<1>2. /\ Untracked \in Clock /\ ~Untracked.tracked /\ Untracked.done /\ Untracked.timer = Off
      /\ ~Untracked.headersDone /\ Untracked.elapsed = 0
  BY <1>1 DEF Untracked, Clock
<1>3. FreshClock \in Clock BY <1>2 DEF FreshClock, Clock
<1>4. /\ FreshClock.tracked /\ ~FreshClock.done /\ ~FreshClock.headersDone
      /\ FreshClock.elapsed = 0
  BY <1>2 DEF FreshClock, Clock
<1> QED BY <1>2, <1>3, <1>4

LEMMA ArmFresh ==
  Arm(FreshClock) \in Clock /\ Running(Arm(FreshClock))
  /\ Arm(FreshClock).elapsed = 0 /\ ~Arm(FreshClock).done /\ ~Arm(FreshClock).headersDone
<1>1. RemainingMs(FreshClock) = HeadersTimeout
  BY RemainsDue, ClockTypes, ListenerAssumption DEF Due
<1> QED BY <1>1, Armed, ClockTypes, ListenerAssumption DEF Running, Due

LEMMA FinishStops ==
  ASSUME NEW c \in Clock, c.tracked
  PROVE  Finish(c) \in Clock /\ Running(Finish(c)) /\ Finish(c).done
<1>1. 0 \in 0..RequestTimeout /\ Off \in Nat BY ListenerAssumption
<1>2. Finish(c) \in Clock BY <1>1 DEF Finish, Clock
<1>3. Finish(c).tracked /\ Finish(c).done /\ Finish(c).timer = Off BY <1>1 DEF Finish, Clock
<1> QED BY <1>2, <1>3 DEF Running

\* arm when the headers are there: the deadline has passed, or the clock is
\* armed for the request's.
LEMMA ArmHeaders ==
  ASSUME NEW c \in Clock, Running(c), ~c.done,
         NEW d, d = Arm([c EXCEPT !.headersDone = TRUE])
  PROVE  /\ d \in Clock /\ d.headersDone /\ ~d.done /\ d.elapsed = c.elapsed
         /\ d.timer # 0 => Running(d)
         /\ d.timer = 0 => c.elapsed = Due(c) /\ c.elapsed = RequestTimeout
<1> DEFINE e == [c EXCEPT !.headersDone = TRUE]
<1>1. e \in Clock /\ e.tracked /\ ~e.done /\ e.headersDone /\ e.elapsed = c.elapsed
  BY DEF Clock, Running
<1>2. d = Arm(e) OBVIOUS
<1> HIDE DEF e
<1>3. /\ d \in Clock /\ d.tracked /\ ~d.done /\ d.headersDone /\ d.elapsed = c.elapsed
      /\ d.timer = IF c.elapsed < RequestTimeout THEN RequestTimeout - c.elapsed ELSE 0
  BY <1>1, <1>2, Armed, RemainsDue DEF Due
<1>4. c.elapsed \in Nat /\ c.timer \in Nat /\ c.timer + c.elapsed = Due(c)
  BY ListenerAssumption DEF Clock, Running
<1> QED BY <1>3, <1>4, ListenerAssumption DEF Running, Due

LEMMA RequestMarks ==
  ASSUME NEW r \in Request
  PROVE  /\ [r EXCEPT !.current = FALSE] \in Request
         /\ [r EXCEPT !.current = FALSE].current = FALSE
         /\ [r EXCEPT !.aborted = TRUE] \in Request
BY DEF Request

LEMMA SupersedeNone ==
  ASSUME NEW reqs \in Seq(Request)
  PROVE  /\ Supersede(reqs) \in Seq(Request) /\ NoneCurrent(Supersede(reqs))
         /\ Len(Supersede(reqs)) = Len(reqs) /\ DOMAIN Supersede(reqs) = DOMAIN reqs
<1>1. DOMAIN reqs = 1..Len(reqs) /\ Len(reqs) \in Nat OBVIOUS
<1>2. \A i \in DOMAIN reqs : /\ [reqs[i] EXCEPT !.current = FALSE] \in Request
                            /\ [reqs[i] EXCEPT !.current = FALSE].current = FALSE
  <2> SUFFICES ASSUME NEW i \in DOMAIN reqs
               PROVE  /\ [reqs[i] EXCEPT !.current = FALSE] \in Request
                      /\ [reqs[i] EXCEPT !.current = FALSE].current = FALSE
    OBVIOUS
  <2>1. reqs[i] \in Request OBVIOUS
  <2> QED BY <2>1, RequestMarks
<1>3. Supersede(reqs) \in Seq(Request) /\ Len(Supersede(reqs)) = Len(reqs)
  BY <1>1, <1>2 DEF Supersede
<1>4. \A i \in DOMAIN reqs : Supersede(reqs)[i].current = FALSE
  BY <1>2 DEF Supersede
<1> QED BY <1>1, <1>3, <1>4 DEF NoneCurrent

LEMMA AppendLast ==
  ASSUME NEW reqs \in Seq(Request), NoneCurrent(reqs), NEW r \in Request, r.current
  PROVE  /\ Append(reqs, r) \in Seq(Request)
         /\ OnlyLast(Append(reqs, r)) /\ LastCurrent(Append(reqs, r))
BY DEF NoneCurrent, OnlyLast, LastCurrent

LEMMA TailOnlyLast ==
  ASSUME NEW reqs \in Seq(Request), reqs # <<>>, OnlyLast(reqs)
  PROVE  /\ Tail(reqs) \in Seq(Request) /\ OnlyLast(Tail(reqs))
         /\ reqs[1].current => Tail(reqs) = <<>>
         /\ ~reqs[1].current /\ LastCurrent(reqs) => LastCurrent(Tail(reqs))
         /\ NoneCurrent(reqs) => NoneCurrent(Tail(reqs))
<1>1. /\ Tail(reqs) \in Seq(Request) /\ Len(Tail(reqs)) = Len(reqs) - 1
      /\ Len(reqs) \in Nat /\ Len(reqs) > 0
      /\ \A i \in 1..Len(reqs) - 1 : Tail(reqs)[i] = reqs[i + 1]
      /\ DOMAIN reqs = 1..Len(reqs) /\ DOMAIN Tail(reqs) = 1..Len(reqs) - 1
  OBVIOUS
<1>2. reqs[1].current => Len(reqs) = 1 BY <1>1 DEF OnlyLast
<1>3. Len(reqs) = 1 => Tail(reqs) = <<>> BY <1>1
<1>4. ~reqs[1].current /\ LastCurrent(reqs) => LastCurrent(Tail(reqs))
  <2> HAVE ~reqs[1].current /\ LastCurrent(reqs)
  <2>1. Len(reqs) > 1 BY <1>1 DEF LastCurrent
  <2>2. Tail(reqs)[Len(reqs) - 1] = reqs[Len(reqs)] BY <1>1, <2>1
  <2>3. Tail(reqs) # <<>>
    <3>1. Len(Tail(reqs)) # 0 BY <1>1, <2>1
    <3>2. Len(<<>>) = 0 OBVIOUS
    <3> QED BY <3>1, <3>2
  <2>4. Tail(reqs)[Len(Tail(reqs))].current BY <1>1, <2>2 DEF LastCurrent
  <2> QED BY <2>3, <2>4 DEF LastCurrent
<1>5. OnlyLast(Tail(reqs)) BY <1>1 DEF OnlyLast
<1>6. NoneCurrent(reqs) => NoneCurrent(Tail(reqs)) BY <1>1 DEF NoneCurrent
<1> QED BY <1>1, <1>2, <1>3, <1>4, <1>5, <1>6

LEMMA AbortTyped ==
  ASSUME NEW reqs \in Seq(Request) PROVE AbortIfClientGone(reqs) \in Seq(Request)
<1>1. \A i \in DOMAIN reqs : [reqs[i] EXCEPT !.aborted = TRUE] \in Request
  <2> SUFFICES ASSUME NEW i \in DOMAIN reqs PROVE [reqs[i] EXCEPT !.aborted = TRUE] \in Request
    OBVIOUS
  <2>1. reqs[i] \in Request OBVIOUS
  <2> QED BY <2>1, RequestMarks
<1> QED BY <1>1 DEF AbortIfClientGone

----------------------------------------------------------------------------
(* The events of a chunk.                                                  *)

\* What watch's own listener makes of a socket, before the parser runs.
LEMMA DataReady ==
  ASSUME NEW st \in Chunked, Shaped(st), st.at # "body", ~st.ended, ~st.cut
  PROVE  /\ Ready(OnData(st)) /\ OnData(st).at = st.at
         /\ OnData(st).shared = st.shared /\ OnData(st).age = st.age
         /\ ~st.clock.done => OnData(st) = st
<1>1. st.clock.tracked /\ st.clock \in Clock /\ st.reqs \in Seq(Request)
  BY DEF Shaped, Shape, Running, Chunked
<1>2. CASE ~st.clock.done
  <2>1. OnData(st) = st BY <1>2 DEF OnData
  <2>2. st.at \in {"fresh", "head"} BY <1>2 DEF Shaped, Shape, Chunked, ParserPlaces
  <2> QED BY <1>2, <2>1, <2>2 DEF Ready, Shaped, Shape
<1>3. CASE st.clock.done
  <2>1. OnData(st) = [st EXCEPT !.clock = Arm(FreshClock), !.reqs = Supersede(st.reqs)]
    BY <1>1, <1>3 DEF OnData
  <2>2. /\ OnData(st) \in Chunked
        /\ OnData(st).clock = Arm(FreshClock) /\ OnData(st).reqs = Supersede(st.reqs)
        /\ OnData(st).at = st.at /\ OnData(st).shared = st.shared /\ OnData(st).age = st.age
        /\ OnData(st).ended = st.ended /\ OnData(st).cut = st.cut
    BY <1>1, <2>1, ArmFresh, SupersedeNone DEF Chunked
  <2>3. st.at # "between" => st.shared
    BY <1>3 DEF Shaped, Shape, Chunked, ParserPlaces
  <2> QED BY <1>1, <1>3, <2>2, <2>3, ArmFresh, SupersedeNone DEF Ready
<1> QED BY <1>2, <1>3

\* A request whose headers are there, on a tracked socket.
LEMMA Noted ==
  ASSUME NEW st \in Chunked, Running(st.clock), st.clock.tracked
  PROVE  LET r == NoteRequest(st) IN
         /\ r \in Chunked /\ r.at = st.at /\ r.age = st.age /\ r.shared = st.shared
         /\ r.ended = st.ended
         /\ OnlyLast(r.reqs) /\ LastCurrent(r.reqs) /\ ~r.clock.done /\ r.clock.headersDone
         /\ r.clock.tracked
         /\ r.clock.elapsed = IF st.clock.done THEN 0 ELSE st.clock.elapsed
         /\ ~r.cut => Running(r.clock)
         /\ r.cut => /\ ~st.clock.done /\ st.clock.elapsed = RequestTimeout
                     /\ st.clock.elapsed = Due(st.clock)
<1> DEFINE clock == IF st.clock.done THEN FreshClock ELSE st.clock
           req == [current |-> TRUE, read |-> FALSE, aborted |-> FALSE]
<1>1. PICK armed : armed = Arm([clock EXCEPT !.headersDone = TRUE]) OBVIOUS
<1>2. req \in Request /\ req.current BY DEF Request
<1>3. st.clock \in Clock /\ st.reqs \in Seq(Request) BY DEF Chunked
<1>4. NoteRequest(st) = [st EXCEPT !.clock = armed, !.cut = armed.timer = 0,
                                   !.reqs = Append(Supersede(st.reqs), req)]
  BY <1>1 DEF NoteRequest
<1> HIDE DEF req
<1>5. /\ Append(Supersede(st.reqs), req) \in Seq(Request)
      /\ OnlyLast(Append(Supersede(st.reqs), req)) /\ LastCurrent(Append(Supersede(st.reqs), req))
  BY <1>2, <1>3, SupersedeNone, AppendLast
<1>6. /\ armed \in Clock /\ armed.headersDone /\ ~armed.done /\ armed.tracked
      /\ armed.elapsed = clock.elapsed
      /\ armed.timer # 0 => Running(armed)
      /\ armed.timer = 0 => /\ ~st.clock.done /\ st.clock.elapsed = RequestTimeout
                            /\ st.clock.elapsed = Due(st.clock)
  <2>1. CASE ~st.clock.done
    <3>1. clock = st.clock BY <2>1
    <3>2. armed.tracked BY <1>1, <1>3, <2>1 DEF Arm, Clock
    <3> QED BY <1>1, <1>3, <2>1, <3>1, <3>2, ArmHeaders
  <2>2. CASE st.clock.done
    <3>1. clock = FreshClock BY <2>2
    <3> DEFINE e == [FreshClock EXCEPT !.headersDone = TRUE]
    <3>2. e \in Clock /\ e.tracked /\ ~e.done /\ e.headersDone /\ e.elapsed = 0
      BY ClockTypes DEF Clock
    <3>3. armed = Arm(e) BY <1>1, <3>1
    <3> HIDE DEF e
    <3>4. RemainingMs(e) = RequestTimeout BY <3>2, RemainsDue, ListenerAssumption DEF Due
    <3>5. /\ armed \in Clock /\ armed.tracked /\ ~armed.done /\ armed.headersDone
          /\ armed.elapsed = 0 /\ armed.timer = RequestTimeout
      BY <3>2, <3>3, <3>4, Armed
    <3>6. clock.elapsed = 0 BY <3>1, ClockTypes
    <3> QED BY <3>5, <3>6, ListenerAssumption DEF Running, Due
  <2> QED BY <2>1, <2>2
<1>7. /\ clock.elapsed = IF st.clock.done THEN 0 ELSE st.clock.elapsed
  BY ClockTypes
<1>8. (armed.timer = 0) \in BOOLEAN OBVIOUS
<1>9. PICK r : r = NoteRequest(st) OBVIOUS
<1>10. /\ r \in Chunked /\ r.clock = armed /\ r.cut = (armed.timer = 0)
       /\ r.reqs = Append(Supersede(st.reqs), req)
       /\ r.at = st.at /\ r.age = st.age /\ r.shared = st.shared /\ r.ended = st.ended
  BY <1>4, <1>5, <1>6, <1>8, <1>9 DEF Chunked
<1> HIDE DEF clock
<1> QED BY <1>5, <1>6, <1>7, <1>9, <1>10

LEMMA Begun ==
  ASSUME NEW st \in Chunked
  PROVE  LET b == Begin(st) IN
         /\ b \in Chunked /\ b.at = st.at /\ b.clock = st.clock /\ b.reqs = st.reqs
         /\ b.ended = st.ended /\ b.cut = st.cut
         /\ st.at = "between" => b.age = 0 /\ b.shared = st.ended
         /\ st.at # "between" => b = st
<1>1. 0 \in 0..RequestTimeout BY ListenerAssumption
<1> QED BY <1>1 DEF Begin, Chunked

LEMMA Marked ==
  ASSUME NEW st \in Chunked, st.clock.tracked
  PROVE  LET r == MarkIfComplete(st) IN
         /\ r \in Chunked /\ r.at = st.at /\ r.age = st.age /\ r.shared = st.shared
         /\ r.reqs = st.reqs
         /\ IF LastCurrent(st.reqs) /\ st.at # "body"
            THEN Running(r.clock) /\ r.clock.done ELSE r = st
<1>1. st.clock \in Clock BY DEF Chunked
<1>2. CASE LastCurrent(st.reqs) /\ st.at # "body"
  <2>1. MarkIfComplete(st) = [st EXCEPT !.clock = Finish(st.clock)]
    BY <1>2 DEF MarkIfComplete, LastCurrent
  <2> QED BY <1>1, <1>2, <2>1, FinishStops DEF Chunked
<1>3. CASE ~(LastCurrent(st.reqs) /\ st.at # "body")
  <2>1. MarkIfComplete(st) = st BY <1>3 DEF MarkIfComplete, LastCurrent
  <2> QED BY <1>3, <2>1
<1> QED BY <1>2, <1>3

\* What the parser meets behind the end of a request, in the same chunk.
Behind(q) ==
  /\ q \in Chunked /\ q.at = "between" /\ q.ended
  /\ q.clock.tracked /\ OnlyLast(q.reqs)
  /\ LastCurrent(q.reqs) \/ q.clock.done
  /\ ~q.cut => Running(q.clock)

LEMMA BehindNothing ==
  ASSUME NEW q, Behind(q), ~q.cut
  PROVE  MarkIfComplete(q) \in Chunked /\ Shaped(MarkIfComplete(q))
<1>1. PICK r : r = MarkIfComplete(q) OBVIOUS
<1>2. /\ r \in Chunked /\ r.at = "between" /\ r.reqs = q.reqs
      /\ Running(r.clock) /\ r.clock.done
  BY <1>1, Marked DEF Behind
<1> QED BY <1>1, <1>2 DEF Shaped, Shape, Behind

LEMMA BehindHead ==
  ASSUME NEW q, Behind(q)
  PROVE  LET p == Parse(q, "head") IN
         /\ p \in Chunked /\ p.cut = q.cut
         /\ ~q.cut => MarkIfComplete(p) \in Chunked /\ Shaped(MarkIfComplete(p))
<1>1. PICK p : p = Parse(q, "head") OBVIOUS
<1>2. p = [Begin(q) EXCEPT !.at = "head"] BY <1>1 DEF Parse
<1>3. /\ p \in Chunked /\ p.at = "head" /\ p.shared /\ p.clock = q.clock /\ p.reqs = q.reqs
      /\ p.cut = q.cut
  BY <1>2, Begun DEF Behind, Chunked, ParserPlaces
<1>4. ASSUME ~q.cut PROVE MarkIfComplete(p) \in Chunked /\ Shaped(MarkIfComplete(p))
  <2>1. PICK r : r = MarkIfComplete(p) OBVIOUS
  <2>2. /\ r \in Chunked /\ r.at = "head" /\ r.shared /\ r.reqs = q.reqs
        /\ Running(r.clock) /\ r.clock.done
    BY <1>3, <1>4, <2>1, Marked DEF Behind
  <2> QED BY <2>1, <2>2 DEF Shaped, Shape, Behind
<1> QED BY <1>1, <1>3, <1>4

LEMMA BehindHeaders ==
  ASSUME NEW q, Behind(q), ~q.cut
  PROVE  LET p == Parse(q, "headers") IN
         /\ p \in Chunked
         /\ p.cut => ~q.clock.done /\ q.clock.elapsed = RequestTimeout
         /\ ~p.cut => MarkIfComplete(p) \in Chunked /\ Shaped(MarkIfComplete(p))
<1>1. PICK p, b : p = Parse(q, "headers") /\ b = Begin(q) OBVIOUS
<1>2. p = [NoteRequest(b) EXCEPT !.at = "body"] BY <1>1 DEF Parse
<1>3. /\ b \in Chunked /\ b.shared /\ b.clock = q.clock
  BY <1>1, Begun DEF Behind
<1>4. PICK n : n = NoteRequest(b) OBVIOUS
<1>5. /\ n \in Chunked /\ n.shared /\ OnlyLast(n.reqs) /\ LastCurrent(n.reqs)
      /\ ~n.clock.done /\ n.clock.headersDone /\ n.clock.tracked
      /\ ~n.cut => Running(n.clock)
      /\ n.cut => ~q.clock.done /\ q.clock.elapsed = RequestTimeout
  BY <1>3, <1>4, Noted DEF Behind
<1>6. /\ p \in Chunked /\ p.at = "body" /\ p.shared /\ p.reqs = n.reqs /\ p.clock = n.clock
      /\ p.cut = n.cut
  BY <1>2, <1>4, <1>5 DEF Chunked, ParserPlaces
<1>7. MarkIfComplete(p) = p BY <1>5, <1>6, Marked
<1>8. n.reqs # <<>> BY <1>5 DEF LastCurrent
<1>9. ~p.cut => Shaped(p) BY <1>5, <1>6, <1>8 DEF Shaped, Shape
<1> QED BY <1>1, <1>5, <1>6, <1>7, <1>9

LEMMA BehindRequest ==
  ASSUME NEW q, Behind(q), ~q.cut
  PROVE  LET p == Parse(q, "request") IN
         /\ p \in Chunked
         /\ p.cut => ~q.clock.done /\ q.clock.elapsed = RequestTimeout
         /\ ~p.cut => MarkIfComplete(p) \in Chunked /\ Shaped(MarkIfComplete(p))
<1>1. PICK p, b : p = Parse(q, "request") /\ b = Begin(q) OBVIOUS
<1>2. p = [NoteRequest(b) EXCEPT !.at = "between", !.ended = TRUE] BY <1>1 DEF Parse
<1>3. /\ b \in Chunked /\ b.clock = q.clock
  BY <1>1, Begun DEF Behind
<1>4. PICK n : n = NoteRequest(b) OBVIOUS
<1>5. /\ n \in Chunked /\ OnlyLast(n.reqs) /\ LastCurrent(n.reqs)
      /\ n.clock.tracked
      /\ ~n.cut => Running(n.clock)
      /\ n.cut => ~q.clock.done /\ q.clock.elapsed = RequestTimeout
  BY <1>3, <1>4, Noted DEF Behind
<1>6. /\ p \in Chunked /\ p.at = "between" /\ p.ended /\ p.reqs = n.reqs /\ p.clock = n.clock
      /\ p.cut = n.cut
  BY <1>2, <1>4, <1>5 DEF Chunked, ParserPlaces
<1>7. Behind(p) BY <1>5, <1>6 DEF Behind
<1> QED BY <1>1, <1>5, <1>6, <1>7, BehindNothing

----------------------------------------------------------------------------
(* A chunk.                                                                *)

\* The request being read at a socket is overdue.
Overdue(st) ==
  \/ st.shared
  \/ /\ st.at # "between" /\ ~(st.at = "body" /\ st.reqs = <<>>)
     /\ st.age >= IF st.at = "body" THEN RequestTimeout ELSE HeadersTimeout

LEMMA FirstHead ==
  ASSUME NEW st, Ready(st)
  PROVE  LET p == Parse(st, "head") IN
         /\ p \in Chunked /\ ~p.cut
         /\ MarkIfComplete(p) \in Chunked /\ Shaped(MarkIfComplete(p))
<1>1. PICK p, b : p = Parse(st, "head") /\ b = Begin(st) OBVIOUS
<1>2. p = [b EXCEPT !.at = "head"] BY <1>1 DEF Parse
<1>3. /\ b \in Chunked /\ b.clock = st.clock /\ b.reqs = st.reqs /\ ~b.cut
      /\ b.shared \/ b.age = b.clock.elapsed
  BY <1>1, Begun DEF Ready
<1>4. /\ p \in Chunked /\ p.at = "head" /\ p.clock = st.clock /\ p.reqs = st.reqs /\ ~p.cut
      /\ p.shared \/ p.age = p.clock.elapsed
  BY <1>2, <1>3 DEF Chunked, ParserPlaces
<1>5. ~LastCurrent(p.reqs) /\ OnlyLast(p.reqs)
  <2>1. st.reqs \in Seq(Request) BY DEF Ready, Chunked
  <2> QED BY <1>4, <2>1 DEF Ready, NoneCurrent, LastCurrent, OnlyLast
<1>6. MarkIfComplete(p) = p BY <1>4, <1>5, Marked DEF Ready, Running
<1>7. Shaped(p) BY <1>4, <1>5 DEF Shaped, Shape, Ready
<1> QED BY <1>1, <1>4, <1>6, <1>7

LEMMA FirstNoted ==
  ASSUME NEW st, Ready(st), NEW n, n = NoteRequest(Begin(st))
  PROVE  /\ n \in Chunked /\ OnlyLast(n.reqs) /\ LastCurrent(n.reqs)
         /\ ~n.clock.done /\ n.clock.headersDone /\ n.clock.tracked
         /\ ~n.cut => Running(n.clock)
         /\ n.shared \/ n.age = n.clock.elapsed
         /\ n.cut => Overdue(st)
<1>1. PICK b : b = Begin(st) OBVIOUS
<1>2. /\ b \in Chunked /\ b.clock = st.clock /\ b.reqs = st.reqs
      /\ b.shared \/ b.age = b.clock.elapsed
  BY <1>1, Begun DEF Ready
<1>3. n = NoteRequest(b) BY <1>1
<1>4. Running(b.clock) /\ b.clock.tracked /\ ~b.clock.done BY <1>2 DEF Ready, Running
<1>5. /\ n \in Chunked /\ OnlyLast(n.reqs) /\ LastCurrent(n.reqs)
      /\ ~n.clock.done /\ n.clock.headersDone /\ n.clock.tracked
      /\ n.age = b.age /\ n.shared = b.shared /\ n.clock.elapsed = b.clock.elapsed
      /\ ~n.cut => Running(n.clock)
      /\ n.cut => st.clock.elapsed = RequestTimeout /\ st.clock.elapsed = Due(st.clock)
  BY <1>2, <1>3, <1>4, Noted
<1>6. ASSUME n.cut PROVE Overdue(st)
  <2>1. st.clock.elapsed = HeadersTimeout /\ HeadersTimeout > 0
    BY <1>5, <1>6, ListenerAssumption DEF Ready, Due
  <2>2. st.at # "between" BY <2>1 DEF Ready
  <2>3. st.shared \/ st.age = HeadersTimeout BY <2>1, <2>2 DEF Ready
  <2>4. st.at # "body" BY DEF Ready
  <2> QED BY <2>2, <2>3, <2>4, ListenerAssumption DEF Overdue
<1> QED BY <1>2, <1>5, <1>6

LEMMA FirstHeaders ==
  ASSUME NEW st, Ready(st)
  PROVE  LET p == Parse(st, "headers") IN
         /\ p \in Chunked
         /\ p.cut => Overdue(st)
         /\ ~p.cut => MarkIfComplete(p) \in Chunked /\ Shaped(MarkIfComplete(p))
<1>1. PICK p, n : p = Parse(st, "headers") /\ n = NoteRequest(Begin(st)) OBVIOUS
<1>2. p = [n EXCEPT !.at = "body"] BY <1>1 DEF Parse
<1>3. /\ n \in Chunked /\ OnlyLast(n.reqs) /\ LastCurrent(n.reqs)
      /\ ~n.clock.done /\ n.clock.headersDone /\ n.clock.tracked
      /\ ~n.cut => Running(n.clock)
      /\ n.shared \/ n.age = n.clock.elapsed
      /\ n.cut => Overdue(st)
  BY <1>1, FirstNoted
<1>4. /\ p \in Chunked /\ p.at = "body" /\ p.reqs = n.reqs /\ p.clock = n.clock /\ p.cut = n.cut
      /\ p.shared = n.shared /\ p.age = n.age
  BY <1>2, <1>3 DEF Chunked, ParserPlaces
<1>5. MarkIfComplete(p) = p BY <1>3, <1>4, Marked
<1>6. n.reqs # <<>> BY <1>3 DEF LastCurrent
<1>7. ~p.cut => Shaped(p) BY <1>3, <1>4, <1>6 DEF Shaped, Shape
<1> QED BY <1>1, <1>3, <1>4, <1>5, <1>7

LEMMA FirstRequest ==
  ASSUME NEW st, Ready(st)
  PROVE  LET p == Parse(st, "request") IN
         /\ p \in Chunked /\ Behind(p)
         /\ p.cut => Overdue(st)
<1>1. PICK p, n : p = Parse(st, "request") /\ n = NoteRequest(Begin(st)) OBVIOUS
<1>2. p = [n EXCEPT !.at = "between", !.ended = TRUE] BY <1>1 DEF Parse
<1>3. /\ n \in Chunked /\ OnlyLast(n.reqs) /\ LastCurrent(n.reqs)
      /\ n.clock.tracked
      /\ ~n.cut => Running(n.clock)
      /\ n.cut => Overdue(st)
  BY <1>1, FirstNoted
<1>4. /\ p \in Chunked /\ p.at = "between" /\ p.ended /\ p.reqs = n.reqs /\ p.clock = n.clock
      /\ p.cut = n.cut
  BY <1>2, <1>3 DEF Chunked, ParserPlaces
<1> QED BY <1>1, <1>3, <1>4 DEF Behind

\* A chunk leaves its socket in shape, or cuts one whose request is overdue.
LEMMA ChunkShapes ==
  ASSUME NEW st \in Chunked, Shaped(st), ~st.ended, ~st.cut,
         NEW chunk \in Chunks(st.at), NEW p, p = ParseChunk(chunk, OnData(st))
  PROVE  /\ p \in Chunked
         /\ p.cut => Overdue(st)
         /\ ~p.cut => MarkIfComplete(p) \in Chunked /\ Shaped(MarkIfComplete(p))
<1>1. PICK d : d = OnData(st) OBVIOUS
<1>2. \A a, b : /\ ParseChunk(<<a>>, d) = Parse(d, a)
                /\ ParseChunk(<<a, b>>, d) = Parse(Parse(d, a), b)
  BY DEF ParseChunk
<1>3. CASE st.at # "body"
  <2>1. /\ Ready(d) /\ d.at = st.at
        /\ d.shared = st.shared /\ d.age = st.age
    BY <1>1, <1>3, DataReady
  <2>2. Overdue(d) => Overdue(st) BY <1>3, <2>1 DEF Overdue
  <2>3. chunk \in {<<"head">>, <<"headers">>, <<"request">>, <<"request", "head">>}
    BY <1>3 DEF Chunks, Chunked, ParserPlaces
  <2>4. CASE chunk = <<"head">>
    BY <1>1, <1>2, <2>1, <2>4, FirstHead
  <2>5. CASE chunk = <<"headers">>
    BY <1>1, <1>2, <2>1, <2>2, <2>5, FirstHeaders
  <2>6. CASE chunk = <<"request">>
    BY <1>1, <1>2, <2>1, <2>2, <2>6, FirstRequest, BehindNothing
  <2>7. CASE chunk = <<"request", "head">>
    BY <1>1, <1>2, <2>1, <2>2, <2>7, FirstRequest, BehindHead
  <2> QED BY <2>3, <2>4, <2>5, <2>6, <2>7
<1>4. CASE st.at = "body"
  <2>1. d = st BY <1>1, <1>4 DEF OnData
  <2>2. chunk \in {<<"body">>, <<"end">>, <<"end", "head">>, <<"end", "headers">>,
                   <<"end", "request">>}
    BY <1>4 DEF Chunks
  <2>3. PICK q : q = Parse(d, "end") OBVIOUS
  <2>4. q = [st EXCEPT !.at = "between", !.ended = TRUE] BY <2>1, <2>3 DEF Parse
  <2>5. /\ q \in Chunked /\ q.at = "between" /\ q.ended /\ q.clock = st.clock /\ q.reqs = st.reqs
        /\ ~q.cut
    BY <2>4 DEF Chunked, ParserPlaces
  <2>6. Behind(q) BY <1>4, <2>5 DEF Behind, Shaped, Shape, Running
  <2>7. ~q.clock.done /\ q.clock.elapsed = RequestTimeout => Overdue(st)
    BY <1>4, <2>5, ListenerAssumption DEF Shaped, Shape, Overdue
  <2>8. CASE chunk = <<"body">>
    <3>1. Parse(st, "body") = st BY DEF Parse
    <3>2. p = st BY <1>1, <1>2, <2>1, <2>8, <3>1
    <3>3. MarkIfComplete(st) = st BY <1>4, Marked DEF Shaped, Shape, Running
    <3> QED BY <3>2, <3>3
  <2>9. CASE chunk = <<"end">>
    BY <1>1, <1>2, <2>3, <2>5, <2>6, <2>9, BehindNothing
  <2>10. CASE chunk = <<"end", "head">>
    BY <1>1, <1>2, <2>3, <2>5, <2>6, <2>10, BehindHead
  <2>11. CASE chunk = <<"end", "headers">>
    BY <1>1, <1>2, <2>3, <2>5, <2>6, <2>7, <2>11, BehindHeaders
  <2>12. CASE chunk = <<"end", "request">>
    BY <1>1, <1>2, <2>3, <2>5, <2>6, <2>7, <2>12, BehindRequest
  <2> QED BY <2>2, <2>8, <2>9, <2>10, <2>11, <2>12
<1> QED BY <1>3, <1>4

----------------------------------------------------------------------------
(* The invariant.                                                          *)

LEMMA AbortedShape ==
  ASSUME LInv, NEW s \in Sockets, NEW why \in {"handshake", "peer", "deadline", "idle",
                                               "answered", "stop"},
         NEW reqs \in Seq(Request), CloseWith(s, why, reqs), UNCHANGED idle
  PROVE  LInv'
<1>1. /\ Destroyed(s, why) \in Socket /\ Destroyed(s, why).st = "gone"
  <2>1. 0 \in 0..RequestTimeout /\ Off \in Nat BY ListenerAssumption
  <2>2. sock[s] \in Socket BY DEF LInv, ListenerTypeOK
  <2> QED BY <2>1, <2>2 DEF Destroyed, Socket, ParserPlaces
<1>2. AbortIfClientGone(reqs) \in Seq(Request) BY AbortTyped
<1>3. ListenerTypeOK'
  BY <1>1, <1>2, ClockTypes DEF LInv, ListenerTypeOK, CloseWith
<1>4. /\ sock'[s] = Destroyed(s, why) /\ entry'[s] = Untracked
      /\ \A t \in Sockets \ {s} :
           sock'[t] = sock[t] /\ entry'[t] = entry[t] /\ requests'[t] = requests[t]
  BY DEF LInv, ListenerTypeOK, CloseWith
<1> QED BY <1>1, <1>3, <1>4 DEF LInv, SocketOpen

\* Only one socket is touched, and stays in shape.
LEMMA OneSocket ==
  ASSUME LInv, NEW s \in Sockets, UNCHANGED idle, ListenerTypeOK',
         \A t \in Sockets \ {s} :
           sock'[t] = sock[t] /\ entry'[t] = entry[t] /\ requests'[t] = requests[t],
         sock'[s].st = "open", sock'[s].why = "",
         Shape(sock'[s].at, sock'[s].age, sock'[s].shared, entry'[s], requests'[s])
  PROVE  LInv'
BY DEF LInv, SocketOpen

LEMMA StepInit == ListenerInit => LInv
<1> SUFFICES ASSUME ListenerInit PROVE LInv OBVIOUS
<1>1. NewSocket \in Socket /\ NewSocket.st = "new" /\ NewSocket.at = "fresh"
      /\ NewSocket.age = 0 /\ ~NewSocket.shared /\ NewSocket.why = ""
  BY ListenerAssumption DEF NewSocket, Socket, ParserPlaces
<1>2. <<>> \in Seq(Request) OBVIOUS
<1>3. idle \in [given : BOOLEAN, ms : Nat] BY ListenerAssumption DEF ListenerInit
<1>4. ListenerTypeOK BY <1>1, <1>2, <1>3, ClockTypes DEF ListenerInit, ListenerTypeOK
<1> QED BY <1>1, <1>4 DEF ListenerInit, LInv, SocketOpen

LEMMA StepChunk ==
  ASSUME LInv, NEW s \in Sockets, Chunk(s)
  PROVE  LInv' /\ (sock'[s].why = "deadline" => Overdue(ParserState(s)))
<1>1. PICK st : st = ParserState(s) OBVIOUS
<1>2. /\ st \in Chunked /\ Shaped(st) /\ ~st.ended /\ ~st.cut /\ st.at = sock[s].at
      /\ st.reqs = requests[s]
  BY <1>1 DEF ParserState, Chunked, Shaped, LInv, ListenerTypeOK, Chunk, Socket
<1> DEFINE Outcome(chunk, p, after) ==
             IF p.cut THEN CloseWith(s, "deadline", p.reqs)
           ELSE /\ sock' = [sock EXCEPT ![s] =
                       [@ EXCEPT !.at = after.at, !.age = after.age,
                                 !.shared = after.shared, !.idle = IdleAfter(s, chunk)]]
                /\ entry' = [entry EXCEPT ![s] = after.clock]
                /\ requests' = [requests EXCEPT ![s] = after.reqs]
<1>3. PICK chunk \in Chunks(st.at) :
        Outcome(chunk, ParseChunk(chunk, OnData(st)),
                MarkIfComplete(ParseChunk(chunk, OnData(st))))
  BY <1>1, <1>2 DEF Chunk
<1>4. PICK p, after : p = ParseChunk(chunk, OnData(st)) /\ after = MarkIfComplete(p)
  OBVIOUS
<1>5. /\ p = ParseChunk(chunk, OnData(st)) /\ after = MarkIfComplete(p)
      /\ Outcome(chunk, p, after)
  BY <1>3, <1>4
<1>6. /\ p \in Chunked
      /\ p.cut => Overdue(st)
      /\ ~p.cut => after \in Chunked /\ Shaped(after)
  BY <1>2, <1>5, ChunkShapes
<1>7. UNCHANGED idle BY DEF Chunk
<1>8. CASE p.cut
  <2>1. LInv' BY <1>5, <1>6, <1>7, <1>8, AbortedShape DEF Chunked
  <2> QED BY <1>1, <1>6, <1>8, <2>1
<1>9. CASE ~p.cut
  <2>1. IdleAfter(s, chunk) \in Nat
    <3>1. Off \in Nat BY ListenerAssumption
    <3>2. IdleGap \in Nat BY <3>1 DEF IdleGap, LInv, ListenerTypeOK
    <3> QED BY <3>1, <3>2 DEF IdleAfter
  <2>2. /\ sock[s] \in Socket /\ sock[s].st = "open" /\ sock[s].why = ""
    BY DEF Chunk, LInv, ListenerTypeOK, SocketOpen
  <2>3. PICK new : new = [sock[s] EXCEPT !.at = after.at, !.age = after.age,
                                 !.shared = after.shared, !.idle = IdleAfter(s, chunk)]
    OBVIOUS
  <2>4. /\ new \in Socket /\ new.st = "open" /\ new.why = "" /\ new.at = after.at
        /\ new.age = after.age /\ new.shared = after.shared
    BY <1>6, <1>9, <2>1, <2>2, <2>3 DEF Chunked, Socket
  <2>5. sock' = [sock EXCEPT ![s] = new] BY <1>5, <1>9, <2>3
  <2>6. ListenerTypeOK'
    BY <1>5, <1>6, <1>7, <1>9, <2>4, <2>5 DEF LInv, ListenerTypeOK, Chunked
  <2>7. /\ sock'[s] = new /\ entry'[s] = after.clock /\ requests'[s] = after.reqs
        /\ \A t \in Sockets \ {s} :
             sock'[t] = sock[t] /\ entry'[t] = entry[t] /\ requests'[t] = requests[t]
    BY <1>5, <1>9, <2>5 DEF LInv, ListenerTypeOK
  <2>8. LInv' BY <1>6, <1>7, <1>9, <2>4, <2>6, <2>7, OneSocket DEF Shaped
  <2> QED BY <2>4, <2>7, <2>8
<1> QED BY <1>8, <1>9

LEMMA StepSecure ==
  ASSUME LInv, NEW s \in Sockets, SecureConnection(s)
  PROVE  LInv'
<1>1. Off \in Nat /\ IdleGap \in Nat
  <2>1. Off \in Nat BY ListenerAssumption
  <2> QED BY <2>1 DEF IdleGap, LInv, ListenerTypeOK
<1>2. /\ sock[s] \in Socket /\ sock[s].at = "fresh" /\ sock[s].age = 0 /\ ~sock[s].shared
      /\ sock[s].why = "" /\ requests[s] = <<>> /\ requests[s] \in Seq(Request)
  BY DEF LInv, ListenerTypeOK, SecureConnection
<1>3. PICK new : new = [sock[s] EXCEPT !.st = "open", !.late = host = "closing",
                                       !.idle = IF idle.given THEN IdleGap ELSE Off]
  OBVIOUS
<1>4. /\ new \in Socket /\ new.st = "open" /\ new.why = "" /\ new.at = "fresh" /\ new.age = 0
      /\ ~new.shared
  BY <1>1, <1>2, <1>3 DEF Socket
<1>5. sock' = [sock EXCEPT ![s] = new] /\ UNCHANGED <<idle, requests>>
  BY <1>3 DEF SecureConnection
<1>6. entry' = [entry EXCEPT ![s] = Arm(FreshClock)] BY DEF SecureConnection
<1>7. ListenerTypeOK' BY <1>4, <1>5, <1>6, ArmFresh DEF LInv, ListenerTypeOK
<1>8. Shape("fresh", 0, new.shared, Arm(FreshClock), <<>>)
  <2>1. OnlyLast(<<>>) /\ NoneCurrent(<<>>) BY DEF OnlyLast, NoneCurrent
  <2> QED BY <1>4, <2>1, ArmFresh DEF Shape
<1>9. /\ sock'[s] = new /\ entry'[s] = Arm(FreshClock) /\ requests'[s] = <<>>
      /\ \A t \in Sockets \ {s} :
           sock'[t] = sock[t] /\ entry'[t] = entry[t] /\ requests'[t] = requests[t]
  BY <1>2, <1>5, <1>6 DEF LInv, ListenerTypeOK
<1> QED BY <1>4, <1>5, <1>7, <1>8, <1>9, OneSocket

LEMMA StepDeadline ==
  ASSUME LInv, NEW s \in Sockets, Deadline(s)
  PROVE  LInv' /\ Overdue(ParserState(s))
<1>1. /\ entry[s] \in Clock /\ requests[s] \in Seq(Request) /\ sock[s] \in Socket
      /\ Shape(sock[s].at, sock[s].age, sock[s].shared, entry[s], requests[s])
      /\ entry[s].timer = 0 /\ UNCHANGED idle
  BY DEF LInv, ListenerTypeOK, Deadline
<1>2. ~entry[s].done BY <1>1, ListenerAssumption DEF Shape, Running
<1>3. entry[s].elapsed = Due(entry[s]) /\ RemainingMs(entry[s]) = 0
  <2>1. entry[s].elapsed \in Nat /\ Due(entry[s]) \in Nat
    BY <1>1, ListenerAssumption DEF Clock, Due
  <2>2. entry[s].elapsed = Due(entry[s]) BY <1>1, <1>2, <2>1 DEF Shape, Running
  <2> QED BY <1>1, <2>1, <2>2, RemainsDue
<1>4. LInv' BY <1>1, <1>3, AbortedShape DEF Deadline
<1>5. Overdue(ParserState(s))
  <2>1. PICK st : st = ParserState(s) OBVIOUS
  <2>2. /\ st.at = sock[s].at /\ st.age = sock[s].age /\ st.shared = sock[s].shared
        /\ st.reqs = requests[s]
    BY <2>1 DEF ParserState
  <2>3. sock[s].at \in ParserPlaces BY <1>1 DEF Socket
  <2> QED BY <1>1, <1>2, <1>3, <2>1, <2>2, <2>3, ListenerAssumption
          DEF Overdue, Shape, Due, ParserPlaces
<1> QED BY <1>4, <1>5

LEMMA StepTick == ASSUME LInv, Tick PROVE LInv'
<1> DEFINE Sock(s) == [sock[s] EXCEPT !.idle = Later(@),
                         !.age = IF sock[s].at = "between" THEN 0 ELSE Older(@)]
           Entry(s) == [entry[s] EXCEPT !.timer = Later(@), !.elapsed = Older(@)]
<1>1. /\ sock' = [s \in Sockets |-> IF ~SocketOpen(s) THEN sock[s] ELSE Sock(s)]
      /\ entry' = [s \in Sockets |-> IF entry[s].done THEN entry[s] ELSE Entry(s)]
      /\ UNCHANGED <<idle, requests>>
  BY DEF Tick
<1>2. \A n \in 0..RequestTimeout : Older(n) \in 0..RequestTimeout
  BY ListenerAssumption DEF Older, Smaller
<1>3. \A n \in Nat \ {0} : Later(n) \in Nat BY ListenerAssumption DEF Later
<1>4. 0 \in 0..RequestTimeout BY ListenerAssumption
<1>5. ASSUME NEW s \in Sockets, SocketOpen(s)
      PROVE  /\ Sock(s) \in Socket /\ Sock(s).st = "open" /\ Sock(s).why = sock[s].why
             /\ Sock(s).at = sock[s].at /\ Sock(s).shared = sock[s].shared
             /\ sock[s].at # "between" => Sock(s).age = Older(sock[s].age)
  <2>1. /\ sock[s] \in Socket /\ sock[s].st = "open" /\ sock[s].idle \in Nat \ {0}
        /\ sock[s].age \in 0..RequestTimeout
    BY <1>5 DEF LInv, ListenerTypeOK, Tick, SocketOpen, Socket
  <2>2. PICK i, a : i = Later(sock[s].idle)
                    /\ a = IF sock[s].at = "between" THEN 0 ELSE Older(sock[s].age)
    OBVIOUS
  <2>3. i \in Nat /\ a \in 0..RequestTimeout BY <1>2, <1>3, <1>4, <2>1, <2>2
  <2>4. Sock(s) = [sock[s] EXCEPT !.idle = i, !.age = a] BY <2>2
  <2>5. /\ [sock[s] EXCEPT !.idle = i, !.age = a] \in Socket
        /\ [sock[s] EXCEPT !.idle = i, !.age = a].st = "open"
        /\ [sock[s] EXCEPT !.idle = i, !.age = a].why = sock[s].why
        /\ [sock[s] EXCEPT !.idle = i, !.age = a].at = sock[s].at
        /\ [sock[s] EXCEPT !.idle = i, !.age = a].shared = sock[s].shared
        /\ [sock[s] EXCEPT !.idle = i, !.age = a].age = a
    BY <2>1, <2>3 DEF Socket
  <2> QED BY <2>2, <2>4, <2>5
<1>6. ASSUME NEW s \in Sockets, ~entry[s].done
      PROVE  /\ SocketOpen(s) /\ Entry(s) \in Clock
             /\ ~Entry(s).done /\ Entry(s).headersDone = entry[s].headersDone
             /\ Running(Entry(s)) /\ Entry(s).elapsed = Older(entry[s].elapsed)
  <2>1. SocketOpen(s) BY <1>6, ClockTypes DEF LInv
  <2>2. /\ entry[s] \in Clock /\ entry[s].timer \in Nat \ {0} /\ Running(entry[s])
        /\ entry[s].elapsed \in Nat /\ entry[s].elapsed \in 0..RequestTimeout
    <3>1. entry[s] \in Clock /\ entry[s].timer # 0
      BY <2>1 DEF LInv, ListenerTypeOK, Tick
    <3>2. Running(entry[s]) BY <2>1 DEF LInv, Shape
    <3> QED BY <3>1, <3>2, ListenerAssumption DEF Clock
  <2>3. entry[s].timer + entry[s].elapsed = Due(entry[s]) BY <1>6, <2>2 DEF Running
  <2>4. /\ Later(entry[s].timer) = entry[s].timer - 1 /\ Older(entry[s].elapsed) = entry[s].elapsed + 1
    BY <2>2, <2>3, ListenerAssumption DEF Later, Older, Smaller, Due
  <2>5. PICK t, e : t = Later(entry[s].timer) /\ e = Older(entry[s].elapsed) OBVIOUS
  <2>6. t \in Nat /\ e \in 0..RequestTimeout BY <1>2, <1>3, <2>2, <2>5
  <2>7. Entry(s) = [entry[s] EXCEPT !.timer = t, !.elapsed = e] BY <2>5
  <2>8. /\ Entry(s) \in Clock /\ ~Entry(s).done /\ Entry(s).tracked
        /\ Entry(s).headersDone = entry[s].headersDone
        /\ Entry(s).timer = t /\ Entry(s).elapsed = e
    BY <1>6, <2>2, <2>6, <2>7 DEF Clock, Running
  <2>9. t + e = Due(entry[s]) BY <2>2, <2>3, <2>4, <2>5
  <2> HIDE DEF Entry
  <2>10. Running(Entry(s)) BY <2>8, <2>9 DEF Running, Due
  <2> QED BY <2>1, <2>5, <2>8, <2>10
<1> HIDE DEF Sock, Entry
<1>7. ListenerTypeOK' BY <1>1, <1>5, <1>6 DEF LInv, ListenerTypeOK
<1>8. ASSUME NEW s \in Sockets
      PROVE  /\ IF SocketOpen(s)'
                THEN /\ Shape(sock'[s].at, sock'[s].age, sock'[s].shared, entry'[s], requests'[s])
                     /\ sock'[s].why = ""
                ELSE entry'[s] = Untracked
             /\ sock'[s].st \in {"new", "handshake"} =>
                  /\ sock'[s].at = "fresh" /\ sock'[s].age = 0 /\ ~sock'[s].shared /\ sock'[s].why = ""
                  /\ requests'[s] = <<>>
  <2>1. CASE ~SocketOpen(s)
    <3>1. sock'[s] = sock[s] /\ entry'[s] = entry[s] /\ requests'[s] = requests[s]
      BY <1>1, <1>6, <2>1
    <3> QED BY <2>1, <3>1 DEF LInv, SocketOpen
  <2>2. CASE SocketOpen(s)
    <3>1. /\ sock'[s] = Sock(s) /\ requests'[s] = requests[s]
          /\ entry'[s] = IF entry[s].done THEN entry[s] ELSE Entry(s)
      BY <1>1, <2>2
    <3>2. /\ Shape(sock[s].at, sock[s].age, sock[s].shared, entry[s], requests[s])
          /\ sock[s].why = ""
      BY <2>2 DEF LInv
    <3>3. Shape(Sock(s).at, Sock(s).age, Sock(s).shared, entry'[s], requests[s])
      <4>1. CASE entry[s].done
        BY <1>5, <2>2, <3>1, <3>2, <4>1 DEF Shape
      <4>2. CASE ~entry[s].done
        <5>1. sock[s].at # "between" BY <3>2, <4>2 DEF Shape
        <5>2. ~sock[s].shared => Sock(s).age = Entry(s).elapsed
          BY <1>5, <1>6, <2>2, <3>2, <4>2, <5>1 DEF Shape
        <5> QED BY <1>5, <1>6, <2>2, <3>1, <3>2, <4>2, <5>1, <5>2 DEF Shape
      <4> QED BY <4>1, <4>2
    <3> QED BY <1>5, <2>2, <3>1, <3>2, <3>3 DEF SocketOpen
  <2> QED BY <2>1, <2>2
<1> QED BY <1>7, <1>8 DEF LInv, SocketOpen

LEMMA NotEmpty ==
  ASSUME NEW reqs \in Seq(Request), reqs # <<>>
  PROVE  /\ Len(reqs) \in Nat /\ Len(reqs) \in DOMAIN reqs /\ 1 \in DOMAIN reqs
         /\ Tail(reqs) \in Seq(Request)
<1>1. Len(reqs) \in Nat /\ DOMAIN reqs = 1..Len(reqs) OBVIOUS
<1>2. Len(reqs) # 0 OBVIOUS
<1>3. Tail(reqs) \in Seq(Request) OBVIOUS
<1> QED BY <1>1, <1>2, <1>3

LEMMA MarkOne ==
  ASSUME NEW reqs \in Seq(Request), NEW i \in DOMAIN reqs, NEW r \in Request,
         r.current = reqs[i].current, NEW new, new = [reqs EXCEPT ![i] = r]
  PROVE  /\ new \in Seq(Request) /\ new # <<>> /\ reqs # <<>>
         /\ OnlyLast(reqs) => OnlyLast(new)
         /\ LastCurrent(reqs) => LastCurrent(new)
         /\ NoneCurrent(reqs) => NoneCurrent(new)
<1>1. new \in Seq(Request) /\ Len(new) = Len(reqs) /\ DOMAIN new = DOMAIN reqs OBVIOUS
<1>2. \A j \in DOMAIN new : new[j].current = reqs[j].current OBVIOUS
<1>3. new # <<>> /\ reqs # <<>>
  <2>1. DOMAIN <<>> = {} OBVIOUS
  <2> QED BY <1>1, <2>1
<1>4. LastCurrent(reqs) => LastCurrent(new)
  BY <1>1, <1>2, <1>3, NotEmpty DEF LastCurrent
<1> QED BY <1>1, <1>2, <1>3, <1>4 DEF OnlyLast, NoneCurrent

\* The rest of what a socket does to requests whose handlers are at work.
LEMMA StepRequests ==
  ASSUME LInv, NEW s \in Sockets,
         \/ Write(s) \/ Respond(s) \/ CancelResponse(s)
         \/ \E i \in 1..MaxRequests : BodyRead(s, i)
  PROVE  LInv' /\ sock'[s].why = sock[s].why
<1>0. ListenerTypeOK BY DEF LInv
<1>1. /\ sock[s] \in Socket /\ entry[s] \in Clock /\ requests[s] \in Seq(Request)
      /\ IdleGap \in Nat
  <2>1. Off \in Nat BY ListenerAssumption
  <2>2. IdleGap \in Nat BY <1>0, <2>1 DEF ListenerTypeOK, IdleGap
  <2> QED BY <1>0, <2>2 DEF ListenerTypeOK
<1>2. ASSUME SocketOpen(s)
      PROVE  /\ Shape(sock[s].at, sock[s].age, sock[s].shared, entry[s], requests[s])
             /\ sock[s].why = "" /\ sock[s].st = "open"
  BY <1>2 DEF LInv, SocketOpen
<1>3. /\ [sock[s] EXCEPT !.idle = IdleGap] \in Socket
      /\ [sock[s] EXCEPT !.idle = IdleGap].st = sock[s].st
      /\ [sock[s] EXCEPT !.idle = IdleGap].at = sock[s].at
      /\ [sock[s] EXCEPT !.idle = IdleGap].age = sock[s].age
      /\ [sock[s] EXCEPT !.idle = IdleGap].shared = sock[s].shared
      /\ [sock[s] EXCEPT !.idle = IdleGap].why = sock[s].why
  BY <1>1 DEF Socket
<1> DEFINE Set == [sock[s] EXCEPT !.idle = IdleGap]
<1>4. CASE Write(s)
  <2>1. sock' = [sock EXCEPT ![s] = Set] /\ UNCHANGED <<idle, entry, requests>> /\ SocketOpen(s)
    BY <1>4 DEF Write
  <2> HIDE DEF Set
  <2>2. /\ sock'[s] = Set /\ \A t \in Sockets \ {s} : sock'[t] = sock[t]
    BY <1>0, <2>1 DEF ListenerTypeOK
  <2>3. ListenerTypeOK' BY <1>0, <1>3, <2>1 DEF ListenerTypeOK, Set
  <2> QED BY <1>2, <1>3, <2>1, <2>2, <2>3, OneSocket DEF Set
<1>5. CASE Respond(s)
  <2>1. /\ sock' = [sock EXCEPT ![s] = Set] /\ UNCHANGED idle /\ SocketOpen(s)
        /\ requests[s] # <<>>
        /\ entry' = [entry EXCEPT ![s] = ResponseFinishes(s)]
        /\ requests' = [requests EXCEPT ![s] = Tail(@)]
    BY <1>5 DEF Respond
  <2> HIDE DEF Set
  <2>2. /\ Shape(sock[s].at, sock[s].age, sock[s].shared, entry[s], requests[s])
        /\ sock[s].why = "" /\ sock[s].st = "open"
    BY <1>2, <2>1
  <2>3. /\ OnlyLast(requests[s]) /\ entry[s].tracked /\ Tail(requests[s]) \in Seq(Request)
    BY <1>1, <2>1, <2>2, TailOnlyLast DEF Shape, Running
  <2>4. ResponseFinishes(s) \in Clock
    BY <1>1, <2>3, FinishStops DEF ResponseFinishes
  <2>5. ListenerTypeOK' BY <1>0, <1>3, <2>1, <2>3, <2>4 DEF ListenerTypeOK, Set
  <2>6. /\ sock'[s] = Set /\ entry'[s] = ResponseFinishes(s) /\ requests'[s] = Tail(requests[s])
        /\ \A t \in Sockets \ {s} :
             sock'[t] = sock[t] /\ entry'[t] = entry[t] /\ requests'[t] = requests[t]
    BY <1>0, <2>1 DEF ListenerTypeOK
  <2>7. Shape(sock[s].at, sock[s].age, sock[s].shared, ResponseFinishes(s), Tail(requests[s]))
    <3>1. CASE requests[s][1].current
      <4>1. /\ Running(ResponseFinishes(s)) /\ ResponseFinishes(s).done
        BY <1>1, <2>3, <3>1, FinishStops DEF ResponseFinishes
      <4>2. Tail(requests[s]) = <<>> /\ OnlyLast(Tail(requests[s]))
        BY <1>1, <2>1, <2>3, <3>1, TailOnlyLast
      <4>3. sock[s].at \in {"fresh", "head"} => sock[s].shared
        <5>1. ~NoneCurrent(requests[s])
          <6>1. 1 \in DOMAIN requests[s] BY <1>1, <2>1, NotEmpty
          <6> QED BY <3>1, <6>1 DEF NoneCurrent
        <5> QED BY <2>2, <5>1 DEF Shape
      <4> QED BY <2>2, <4>1, <4>2, <4>3 DEF Shape
    <3>2. CASE ~requests[s][1].current
      <4>1. ResponseFinishes(s) = entry[s] BY <3>2 DEF ResponseFinishes
      <4>2. /\ OnlyLast(Tail(requests[s]))
            /\ LastCurrent(requests[s]) => LastCurrent(Tail(requests[s]))
            /\ NoneCurrent(requests[s]) => NoneCurrent(Tail(requests[s]))
        BY <1>1, <2>1, <2>3, <3>2, TailOnlyLast
      <4>3. LastCurrent(Tail(requests[s])) => Tail(requests[s]) # <<>> BY DEF LastCurrent
      <4> QED BY <2>1, <2>2, <4>1, <4>2, <4>3 DEF Shape
    <3> QED BY <3>1, <3>2
  <2>8. /\ sock'[s].st = "open" /\ sock'[s].why = "" /\ sock'[s].at = sock[s].at
        /\ sock'[s].age = sock[s].age /\ sock'[s].shared = sock[s].shared
    BY <1>3, <2>2, <2>6 DEF Set
  <2> QED BY <2>1, <2>2, <2>5, <2>6, <2>7, <2>8, OneSocket
<1>6. CASE CancelResponse(s)
  <2>1. /\ requests' = [requests EXCEPT ![s] = Tail(@)] /\ UNCHANGED <<idle, sock, entry>>
        /\ sock[s].st = "gone" /\ requests[s] # <<>>
    BY <1>6 DEF CancelResponse
  <2>2. Tail(requests[s]) \in Seq(Request) BY <1>1, <2>1, NotEmpty
  <2>3. ListenerTypeOK' BY <1>0, <2>1, <2>2 DEF ListenerTypeOK
  <2>4. \A t \in Sockets \ {s} : requests'[t] = requests[t] BY <1>0, <2>1 DEF ListenerTypeOK
  <2> QED BY <2>1, <2>3, <2>4 DEF LInv, SocketOpen
<1>7. CASE \E i \in 1..MaxRequests : BodyRead(s, i)
  <2>1. PICK i : BodyRead(s, i) BY <1>7
  <2>2. PICK r : r = [requests[s][i] EXCEPT !.read = TRUE,
                        !.aborted = IF ClientDisconnected(s) THEN TRUE ELSE requests[s][i].aborted]
    OBVIOUS
  <2>3. /\ SocketOpen(s) /\ i \in DOMAIN requests[s]
        /\ i = Len(requests[s]) => sock[s].at # "body"
        /\ requests' = [requests EXCEPT ![s] = [requests[s] EXCEPT ![i] = r]]
        /\ UNCHANGED <<idle, sock>>
        /\ entry' = [entry EXCEPT ![s] = IF requests[s][i].current THEN Finish(entry[s]) ELSE entry[s]]
    <3>1. requests' = [requests EXCEPT ![s][i] = r] BY <2>1, <2>2 DEF BodyRead
    <3> QED BY <2>1, <3>1 DEF BodyRead
  <2>4. r \in Request /\ r.current = requests[s][i].current
    <3>1. requests[s][i] \in Request BY <1>1, <2>3
    <3> QED BY <2>2, <3>1 DEF Request
  <2>5. PICK reqs : reqs = [requests[s] EXCEPT ![i] = r] OBVIOUS
  <2>6. reqs \in Seq(Request) BY <1>1, <2>3, <2>4, <2>5, MarkOne
  <2>7. /\ reqs # <<>> /\ requests[s] # <<>>
        /\ OnlyLast(requests[s]) => OnlyLast(reqs)
        /\ LastCurrent(requests[s]) => LastCurrent(reqs)
        /\ NoneCurrent(requests[s]) => NoneCurrent(reqs)
    BY <1>1, <2>3, <2>4, <2>5, MarkOne
  <2>8. PICK c : c = IF requests[s][i].current THEN Finish(entry[s]) ELSE entry[s] OBVIOUS
  <2>9. /\ Shape(sock[s].at, sock[s].age, sock[s].shared, entry[s], requests[s])
        /\ sock[s].why = "" /\ sock[s].st = "open"
    BY <1>2, <2>3
  <2>10. entry[s].tracked BY <2>9 DEF Shape, Running
  <2>11. c \in Clock /\ Running(c) /\ (requests[s][i].current => c.done)
    BY <1>1, <2>8, <2>9, <2>10, FinishStops DEF Shape
  <2>12. requests[s][i].current => i = Len(requests[s]) /\ ~NoneCurrent(requests[s])
    BY <2>3, <2>9 DEF Shape, OnlyLast, NoneCurrent
  <2>13. Shape(sock[s].at, sock[s].age, sock[s].shared, c, reqs)
    <3>1. CASE requests[s][i].current
      BY <2>3, <2>7, <2>9, <2>11, <2>12, <3>1 DEF Shape
    <3>2. CASE ~requests[s][i].current
      <4>1. c = entry[s] BY <2>8, <3>2
      <4> QED BY <2>7, <2>9, <4>1 DEF Shape
    <3> QED BY <3>1, <3>2
  <2>14. ListenerTypeOK' BY <1>0, <2>3, <2>5, <2>6, <2>8, <2>11 DEF ListenerTypeOK
  <2>15. /\ sock' = sock /\ entry'[s] = c /\ requests'[s] = reqs
         /\ \A t \in Sockets \ {s} : entry'[t] = entry[t] /\ requests'[t] = requests[t]
    BY <1>0, <2>3, <2>5, <2>8 DEF ListenerTypeOK
  <2> QED BY <2>3, <2>9, <2>13, <2>14, <2>15, OneSocket
<1> QED BY <1>4, <1>5, <1>6, <1>7

\* The end of a socket by anything but a deadline.
LEMMA StepEnds ==
  ASSUME LInv, NEW s \in Sockets,
         HandshakeFails(s) \/ PeerLeaves(s) \/ SocketIdle(s) \/ BadRequest(s)
  PROVE  LInv' /\ sock'[s].why # "deadline"
<1>1. PICK why \in {"handshake", "peer", "idle", "answered"}, reqs \in Seq(Request) :
        CloseWith(s, why, reqs) /\ UNCHANGED idle
  <2>1. requests[s] \in Seq(Request) BY DEF LInv, ListenerTypeOK
  <2>2. requests[s] # <<>> => Tail(requests[s]) \in Seq(Request) BY <2>1
  <2> QED BY <2>1, <2>2 DEF HandshakeFails, PeerLeaves, SocketIdle, BadRequest
<1>2. LInv' BY <1>1, AbortedShape
<1>3. sock'[s] = Destroyed(s, why) BY <1>1 DEF CloseWith, LInv, ListenerTypeOK
<1>4. Destroyed(s, why).why = why
  BY DEF Destroyed, LInv, ListenerTypeOK, Socket
<1> QED BY <1>1, <1>2, <1>3, <1>4

LEMMA StepConnect == ASSUME LInv, NEW s \in Sockets, ClientConnects(s) PROVE LInv'
<1>1. PICK new : new = [sock[s] EXCEPT !.st = "handshake"] OBVIOUS
<1>2. sock[s] \in Socket /\ sock[s].st = "new" BY DEF LInv, ListenerTypeOK, ClientConnects
<1>3. /\ new \in Socket /\ new.st = "handshake" /\ new.at = sock[s].at /\ new.age = sock[s].age
      /\ new.shared = sock[s].shared /\ new.why = sock[s].why
  BY <1>1, <1>2 DEF Socket
<1>4. sock' = [sock EXCEPT ![s] = new] /\ UNCHANGED <<idle, entry, requests>>
  BY <1>1 DEF ClientConnects
<1>5. ListenerTypeOK' BY <1>3, <1>4 DEF LInv, ListenerTypeOK
<1>6. sock'[s] = new /\ \A t \in Sockets \ {s} : sock'[t] = sock[t]
  BY <1>4 DEF LInv, ListenerTypeOK
<1>7. entry[s] = Untracked /\ new.at = "fresh" /\ new.age = 0 /\ ~new.shared /\ new.why = ""
      /\ requests[s] = <<>>
  BY <1>2, <1>3 DEF LInv, SocketOpen
<1>8. ASSUME NEW t \in Sockets
      PROVE  /\ IF sock'[t].st = "open"
                THEN /\ Shape(sock'[t].at, sock'[t].age, sock'[t].shared, entry'[t], requests'[t])
                     /\ sock'[t].why = ""
                ELSE entry'[t] = Untracked
             /\ sock'[t].st \in {"new", "handshake"} =>
                  /\ sock'[t].at = "fresh" /\ sock'[t].age = 0 /\ ~sock'[t].shared
                  /\ sock'[t].why = "" /\ requests'[t] = <<>>
  <2>1. CASE t = s BY <1>3, <1>4, <1>6, <1>7, <2>1
  <2>2. CASE t # s
    <3>1. sock'[t] = sock[t] /\ entry'[t] = entry[t] /\ requests'[t] = requests[t]
      BY <1>4, <1>6, <2>2
    <3> QED BY <3>1 DEF LInv, SocketOpen
  <2> QED BY <2>1, <2>2
<1> QED BY <1>5, <1>8 DEF LInv, SocketOpen

LEMMA StepClose ==
  ASSUME LInv, CloseServers
  PROVE  LInv' /\ \A s \in Sockets : SocketOpen(s) => sock'[s].why # "deadline"
<1>1. \A s \in Sockets : Destroyed(s, "stop") \in Socket /\ Destroyed(s, "stop").st = "gone"
                         /\ Destroyed(s, "stop").why = "stop"
  <2> SUFFICES ASSUME NEW s \in Sockets
               PROVE  Destroyed(s, "stop") \in Socket /\ Destroyed(s, "stop").st = "gone"
                      /\ Destroyed(s, "stop").why = "stop"
    OBVIOUS
  <2>1. 0 \in 0..RequestTimeout /\ Off \in Nat BY ListenerAssumption
  <2>2. sock[s] \in Socket BY DEF LInv, ListenerTypeOK
  <2> QED BY <2>1, <2>2 DEF Destroyed, Socket, ParserPlaces
<1>2. \A s \in Sockets : AbortIfClientGone(requests[s]) \in Seq(Request)
  BY AbortTyped DEF LInv, ListenerTypeOK
<1>3. /\ sock' = [s \in Sockets |-> IF SocketOpen(s) THEN Destroyed(s, "stop") ELSE sock[s]]
      /\ entry' = [s \in Sockets |-> Untracked]
      /\ requests' = [s \in Sockets |->
           IF SocketOpen(s) THEN AbortIfClientGone(requests[s]) ELSE requests[s]]
      /\ UNCHANGED idle
  BY DEF CloseServers, DestroyedByStop
<1>4. ListenerTypeOK' BY <1>1, <1>2, <1>3, ClockTypes DEF LInv, ListenerTypeOK
<1>5. ASSUME NEW s \in Sockets
      PROVE  /\ sock'[s].st # "open" /\ entry'[s] = Untracked
             /\ sock'[s].st \in {"new", "handshake"} =>
                  sock'[s] = sock[s] /\ requests'[s] = requests[s]
             /\ SocketOpen(s) => sock'[s].why = "stop"
  BY <1>1, <1>3 DEF SocketOpen
<1> QED BY <1>4, <1>5 DEF LInv, SocketOpen

LEMMA StepQuiet ==
  ASSUME LInv, UNCHANGED <<idle, sock, entry, requests>>
  PROVE  LInv'
BY DEF LInv, ListenerTypeOK, SocketOpen

\* What a socket says of its end is said when it ends, and only of one whose
\* request is overdue that a deadline cut it.
CutsOverdue ==
  \A s \in Sockets : sock'[s].why = "deadline" /\ SocketOpen(s) => Overdue(ParserState(s))

LEMMA StepAll == ASSUME LInv, [ListenerNext]_listenerVars PROVE LInv' /\ CutsOverdue
<1>1. \A s \in Sockets : SocketOpen(s) => sock[s].why # "deadline" BY DEF LInv
<1>2. CASE UNCHANGED <<idle, sock, entry, requests>>
  BY <1>1, <1>2, StepQuiet DEF CutsOverdue
<1>3. CASE StartBread \/ Listen \/ Stop \/ Closed \/ UNCHANGED listenerVars
  BY <1>2, <1>3 DEF StartBread, Listen, Stop, Closed, listenerVars
<1>4. CASE CloseServers BY <1>4, StepClose DEF CutsOverdue
<1>5. CASE Tick
  <2>1. \A s \in Sockets : sock'[s].why = sock[s].why
    <3> SUFFICES ASSUME NEW s \in Sockets PROVE sock'[s].why = sock[s].why OBVIOUS
    <3>1. sock[s] \in Socket BY DEF LInv, ListenerTypeOK
    <3> QED BY <1>5, <3>1 DEF Tick, Socket
  <2> QED BY <1>1, <1>5, <2>1, StepTick DEF CutsOverdue
<1>6. ASSUME NEW s \in Sockets, \A t \in Sockets \ {s} : sock'[t] = sock[t],
             sock'[s].why = "deadline" /\ SocketOpen(s) => Overdue(ParserState(s))
      PROVE  CutsOverdue
  BY <1>1, <1>6 DEF CutsOverdue
<1>7. ASSUME NEW s \in Sockets,
             \/ ClientConnects(s) \/ SecureConnection(s) \/ HandshakeFails(s) \/ PeerLeaves(s)
             \/ Chunk(s) \/ Deadline(s) \/ SocketIdle(s)
             \/ Write(s) \/ Respond(s) \/ BadRequest(s) \/ CancelResponse(s)
             \/ \E i \in 1..MaxRequests : BodyRead(s, i)
      PROVE  \A t \in Sockets \ {s} : sock'[t] = sock[t]
  <2> USE <1>7 DEF LInv, ListenerTypeOK
  <2>1. CASE ClientConnects(s) \/ SecureConnection(s)
    BY <2>1 DEF ClientConnects, SecureConnection
  <2>2. CASE HandshakeFails(s) \/ PeerLeaves(s) \/ SocketIdle(s) \/ BadRequest(s)
    BY <2>2 DEF HandshakeFails, PeerLeaves, SocketIdle, BadRequest, CloseWith
  <2>3. CASE Chunk(s) BY <2>3 DEF Chunk, CloseWith
  <2>4. CASE Deadline(s) BY <2>4 DEF Deadline, CloseWith
  <2>5. CASE Write(s) \/ Respond(s) \/ CancelResponse(s)
    BY <2>5 DEF Write, Respond, CancelResponse
  <2>6. CASE \E i \in 1..MaxRequests : BodyRead(s, i) BY <2>6 DEF BodyRead
  <2> QED BY <2>1, <2>2, <2>3, <2>4, <2>5, <2>6
<1>8. ASSUME NEW s \in Sockets, ClientConnects(s) \/ SecureConnection(s) PROVE LInv' /\ CutsOverdue
  <2>1. ~SocketOpen(s) BY <1>8 DEF ClientConnects, SecureConnection, SocketOpen
  <2> QED BY <1>6, <1>7, <1>8, <2>1, StepConnect, StepSecure
<1>9. ASSUME NEW s \in Sockets, HandshakeFails(s) \/ PeerLeaves(s) \/ SocketIdle(s) \/ BadRequest(s)
      PROVE  LInv' /\ CutsOverdue
  BY <1>6, <1>7, <1>9, StepEnds
<1>10. ASSUME NEW s \in Sockets, Chunk(s) PROVE LInv' /\ CutsOverdue
  BY <1>6, <1>7, <1>10, StepChunk
<1>11. ASSUME NEW s \in Sockets, Deadline(s) PROVE LInv' /\ CutsOverdue
  BY <1>6, <1>7, <1>11, StepDeadline
<1>12. ASSUME NEW s \in Sockets,
              \/ Write(s) \/ Respond(s) \/ CancelResponse(s)
              \/ \E i \in 1..MaxRequests : BodyRead(s, i)
       PROVE  LInv' /\ CutsOverdue
  BY <1>1, <1>6, <1>7, <1>12, StepRequests
<1> QED BY <1>3, <1>4, <1>5, <1>8, <1>9, <1>10, <1>11, <1>12 DEF ListenerNext

----------------------------------------------------------------------------
(* Theorems.                                                               *)

\* The variables of the listener have their types: no clock runs below zero
\* or beyond its limit, and no idle timer either (MessageClock and
\* TrackedSocket of the deadline tracker).
THEOREM ListenerTypes == ListenerSpec => []ListenerTypeOK
<1>1. LInv => ListenerTypeOK BY DEF LInv
<1> QED BY <1>1, StepAll, StepInit, PTL DEF ListenerSpec

\* Whatever the number of sockets and the three timeouts, and however chunks,
\* the ends of earlier requests, responses and bodies nobody reads
\* interleave: a request being read on an open socket has a timer running
\* that is due by its own headers or request deadline (arm, finish and
\* onData of watchDeadlines).
THEOREM DeadlinesHeld == ListenerSpec => []DeadlineHeld
<1>1. LInv => DeadlineHeld
  <2> SUFFICES ASSUME LInv, NEW s \in Sockets, SocketOpen(s), Unfinished(s), ~sock[s].shared
               PROVE  entry[s].timer # Off /\ entry[s].timer + sock[s].age <= Limit(s)
    BY DEF DeadlineHeld
  <2>1. /\ entry[s] \in Clock /\ sock[s].at \in ParserPlaces /\ sock[s].age \in Nat
        /\ Shape(sock[s].at, sock[s].age, sock[s].shared, entry[s], requests[s])
    <3>1. sock[s] \in Socket /\ entry[s] \in Clock BY DEF LInv, ListenerTypeOK
    <3>2. sock[s].at \in ParserPlaces /\ sock[s].age \in 0..RequestTimeout
      BY <3>1 DEF Socket
    <3>4. sock[s].age \in Nat BY <3>2, ListenerAssumption
    <3>3. Shape(sock[s].at, sock[s].age, sock[s].shared, entry[s], requests[s]) BY DEF LInv
    <3> QED BY <3>1, <3>2, <3>3, <3>4
  <2>2. ~entry[s].done /\ sock[s].at # "between"
    BY <2>1 DEF Unfinished, RequestAnswered, Shape, ParserPlaces
  <2>3. /\ entry[s].timer \in Nat /\ entry[s].elapsed \in Nat
        /\ entry[s].timer + sock[s].age = Due(entry[s])
    BY <2>1, <2>2, ListenerAssumption DEF Shape, Running, Clock
  <2>4. Due(entry[s]) = Limit(s)
    <3>1. CASE sock[s].at = "body"
      <4>1. requests[s] # <<>> BY <3>1 DEF Unfinished, RequestAnswered
      <4> QED BY <2>1, <3>1, <4>1 DEF Shape, Due, Limit
    <3>2. CASE sock[s].at \in {"fresh", "head"}
      BY <2>1, <2>2, <3>2 DEF Shape, Due, Limit
    <3> QED BY <2>1, <2>2, <3>1, <3>2 DEF ParserPlaces
  <2>5. Limit(s) \in Nat /\ Limit(s) < Off BY ListenerAssumption DEF Limit
  <2>6. Off \in Nat BY ListenerAssumption
  <2> QED BY <2>1, <2>3, <2>4, <2>5, <2>6
<1> QED BY <1>1, StepAll, StepInit, PTL DEF ListenerSpec

\* And a deadline ends a socket only while a request is being read on it
\* whose own time is over, or one that began in its predecessor's last
\* chunk: never a slow handler, a response or the next request.
THEOREM OverdueOnlyCut == ListenerSpec => OnlyOverdueCut
<1>1. LInv /\ [ListenerNext]_listenerVars =>
        \A s \in Sockets :
          (sock'[s].why = "deadline" /\ SocketOpen(s)) =>
             sock[s].shared \/ (Unfinished(s) /\ sock[s].age >= Limit(s))
  <2> SUFFICES ASSUME LInv, [ListenerNext]_listenerVars, NEW s \in Sockets, sock'[s].why = "deadline", SocketOpen(s)
               PROVE  sock[s].shared \/ (Unfinished(s) /\ sock[s].age >= Limit(s))
    OBVIOUS
  <2>1. Overdue(ParserState(s)) BY StepAll DEF CutsOverdue
  <2>2. PICK st : st = ParserState(s) OBVIOUS
  <2>3. /\ st.at = sock[s].at /\ st.age = sock[s].age /\ st.shared = sock[s].shared
        /\ st.reqs = requests[s]
    BY <2>2 DEF ParserState
  <2> QED BY <2>1, <2>2, <2>3 DEF Overdue, Unfinished, RequestAnswered, Limit
<1> QED BY <1>1, StepAll, StepInit, PTL DEF ListenerSpec, OnlyOverdueCut

=============================================================================

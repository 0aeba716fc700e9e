------------------------------- MODULE Listener -------------------------------
(***************************************************************************)
(* A running server: startServerNode / startServer around listenMtls, the  *)
(* sockets it accepts, and the deadlines it keeps for them itself, because *)
(* the inner HTTP server never binds.  Node's HTTP parser is external.     *)
(*                                                                         *)
(* Time is a small integer.  A timer that is due fires before time goes    *)
(* on, but data already there may be handled first.                        *)
(***************************************************************************)
EXTENDS Naturals, Sequences

CONSTANTS
  Sockets,         \* connections, each with one life
  HeadersTimeout,  \* httpServer.headersTimeout
  RequestTimeout,  \* httpServer.requestTimeout
  IdleTimeouts,    \* what options.idleTimeout may be, 0 for never
  IdleDefault,     \* the idle timeout when it is omitted
  Off,             \* a timer that is not set: any number above the timeouts
  MaxRequests      \* bound: requests read, on all sockets

ASSUME ListenerAssumption ==
  /\ HeadersTimeout \in Nat \ {0} /\ RequestTimeout \in Nat
  /\ HeadersTimeout <= RequestTimeout
  /\ IdleTimeouts \subseteq Nat /\ IdleDefault \in Nat /\ MaxRequests \in Nat
  /\ Off \in Nat /\ RequestTimeout < Off
  /\ \A ms \in IdleTimeouts \cup {IdleDefault} : ms < Off

VARIABLES
  idle,     \* options.idleTimeout: given, and idleMs
  host,     \* startServer and the stop it returns
  sock,     \* each socket, and how far its bytes have been parsed
  entry,    \* tracked: each socket's MessageClock and timer
  requests, \* requests of the socket whose handler has not returned
  noted     \* requests read so far (bound)

listenerVars == <<idle, host, sock, entry, requests, noted>>

Untracked == [tracked |-> FALSE, elapsed |-> 0, headersDone |-> FALSE,
              done |-> TRUE, timer |-> Off]
FreshClock == [Untracked EXCEPT !.tracked = TRUE, !.done = FALSE]

\* age and shared are history: the time since the message being read began,
\* and whether it began in the same chunk that ended the one before; late, a
\* handshake that ended when the server was already closing
NewSocket == [st |-> "new", at |-> "fresh", age |-> 0, shared |-> FALSE,
              idle |-> Off, why |-> "", late |-> FALSE]

ListenerInit ==
  /\ idle \in [given : BOOLEAN, ms : IdleTimeouts \cup {IdleDefault}]
  /\ ~idle.given => idle.ms = IdleDefault
  /\ idle.given => idle.ms \in IdleTimeouts
  /\ host = "new"
  /\ sock = [s \in Sockets |-> NewSocket]
  /\ entry = [s \in Sockets |-> Untracked]
  /\ requests = [s \in Sockets |-> <<>>]
  /\ noted = 0

SocketOpen(s) == sock[s].st = "open"
IdleGap == IF idle.ms = 0 THEN Off ELSE idle.ms
----------------------------------------------------------------------------
\* The deadline tracker.

Smaller(a, b) == IF a < b THEN a ELSE b
Left(limit, elapsed) == IF elapsed < limit THEN limit - elapsed ELSE 0

RemainingMs(clock) ==
  IF clock.headersDone THEN Left(RequestTimeout, clock.elapsed)
  ELSE Smaller(Left(HeadersTimeout, clock.elapsed), Left(RequestTimeout, clock.elapsed))

Arm(clock) ==
  IF ~clock.tracked \/ clock.done THEN clock
  ELSE [clock EXCEPT !.timer = RemainingMs(clock)]

Finish(clock) == [clock EXCEPT !.done = TRUE, !.timer = Off, !.elapsed = 0]

\* entry.generation += 1: the ends of earlier requests are late from now on
Supersede(reqs) == [i \in DOMAIN reqs |-> [reqs[i] EXCEPT !.current = FALSE]]

\* What a chunk meets: the parser, the clock, the requests, and whether an
\* end was parsed in it or arm found the deadline already passed.
ParserState(s) == [at |-> sock[s].at, age |-> sock[s].age, shared |-> sock[s].shared,
               clock |-> entry[s], reqs |-> requests[s], ended |-> FALSE, cut |-> FALSE]

\* Mutant: body bytes nobody reads start the next request's deadline.
OnDataAnyBytes(st) ==
  IF ~st.clock.tracked \/ ~st.clock.done THEN st
  ELSE [st EXCEPT !.clock = Arm(FreshClock), !.reqs = Supersede(st.reqs)]

\* watch's own listener runs before the parser
OnData(st) ==
  IF ~st.clock.tracked \/ ~st.clock.done \/ st.at = "body" THEN st
  ELSE [st EXCEPT !.clock = Arm(FreshClock), !.reqs = Supersede(st.reqs)]

NoteRequest(st) ==
  LET clock == IF st.clock.done THEN FreshClock ELSE st.clock
      armed == Arm([clock EXCEPT !.headersDone = TRUE])
      req == [current |-> TRUE, read |-> FALSE, aborted |-> FALSE]
  IN IF ~st.clock.tracked
     THEN [st EXCEPT !.reqs = Append(st.reqs, [req EXCEPT !.current = FALSE])]
     ELSE [st EXCEPT !.clock = armed, !.cut = armed.timer = 0,
                     !.reqs = Append(Supersede(st.reqs), req)]

\* markIfComplete: only the newest request can still be current
MarkIfComplete(st) ==
  IF /\ st.reqs # <<>> /\ st.at # "body"
     /\ st.reqs[Len(st.reqs)].current
  THEN [st EXCEPT !.clock = Finish(st.clock)] ELSE st
----------------------------------------------------------------------------
\* The parser (external): what the bytes of one chunk can hold.

Chunks(at) ==
  CASE at \in {"fresh", "between"} ->
         {<<"head">>, <<"headers">>, <<"request">>, <<"request", "head">>}
    [] at = "head" -> {<<"head">>, <<"headers">>, <<"request">>, <<"request", "head">>}
    [] OTHER -> {<<"body">>, <<"end">>, <<"end", "head">>, <<"end", "headers">>,
                 <<"end", "request">>}

Begin(st) ==
  IF st.at = "between" THEN [st EXCEPT !.age = 0, !.shared = st.ended] ELSE st

Parse(st, event) ==
  CASE event = "head" -> [Begin(st) EXCEPT !.at = "head"]
    [] event = "headers" -> [NoteRequest(Begin(st)) EXCEPT !.at = "body"]
    [] event = "request" -> [NoteRequest(Begin(st)) EXCEPT !.at = "between", !.ended = TRUE]
    [] event = "body" -> st
    [] OTHER -> [st EXCEPT !.at = "between", !.ended = TRUE]

\* A chunk has one event or two.
ParseChunk(chunk, st) ==
  LET first == Parse(st, chunk[1])
  IN IF Len(chunk) = 1 THEN first ELSE Parse(first, chunk[2])
Notes(chunk) == Len(SelectSeq(chunk, LAMBDA e : e \in {"headers", "request"}))
----------------------------------------------------------------------------
\* Closing a socket: its timer goes with the tracked entry, and the handlers
\* of its requests see their signal aborted.

AbortIfClientGone(reqs) == [i \in DOMAIN reqs |-> [reqs[i] EXCEPT !.aborted = TRUE]]

Destroyed(s, why) == [sock[s] EXCEPT !.st = "gone", !.why = why, !.idle = Off,
                                     !.at = "between", !.age = 0, !.shared = FALSE]

CloseWith(s, why, reqs) ==
  /\ sock' = [sock EXCEPT ![s] = Destroyed(s, why)]
  /\ entry' = [entry EXCEPT ![s] = Untracked]
  /\ requests' = [requests EXCEPT ![s] = AbortIfClientGone(reqs)]
----------------------------------------------------------------------------
\* Sockets.

ClientConnects(s) ==
  /\ host \in {"up", "stopping"} /\ sock[s].st = "new"
  /\ sock' = [sock EXCEPT ![s].st = "handshake"]
  /\ UNCHANGED <<idle, host, entry, requests, noted>>

\* 'secureConnection', also while the server is closing
SecureConnection(s) ==
  /\ sock[s].st = "handshake"
  /\ sock' = [sock EXCEPT ![s] = [@ EXCEPT !.st = "open", !.late = host = "closing",
                                           !.idle = IF idle.given THEN IdleGap ELSE Off]]
  /\ entry' = [entry EXCEPT ![s] = Arm(FreshClock)]
  /\ UNCHANGED <<idle, host, requests, noted>>

\* 'tlsClientError', or the handshake timeout
HandshakeFails(s) ==
  /\ sock[s].st = "handshake" /\ CloseWith(s, "handshake", requests[s])
  /\ UNCHANGED <<idle, host, noted>>

PeerLeaves(s) ==
  /\ SocketOpen(s) /\ CloseWith(s, "peer", requests[s]) /\ UNCHANGED <<idle, host, noted>>

\* The first request of a socket arms its idle timer; every byte restarts it.
IdleAfter(s, chunk) ==
  IF Notes(chunk) > 0 THEN IdleGap ELSE IF sock[s].idle = Off THEN Off ELSE IdleGap

Chunk(s) ==
  /\ SocketOpen(s)
  /\ \E chunk \in Chunks(sock[s].at) :
       LET parsed == ParseChunk(chunk, OnData(ParserState(s)))
           after == MarkIfComplete(parsed)
       IN /\ noted + Notes(chunk) <= MaxRequests
          /\ noted' = noted + Notes(chunk)
          /\ IF parsed.cut THEN CloseWith(s, "deadline", parsed.reqs)
             ELSE /\ sock' = [sock EXCEPT ![s] =
                       [@ EXCEPT !.at = after.at, !.age = after.age,
                                 !.shared = after.shared, !.idle = IdleAfter(s, chunk)]]
                  /\ entry' = [entry EXCEPT ![s] = after.clock]
                  /\ requests' = [requests EXCEPT ![s] = after.reqs]
  /\ UNCHANGED <<idle, host>>

\* A timer set by arm: it computes the wait again, and cuts when there is none.
Deadline(s) ==
  /\ SocketOpen(s) /\ entry[s].timer = 0
  /\ IF RemainingMs(entry[s]) = 0 THEN CloseWith(s, "deadline", requests[s])
     ELSE /\ entry' = [entry EXCEPT ![s] = Arm(@)]
          /\ UNCHANGED <<sock, requests>>
  /\ UNCHANGED <<idle, host, noted>>

SocketIdle(s) ==
  /\ SocketOpen(s) /\ sock[s].idle = 0
  /\ CloseWith(s, "idle", requests[s]) /\ UNCHANGED <<idle, host, noted>>

Later(n) == IF n = Off THEN Off ELSE n - 1
Older(n) == Smaller(n + 1, RequestTimeout)

Tick ==
  /\ \E s \in Sockets : SocketOpen(s)
  /\ \A s \in Sockets : SocketOpen(s) => entry[s].timer # 0 /\ sock[s].idle # 0
  /\ sock' = [s \in Sockets |-> IF ~SocketOpen(s) THEN sock[s] ELSE
       [sock[s] EXCEPT !.idle = Later(@),
                       !.age = IF sock[s].at = "between" THEN 0 ELSE Older(@)]]
  /\ entry' = [s \in Sockets |-> IF entry[s].done THEN entry[s] ELSE
       [entry[s] EXCEPT !.timer = Later(@), !.elapsed = Older(@)]]
  /\ UNCHANGED <<idle, host, requests, noted>>
----------------------------------------------------------------------------
\* handleRequest.

ClientDisconnected(s) == ~SocketOpen(s)

\* The body was read to its end: 'end' and then 'close' of the request.
BodyRead(s, i) ==
  LET req == requests[s][i] IN
  /\ SocketOpen(s) /\ i \in DOMAIN requests[s] /\ ~req.read
  /\ i = Len(requests[s]) => sock[s].at # "body"
  /\ requests' = [requests EXCEPT ![s][i] =
       [req EXCEPT !.read = TRUE,
                   !.aborted = IF ClientDisconnected(s) THEN TRUE ELSE req.aborted]]
  /\ entry' = [entry EXCEPT ![s] = IF req.current THEN Finish(@) ELSE @]
  /\ UNCHANGED <<idle, host, sock, noted>>

\* writeResponse: part of the body is written
Write(s) ==
  /\ SocketOpen(s) /\ requests[s] # <<>> /\ sock[s].idle \notin {Off, IdleGap}
  /\ sock' = [sock EXCEPT ![s].idle = IdleGap]
  /\ UNCHANGED <<idle, host, entry, requests, noted>>

\* Mutant: the end of a response closes whatever clock is running.
ResponseEnds(s) == Finish(entry[s])

\* res 'finish': finish of this request
ResponseFinishes(s) == IF requests[s][1].current THEN Finish(entry[s]) ELSE entry[s]

Respond(s) ==
  /\ SocketOpen(s) /\ requests[s] # <<>>
  /\ sock' = [sock EXCEPT ![s].idle = IdleGap]
  /\ entry' = [entry EXCEPT ![s] = ResponseFinishes(s)]
  /\ requests' = [requests EXCEPT ![s] = Tail(@)]
  /\ UNCHANGED <<idle, host, noted>>

\* writeBadRequest: the response also closes the connection
BadRequest(s) ==
  /\ SocketOpen(s) /\ requests[s] # <<>>
  /\ CloseWith(s, "answered", Tail(requests[s])) /\ UNCHANGED <<idle, host, noted>>

\* fetchApp returns to a closed socket, and its body is cancelled
CancelResponse(s) ==
  /\ sock[s].st = "gone" /\ requests[s] # <<>>
  /\ requests' = [requests EXCEPT ![s] = Tail(@)]
  /\ UNCHANGED <<idle, host, sock, entry, noted>>
----------------------------------------------------------------------------
\* startServer and stop.

Settled == host \in {"down", "failed"}

StartBread ==
  /\ host = "new" /\ host' \in {"binding", "failed"}
  /\ UNCHANGED <<idle, sock, entry, requests, noted>>

\* listen succeeds, or listenMtls and then the instance are stopped
Listen ==
  /\ host = "binding" /\ host' \in {"up", "failed"}
  /\ UNCHANGED <<idle, sock, entry, requests, noted>>

Stop ==
  /\ host = "up" /\ host' = "stopping"
  /\ UNCHANGED <<idle, sock, entry, requests, noted>>

\* Mutant: the sockets already open are left to their clients.
DestroyNone(s) == FALSE

\* openSockets: a socket whose handshake is under way is not one of them
DestroyedByStop(s) == SocketOpen(s)

\* bread.stop has settled: deadlines.stop, then closeServers
CloseServers ==
  /\ host = "stopping" /\ host' = "closing"
  /\ sock' = [s \in Sockets |->
       IF DestroyedByStop(s) THEN Destroyed(s, "stop") ELSE sock[s]]
  /\ entry' = [s \in Sockets |-> Untracked]
  /\ requests' = [s \in Sockets |->
       IF DestroyedByStop(s) THEN AbortIfClientGone(requests[s]) ELSE requests[s]]
  /\ UNCHANGED <<idle, noted>>

\* tlsServer.close calls back when its last connection is over
Closed ==
  /\ host = "closing" /\ \A s \in Sockets : sock[s].st \notin {"handshake", "open"}
  /\ host' = "down" /\ UNCHANGED <<idle, sock, entry, requests, noted>>

ListenerNext ==
  \/ StartBread \/ Listen \/ Stop \/ CloseServers \/ Closed \/ Tick
  \/ \E s \in Sockets :
       \/ ClientConnects(s) \/ SecureConnection(s) \/ HandshakeFails(s) \/ PeerLeaves(s)
       \/ Chunk(s) \/ Deadline(s) \/ SocketIdle(s)
       \/ Write(s) \/ Respond(s) \/ BadRequest(s) \/ CancelResponse(s)
       \/ \E i \in 1..MaxRequests : BodyRead(s, i)

\* bread.stop settles, Node closes what was destroyed, and a handshake ends.
ListenerSpec ==
  /\ ListenerInit /\ [][ListenerNext]_listenerVars
  /\ WF_listenerVars(CloseServers) /\ WF_listenerVars(Closed)
  /\ \A s \in Sockets : WF_listenerVars(SecureConnection(s) \/ HandshakeFails(s))
----------------------------------------------------------------------------
\* Properties.

RequestAnswered(s) == sock[s].at = "body" /\ requests[s] = <<>>
Unfinished(s) == sock[s].at # "between" /\ ~RequestAnswered(s)
Limit(s) == IF sock[s].at = "body" THEN RequestTimeout ELSE HeadersTimeout

\* Deadlines: a request being read has a timer running, due no later than its
\* own headers or request deadline, however the ends of earlier requests,
\* their responses and the bytes of bodies nobody reads interleave with it.
\* Excused is a request that begins in the chunk ending the one before: its
\* clock is still done, and only the idle timer watches it until more arrives.
DeadlineHeld ==
  \A s \in Sockets :
    (SocketOpen(s) /\ Unfinished(s) /\ ~sock[s].shared) =>
      entry[s].timer # Off /\ entry[s].timer + sock[s].age <= Limit(s)

\* A deadline cuts only a request still being read whose own time is over:
\* never a slow handler, a response, or the request that follows.  Excused is
\* again the request that began in its predecessor's last chunk, which may
\* inherit its clock.
OnlyOverdueCut ==
  [][\A s \in Sockets :
       (sock'[s].why = "deadline" /\ SocketOpen(s)) =>
          sock[s].shared \/ (Unfinished(s) /\ sock[s].age >= Limit(s))]_listenerVars

\* stop settles whatever clients do.  Excused is a socket whose handshake
\* ends after the open sockets were destroyed: nobody destroys it.
StopSettles ==
  host = "stopping" ~> (host = "down" \/ \E s \in Sockets : sock[s].late)
=============================================================================

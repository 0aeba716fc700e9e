------------------------------ MODULE RedisFabric ------------------------------
(***************************************************************************)
(* The Redis transport of one replica, for one run's stream.  publish and  *)
(* the lookups of subscribe go through the `pub` connection, in order; the *)
(* read loop follows the stream on the `sub` connection.  Other replicas   *)
(* append to the stream too.                                               *)
(*                                                                         *)
(* An ioredis connection that breaks reconnects and sends again, in order, *)
(* every command that was not answered, executed or not.                   *)
(***************************************************************************)
EXTENDS Naturals, Sequences, FiniteSets

CONSTANTS
  Handlers,    \* calls of subscribe
  AfterSeqs,   \* the afterSeq they may be made with
  MaxSubs,     \* bound: Subscription objects created
  MaxEntries,  \* bound: frames published and malformed entries
  MaxLen,      \* opts.maxLen
  MaxBroken    \* bound: broken connections, failed lookups, malformed entries

ASSUME FabricAssumption ==
  /\ AfterSeqs \subseteq Nat /\ MaxSubs \in Nat /\ MaxEntries \in Nat
  /\ MaxLen \in Nat \ {0} /\ MaxBroken \in Nat

Subs == 1..MaxSubs
\* lastId = null: beyond any id, were every frame sent again at every fault
Null == MaxEntries * (MaxBroken + 1) + 1

VARIABLES
  \* Redis
  entries,   \* every entry ever appended, by id: its seq, 0 if malformed
  trimmed,   \* ids up to this one are no longer in the stream
  published, \* frames published so far: their numbers are 1, 2, ...
  \* the replica
  pub,       \* unanswered commands of the pub connection
  subs,      \* the run's entry in the map, 0 if none
  created,   \* Subscription objects created
  state,     \* each: its handlers, lastId, whether the anchor was answered
  handler,   \* each subscribe call: where it is, and the entries it was given
  loop,      \* the read loop, and the XREAD underway
  broken

redisVars == <<entries, trimmed, published>>
fabricVars == <<redisVars, pub, subs, created, state, handler, loop, broken>>

NoState == [handlers |-> {}, lastId |-> Null, anchored |-> FALSE]
NoHandler == [st |-> "out", of |-> 0, after |-> 0, replayed |-> FALSE, got |-> {}]
Idle == [pc |-> "idle", from |-> 0, reply |-> {}]

FabricInit ==
  /\ entries = <<>> /\ trimmed = 0 /\ published = 0
  /\ pub = <<>> /\ subs = 0 /\ created = 0
  /\ state = [n \in Subs |-> NoState]
  /\ handler = [h \in Handlers |-> NoHandler]
  /\ loop = Idle /\ broken = 0

Ids == 1..Len(entries)
Stored == {i \in Ids : i > trimmed}
Newest == IF Stored = {} THEN 0 ELSE Len(entries)
Breaks == broken < MaxBroken /\ broken' = broken + 1

\* XADD with MAXLEN ~: the oldest entries beyond the cap may go.
XAdd(seq) ==
  /\ entries' = Append(entries, seq)
  /\ trimmed' \in {trimmed} \cup {t \in Ids : t > trimmed /\ Len(entries) + 1 - t >= MaxLen}

-----------------------------------------------------------------------------
(* subscribe and publish.                                                  *)

Command(c, who) == [cmd |-> c, who |-> who, ran |-> FALSE, reply |-> {}]
\* The lookups of a subscribe call: the anchor of a new Subscription, then
\* the replay.
\* Mutant: the replay is asked for first.
RangeFirst(h, new, n) ==
  Append(pub, Command("range", h)) \o IF new THEN <<Command("anchor", n)>> ELSE <<>>
Lookups(h, new, n) ==
  (IF new THEN Append(pub, Command("anchor", n)) ELSE pub) \o <<Command("range", h)>>

Subscribe(h, after) ==
  LET new == subs = 0
      n == IF new THEN created + 1 ELSE subs
  IN
  /\ handler[h].st = "out" /\ n <= MaxSubs
  /\ subs' = n /\ created' = IF new THEN n ELSE created
  /\ state' = [state EXCEPT ![n].handlers = @ \cup {h}]
  /\ handler' = [handler EXCEPT ![h] = [@ EXCEPT !.st = "in", !.of = n, !.after = after]]
  /\ pub' = Lookups(h, new, n)
  /\ UNCHANGED <<redisVars, loop, broken>>

Unsubscribe(h) ==
  LET n == handler[h].of IN
  /\ handler[h].st = "in"
  /\ handler' = [handler EXCEPT ![h] = [NoHandler EXCEPT !.st = "gone"]]
  /\ state' = [state EXCEPT ![n].handlers = @ \ {h}]
  /\ subs' = IF state[n].handlers = {h} THEN 0 ELSE subs
  /\ UNCHANGED <<redisVars, pub, created, loop, broken>>

Room == published + Cardinality({i \in Ids : entries[i] = 0}) < MaxEntries
Publish ==
  /\ Room
  /\ published' = published + 1
  /\ pub' = Append(pub, Command("add", published'))
  /\ UNCHANGED <<entries, trimmed, subs, created, state, handler, loop, broken>>
\* Another replica runs the run, or writes an entry of another version.
PublishElsewhere ==
  /\ Room
  /\ \/ published' = published + 1 /\ XAdd(published') /\ UNCHANGED broken
     \/ XAdd(0) /\ UNCHANGED published /\ Breaks
  /\ UNCHANGED <<pub, subs, created, state, handler, loop>>

-----------------------------------------------------------------------------
(* The pub connection.                                                     *)

\* Redis runs the commands in order.
ToRun == {k \in DOMAIN pub : ~pub[k].ran}
Reply(c) == CASE c.cmd = "anchor" -> {Newest}
              [] c.cmd = "range" -> Stored
              [] c.cmd = "add" -> {}
Execute ==
  /\ \E k \in ToRun :
     /\ \A j \in ToRun : k <= j
     /\ pub' = [pub EXCEPT ![k] = [@ EXCEPT !.ran = TRUE, !.reply = Reply(pub[k])]]
     /\ IF pub[k].cmd = "add" THEN XAdd(pub[k].who)
        ELSE UNCHANGED <<entries, trimmed>>
  /\ UNCHANGED <<published, subs, created, state, handler, loop, broken>>

\* What a handler is given: the well-formed frames, and their numbers count.
Good(ids) == {i \in ids : entries[i] # 0}

\* The anchor is kept unless the read loop set lastId before; a failed lookup
\* anchors at the beginning.
Anchor(n, id) ==
  state' = [state EXCEPT ![n].anchored = TRUE,
                         ![n].lastId = IF @ = Null THEN id ELSE @]
AnchorAnswered(n, ids) ==
  /\ \/ \E id \in ids : Anchor(n, id) /\ UNCHANGED broken
     \/ Anchor(n, 0) /\ Breaks
  /\ UNCHANGED handler
\* replayTo: it calls a handler that has gone too, which no longer counts.
RangeAnswered(h, ids) ==
  /\ handler' = IF handler[h].st = "gone" THEN handler
       ELSE [handler EXCEPT ![h].replayed = TRUE,
              ![h].got = @ \cup {i \in Good(ids) : entries[i] > handler[h].after}]
  /\ UNCHANGED <<state, broken>>
Answered ==
  /\ pub # <<>> /\ Head(pub).ran
  /\ LET c == Head(pub) IN
     CASE c.cmd = "anchor" -> AnchorAnswered(c.who, c.reply)
       [] c.cmd = "range"  -> RangeAnswered(c.who, c.reply)
       [] c.cmd = "add"    -> UNCHANGED <<state, handler, broken>>
  /\ pub' = Tail(pub)
  /\ UNCHANGED <<redisVars, subs, created, loop>>

\* Whatever was executed and not answered is sent again.
PubReconnects ==
  /\ pub # <<>> /\ Breaks
  /\ pub' = [k \in DOMAIN pub |-> [pub[k] EXCEPT !.ran = FALSE, !.reply = {}]]
  /\ UNCHANGED <<redisVars, subs, created, state, handler, loop>>

-----------------------------------------------------------------------------
(* readLoop.                                                               *)

\* Once the anchors were answered, XREAD from lastId.
XRead ==
  /\ loop.pc = "idle" /\ subs # 0
  /\ state[subs].anchored
  /\ loop' = [Idle EXCEPT !.pc = "blocked", !.from = state[subs].lastId]
  /\ UNCHANGED <<redisVars, pub, subs, created, state, handler, broken>>
\* What is there, or nothing when the block times out.
XReadReplies ==
  /\ loop.pc = "blocked"
  /\ LET ids == {i \in Stored : i > loop.from} IN
     loop' = IF ids = {} THEN Idle ELSE [Idle EXCEPT !.pc = "answered", !.reply = ids]
  /\ UNCHANGED <<redisVars, pub, subs, created, state, handler, broken>>

\* Mutant: an entry that cannot be read ends the reply.
UpToMalformed(ids) == {i \in ids : \A j \in ids : j <= i => entries[j] # 0}
Handled(ids) == ids

\* A reply goes to whatever Subscription the run has now, and its last id moves
\* that Subscription on.
Dispatch ==
  /\ loop.pc = "answered" /\ loop' = Idle
  /\ LET ids == Handled(loop.reply) IN
     IF subs = 0 \/ ids = {} THEN UNCHANGED <<state, handler>>
     ELSE /\ \E last \in ids : /\ \A i \in ids : i <= last
                              /\ state' = [state EXCEPT ![subs].lastId = last]
          /\ handler' = [h \in Handlers |->
               IF h \in state[subs].handlers
               THEN [handler[h] EXCEPT !.got = @ \cup Good(ids)] ELSE handler[h]]
  /\ UNCHANGED <<redisVars, pub, subs, created, broken>>

\* A failed XREAD, or a sub connection that breaks: read again.
ReadFails ==
  /\ loop.pc \in {"blocked", "answered"} /\ Breaks
  /\ loop' = Idle
  /\ UNCHANGED <<redisVars, pub, subs, created, state, handler>>

-----------------------------------------------------------------------------
ConnAct == Execute \/ Answered
LoopAct == XRead \/ XReadReplies \/ Dispatch
FabricNext ==
  \/ \E h \in Handlers : Unsubscribe(h) \/ \E after \in AfterSeqs : Subscribe(h, after)
  \/ Publish \/ PublishElsewhere \/ ConnAct \/ PubReconnects
  \/ LoopAct \/ ReadFails

\* Redis answers and the loop runs.
FabricSpec ==
  FabricInit /\ [][FabricNext]_fabricVars /\ WF_fabricVars(ConnAct) /\ WF_fabricVars(LoopAct)

-----------------------------------------------------------------------------
(* Properties.                                                             *)

Subscribed(h) == handler[h].st = "in"
Wanted(h) == {i \in Good(Stored) : entries[i] > handler[h].after}

\* Once its replay was answered, a handler has every frame it asked for that
\* lies before the point the read loop goes on from, unless it was trimmed:
\* no frame falls between the replay and the live entries (subscribe's anchor
\* and its order with replayTo).
NothingMissed ==
  \A h \in Handlers :
    LET s == state[handler[h].of] IN
    Subscribed(h) /\ handler[h].replayed /\ s.lastId # Null =>
      {i \in Wanted(h) : i <= s.lastId} \subseteq handler[h].got

\* Every frame a handler asked for reaches it, unless it unsubscribes or the
\* frame is trimmed first (readLoop goes on over errors and malformed entries).
Among(ids, seq) == \E i \in ids : entries[i] = seq
Arrives ==
  \A h \in Handlers : \A seq \in 1..MaxEntries :
    (Subscribed(h) /\ Among(Wanted(h), seq)) ~>
      (Among(handler[h].got, seq) \/ ~Subscribed(h) \/ ~Among(Stored, seq))
=============================================================================

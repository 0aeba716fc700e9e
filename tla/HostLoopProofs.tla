---------------------------- MODULE HostLoopProofs ----------------------------
(***************************************************************************)
(* Proofs about HostLoop, for any nesting of loops, any number of them, of *)
(* iterations, steps and streams, and any faults: only running loops gain  *)
(* iterations, within the cap, and each is closed once.                    *)
(*                                                                         *)
(* Clients act on what a stream yields, not on onHumanRequired (Callback = *)
(* FALSE); a loop has at least one iteration (start runs the first without *)
(* a look at the cap).  A host checkpoint that was read, and is acted on   *)
(* after it changed, ends what is promised (Fresh), as in RefinesLoop.     *)
(*                                                                         *)
(* The argument.  A running loop is in one place: at a level of a stream,  *)
(* in a host checkpoint, or with the stream that took the checkpoint to    *)
(* close the iteration (Place).  The right to close an iteration is a link *)
(* to its host, and exactly one checkpoint or stream has it (Held): the    *)
(* worker that waits, the stream that resumes it, the frame being linked.  *)
(* Links and pending lists agree, so that a host leads back to the worker  *)
(* below it (Above), whose checkpoint nobody can resume before the links   *)
(* are whole (Told).                                                       *)
(***************************************************************************)
EXTENDS HostLoop, TLAPS

----------------------------------------------------------------------------
(* The parts of the inductive invariant.                                   *)

\* Where a stream is in a turn.
Asking == {"retarget", "save", "notify", "yield", "link"}
Suspending(p) == pc[p] = "suspending" \/ pc[p] \in Asking
Stacked(p) == Suspending(p) \/ pc[p] \in {"turn", "ended"}
Closing(p) == pc[p] \in {"closing", "host", "record"}

\* A level of a stream works on its loop.
Live(p, k) ==
  /\ act[p].top <= k /\ k <= Lvl(p) /\ Cur(p, k) # 0
  /\ \/ pc[p] \in {"turn", "suspending"}
     \/ Stacked(p) /\ k < Lvl(p)

\* Where a running loop is: with a level of a stream, in a host checkpoint,
\* or with a stream that has claimed the host and is closing its iteration.
Place(a, z, k, l) ==
  \/ a = "live" /\ z \in Streams /\ k \in Levels /\ Live(z, k) /\ l = Cur(z, k)
  \/ a = "host" /\ z \in Hosts /\ k = 0 /\ l = rows[z].loop
  \/ a = "record" /\ z \in Streams /\ k = 0 /\ pc[z] = "record" /\ l = act[z].link.loop

PlaceOnce ==
  \A a, z, k, l, b, y, j : Place(a, z, k, l) /\ Place(b, y, j, l) => a = b /\ z = y /\ k = j
PlaceRuns ==
  \A a, z, k, l : Place(a, z, k, l) =>
    /\ l \in Running
    /\ Done(l) < MaxIterations \/ (a = "live" /\ pc[z] = "turn" /\ k = Lvl(z))

\* The right to close an iteration is a link: a checkpoint has it, the stream
\* that resumes it, or a stream that is moving it.
Bearing(p) ==
  \/ pc[p] \in {"turn", "suspending", "ended"} \/ Closing(p)
  \/ pc[p] \in Asking /\ act[p].top < Lvl(p)
Read(p) == snap[p][act[p].link.host]
Held(k, z, ln, v) ==
  \/ k = "row" /\ z \in Stored \ claimed /\ ln = rows[z].link /\ v = rows[z].level
  \/ k = "act" /\ z \in Streams /\ Bearing(z) /\ ln = act[z].link /\ v = act[z].top
  \/ k = "read" /\ z \in Streams /\ pc[z] = "record" /\ ln = Read(z).link /\ v = Read(z).level
  \/ k = "frame" /\ z \in Streams /\ pc[z] = "link"
     /\ \E f \in DOMAIN snap[z] : ln = snap[z][f].link /\ v = snap[z][f].level

TokenShape ==
  \A k, z, ln, v : Held(k, z, ln, v) =>
    /\ ln.loop = 0 => ln.host = 0
    /\ k # "row" /\ ln.host = 0 => ln.loop = 0
    /\ ln.host <= issued
    /\ ln.loop # 0 => ln.loop \notin Unused
TokenFits ==
  \A k, z, ln, v : Held(k, z, ln, v) =>
    /\ ln.host \in Stored => rows[ln.host].loop = ln.loop /\ rows[ln.host].level = v - 1
    /\ ln.host \in Ids \ Stored => ln.loop \notin Running \/ (k = "act" /\ pc[z] = "record")
TokenOnce ==
  \A k, z, ln, v, j, y, m, w :
    Held(k, z, ln, v) /\ Held(j, y, m, w) /\ ln.host = m.host /\ m.host # 0 => k = j /\ z = y

\* Rows and ids.
Issued == (\A i \in Stored : i <= issued) /\ (\A i \in announced : i <= issued)
NoneYet == \A l \in Unused : recorded[l] = <<>>
Leaf(i) == IF rows[i].loop = 0 THEN {i} ELSE rows[i].pending
Singles ==
  \A i \in Stored :
    /\ rows[i].loop = 0 => rows[i].pending = {} /\ rows[i].level = Depth
    /\ rows[i].loop # 0 => rows[i].level < Depth
    /\ rows[i].loop # 0 => \E c \in Ids :
         c <= issued /\ rows[i].pending = {c} /\ (c \in Stored => rows[c].loop = 0)
Claims ==
  /\ claimed \subseteq Stored
  /\ \A c \in claimed : rows[c].loop = 0
  /\ \A p, q \in Streams :
       worker[p].releasing /\ worker[q].releasing /\ worker[p].id = worker[q].id => p = q
  /\ \A p, q \in Streams : Suspending(p) /\ Suspending(q) /\ child[p] = child[q] => p = q

\* What is pending, upward along the links.
Passing(p) == pc[p] \in {"link", "retarget", "save"} /\ Lvl(p) = act[p].top
Orphan(i) ==
  /\ Leaf(i) \cap (announced \cup claimed) = {}
  /\ \A p \in Streams : Suspending(p) => Leaf(i) # {child[p]}
Handed(p, i) ==
  /\ Passing(p) /\ Leaf(i) = {child[p]} /\ rows[i].link.host = act[p].link.host
  /\ worker[p].releasing /\ rows[rows[i].link.host].pending = {worker[p].id}
Above ==
  \A i \in Stored \ claimed : rows[i].link.host \in Stored =>
    \/ rows[rows[i].link.host].pending = Leaf(i)
    \/ \E p \in Streams : Handed(p, i)
    \/ Orphan(i)

\* Unlinked rows.
Whole(i) == rows[i].link.loop = 0 \/ rows[i].link.host # 0
Unlinked == {i \in Stored \ claimed : ~Whole(i)}
Told ==
  /\ \A c \in announced \cap Stored : rows[c].loop = 0 /\ Whole(c)
  /\ \A h \in Hosts : rows[h].pending \cap (announced \cup claimed) # {} => Whole(h)

\* What a stream holds.
StackOK(p) ==
  /\ act[p].link.host <= issued
  /\ Stacked(p) =>
       /\ act[p].top <= Lvl(p) /\ Cur(p, Depth) = 0
       /\ \A k \in Levels : act[p].top <= k /\ k < Lvl(p) => Cur(p, k) = Open(p, k) /\ Cur(p, k) # 0
       /\ pc[p] = "suspending" \/ (pc[p] \in Asking /\ Lvl(p) < Depth) =>
            Lvl(p) < Depth /\ Cur(p, Lvl(p)) = Open(p, Lvl(p)) /\ Cur(p, Lvl(p)) # 0
       /\ pc[p] = "link" => Lvl(p) < Depth
WorkerOK(p) ==
  /\ worker[p].releasing => pc[p] # "off" /\ worker[p].id \in claimed
  /\ ~worker[p].releasing => worker[p].id \notin Stored
  /\ worker[p].id <= issued
ChildOK(p) == Suspending(p) =>
  child[p] \in Stored /\ child[p] \notin claimed /\ child[p] \notin announced /\ rows[child[p]].loop = 0
ClaimOK(p) ==
  /\ pc[p] = "claim" =>
       /\ child[p] \in announced /\ DOMAIN snap[p] = {child[p]} /\ snap[p][child[p]].loop = 0
       /\ child[p] \in Stored => rows[child[p]] = snap[p][child[p]]
  /\ pc[p] = "inspect" => DOMAIN snap[p] = {child[p]} /\ snap[p][child[p]].loop # 0
Carried(p) ==
  Bearing(p) /\ act[p].link.host \in Stored =>
    worker[p].releasing /\ rows[act[p].link.host].pending = {worker[p].id}
ClosingOK(p) ==
  /\ Closing(p) => act[p].link.host # 0
  /\ pc[p] \in {"host", "record"} =>
       /\ DOMAIN snap[p] = {act[p].link.host}
       /\ Read(p).loop = act[p].link.loop /\ Read(p).level = act[p].top - 1
       /\ Read(p).pending = {worker[p].id}
  /\ pc[p] = "host" /\ act[p].link.host \in Stored => rows[act[p].link.host] = Read(p)
  /\ pc[p] = "record" => act[p].link.host \notin Stored
  /\ pc[p] = "record" /\ Read(p).link.host \in Stored =>
       worker[p].releasing /\ rows[Read(p).link.host].pending = {worker[p].id}
Linking(p) == pc[p] = "link" =>
  \E f \in Stored \ claimed, n \in Hosts :
    /\ DOMAIN snap[p] = {f}
    /\ f \in Upward(child[p]) /\ Leaf(f) = {child[p]} /\ rows[f].level = Lvl(p) + 1
    /\ rows[f].link.host = 0 /\ rows[f].link.loop = Cur(p, Lvl(p))
    /\ snap[p][f] = [rows[f] EXCEPT !.link = snap[p][f].link]
    /\ snap[p][f].link.loop = rows[f].link.loop /\ snap[p][f].link.host = n
    /\ rows[n].pending = {child[p]} /\ rows[n].level = Lvl(p) /\ rows[n].loop = Cur(p, Lvl(p))
    /\ Lvl(p) = act[p].top => rows[n].link.host = act[p].link.host
Tip(p) ==
  pc[p] = "retarget" /\ Lvl(p) = act[p].top /\ act[p].link.host \in Stored =>
    act[p].link.host \in Upward(child[p]) \ {child[p]}
Saving(p) == pc[p] = "save" =>
  /\ DOMAIN snap[p] \subseteq Hosts
  /\ \A i \in DOMAIN snap[p] :
       /\ snap[p][i] = [rows[i] EXCEPT !.pending = {child[p]}]
       /\ \/ rows[i].pending = {child[p]}
          \/ worker[p].releasing /\ rows[i].pending = {worker[p].id}
       /\ \E j \in DOMAIN snap[p] \cup {child[p]} : rows[j].link.host = i
  /\ \A j \in DOMAIN snap[p] \cup {child[p]} :
       rows[j].link.host \in Stored => rows[j].link.host \in DOMAIN snap[p]
  /\ Lvl(p) = act[p].top /\ act[p].link.host \in Stored => act[p].link.host \in DOMAIN snap[p]
Chain(p) == Suspending(p) =>
  /\ \A i \in Unlinked : Leaf(i) = {child[p]} =>
       \/ pc[p] = "suspending" /\ rows[i].level = Lvl(p) + 1 /\ rows[i].link.loop = Cur(p, Lvl(p))
       \/ pc[p] = "link" /\ i \in DOMAIN snap[p]
       \/ pc[p] \in Asking /\ rows[i].level = Lvl(p) /\ act[p].top < Lvl(p)
          /\ rows[i].link.loop = Cur(p, Lvl(p) - 1)
  /\ \A i, j \in Unlinked : Leaf(i) = {child[p]} /\ Leaf(j) = {child[p]} =>
       i = j \/ (pc[p] = "link" /\ (i \in DOMAIN snap[p] \/ j \in DOMAIN snap[p]))
FramesOver(p) ==
  /\ pc[p] \in {"off", "claim", "inspect"} => frames[p] = << >>
  /\ \A n \in DOMAIN frames[p] :
       LET f == frames[p][n] IN
       /\ f.loop \in Loops /\ status[f.loop] # "none" /\ f.child = worker[p].id
       /\ f.loop \in Running =>
            /\ n = Len(frames[p]) /\ Stacked(p) /\ Cur(p, act[p].top) = f.loop
            /\ pc[p] = "ended" => act[p].top < Lvl(p)

Local(p) ==
  /\ StackOK(p) /\ WorkerOK(p) /\ ChildOK(p) /\ ClaimOK(p) /\ Carried(p) /\ ClosingOK(p)
  /\ Linking(p) /\ Tip(p) /\ Saving(p) /\ Chain(p) /\ FramesOver(p)
Types == TypeOK /\ DOMAIN snap = Streams
Tokens == TokenShape /\ TokenFits /\ TokenOnce
Global ==
  /\ Types /\ PlaceOnce /\ PlaceRuns /\ Tokens /\ Issued /\ NoneYet /\ Singles /\ Claims
  /\ Above /\ Told
Fresh == "overtaken" \notin happened
Inv == Global /\ \A p \in Streams : Local(p)
HInv == Fresh => Inv

----------------------------------------------------------------------------
(* Following host links.                                                   *)

LEMMA UpwardStored == ASSUME NEW id PROVE Upward(id) \subseteq Stored
  BY DEF Upward

LEMMA UpwardSelf == ASSUME NEW id \in Stored PROVE id \in Upward(id)
  BY DEF Upward

LEMMA UpwardNext ==
  ASSUME NEW id, NEW i \in Upward(id), rows[i].link.host \in Stored
  PROVE  rows[i].link.host \in Upward(id)
<1> SUFFICES ASSUME NEW S \in SUBSET Stored,
                    ({id} \cup {rows[j].link.host : j \in S}) \cap Stored \subseteq S
             PROVE  rows[i].link.host \in S
  BY DEF Upward
<1>1. i \in S BY DEF Upward
<1> QED BY <1>1

LEMMA UpwardWithin ==
  ASSUME NEW id, NEW G, id \in Stored => id \in G,
         \A i \in G \cap Stored : rows[i].link.host \in Stored => rows[i].link.host \in G
  PROVE  Upward(id) \subseteq G
<1> DEFINE S == G \cap Stored
<1>1. S \in SUBSET Stored OBVIOUS
<1>2. ({id} \cup {rows[j].link.host : j \in S}) \cap Stored \subseteq S OBVIOUS
<1> HIDE DEF S
<1>3. Upward(id) \subseteq S BY <1>1, <1>2 DEF Upward
<1> QED BY <1>3 DEF S

LEMMA UpwardFrom ==
  ASSUME NEW id, NEW h \in Upward(id), h # id
  PROVE  \E i \in Upward(id) : rows[i].link.host = h
<1> SUFFICES ASSUME \A i \in Upward(id) : rows[i].link.host # h PROVE FALSE
  OBVIOUS
<1> DEFINE G == Upward(id) \ {h}
<1>1. id \in Stored => id \in G BY UpwardSelf
<1>2. \A i \in G \cap Stored : rows[i].link.host \in Stored => rows[i].link.host \in G
  BY UpwardNext
<1> HIDE DEF G
<1>3. Upward(id) \subseteq G BY <1>1, <1>2, UpwardWithin
<1> QED BY <1>3 DEF G


----------------------------------------------------------------------------
(* Rows and tokens.                                                        *)

LEMMA NotARow == NoRow \notin Row
  BY SizeAssumption DEF NoRow, Row, Levels

LEMMA RowType ==
  ASSUME Types, NEW i \in Stored
  PROVE  /\ i \in Ids /\ rows[i] \in Row
         /\ rows[i].level \in Levels /\ rows[i].loop \in 0..MaxLoops
         /\ rows[i].pending \in SUBSET Ids
         /\ rows[i].link \in Link /\ rows[i].link.loop \in 0..MaxLoops
         /\ rows[i].link.host \in 0..MaxRows /\ rows[i].link.step \in 1..Steps
<1>1. i \in Ids /\ rows[i] \in Row BY DEF Types, TypeOK, Stored
<1>2. rows[i].level \in Levels /\ rows[i].loop \in 0..MaxLoops
      /\ rows[i].pending \in SUBSET Ids /\ rows[i].link \in Link
  BY <1>1 DEF Row
<1> QED BY <1>1, <1>2 DEF Link

LEMMA ActType ==
  ASSUME Types, NEW p \in Streams
  PROVE  /\ act[p] \in Activation /\ act[p].top \in Levels /\ Lvl(p) \in Levels
         /\ \A k \in Levels : Cur(p, k) \in 0..MaxLoops /\ Open(p, k) \in 0..MaxLoops
                              /\ act[p].step[k] \in 1..Steps
         /\ act[p].link \in Link /\ act[p].link.loop \in 0..MaxLoops
         /\ act[p].link.host \in 0..MaxRows
<1>1. act[p] \in Activation BY DEF Types, TypeOK
<1>2. /\ act[p].top \in Levels /\ act[p].lvl \in Levels /\ act[p].link \in Link
      /\ act[p].cur \in [Levels -> 0..MaxLoops] /\ act[p].open \in [Levels -> 0..MaxLoops]
      /\ act[p].step \in [Levels -> 1..Steps]
  BY <1>1 DEF Activation
<1> QED BY <1>1, <1>2 DEF Link, Lvl, Cur, Open

LEMMA IdTypes ==
  /\ Ids \subseteq Nat /\ 0 \notin Ids /\ 0..MaxRows = Ids \cup {0}
  /\ Loops \subseteq Nat /\ 0 \notin Loops /\ 0..MaxLoops = Loops \cup {0}
  BY SizeAssumption DEF Ids, Loops

LEMMA RowToken ==
  ASSUME Tokens, NEW i \in Stored \ claimed
  PROVE  /\ rows[i].link.loop = 0 => rows[i].link.host = 0
         /\ rows[i].link.host <= issued
         /\ rows[i].link.loop # 0 => rows[i].link.loop \notin Unused
         /\ rows[i].link.host \in Stored =>
              /\ rows[rows[i].link.host].loop = rows[i].link.loop
              /\ rows[rows[i].link.host].level = rows[i].level - 1
         /\ rows[i].link.host \in Ids \ Stored => rows[i].link.loop \notin Running
<1>1. Held("row", i, rows[i].link, rows[i].level) BY DEF Held
<1> QED BY <1>1 DEF Tokens, TokenShape, TokenFits

LEMMA ActToken ==
  ASSUME Tokens, NEW p \in Streams, Bearing(p)
  PROVE  /\ act[p].link.loop = 0 <=> act[p].link.host = 0
         /\ act[p].link.host <= issued
         /\ act[p].link.loop # 0 => act[p].link.loop \notin Unused
         /\ act[p].link.host \in Stored =>
              /\ rows[act[p].link.host].loop = act[p].link.loop
              /\ rows[act[p].link.host].level = act[p].top - 1
         /\ act[p].link.host \in Ids \ Stored =>
              act[p].link.loop \notin Running \/ pc[p] = "record"
<1>1. Held("act", p, act[p].link, act[p].top) BY DEF Held
<1> QED BY <1>1 DEF Tokens, TokenShape, TokenFits

LEMMA ReadToken ==
  ASSUME Tokens, NEW p \in Streams, pc[p] = "record"
  PROVE  /\ Read(p).link.loop = 0 <=> Read(p).link.host = 0
         /\ Read(p).link.host <= issued
         /\ Read(p).link.loop # 0 => Read(p).link.loop \notin Unused
         /\ Read(p).link.host \in Stored =>
              /\ rows[Read(p).link.host].loop = Read(p).link.loop
              /\ rows[Read(p).link.host].level = Read(p).level - 1
         /\ Read(p).link.host \in Ids \ Stored => Read(p).link.loop \notin Running
<1>1. Held("read", p, Read(p).link, Read(p).level) BY DEF Held
<1> QED BY <1>1 DEF Tokens, TokenShape, TokenFits

\* One checkpoint leads to a host, or the stream that resumes it.
LEMMA OneRow ==
  ASSUME Tokens, NEW i \in Stored \ claimed, rows[i].link.host # 0
  PROVE  /\ \A j \in Stored \ claimed : rows[j].link.host = rows[i].link.host => i = j
         /\ \A p \in Streams : Bearing(p) => act[p].link.host # rows[i].link.host
         /\ \A p \in Streams : pc[p] = "record" => Read(p).link.host # rows[i].link.host
<1>1. Held("row", i, rows[i].link, rows[i].level) BY DEF Held
<1>2. ASSUME NEW j \in Stored \ claimed, rows[j].link.host = rows[i].link.host PROVE i = j
  <2>1. Held("row", j, rows[j].link, rows[j].level) BY DEF Held
  <2> QED BY <1>1, <1>2, <2>1 DEF Tokens, TokenOnce
<1>3. ASSUME NEW p \in Streams, Bearing(p) PROVE act[p].link.host # rows[i].link.host
  <2>1. Held("act", p, act[p].link, act[p].top) BY <1>3 DEF Held
  <2>2. "row" # "act" OBVIOUS
  <2> QED BY <1>1, <2>1, <2>2 DEF Tokens, TokenOnce
<1>4. ASSUME NEW p \in Streams, pc[p] = "record" PROVE Read(p).link.host # rows[i].link.host
  <2>1. Held("read", p, Read(p).link, Read(p).level) BY <1>4 DEF Held
  <2>2. "row" # "read" OBVIOUS
  <2> QED BY <1>1, <2>1, <2>2 DEF Tokens, TokenOnce
<1> QED BY <1>2, <1>3, <1>4

LEMMA OneAct ==
  ASSUME Tokens, NEW p \in Streams, Bearing(p), act[p].link.host # 0
  PROVE  /\ \A q \in Streams : Bearing(q) /\ act[q].link.host = act[p].link.host => p = q
         /\ \A q \in Streams : pc[q] = "record" => Read(q).link.host # act[p].link.host
<1>1. Held("act", p, act[p].link, act[p].top) BY DEF Held
<1>2. ASSUME NEW q \in Streams, Bearing(q), act[q].link.host = act[p].link.host PROVE p = q
  <2>1. Held("act", q, act[q].link, act[q].top) BY <1>2 DEF Held
  <2> QED BY <1>1, <1>2, <2>1 DEF Tokens, TokenOnce
<1>3. ASSUME NEW q \in Streams, pc[q] = "record" PROVE Read(q).link.host # act[p].link.host
  <2>1. Held("read", q, Read(q).link, Read(q).level) BY <1>3 DEF Held
  <2>2. "act" # "read" OBVIOUS
  <2> QED BY <1>1, <2>1, <2>2 DEF Tokens, TokenOnce
<1> QED BY <1>2, <1>3

\* What is linked to is a host.
LEMMA LinkedHost ==
  ASSUME Types, Tokens, NEW i \in Stored \ claimed, rows[i].link.host \in Stored
  PROVE  rows[i].link.host \in Hosts
  BY RowToken, IdTypes DEF Hosts, Stored

----------------------------------------------------------------------------
(* What a stream owns: the rows that wait for its child, or for its worker. *)

Mine(p) ==
  (IF Suspending(p) THEN {child[p]} ELSE {})
  \cup (IF worker[p].releasing THEN {worker[p].id} ELSE {})
Of(p, i) == i \in Stored /\ \E c \in Mine(p) : Leaf(i) = {c}

\* The link from a row to its host, in a chain of p.
LEMMA NextOwned ==
  ASSUME Inv, NEW p \in Streams, Suspending(p),
         NEW i \in Stored \ claimed, Of(p, i), rows[i].link.host \in Stored
  PROVE  /\ rows[i].link.host \in Hosts \ claimed /\ Of(p, rows[i].link.host)
         /\ Leaf(rows[i].link.host) = rows[rows[i].link.host].pending
<1> DEFINE h == rows[i].link.host
<1>1. h \in Hosts BY LinkedHost DEF Inv, Global
<1>2. h \notin claimed BY <1>1 DEF Inv, Global, Claims, Hosts
<1>3. Leaf(h) = rows[h].pending BY <1>1 DEF Leaf, Hosts
<1> HIDE DEF h
<1>4. child[p] \notin claimed /\ (worker[p].releasing => worker[p].id \in claimed)
  BY DEF Inv, Local, ChildOK, WorkerOK
<1>5. Of(p, h)
  <2>1. CASE rows[h].pending = Leaf(i) BY <2>1, <1>1, <1>3 DEF Of, Hosts
  <2>2. CASE Orphan(i)
    BY <2>2, <1>4 DEF Orphan, Of, Mine
  <2>3. ASSUME NEW q \in Streams, Handed(q, i) PROVE Of(p, h)
    <3>1. Suspending(q) /\ Leaf(i) = {child[q]} BY <2>3 DEF Handed, Passing, Suspending, Asking
    <3>2. child[q] \notin claimed BY <3>1 DEF Inv, Local, ChildOK
    <3>3. Leaf(i) = {child[p]} BY <3>1, <3>2, <1>4 DEF Of, Mine
    <3>4. p = q BY <3>1, <3>3 DEF Inv, Global, Claims
    <3> QED BY <3>4, <2>3, <1>1, <1>3 DEF Handed, Of, Mine, h, Hosts
  <2> QED BY <2>1, <2>2, <2>3 DEF Inv, Global, Above, h
<1> QED BY <1>1, <1>2, <1>3, <1>5 DEF h

\* The whole chain above a question is its stream's.
LEMMA ChainOwned ==
  ASSUME Inv, NEW p \in Streams, Suspending(p)
  PROVE  \A i \in Upward(child[p]) :
           /\ i \in Stored \ claimed /\ Of(p, i)
           /\ i # child[p] => i \in Hosts
<1> DEFINE G == {i \in Stored \ claimed : Of(p, i) /\ (i # child[p] => i \in Hosts)}
<1>1. child[p] \in G
  <2>1. child[p] \in Stored \ claimed /\ rows[child[p]].loop = 0 BY DEF Inv, Local, ChildOK
  <2>2. Leaf(child[p]) = {child[p]} BY <2>1 DEF Leaf
  <2> QED BY <2>1, <2>2 DEF Of, Mine
<1>2. \A i \in G \cap Stored : rows[i].link.host \in Stored => rows[i].link.host \in G
  BY NextOwned
<1> HIDE DEF G
<1>3. Upward(child[p]) \subseteq G BY <1>1, <1>2, UpwardWithin
<1> QED BY <1>3 DEF G

----------------------------------------------------------------------------
(* A step of one stream leaves what another one holds.                     *)

\* What a step does not do to stream p: it is not its own, and nothing that p
\* owns changes, or becomes p's.
SparesStream(p) ==
  /\ pc'[p] = pc[p] /\ act'[p] = act[p] /\ child'[p] = child[p] /\ snap'[p] = snap[p]
  /\ frames'[p] = frames[p] /\ worker'[p] = worker[p]
SparesRows(p) ==
  /\ \A i \in Ids : Of(p, i) \/ Of(p, i)' => rows'[i] = rows[i]
  /\ \A i \in Ids : Of(p, i) \/ i \in Mine(p) => (i \in claimed' <=> i \in claimed)
  /\ Suspending(p) => child[p] \notin announced'
\* And what no step does, whose ever it is.
Keeps ==
  /\ announced \subseteq announced' /\ issued' \in Nat /\ issued <= issued'
  /\ \A i \in announced : rows'[i] \in {rows[i], NoRow}
  /\ \A i \in Stored' \ Stored : i > issued
  /\ claimed' \subseteq Stored'
  /\ \A l \in Loops : status[l] # "none" =>
       status'[l] # "none" /\ (status'[l] = "running" => status[l] = "running")

LEMMA StoredPrime == Stored' = {i \in Ids : rows'[i] # NoRow}
  BY DEF Stored

LEMMA SameLeaf ==
  ASSUME NEW i, rows'[i] = rows[i]
  PROVE  Leaf(i)' = Leaf(i) /\ (i \in Ids => (i \in Stored' <=> i \in Stored))
  BY DEF Leaf, Stored

LEMMA MinePrime ==
  ASSUME NEW p, SparesStream(p)
  PROVE  /\ Mine(p)' = Mine(p) /\ Suspending(p)' = Suspending(p)
         /\ Stacked(p)' = Stacked(p) /\ Bearing(p)' = Bearing(p) /\ Closing(p)' = Closing(p)
         /\ Lvl(p)' = Lvl(p) /\ Read(p)' = Read(p)
         /\ \A k : Cur(p, k)' = Cur(p, k) /\ Open(p, k)' = Open(p, k)
  BY DEF SparesStream, Mine, Suspending, Stacked, Bearing, Closing, Lvl, Cur, Open, Read

\* The chain above a question stays, if its rows do.
LEMMA UpwardKeeps ==
  ASSUME NEW id, \A i \in Upward(id) : i \in Stored' /\
           (rows[i].link.host \in Stored => rows'[i].link.host = rows[i].link.host)
  PROVE  Upward(id) \subseteq Upward(id)'
<1> SUFFICES ASSUME NEW h \in Upward(id) PROVE h \in Upward(id)'
  OBVIOUS
<1>1. h \in Stored' OBVIOUS
<1> SUFFICES ASSUME NEW S \in SUBSET (Stored'),
                    ({id} \cup {rows'[j].link.host : j \in S}) \cap Stored' \subseteq S
             PROVE  h \in S
  BY <1>1 DEF Upward
<1> DEFINE G == S \cap Upward(id)
<1>2. id \in Stored => id \in G BY UpwardSelf
<1>3. \A i \in G \cap Stored : rows[i].link.host \in Stored => rows[i].link.host \in G
  <2> SUFFICES ASSUME NEW i \in G, rows[i].link.host \in Stored PROVE rows[i].link.host \in G
    OBVIOUS
  <2>1. rows[i].link.host \in Upward(id) BY UpwardNext
  <2>2. rows'[i].link.host = rows[i].link.host /\ rows[i].link.host \in Stored' BY <2>1
  <2> QED BY <2>1, <2>2
<1> HIDE DEF G
<1>4. Upward(id) \subseteq G BY <1>2, <1>3, UpwardWithin
<1> QED BY <1>4 DEF G

LEMMA LocalKeeps ==
  ASSUME Inv, NEW p \in Streams, SparesStream(p), SparesRows(p), Keeps
  PROVE  Local(p)'
<1>1. /\ Mine(p)' = Mine(p) /\ Suspending(p)' = Suspending(p)
      /\ Stacked(p)' = Stacked(p) /\ Bearing(p)' = Bearing(p) /\ Closing(p)' = Closing(p)
      /\ Lvl(p)' = Lvl(p) /\ Read(p)' = Read(p)
      /\ \A k : Cur(p, k)' = Cur(p, k) /\ Open(p, k)' = Open(p, k)
  BY MinePrime
<1>2. /\ pc'[p] = pc[p] /\ act'[p] = act[p] /\ child'[p] = child[p] /\ snap'[p] = snap[p]
      /\ frames'[p] = frames[p] /\ worker'[p] = worker[p]
  BY DEF SparesStream
<1>3. Local(p) BY DEF Inv
<1>4. /\ announced \subseteq announced' /\ issued' \in Nat /\ issued \in Nat /\ issued <= issued'
      /\ claimed' \subseteq Stored'
  BY SizeAssumption DEF Keeps, Inv, Global, Types, TypeOK
<1>5. \A i \in Ids : i <= issued /\ i \in Stored' => i \in Stored
  BY <1>4, IdTypes DEF Keeps
<1>6. ASSUME NEW i \in Stored, Leaf(i) \subseteq Mine(p)
      PROVE  /\ i \in Stored' /\ rows'[i] = rows[i] /\ Leaf(i)' = Leaf(i)
             /\ (i \in claimed' <=> i \in claimed)
  <2>1. Of(p, i)
    BY <1>6 DEF Of, Leaf, Inv, Global, Singles
  <2>2. i \in Ids BY DEF Stored
  <2> QED BY <2>1, <2>2, SameLeaf DEF SparesRows
<1>7. act[p].link.host \in Nat /\ act[p].link.host <= issued
      /\ (act[p].link.host \in Stored' => act[p].link.host \in Stored)
  <2>1. act[p].link.host <= issued BY <1>3 DEF Local, StackOK
  <2>2. act[p].link.host \in Nat BY ActType, IdTypes DEF Inv, Global
  <2> QED BY <2>1, <2>2, <1>5, StoredPrime
<1>8. Suspending(p) => Upward(child[p]) \subseteq Upward(child[p])'
  <2> SUFFICES ASSUME Suspending(p) PROVE Upward(child[p]) \subseteq Upward(child[p])'
    OBVIOUS
  <2>1. ASSUME NEW i \in Upward(child[p]) PROVE i \in Stored' /\ rows'[i] = rows[i]
    <3>1. i \in Stored /\ Of(p, i) BY ChainOwned
    <3> QED BY <3>1, <1>6 DEF Of
  <2>2. PICK c : c = child[p] OBVIOUS
  <2>3. c = child'[p] BY <2>2, <1>2
  <2>4. Upward(c) \subseteq Upward(c)' BY <2>1, <2>2, UpwardKeeps
  <2> QED BY <2>2, <2>3, <2>4
<1>9. StackOK(p)'
  <2>1. StackOK(p) BY <1>3 DEF Local
  <2>2. act[p].link.host <= issued' BY <1>7, <1>4
  <2> QED BY <2>1, <2>2, <1>1, <1>2 DEF StackOK
<1>10. WorkerOK(p)'
  <2>1. WorkerOK(p) BY <1>3 DEF Local
  <2>2. worker[p].releasing => worker[p].id \in claimed'
    <3>1. ASSUME worker[p].releasing PROVE worker[p].id \in claimed'
      <4>1. worker[p].id \in claimed BY <2>1, <3>1 DEF WorkerOK
      <4>2. worker[p].id \in Stored BY <4>1 DEF Inv, Global, Claims
      <4>3. worker[p].id \in Mine(p) BY <3>1 DEF Mine
      <4> QED BY <4>1, <4>2, <4>3 DEF SparesRows, Stored
    <3> QED BY <3>1
  <2>3. worker[p].id \in Nat /\ worker[p].id <= issued
    BY <2>1, IdTypes DEF WorkerOK, Inv, Global, Types, TypeOK
  <2>4. ~worker[p].releasing => worker[p].id \notin Stored'
    BY <2>1, <2>3, <1>5, StoredPrime DEF WorkerOK
  <2>5. worker[p].id <= issued' BY <2>3, <1>4
  <2> QED BY <2>1, <2>2, <2>4, <2>5, <1>2 DEF WorkerOK
<1>11. ChildOK(p)'
  <2> SUFFICES ASSUME Suspending(p) PROVE ChildOK(p)'
    BY <1>1 DEF ChildOK
  <2>1. child[p] \in Stored /\ child[p] \notin claimed /\ rows[child[p]].loop = 0
    BY <1>3 DEF Local, ChildOK
  <2>2. Leaf(child[p]) \subseteq Mine(p) BY <2>1 DEF Leaf, Mine
  <2>3. child[p] \in Stored' /\ rows'[child[p]] = rows[child[p]] /\ child[p] \notin claimed'
    BY <2>1, <2>2, <1>6
  <2>4. child[p] \notin announced' BY DEF SparesRows
  <2> QED BY <2>1, <2>3, <2>4, <1>2 DEF ChildOK
<1>12. ClaimOK(p)'
  <2>1. ClaimOK(p) BY <1>3 DEF Local
  <2>2. ASSUME pc[p] = "claim", child[p] \in Stored' PROVE rows'[child[p]] = snap[p][child[p]]
    <3>1. child[p] \in announced BY <2>1, <2>2 DEF ClaimOK
    <3>2. rows'[child[p]] = rows[child[p]] BY <3>1, <2>2, StoredPrime DEF Keeps
    <3>3. child[p] \in Stored BY <3>2, <2>2, SameLeaf, StoredPrime
    <3> QED BY <3>2, <3>3, <2>1, <2>2 DEF ClaimOK
  <2> QED BY <2>1, <2>2, <1>2, <1>4 DEF ClaimOK
<1>13. Carried(p)'
  <2> SUFFICES ASSUME Bearing(p), act[p].link.host \in Stored'
               PROVE  worker[p].releasing /\ rows'[act[p].link.host].pending = {worker[p].id}
    BY <1>1, <1>2 DEF Carried
  <2>1. act[p].link.host \in Stored BY <1>7
  <2>2. worker[p].releasing /\ rows[act[p].link.host].pending = {worker[p].id}
    BY <2>1, <1>3 DEF Local, Carried
  <2>3. Leaf(act[p].link.host) \subseteq Mine(p)
    <3>1. rows[act[p].link.host].loop # 0
      BY <2>1, ActToken, IdTypes DEF Inv, Global, Stored
    <3> QED BY <3>1, <2>2 DEF Leaf, Mine
  <2> QED BY <2>1, <2>2, <2>3, <1>6
<1>14. ClosingOK(p)'
  <2>1. ClosingOK(p) BY <1>3 DEF Local
  <2>2. ASSUME pc[p] = "host", act[p].link.host \in Stored'
        PROVE  rows'[act[p].link.host] = Read(p)
    <3>1. rows[act[p].link.host] = Read(p) BY <2>1, <2>2, <1>7 DEF ClosingOK
    <3>2. Bearing(p) BY <2>2 DEF Bearing, Closing
    <3>3. worker[p].releasing /\ rows[act[p].link.host].pending = {worker[p].id}
      BY <3>2, <2>2, <1>7, <1>3 DEF Local, Carried
    <3>4. rows[act[p].link.host].loop # 0
      BY <3>2, <2>2, <1>7, ActToken, IdTypes DEF Inv, Global, Stored
    <3>5. Leaf(act[p].link.host) \subseteq Mine(p) BY <3>3, <3>4 DEF Leaf, Mine
    <3> QED BY <3>1, <3>5, <2>2, <1>6, <1>7
  <2>3. ASSUME pc[p] = "record", Read(p).link.host \in Stored'
        PROVE  worker[p].releasing /\ rows'[Read(p).link.host].pending = {worker[p].id}
    <3> DEFINE h == Read(p).link.host
    <3>1. h \in Ids /\ h <= issued /\ h \in Stored
      <4>1. h \in Ids BY <2>3, StoredPrime
      <4>2. h <= issued BY <2>3, ReadToken DEF Inv, Global
      <4> QED BY <4>1, <4>2, <1>5, <2>3
    <3>2. worker[p].releasing /\ rows[h].pending = {worker[p].id}
      BY <3>1, <2>1, <2>3 DEF ClosingOK
    <3>3. rows[h].loop # 0
      BY <3>1, <2>3, ReadToken, IdTypes DEF Inv, Global
    <3>4. Leaf(h) \subseteq Mine(p) BY <3>2, <3>3 DEF Leaf, Mine
    <3> QED BY <3>1, <3>2, <3>4, <1>6
  <2>4. pc[p] = "record" => act[p].link.host \notin Stored'
    BY <2>1, <1>7 DEF ClosingOK
  <2> QED BY <2>1, <2>2, <2>3, <2>4, <1>1, <1>2 DEF ClosingOK
<1>15. Linking(p)'
  <2> SUFFICES ASSUME pc[p] = "link" PROVE Linking(p)'
    BY <1>2 DEF Linking
  <2>0. Suspending(p) BY DEF Suspending, Asking
  <2>1. PICK f \in Stored \ claimed, n \in Hosts :
          /\ DOMAIN snap[p] = {f}
          /\ f \in Upward(child[p]) /\ Leaf(f) = {child[p]} /\ rows[f].level = Lvl(p) + 1
          /\ rows[f].link.host = 0 /\ rows[f].link.loop = Cur(p, Lvl(p))
          /\ snap[p][f] = [rows[f] EXCEPT !.link = snap[p][f].link]
          /\ snap[p][f].link.loop = rows[f].link.loop /\ snap[p][f].link.host = n
          /\ rows[n].pending = {child[p]} /\ rows[n].level = Lvl(p)
          /\ rows[n].loop = Cur(p, Lvl(p))
          /\ Lvl(p) = act[p].top => rows[n].link.host = act[p].link.host
    BY <1>3 DEF Local, Linking
  <2>2. f \in Stored' /\ rows'[f] = rows[f] /\ Leaf(f)' = Leaf(f) /\ f \notin claimed'
    BY <2>0, <2>1, <1>6 DEF Mine
  <2>3. n \in Stored' /\ rows'[n] = rows[n]
    <3>1. n \in Stored /\ Leaf(n) = {child[p]} BY <2>1 DEF Hosts, Leaf
    <3> QED BY <3>1, <2>0, <1>6 DEF Mine
  <2>4. n \in Hosts' BY <2>3 DEF Hosts
  <2>5. f \in Upward(child[p])' BY <2>0, <2>1, <1>8
  <2>8. Cur(p, Lvl(p))' = Cur(p, Lvl(p)) BY <1>2 DEF Cur, Lvl
  <2>6. /\ DOMAIN snap'[p] = {f} /\ f \in Upward(child[p])'
        /\ Leaf(f)' = {child'[p]} /\ rows'[f].level = Lvl(p)' + 1
        /\ rows'[f].link.host = 0 /\ rows'[f].link.loop = Cur(p, Lvl(p))'
        /\ snap'[p][f] = [rows'[f] EXCEPT !.link = snap'[p][f].link]
        /\ snap'[p][f].link.loop = rows'[f].link.loop /\ snap'[p][f].link.host = n
        /\ rows'[n].pending = {child'[p]} /\ rows'[n].level = Lvl(p)'
        /\ rows'[n].loop = Cur(p, Lvl(p))'
        /\ Lvl(p)' = act'[p].top => rows'[n].link.host = act'[p].link.host
    BY <2>1, <2>2, <2>3, <2>5, <2>8, <1>1, <1>2
  <2> QED BY <2>2, <2>4, <2>6, <1>2 DEF Linking
<1>16. Tip(p)'
  <2> SUFFICES ASSUME pc[p] = "retarget", Lvl(p) = act[p].top, act[p].link.host \in Stored'
               PROVE  act[p].link.host \in Upward(child[p])' \ {child[p]}
    BY <1>1, <1>2 DEF Tip
  <2>1. Suspending(p) BY DEF Suspending, Asking
  <2>2. act[p].link.host \in Upward(child[p]) \ {child[p]} BY <1>3, <1>7 DEF Local, Tip
  <2> QED BY <2>1, <2>2, <1>8
<1>17. Saving(p)'
  <2> SUFFICES ASSUME pc[p] = "save" PROVE Saving(p)'
    BY <1>2 DEF Saving
  <2> DEFINE D == DOMAIN snap[p]
  <2>1. Suspending(p) BY DEF Suspending, Asking
  <2>2. Saving(p) BY <1>3 DEF Local
  <2>3. ASSUME NEW i \in D
        PROVE  i \in Hosts' /\ rows'[i] = rows[i] /\ i \in Stored \ claimed
    <3>1. i \in Stored /\ rows[i].loop # 0 BY <2>2 DEF Saving, Hosts
    <3>2. Leaf(i) \subseteq Mine(p) BY <2>1, <2>2, <3>1 DEF Saving, Leaf, Mine
    <3>3. i \in Stored' /\ rows'[i] = rows[i] BY <3>1, <3>2, <1>6
    <3>4. i \notin claimed BY <3>1 DEF Inv, Global, Claims
    <3> QED BY <3>1, <3>3, <3>4 DEF Hosts
  <2>4. child[p] \in Stored \ claimed /\ rows'[child[p]] = rows[child[p]]
    <3>1. child[p] \in Stored \ claimed /\ rows[child[p]].loop = 0
      BY <2>1, <1>3 DEF Local, ChildOK
    <3>2. Leaf(child[p]) \subseteq Mine(p) BY <2>1, <3>1 DEF Leaf, Mine
    <3> QED BY <3>1, <3>2, <1>6
  <2>5. ASSUME NEW j \in D \cup {child[p]}
        PROVE  /\ rows'[j] = rows[j]
               /\ rows'[j].link.host \in Stored' => rows'[j].link.host \in D
    <3>1. j \in Stored \ claimed /\ rows'[j] = rows[j] BY <2>3, <2>4
    <3>2. rows[j].link.host <= issued BY <3>1, RowToken DEF Inv, Global
    <3>3. rows[j].link.host \in Stored' => rows[j].link.host \in Stored
      BY <3>2, <1>5, StoredPrime
    <3> QED BY <3>1, <3>3, <2>2 DEF Saving
  <2> DEFINE Rest(i) ==
        /\ snap[p][i] = [rows[i] EXCEPT !.pending = {child[p]}]
        /\ \/ rows[i].pending = {child[p]}
           \/ worker[p].releasing /\ rows[i].pending = {worker[p].id}
        /\ \E j \in D \cup {child[p]} : rows[j].link.host = i
  <2>6. \A i \in D : Rest(i) BY <2>2 DEF Saving
  <2>7. ASSUME NEW i \in D
        PROVE  /\ snap[p][i] = [rows'[i] EXCEPT !.pending = {child[p]}]
               /\ \/ rows'[i].pending = {child[p]}
                  \/ worker[p].releasing /\ rows'[i].pending = {worker[p].id}
               /\ \E j \in D \cup {child[p]} : rows'[j].link.host = i
    <3>1. Rest(i) BY <2>6
    <3>2. rows'[i] = rows[i] BY <2>3
    <3>3. PICK j \in D \cup {child[p]} : rows[j].link.host = i BY <3>1
    <3>4. rows'[j].link.host = i BY <3>3, <2>5
    <3> QED BY <3>1, <3>2, <3>4
  <2>8. Lvl(p) = act[p].top /\ act[p].link.host \in Stored' => act[p].link.host \in D
    BY <1>7, <2>2 DEF Saving
  <2> HIDE DEF D, Rest
  <2>9. D = DOMAIN snap'[p] BY <1>2 DEF D
  <2>10. D \subseteq Hosts' BY <2>3
  <2>11. /\ DOMAIN snap'[p] \subseteq Hosts'
         /\ Lvl(p)' = act'[p].top /\ act'[p].link.host \in Stored' =>
              act'[p].link.host \in DOMAIN snap'[p]
    BY <2>8, <2>9, <2>10, <1>1, <1>2
  <2>12. \A i \in DOMAIN snap'[p] :
           /\ snap'[p][i] = [rows'[i] EXCEPT !.pending = {child'[p]}]
           /\ \/ rows'[i].pending = {child'[p]}
              \/ worker'[p].releasing /\ rows'[i].pending = {worker'[p].id}
           /\ \E j \in DOMAIN snap'[p] \cup {child'[p]} : rows'[j].link.host = i
    BY <2>7, <2>9, <1>2
  <2>13. \A j \in DOMAIN snap'[p] \cup {child'[p]} :
           rows'[j].link.host \in Stored' => rows'[j].link.host \in DOMAIN snap'[p]
    BY <2>5, <2>9, <1>2
  <2> QED BY <2>11, <2>12, <2>13 DEF Saving
<1>18. Chain(p)'
  <2> SUFFICES ASSUME Suspending(p) PROVE Chain(p)'
    BY <1>1 DEF Chain
  <2>1. ASSUME NEW i \in Unlinked', Leaf(i)' = {child[p]}
        PROVE  i \in Unlinked /\ Leaf(i) = {child[p]} /\ rows'[i] = rows[i]
    <3>1. i \in Stored' /\ i \in Ids /\ i \notin claimed' /\ ~Whole(i)'
      BY <2>1, StoredPrime DEF Unlinked
    <3>2. Of(p, i)' BY <2>1, <3>1, <1>1 DEF Of, Mine
    <3>3. rows'[i] = rows[i] BY <3>1, <3>2 DEF SparesRows
    <3>4. i \in Stored /\ Leaf(i) = {child[p]} BY <3>1, <3>3, <2>1, SameLeaf
    <3>5. i \notin claimed BY <3>1, <3>4, <1>6 DEF Mine
    <3> QED BY <3>1, <3>3, <3>4, <3>5 DEF Unlinked, Whole
  <2>2. Chain(p) BY <1>3 DEF Local
  <2>3. ASSUME NEW i \in Unlinked', Leaf(i)' = {child'[p]}
        PROVE  \/ pc'[p] = "suspending" /\ rows'[i].level = Lvl(p)' + 1
                  /\ rows'[i].link.loop = Cur(p, Lvl(p))'
               \/ pc'[p] = "link" /\ i \in DOMAIN snap'[p]
               \/ pc'[p] \in Asking /\ rows'[i].level = Lvl(p)' /\ act'[p].top < Lvl(p)'
                  /\ rows'[i].link.loop = Cur(p, Lvl(p) - 1)'
    <3>1. i \in Unlinked /\ Leaf(i) = {child[p]} /\ rows'[i] = rows[i] BY <2>1, <2>3, <1>2
    <3>2. Cur(p, Lvl(p))' = Cur(p, Lvl(p)) /\ Cur(p, Lvl(p) - 1)' = Cur(p, Lvl(p) - 1)
      BY <1>2 DEF Cur, Lvl
    <3> QED BY <3>1, <3>2, <2>2, <1>1, <1>2 DEF Chain
  <2>4. ASSUME NEW i \in Unlinked', NEW j \in Unlinked',
               Leaf(i)' = {child'[p]}, Leaf(j)' = {child'[p]}
        PROVE  i = j \/ (pc'[p] = "link" /\ (i \in DOMAIN snap'[p] \/ j \in DOMAIN snap'[p]))
    <3>1. i \in Unlinked /\ Leaf(i) = {child[p]} BY <2>1, <2>4, <1>2
    <3>2. j \in Unlinked /\ Leaf(j) = {child[p]} BY <2>1, <2>4, <1>2
    <3> QED BY <3>1, <3>2, <2>2, <1>2 DEF Chain
  <2> QED BY <2>3, <2>4 DEF Chain
<1>19. FramesOver(p)'
  <2>1. FramesOver(p) BY <1>3 DEF Local
  <2>0. pc'[p] \in {"off", "claim", "inspect"} => frames'[p] = << >>
    BY <2>1, <1>2 DEF FramesOver
  <2> SUFFICES ASSUME NEW n \in DOMAIN frames[p]
               PROVE  LET f == frames[p][n] IN
                      /\ f.loop \in Loops /\ status'[f.loop] # "none" /\ f.child = worker[p].id
                      /\ f.loop \in Running' =>
                           n = Len(frames[p]) /\ Stacked(p) /\ Cur(p, act[p].top) = f.loop
                           /\ (pc[p] = "ended" => act[p].top < Lvl(p))
    BY <1>1, <1>2, <2>0 DEF FramesOver
  <2> DEFINE f == frames[p][n]
  <2>2. f.loop \in Loops /\ status[f.loop] # "none" /\ f.child = worker[p].id
        /\ (f.loop \in Running =>
             n = Len(frames[p]) /\ Stacked(p) /\ Cur(p, act[p].top) = f.loop
             /\ (pc[p] = "ended" => act[p].top < Lvl(p)))
    BY <2>1 DEF FramesOver
  <2>3. status'[f.loop] # "none" /\ (f.loop \in Running' => f.loop \in Running)
    BY <2>2 DEF Keeps, Running
  <2> QED BY <2>2, <2>3
<1> QED BY <1>9, <1>10, <1>11, <1>12, <1>13, <1>14, <1>15, <1>16, <1>17, <1>18, <1>19 DEF Local

----------------------------------------------------------------------------
(* What the steps have in common.                                          *)

OnlyStream(p) == \A q \in Streams \ {p} : SparesStream(q)

\* The store keeps its checkpoints, and clients know no more.
Still == UNCHANGED <<rows, claimed, issued, announced>>

LEMMA StillStored ==
  ASSUME Still
  PROVE  Stored' = Stored /\ Hosts' = Hosts /\ Unlinked' = Unlinked
         /\ \A i : Leaf(i)' = Leaf(i) /\ Whole(i)' = Whole(i)
  BY DEF Still, Stored, Hosts, Unlinked, Leaf, Whole

LEMMA StillKeeps ==
  ASSUME Inv, Still,
         \A l \in Loops : status[l] # "none" =>
           status'[l] # "none" /\ (status'[l] = "running" => status[l] = "running")
  PROVE  /\ Keeps
         /\ \A q \in Streams : SparesStream(q) => SparesRows(q)
<1>1. issued \in Nat /\ claimed \subseteq Stored
  BY SizeAssumption DEF Inv, Global, Types, TypeOK
<1>2. Keeps BY <1>1, StillStored DEF Keeps, Still
<1>3. ASSUME NEW q \in Streams, SparesStream(q) PROVE SparesRows(q)
  <2>1. Suspending(q) => child[q] \notin announced BY DEF Inv, Local, ChildOK
  <2> QED BY <2>1 DEF SparesRows, Still
<1> QED BY <1>2, <1>3

\* Places only go, and the place of a loop that is closed does.
LEMMA PlacesVanish ==
  ASSUME Inv, UNCHANGED recorded,
         \A a, z, k, l : Place(a, z, k, l)' => Place(a, z, k, l),
         \A z, k, l : Place("live", z, k, l)' /\ pc[z] = "turn" /\ k = Lvl(z) =>
           Done(l) < MaxIterations \/ (pc'[z] = "turn" /\ k = Lvl(z)'),
         \A l \in Running \ Running' : \E a, z, k : Place(a, z, k, l) /\ ~Place(a, z, k, l)'
  PROVE  PlaceOnce' /\ PlaceRuns'
<1>1. PlaceOnce /\ PlaceRuns BY DEF Inv, Global
<1>2. PlaceOnce'
  <2> SUFFICES ASSUME NEW a, NEW z, NEW k, NEW l, NEW b, NEW y, NEW j,
                      Place(a, z, k, l)', Place(b, y, j, l)'
               PROVE  a = b /\ z = y /\ k = j
    BY DEF PlaceOnce
  <2>1. Place(a, z, k, l) /\ Place(b, y, j, l) OBVIOUS
  <2> QED BY <2>1, <1>1 DEF PlaceOnce
<1>3. PlaceRuns'
  <2> SUFFICES ASSUME NEW a, NEW z, NEW k, NEW l, Place(a, z, k, l)'
               PROVE  /\ l \in Running'
                      /\ Done(l)' < MaxIterations \/ (a = "live" /\ pc'[z] = "turn" /\ k = Lvl(z)')
    BY DEF PlaceRuns
  <2>1. Place(a, z, k, l) OBVIOUS
  <2>2. l \in Running
        /\ (Done(l) < MaxIterations \/ (a = "live" /\ pc[z] = "turn" /\ k = Lvl(z)))
    BY <2>1, <1>1 DEF PlaceRuns
  <2>3. l \in Running'
    <3> SUFFICES ASSUME l \notin Running' PROVE FALSE
      OBVIOUS
    <3>1. PICK b, y, j : Place(b, y, j, l) /\ ~Place(b, y, j, l)' BY <2>2
    <3>2. a = b /\ z = y /\ k = j BY <2>1, <3>1, <1>1 DEF PlaceOnce
    <3> QED BY <3>1, <3>2
  <2>4. Done(l)' = Done(l) BY DEF Done
  <2> QED BY <2>2, <2>3, <2>4
<1> QED BY <1>2, <1>3

LEMMA PlacesOf ==
  ASSUME NEW p \in Streams, OnlyStream(p),
         \A h \in Hosts' : h \in Hosts /\ rows'[h].loop = rows[h].loop,
         \A k \in Levels : Live(p, k)' => Live(p, k) /\ Cur(p, k)' = Cur(p, k),
         pc'[p] = "record" => pc[p] = "record" /\ act'[p] = act[p]
  PROVE  /\ \A a, z, k, l : Place(a, z, k, l)' => Place(a, z, k, l)
         /\ \A a, z, k, l : Place(a, z, k, l) /\ (a # "host" => z # p)
                            /\ (a = "host" => z \in Hosts') => Place(a, z, k, l)'
<1>1. ASSUME NEW q \in Streams \ {p}
      PROVE  /\ \A k \in Levels : Live(q, k)' = Live(q, k) /\ Cur(q, k)' = Cur(q, k)
             /\ pc'[q] = pc[q] /\ act'[q] = act[q]
  <2>1. SparesStream(q) BY DEF OnlyStream
  <2>2. pc'[q] = pc[q] /\ act'[q] = act[q] BY <2>1 DEF SparesStream
  <2>3. Stacked(q)' = Stacked(q) /\ Lvl(q)' = Lvl(q) /\ \A k : Cur(q, k)' = Cur(q, k)
    BY <2>1, MinePrime
  <2> QED BY <2>2, <2>3 DEF Live
<1>2. ASSUME NEW a, NEW z, NEW k, NEW l, Place(a, z, k, l)' PROVE Place(a, z, k, l)
  <2>1. CASE a = "live"
    <3>1. z \in Streams /\ k \in Levels /\ Live(z, k)' /\ l = Cur(z, k)' BY <1>2, <2>1 DEF Place
    <3>2. Live(z, k) /\ Cur(z, k)' = Cur(z, k)
      <4>1. CASE z = p BY <3>1, <4>1
      <4>2. CASE z # p BY <3>1, <4>2, <1>1
      <4> QED BY <4>1, <4>2
    <3> QED BY <2>1, <3>1, <3>2 DEF Place
  <2>2. CASE a = "host" BY <2>2, <1>2 DEF Place
  <2>3. CASE a = "record"
    <3>1. z \in Streams /\ k = 0 /\ pc'[z] = "record" /\ l = act'[z].link.loop
      BY <2>3, <1>2 DEF Place
    <3>2. CASE z = p BY <3>1, <3>2, <2>3 DEF Place
    <3>3. CASE z # p BY <3>1, <3>3, <2>3, <1>1 DEF Place
    <3> QED BY <3>2, <3>3
  <2> QED BY <2>1, <2>2, <2>3, <1>2 DEF Place
<1>3. ASSUME NEW a, NEW z, NEW k, NEW l, Place(a, z, k, l), a # "host" => z # p,
             a = "host" => z \in Hosts'
      PROVE  Place(a, z, k, l)'
  <2>1. CASE a = "live"
    <3>1. z \in Streams \ {p} /\ k \in Levels /\ Live(z, k) /\ l = Cur(z, k)
      BY <1>3, <2>1 DEF Place
    <3> QED BY <3>1, <1>1, <2>1 DEF Place
  <2>2. CASE a = "host" BY <2>2, <1>3 DEF Place
  <2>3. CASE a = "record" BY <2>3, <1>3, <1>1 DEF Place
  <2> QED BY <2>1, <2>2, <2>3, <1>3 DEF Place
<1> QED BY <1>2, <1>3

\* Tokens only go.
LEMMA TokensVanish ==
  ASSUME Inv, Keeps,
         \A k, z, ln, v : Held(k, z, ln, v)' => Held(k, z, ln, v),
         \A h \in Stored \cap Stored' :
           rows'[h].loop = rows[h].loop /\ rows'[h].level = rows[h].level,
         \A h \in Hosts \ Stored' : rows[h].loop \notin Running',
         \A q \in Streams : pc[q] = "record" /\ act[q].link.loop \in Running' => pc'[q] = "record"
  PROVE  Tokens'
<1>0. TokenShape /\ TokenFits /\ TokenOnce BY DEF Inv, Global, Tokens
<1>1. ASSUME NEW k, NEW z, NEW ln, NEW v, Held(k, z, ln, v)
      PROVE  ln \in Link /\ v \in Levels
  <2>1. CASE k = "row" BY <1>1, <2>1, RowType DEF Held, Inv, Global
  <2>2. CASE k = "act" BY <1>1, <2>2, ActType DEF Held, Inv, Global
  <2>3. ASSUME NEW q \in Streams, NEW f \in DOMAIN snap[q]
        PROVE  snap[q][f].link \in Link /\ snap[q][f].level \in Levels
    <3>1. snap[q][f] \in Row BY DEF Inv, Global, Types, TypeOK
    <3> QED BY <3>1 DEF Row
  <2>4. CASE k = "read"
    <3>1. z \in Streams /\ pc[z] = "record" /\ ln = Read(z).link /\ v = Read(z).level
      BY <1>1, <2>4 DEF Held
    <3>2. act[z].link.host \in DOMAIN snap[z] BY <3>1 DEF Inv, Local, ClosingOK
    <3> QED BY <2>3, <3>1, <3>2 DEF Read
  <2>5. CASE k = "frame" BY <1>1, <2>3, <2>5 DEF Held
  <2> QED BY <1>1, <2>1, <2>2, <2>4, <2>5 DEF Held
<1>2. ASSUME NEW l \in Loops, l \in Running', l \notin Unused PROVE l \in Running
  BY <1>2 DEF Keeps, Running, Unused
<1>3. issued \in Nat /\ issued' \in Nat /\ issued <= issued'
  BY SizeAssumption DEF Keeps, Inv, Global, Types, TypeOK
<1>4. ASSUME NEW k, NEW z, NEW ln, NEW v, Held(k, z, ln, v)'
      PROVE  /\ ln.loop = 0 => ln.host = 0
             /\ k # "row" /\ ln.host = 0 => ln.loop = 0
             /\ ln.host <= issued'
             /\ ln.loop # 0 => ln.loop \notin Unused'
             /\ ln.host \in Stored' =>
                  rows'[ln.host].loop = ln.loop /\ rows'[ln.host].level = v - 1
             /\ ln.host \in Ids \ Stored' =>
                  ln.loop \notin Running' \/ (k = "act" /\ pc'[z] = "record")
  <2>1. Held(k, z, ln, v) BY <1>4
  <2>2. /\ ln.loop = 0 => ln.host = 0
        /\ k # "row" /\ ln.host = 0 => ln.loop = 0
        /\ ln.host <= issued
        /\ ln.loop # 0 => ln.loop \notin Unused
    BY <2>1, <1>0 DEF TokenShape
  <2>3. /\ ln.host \in Stored => rows[ln.host].loop = ln.loop /\ rows[ln.host].level = v - 1
        /\ ln.host \in Ids \ Stored => ln.loop \notin Running \/ (k = "act" /\ pc[z] = "record")
    BY <2>1, <1>0 DEF TokenFits
  <2>4. ln.loop \in 0..MaxLoops /\ ln.host \in 0..MaxRows BY <2>1, <1>1 DEF Link
  <2>5. ln.loop # 0 => ln.loop \in Loops /\ ln.loop \notin Unused'
    BY <2>2, <2>4, IdTypes DEF Keeps, Unused
  <2>6. ln.host <= issued' BY <2>2, <2>4, <1>3, IdTypes
  <2>7. ln.host \in Stored' => ln.host \in Stored
    BY <2>2, <2>4, <1>3, IdTypes DEF Keeps
  <2>8. ASSUME ln.host \in Ids \ Stored'
        PROVE  ln.loop \notin Running' \/ (k = "act" /\ pc'[z] = "record")
    <3>1. CASE ln.host \in Stored
      <4>1. ln.loop # 0 BY <2>2, <2>8, IdTypes
      <4>2. ln.host \in Hosts BY <2>3, <3>1, <4>1 DEF Hosts
      <4> QED BY <2>3, <2>8, <3>1, <4>2
    <3>2. CASE ln.host \notin Stored
      <4>1. CASE ln.loop \notin Running
        <5>1. CASE ln.loop = 0 BY <5>1, IdTypes DEF Running
        <5>2. CASE ln.loop # 0
          <6>1. ln.loop \in Loops /\ ln.loop \notin Unused BY <5>2, <2>5, <2>2
          <6> QED BY <4>1, <6>1, <1>2
        <5> QED BY <5>1, <5>2
      <4>2. CASE k = "act" /\ pc[z] = "record"
        <5>1. z \in Streams /\ ln = act[z].link BY <2>1, <4>2 DEF Held
        <5> QED BY <4>2, <5>1
      <4> QED BY <2>3, <2>8, <3>2, <4>1, <4>2
    <3> QED BY <3>1, <3>2
  <2> QED BY <2>2, <2>3, <2>5, <2>6, <2>7, <2>8
<1>5. TokenShape' BY <1>4 DEF TokenShape
<1>6. TokenFits' BY <1>4 DEF TokenFits
<1>7. TokenOnce'
  <2> SUFFICES ASSUME NEW k, NEW z, NEW ln, NEW v, NEW j, NEW y, NEW m, NEW w,
                      Held(k, z, ln, v)', Held(j, y, m, w)', ln.host = m.host, m.host # 0
               PROVE  k = j /\ z = y
    BY DEF TokenOnce
  <2>1. Held(k, z, ln, v) /\ Held(j, y, m, w) OBVIOUS
  <2> QED BY <2>1, <1>0 DEF TokenOnce
<1> QED BY <1>5, <1>6, <1>7 DEF Tokens

LEMMA TokensOf ==
  ASSUME NEW p \in Streams, OnlyStream(p),
         \A i \in Stored' \ claimed' : i \in Stored \ claimed
             /\ rows'[i].link = rows[i].link /\ rows'[i].level = rows[i].level,
         Bearing(p)' => Bearing(p) /\ act'[p].link = act[p].link /\ act'[p].top = act[p].top,
         pc'[p] \notin {"record", "link"}
  PROVE  \A k, z, ln, v : Held(k, z, ln, v)' => Held(k, z, ln, v)
<1> SUFFICES ASSUME NEW k, NEW z, NEW ln, NEW v, Held(k, z, ln, v)' PROVE Held(k, z, ln, v)
  OBVIOUS
<1>1. CASE k = "row" BY <1>1 DEF Held
<1>2. CASE k # "row" /\ z # p
  <2>1. z \in Streams /\ SparesStream(z) BY <1>2 DEF Held, OnlyStream
  <2>2. /\ pc'[z] = pc[z] /\ act'[z] = act[z] /\ snap'[z] = snap[z]
        /\ Bearing(z)' = Bearing(z) /\ Read(z)' = Read(z)
    BY <2>1, MinePrime DEF SparesStream
  <2> QED BY <1>2, <2>2 DEF Held
<1>3. CASE k # "row" /\ z = p
  <2>1. k = "act" /\ Bearing(p)' /\ ln = act'[p].link /\ v = act'[p].top BY <1>3 DEF Held
  <2> QED BY <2>1, <1>3 DEF Held
<1> QED BY <1>1, <1>2, <1>3

\* The rest of the invariant of the store, when it keeps its checkpoints.
LEMMA StillGlobal ==
  ASSUME Inv, NEW p \in Streams, OnlyStream(p), Still,
         worker'[p].releasing => worker[p].releasing /\ worker'[p].id = worker[p].id,
         Suspending(p)' => Suspending(p) /\ child'[p] = child[p],
         Passing(p) => /\ Passing(p)' /\ child'[p] = child[p] /\ act'[p].link = act[p].link
                       /\ worker'[p] = worker[p]
  PROVE  Issued' /\ Singles' /\ Claims' /\ Above' /\ Told'
<1>0. Issued /\ Singles /\ Claims /\ Above /\ Told BY DEF Inv, Global
<1>1. Stored' = Stored /\ Hosts' = Hosts /\ Unlinked' = Unlinked
      /\ \A i : Leaf(i)' = Leaf(i) /\ Whole(i)' = Whole(i)
  BY StillStored
<1>2. rows' = rows /\ claimed' = claimed /\ issued' = issued /\ announced' = announced
  BY DEF Still
<1>3. \A q \in Streams \ {p} :
        /\ SparesStream(q) /\ Suspending(q)' = Suspending(q) /\ child'[q] = child[q]
        /\ worker'[q] = worker[q] /\ Passing(q)' = Passing(q) /\ act'[q] = act[q]
  <2> SUFFICES ASSUME NEW q \in Streams \ {p}
               PROVE  /\ SparesStream(q) /\ Suspending(q)' = Suspending(q) /\ child'[q] = child[q]
                      /\ worker'[q] = worker[q] /\ Passing(q)' = Passing(q) /\ act'[q] = act[q]
    OBVIOUS
  <2>1. SparesStream(q) BY DEF OnlyStream
  <2>2. Suspending(q)' = Suspending(q) /\ Lvl(q)' = Lvl(q) BY <2>1, MinePrime
  <2> QED BY <2>1, <2>2 DEF SparesStream, Passing
<1>4. \A q \in Streams : Suspending(q)' => Suspending(q) /\ child'[q] = child[q]
  BY <1>3
<1>5. \A q \in Streams : worker'[q].releasing => worker[q].releasing /\ worker'[q].id = worker[q].id
  BY <1>3
<1>6. Issued' BY <1>0, <1>1, <1>2 DEF Issued
<1>7. Singles' BY <1>0, <1>1, <1>2 DEF Singles
<1>8. Claims' BY <1>0, <1>1, <1>2, <1>4, <1>5 DEF Claims
<1>9. Told' BY <1>0, <1>1, <1>2 DEF Told
<1>10. Above'
  <2> SUFFICES ASSUME NEW i \in Stored \ claimed, rows[i].link.host \in Stored
               PROVE  \/ rows[rows[i].link.host].pending = Leaf(i)
                      \/ \E q \in Streams : Handed(q, i)'
                      \/ Orphan(i)'
    BY <1>1, <1>2 DEF Above
  <2>1. Orphan(i) => Orphan(i)' BY <1>1, <1>2, <1>4 DEF Orphan
  <2>2. ASSUME NEW q \in Streams, Handed(q, i) PROVE Handed(q, i)'
    <3>1. Passing(q)' /\ child'[q] = child[q] /\ act'[q].link = act[q].link
          /\ worker'[q] = worker[q]
      BY <1>3, <2>2 DEF Handed
    <3> QED BY <3>1, <2>2, <1>1, <1>2 DEF Handed
  <2> QED BY <1>0, <2>1, <2>2 DEF Above
<1> QED BY <1>6, <1>7, <1>8, <1>9, <1>10


----------------------------------------------------------------------------
(* One stream at a time.                                                   *)

Move(p) == Step(p) \/ Faults(p) \/ \E c \in Ids : ReadCheckpoint(p, c)

\* A step is its stream's, and closes loops for good.
LEMMA MoveOthers ==
  ASSUME Types, NEW p \in Streams, Move(p)
  PROVE  /\ OnlyStream(p)
         /\ \A l \in Loops : status[l] # "none" =>
              status'[l] # "none" /\ (status'[l] = "running" => status[l] = "running")
<1> DEFINE Kept == /\ \A q \in Streams \ {p} :
                        /\ pc'[q] = pc[q] /\ act'[q] = act[q] /\ child'[q] = child[q]
                        /\ snap'[q] = snap[q] /\ frames'[q] = frames[q] /\ worker'[q] = worker[q]
                   /\ \A l \in Loops : status[l] # "none" =>
                        status'[l] # "none" /\ (status'[l] = "running" => status[l] = "running")
<1>0. /\ DOMAIN pc = Streams /\ DOMAIN act = Streams /\ DOMAIN child = Streams
      /\ DOMAIN snap = Streams /\ DOMAIN frames = Streams /\ DOMAIN worker = Streams
      /\ DOMAIN status = Loops /\ \A k \in Levels : Cur(p, k) \in Loops \cup {0}
  BY ActType, IdTypes DEF Types, TypeOK
<1>1. ASSUME \E k \in Levels : StartLoop(p, k) PROVE Kept
  BY <1>0, <1>1 DEF StartLoop, Unused, Descend
<1>2. ASSUME \E k \in Levels : IterateLoop(p, k) PROVE Kept
  BY <1>0, <1>2 DEF IterateLoop, storeVars
<1>3. ASSUME \E k \in Levels : CloseLoop(p, k) PROVE Kept
  BY <1>0, <1>3 DEF CloseLoop
<1>4. ASSUME EndRun(p) PROVE Kept
  BY <1>0, <1>4 DEF EndRun, Finalize
<1>5. ASSUME NextStep(p) PROVE Kept
  BY <1>0, <1>5 DEF NextStep, storeVars
<1>6. ASSUME FinalizeIteration(p) PROVE Kept
  BY <1>0, <1>6 DEF FinalizeIteration
<1>7. ASSUME ContinueParent(p) PROVE Kept
  BY <1>0, <1>7 DEF ContinueParent, Leave, storeVars
<1>8. ASSUME Ask(p) PROVE Kept
  BY <1>0, <1>8 DEF Ask
<1>9. ASSUME ReadHosts(p) PROVE Kept
  BY <1>0, <1>9 DEF ReadHosts, storeVars
<1>10. ASSUME SaveHosts(p) PROVE Kept
  BY <1>0, <1>10 DEF SaveHosts
<1>11. ASSUME Notify(p) PROVE Kept
  BY <1>0, <1>11 DEF Notify, storeVars
<1>12. ASSUME YieldRequired(p) PROVE Kept
  BY <1>0, <1>12 DEF YieldRequired, Leave
<1>13. ASSUME SuspendHost(p) PROVE Kept
  BY <1>0, <1>13 DEF SuspendHost
<1>14. ASSUME LinkFrame(p) PROVE Kept
  BY <1>0, <1>14 DEF LinkFrame
<1>15. ASSUME Unsupported(p) PROVE Kept
  BY <1>0, <1>15 DEF Unsupported, Thrown, FailOpen, CloseLoops
<1>16. ASSUME Claim(p) PROVE Kept
  BY <1>0, <1>16 DEF Claim, Leave
<1>17. ASSUME InspectHost(p) PROVE Kept
  BY <1>0, <1>17 DEF InspectHost, Leave, DropHosts, CloseLoops
<1>18. ASSUME GetHost(p) PROVE Kept
  BY <1>0, <1>18 DEF GetHost, CloseLoops
<1>19. ASSUME ClaimHost(p) PROVE Kept
  BY <1>0, <1>19 DEF ClaimHost
<1>20. ASSUME RecordIteration(p) PROVE Kept
  BY <1>0, <1>20 DEF RecordIteration
<1>21. ASSUME Unwind(p) PROVE Kept
  BY <1>0, <1>21 DEF Unwind, DropHosts, CloseLoops
<1>22. ASSUME Throw(p) PROVE Kept
  BY <1>0, <1>22 DEF Throw, AbandonWorker, Leave, DropHosts, CloseLoops
<1>23. ASSUME FailRun(p) PROVE Kept
  BY <1>0, <1>23 DEF FailRun, Thrown, Finalize
<1>24. ASSUME RecoverRun(p) PROVE Kept
  BY <1>0, <1>24 DEF RecoverRun, CloseLoops
<1>25. ASSUME RetryHost(p) PROVE Kept
  BY <1>0, <1>25 DEF RetryHost, FailOpen, CloseLoops
<1>26. ASSUME LoseRecord(p) PROVE Kept
  BY <1>0, <1>26 DEF LoseRecord, CloseLoops
<1>27. ASSUME Stop(p) PROVE Kept
  BY <1>0, <1>27 DEF Stop, AbandonWorker, Leave, DropHosts, CloseLoops, storeVars
<1>28. ASSUME \E c \in Ids : ReadCheckpoint(p, c) PROVE Kept
  BY <1>0, <1>28 DEF ReadCheckpoint, storeVars
<1>90. Kept
  BY <1>1, <1>2, <1>3, <1>4, <1>5, <1>6, <1>7, <1>8, <1>9, <1>10, <1>11, <1>12, <1>13, <1>14,
     <1>15, <1>16, <1>17, <1>18, <1>19, <1>20, <1>21, <1>22, <1>23, <1>24, <1>25, <1>26, <1>27,
     <1>28
  DEF Move, Step, Faults
<1> QED BY <1>90 DEF OnlyStream, SparesStream

----------------------------------------------------------------------------
(* Types.                                                                  *)

LEMMA NoActType == NoAct \in Activation /\ NoLink \in Link
  BY SizeAssumption DEF NoAct, NoLink, Link, Activation, Levels

\* The call stack with one part of it set.
LEMMA ActExcept ==
  ASSUME NEW a \in Activation, NEW k \in Levels, NEW l \in 0..MaxLoops, NEW b \in BOOLEAN,
         NEW s \in 1..Steps
  PROVE  /\ [a EXCEPT !.lvl = k] \in Activation
         /\ [a EXCEPT !.cur[k] = l] \in Activation
         /\ [a EXCEPT !.open[k] = l] \in Activation
         /\ [a EXCEPT !.mine[k] = b] \in Activation
         /\ [a EXCEPT !.step[k] = s] \in Activation
  BY DEF Activation

LEMMA DescendType ==
  ASSUME NEW a \in Activation, NEW k \in Levels, k < Depth
  PROVE  Descend(a, k) \in Activation
<1>1. k + 1 \in Levels /\ 0 \in 0..MaxLoops /\ 1 \in 1..Steps /\ a.cur[k] \in 0..MaxLoops
  BY SizeAssumption DEF Levels, Activation
<1> QED BY <1>1 DEF Descend, Activation

LEMMA ThrownType ==
  ASSUME Types, NEW p \in Streams, Thrown(p)
  PROVE  pc' \in [Streams -> PCs] /\ act' \in [Streams -> Activation]
<1>1. pc \in [Streams -> PCs] /\ act \in [Streams -> Activation] BY DEF Types, TypeOK
<1>2. Lvl(p) > act[p].top => Lvl(p) - 1 \in Levels
  BY ActType, SizeAssumption DEF Levels
<1>3. 0 \in 0..MaxLoops BY SizeAssumption
<1>4. act[p] \in Activation BY <1>1
<1>5. pc' \in [Streams -> PCs] BY <1>1 DEF Thrown, PCs
<1>6. CASE Lvl(p) > act[p].top
  <2>1. act' = [act EXCEPT ![p].lvl = @ - 1, ![p].open[Lvl(p) - 1] = 0]
    BY <1>6 DEF Thrown
  <2>2. act[p].lvl - 1 \in Levels BY <1>6, <1>2 DEF Lvl
  <2>3. act'[p] \in Activation BY <2>1, <2>2, <1>1, <1>2, <1>3, <1>4, <1>6 DEF Activation
  <2> QED BY <2>1, <2>3, <1>1, <1>5
<1>7. CASE ~(Lvl(p) > act[p].top) BY <1>7, <1>5, <1>1 DEF Thrown
<1> QED BY <1>6, <1>7

LEMMA LeaveType ==
  ASSUME Types, NEW p \in Streams, Leave(p)
  PROVE  /\ pc' \in [Streams -> PCs] /\ act' \in [Streams -> Activation]
         /\ child' \in [Streams -> 0..MaxRows]
         /\ \A q \in Streams : DOMAIN snap'[q] \subseteq Ids /\ \A i \in DOMAIN snap'[q] : snap'[q][i] \in Row
         /\ frames' \in [Streams -> Seq(Frame)]
         /\ worker' \in [Streams -> [id : 0..MaxRows, link : Link, releasing : BOOLEAN]]
         /\ DOMAIN snap' = Streams
<1>1. NoWorker \in [id : 0..MaxRows, link : Link, releasing : BOOLEAN] /\ 0 \in 0..MaxRows
  BY NoActType, SizeAssumption DEF NoWorker
<1>2. << >> \in Seq(Frame) OBVIOUS
<1>3. pc' \in [Streams -> PCs] /\ act' \in [Streams -> Activation]
  BY NoActType DEF Leave, Types, TypeOK, PCs
<1>4. child' \in [Streams -> 0..MaxRows] /\ frames' \in [Streams -> Seq(Frame)]
      /\ worker' \in [Streams -> [id : 0..MaxRows, link : Link, releasing : BOOLEAN]]
  BY <1>1, <1>2 DEF Leave, Types, TypeOK
<1>5. snap' = [snap EXCEPT ![p] = << >>] /\ DOMAIN snap' = Streams BY DEF Leave, Types
<1>6. \A q \in Streams : DOMAIN snap'[q] \subseteq Ids /\ \A i \in DOMAIN snap'[q] : snap'[q][i] \in Row
  BY <1>5 DEF Types, TypeOK
<1> QED BY <1>3, <1>4, <1>5, <1>6

LEMMA DeleteTypes ==
  ASSUME Types, NEW S, rows' = Without(S), claimed' = claimed \ S
  PROVE  rows' \in [Ids -> Row \cup {NoRow}] /\ claimed' \subseteq Stored'
  BY DEF Types, TypeOK, Without, Stored

LEMMA CloseLoopsType ==
  ASSUME Types, NEW S, NEW how \in {"completed", "exhausted", "failed"}, CloseLoops(S, how)
  PROVE  status' \in [Loops -> {"none", "running", "completed", "exhausted", "failed"}]
  BY DEF Types, TypeOK, CloseLoops

LEMMA DropHostsTypes ==
  ASSUME Types, NEW link, NEW failing, NEW also, NEW loops, DropHosts(link, failing, also, loops)
  PROVE  /\ rows' \in [Ids -> Row \cup {NoRow}] /\ claimed' \subseteq Stored'
         /\ status' \in [Loops -> {"none", "running", "completed", "exhausted", "failed"}]
<1> DEFINE Visited == Upward(link.host) \cap Hosts
           LiveOf(h) == (rows[h].pending \ {failing}) \cap Stored
           Gone == {h \in Visited : LiveOf(h) = {}}
<1>1. /\ rows' = [i \in Ids |-> IF i \in Gone \cup also THEN NoRow
                                ELSE IF i \in Visited THEN [rows[i] EXCEPT !.pending = LiveOf(i)]
                                ELSE rows[i]]
      /\ claimed' = claimed \ (Gone \cup also)
      /\ CloseLoops(loops \cup {rows[h].loop : h \in Gone}, "failed")
  BY DEF DropHosts
<1>2. \A i \in Visited : [rows[i] EXCEPT !.pending = LiveOf(i)] \in Row
  <2> SUFFICES ASSUME NEW i \in Visited PROVE [rows[i] EXCEPT !.pending = LiveOf(i)] \in Row
    OBVIOUS
  <2>1. rows[i] \in Row /\ LiveOf(i) \in SUBSET Ids BY RowType DEF Hosts, Stored
  <2> HIDE DEF LiveOf
  <2> QED BY <2>1 DEF Row
<1> HIDE DEF Visited, LiveOf, Gone
<1>3. rows' \in [Ids -> Row \cup {NoRow}] BY <1>1, <1>2 DEF Types, TypeOK
<1>4. claimed' \subseteq Stored'
  <2> SUFFICES ASSUME NEW i \in claimed, i \notin Gone \cup also PROVE i \in Stored'
    BY <1>1
  <2>1. i \in Ids /\ rows[i] # NoRow BY DEF Types, TypeOK, Stored
  <2>2. CASE i \in Visited
    <3>1. rows'[i] \in Row BY <1>1, <1>2, <2>1, <2>2
    <3> QED BY <3>1, <2>1, NotARow DEF Stored
  <2>3. CASE i \notin Visited BY <2>1, <2>3, <1>1 DEF Stored
  <2> QED BY <2>2, <2>3
<1>5. status' \in [Loops -> {"none", "running", "completed", "exhausted", "failed"}]
  BY <1>1, CloseLoopsType
<1> QED BY <1>3, <1>4, <1>5

StoreTypes ==
  /\ rows \in [Ids -> Row \cup {NoRow}] /\ claimed \subseteq Stored /\ issued \in 0..MaxRows
  /\ status \in [Loops -> {"none", "running", "completed", "exhausted", "failed"}]
  /\ recorded \in [Loops -> Seq(Nat)]
ClientTypes ==
  announced \subseteq Ids /\ answered \in [Ids -> Nat] /\ happened \subseteq FaultKinds
SnapTypes ==
  /\ DOMAIN snap = Streams
  /\ \A q \in Streams : DOMAIN snap[q] \subseteq Ids /\ \A i \in DOMAIN snap[q] : snap[q][i] \in Row
StreamTypes ==
  /\ pc \in [Streams -> PCs] /\ act \in [Streams -> Activation]
  /\ child \in [Streams -> 0..MaxRows] /\ SnapTypes
  /\ frames \in [Streams -> Seq(Frame)]
  /\ worker \in [Streams -> [id : 0..MaxRows, link : Link, releasing : BOOLEAN]]

LEMMA TypeParts == Types <=> StoreTypes /\ ClientTypes /\ StreamTypes
  BY DEF Types, TypeOK, StoreTypes, ClientTypes, StreamTypes, SnapTypes

LEMMA TypesNext ==
  ASSUME StoreTypes', ClientTypes', StreamTypes' PROVE Types'
  BY DEF Types, TypeOK, StoreTypes, ClientTypes, StreamTypes, SnapTypes

LEMMA SameTypes ==
  ASSUME Types
  PROVE  /\ UNCHANGED storeVars => StoreTypes'
         /\ UNCHANGED <<rows, claimed, issued>> =>
              /\ rows' \in [Ids -> Row \cup {NoRow}] /\ claimed' \subseteq Stored'
              /\ issued' \in 0..MaxRows
         /\ UNCHANGED clientVars /\ happened' \subseteq FaultKinds => ClientTypes'
         /\ UNCHANGED snap => SnapTypes'
<1>1. ASSUME UNCHANGED <<rows, claimed, issued>>
      PROVE  /\ rows' \in [Ids -> Row \cup {NoRow}] /\ claimed' \subseteq Stored'
             /\ issued' \in 0..MaxRows
  BY <1>1 DEF Types, TypeOK, Stored
<1>2. ASSUME UNCHANGED storeVars PROVE StoreTypes'
  BY <1>1, <1>2 DEF Types, TypeOK, storeVars, StoreTypes
<1> QED BY <1>1, <1>2 DEF Types, TypeOK, ClientTypes, SnapTypes, clientVars

LEMMA FaultType ==
  ASSUME Types, NEW kind, Fault(kind) PROVE happened' \subseteq FaultKinds
  BY ModeAssumption DEF Fault, Types, TypeOK

LEMMA LeaveTypes ==
  ASSUME Types, NEW p \in Streams, Leave(p) PROVE StreamTypes'
  BY LeaveType DEF StreamTypes, SnapTypes

\* Steps of a turn.
LEMMA TurnTypes ==
  ASSUME Types, NEW p \in Streams,
         \/ \E k \in Levels : StartLoop(p, k) \/ IterateLoop(p, k) \/ CloseLoop(p, k)
         \/ EndRun(p) \/ NextStep(p) \/ FinalizeIteration(p) \/ ContinueParent(p)
         \/ FailRun(p) \/ RecoverRun(p)
  PROVE  Types'
<1>0. /\ StoreTypes /\ ClientTypes /\ StreamTypes /\ act[p] \in Activation /\ Lvl(p) \in Levels
      /\ 0 \in 0..MaxLoops /\ Loops \subseteq 0..MaxLoops
      /\ \A k \in Levels : Cur(p, k) \in 0..MaxLoops
      /\ act[p].top \in Levels
  BY TypeParts, ActType, IdTypes, SizeAssumption
<1>1. ASSUME NEW k \in Levels, StartLoop(p, k) PROVE Types'
  <2>1. PICK l \in Unused :
          /\ status' = [status EXCEPT ![l] = "running"]
          /\ act' = [act EXCEPT ![p] = Descend([@ EXCEPT !.cur[k] = l, !.mine[k] = TRUE], k)]
    BY <1>1 DEF StartLoop
  <2>2. l \in 0..MaxLoops /\ k < Depth BY <1>0, <1>1 DEF Unused, StartLoop, Calling
  <2>3. [act[p] EXCEPT !.cur[k] = l, !.mine[k] = TRUE] \in Activation
    BY <1>0, <2>2 DEF Activation
  <2>4. act' \in [Streams -> Activation]
    BY <2>1, <2>2, <2>3, <1>0, DescendType DEF StreamTypes
  <2>5. StoreTypes' BY <2>1, <1>1, <1>0 DEF StartLoop, StoreTypes, Stored
  <2>6. StreamTypes' BY <2>4, <1>1, <1>0 DEF StartLoop, StreamTypes, SnapTypes
  <2>7. ClientTypes' BY <1>1, <1>0, SameTypes DEF StartLoop, ClientTypes
  <2> QED BY <2>5, <2>6, <2>7, TypesNext
<1>2. ASSUME NEW k \in Levels, IterateLoop(p, k) PROVE Types'
  <2>1. act' = [act EXCEPT ![p] = Descend(@, k)] /\ k < Depth BY <1>2 DEF IterateLoop, Calling
  <2>2. act' \in [Streams -> Activation] BY <2>1, <1>0, DescendType DEF StreamTypes
  <2>3. StoreTypes' /\ ClientTypes' BY <1>2, <1>0, SameTypes DEF IterateLoop, ClientTypes
  <2>4. StreamTypes' BY <2>2, <1>2, <1>0 DEF IterateLoop, StreamTypes, SnapTypes
  <2> QED BY <2>3, <2>4, TypesNext
<1>3. ASSUME NEW k \in Levels, CloseLoop(p, k) PROVE Types'
  <2>1. act' = [act EXCEPT ![p].cur[k] = 0] BY <1>3 DEF CloseLoop
  <2>2. [act[p] EXCEPT !.cur[k] = 0] \in Activation BY <1>0 DEF Activation
  <2>3. act' \in [Streams -> Activation] BY <2>1, <2>2, <1>0 DEF StreamTypes
  <2>4. StoreTypes' BY <1>3, <1>0 DEF CloseLoop, StoreTypes, Stored
  <2>5. ClientTypes' BY <1>3, <1>0, SameTypes DEF CloseLoop, ClientTypes
  <2>6. StreamTypes' BY <2>3, <1>3, <1>0 DEF CloseLoop, StreamTypes, SnapTypes
  <2> QED BY <2>4, <2>5, <2>6, TypesNext
<1>4. ASSUME EndRun(p) PROVE Types'
  <2>1. StoreTypes' BY <1>4, <1>0 DEF EndRun, Finalize, StoreTypes, Stored
  <2>2. ClientTypes' BY <1>4, <1>0, SameTypes DEF EndRun, ClientTypes
  <2>3. StreamTypes' BY <1>4, <1>0 DEF EndRun, StreamTypes, SnapTypes, PCs
  <2> QED BY <2>1, <2>2, <2>3, TypesNext
<1>5. ASSUME NextStep(p) PROVE Types'
  <2> DEFINE k == Lvl(p)
  <2>1. act' = [act EXCEPT ![p].step[k] = @ + 1, ![p].cur[k] = 0, ![p].mine[k] = FALSE]
        /\ act[p].step[k] < Steps
    BY <1>5 DEF NextStep
  <2>2. act[p].step[k] + 1 \in 1..Steps BY <2>1, <1>0, SizeAssumption, ActType
  <2>3. act' \in [Streams -> Activation]
    <3>1. k \in Levels BY <1>0
    <3> HIDE DEF k
    <3>2. act'[p] \in Activation BY <2>1, <2>2, <3>1, <1>0 DEF Activation, StreamTypes
    <3> QED BY <2>1, <3>2, <1>0 DEF StreamTypes
  <2>4. StoreTypes' /\ ClientTypes' BY <1>5, <1>0, SameTypes DEF NextStep, ClientTypes
  <2>5. StreamTypes' BY <2>3, <1>5, <1>0 DEF NextStep, StreamTypes, SnapTypes, PCs
  <2> QED BY <2>4, <2>5, TypesNext
<1>6. ASSUME FinalizeIteration(p) PROVE Types'
  <2> DEFINE k == Lvl(p)
  <2>1. /\ recorded' = [recorded EXCEPT ![Open(p, k - 1)] = Append(@, Len(@) + 1)]
        /\ act' = [act EXCEPT ![p].lvl = k - 1, ![p].open[k - 1] = 0] /\ k > act[p].top
    BY <1>6 DEF FinalizeIteration
  <2>2. k - 1 \in Levels
    <3>1. k \in Levels /\ act[p].top \in Levels BY <1>0
    <3> HIDE DEF k
    <3> QED BY <2>1, <3>1, SizeAssumption DEF Levels
  <2>3. act' \in [Streams -> Activation]
    <3> HIDE DEF k
    <3>2. act'[p] \in Activation BY <2>1, <2>2, <1>0 DEF Activation, StreamTypes
    <3> QED BY <2>1, <3>2, <1>0 DEF StreamTypes
  <2>4. recorded' \in [Loops -> Seq(Nat)]
    <3>1. recorded \in [Loops -> Seq(Nat)] BY <1>0 DEF StoreTypes
    <3>2. \A s \in Seq(Nat) : Append(s, Len(s) + 1) \in Seq(Nat) OBVIOUS
    <3> QED BY <3>1, <3>2, <2>1
  <2>5. StoreTypes' BY <2>4, <1>6, <1>0 DEF FinalizeIteration, StoreTypes, Stored
  <2>6. ClientTypes' BY <1>6, <1>0, SameTypes DEF FinalizeIteration, ClientTypes
  <2>7. StreamTypes' BY <2>3, <1>6, <1>0 DEF FinalizeIteration, StreamTypes, SnapTypes, PCs
  <2> QED BY <2>5, <2>6, <2>7, TypesNext
<1>7. ASSUME ContinueParent(p) PROVE Types'
  <2>1. StoreTypes' /\ ClientTypes' BY <1>7, <1>0, SameTypes DEF ContinueParent, ClientTypes
  <2>2. StreamTypes'
    <3>1. CASE Leave(p) BY <3>1, LeaveTypes
    <3>2. CASE pc' = [pc EXCEPT ![p] = "closing"] /\ UNCHANGED <<act, child, snap, frames, worker>>
      BY <3>2, <1>0 DEF StreamTypes, SnapTypes, PCs
    <3> QED BY <3>1, <3>2, <1>7 DEF ContinueParent
  <2> QED BY <2>1, <2>2, TypesNext
<1>8. ASSUME FailRun(p) PROVE Types'
  <2>1. StoreTypes' BY <1>8, <1>0 DEF FailRun, Finalize, StoreTypes, Stored
  <2>2. ClientTypes' BY <1>8, <1>0, SameTypes, FaultType DEF FailRun, ClientTypes
  <2>3. pc' \in [Streams -> PCs] /\ act' \in [Streams -> Activation]
    BY <1>8, ThrownType DEF FailRun
  <2>4. StreamTypes' BY <2>3, <1>8, <1>0 DEF FailRun, StreamTypes, SnapTypes
  <2> QED BY <2>1, <2>2, <2>4, TypesNext
<1>9. ASSUME RecoverRun(p) PROVE Types'
  <2>0. status' \in [Loops -> {"none", "running", "completed", "exhausted", "failed"}]
    <3>1. CASE UNCHANGED status BY <3>1, <1>0 DEF StoreTypes
    <3>2. CASE CloseLoops({Last(frames[p]).loop}, "completed") BY <3>2, CloseLoopsType
    <3> QED BY <3>1, <3>2, <1>9 DEF RecoverRun
  <2>1. StoreTypes' BY <2>0, <1>9, <1>0 DEF RecoverRun, StoreTypes, Stored
  <2>2. ClientTypes' BY <1>9, <1>0, SameTypes, FaultType DEF RecoverRun, ClientTypes
  <2>4. StreamTypes' BY <1>9, <1>0 DEF RecoverRun, StreamTypes, SnapTypes, PCs
  <2> QED BY <2>0, <2>1, <2>2, <2>4, TypesNext
<1> QED BY <1>1, <1>2, <1>3, <1>4, <1>5, <1>6, <1>7, <1>8, <1>9

LEMMA DeleteStored ==
  ASSUME NEW S, rows' = Without(S)
  PROVE  Stored' = Stored \ S /\ \A i \in Stored' : rows'[i] = rows[i]
  BY DEF Without, Stored

\* Rows are written over what is there.
LEMMA WriteTypes ==
  ASSUME Types, NEW f, DOMAIN f \subseteq Ids, \A i \in DOMAIN f : f[i] \in Row,
         rows' = [i \in Ids |-> IF i \in DOMAIN f THEN f[i] ELSE rows[i]], claimed' = claimed
  PROVE  rows' \in [Ids -> Row \cup {NoRow}] /\ claimed' \subseteq Stored'
<1>1. rows' \in [Ids -> Row \cup {NoRow}] BY DEF Types, TypeOK
<1>2. \A i \in Stored : i \in Stored' BY NotARow DEF Stored
<1> QED BY <1>1, <1>2 DEF Types, TypeOK

LEMMA FailOpenTypes ==
  ASSUME Types, NEW loops, NEW leaf, FailOpen(loops, leaf)
  PROVE  /\ rows' \in [Ids -> Row \cup {NoRow}] /\ claimed' \subseteq Stored'
         /\ status' \in [Loops -> {"none", "running", "completed", "exhausted", "failed"}]
<1>1. PICK S : rows' = Without(S) /\ claimed' = claimed \ S BY DEF FailOpen
<1>2. PICK T : CloseLoops(T, "failed") BY DEF FailOpen
<1> QED BY <1>1, <1>2, DeleteTypes, CloseLoopsType

LEMMA AbandonTypes ==
  ASSUME Types, NEW p \in Streams, AbandonWorker(p)
  PROVE  StoreTypes' /\ StreamTypes' /\ UNCHANGED clientVars
<1>1. StoreTypes'
  BY DropHostsTypes DEF AbandonWorker, StoreTypes, Types, TypeOK
<1> QED BY <1>1, LeaveTypes DEF AbandonWorker

LEMMA RetargetedTypes ==
  ASSUME Types, NEW leaf \in Ids, NEW id, NEW i \in DOMAIN Retargeted(leaf, id)
  PROVE  i \in Hosts /\ Retargeted(leaf, id)[i] \in Row
<1>1. i \in Hosts BY DEF Retargeted
<1>2. Retargeted(leaf, id)[i] =
        [rows[i] EXCEPT !.pending = {c \in @ : c # id /\ c \in Stored} \cup {leaf}]
  BY DEF Retargeted
<1>3. PICK S : S = {c \in rows[i].pending : c # id /\ c \in Stored} \cup {leaf} OBVIOUS
<1>4. rows[i] \in Row /\ S \in SUBSET Ids BY <1>1, <1>3, RowType DEF Hosts
<1>5. [rows[i] EXCEPT !.pending = S] \in Row BY <1>4 DEF Row
<1> QED BY <1>1, <1>2, <1>3, <1>5

\* Steps of a suspension.
LEMMA SuspensionTypes ==
  ASSUME Inv, NEW p \in Streams,
         \/ Ask(p) \/ ReadHosts(p) \/ SaveHosts(p) \/ Notify(p) \/ YieldRequired(p)
         \/ SuspendHost(p) \/ LinkFrame(p) \/ Unsupported(p) \/ RetryHost(p)
  PROVE  Types'
<1>0. /\ Types /\ StoreTypes /\ ClientTypes /\ StreamTypes /\ act[p] \in Activation
      /\ Lvl(p) \in Levels /\ 0 \in 0..MaxLoops /\ Loops \subseteq 0..MaxLoops
      /\ \A k \in Levels : Cur(p, k) \in 0..MaxLoops /\ Open(p, k) \in 0..MaxLoops
      /\ act[p].top \in Levels
  BY TypeParts, ActType, IdTypes, SizeAssumption DEF Inv, Global
<1>10. ASSUME NEW k \in Levels, k >= act[p].top PROVE ParentOf(p, k) \in Link
  <2>1. act[p].link \in Link /\ act[p].step[k] \in 1..Steps BY <1>0, ActType
  <2>2. [act[p].link EXCEPT !.step = act[p].step[k]] \in Link BY <2>1 DEF Link
  <2>3. k # act[p].top => k - 1 \in Levels BY <1>10, <1>0, SizeAssumption DEF Levels
  <2>4. k # act[p].top => Open(p, k - 1) \in 0..MaxLoops BY <2>3, <1>0
  <2>5. k # act[p].top =>
          [loop |-> Open(p, k - 1), host |-> 0, iter |-> 0, step |-> act[p].step[k]] \in Link
    BY <2>1, <2>4, IdTypes DEF Link
  <2> QED BY <2>2, <2>5 DEF ParentOf
<1>1. ASSUME Ask(p) PROVE Types'
  <2>1. Depth \in Levels /\ Depth >= act[p].top /\ NextId \in Ids
    <3>1. Depth \in Levels /\ Depth >= act[p].top BY <1>0, SizeAssumption DEF Levels
    <3>2. NextId \in Nat /\ NextId + (Depth - act[p].top) \in Ids /\ NextId > 0
      BY <1>0, <1>1, SizeAssumption DEF Ask, NextId, StoreTypes
    <3> QED BY <3>1, <3>2, <1>0, SizeAssumption DEF Ids, Levels
  <2>2. ParentOf(p, Depth) \in Link BY <2>1, <1>10
  <2>3. [level |-> Depth, link |-> ParentOf(p, Depth), loop |-> 0, pending |-> {}] \in Row
    BY <2>1, <2>2, <1>0 DEF Row
  <2>4. rows' \in [Ids -> Row \cup {NoRow}] /\ claimed' \subseteq Stored'
    <3>1. rows' = [rows EXCEPT ![NextId] =
                     [level |-> Depth, link |-> ParentOf(p, Depth), loop |-> 0, pending |-> {}]]
          /\ claimed' = claimed
      BY <1>1 DEF Ask
    <3>2. NextId \in Stored' BY <3>1, <2>1, <2>3, <1>0, NotARow DEF Stored, StoreTypes
    <3> QED BY <3>1, <3>2, <2>1, <2>3, <1>0 DEF StoreTypes, Stored
  <2>5. issued' \in 0..MaxRows /\ child' \in [Streams -> 0..MaxRows]
    BY <1>1, <1>0, <2>1, IdTypes DEF Ask, StreamTypes
  <2>6. StoreTypes' /\ ClientTypes'
    BY <2>4, <2>5, <1>1, <1>0, SameTypes DEF Ask, StoreTypes, ClientTypes
  <2>7. StreamTypes' BY <2>5, <1>1, <1>0 DEF Ask, StreamTypes, SnapTypes, PCs
  <2> QED BY <2>6, <2>7, TypesNext
<1>2. ASSUME ReadHosts(p) PROVE Types'
  <2>1. StoreTypes' /\ ClientTypes' BY <1>2, <1>0, SameTypes DEF ReadHosts, ClientTypes
  <2>2. PICK id : snap' = [snap EXCEPT ![p] = Retargeted(child[p], id)]
    BY <1>2 DEF ReadHosts
  <2>3. child[p] \in Ids
    BY <1>2 DEF ReadHosts, Inv, Local, ChildOK, Suspending, Asking, Stored
  <2>4. SnapTypes' BY <2>2, <2>3, <1>0, RetargetedTypes DEF StreamTypes, SnapTypes, Hosts, Stored
  <2>5. StreamTypes' BY <2>4, <1>2, <1>0 DEF ReadHosts, StreamTypes, PCs
  <2> QED BY <2>1, <2>5, TypesNext
<1>3. ASSUME SaveHosts(p) \/ LinkFrame(p) PROVE Types'
  <2>1. rows' = [i \in Ids |-> IF i \in DOMAIN snap[p] THEN snap[p][i] ELSE rows[i]]
        /\ snap' = [snap EXCEPT ![p] = << >>] /\ claimed' = claimed
    BY <1>3 DEF SaveHosts, LinkFrame
  <2>2. DOMAIN snap[p] \subseteq Ids /\ \A i \in DOMAIN snap[p] : snap[p][i] \in Row
    BY <1>0 DEF StreamTypes, SnapTypes
  <2>3. rows' \in [Ids -> Row \cup {NoRow}] /\ claimed' \subseteq Stored'
    BY <2>1, <2>2, <1>0, WriteTypes
  <2>4. StoreTypes' /\ ClientTypes'
    BY <2>3, <1>3, <1>0, SameTypes DEF SaveHosts, LinkFrame, StoreTypes, ClientTypes
  <2>5. SnapTypes' BY <2>1, <1>0 DEF StreamTypes, SnapTypes
  <2>6. StreamTypes' BY <2>5, <1>3, <1>0 DEF SaveHosts, LinkFrame, StreamTypes, PCs
  <2> QED BY <2>4, <2>6, TypesNext
<1>4. ASSUME Notify(p) PROVE Types'
  <2>1. StoreTypes' BY <1>4, <1>0, SameTypes DEF Notify
  <2>2. child[p] \in Ids
    BY <1>4 DEF Notify, Inv, Local, ChildOK, Suspending, Asking, Stored
  <2>3. ClientTypes' BY <2>2, <1>4, <1>0 DEF Notify, ClientTypes
  <2>4. StreamTypes' BY <1>4, <1>0 DEF Notify, StreamTypes, SnapTypes, PCs
  <2> QED BY <2>1, <2>3, <2>4, TypesNext
<1>5. ASSUME YieldRequired(p) PROVE Types'
  <2>2. child[p] \in Ids
    BY <1>5 DEF YieldRequired, Inv, Local, ChildOK, Suspending, Asking, Stored
  <2>3. ClientTypes' BY <2>2, <1>5, <1>0 DEF YieldRequired, ClientTypes
  <2>4. CASE Lvl(p) > act[p].top
    <3>1. act' = [act EXCEPT ![p].lvl = @ - 1] BY <1>5, <2>4 DEF YieldRequired
    <3>2. Lvl(p) - 1 \in Levels BY <2>4, <1>0, SizeAssumption DEF Levels
    <3>3. act' \in [Streams -> Activation]
      <4>1. act[p].lvl - 1 \in Levels BY <3>2 DEF Lvl
      <4>2. act'[p] \in Activation BY <3>1, <4>1, <1>0 DEF Activation, StreamTypes
      <4> QED BY <3>1, <4>2, <1>0 DEF StreamTypes
    <3>4. StoreTypes' BY <1>5, <2>4, <1>0 DEF YieldRequired, StoreTypes, Stored
    <3>5. StreamTypes' BY <3>3, <1>5, <2>4, <1>0 DEF YieldRequired, StreamTypes, SnapTypes, PCs
    <3> QED BY <2>3, <3>4, <3>5, TypesNext
  <2>5. CASE ~(Lvl(p) > act[p].top)
    <3>1. Release(p) /\ Leave(p) BY <1>5, <2>5 DEF YieldRequired
    <3>2. rows' \in [Ids -> Row \cup {NoRow}] /\ claimed' \subseteq Stored'
      BY <3>1, <1>0, DeleteTypes DEF Release
    <3>3. StoreTypes' BY <3>2, <1>5, <1>0 DEF YieldRequired, StoreTypes
    <3>4. StreamTypes' BY <3>1, <1>0, LeaveTypes
    <3> QED BY <2>3, <3>3, <3>4, TypesNext
  <2> QED BY <2>4, <2>5
<1>6. ASSUME SuspendHost(p) PROVE Types'
  <2> DEFINE k == Lvl(p)
             found == FrameOf(child[p], Open(p, k))
             link(f) == [rows[f].link EXCEPT !.host = NextId, !.iter = OpenIteration(Open(p, k))]
             row == [level |-> k, link |-> ParentOf(p, k), loop |-> Open(p, k),
                     pending |-> {child[p]}]
  <2>1. /\ rows' = [rows EXCEPT ![NextId] = row] /\ NextId \in Ids /\ issued' = NextId
        /\ snap' = [snap EXCEPT ![p] = [f \in found |-> [rows[f] EXCEPT !.link = link(f)]]]
        /\ claimed' = claimed /\ pc[p] = "suspending"
    BY <1>6 DEF SuspendHost
  <2>2. row \in Row
    <3>1. k \in Levels /\ Open(p, k) \in 0..MaxLoops BY <1>0
    <3>2. k >= act[p].top BY <2>1, <1>0 DEF Inv, Local, StackOK, Stacked, Suspending, Levels
    <3>3. ParentOf(p, k) \in Link BY <3>1, <3>2, <1>10
    <3>4. child[p] \in Ids BY <2>1 DEF Inv, Local, ChildOK, Suspending, Stored
    <3> HIDE DEF k
    <3> QED BY <3>1, <3>3, <3>4 DEF Row
  <2> HIDE DEF row
  <2>3. rows' \in [Ids -> Row \cup {NoRow}] /\ claimed' \subseteq Stored'
    <3>2. NextId \in Stored' BY <2>1, <2>2, <1>0, NotARow DEF Stored, StoreTypes
    <3> QED BY <3>2, <2>1, <2>2, <1>0 DEF StoreTypes, Stored
  <2>4. StoreTypes' /\ ClientTypes'
    BY <2>1, <2>3, <1>6, <1>0, SameTypes, IdTypes DEF SuspendHost, StoreTypes, ClientTypes
  <2>5. ASSUME NEW f \in found PROVE f \in Ids /\ [rows[f] EXCEPT !.link = link(f)] \in Row
    <3>1. f \in Stored BY UpwardStored DEF FrameOf
    <3>2. rows[f] \in Row /\ rows[f].link \in Link /\ f \in Ids BY <3>1, <1>0, RowType
    <3>3. OpenIteration(Open(p, k)) \in Nat
      <4>1. Open(p, k) \in Loops BY <2>1, <1>0, IdTypes DEF Inv, Local, StackOK, Stacked, Suspending
      <4>2. recorded[Open(p, k)] \in Seq(Nat) BY <4>1, <1>0 DEF StoreTypes
      <4> QED BY <4>2 DEF OpenIteration, Done
    <3>4. link(f) \in Link BY <2>1, <3>2, <3>3, IdTypes DEF Link
    <3> HIDE DEF link
    <3> QED BY <3>2, <3>4 DEF Row
  <2> HIDE DEF found, link
  <2>6. SnapTypes' BY <2>1, <2>5, <1>0 DEF StreamTypes, SnapTypes
  <2>7. StreamTypes' BY <2>6, <1>6, <1>0 DEF SuspendHost, StreamTypes, PCs
  <2> QED BY <2>4, <2>7, TypesNext
<1>7. ASSUME Unsupported(p) PROVE Types'
  <2>1. StoreTypes' BY <1>7, <1>0, FailOpenTypes DEF Unsupported, StoreTypes
  <2>2. ClientTypes'
    <3>1. happened' \subseteq FaultKinds
      BY <1>7, <1>0, FaultType DEF Unsupported, ClientTypes
    <3> QED BY <3>1, <1>7, <1>0, SameTypes DEF Unsupported
  <2>3. pc' \in [Streams -> PCs] /\ act' \in [Streams -> Activation]
    BY <1>7, <1>0, ThrownType DEF Unsupported
  <2>4. StreamTypes' BY <2>3, <1>7, <1>0 DEF Unsupported, StreamTypes, SnapTypes
  <2> QED BY <2>1, <2>2, <2>4, TypesNext
<1>8. ASSUME RetryHost(p) PROVE Types'
  <2>1. StoreTypes' BY <1>8, <1>0, FailOpenTypes DEF RetryHost, StoreTypes
  <2>2. ClientTypes' BY <1>8, <1>0, SameTypes, FaultType DEF RetryHost
  <2>3. act' \in [Streams -> Activation]
    <3>1. PICK k : k = Lvl(p) OBVIOUS
    <3>2. k \in Levels BY <3>1, <1>0
    <3>3. PICK x \in {act[p].cur[k], 0} :
            act' = [act EXCEPT ![p].cur[k] = x, ![p].mine[k] = FALSE, ![p].open[k] = 0]
      BY <1>8, <3>1 DEF RetryHost
    <3>4. x \in 0..MaxLoops BY <3>1, <3>2, <1>0 DEF Cur
    <3>5. act'[p] \in Activation BY <3>2, <3>3, <3>4, <1>0 DEF Activation, StreamTypes
    <3> QED BY <3>3, <3>5, <1>0 DEF StreamTypes
  <2>4. StreamTypes' BY <2>3, <1>8, <1>0 DEF RetryHost, StreamTypes, SnapTypes, PCs
  <2> QED BY <2>1, <2>2, <2>4, TypesNext
<1> QED BY <1>1, <1>2, <1>3, <1>4, <1>5, <1>6, <1>7, <1>8

\* Steps of a resume, and the ends of a stream.
LEMMA ResumeTypes ==
  ASSUME Inv, NEW p \in Streams,
         \/ \E c \in Ids : ReadCheckpoint(p, c)
         \/ Claim(p) \/ InspectHost(p) \/ GetHost(p) \/ ClaimHost(p) \/ RecordIteration(p)
         \/ LoseRecord(p) \/ Unwind(p) \/ Throw(p) \/ Stop(p)
  PROVE  Types'
<1>0. /\ Types /\ StoreTypes /\ ClientTypes /\ StreamTypes /\ act[p] \in Activation
      /\ Lvl(p) \in Levels /\ 0 \in 0..MaxLoops /\ Loops \subseteq 0..MaxLoops
      /\ act[p].top \in Levels /\ act[p].link \in Link /\ child[p] \in 0..MaxRows
      /\ DOMAIN snap[p] \subseteq Ids /\ \A i \in DOMAIN snap[p] : snap[p][i] \in Row
  BY TypeParts, ActType, IdTypes, SizeAssumption DEF Inv, Global, Types, TypeOK
<1>1. ASSUME NEW c \in Ids, ReadCheckpoint(p, c) PROVE Types'
  <2>1. StoreTypes' /\ ClientTypes' BY <1>1, <1>0, SameTypes DEF ReadCheckpoint, ClientTypes
  <2>2. c \in Stored /\ rows[c] \in Row BY <1>1, <1>0, RowType DEF ReadCheckpoint
  <2>3. SnapTypes' BY <2>2, <1>1, <1>0 DEF ReadCheckpoint, StreamTypes, SnapTypes
  <2>4. StreamTypes' BY <2>3, <1>1, <1>0, IdTypes DEF ReadCheckpoint, StreamTypes, PCs
  <2> QED BY <2>1, <2>4, TypesNext
<1>2. ASSUME Claim(p) PROVE Types'
  <2> DEFINE c == child[p]
             link == snap[p][c].link
  <2>1. c \in DOMAIN snap[p] BY <1>2 DEF Claim, Inv, Local, ClaimOK
  <2>2. c \in Ids /\ link \in Link BY <2>1, <1>0 DEF Row
  <2>3. link.host \in 0..MaxRows /\ link.step \in 1..Steps BY <2>2 DEF Link
  <2> HIDE DEF c, link
  <2>4. CASE WinsClaim(c)
    <3>1. /\ \/ claimed' = claimed \cup {c} /\ UNCHANGED rows
             \/ rows' = Without({c}) /\ UNCHANGED claimed
          /\ answered' = [answered EXCEPT ![c] = @ + 1]
          /\ worker' = [worker EXCEPT ![p] = [id |-> c, link |-> link, releasing |-> link.host # 0]]
          /\ act' = [act EXCEPT ![p] =
                       [NoAct EXCEPT !.top = Depth, !.lvl = Depth, !.link = link,
                                     !.step[Depth] = link.step]]
          /\ pc' = [pc EXCEPT ![p] = "turn"]
          /\ UNCHANGED <<child, snap, frames, issued, status, recorded, announced, happened>>
      BY <1>2, <2>4 DEF Claim, c, link
    <3>2. c \in Stored \ claimed BY <2>4 DEF WinsClaim
    <3>3. rows' \in [Ids -> Row \cup {NoRow}] /\ claimed' \subseteq Stored'
      <4>1. CASE claimed' = claimed \cup {c} /\ UNCHANGED rows
        BY <4>1, <3>2, <1>0 DEF StoreTypes, Stored
      <4>2. CASE rows' = Without({c}) /\ UNCHANGED claimed
        <5>1. claimed' = claimed \ {c} BY <4>2, <3>2
        <5> QED BY <4>2, <5>1, <1>0, DeleteTypes
      <4> QED BY <4>1, <4>2, <3>1
    <3>4. StoreTypes' BY <3>1, <3>3, <1>0 DEF StoreTypes
    <3>5. ClientTypes' BY <3>1, <2>2, <1>0 DEF ClientTypes
    <3>6. [NoAct EXCEPT !.top = Depth, !.lvl = Depth, !.link = link, !.step[Depth] = link.step]
            \in Activation
      <4>1. Depth \in Levels BY SizeAssumption DEF Levels
      <4> QED BY <4>1, <2>2, <2>3, NoActType DEF Activation
    <3>7. act' \in [Streams -> Activation] BY <3>1, <3>6, <1>0 DEF StreamTypes
    <3>8. worker' \in [Streams -> [id : 0..MaxRows, link : Link, releasing : BOOLEAN]]
      <4>1. c \in 0..MaxRows BY <2>2, IdTypes
      <4>2. [id |-> c, link |-> link, releasing |-> link.host # 0]
              \in [id : 0..MaxRows, link : Link, releasing : BOOLEAN]
        BY <4>1, <2>2
      <4> QED BY <4>2, <3>1, <1>0 DEF StreamTypes
    <3>9. StreamTypes' BY <3>7, <3>8, <3>1, <1>0 DEF StreamTypes, SnapTypes, PCs
    <3> QED BY <3>4, <3>5, <3>9, TypesNext
  <2>5. CASE ~WinsClaim(c)
    <3>1. Leave(p) /\ UNCHANGED <<storeVars, clientVars, happened>>
      BY <1>2, <2>5 DEF Claim, c, storeVars, clientVars
    <3>2. StoreTypes' /\ ClientTypes' BY <3>1, <1>0, SameTypes DEF ClientTypes
    <3> QED BY <3>1, <3>2, <1>0, LeaveTypes, TypesNext
  <2> QED BY <2>4, <2>5
<1>3. ASSUME InspectHost(p) PROVE Types'
  <2> DEFINE h == child[p]
             read == snap[p][h]
             live == read.pending \cap Stored
  <2>1. /\ IF live = {}
           THEN DropHosts(read.link, CHOOSE c \in read.pending : TRUE, {h}, {read.loop})
           ELSE /\ rows' = IF live = read.pending THEN rows
                           ELSE [rows EXCEPT ![h] = [read EXCEPT !.pending = live]]
                /\ UNCHANGED <<claimed, status>>
        /\ happened' = IF rows[h] = read THEN happened ELSE happened \cup {"overtaken"}
        /\ Leave(p) /\ UNCHANGED <<issued, recorded, clientVars>>
    BY <1>3 DEF InspectHost
  <2>2. read \in Row BY <1>3, <1>0 DEF InspectHost, Inv, Local, ClaimOK
  <2>3. [read EXCEPT !.pending = live] \in Row
    <3>1. live \in SUBSET Ids BY DEF Stored
    <3> HIDE DEF live, read
    <3> QED BY <2>2, <3>1 DEF Row
  <2> HIDE DEF h, read, live
  <2>4. /\ rows' \in [Ids -> Row \cup {NoRow}] /\ claimed' \subseteq Stored'
        /\ status' \in [Loops -> {"none", "running", "completed", "exhausted", "failed"}]
    <3>1. CASE live = {} BY <3>1, <2>1, <1>0, DropHostsTypes
    <3>2. CASE live # {}
      <4>1. UNCHANGED <<claimed, status>> BY <2>1, <3>2
      <4>2. CASE rows' = rows BY <4>1, <4>2, <1>0 DEF StoreTypes, Stored
      <4>3. CASE rows' = [rows EXCEPT ![h] = [read EXCEPT !.pending = live]]
        <5>1. rows' \in [Ids -> Row \cup {NoRow}] BY <4>3, <2>3, <1>0 DEF StoreTypes
        <5>2. \A i \in Stored : i \in Stored' BY <4>3, <2>3, <1>0, NotARow DEF Stored, StoreTypes
        <5> QED BY <5>1, <5>2, <4>1, <1>0 DEF StoreTypes
      <4> QED BY <4>2, <4>3, <2>1, <3>2
    <3> QED BY <3>1, <3>2
  <2>5. StoreTypes' BY <2>1, <2>4, <1>0 DEF StoreTypes
  <2>6. ClientTypes' BY <2>1, <1>0 DEF ClientTypes, clientVars, FaultKinds
  <2> QED BY <2>1, <2>5, <2>6, <1>0, LeaveTypes, TypesNext
<1>4. ASSUME GetHost(p) PROVE Types'
  <2>1. status' \in [Loops -> {"none", "running", "completed", "exhausted", "failed"}]
    BY <1>4, <1>0, CloseLoopsType DEF GetHost, StoreTypes
  <2>2. StoreTypes' /\ ClientTypes'
    BY <2>1, <1>4, <1>0, SameTypes DEF GetHost, StoreTypes, ClientTypes
  <2>3. act[p].link.host \in Stored => rows[act[p].link.host] \in Row /\ act[p].link.host \in Ids
    BY <1>0, RowType
  <2>4. SnapTypes' BY <2>3, <1>4, <1>0 DEF GetHost, StreamTypes, SnapTypes
  <2>5. StreamTypes' BY <2>4, <1>4, <1>0 DEF GetHost, StreamTypes, PCs
  <2> QED BY <2>2, <2>5, TypesNext
<1>5. ASSUME ClaimHost(p) PROVE Types'
  <2>1. rows' \in [Ids -> Row \cup {NoRow}] /\ claimed' \subseteq Stored'
    <3>1. CASE UNCHANGED <<rows, claimed>> BY <3>1, <1>0 DEF StoreTypes, Stored
    <3>2. CASE rows' = Without({act[p].link.host}) /\ claimed' = claimed \ {act[p].link.host}
      BY <3>2, <1>0, DeleteTypes
    <3> QED BY <3>1, <3>2, <1>5 DEF ClaimHost
  <2>2. happened' \subseteq FaultKinds BY <1>5, <1>0, FaultType DEF ClaimHost, ClientTypes
  <2>3. StoreTypes' /\ ClientTypes'
    BY <2>1, <2>2, <1>5, <1>0, SameTypes DEF ClaimHost, StoreTypes
  <2>4. StreamTypes' BY <1>5, <1>0 DEF ClaimHost, StreamTypes, SnapTypes, PCs
  <2> QED BY <2>3, <2>4, TypesNext
<1>6. ASSUME RecordIteration(p) PROVE Types'
  <2> DEFINE link == act[p].link
             host == snap[p][link.host]
             k == act[p].top - 1
             frame == [link |-> host.link, loop |-> link.loop, open |-> TRUE,
                       child |-> CHOOSE c \in host.pending : TRUE]
             cur == IF link.loop \in Running THEN link.loop ELSE 0
             stack == [NoAct EXCEPT !.top = k, !.lvl = k, !.link = host.link,
                                    !.step[k] = host.link.step, !.cur[k] = cur]
  <2>1. /\ recorded' = [recorded EXCEPT ![link.loop] = Append(@, link.iter)]
        /\ Release(p) /\ worker' = [worker EXCEPT ![p].releasing = @ /\ ~Freed(p)]
        /\ frames' = [frames EXCEPT ![p] = Append(@, frame)]
        /\ act' = [act EXCEPT ![p] = stack]
        /\ snap' = [snap EXCEPT ![p] = << >>] /\ pc' = [pc EXCEPT ![p] = "turn"]
        /\ UNCHANGED <<issued, status, clientVars, child, happened>>
    BY <1>6 DEF RecordIteration
  <2>2. /\ DOMAIN snap[p] = {link.host} /\ host.level = k /\ host.pending = {worker[p].id}
    BY <1>6 DEF RecordIteration, Inv, Local, ClosingOK, Read
  <2>3. /\ host.link \in Link /\ k \in Levels /\ worker[p].id \in Ids
        /\ host.link.step \in 1..Steps /\ link.loop \in 0..MaxLoops /\ link.iter \in Nat
        /\ cur \in 0..MaxLoops
    <3>1. host \in Row BY <2>2, <1>0
    <3>2. host.link \in Link /\ host.level \in Levels /\ host.pending \in SUBSET Ids
      BY <3>1 DEF Row
    <3>3. host.link.step \in 1..Steps BY <3>2 DEF Link
    <3>4. link.loop \in 0..MaxLoops /\ link.iter \in Nat BY <1>0 DEF Link
    <3> HIDE DEF host, link, k
    <3> QED BY <3>2, <3>3, <3>4, <2>2, <1>0 DEF Running
  <2>4. frame \in Frame
    <3>1. (CHOOSE c \in host.pending : TRUE) \in Ids BY <2>2, <2>3
    <3> HIDE DEF host, link
    <3> QED BY <3>1, <2>3 DEF Frame
  <2>5. stack \in Activation
    <3> HIDE DEF host, link, k, cur
    <3> QED BY <2>3, NoActType DEF Activation
  <2> HIDE DEF frame, stack, k, cur, host, link
  <2>6. recorded' \in [Loops -> Seq(Nat)]
    <3>1. recorded \in [Loops -> Seq(Nat)] BY <1>0 DEF StoreTypes
    <3>2. \A s \in Seq(Nat) : Append(s, link.iter) \in Seq(Nat) BY <2>3
    <3> QED BY <3>1, <3>2, <2>1
  <2>7. rows' \in [Ids -> Row \cup {NoRow}] /\ claimed' \subseteq Stored'
    BY <2>1, <1>0, DeleteTypes DEF Release
  <2>8. StoreTypes' BY <2>1, <2>6, <2>7, <1>0 DEF StoreTypes
  <2>9. ClientTypes' BY <2>1, <1>0, SameTypes DEF ClientTypes
  <2>10. SnapTypes' BY <2>1, <1>0 DEF StreamTypes, SnapTypes
  <2>11. frames' \in [Streams -> Seq(Frame)]
    <3>1. Append(frames[p], frame) \in Seq(Frame) BY <2>4, <1>0 DEF StreamTypes
    <3> QED BY <3>1, <2>1, <1>0 DEF StreamTypes
  <2>12. worker' \in [Streams -> [id : 0..MaxRows, link : Link, releasing : BOOLEAN]]
    <3>1. PICK b : b = (worker[p].releasing /\ ~Freed(p)) OBVIOUS
    <3>2. b \in BOOLEAN BY <3>1
    <3>3. worker' = [worker EXCEPT ![p].releasing = b] BY <3>1, <2>1
    <3> QED BY <3>2, <3>3, <1>0 DEF StreamTypes
  <2>13. StreamTypes' BY <2>1, <2>5, <2>10, <2>11, <2>12, <1>0 DEF StreamTypes, PCs
  <2> QED BY <2>8, <2>9, <2>13, TypesNext
<1>7. ASSUME LoseRecord(p) PROVE Types'
  <2>1. status' \in [Loops -> {"none", "running", "completed", "exhausted", "failed"}]
    BY <1>7, <1>0, CloseLoopsType DEF LoseRecord
  <2>2. StoreTypes' /\ ClientTypes'
    BY <2>1, <1>7, <1>0, SameTypes, FaultType DEF LoseRecord, StoreTypes
  <2>3. StreamTypes' BY <1>7, <1>0 DEF LoseRecord, StreamTypes, SnapTypes, PCs
  <2> QED BY <2>2, <2>3, TypesNext
<1>8. ASSUME Unwind(p) PROVE Types'
  <2>1. UNCHANGED <<issued, recorded, clientVars, pc, act, child, snap, worker, happened>>
        /\ frames[p] # << >>
    BY <1>8 DEF Unwind
  <2>2. frames[p] \in Seq(Frame) BY <1>0 DEF StreamTypes
  <2>3. CASE /\ DropHosts(Last(frames[p]).link, Last(frames[p]).child, {}, {})
             /\ frames' = [frames EXCEPT ![p][Len(frames[p])].open = FALSE]
    <3>1. StoreTypes' BY <2>1, <2>3, <1>0, DropHostsTypes DEF StoreTypes
    <3>2. Len(frames[p]) \in 1..Len(frames[p]) BY <2>1, <2>2
    <3>3. frames'[p] \in Seq(Frame)
      <4>1. PICK n : n = Len(frames[p]) OBVIOUS
      <4>2. frames'[p] = [frames[p] EXCEPT ![n].open = FALSE] BY <2>3, <4>1, <1>0 DEF StreamTypes
      <4>3. frames[p][n] \in Frame BY <2>2, <3>2, <4>1
      <4>4. [frames[p][n] EXCEPT !.open = FALSE] \in Frame BY <4>3 DEF Frame
      <4>5. frames[p] \in [1..n -> Frame] /\ n \in Nat /\ n \in 1..n BY <4>1, <3>2, <2>2
      <4>6. \A m \in 1..n : frames'[p][m] \in Frame BY <4>2, <4>4, <4>5
      <4>7. frames'[p] \in [1..n -> Frame] BY <4>2, <4>5, <4>6
      <4> QED BY <4>5, <4>7
    <3>4. frames' \in [Streams -> Seq(Frame)] BY <3>3, <2>3, <1>0 DEF StreamTypes
    <3>5. StreamTypes' /\ ClientTypes'
      BY <3>4, <2>1, <1>0, SameTypes DEF StreamTypes, SnapTypes, ClientTypes
    <3> QED BY <3>1, <3>5, TypesNext
  <2>4. CASE /\ CloseLoops({Last(frames[p]).loop}, "failed")
             /\ frames' = [frames EXCEPT ![p] = Front(@)]
             /\ UNCHANGED <<rows, claimed>>
    <3>1. StoreTypes' BY <2>1, <2>4, <1>0, CloseLoopsType DEF StoreTypes, Stored
    <3>2. Front(frames[p]) \in Seq(Frame) BY <2>1, <2>2 DEF Front
    <3>4. frames' \in [Streams -> Seq(Frame)] BY <3>2, <2>4, <1>0 DEF StreamTypes
    <3>5. StreamTypes' /\ ClientTypes'
      BY <3>4, <2>1, <1>0, SameTypes DEF StreamTypes, SnapTypes, ClientTypes
    <3> QED BY <3>1, <3>5, TypesNext
  <2> QED BY <2>3, <2>4, <1>8 DEF Unwind
<1>9. ASSUME Throw(p) PROVE Types'
  <2>1. ClientTypes' BY <1>9, <1>0, AbandonTypes, SameTypes DEF Throw, ClientTypes
  <2> QED BY <2>1, <1>9, <1>0, AbandonTypes, TypesNext DEF Throw
<1>10. ASSUME Stop(p) PROVE Types'
  <2>1. UNCHANGED clientVars BY <1>10, <1>0, AbandonTypes DEF Stop
  <2>2. ClientTypes' BY <2>1, <1>10, <1>0, SameTypes, FaultType DEF Stop
  <2>3. CASE AbandonWorker(p) BY <2>2, <2>3, <1>0, AbandonTypes, TypesNext
  <2>4. CASE Leave(p) /\ UNCHANGED storeVars
    <3>1. StoreTypes' BY <2>4, <1>0, SameTypes
    <3> QED BY <2>2, <2>4, <3>1, <1>0, LeaveTypes, TypesNext
  <2> QED BY <2>3, <2>4, <1>10 DEF Stop
<1> QED BY <1>1, <1>2, <1>3, <1>4, <1>5, <1>6, <1>7, <1>8, <1>9, <1>10

LEMMA MoveTypes ==
  ASSUME Inv, NEW p \in Streams, Move(p) PROVE Types'
<1>1. Types BY DEF Inv, Global
<1> QED BY <1>1, TurnTypes, SuspensionTypes, ResumeTypes DEF Move, Step, Faults

----------------------------------------------------------------------------
(* Steps that leave the checkpoints as they are.                           *)

LEMMA StillStep ==
  ASSUME Inv, NEW p \in Streams, Move(p), Still,
         pc'[p] \notin {"record", "link"},
         Bearing(p)' => Bearing(p) /\ act'[p].link = act[p].link /\ act'[p].top = act[p].top,
         worker'[p].releasing => worker[p].releasing /\ worker'[p].id = worker[p].id,
         Suspending(p)' => Suspending(p) /\ child'[p] = child[p],
         Passing(p) => /\ Passing(p)' /\ child'[p] = child[p] /\ act'[p].link = act[p].link
                       /\ worker'[p] = worker[p],
         pc[p] = "record" => act[p].link.loop \notin Running',
         Local(p)'
  PROVE  /\ Types' /\ Tokens' /\ Issued' /\ Singles' /\ Claims' /\ Above' /\ Told'
         /\ \A q \in Streams : Local(q)'
<1>1. Types' BY MoveTypes
<1>2. OnlyStream(p) /\ \A l \in Loops : status[l] # "none" =>
        status'[l] # "none" /\ (status'[l] = "running" => status[l] = "running")
  BY MoveOthers DEF Inv, Global
<1>3. Keeps /\ \A q \in Streams : SparesStream(q) => SparesRows(q)
  BY <1>2, StillKeeps
<1>4. \A q \in Streams : Local(q)'
  <2>1. ASSUME NEW q \in Streams \ {p} PROVE Local(q)'
    <3>1. SparesStream(q) BY <1>2 DEF OnlyStream
    <3> QED BY <3>1, <1>3, LocalKeeps
  <2> QED BY <2>1
<1>5. Issued' /\ Singles' /\ Claims' /\ Above' /\ Told'
  BY <1>2, StillGlobal
<1>6. Tokens'
  <2>1. Stored' = Stored /\ Hosts' = Hosts BY StillStored
  <2>2. \A k, z, ln, v : Held(k, z, ln, v)' => Held(k, z, ln, v)
    <3>1. \A i \in Stored' \ claimed' : i \in Stored \ claimed
             /\ rows'[i].link = rows[i].link /\ rows'[i].level = rows[i].level
      BY <2>1 DEF Still
    <3> QED BY <3>1, <1>2, TokensOf
  <2>3. \A q \in Streams : pc[q] = "record" /\ act[q].link.loop \in Running' => pc'[q] = "record"
    <3> SUFFICES ASSUME NEW q \in Streams, pc[q] = "record", act[q].link.loop \in Running'
                 PROVE  pc'[q] = "record"
      OBVIOUS
    <3>1. q # p OBVIOUS
    <3> QED BY <3>1, <1>2 DEF OnlyStream, SparesStream
  <2>4. \A h \in Stored \cap Stored' :
           rows'[h].loop = rows[h].loop /\ rows'[h].level = rows[h].level
    BY DEF Still
  <2>5. \A h \in Hosts \ Stored' : rows[h].loop \notin Running' BY <2>1 DEF Hosts
  <2> QED BY <2>2, <2>3, <2>4, <2>5, <1>3, TokensVanish
<1> QED BY <1>1, <1>4, <1>5, <1>6

LEMMA PlacesStep ==
  ASSUME Inv, NEW p \in Streams, Move(p), Still, UNCHANGED recorded,
         \A k \in Levels : Live(p, k)' => Live(p, k) /\ Cur(p, k)' = Cur(p, k),
         \A k \in Levels : Live(p, k)' /\ pc[p] = "turn" /\ k = Lvl(p) =>
           Done(Cur(p, k)) < MaxIterations \/ (pc'[p] = "turn" /\ k = Lvl(p)'),
         pc'[p] # "record",
         \A l \in Running \ Running' :
           \/ \E k \in Levels : Live(p, k) /\ l = Cur(p, k) /\ ~(Live(p, k)' /\ l = Cur(p, k)')
           \/ pc[p] = "record" /\ l = act[p].link.loop
  PROVE  PlaceOnce' /\ PlaceRuns' /\ NoneYet'
<1>2. OnlyStream(p) /\ \A l \in Loops : status[l] # "none" =>
        status'[l] # "none" /\ (status'[l] = "running" => status[l] = "running")
  BY MoveOthers DEF Inv, Global
<1>3. Hosts' = Hosts /\ rows' = rows BY StillStored DEF Still
<1>4. \A a, z, k, l : Place(a, z, k, l)' => Place(a, z, k, l)
  BY <1>2, <1>3, PlacesOf
<1>5. ASSUME NEW z, NEW k, NEW l, Place("live", z, k, l)', pc[z] = "turn", k = Lvl(z)
      PROVE  Done(l) < MaxIterations \/ (pc'[z] = "turn" /\ k = Lvl(z)')
  <2>1. z \in Streams /\ k \in Levels /\ Live(z, k)' /\ l = Cur(z, k)
    BY <1>4, <1>5 DEF Place
  <2>2. CASE z = p BY <2>1, <2>2, <1>5
  <2>3. CASE z # p BY <2>1, <2>3, <1>2, <1>5 DEF OnlyStream, SparesStream, Lvl
  <2> QED BY <2>2, <2>3
<1>6. ASSUME NEW l \in Running \ Running'
      PROVE  \E a, z, k : Place(a, z, k, l) /\ ~Place(a, z, k, l)'
  <2>1. CASE \E k \in Levels : Live(p, k) /\ l = Cur(p, k) /\ ~(Live(p, k)' /\ l = Cur(p, k)')
    <3>1. PICK k \in Levels : Live(p, k) /\ l = Cur(p, k) /\ ~(Live(p, k)' /\ l = Cur(p, k)')
      BY <2>1
    <3>2. Place("live", p, k, l) BY <3>1 DEF Place
    <3>3. ~Place("live", p, k, l)' BY <3>1 DEF Place
    <3> QED BY <3>2, <3>3
  <2>2. CASE pc[p] = "record" /\ l = act[p].link.loop
    <3>2. Place("record", p, 0, l) BY <2>2 DEF Place
    <3>3. ~Place("record", p, 0, l)' BY DEF Place
    <3> QED BY <3>2, <3>3
  <2> QED BY <1>6, <2>1, <2>2
<1>7. PlaceOnce' /\ PlaceRuns' BY <1>4, <1>5, <1>6, PlacesVanish
<1>8. NoneYet'
  <2>1. Unused' \subseteq Unused BY <1>2 DEF Unused
  <2> QED BY <2>1 DEF NoneYet, Inv, Global
<1> QED BY <1>7, <1>8

LEMMA InvNext ==
  ASSUME Types', PlaceOnce', PlaceRuns', Tokens', Issued', NoneYet', Singles', Claims', Above',
         Told', \A p \in Streams : Local(p)'
  PROVE  Inv'
  BY DEF Inv, Global

\* A stream that is over, or throwing, holds nothing.
Away(p) == pc[p] \in {"off", "throwing"}
LEMMA AwayParts ==
  ASSUME NEW p, Away(p)'
  PROVE  /\ ~Bearing(p)' /\ ~Suspending(p)' /\ ~Stacked(p)' /\ ~Closing(p)' /\ ~Passing(p)'
         /\ \A k : ~Live(p, k)'
         /\ pc'[p] \notin {"turn", "link", "record"}
  BY DEF Away, Bearing, Suspending, Stacked, Closing, Passing, Live, Asking

LEMMA AwayNext ==
  ASSUME NEW p, Away(p)', act'[p].link.host <= issued', WorkerOK(p)', FramesOver(p)'
  PROVE  Local(p)'
<1>1. /\ ~Bearing(p)' /\ ~Suspending(p)' /\ ~Stacked(p)' /\ ~Closing(p)'
      /\ pc'[p] \notin {"retarget", "save", "link", "claim", "inspect", "host", "record"}
  BY DEF Away, Bearing, Suspending, Stacked, Closing, Asking
<1>2. StackOK(p)' BY <1>1 DEF StackOK
<1>3. ChildOK(p)' /\ Chain(p)' BY <1>1 DEF ChildOK, Chain
<1>4. ClaimOK(p)' /\ Carried(p)' BY <1>1 DEF ClaimOK, Carried
<1>5. ClosingOK(p)' /\ Linking(p)' /\ Tip(p)' /\ Saving(p)'
  BY <1>1 DEF ClosingOK, Linking, Tip, Saving
<1> QED BY <1>2, <1>3, <1>4, <1>5 DEF Local

\* A stream that left.
LEMMA LeaveLocal ==
  ASSUME Inv, NEW p \in Streams, Leave(p), issued' \in Nat
  PROVE  /\ Local(p)' /\ Away(p)' /\ worker'[p] = NoWorker /\ pc'[p] = "off"
<1>1. /\ pc'[p] = "off" /\ act'[p] = NoAct /\ worker'[p] = NoWorker /\ frames'[p] = << >>
  BY DEF Leave, Inv, Global, Types, TypeOK
<1>2. Away(p)' BY <1>1 DEF Away
<1>3. act'[p].link.host = 0 BY <1>1 DEF NoAct, NoLink
<1>4. act'[p].link.host <= issued' BY <1>3
<1>5. WorkerOK(p)'
  <2>1. 0 \notin Stored' BY IdTypes DEF Stored
  <2> QED BY <1>1, <2>1 DEF WorkerOK, NoWorker
<1>6. FramesOver(p)' BY <1>1 DEF FramesOver
<1>7. Local(p)'
  <2> QED BY <1>2, <1>4, <1>5, <1>6, AwayNext
<1> QED BY <1>1, <1>2, <1>7

----------------------------------------------------------------------------
(* The steps of a turn.                                                    *)

InTurn(p) == pc[p] \in {"turn", "ended"}

LEMMA TurnParts ==
  ASSUME Inv, NEW p \in Streams, InTurn(p)
  PROVE  /\ Bearing(p) /\ Stacked(p) /\ ~Suspending(p) /\ ~Closing(p) /\ ~Passing(p)
         /\ act[p].top \in Levels /\ Lvl(p) \in Levels /\ act[p].top <= Lvl(p)
         /\ Cur(p, Depth) = 0
         /\ \A k \in Levels : act[p].top <= k /\ k < Lvl(p) =>
              Cur(p, k) = Open(p, k) /\ Cur(p, k) # 0 /\ Live(p, k)
         /\ \A k \in Levels : Cur(p, k) \in 0..MaxLoops
         /\ \A k \in Levels : Live(p, k) => act[p].top <= k /\ k <= Lvl(p) /\ Cur(p, k) # 0
<1>1. Bearing(p) /\ Stacked(p) /\ ~Suspending(p) /\ ~Closing(p) /\ ~Passing(p)
  BY DEF InTurn, Bearing, Stacked, Suspending, Closing, Passing, Asking
<1>2. StackOK(p) BY DEF Inv, Local
<1>3. /\ act[p].top \in Levels /\ Lvl(p) \in Levels /\ act[p].top <= Lvl(p)
      /\ Cur(p, Depth) = 0 /\ \A k \in Levels : Cur(p, k) \in 0..MaxLoops
  BY <1>1, <1>2, ActType DEF StackOK, Inv, Global
<1>4. \A k \in Levels : act[p].top <= k /\ k < Lvl(p) =>
        Cur(p, k) = Open(p, k) /\ Cur(p, k) # 0 /\ Live(p, k)
  BY <1>1, <1>2, <1>3 DEF StackOK, Live, Levels
<1>5. \A k \in Levels : Live(p, k) => act[p].top <= k /\ k <= Lvl(p) /\ Cur(p, k) # 0
  BY DEF Live
<1> QED BY <1>1, <1>3, <1>4, <1>5

\* A stream that goes on with its turn.
LEMMA TurnLocal ==
  ASSUME Inv, NEW p \in Streams, Still, InTurn(p), InTurn(p)',
         worker'[p] = worker[p], act'[p].link = act[p].link,
         StackOK(p)', FramesOver(p)'
  PROVE  Local(p)'
<1>1. Bearing(p) /\ ~Suspending(p)' /\ ~Closing(p)'
      /\ pc'[p] \notin {"retarget", "save", "link", "claim", "inspect", "host", "record", "off"}
  BY TurnParts DEF InTurn, Suspending, Closing, Asking
<1>2. WorkerOK(p)'
  <2>1. WorkerOK(p) BY DEF Inv, Local
  <2> QED BY <1>1, <2>1, StillStored DEF WorkerOK, Still
<1>3. ChildOK(p)' /\ Chain(p)' BY <1>1 DEF ChildOK, Chain
<1>4. ClaimOK(p)' BY <1>1 DEF ClaimOK
<1>5. Carried(p)'
  <2>1. Carried(p) BY DEF Inv, Local
  <2> QED BY <1>1, <2>1, StillStored DEF Carried, Still
<1>6. ClosingOK(p)' /\ Linking(p)' /\ Tip(p)' /\ Saving(p)'
  BY <1>1 DEF ClosingOK, Linking, Tip, Saving
<1> QED BY <1>2, <1>3, <1>4, <1>5, <1>6 DEF Local

LEMMA TurnStep ==
  ASSUME Inv, NEW p \in Streams, Move(p), Still, InTurn(p), InTurn(p)',
         worker'[p] = worker[p], act'[p].link = act[p].link, act'[p].top = act[p].top,
         StackOK(p)', FramesOver(p)', PlaceOnce', PlaceRuns', NoneYet'
  PROVE  Inv'
<1>1. Local(p)' BY TurnLocal
<1>2. /\ ~Suspending(p)' /\ ~Passing(p) /\ Bearing(p) /\ pc[p] # "record"
      /\ pc'[p] \notin {"record", "link"}
  BY TurnParts DEF InTurn, Suspending, Asking
<1>3. /\ Types' /\ Tokens' /\ Issued' /\ Singles' /\ Claims' /\ Above' /\ Told'
      /\ \A q \in Streams : Local(q)'
  BY <1>1, <1>2, StillStep
<1> QED BY <1>3, InvNext

\* The loops of the catch blocks of a stream.
LEMMA FramesNext ==
  ASSUME Inv, NEW p \in Streams, Move(p), frames'[p] = frames[p], worker'[p] = worker[p],
         pc'[p] \in {"off", "claim", "inspect"} => pc[p] \in {"off", "claim", "inspect"},
         \A l \in Running \cap Running' :
           Stacked(p) /\ Cur(p, act[p].top) = l /\ (pc[p] = "ended" => act[p].top < Lvl(p)) =>
             /\ Stacked(p)' /\ act'[p].cur[act'[p].top] = l
             /\ pc'[p] = "ended" => act'[p].top < act'[p].lvl
  PROVE  FramesOver(p)'
<1>1. ASSUME NEW n \in DOMAIN frames'[p]
      PROVE  LET f == frames'[p][n] IN
             /\ f.loop \in Loops /\ status'[f.loop] # "none" /\ f.child = worker'[p].id
             /\ f.loop \in Running' =>
                  n = Len(frames'[p]) /\ Stacked(p)' /\ act'[p].cur[act'[p].top] = f.loop
                  /\ (pc'[p] = "ended" => act'[p].top < act'[p].lvl)
  <2> DEFINE f == frames[p][n]
  <2>1. f.loop \in Loops /\ status[f.loop] # "none" /\ f.child = worker[p].id
        /\ (f.loop \in Running => n = Len(frames[p]) /\ Stacked(p) /\ Cur(p, act[p].top) = f.loop
              /\ (pc[p] = "ended" => act[p].top < Lvl(p)))
    BY DEF Inv, Local, FramesOver
  <2>2. status'[f.loop] # "none" /\ (f.loop \in Running' => f.loop \in Running)
    BY <2>1, MoveOthers DEF Running, Inv, Global
  <2>3. f = frames'[p][n] OBVIOUS
  <2> HIDE DEF f
  <2> QED BY <2>1, <2>2, <2>3
<1>2. pc'[p] \in {"off", "claim", "inspect"} => frames'[p] = << >>
  BY DEF Inv, Local, FramesOver
<1> QED BY <1>1, <1>2 DEF FramesOver, Cur, Lvl

LEMMA OnlyPlace ==
  ASSUME Inv, NEW p \in Streams, NEW k \in Levels, Live(p, k)
  PROVE  /\ Cur(p, k) \in Running
         /\ \A a, z, j : Place(a, z, j, Cur(p, k)) => a = "live" /\ z = p /\ j = k
<1>1. Place("live", p, k, Cur(p, k)) BY DEF Place
<1> QED BY <1>1 DEF Inv, Global, PlaceOnce, PlaceRuns

LEMMA StartLoopKeeps ==
  ASSUME Inv, NEW p \in Streams, NEW k \in Levels, StartLoop(p, k), Move(p), MaxIterations > 0
  PROVE  Inv'
<1>1. PICK l \in Unused :
        /\ status' = [status EXCEPT ![l] = "running"]
        /\ act' = [act EXCEPT ![p] = Descend([@ EXCEPT !.cur[k] = l, !.mine[k] = TRUE], k)]
  BY DEF StartLoop
<1>2. /\ pc[p] = "turn" /\ k = Lvl(p) /\ k < Depth /\ Cur(p, k) = 0
      /\ UNCHANGED <<rows, claimed, issued, recorded, clientVars, pc, child, snap,
                     frames, worker, happened>>
  BY DEF StartLoop, Calling, MayCall
<1>3. Still /\ InTurn(p) /\ InTurn(p)' BY <1>2 DEF Still, clientVars, InTurn
<1>4. OnlyStream(p) BY MoveOthers DEF Inv, Global
<1>5. /\ act'[p].lvl = k + 1 /\ act'[p].top = act[p].top /\ act'[p].link = act[p].link
      /\ \A j \in Levels : act'[p].cur[j] = IF j = k + 1 THEN 0 ELSE IF j = k THEN l ELSE Cur(p, j)
      /\ \A j \in Levels : act'[p].open[j] = IF j = k + 1 THEN 0 ELSE IF j = k THEN l ELSE Open(p, j)
  <2>1. act[p] \in Activation /\ k + 1 \in Levels
    BY <1>2, ActType, SizeAssumption DEF Levels, Inv, Global
  <2>2. act'[p] = Descend([act[p] EXCEPT !.cur[k] = l, !.mine[k] = TRUE], k)
    BY <1>1 DEF Inv, Global, Types, TypeOK
  <2> QED BY <2>1, <2>2 DEF Descend, Activation, Cur, Open
<1>6. l \in Loops /\ status[l] = "none" /\ l # 0 /\ l \notin Running
      /\ Running' = Running \cup {l} /\ Unused' = Unused \ {l}
  BY <1>1, IdTypes DEF Unused, Running, Inv, Global, Types, TypeOK
<1>7. Depth \in Levels /\ Levels \subseteq Nat /\ k + 1 \in Levels
  BY <1>2, SizeAssumption DEF Levels
<1>8. StackOK(p)'
  <2>1. act[p].link.host <= issued BY DEF Inv, Local, StackOK
  <2>2. Cur(p, Depth)' = 0
    BY <1>2, <1>3, <1>5, <1>7, TurnParts DEF Cur
  <2>3. \A j \in Levels : act'[p].top <= j /\ j < act'[p].lvl =>
          act'[p].cur[j] = act'[p].open[j] /\ act'[p].cur[j] # 0
    BY <1>2, <1>3, <1>5, <1>6, <1>7, TurnParts
  <2>4. act'[p].top <= act'[p].lvl BY <1>2, <1>3, <1>5, <1>7, TurnParts
  <2> QED BY <2>1, <2>2, <2>3, <2>4, <1>2, <1>5 DEF StackOK, Asking, Lvl, Cur, Open
<1>9. FramesOver(p)'
  <2> SUFFICES ASSUME NEW m \in Running \cap Running', Cur(p, act[p].top) = m
               PROVE  act'[p].cur[act'[p].top] = m
    BY <1>2, <1>3, FramesNext DEF Stacked, InTurn
  <2>1. m # 0 BY IdTypes DEF Running
  <2>2. act[p].top # k /\ act[p].top # k + 1
    BY <2>1, <1>2, <1>3, <1>7, TurnParts
  <2> QED BY <2>2, <1>5, <1>3, TurnParts
<1>10. NoneYet' BY <1>2, <1>6 DEF NoneYet, Inv, Global
<1>11. ASSUME NEW a, NEW z, NEW j, NEW m, Place(a, z, j, m)'
       PROVE  \/ Place(a, z, j, m) /\ m # l /\ ~(a = "live" /\ z = p /\ j = Lvl(p))
              \/ a = "live" /\ z = p /\ j = k /\ m = l
  <2>1. CASE a = "live" /\ z = p
    <3>1. j \in Levels /\ Live(p, j)' /\ m = act'[p].cur[j] BY <1>11, <2>1 DEF Place, Cur
    <3>2. j <= k + 1 /\ act[p].top <= j /\ m # 0 BY <3>1, <1>5 DEF Live, Lvl, Cur
    <3>3. CASE j = k BY <3>1, <3>3, <1>5, <1>7, <2>1
    <3>4. CASE j # k
      <4>1. j < k /\ m = Cur(p, j) BY <3>1, <3>2, <3>4, <1>5, <1>7
      <4>2. Live(p, j) BY <4>1, <3>1, <3>2, <1>2, <1>3, TurnParts
      <4>3. Place(a, z, j, m) BY <4>1, <4>2, <3>1, <2>1 DEF Place
      <4>4. m # l BY <4>3, <1>6 DEF Inv, Global, PlaceRuns
      <4> QED BY <4>1, <4>3, <4>4, <1>2, <1>7
    <3> QED BY <3>3, <3>4
  <2>2. CASE a = "live" /\ z # p
    <3>1. z \in Streams /\ SparesStream(z) BY <2>2, <1>11, <1>4 DEF Place, OnlyStream
    <3>2. Place(a, z, j, m)
      BY <2>2, <1>11, <3>1, MinePrime DEF Place, Live, SparesStream
    <3>3. m # l BY <3>2, <1>6 DEF Inv, Global, PlaceRuns
    <3> QED BY <3>2, <3>3, <2>2
  <2>3. CASE a # "live"
    <3>1. Place(a, z, j, m)
      <4>1. CASE a = "host" BY <4>1, <1>11, <1>3, StillStored DEF Place, Still
      <4>2. CASE a = "record"
        <5>1. z \in Streams /\ j = 0 /\ pc[z] = "record" /\ m = act'[z].link.loop
          BY <4>2, <1>11, <1>2 DEF Place
        <5>2. z # p BY <5>1, <1>2
        <5>3. act'[z] = act[z] BY <5>1, <5>2, <1>4 DEF OnlyStream, SparesStream
        <5> QED BY <4>2, <5>1, <5>3 DEF Place
      <4> QED BY <4>1, <4>2, <2>3, <1>11 DEF Place
    <3>3. m # l BY <3>1, <1>6 DEF Inv, Global, PlaceRuns
    <3> QED BY <3>1, <3>3, <2>3
  <2> QED BY <2>1, <2>2, <2>3
<1>12. PlaceOnce'
  <2> SUFFICES ASSUME NEW a, NEW z, NEW i, NEW m, NEW b, NEW y, NEW j,
                      Place(a, z, i, m)', Place(b, y, j, m)'
               PROVE  a = b /\ z = y /\ i = j
    BY DEF PlaceOnce
  <2> QED BY <1>11 DEF Inv, Global, PlaceOnce
<1>13. PlaceRuns'
  <2> SUFFICES ASSUME NEW a, NEW z, NEW j, NEW m, Place(a, z, j, m)'
               PROVE  m \in Running' /\ (Done(m)' < MaxIterations
                        \/ (a = "live" /\ pc'[z] = "turn" /\ j = Lvl(z)'))
    BY DEF PlaceRuns
  <2>0. recorded' = recorded /\ pc' = pc BY <1>2
  <2>1. CASE Place(a, z, j, m) /\ m # l /\ ~(a = "live" /\ z = p /\ j = Lvl(p))
    <3>1. m \in Running /\ (Done(m) < MaxIterations \/ (a = "live" /\ pc[z] = "turn" /\ j = Lvl(z)))
      BY <2>1 DEF Inv, Global, PlaceRuns
    <3>2. a = "live" /\ z # p => Lvl(z)' = Lvl(z)
      BY <2>1, <1>4, MinePrime DEF Place, OnlyStream
    <3> QED BY <3>1, <3>2, <2>0, <2>1, <1>6 DEF Done
  <2>2. CASE m = l
    <3>1. recorded'[l] = << >> BY <1>1, <2>0 DEF Inv, Global, NoneYet
    <3>2. Done(m)' = 0 BY <3>1, <2>2 DEF Done
    <3> QED BY <3>2, <2>2, <1>6
  <2> QED BY <2>1, <2>2, <1>11
<1> QED BY <1>2, <1>3, <1>5, <1>8, <1>9, <1>10, <1>12, <1>13, TurnStep

LEMMA IterateLoopKeeps ==
  ASSUME Inv, NEW p \in Streams, NEW k \in Levels, IterateLoop(p, k), Move(p)
  PROVE  Inv'
<1>1. /\ pc[p] = "turn" /\ k = Lvl(p) /\ k < Depth /\ Cur(p, k) # 0
      /\ Done(Cur(p, k)) < MaxIterations
      /\ act' = [act EXCEPT ![p] = Descend(@, k)]
      /\ UNCHANGED <<storeVars, clientVars, pc, child, snap, frames, worker, happened>>
  BY DEF IterateLoop, Calling, MayCall
<1>2. Still /\ InTurn(p) /\ InTurn(p)' /\ UNCHANGED <<status, recorded>>
  BY <1>1 DEF Still, storeVars, clientVars, InTurn
<1>3. Depth \in Levels /\ Levels \subseteq Nat /\ k + 1 \in Levels
  BY <1>1, SizeAssumption DEF Levels
<1>4. /\ act'[p].lvl = k + 1 /\ act'[p].top = act[p].top /\ act'[p].link = act[p].link
      /\ \A j \in Levels : act'[p].cur[j] = IF j = k + 1 THEN 0 ELSE Cur(p, j)
      /\ \A j \in Levels :
           act'[p].open[j] = IF j = k + 1 THEN 0 ELSE IF j = k THEN Cur(p, k) ELSE Open(p, j)
  <2>1. act[p] \in Activation BY ActType DEF Inv, Global
  <2>2. act'[p] = Descend(act[p], k) BY <1>1 DEF Inv, Global, Types, TypeOK
  <2> QED BY <2>1, <2>2, <1>3 DEF Descend, Activation, Cur, Open
<1>5. StackOK(p)'
  <2>1. act[p].link.host <= issued BY DEF Inv, Local, StackOK
  <2>2. act'[p].cur[Depth] = 0 BY <1>1, <1>2, <1>3, <1>4, TurnParts
  <2>3. \A j \in Levels : act'[p].top <= j /\ j < act'[p].lvl =>
          act'[p].cur[j] = act'[p].open[j] /\ act'[p].cur[j] # 0
    BY <1>1, <1>2, <1>3, <1>4, TurnParts
  <2>4. act'[p].top <= act'[p].lvl
    <3>1. act[p].top \in Levels /\ act[p].top <= k BY <1>1, <1>2, TurnParts
    <3>2. act[p].top \in Nat /\ k \in Nat BY <3>1, <1>3
    <3>3. act[p].top <= k + 1 BY <3>1, <3>2
    <3> QED BY <3>3, <1>4
  <2> QED BY <2>1, <2>2, <2>3, <2>4, <1>1, <1>2, <1>4 DEF StackOK, Asking, Lvl, Cur, Open, Still
<1>6. FramesOver(p)'
  <2> SUFFICES ASSUME NEW m \in Running \cap Running', Cur(p, act[p].top) = m
               PROVE  act'[p].cur[act'[p].top] = m
    BY <1>1, <1>2, FramesNext DEF Stacked, InTurn
  <2>2. act[p].top # k + 1 BY <1>1, <1>2, <1>3, TurnParts
  <2> QED BY <2>2, <1>4, <1>2, TurnParts
<1>7. ASSUME NEW j \in Levels, Live(p, j)'
      PROVE  Live(p, j) /\ Cur(p, j)' = Cur(p, j)
             /\ (j = Lvl(p) => Done(Cur(p, j)) < MaxIterations)
  <2>1. act[p].top <= j /\ j <= k /\ act'[p].cur[j] = Cur(p, j) /\ Cur(p, j) # 0
    BY <1>3, <1>4, <1>7 DEF Live, Lvl, Cur
  <2> QED BY <2>1, <1>1 DEF Live, Cur
<1>8. PlaceOnce' /\ PlaceRuns' /\ NoneYet'
  <2>1. Running \ Running' = {} BY <1>2 DEF Running
  <2>2. pc'[p] # "record" BY <1>1
  <2> QED BY <2>1, <2>2, <1>2, <1>7, PlacesStep
<1> QED BY <1>1, <1>2, <1>4, <1>5, <1>6, <1>8, TurnStep

LEMMA CloseLoopKeeps ==
  ASSUME Inv, NEW p \in Streams, NEW k \in Levels, CloseLoop(p, k), Move(p)
  PROVE  Inv'
<1>1. /\ pc[p] = "turn" /\ k = Lvl(p) /\ k < Depth /\ Cur(p, k) # 0
      /\ act' = [act EXCEPT ![p].cur[k] = 0]
      /\ UNCHANGED <<rows, claimed, issued, recorded, clientVars, pc, child, snap,
                     frames, worker, happened>>
  BY DEF CloseLoop, Calling, MayCall
<1>2. Still /\ InTurn(p) /\ InTurn(p)' /\ UNCHANGED recorded
  BY <1>1 DEF Still, clientVars, InTurn
<1>3. Depth \in Levels /\ Levels \subseteq Nat BY SizeAssumption DEF Levels
<1>4. /\ act'[p].lvl = k /\ act'[p].top = act[p].top /\ act'[p].link = act[p].link
      /\ \A j \in Levels : act'[p].cur[j] = IF j = k THEN 0 ELSE Cur(p, j)
      /\ \A j \in Levels : act'[p].open[j] = Open(p, j)
  <2>1. act[p] \in Activation /\ act \in [Streams -> Activation]
    BY DEF Inv, Global, Types, TypeOK
  <2> QED BY <2>1, <1>1 DEF Activation, Cur, Open, Lvl
<1>5. StackOK(p)'
  <2>1. act[p].link.host <= issued BY DEF Inv, Local, StackOK
  <2>2. act'[p].cur[Depth] = 0 BY <1>1, <1>2, <1>3, <1>4, TurnParts
  <2>3. \A j \in Levels : act'[p].top <= j /\ j < act'[p].lvl =>
          act'[p].cur[j] = act'[p].open[j] /\ act'[p].cur[j] # 0
    BY <1>1, <1>2, <1>3, <1>4, TurnParts
  <2>4. act'[p].top <= act'[p].lvl BY <1>1, <1>2, <1>3, <1>4, TurnParts
  <2> QED BY <2>1, <2>2, <2>3, <2>4, <1>1, <1>2, <1>4 DEF StackOK, Asking, Lvl, Cur, Open, Still
<1>6. Live(p, k) /\ Cur(p, k) \in Running /\ Cur(p, k) \notin Running'
      /\ Running \ Running' \subseteq {Cur(p, k)}
  <2>1. Live(p, k)
    <3>1. act[p].top <= k /\ k <= k BY <1>1, <1>2, <1>3, TurnParts
    <3> QED BY <3>1, <1>1 DEF Live
  <2>2. Cur(p, k) \in Running BY <2>1, OnlyPlace
  <2>3. PICK how \in {"completed", "exhausted"} : status' = [status EXCEPT ![Cur(p, k)] = how]
    BY DEF CloseLoop
  <2>4. DOMAIN status = Loops BY DEF Inv, Global, Types, TypeOK
  <2> QED BY <2>1, <2>2, <2>3, <2>4 DEF Running
<1>7. FramesOver(p)'
  <2> SUFFICES ASSUME NEW m \in Running \cap Running', Cur(p, act[p].top) = m
               PROVE  act'[p].cur[act'[p].top] = m
    BY <1>1, <1>2, FramesNext DEF Stacked, InTurn
  <2>2. act[p].top # k BY <1>6
  <2> QED BY <2>2, <1>4, <1>2, TurnParts
<1>8. ASSUME NEW j \in Levels, Live(p, j)'
      PROVE  Live(p, j) /\ Cur(p, j)' = Cur(p, j) /\ j # k
  <2>1. j # k /\ act'[p].cur[j] = Cur(p, j) BY <1>4, <1>8 DEF Live, Cur
  <2> QED BY <2>1, <1>8, <1>1, <1>4 DEF Live, Cur, Lvl
<1>9. PlaceOnce' /\ PlaceRuns' /\ NoneYet'
  <2>1. \A j \in Levels : Live(p, j)' => Live(p, j) /\ Cur(p, j)' = Cur(p, j) /\ j # Lvl(p)
    BY <1>1, <1>8
  <2>2. pc'[p] # "record" BY <1>1
  <2>3. \A l \in Running \ Running' :
          \E j \in Levels : Live(p, j) /\ l = Cur(p, j) /\ ~(Live(p, j)' /\ l = Cur(p, j)')
    BY <1>6, <1>8
  <2> QED BY <2>1, <2>2, <2>3, <1>2, PlacesStep
<1> QED BY <1>1, <1>2, <1>4, <1>5, <1>7, <1>9, TurnStep

\* The run at the level a stream is at is over: its loop is closed.
LEMMA FinalizeCloses ==
  ASSUME Inv, NEW p \in Streams, pc[p] = "turn", NEW how \in {"completed", "failed"},
         Finalize(p, Lvl(p), how)
  PROVE  /\ Cur(p, Lvl(p)) \notin Running'
         /\ \A l \in Running \ Running' : Live(p, Lvl(p)) /\ l = Cur(p, Lvl(p))
<1>1. DOMAIN status = Loops /\ 0 \notin Loops BY IdTypes DEF Inv, Global, Types, TypeOK
<1>2. CASE Cur(p, Lvl(p)) = 0 BY <1>1, <1>2 DEF Finalize, Running
<1>3. CASE Cur(p, Lvl(p)) # 0
  <2>1. InTurn(p) BY DEF InTurn
  <2>2. Live(p, Lvl(p))
    <3>1. act[p].top <= Lvl(p) /\ Lvl(p) <= Lvl(p) BY <2>1, TurnParts DEF Levels
    <3> QED BY <3>1, <1>3 DEF Live
  <2>3. status' = [status EXCEPT ![Cur(p, Lvl(p))] = how] BY <1>3 DEF Finalize
  <2> QED BY <2>2, <2>3, <1>1 DEF Running
<1> QED BY <1>2, <1>3

LEMMA EndRunKeeps ==
  ASSUME Inv, NEW p \in Streams, EndRun(p), Move(p)
  PROVE  Inv'
<1>1. /\ pc[p] = "turn" /\ pc'[p] = "ended" /\ Finalize(p, Lvl(p), "completed")
      /\ UNCHANGED <<rows, claimed, issued, recorded, clientVars, act, child, snap, frames,
                     worker, happened>>
  BY DEF EndRun, Inv, Global, Types, TypeOK
<1>2. Still /\ InTurn(p) /\ InTurn(p)' /\ UNCHANGED recorded
  BY <1>1 DEF Still, clientVars, InTurn
<1>3. Cur(p, Lvl(p)) \notin Running'
      /\ \A l \in Running \ Running' : Live(p, Lvl(p)) /\ l = Cur(p, Lvl(p))
  BY <1>1, FinalizeCloses
<1>4. StackOK(p)'
  <2>1. StackOK(p) BY DEF Inv, Local
  <2> QED BY <2>1, <1>1, <1>2 DEF StackOK, Stacked, Suspending, Asking, Lvl, Cur, Open, Still
<1>5. FramesOver(p)'
  <2> SUFFICES ASSUME NEW m \in Running \cap Running', Cur(p, act[p].top) = m
               PROVE  act[p].top < Lvl(p)
    BY <1>1, <1>2, FramesNext DEF Stacked, InTurn, Cur, Lvl
  <2>1. act[p].top # Lvl(p) BY <1>3
  <2> QED BY <2>1, <1>2, TurnParts DEF Levels
<1>6. \A j \in Levels : Live(p, j)' => Live(p, j) /\ Cur(p, j)' = Cur(p, j) /\ j # Lvl(p)
  BY <1>1 DEF Live, Stacked, Suspending, Asking, Lvl, Cur, Levels
<1>7. PlaceOnce' /\ PlaceRuns' /\ NoneYet'
  <2>1. Lvl(p) \in Levels BY <1>2, TurnParts
  <2>2. pc'[p] # "record" BY <1>1
  <2>3. \A l \in Running \ Running' :
          \E j \in Levels : Live(p, j) /\ l = Cur(p, j) /\ ~(Live(p, j)' /\ l = Cur(p, j)')
    BY <1>3, <1>6, <2>1
  <2> QED BY <2>2, <2>3, <1>2, <1>6, PlacesStep
<1> QED BY <1>1, <1>2, <1>4, <1>5, <1>7, TurnStep

LEMMA NextStepKeeps ==
  ASSUME Inv, NEW p \in Streams, NextStep(p), Move(p)
  PROVE  Inv'
<1> DEFINE k == Lvl(p)
<1>1. /\ pc[p] = "ended" /\ pc'[p] = "turn"
      /\ act' = [act EXCEPT ![p].step[k] = @ + 1, ![p].cur[k] = 0, ![p].mine[k] = FALSE]
      /\ UNCHANGED <<storeVars, clientVars, child, snap, frames, worker, happened>>
  BY DEF NextStep, Inv, Global, Types, TypeOK
<1>2. Still /\ InTurn(p) /\ InTurn(p)' /\ UNCHANGED <<status, recorded>>
  BY <1>1 DEF Still, storeVars, clientVars, InTurn
<1>3. Depth \in Levels /\ Levels \subseteq Nat /\ k \in Levels
  BY <1>2, TurnParts, SizeAssumption DEF Levels
<1>33. act[p].top \in Levels /\ act[p].top <= k /\ act[p].top \in Nat /\ k \in Nat
  BY <1>2, <1>3, TurnParts
<1>4. /\ act'[p].lvl = k /\ act'[p].top = act[p].top /\ act'[p].link = act[p].link
      /\ \A j \in Levels : act'[p].cur[j] = IF j = k THEN 0 ELSE Cur(p, j)
      /\ \A j \in Levels : act'[p].open[j] = Open(p, j)
  <2>1. act[p] \in Activation /\ act \in [Streams -> Activation]
    BY DEF Inv, Global, Types, TypeOK
  <2> QED BY <2>1, <1>1, <1>3 DEF Activation, Cur, Open, Lvl
<1> HIDE DEF k
<1>5. StackOK(p)'
  <2>1. act[p].link.host <= issued BY DEF Inv, Local, StackOK
  <2>2. act'[p].cur[Depth] = 0 BY <1>1, <1>2, <1>3, <1>4, TurnParts
  <2>3. \A j \in Levels : act'[p].top <= j /\ j < act'[p].lvl =>
          act'[p].cur[j] = act'[p].open[j] /\ act'[p].cur[j] # 0
    <3> SUFFICES ASSUME NEW j \in Levels, act[p].top <= j, j < k
                 PROVE  act'[p].cur[j] = act'[p].open[j] /\ act'[p].cur[j] # 0
      BY <1>4
    <3>1. Cur(p, j) = Open(p, j) /\ Cur(p, j) # 0 BY <1>2, TurnParts DEF k
    <3>2. j # k BY <1>3
    <3> QED BY <3>1, <3>2, <1>4
  <2>4. act'[p].top <= act'[p].lvl BY <1>4, <1>33
  <2> QED BY <2>1, <2>2, <2>3, <2>4, <1>1, <1>2, <1>4 DEF StackOK, Asking, Lvl, Cur, Open, Still
<1>7. FramesOver(p)'
  <2> SUFFICES ASSUME NEW m \in Running \cap Running', Cur(p, act[p].top) = m,
                      act[p].top < Lvl(p)
               PROVE  act'[p].cur[act'[p].top] = m
    BY <1>1, <1>2, FramesNext DEF Stacked, InTurn
  <2>2. act[p].top # k
    <3>1. act[p].top < k BY DEF k
    <3> QED BY <3>1, <1>33
  <2> QED BY <2>2, <1>4, <1>33
<1>8. \A j \in Levels : Live(p, j)' => Live(p, j) /\ Cur(p, j)' = Cur(p, j) /\ j # Lvl(p)
  <2> SUFFICES ASSUME NEW j \in Levels, Live(p, j)'
               PROVE  Live(p, j) /\ Cur(p, j)' = Cur(p, j) /\ j # k
    BY DEF k
  <2>1. j # k /\ act'[p].cur[j] = Cur(p, j) BY <1>4 DEF Live, Cur
  <2>2. act[p].top <= j /\ j < k BY <2>1, <1>3, <1>4 DEF Live, Lvl
  <2>3. Live(p, j) BY <2>2, <1>2, TurnParts DEF k
  <2> QED BY <2>1, <2>3 DEF Cur
<1>9. PlaceOnce' /\ PlaceRuns' /\ NoneYet'
  <2>1. Running \ Running' = {} BY <1>2 DEF Running
  <2>2. pc'[p] # "record" BY <1>1
  <2> QED BY <2>1, <2>2, <1>2, <1>8, PlacesStep
<1> QED BY <1>1, <1>2, <1>4, <1>5, <1>7, <1>9, TurnStep

\* A stream that stops or throws.
LEMMA AwayStep ==
  ASSUME Inv, NEW p \in Streams, Move(p), Still, UNCHANGED recorded, Away(p)', ~Passing(p),
         worker'[p] \in {worker[p], NoWorker}, Local(p)',
         pc[p] = "record" => act[p].link.loop \notin Running',
         \A l \in Running \ Running' :
           \/ \E k \in Levels : Live(p, k) /\ l = Cur(p, k)
           \/ pc[p] = "record" /\ l = act[p].link.loop
  PROVE  Inv'
<1>1. /\ ~Bearing(p)' /\ ~Suspending(p)' /\ pc'[p] \notin {"record", "link"}
      /\ \A k : ~Live(p, k)'
  BY AwayParts
<1>2. worker'[p].releasing => worker[p].releasing /\ worker'[p].id = worker[p].id
  BY DEF NoWorker
<1>3. /\ Types' /\ Tokens' /\ Issued' /\ Singles' /\ Claims' /\ Above' /\ Told'
      /\ \A q \in Streams : Local(q)'
  BY <1>1, <1>2, StillStep
<1>4. PlaceOnce' /\ PlaceRuns' /\ NoneYet' BY <1>1, PlacesStep
<1> QED BY <1>3, <1>4, InvNext

LEMMA ThrowLocal ==
  ASSUME Inv, NEW p \in Streams, Move(p), Still, pc[p] # "off", pc'[p] = "throwing",
         act'[p] = act[p], worker'[p] = worker[p], frames'[p] = frames[p],
         \A l \in Running \cap Running' :
           ~(Stacked(p) /\ Cur(p, act[p].top) = l /\ (pc[p] = "ended" => act[p].top < Lvl(p)))
  PROVE  Local(p)' /\ Away(p)'
<1>1. Away(p)' BY DEF Away
<1>2. act'[p].link.host <= issued' BY DEF Still, Inv, Local, StackOK
<1>3. WorkerOK(p)'
  <2>1. WorkerOK(p) BY DEF Inv, Local
  <2> QED BY <2>1, StillStored DEF WorkerOK, Still
<1>4. FramesOver(p)' BY FramesNext
<1> QED BY <1>1, <1>2, <1>3, <1>4, AwayNext

LEMMA LeaveStep ==
  ASSUME Inv, NEW p \in Streams, Move(p), Leave(p), ~Passing(p), pc[p] # "record",
         UNCHANGED <<rows, claimed, issued, status, recorded, announced>>
  PROVE  Inv'
<1>1. Still BY DEF Still
<1>2. issued' \in Nat BY SizeAssumption DEF Inv, Global, Types, TypeOK
<1>3. Local(p)' /\ Away(p)' /\ worker'[p] = NoWorker BY <1>2, LeaveLocal
<1>4. Running' = Running BY DEF Running
<1> QED BY <1>1, <1>3, <1>4, AwayStep

LEMMA FinalizeIterationKeeps ==
  ASSUME Inv, NEW p \in Streams, FinalizeIteration(p), Move(p)
  PROVE  Inv'
<1> DEFINE k == Lvl(p)
           l == Open(p, k - 1)
<1>1. /\ pc[p] = "ended" /\ pc'[p] = "turn" /\ k > act[p].top
      /\ recorded' = [recorded EXCEPT ![l] = Append(@, Len(@) + 1)]
      /\ act' = [act EXCEPT ![p].lvl = k - 1, ![p].open[k - 1] = 0]
      /\ UNCHANGED <<rows, claimed, issued, status, clientVars, child, snap, frames, worker,
                     happened>>
  BY DEF FinalizeIteration, Inv, Global, Types, TypeOK
<1>2. Still /\ InTurn(p) /\ InTurn(p)' BY <1>1 DEF Still, clientVars, InTurn
<1>3. /\ Depth \in Levels /\ Levels \subseteq Nat /\ k \in Levels /\ act[p].top \in Levels
      /\ k - 1 \in Levels /\ act[p].top <= k - 1 /\ k - 1 < k /\ k \in Nat
  <2>1. /\ k \in Levels /\ act[p].top \in Levels BY <1>2, TurnParts
  <2> HIDE DEF k
  <2> QED BY <1>1, <2>1, SizeAssumption DEF Levels
<1>4. /\ act'[p].lvl = k - 1 /\ act'[p].top = act[p].top /\ act'[p].link = act[p].link
      /\ \A j \in Levels : act'[p].cur[j] = Cur(p, j)
      /\ \A j \in Levels : act'[p].open[j] = IF j = k - 1 THEN 0 ELSE Open(p, j)
  <2>1. act[p] \in Activation /\ act \in [Streams -> Activation]
    BY DEF Inv, Global, Types, TypeOK
  <2> HIDE DEF k
  <2> QED BY <2>1, <1>1, <1>3 DEF Activation, Cur, Open
<1>5. /\ Live(p, k - 1) /\ Cur(p, k - 1) = l
      /\ \A j \in Levels : act[p].top <= j /\ j < k =>
           Cur(p, j) = Open(p, j) /\ Cur(p, j) # 0 /\ Live(p, j)
      /\ Cur(p, Depth) = 0
  BY <1>2, <1>3, TurnParts
<1>6. l \in Running /\ \A a, z, j : Place(a, z, j, l) => a = "live" /\ z = p /\ j = k - 1
  BY <1>3, <1>5, OnlyPlace
<1> HIDE DEF k, l
<1>7. StackOK(p)'
  <2>1. act[p].link.host <= issued BY DEF Inv, Local, StackOK
  <2>3. \A j \in Levels : act'[p].top <= j /\ j < act'[p].lvl =>
          act'[p].cur[j] = act'[p].open[j] /\ act'[p].cur[j] # 0
    <3> SUFFICES ASSUME NEW j \in Levels, act[p].top <= j, j < k - 1
                 PROVE  act'[p].cur[j] = act'[p].open[j] /\ act'[p].cur[j] # 0
      BY <1>4
    <3>1. j < k /\ j # k - 1 BY <1>3
    <3> QED BY <3>1, <1>4, <1>5
  <2> QED BY <2>1, <2>3, <1>1, <1>2, <1>3, <1>4, <1>5 DEF StackOK, Asking, Lvl, Cur, Open, Still
<1>8. FramesOver(p)'
  <2> SUFFICES ASSUME NEW m \in Running \cap Running', Cur(p, act[p].top) = m
               PROVE  act'[p].cur[act'[p].top] = m
    BY <1>1, <1>2, FramesNext DEF Stacked, InTurn
  <2> QED BY <1>3, <1>4
<1>9. \A j \in Levels : Live(p, j)' => Live(p, j) /\ Cur(p, j)' = Cur(p, j)
  <2> SUFFICES ASSUME NEW j \in Levels, Live(p, j)'
               PROVE  Live(p, j) /\ Cur(p, j)' = Cur(p, j)
    OBVIOUS
  <2>1. act[p].top <= j /\ j <= k - 1 BY <1>4 DEF Live, Lvl
  <2>2. j < k BY <2>1, <1>3
  <2> QED BY <2>1, <2>2, <1>4, <1>5 DEF Cur
<1>10. OnlyStream(p) BY MoveOthers DEF Inv, Global
<1>11. \A a, z, j, m : Place(a, z, j, m)' => Place(a, z, j, m)
  <2>1. Hosts' = Hosts /\ rows' = rows BY <1>2, StillStored DEF Still
  <2> QED BY <2>1, <1>1, <1>9, <1>10, PlacesOf
<1>12. PlaceOnce'
  <2> SUFFICES ASSUME NEW a, NEW z, NEW i, NEW m, NEW b, NEW y, NEW j,
                      Place(a, z, i, m)', Place(b, y, j, m)'
               PROVE  a = b /\ z = y /\ i = j
    BY DEF PlaceOnce
  <2>1. Place(a, z, i, m) /\ Place(b, y, j, m) BY <1>11
  <2> QED BY <2>1 DEF Inv, Global, PlaceOnce
<1>13. PlaceRuns'
  <2> SUFFICES ASSUME NEW a, NEW z, NEW j, NEW m, Place(a, z, j, m)'
               PROVE  m \in Running' /\ (Done(m)' < MaxIterations
                        \/ (a = "live" /\ pc'[z] = "turn" /\ j = Lvl(z)'))
    BY DEF PlaceRuns
  <2>1. Place(a, z, j, m) BY <1>11
  <2>2. m \in Running /\ (Done(m) < MaxIterations \/ (a = "live" /\ pc[z] = "turn" /\ j = Lvl(z)))
    BY <2>1 DEF Inv, Global, PlaceRuns
  <2>3. m \in Running' BY <2>2, <1>1 DEF Running
  <2>4. CASE m = l
    <3>1. a = "live" /\ z = p /\ j = k - 1 BY <2>1, <2>4, <1>6
    <3> QED BY <3>1, <2>3, <1>1, <1>4 DEF Lvl
  <2>5. CASE m # l
    <3>1. Done(m)' = Done(m) BY <2>5, <1>1 DEF Done, Inv, Global, Types, TypeOK
    <3>2. a = "live" /\ pc[z] = "turn" => pc'[z] = "turn" /\ Lvl(z)' = Lvl(z)
      BY <2>1, <1>1, <1>10, MinePrime DEF Place, OnlyStream, SparesStream
    <3> QED BY <3>1, <3>2, <2>2, <2>3
  <2> QED BY <2>4, <2>5
<1>14. NoneYet'
  <2> SUFFICES ASSUME NEW m \in Unused PROVE recorded'[m] = << >>
    BY <1>1 DEF NoneYet, Unused
  <2>1. m # l BY <1>6 DEF Running, Unused
  <2>2. m \in Loops BY DEF Unused
  <2> QED BY <2>1, <2>2, <1>1 DEF Inv, Global, NoneYet, Types, TypeOK
<1> QED BY <1>1, <1>2, <1>4, <1>7, <1>8, <1>12, <1>13, <1>14, TurnStep

LEMMA FailRunKeeps ==
  ASSUME Inv, NEW p \in Streams, FailRun(p), Move(p)
  PROVE  Inv'
<1> DEFINE k == Lvl(p)
<1>1. /\ pc[p] = "turn" /\ Finalize(p, Lvl(p), "failed") /\ Thrown(p)
      /\ UNCHANGED <<rows, claimed, issued, recorded, clientVars, child, snap, frames, worker>>
  BY DEF FailRun
<1>2. Still /\ InTurn(p) BY <1>1 DEF Still, clientVars, InTurn
<1>3. Cur(p, k) \notin Running' /\ \A l \in Running \ Running' : Live(p, k) /\ l = Cur(p, k)
  BY <1>1, FinalizeCloses
<1>4. /\ Depth \in Levels /\ Levels \subseteq Nat /\ k \in Levels /\ act[p].top \in Levels
      /\ act[p].top <= k /\ k \in Nat
  BY <1>2, TurnParts, SizeAssumption DEF Levels
<1>5. \A j \in Levels : act[p].top <= j /\ j < k =>
           Cur(p, j) = Open(p, j) /\ Cur(p, j) # 0 /\ Live(p, j)
  BY <1>2, TurnParts
<1>55. Cur(p, Depth) = 0 BY <1>2, TurnParts
<1>6. CASE k > act[p].top
  <2>1. pc'[p] = "turn" /\ act' = [act EXCEPT ![p].lvl = @ - 1, ![p].open[k - 1] = 0]
    BY <1>1, <1>6 DEF Thrown, Inv, Global, Types, TypeOK
  <2>2. k - 1 \in Levels /\ act[p].top <= k - 1 /\ k - 1 < k /\ k - 1 \in Nat
    <3> HIDE DEF k
    <3> QED BY <1>4, <1>6, SizeAssumption DEF Levels
  <2>3. /\ act'[p].lvl = k - 1 /\ act'[p].top = act[p].top /\ act'[p].link = act[p].link
        /\ \A j \in Levels : act'[p].cur[j] = Cur(p, j)
        /\ \A j \in Levels : act'[p].open[j] = IF j = k - 1 THEN 0 ELSE Open(p, j)
    <3>1. act[p] \in Activation /\ act \in [Streams -> Activation]
      BY DEF Inv, Global, Types, TypeOK
    <3>2. act[p].lvl = k BY DEF Lvl
    <3> HIDE DEF k
    <3> QED BY <3>1, <3>2, <2>1, <2>2 DEF Activation, Cur, Open
  <2>4. InTurn(p)' BY <2>1 DEF InTurn
  <2> HIDE DEF k
  <2>5. StackOK(p)'
    <3>1. act[p].link.host <= issued BY DEF Inv, Local, StackOK
    <3>3. \A j \in Levels : act'[p].top <= j /\ j < act'[p].lvl =>
            act'[p].cur[j] = act'[p].open[j] /\ act'[p].cur[j] # 0
      <4> SUFFICES ASSUME NEW j \in Levels, act[p].top <= j, j < k - 1
                   PROVE  act'[p].cur[j] = act'[p].open[j] /\ act'[p].cur[j] # 0
        BY <2>3
      <4>1. j < k /\ j # k - 1 BY <1>4, <2>2
      <4> QED BY <4>1, <1>5, <2>3
    <3> QED BY <3>1, <3>3, <1>2, <1>4, <1>55, <2>1, <2>2, <2>3
        DEF StackOK, Asking, Lvl, Cur, Open, Still
  <2>6. FramesOver(p)'
    <3> SUFFICES ASSUME NEW m \in Running \cap Running', Cur(p, act[p].top) = m
                 PROVE  act'[p].cur[act'[p].top] = m
      BY <1>1, <2>1, FramesNext DEF Stacked
    <3> QED BY <1>4, <2>3
  <2>7. \A j \in Levels : Live(p, j)' => Live(p, j) /\ Cur(p, j)' = Cur(p, j) /\ j # Lvl(p)
    <3> SUFFICES ASSUME NEW j \in Levels, Live(p, j)'
                 PROVE  Live(p, j) /\ Cur(p, j)' = Cur(p, j) /\ j # k
      BY DEF k
    <3>1. act[p].top <= j /\ j <= k - 1 BY <2>3 DEF Live, Lvl
    <3>2. j < k /\ j # k BY <3>1, <2>2, <1>4
    <3> QED BY <3>1, <3>2, <1>5, <2>3 DEF Cur
  <2>8. PlaceOnce' /\ PlaceRuns' /\ NoneYet'
    <3>1. \A l \in Running \ Running' :
            \E j \in Levels : Live(p, j) /\ l = Cur(p, j) /\ ~(Live(p, j)' /\ l = Cur(p, j)')
      BY <1>3, <1>4, <2>7 DEF k
    <3> QED BY <3>1, <2>1, <2>7, <1>1, <1>2, PlacesStep
  <2> QED BY <2>3, <2>4, <2>5, <2>6, <2>8, <1>1, <1>2, TurnStep
<1>7. CASE ~(k > act[p].top)
  <2>1. pc'[p] = "throwing" /\ act' = act BY <1>1, <1>7 DEF Thrown, Inv, Global, Types, TypeOK
  <2>2. act[p].top = k
    <3>1. act[p].top \in Nat BY <1>4
    <3> HIDE DEF k
    <3> QED BY <3>1, <1>4, <1>7
  <2>3. Local(p)' /\ Away(p)'
    <3>1. \A l \in Running \cap Running' : Cur(p, act[p].top) # l BY <1>3, <2>2
    <3> QED BY <3>1, <2>1, <1>1, <1>2, ThrowLocal
  <2> QED BY <2>3, <1>1, <1>2, <1>3, <1>4, TurnParts, AwayStep
<1> QED BY <1>6, <1>7

LEMMA RecoverRunKeeps ==
  ASSUME Inv, NEW p \in Streams, RecoverRun(p), Move(p)
  PROVE  Inv'
<1>1. /\ pc[p] = "turn" /\ pc'[p] = "ended"
      /\ IF Lvl(p) = act[p].top /\ frames[p] # << >>
         THEN CloseLoops({Last(frames[p]).loop}, "completed")
         ELSE UNCHANGED status
      /\ UNCHANGED <<rows, claimed, issued, recorded, clientVars, act, child, snap, frames, worker>>
  BY DEF RecoverRun, Inv, Global, Types, TypeOK
<1>2. Still /\ InTurn(p) /\ InTurn(p)' BY <1>1 DEF Still, clientVars, InTurn
<1>3. StackOK(p)'
  <2>1. StackOK(p) BY DEF Inv, Local
  <2> QED BY <2>1, <1>1, <1>2 DEF StackOK, Stacked, Suspending, Asking, Lvl, Cur, Open, Still
<1>4. CASE UNCHANGED status /\ ~(Lvl(p) = act[p].top /\ frames[p] # << >>)
  <2>1. Running' = Running BY <1>4 DEF Running
  <2>2. FramesOver(p)'
    <3>1. CASE frames[p] = << >> BY <3>1, <1>1 DEF FramesOver
    <3>2. CASE Lvl(p) # act[p].top
      <4>1. act[p].top < Lvl(p) BY <3>2, <1>2, TurnParts DEF Levels
      <4> QED BY <4>1, <1>1, <1>2, FramesNext DEF Stacked, InTurn, Cur, Lvl
    <3> QED BY <3>1, <3>2, <1>4
  <2>3. \A j \in Levels : Live(p, j)' => Live(p, j) /\ Cur(p, j)' = Cur(p, j) /\ j # Lvl(p)
    BY <1>1 DEF Live, Stacked, Suspending, Asking, Lvl, Cur, Levels
  <2>4. PlaceOnce' /\ PlaceRuns' /\ NoneYet' BY <2>1, <2>3, <1>1, <1>2, PlacesStep
  <2> QED BY <2>2, <2>4, <1>1, <1>2, <1>3, TurnStep
<1>5. CASE /\ CloseLoops({Last(frames[p]).loop}, "completed")
           /\ Lvl(p) = act[p].top /\ frames[p] # << >>
  <2> DEFINE f == Last(frames[p])
  <2>1. /\ Len(frames[p]) \in DOMAIN frames[p] /\ f = frames[p][Len(frames[p])]
    <3>1. frames[p] \in Seq(Frame) BY DEF Inv, Global, Types, TypeOK
    <3> QED BY <3>1, <1>5 DEF Last
  <2>2. f.loop \in Running => Cur(p, act[p].top) = f.loop BY <2>1 DEF Inv, Local, FramesOver
  <2> HIDE DEF f
  <2>3. Running' = Running \ {f.loop} BY <1>5 DEF CloseLoops, Running, f
  <2>4. FramesOver(p)'
    <3>1. ASSUME NEW n \in DOMAIN frames[p]
          PROVE  LET g == frames[p][n] IN
                 /\ g.loop \in Loops /\ status'[g.loop] # "none" /\ g.child = worker[p].id
                 /\ g.loop \notin Running'
      <4> DEFINE g == frames[p][n]
      <4>1. g.loop \in Loops /\ status[g.loop] # "none" /\ g.child = worker[p].id
            /\ (g.loop \in Running => n = Len(frames[p]))
        BY DEF Inv, Local, FramesOver
      <4>2. status'[g.loop] # "none" BY <4>1, MoveOthers DEF Inv, Global
      <4>3. g.loop \notin Running' BY <4>1, <2>1, <2>3
      <4> QED BY <4>1, <4>2, <4>3
    <3> QED BY <3>1, <1>1 DEF FramesOver
  <2>5. \A j \in Levels : Live(p, j)' => Live(p, j) /\ Cur(p, j)' = Cur(p, j) /\ j # Lvl(p)
    BY <1>1 DEF Live, Stacked, Suspending, Asking, Lvl, Cur, Levels
  <2>6. \A l \in Running \ Running' :
          \E j \in Levels : Live(p, j) /\ l = Cur(p, j) /\ ~(Live(p, j)' /\ l = Cur(p, j)')
    <3> SUFFICES ASSUME f.loop \in Running
                 PROVE  \E j \in Levels : Live(p, j) /\ f.loop = Cur(p, j) /\ ~Live(p, j)'
      BY <2>3
    <3>1. Cur(p, Lvl(p)) = f.loop /\ f.loop # 0 BY <2>2, <1>5, IdTypes DEF Running
    <3>2. Lvl(p) \in Levels /\ Lvl(p) <= Lvl(p) BY <1>2, TurnParts DEF Levels
    <3>3. Live(p, Lvl(p)) BY <3>1, <3>2, <1>1, <1>5 DEF Live
    <3> QED BY <3>1, <3>2, <3>3, <2>5
  <2>7. PlaceOnce' /\ PlaceRuns' /\ NoneYet' BY <2>5, <2>6, <1>1, <1>2, PlacesStep
  <2> QED BY <2>4, <2>7, <1>1, <1>2, <1>3, TurnStep
<1> QED BY <1>1, <1>4, <1>5

----------------------------------------------------------------------------
(* The steps of a resume that read.                                        *)

LEMMA ContinueParentKeeps ==
  ASSUME Inv, NEW p \in Streams, ContinueParent(p), Move(p)
  PROVE  Inv'
<1>1. /\ pc[p] = "ended" /\ Lvl(p) = act[p].top
      /\ UNCHANGED <<storeVars, clientVars, happened>>
  BY DEF ContinueParent, Lvl
<1>2. Still /\ InTurn(p) /\ UNCHANGED <<status, recorded>>
  BY <1>1 DEF Still, storeVars, clientVars, InTurn
<1>3. ~Passing(p) /\ Bearing(p) /\ Stacked(p) BY <1>2, TurnParts
<1>4. CASE act[p].link.host = 0
  <2>1. Leave(p) BY <1>4 DEF ContinueParent
  <2> QED BY <2>1, <1>1, <1>2, <1>3, LeaveStep DEF Still
<1>5. CASE act[p].link.host # 0
  <2>1. pc'[p] = "closing" /\ UNCHANGED <<act, child, snap, frames, worker>>
    BY <1>5 DEF ContinueParent, Inv, Global, Types, TypeOK
  <2>2. /\ Bearing(p)' /\ ~Suspending(p)' /\ ~Stacked(p)'
        /\ \A k : ~Live(p, k)'
    BY <2>1 DEF Bearing, Closing, Suspending, Stacked, Asking, Live
  <2>3. \A l \in Running : ~(Cur(p, act[p].top) = l /\ (pc[p] = "ended" => act[p].top < Lvl(p)))
    BY <1>1, <1>2, TurnParts DEF Levels
  <2>4. FramesOver(p)' BY <2>1, <2>3, FramesNext
  <2>5. WorkerOK(p)'
    <3>1. WorkerOK(p) BY DEF Inv, Local
    <3> QED BY <3>1, <2>1, <1>2, StillStored DEF WorkerOK, Still
  <2>6. StackOK(p)' /\ ChildOK(p)' /\ Chain(p)'
    <3>1. act[p].link.host <= issued BY DEF Inv, Local, StackOK
    <3> QED BY <3>1, <2>1, <2>2, <1>2 DEF StackOK, ChildOK, Chain, Still
  <2>7. ClaimOK(p)' /\ Linking(p)' /\ Tip(p)' /\ Saving(p)'
    BY <2>1 DEF ClaimOK, Linking, Tip, Saving
  <2>8. Carried(p)'
    <3>1. Carried(p) BY DEF Inv, Local
    <3> QED BY <3>1, <1>3, <2>1, <1>2, StillStored DEF Carried, Still
  <2>9. ClosingOK(p)' BY <2>1, <1>5 DEF ClosingOK, Closing
  <2>10. Local(p)' BY <2>4, <2>5, <2>6, <2>7, <2>8, <2>9 DEF Local
  <2>11. PlaceOnce' /\ PlaceRuns' /\ NoneYet'
    <3>1. Running' = Running BY <1>2 DEF Running
    <3> QED BY <3>1, <2>1, <2>2, <1>2, PlacesStep
  <2>12. /\ Types' /\ Tokens' /\ Issued' /\ Singles' /\ Claims' /\ Above' /\ Told'
         /\ \A q \in Streams : Local(q)'
    BY <2>1, <2>2, <2>10, <1>1, <1>2, <1>3, StillStep
  <2> QED BY <2>11, <2>12, InvNext
<1> QED BY <1>4, <1>5

LEMMA GetHostKeeps ==
  ASSUME Inv, NEW p \in Streams, GetHost(p), Move(p)
  PROVE  Inv'
<1> DEFINE h == act[p].link.host
<1>1. /\ pc[p] = "closing"
      /\ UNCHANGED <<rows, claimed, issued, recorded, clientVars, act, child, frames, worker,
                     happened>>
  BY DEF GetHost
<1>2. Still /\ UNCHANGED recorded BY <1>1 DEF Still, clientVars
<1>3. /\ ~Passing(p) /\ Bearing(p) /\ ~Stacked(p) /\ ~Suspending(p) /\ Closing(p)
      /\ \A k : ~Live(p, k)
  BY <1>1 DEF Passing, Bearing, Stacked, Suspending, Closing, Asking, Live
<1>4. h \in Ids
  <2>1. h # 0 BY <1>3 DEF Inv, Local, ClosingOK
  <2> QED BY <2>1, ActType, IdTypes DEF Inv, Global
<1>5. CASE h \in Stored
  <2>1. /\ snap'[p] = [i \in {h} |-> rows[i]] /\ pc'[p] = "host" /\ UNCHANGED status
    BY <1>5 DEF GetHost, Inv, Global, Types, TypeOK
  <2>2. /\ Bearing(p)' /\ ~Suspending(p)' /\ ~Stacked(p)'
        /\ \A k : ~Live(p, k)'
    BY <2>1 DEF Bearing, Closing, Suspending, Stacked, Asking, Live
  <2>4. FramesOver(p)' BY <1>1, <1>3, <2>1, FramesNext
  <2>5. WorkerOK(p)'
    <3>1. WorkerOK(p) BY DEF Inv, Local
    <3> QED BY <3>1, <1>1, <2>1, <1>2, StillStored DEF WorkerOK, Still
  <2>6. StackOK(p)' /\ ChildOK(p)' /\ Chain(p)'
    <3>1. act[p].link.host <= issued BY DEF Inv, Local, StackOK
    <3> QED BY <3>1, <1>1, <2>2, <1>2 DEF StackOK, ChildOK, Chain, Still
  <2>7. ClaimOK(p)' /\ Linking(p)' /\ Tip(p)' /\ Saving(p)'
    BY <2>1 DEF ClaimOK, Linking, Tip, Saving
  <2>8. worker[p].releasing /\ rows[h].pending = {worker[p].id}
    BY <1>3, <1>5 DEF Inv, Local, Carried
  <2>9. Carried(p)' BY <2>8, <1>1, <1>2 DEF Carried
  <2>10. ClosingOK(p)'
    <3>1. Read(p)' = rows[h] BY <2>1, <1>1 DEF Read
    <3>2. rows[h].loop = act[p].link.loop /\ rows[h].level = act[p].top - 1
      BY <1>3, <1>5, ActToken DEF Inv, Global
    <3>3. DOMAIN snap'[p] = {h} /\ h # 0 BY <2>1, <1>4, IdTypes
    <3> QED BY <3>1, <3>2, <3>3, <2>1, <2>8, <1>1 DEF ClosingOK
  <2>11. Local(p)' BY <2>4, <2>5, <2>6, <2>7, <2>9, <2>10 DEF Local
  <2>12. PlaceOnce' /\ PlaceRuns' /\ NoneYet'
    <3>1. Running' = Running BY <2>1 DEF Running
    <3> QED BY <3>1, <2>1, <2>2, <1>2, PlacesStep
  <2>13. /\ Types' /\ Tokens' /\ Issued' /\ Singles' /\ Claims' /\ Above' /\ Told'
         /\ \A q \in Streams : Local(q)'
    BY <2>1, <2>2, <2>11, <1>1, <1>2, <1>3, StillStep
  <2> QED BY <2>12, <2>13, InvNext
<1>6. CASE h \notin Stored
  <2>1. CloseLoops({act[p].link.loop}, "failed") /\ pc'[p] = "throwing"
    BY <1>6 DEF GetHost, Inv, Global, Types, TypeOK
  <2>2. act[p].link.loop \notin Running
    BY <1>1, <1>3, <1>4, <1>6, ActToken DEF Inv, Global
  <2>3. Running' = Running BY <2>1, <2>2 DEF CloseLoops, Running
  <2>4. Local(p)' /\ Away(p)' BY <2>1, <1>1, <1>2, <1>3, ThrowLocal
  <2> QED BY <2>3, <2>4, <1>1, <1>2, <1>3, AwayStep
<1> QED BY <1>5, <1>6

LEMMA ThrowStep ==
  ASSUME Inv, NEW p \in Streams, Move(p), Still, Closing(p), pc'[p] = "throwing",
         UNCHANGED <<recorded, act, worker, frames>>,
         pc[p] = "record" => act[p].link.loop \notin Running',
         \A l \in Running \ Running' : pc[p] = "record" /\ l = act[p].link.loop
  PROVE  Inv'
<1>1. ~Stacked(p) /\ ~Passing(p) /\ pc[p] # "off"
  BY DEF Closing, Stacked, Suspending, Asking, Passing
<1>2. Local(p)' /\ Away(p)' BY <1>1, ThrowLocal
<1> QED BY <1>1, <1>2, AwayStep

LEMMA LoseRecordKeeps ==
  ASSUME Inv, NEW p \in Streams, LoseRecord(p), Move(p)
  PROVE  Inv'
<1>1. /\ pc[p] = "record" /\ pc'[p] = "throwing" /\ CloseLoops({act[p].link.loop}, "failed")
      /\ UNCHANGED <<rows, claimed, issued, recorded, clientVars, act, child, snap, frames, worker>>
  BY DEF LoseRecord, Inv, Global, Types, TypeOK
<1>2. Still /\ Closing(p) BY <1>1 DEF Still, clientVars, Closing
<1>3. Running' = Running \ {act[p].link.loop} BY <1>1 DEF CloseLoops, Running
<1> QED BY <1>1, <1>2, <1>3, ThrowStep

LEMMA ReadCheckpointKeeps ==
  ASSUME Inv, NEW p \in Streams, NEW c \in Ids, ReadCheckpoint(p, c), Move(p)
  PROVE  Inv'
<1>1. /\ pc[p] = "off" /\ child'[p] = c /\ snap'[p] = [i \in {c} |-> rows[i]]
      /\ c \in Stored /\ c \in announced \cup Hosts
      /\ pc'[p] = IF rows[c].loop = 0 THEN "claim" ELSE "inspect"
      /\ UNCHANGED <<storeVars, clientVars, act, frames, worker, happened>>
  BY DEF ReadCheckpoint, Inv, Global, Types, TypeOK
<1>2. Still /\ UNCHANGED <<status, recorded>> BY <1>1 DEF Still, storeVars, clientVars
<1>3. /\ ~Passing(p) /\ ~Stacked(p) BY <1>1 DEF Passing, Stacked, Suspending, Asking
<1>4. pc'[p] \in {"claim", "inspect"} BY <1>1
<1>5. /\ ~Bearing(p)' /\ ~Suspending(p)' /\ ~Stacked(p)' /\ ~Closing(p)'
      /\ \A k : ~Live(p, k)'
  BY <1>4 DEF Bearing, Closing, Suspending, Stacked, Asking, Live
<1>6. FramesOver(p)' BY <1>1, <1>3, FramesNext
<1>7. WorkerOK(p)'
  <2>1. WorkerOK(p) BY DEF Inv, Local
  <2> QED BY <2>1, <1>1, <1>2, <1>4, StillStored DEF WorkerOK, Still
<1>8. StackOK(p)' /\ ChildOK(p)' /\ Chain(p)'
  <2>1. act[p].link.host <= issued BY DEF Inv, Local, StackOK
  <2> QED BY <2>1, <1>1, <1>2, <1>5 DEF StackOK, ChildOK, Chain, Still
<1>9. Linking(p)' /\ Tip(p)' /\ Saving(p)'
  BY <1>4 DEF Linking, Tip, Saving
<1>10. Carried(p)' /\ ClosingOK(p)' BY <1>4, <1>5 DEF Carried, ClosingOK
<1>11. ClaimOK(p)'
  <2>1. rows[c].loop = 0 => c \in announced BY <1>1 DEF Hosts
  <2>2. DOMAIN snap'[p] = {c} /\ snap'[p][c] = rows[c] BY <1>1
  <2> QED BY <2>1, <2>2, <1>1, <1>2 DEF ClaimOK, Still
<1>12. Local(p)' BY <1>6, <1>7, <1>8, <1>9, <1>10, <1>11 DEF Local
<1>13. PlaceOnce' /\ PlaceRuns' /\ NoneYet'
  <2>1. Running' = Running BY <1>2 DEF Running
  <2> QED BY <2>1, <1>2, <1>4, <1>5, PlacesStep
<1>14. /\ Types' /\ Tokens' /\ Issued' /\ Singles' /\ Claims' /\ Above' /\ Told'
       /\ \A q \in Streams : Local(q)'
  BY <1>1, <1>2, <1>3, <1>4, <1>5, <1>12, StillStep
<1> QED BY <1>13, <1>14, InvNext

----------------------------------------------------------------------------
(* The steps of a suspension that leave the checkpoints.                   *)

LEMMA AskingParts ==
  ASSUME NEW p, pc[p] \in Asking
  PROVE  /\ Suspending(p) /\ Stacked(p) /\ ~Closing(p)
         /\ Bearing(p) <=> act[p].top < Lvl(p)
         /\ \A k : Live(p, k) <=> act[p].top <= k /\ k <= Lvl(p) /\ Cur(p, k) # 0 /\ k < Lvl(p)
  BY DEF Suspending, Stacked, Closing, Bearing, Live, Asking
LEMMA AskingNext ==
  ASSUME NEW p, pc'[p] \in Asking
  PROVE  /\ Suspending(p)' /\ Stacked(p)' /\ ~Closing(p)'
         /\ Bearing(p)' <=> act'[p].top < Lvl(p)'
         /\ \A k : Live(p, k)' <=>
              act'[p].top <= k /\ k <= Lvl(p)' /\ Cur(p, k)' # 0 /\ k < Lvl(p)'
  BY DEF Suspending, Stacked, Closing, Bearing, Live, Asking

\* A stream that goes on with a suspension, at the same level.
LEMMA AskingStep ==
  ASSUME Inv, NEW p \in Streams, Move(p), Still, UNCHANGED <<status, recorded>>,
         pc[p] \in {"retarget", "save", "notify"}, pc'[p] \in {"save", "notify", "yield"},
         Passing(p) => Passing(p)',
         act'[p] = act[p], child'[p] = child[p], worker'[p] = worker[p], frames'[p] = frames[p],
         Saving(p)'
  PROVE  Inv'
<1>1. pc[p] \in Asking /\ pc'[p] \in Asking BY DEF Asking
<1>2. /\ Suspending(p) /\ Suspending(p)' /\ Stacked(p) /\ Stacked(p)' /\ ~Closing(p)'
      /\ Bearing(p)' = Bearing(p) /\ Lvl(p)' = Lvl(p) /\ \A k : Cur(p, k)' = Cur(p, k)
      /\ \A k : Live(p, k)' = Live(p, k)
  BY <1>1, AskingParts, AskingNext DEF Lvl, Cur, Bearing, Live, Closing, Asking
<1>3. Stored' = Stored /\ Unlinked' = Unlinked /\ \A i : Leaf(i)' = Leaf(i)
  BY StillStored
<1>4. FramesOver(p)' BY <1>2, FramesNext DEF Cur, Lvl, Asking
<1>5. WorkerOK(p)'
  <2>1. WorkerOK(p) BY DEF Inv, Local
  <2> QED BY <2>1, <1>3 DEF WorkerOK, Still
<1>6. StackOK(p)'
  <2>1. StackOK(p) BY DEF Inv, Local
  <2>2. \A k : Open(p, k)' = Open(p, k) BY DEF Open
  <2>3. Cur(p, Lvl(p))' = Cur(p, Lvl(p)) /\ Open(p, Lvl(p))' = Open(p, Lvl(p))
    BY DEF Cur, Open, Lvl
  <2> QED BY <2>1, <2>2, <2>3, <1>1, <1>2 DEF StackOK, Still, Asking
<1>7. ChildOK(p)'
  <2>1. ChildOK(p) BY DEF Inv, Local
  <2> QED BY <2>1, <1>2, <1>3 DEF ChildOK, Still
<1>8. ClaimOK(p)' /\ ClosingOK(p)' /\ Linking(p)' /\ Tip(p)'
  BY <1>2 DEF ClaimOK, ClosingOK, Linking, Tip
<1>9. Carried(p)'
  <2>1. Carried(p) BY DEF Inv, Local
  <2> QED BY <2>1, <1>2, <1>3 DEF Carried, Still
<1>10. Chain(p)'
  <2>1. Chain(p) BY DEF Inv, Local
  <2>2. Cur(p, Lvl(p) - 1)' = Cur(p, Lvl(p) - 1) BY DEF Cur, Lvl
  <2>3. /\ \A i \in Unlinked : Leaf(i) = {child[p]} =>
             rows[i].level = Lvl(p) /\ act[p].top < Lvl(p) /\ rows[i].link.loop = Cur(p, Lvl(p) - 1)
        /\ \A i, j \in Unlinked : Leaf(i) = {child[p]} /\ Leaf(j) = {child[p]} => i = j
    BY <2>1, <1>1, <1>2 DEF Chain
  <2>4. rows' = rows BY DEF Still
  <2> QED BY <2>2, <2>3, <2>4, <1>1, <1>2, <1>3 DEF Chain
<1>11. Local(p)' BY <1>4, <1>5, <1>6, <1>7, <1>8, <1>9, <1>10 DEF Local
<1>12. PlaceOnce' /\ PlaceRuns' /\ NoneYet'
  <2>1. Running' = Running BY DEF Running
  <2> QED BY <2>1, <1>2, PlacesStep
<1>13. /\ Types' /\ Tokens' /\ Issued' /\ Singles' /\ Claims' /\ Above' /\ Told'
       /\ \A q \in Streams : Local(q)'
  BY <1>2, <1>11, StillStep
<1> QED BY <1>12, <1>13, InvNext

LEMMA NotifyKeeps ==
  ASSUME Inv, NEW p \in Streams, Notify(p), Move(p), Callback = FALSE
  PROVE  Inv'
<1>1. /\ pc[p] = "notify" /\ pc'[p] = "yield" /\ announced' = announced
      /\ UNCHANGED <<storeVars, answered, act, child, snap, frames, worker, happened>>
  BY DEF Notify, Inv, Global, Types, TypeOK
<1>2. Still /\ UNCHANGED <<status, recorded>> /\ ~Passing(p) BY <1>1 DEF Still, storeVars, Passing
<1>3. Saving(p)' BY <1>1 DEF Saving
<1> QED BY <1>1, <1>2, <1>3, AskingStep

LEMMA ReadHostsKeeps ==
  ASSUME Inv, NEW p \in Streams, ReadHosts(p), Move(p)
  PROVE  Inv'
<1> DEFINE c == child[p]
           w == IF worker[p].releasing THEN worker[p].id ELSE 0
           D == DOMAIN Retargeted(c, w)
<1>1. /\ pc[p] = "retarget" /\ pc'[p] = "save" /\ snap'[p] = Retargeted(c, w)
      /\ UNCHANGED <<storeVars, clientVars, act, child, frames, worker, happened>>
  BY DEF ReadHosts, Inv, Global, Types, TypeOK
<1>2. Still /\ UNCHANGED <<status, recorded>> /\ (Passing(p) => Passing(p)')
  BY <1>1 DEF Still, storeVars, clientVars, Passing, Lvl
<1>3. Suspending(p) BY <1>1 DEF Suspending, Asking
<1>4. c \in Stored /\ rows[c].loop = 0 /\ c \notin Hosts
  BY <1>3 DEF Inv, Local, ChildOK, Hosts
<1>5. D = (Upward(c) \ {c}) \cap Hosts
  <2>1. \A i \in Hosts : rows[i].pending # {}
    BY DEF Hosts, Inv, Global, Singles
  <2> QED BY <2>1, <1>4 DEF Retargeted
<1>6. \A i \in D :
        Retargeted(c, w)[i] = [rows[i] EXCEPT !.pending = {x \in @ : x # w /\ x \in Stored} \cup {c}]
  BY DEF Retargeted
<1> HIDE DEF c, w, D
<1>7. \A i \in Upward(c) : i \in Stored \ claimed /\ Of(p, i) /\ (i # c => i \in D)
  BY <1>3, <1>5, ChainOwned DEF c
<1>8. ASSUME NEW i \in D
      PROVE  /\ Retargeted(c, w)[i] = [rows[i] EXCEPT !.pending = {c}]
             /\ rows[i].pending = {c} \/ (worker[p].releasing /\ rows[i].pending = {worker[p].id})
             /\ \E j \in D \cup {c} : rows[j].link.host = i
  <2>1. i \in Upward(c) /\ i \in Hosts /\ i # c BY <1>5
  <2>2. Leaf(i) = rows[i].pending BY <2>1 DEF Leaf, Hosts
  <2>3. rows[i].pending = {c} \/ (worker[p].releasing /\ rows[i].pending = {worker[p].id})
    BY <2>1, <2>2, <1>3, <1>7 DEF Of, Mine, c
  <2>4. {x \in rows[i].pending : x # w /\ x \in Stored} \cup {c} = {c}
    BY <2>3, <1>4 DEF w, c
  <2>5. \E j \in Upward(c) : rows[j].link.host = i BY <2>1, UpwardFrom
  <2> QED BY <2>3, <2>4, <2>5, <1>6, <1>7
<1>9. ASSUME NEW j \in D \cup {c}, rows[j].link.host \in Stored
      PROVE  rows[j].link.host \in D
  <2>1. j \in Upward(c) BY <1>4, <1>5, UpwardSelf DEF c
  <2>2. rows[j].link.host \in Upward(c) BY <2>1, <1>9, UpwardNext
  <2>3. rows[j].link.host \in Hosts
    BY <2>1, <1>7, <1>9, LinkedHost DEF Inv, Global
  <2>4. rows[j].link.host # c BY <2>3, <1>4 DEF c
  <2> QED BY <2>2, <2>4, <1>7
<1>10. Lvl(p) = act[p].top /\ act[p].link.host \in Stored => act[p].link.host \in D
  <2>1. Lvl(p) = act[p].top /\ act[p].link.host \in Stored => act[p].link.host \in Upward(c) \ {c}
    BY <1>1 DEF Inv, Local, Tip, c
  <2> QED BY <2>1, <1>7
<1>11. Saving(p)'
  <2>1. rows' = rows /\ Stored' = Stored /\ Hosts' = Hosts BY <1>2, StillStored DEF Still
  <2>2. DOMAIN snap'[p] = D /\ child'[p] = c /\ worker'[p] = worker[p] /\ act'[p] = act[p]
        /\ Lvl(p)' = Lvl(p)
    BY <1>1 DEF D, c, Lvl
  <2>3. D \subseteq Hosts BY <1>5
  <2> QED BY <2>1, <2>2, <2>3, <1>1, <1>8, <1>9, <1>10 DEF Saving
<1> QED BY <1>1, <1>2, <1>11, AskingStep

----------------------------------------------------------------------------
(* Steps that delete checkpoints.                                          *)

\* A checkpoint waits for one answer.
LEMMA OneLeaf ==
  ASSUME Inv, NEW i \in Stored
  PROVE  \E c \in Ids : c <= issued /\ Leaf(i) = {c} /\ (c \in Stored => rows[c].loop = 0)
<1>1. CASE rows[i].loop = 0
  <2>1. i \in Ids /\ i <= issued /\ Leaf(i) = {i}
    BY <1>1 DEF Leaf, Inv, Global, Issued, Stored
  <2> QED BY <2>1, <1>1
<1>2. CASE rows[i].loop # 0
  BY <1>2 DEF Leaf, Inv, Global, Singles
<1> QED BY <1>1, <1>2

LEMMA MineStored ==
  ASSUME Inv, NEW p \in Streams, NEW c \in Mine(p)
  PROVE  /\ c \in Stored /\ rows[c].loop = 0 /\ Leaf(c) = {c} /\ Of(p, c)
         /\ \/ Suspending(p) /\ c = child[p] /\ c \notin claimed /\ c \notin announced
            \/ worker[p].releasing /\ c = worker[p].id /\ c \in claimed
<1>1. \/ Suspending(p) /\ c = child[p]
      \/ worker[p].releasing /\ c = worker[p].id
  BY DEF Mine
<1>2. CASE Suspending(p) /\ c = child[p]
  BY <1>2 DEF Inv, Local, ChildOK, Leaf, Of
<1>3. CASE worker[p].releasing /\ c = worker[p].id
  BY <1>3 DEF Inv, Local, WorkerOK, Global, Claims, Leaf, Of
<1> QED BY <1>1, <1>2, <1>3

LEMMA Disjoint ==
  ASSUME Inv, NEW p \in Streams, NEW q \in Streams, NEW i, Of(p, i), Of(q, i)
  PROVE  p = q
<1>1. PICK c \in Mine(p) : Leaf(i) = {c} BY DEF Of
<1>2. c \in Mine(q) BY <1>1 DEF Of
<1>3. \/ Suspending(p) /\ c = child[p] /\ c \notin claimed
      \/ worker[p].releasing /\ c = worker[p].id /\ c \in claimed
  BY MineStored, <1>1
<1>4. \/ Suspending(q) /\ c = child[q] /\ c \notin claimed
      \/ worker[q].releasing /\ c = worker[q].id /\ c \in claimed
  BY MineStored, <1>2
<1> QED BY <1>3, <1>4 DEF Inv, Global, Claims

\* A step of p deletes S, claims C and announces A.
Deletes(p, S, C, A) ==
  /\ rows' = Without(S) /\ claimed' = (claimed \cup C) \ S
  /\ announced' = announced \cup A /\ issued' = issued
  /\ C \subseteq (Stored \cap announced) \ claimed /\ \A c \in C : rows[c].loop = 0
  /\ A # {} => A = {child[p]} /\ Suspending(p) /\ \A i \in Unlinked : Leaf(i) # {child[p]}
  /\ \A q \in Streams \ {p} : \A i \in S : ~Of(q, i)

LEMMA FewerGlobal ==
  ASSUME Inv, NEW p \in Streams, OnlyStream(p), NEW S, NEW C, NEW A, Deletes(p, S, C, A),
         worker'[p].releasing =>
           (worker[p].releasing /\ worker'[p].id = worker[p].id) \/ worker'[p].id \in C,
         Suspending(p)' => Suspending(p) /\ child'[p] = child[p],
         ~Passing(p)
  PROVE  Issued' /\ Singles' /\ Claims' /\ Above' /\ Told'
<1> USE DEF Deletes
<1>0. Issued /\ Singles /\ Claims /\ Above /\ Told BY DEF Inv, Global
<1>1. Stored' = Stored \ S /\ \A i \in Stored' : rows'[i] = rows[i]
  BY DeleteStored
<1>2. \A i \in Stored' : Leaf(i)' = Leaf(i) /\ Whole(i)' = Whole(i)
  BY <1>1 DEF Leaf, Whole
<1>3. ASSUME NEW q \in Streams \ {p}
      PROVE  /\ SparesStream(q) /\ Suspending(q)' = Suspending(q) /\ child'[q] = child[q]
             /\ worker'[q] = worker[q] /\ Passing(q)' = Passing(q) /\ act'[q] = act[q]
  <2>1. SparesStream(q) BY DEF OnlyStream
  <2>2. Suspending(q)' = Suspending(q) /\ Lvl(q)' = Lvl(q) BY <2>1, MinePrime
  <2> QED BY <2>1, <2>2 DEF SparesStream, Passing
<1>4. \A q \in Streams : Suspending(q)' => Suspending(q) /\ child'[q] = child[q]
  BY <1>3
<1>5. A # {} => child[p] \in Stored \ claimed /\ rows[child[p]].loop = 0 /\ child[p] <= issued
                /\ Leaf(child[p]) = {child[p]}
  BY <1>0 DEF Inv, Local, ChildOK, Issued, Leaf
<1>6. Issued' BY <1>0, <1>1, <1>5 DEF Issued
<1>7. Singles' BY <1>0, <1>1 DEF Singles
<1>8. Claims'
  <2>1. claimed' \subseteq Stored' BY <1>0, <1>1 DEF Claims
  <2>2. \A c \in claimed' : rows'[c].loop = 0 BY <1>0, <1>1, <2>1 DEF Claims
  <2>3. \A q \in Streams : worker[q].releasing => worker[q].id \in claimed
    BY DEF Inv, Local, WorkerOK
  <2>4. ASSUME NEW q \in Streams, NEW r \in Streams, worker'[q].releasing, worker'[r].releasing,
               worker'[q].id = worker'[r].id
        PROVE  q = r
    <3>1. \A x \in Streams \ {p} : worker'[x] = worker[x] BY <1>3
    <3>2. CASE q = p /\ r # p BY <3>1, <3>2, <2>3, <2>4, <1>0 DEF Claims
    <3>3. CASE q # p /\ r = p BY <3>1, <3>3, <2>3, <2>4, <1>0 DEF Claims
    <3>4. CASE q # p /\ r # p BY <3>1, <3>4, <2>4, <1>0 DEF Claims
    <3> QED BY <3>2, <3>3, <3>4
  <2>5. \A q, r \in Streams : Suspending(q)' /\ Suspending(r)' /\ child'[q] = child'[r] => q = r
    BY <1>0, <1>4 DEF Claims
  <2> QED BY <2>1, <2>2, <2>4, <2>5 DEF Claims
<1>9. Told'
  <2>1. ASSUME NEW c \in announced' \cap Stored' PROVE rows'[c].loop = 0 /\ Whole(c)'
    <3>1. rows'[c] = rows[c] /\ c \in Stored /\ Whole(c)' = Whole(c) BY <2>1, <1>1, <1>2
    <3>2. CASE c \in announced BY <3>1, <3>2, <1>0 DEF Told
    <3>3. CASE c \in A
      <4>1. c = child[p] /\ c \notin Unlinked BY <3>3, <1>5
      <4>2. Whole(c) BY <4>1, <1>5, <3>3, <3>1 DEF Unlinked
      <4> QED BY <4>1, <4>2, <3>1, <3>3, <1>5
    <3> QED BY <3>2, <3>3
  <2>2. ASSUME NEW h \in Hosts', rows'[h].pending \cap (announced' \cup claimed') # {}
        PROVE  Whole(h)'
    <3>1. h \in Stored' /\ rows'[h] = rows[h] /\ h \in Hosts /\ Whole(h)' = Whole(h)
      BY <1>1, <1>2 DEF Hosts
    <3>2. CASE rows[h].pending \cap (announced \cup claimed) # {}
      BY <3>1, <3>2, <1>0 DEF Told
    <3>3. CASE A # {} /\ child[p] \in rows[h].pending
      <4>1. Leaf(h) = {child[p]} BY <3>1, <3>3, OneLeaf DEF Leaf, Hosts
      <4>2. h \notin claimed BY <3>1, <1>0 DEF Claims, Hosts
      <4> QED BY <4>1, <4>2, <3>1, <3>3 DEF Unlinked, Hosts
    <3> QED BY <3>1, <3>2, <3>3, <2>2
  <2> QED BY <2>1, <2>2 DEF Told
<1>10. Above'
  <2> SUFFICES ASSUME NEW i \in Stored' \ claimed', rows'[i].link.host \in Stored'
               PROVE  \/ rows'[rows'[i].link.host].pending = Leaf(i)'
                      \/ \E q \in Streams : Handed(q, i)'
                      \/ Orphan(i)'
    BY DEF Above
  <2> DEFINE h == rows[i].link.host
  <2>1. /\ i \in Stored \ claimed /\ rows'[i] = rows[i] /\ h \in Stored /\ rows'[h] = rows[h]
        /\ Leaf(i)' = Leaf(i)
    BY <1>1, <1>2
  <2>2. ASSUME Orphan(i) PROVE Orphan(i)'
    <3>1. PICK c : Leaf(i) = {c} BY <2>1, OneLeaf
    <3>2. A # {} => c # child[p] BY <2>2, <3>1 DEF Orphan
    <3>3. c \notin announced' \cup claimed' BY <2>2, <3>1, <3>2 DEF Orphan
    <3>4. \A q \in Streams : Suspending(q)' => c # child'[q]
      BY <2>2, <3>1, <1>4 DEF Orphan
    <3> QED BY <3>1, <3>3, <3>4, <2>1 DEF Orphan
  <2>3. ASSUME NEW q \in Streams, Handed(q, i) PROVE Handed(q, i)'
    <3>1. q # p BY <2>3 DEF Handed
    <3>2. Passing(q)' /\ child'[q] = child[q] /\ act'[q].link = act[q].link
          /\ worker'[q] = worker[q]
      BY <1>3, <2>3, <3>1 DEF Handed
    <3> QED BY <3>2, <2>1, <2>3 DEF Handed
  <2> QED BY <1>0, <2>1, <2>2, <2>3 DEF Above
<1> QED BY <1>6, <1>7, <1>8, <1>9, <1>10

LEMMA FewerOthers ==
  ASSUME Inv, NEW p \in Streams, OnlyStream(p), NEW S, NEW C, NEW A, Deletes(p, S, C, A),
         \A l \in Loops : status[l] # "none" =>
           status'[l] # "none" /\ (status'[l] = "running" => status[l] = "running")
  PROVE  /\ Keeps
         /\ \A q \in Streams \ {p} : Local(q)'
<1> USE DEF Deletes
<1>1. Stored' = Stored \ S /\ \A i \in Stored' : rows'[i] = rows[i]
  BY DeleteStored
<1>2. issued \in Nat /\ claimed \subseteq Stored /\ \A i \in announced : i \in Ids
  BY SizeAssumption DEF Inv, Global, Types, TypeOK
<1>3. Keeps
  <2>1. \A i \in announced : rows'[i] \in {rows[i], NoRow} BY <1>2 DEF Without
  <2>2. claimed' \subseteq Stored' BY <1>1, <1>2
  <2> QED BY <2>1, <2>2, <1>1, <1>2 DEF Keeps
<1>4. ASSUME NEW q \in Streams \ {p} PROVE Local(q)'
  <2>1. SparesStream(q) BY DEF OnlyStream
  <2>2. Mine(q)' = Mine(q) BY <2>1, MinePrime
  <2>3. ASSUME NEW i \in Ids, Of(q, i) \/ Of(q, i)' PROVE i \notin S
    <3>1. CASE Of(q, i) BY <3>1
    <3>2. CASE Of(q, i)' BY <3>2, <1>1 DEF Of
    <3> QED BY <2>3, <3>1, <3>2
  <2>4. ASSUME NEW c \in Mine(q) PROVE c \notin S /\ c \notin C
    <3>1. Of(q, c) BY MineStored
    <3>2. c \notin announced \/ c \in claimed BY MineStored
    <3> QED BY <3>1, <3>2
  <2>5. ASSUME NEW i \in Ids, Of(q, i) PROVE i \notin C
    <3>1. PICK c \in Mine(q) : Leaf(i) = {c} BY <2>5 DEF Of
    <3> SUFFICES ASSUME i \in C PROVE FALSE
      OBVIOUS
    <3>2. Leaf(i) = {i} BY DEF Leaf
    <3> QED BY <3>1, <3>2, <2>4
  <2>6. Suspending(q) => child[q] \notin announced'
    <3>1. Suspending(q) => child[q] \notin announced BY DEF Inv, Local, ChildOK
    <3>2. Suspending(q) /\ A # {} => child[q] # child[p] BY DEF Inv, Global, Claims
    <3> QED BY <3>1, <3>2
  <2>7. \A i \in Ids : Of(q, i) \/ Of(q, i)' => rows'[i] = rows[i]
    BY <2>3 DEF Without
  <2>8. \A i \in Ids : Of(q, i) \/ i \in Mine(q) => (i \in claimed' <=> i \in claimed)
    BY <2>3, <2>4, <2>5
  <2>9. SparesRows(q) BY <2>6, <2>7, <2>8 DEF SparesRows
  <2> QED BY <2>1, <2>9, <1>3, LocalKeeps
<1> QED BY <1>3, <1>4

\* A step of one stream that deletes checkpoints.
LEMMA FewerStep ==
  ASSUME Inv, NEW p \in Streams, Move(p), NEW S, NEW C, NEW A, Deletes(p, S, C, A),
         worker'[p].releasing =>
           (worker[p].releasing /\ worker'[p].id = worker[p].id) \/ worker'[p].id \in C,
         Suspending(p)' => Suspending(p) /\ child'[p] = child[p],
         ~Passing(p),
         Local(p)', Tokens', PlaceOnce', PlaceRuns', NoneYet'
  PROVE  Inv'
<1>1. Types' BY MoveTypes
<1>2. OnlyStream(p) /\ \A l \in Loops : status[l] # "none" =>
        status'[l] # "none" /\ (status'[l] = "running" => status[l] = "running")
  BY MoveOthers DEF Inv, Global
<1>3. Issued' /\ Singles' /\ Claims' /\ Above' /\ Told' BY <1>2, FewerGlobal
<1>4. \A q \in Streams \ {p} : Local(q)' BY <1>2, FewerOthers
<1>5. \A q \in Streams : Local(q)' BY <1>4
<1> QED BY <1>1, <1>3, <1>5, InvNext

LEMMA HeldType ==
  ASSUME Inv, NEW k, NEW z, NEW ln, NEW v, Held(k, z, ln, v)
  PROVE  ln \in Link /\ v \in Levels /\ ln.loop \in 0..MaxLoops /\ ln.host \in 0..MaxRows
<1>1. ASSUME NEW q \in Streams, NEW f \in DOMAIN snap[q]
      PROVE  snap[q][f].link \in Link /\ snap[q][f].level \in Levels
  <2>1. snap[q][f] \in Row BY DEF Inv, Global, Types, TypeOK
  <2> QED BY <2>1 DEF Row
<1>2. ln \in Link /\ v \in Levels
  <2>1. CASE k = "row" BY <2>1, RowType DEF Held, Inv, Global
  <2>2. CASE k = "act" BY <2>2, ActType DEF Held, Inv, Global
  <2>4. CASE k = "read"
    <3>1. z \in Streams /\ pc[z] = "record" /\ ln = Read(z).link /\ v = Read(z).level
      BY <2>4 DEF Held
    <3>2. act[z].link.host \in DOMAIN snap[z] BY <3>1 DEF Inv, Local, ClosingOK
    <3> QED BY <1>1, <3>1, <3>2 DEF Read
  <2>5. CASE k = "frame" BY <1>1, <2>5 DEF Held
  <2> QED BY <2>1, <2>2, <2>4, <2>5 DEF Held
<1> QED BY <1>2 DEF Link

\* One token changes hands, the others only go.
TokenMoves(K, Z, K1, Z1) ==
  \A k, z, ln, v : Held(k, z, ln, v)' =>
    \/ /\ Held(k, z, ln, v) /\ ~(k = K /\ z = Z)
       /\ k = "act" /\ pc[z] = "record" /\ ln.loop \in Running' => pc'[z] = "record"
    \/ /\ k = K1 /\ z = Z1 /\ Held(K, Z, ln, v) /\ K # "act"
       /\ ln.host = 0 => ln.loop = 0

LEMMA TokensMove ==
  ASSUME Inv, Keeps, NEW K, NEW Z, NEW K1, NEW Z1, TokenMoves(K, Z, K1, Z1),
         \A h \in Stored \cap Stored' :
           rows'[h].loop = rows[h].loop /\ rows'[h].level = rows[h].level,
         \A k, z, ln, v : Held(k, z, ln, v)' /\ ln.host \in Stored \ Stored' =>
           ln.loop \notin Running' \/ (k = "act" /\ pc'[z] = "record")
  PROVE  Tokens'
<1>0. TokenShape /\ TokenFits /\ TokenOnce BY DEF Inv, Global, Tokens
<1>2. ASSUME NEW l \in Loops, l \in Running', l \notin Unused PROVE l \in Running
  BY <1>2 DEF Keeps, Running, Unused
<1>3. issued \in Nat /\ issued' \in Nat /\ issued <= issued'
  BY SizeAssumption DEF Keeps, Inv, Global, Types, TypeOK
<1>4. ASSUME NEW k, NEW z, NEW ln, NEW v, Held(k, z, ln, v)'
      PROVE  /\ ln.loop = 0 => ln.host = 0
             /\ k # "row" /\ ln.host = 0 => ln.loop = 0
             /\ ln.host <= issued'
             /\ ln.loop # 0 => ln.loop \notin Unused'
             /\ ln.host \in Stored' =>
                  rows'[ln.host].loop = ln.loop /\ rows'[ln.host].level = v - 1
             /\ ln.host \in Ids \ Stored' =>
                  ln.loop \notin Running' \/ (k = "act" /\ pc'[z] = "record")
  <2>1. PICK j, y :
          /\ Held(j, y, ln, v)
          /\ \/ /\ k = j /\ z = y
                /\ k = "act" /\ pc[z] = "record" /\ ln.loop \in Running' => pc'[z] = "record"
             \/ j # "act" /\ (ln.host = 0 => ln.loop = 0)
    BY <1>4 DEF TokenMoves
  <2>2. /\ ln.loop = 0 => ln.host = 0
        /\ k # "row" /\ ln.host = 0 => ln.loop = 0
        /\ ln.host <= issued
        /\ ln.loop # 0 => ln.loop \notin Unused
    BY <2>1, <1>0 DEF TokenShape
  <2>3. /\ ln.host \in Stored => rows[ln.host].loop = ln.loop /\ rows[ln.host].level = v - 1
        /\ ln.host \in Ids \ Stored => ln.loop \notin Running \/ (j = "act" /\ pc[y] = "record")
    BY <2>1, <1>0 DEF TokenFits
  <2>4. ln.loop \in 0..MaxLoops /\ ln.host \in 0..MaxRows BY <2>1, HeldType
  <2>5. ln.loop # 0 => ln.loop \in Loops /\ ln.loop \notin Unused'
    BY <2>2, <2>4, IdTypes DEF Keeps, Unused
  <2>6. ln.host <= issued' BY <2>2, <2>4, <1>3, IdTypes
  <2>7. ln.host \in Stored' => ln.host \in Stored
    BY <2>2, <2>4, <1>3, IdTypes DEF Keeps
  <2>8. ASSUME ln.host \in Ids \ Stored'
        PROVE  ln.loop \notin Running' \/ (k = "act" /\ pc'[z] = "record")
    <3>1. CASE ln.host \in Stored BY <3>1, <2>8, <1>4
    <3>2. CASE ln.host \notin Stored
      <4>1. CASE ln.loop \notin Running
        <5>1. CASE ln.loop = 0 BY <5>1, IdTypes DEF Running
        <5>2. CASE ln.loop # 0
          <6>1. ln.loop \in Loops /\ ln.loop \notin Unused BY <5>2, <2>5, <2>2
          <6> QED BY <4>1, <6>1, <1>2
        <5> QED BY <5>1, <5>2
      <4>2. CASE j = "act" /\ pc[y] = "record" BY <4>2, <2>1
      <4> QED BY <2>3, <2>8, <3>2, <4>1, <4>2
    <3> QED BY <3>1, <3>2
  <2> QED BY <2>2, <2>3, <2>5, <2>6, <2>7, <2>8
<1>5. TokenShape' BY <1>4 DEF TokenShape
<1>6. TokenFits' BY <1>4 DEF TokenFits
<1>7. TokenOnce'
  <2> SUFFICES ASSUME NEW k, NEW z, NEW ln, NEW v, NEW j, NEW y, NEW m, NEW w,
                      Held(k, z, ln, v)', Held(j, y, m, w)', ln.host = m.host, m.host # 0
               PROVE  k = j /\ z = y
    BY DEF TokenOnce
  <2>1. \/ Held(k, z, ln, v) /\ ~(k = K /\ z = Z)
        \/ k = K1 /\ z = Z1 /\ Held(K, Z, ln, v)
    BY DEF TokenMoves
  <2>2. \/ Held(j, y, m, w) /\ ~(j = K /\ y = Z)
        \/ j = K1 /\ y = Z1 /\ Held(K, Z, m, w)
    BY DEF TokenMoves
  <2> QED BY <2>1, <2>2, <1>0 DEF TokenOnce
<1> QED BY <1>5, <1>6, <1>7 DEF Tokens

\* One loop changes place.
PlaceMoves(A, Z, K, A1, Z1, K1) ==
  \A a, z, k, l : Place(a, z, k, l)' =>
    \/ /\ Place(a, z, k, l) /\ ~(a = A /\ z = Z /\ k = K)
       /\ (a = "live" /\ pc[z] = "turn" /\ k = Lvl(z)) =>
            Done(l) < MaxIterations \/ (pc'[z] = "turn" /\ k = Lvl(z)')
    \/ /\ a = A1 /\ z = Z1 /\ k = K1 /\ Place(A, Z, K, l)
       /\ Done(l)' < MaxIterations \/ (a = "live" /\ pc'[z] = "turn" /\ k = Lvl(z)')

LEMMA PlacesMove ==
  ASSUME Inv, NEW A, NEW Z, NEW K, NEW A1, NEW Z1, NEW K1, Running' = Running,
         PlaceMoves(A, Z, K, A1, Z1, K1),
         \A l \in Loops : Done(l)' = Done(l) \/ Place(A, Z, K, l)
  PROVE  PlaceOnce' /\ PlaceRuns'
<1>1. PlaceOnce /\ PlaceRuns BY DEF Inv, Global
<1>2. PlaceOnce'
  <2> SUFFICES ASSUME NEW a, NEW z, NEW k, NEW l, NEW b, NEW y, NEW j,
                      Place(a, z, k, l)', Place(b, y, j, l)'
               PROVE  a = b /\ z = y /\ k = j
    BY DEF PlaceOnce
  <2>1. \/ Place(a, z, k, l) /\ ~(a = A /\ z = Z /\ k = K)
        \/ a = A1 /\ z = Z1 /\ k = K1 /\ Place(A, Z, K, l)
    BY DEF PlaceMoves
  <2>2. \/ Place(b, y, j, l) /\ ~(b = A /\ y = Z /\ j = K)
        \/ b = A1 /\ y = Z1 /\ j = K1 /\ Place(A, Z, K, l)
    BY DEF PlaceMoves
  <2> QED BY <2>1, <2>2, <1>1 DEF PlaceOnce
<1>3. PlaceRuns'
  <2> SUFFICES ASSUME NEW a, NEW z, NEW k, NEW l, Place(a, z, k, l)'
               PROVE  /\ l \in Running'
                      /\ Done(l)' < MaxIterations \/ (a = "live" /\ pc'[z] = "turn" /\ k = Lvl(z)')
    BY DEF PlaceRuns
  <2>1. CASE /\ Place(a, z, k, l) /\ ~(a = A /\ z = Z /\ k = K)
             /\ (a = "live" /\ pc[z] = "turn" /\ k = Lvl(z)) =>
                   Done(l) < MaxIterations \/ (pc'[z] = "turn" /\ k = Lvl(z)')
    <3>1. l \in Running
        /\ (Done(l) < MaxIterations \/ (a = "live" /\ pc[z] = "turn" /\ k = Lvl(z)))
      BY <2>1, <1>1 DEF PlaceRuns
    <3>2. l \in Loops /\ ~Place(A, Z, K, l) BY <2>1, <3>1, <1>1 DEF PlaceOnce, Running
    <3>3. Done(l)' = Done(l) BY <3>2
    <3> QED BY <3>1, <3>3, <2>1
  <2>2. CASE /\ a = A1 /\ z = Z1 /\ k = K1 /\ Place(A, Z, K, l)
             /\ Done(l)' < MaxIterations \/ (a = "live" /\ pc'[z] = "turn" /\ k = Lvl(z)')
    BY <2>2, <1>1 DEF PlaceRuns
  <2> QED BY <2>1, <2>2 DEF PlaceMoves
<1> QED BY <1>2, <1>3

----------------------------------------------------------------------------
(* The steps of a resume.                                                  *)

LEMMA ClaimKeeps ==
  ASSUME Inv, NEW p \in Streams, Claim(p), Move(p)
  PROVE  Inv'
<1> DEFINE c == child[p]
           link == snap[p][c].link
<1>1. pc[p] = "claim" /\ UNCHANGED <<issued, status, recorded, announced, happened>>
  BY DEF Claim
<1>2. /\ c \in announced /\ DOMAIN snap[p] = {c} /\ snap[p][c].loop = 0
      /\ (c \in Stored => rows[c] = snap[p][c]) /\ frames[p] = << >>
  BY <1>1 DEF Inv, Local, ClaimOK, FramesOver
<1>3. ~Passing(p) /\ ~Suspending(p) /\ ~Bearing(p)
  BY <1>1 DEF Passing, Suspending, Bearing, Closing, Asking
<1>4. CASE ~WinsClaim(c)
  <2>1. Leave(p) /\ UNCHANGED <<rows, claimed>> BY <1>4, <1>1 DEF Claim
  <2> QED BY <2>1, <1>1, <1>3, LeaveStep
<1>5. CASE WinsClaim(c)
  <2> DEFINE w == link.host # 0
             S == IF w THEN {} ELSE {c}
             C == IF w THEN {c} ELSE {}
  <2>1. c \in Stored \ claimed /\ rows[c] = snap[p][c] /\ rows[c].loop = 0 /\ link = rows[c].link
        /\ rows[c].level = Depth
    BY <1>2, <1>5 DEF WinsClaim, Inv, Global, Singles
  <2>2. /\ rows' = Without(S) /\ claimed' = (claimed \cup C) \ S
        /\ worker'[p] = [id |-> c, link |-> link, releasing |-> w]
        /\ pc'[p] = "turn" /\ UNCHANGED <<child, snap, frames>>
    <3>1. Without({}) = rows BY DEF Without, Inv, Global, Types, TypeOK
    <3>2. claimed \cup {} = (claimed \cup {}) \ {} OBVIOUS
    <3>3. claimed = (claimed \cup {}) \ {c} BY <2>1
    <3>4. WinsClaim(child[p]) BY <1>5
    <3>5. w => claimed' = claimed \cup {c} /\ rows' = rows
      BY <3>4 DEF Claim
    <3>6. ~w => rows' = Without({c}) /\ claimed' = claimed
      BY <3>4 DEF Claim
    <3>7. /\ worker'[p] = [id |-> c, link |-> link, releasing |-> w]
          /\ pc'[p] = "turn" /\ UNCHANGED <<child, snap, frames>>
      BY <3>4 DEF Claim, Inv, Global, Types, TypeOK
    <3> HIDE DEF w, link, c
    <3> QED BY <3>1, <3>2, <3>3, <3>5, <3>6, <3>7
  <2>3. act'[p] = [NoAct EXCEPT !.top = Depth, !.lvl = Depth, !.link = link,
                                !.step[Depth] = link.step]
    BY <1>5 DEF Claim, Inv, Global, Types, TypeOK
  <2>4. /\ act'[p].top = Depth /\ act'[p].lvl = Depth /\ act'[p].link = link
        /\ \A k \in Levels : act'[p].cur[k] = 0 /\ act'[p].open[k] = 0
    BY <2>3, NoActType, SizeAssumption DEF NoAct, Levels
  <2> HIDE DEF c, link, w, S, C
  <2>5. Stored' = Stored \ S /\ \A i \in Stored' : rows'[i] = rows[i]
    BY <2>2, DeleteStored
  <2>6. /\ Stacked(p)' /\ Bearing(p)' /\ ~Suspending(p)' /\ ~Closing(p)'
        /\ \A k \in Levels : ~Live(p, k)'
    BY <2>2, <2>4 DEF Stacked, Bearing, Suspending, Closing, Asking, Live, Cur, Lvl
  <2>7. c \in Ids /\ c <= issued /\ c # 0
    BY <2>1, IdTypes DEF Inv, Global, Issued, Stored
  <2>8. /\ link.host <= issued /\ link.host \in 0..MaxRows
        /\ (link.loop = 0 => link.host = 0)
        /\ (link.host \in Stored => rows[link.host].loop = link.loop /\ link.loop # 0
              /\ link.host \in Hosts)
    BY <2>1, RowToken, RowType, LinkedHost, IdTypes DEF Inv, Global, Stored
  <2>9. link.host = 0 => link.loop = 0
    BY <2>1, <1>2 DEF Inv, Global, Told, Whole
  <2>10. Local(p)'
    <3>1. StackOK(p)'
      BY <1>1, <2>2, <2>4, <2>6, <2>8, SizeAssumption
      DEF StackOK, Lvl, Cur, Open, Asking, Levels
    <3>2. WorkerOK(p)'
      <4>1. w => c \in claimed' BY <2>2 DEF S, C
      <4>2. ~w => c \notin Stored' BY <2>5 DEF S
      <4> QED BY <4>1, <4>2, <2>2, <2>7, <1>1 DEF WorkerOK
    <3>3. ChildOK(p)' /\ ClosingOK(p)' /\ Linking(p)' /\ Tip(p)' /\ Saving(p)' /\ Chain(p)'
          /\ ClaimOK(p)'
      BY <2>2, <2>6 DEF ChildOK, ClosingOK, Linking, Tip, Saving, Chain, ClaimOK
    <3>4. FramesOver(p)' BY <2>2, <1>2 DEF FramesOver
    <3>5. Carried(p)'
      <4> SUFFICES ASSUME link.host \in Stored'
                   PROVE  worker'[p].releasing /\ rows'[link.host].pending = {worker'[p].id}
        BY <2>4 DEF Carried
      <4>1. link.host \in Stored /\ link.host # 0 /\ rows'[link.host] = rows[link.host]
        BY <2>5, IdTypes DEF Stored
      <4>2. Leaf(c) = {c} BY <2>1 DEF Leaf
      <4>3. ~Orphan(c) BY <4>2, <1>2 DEF Orphan, c
      <4>4. \A q \in Streams : ~Handed(q, c)
        <5> SUFFICES ASSUME NEW q \in Streams, Handed(q, c) PROVE FALSE
          OBVIOUS
        <5>1. child[q] = c /\ Suspending(q) BY <4>2 DEF Handed, Passing, Suspending, Asking
        <5> QED BY <5>1, <1>2 DEF Inv, Local, ChildOK
      <4>5. rows[link.host].pending = {c}
        BY <4>1, <4>2, <4>3, <4>4, <2>1 DEF Inv, Global, Above
      <4>6. w BY <4>1 DEF w
      <4>7. worker'[p].releasing /\ worker'[p].id = c BY <4>6, <2>2
      <4> QED BY <4>1, <4>5, <4>7
    <3> QED BY <3>1, <3>2, <3>3, <3>4, <3>5 DEF Local
  <2>11. OnlyStream(p) /\ \A l \in Loops : status[l] # "none" =>
        status'[l] # "none" /\ (status'[l] = "running" => status[l] = "running")
    BY MoveOthers DEF Inv, Global
  <2>12. C \subseteq (Stored \cap announced) \ claimed /\ \A x \in C : rows[x].loop = 0
    BY <2>1, <1>2 DEF C
  <2>13. \A q \in Streams \ {p} : \A i \in S : ~Of(q, i)
    <3> SUFFICES ASSUME NEW q \in Streams, Of(q, c) PROVE FALSE
      BY DEF S
    <3>1. c \in Mine(q) BY <2>1 DEF Of, Leaf
    <3> QED BY <3>1, <2>1, <1>2, MineStored DEF c
  <2>18. Deletes(p, S, C, {})
    <3>1. announced' = announced \cup {} BY <1>1
    <3> QED BY <3>1, <1>1, <2>2, <2>12, <2>13 DEF Deletes
  <2>14. Keeps BY <2>18, <2>11, FewerOthers
  <2>15. Tokens'
    <3>1. ASSUME NEW k, NEW z, NEW ln, NEW v, Held(k, z, ln, v)'
          PROVE  \/ /\ Held(k, z, ln, v) /\ ~(k = "row" /\ z = c)
                    /\ k = "act" /\ pc[z] = "record" /\ ln.loop \in Running' => pc'[z] = "record"
                 \/ /\ k = "act" /\ z = p /\ Held("row", c, ln, v)
                    /\ ln.host = 0 => ln.loop = 0
      <4>1. CASE k = "row"
        <5>1. z \in Stored' \ claimed' /\ ln = rows'[z].link /\ v = rows'[z].level
          BY <3>1, <4>1 DEF Held
        <5>2. z \in Stored \ claimed /\ z # c /\ rows'[z] = rows[z]
          BY <5>1, <2>2, <2>5 DEF S, C
        <5> QED BY <5>1, <5>2, <4>1 DEF Held
      <4>2. CASE k # "row" /\ z # p
        <5>1. z \in Streams /\ SparesStream(z) BY <3>1, <4>2, <2>11 DEF Held, OnlyStream
        <5>2. /\ pc'[z] = pc[z] /\ act'[z] = act[z] /\ snap'[z] = snap[z]
              /\ Bearing(z)' = Bearing(z) /\ Read(z)' = Read(z)
          BY <5>1, MinePrime DEF SparesStream
        <5> QED BY <4>2, <5>2, <3>1 DEF Held
      <4>3. CASE k # "row" /\ z = p
        <5>1. k = "act" /\ ln = link /\ v = Depth BY <4>3, <3>1, <2>2, <2>4 DEF Held
        <5>2. Held("row", c, ln, v) BY <5>1, <2>1 DEF Held
        <5> QED BY <5>1, <5>2, <4>3, <2>9
      <4> QED BY <4>1, <4>2, <4>3
    <3>2. \A h \in Stored \cap Stored' :
           rows'[h].loop = rows[h].loop /\ rows'[h].level = rows[h].level
      BY <2>5
    <3>3. ASSUME NEW k, NEW z, NEW ln, NEW v, Held(k, z, ln, v)', ln.host \in Stored \ Stored'
          PROVE  FALSE
      <4>1. ln.host = c BY <3>3, <2>5 DEF S
      <4>2. PICK j, y : Held(j, y, ln, v) BY <3>1, <3>3
      <4>3. rows[c].loop = ln.loop /\ (ln.loop = 0 => ln.host = 0)
        BY <4>1, <4>2, <2>1 DEF Inv, Global, Tokens, TokenFits, TokenShape
      <4>4. rows[c].loop = 0 BY <2>1
      <4>5. ln.host = 0 BY <4>3, <4>4
      <4> QED BY <4>1, <4>5, <2>7
    <3>4. TokenMoves("row", c, "act", p) BY <3>1 DEF TokenMoves
    <3> QED BY <3>2, <3>3, <3>4, <2>14, TokensMove
  <2>16. PlaceOnce' /\ PlaceRuns' /\ NoneYet'
    <3>1. \A h \in Hosts' : h \in Hosts /\ rows'[h].loop = rows[h].loop
      BY <2>5 DEF Hosts
    <3>2. \A a, z, k, l : Place(a, z, k, l)' => Place(a, z, k, l)
      BY <3>1, <2>2, <2>6, <2>11, PlacesOf
    <3>3. Running' = Running /\ Unused' = Unused BY <1>1 DEF Running, Unused
    <3>4. \A z, k, l : Place("live", z, k, l)' /\ pc[z] = "turn" /\ k = Lvl(z) =>
           Done(l) < MaxIterations \/ (pc'[z] = "turn" /\ k = Lvl(z)')
      <4> SUFFICES ASSUME NEW z, NEW k, NEW l, Place("live", z, k, l)', pc[z] = "turn", k = Lvl(z)
                   PROVE  pc'[z] = "turn" /\ k = Lvl(z)'
        OBVIOUS
      <4>1. z \in Streams \ {p} BY <1>1 DEF Place
      <4> QED BY <4>1, <2>11 DEF OnlyStream, SparesStream, Lvl
    <3>5. PlaceOnce' /\ PlaceRuns' BY <3>2, <3>3, <3>4, <1>1, PlacesVanish
    <3>6. NoneYet' BY <3>3, <1>1 DEF NoneYet, Inv, Global
    <3> QED BY <3>5, <3>6
  <2>17. worker'[p].releasing => worker'[p].id \in C BY <2>2 DEF C
  <2> QED BY <1>3, <2>6, <2>10, <2>15, <2>16, <2>17, <2>18, FewerStep
<1> QED BY <1>4, <1>5

\* Checkpoints go, with the rights and the loops that went with them.
LEMMA VanishStep ==
  ASSUME Inv, NEW p \in Streams, Move(p), NEW S, NEW A,
         Deletes(p, S, {}, A), recorded' = recorded,
         worker'[p] \in {worker[p], NoWorker},
         Suspending(p)' => Suspending(p) /\ child'[p] = child[p],
         Bearing(p)' => Bearing(p) /\ act'[p].link = act[p].link /\ act'[p].top = act[p].top,
         pc'[p] \notin {"record", "link"}, pc[p] \notin {"record", "turn"} \/ Away(p)',
         pc[p] = "record" => act[p].link.loop \notin Running',
         \A k \in Levels : Live(p, k)' => Live(p, k) /\ Cur(p, k)' = Cur(p, k),
         ~Passing(p), Local(p)',
         \A h \in Hosts \cap S : rows[h].loop \notin Running',
         \A l \in Running \ Running' :
           \/ \E k \in Levels : Live(p, k) /\ l = Cur(p, k) /\ ~(Live(p, k)' /\ l = Cur(p, k)')
           \/ \E h \in Hosts \cap S : rows[h].loop = l
           \/ pc[p] = "record" /\ l = act[p].link.loop
  PROVE  Inv'
<1>1. Stored' = Stored \ S /\ \A i \in Stored' : rows'[i] = rows[i]
  BY DeleteStored DEF Deletes
<1>2. OnlyStream(p) /\ \A l \in Loops : status[l] # "none" =>
        status'[l] # "none" /\ (status'[l] = "running" => status[l] = "running")
  BY MoveOthers DEF Inv, Global
<1>3. claimed' = claimed \ S BY DEF Deletes
<1>4. Keeps BY <1>2, FewerOthers
<1>5. worker'[p].releasing => worker[p].releasing /\ worker'[p].id = worker[p].id
  BY DEF NoWorker
<1>6. Tokens'
  <2>1. \A k, z, ln, v : Held(k, z, ln, v)' => Held(k, z, ln, v)
    <3>1. \A i \in Stored' \ claimed' : i \in Stored \ claimed
             /\ rows'[i].link = rows[i].link /\ rows'[i].level = rows[i].level
      BY <1>1, <1>3
    <3> QED BY <3>1, <1>2, TokensOf
  <2>2. \A q \in Streams : pc[q] = "record" /\ act[q].link.loop \in Running' => pc'[q] = "record"
    BY <1>2 DEF OnlyStream, SparesStream
  <2>3. \A h \in Stored \cap Stored' :
           rows'[h].loop = rows[h].loop /\ rows'[h].level = rows[h].level
    BY <1>1
  <2>4. \A h \in Hosts \ Stored' : rows[h].loop \notin Running' BY <1>1 DEF Hosts
  <2> QED BY <2>1, <2>2, <2>3, <2>4, <1>4, TokensVanish
<1>7. PlaceOnce' /\ PlaceRuns'
  <2>1. \A h \in Hosts' : h \in Hosts /\ rows'[h].loop = rows[h].loop
    BY <1>1 DEF Hosts
  <2>2. \A a, z, k, l : Place(a, z, k, l)' => Place(a, z, k, l)
    BY <2>1, <1>2, PlacesOf
  <2>3. ASSUME NEW z, NEW k, NEW l, Place("live", z, k, l)', pc[z] = "turn", k = Lvl(z)
        PROVE  pc'[z] = "turn" /\ k = Lvl(z)'
    <3>1. z \in Streams \ {p}
      <4>1. ~(Away(p)' /\ z = p) BY <2>3, AwayParts DEF Place
      <4> QED BY <4>1, <2>3 DEF Place
    <3> QED BY <3>1, <2>3, <1>2 DEF OnlyStream, SparesStream, Lvl
  <2>4. ASSUME NEW l \in Running \ Running'
        PROVE  \E a, z, k : Place(a, z, k, l) /\ ~Place(a, z, k, l)'
    <3>1. CASE \E k \in Levels : Live(p, k) /\ l = Cur(p, k) /\ ~(Live(p, k)' /\ l = Cur(p, k)')
      <4>1. PICK k \in Levels : Live(p, k) /\ l = Cur(p, k) /\ ~(Live(p, k)' /\ l = Cur(p, k)')
        BY <3>1
      <4>2. Place("live", p, k, l) BY <4>1 DEF Place
      <4>3. ~Place("live", p, k, l)' BY <4>1 DEF Place
      <4> QED BY <4>2, <4>3
    <3>2. CASE \E h \in Hosts \cap S : rows[h].loop = l
      <4>1. PICK h \in Hosts \cap S : rows[h].loop = l BY <3>2
      <4>2. Place("host", h, 0, l) BY <4>1 DEF Place
      <4>3. ~Place("host", h, 0, l)' BY <4>1, <1>1 DEF Place, Hosts
      <4> QED BY <4>2, <4>3
    <3>3. CASE pc[p] = "record" /\ l = act[p].link.loop
      <4>2. Place("record", p, 0, l) BY <3>3 DEF Place
      <4>3. ~Place("record", p, 0, l)' BY DEF Place
      <4> QED BY <4>2, <4>3
    <3> QED BY <3>1, <3>2, <3>3
  <2> QED BY <2>2, <2>3, <2>4, PlacesVanish
<1>8. NoneYet'
  <2>1. Unused' \subseteq Unused BY <1>2 DEF Unused
  <2> QED BY <2>1 DEF NoneYet, Inv, Global
<1> QED BY <1>5, <1>6, <1>7, <1>8, FewerStep

LEMMA AwayFewer ==
  ASSUME Inv, NEW p \in Streams, Move(p), NEW S, NEW A,
         Deletes(p, S, {}, A), recorded' = recorded,
         Away(p)', Local(p)', worker'[p] \in {worker[p], NoWorker}, ~Passing(p),
         pc[p] # "record",
         \A h \in Hosts \cap S : rows[h].loop \notin Running',
         \A l \in Running \ Running' :
           \/ \E k \in Levels : Live(p, k) /\ l = Cur(p, k)
           \/ \E h \in Hosts \cap S : rows[h].loop = l
  PROVE  Inv'
<1>1. /\ ~Bearing(p)' /\ ~Suspending(p)' /\ pc'[p] \notin {"record", "link"}
      /\ \A k : ~Live(p, k)'
  BY AwayParts
<1>2. \A l \in Running \ Running' :
           \/ \E k \in Levels : Live(p, k) /\ l = Cur(p, k) /\ ~(Live(p, k)' /\ l = Cur(p, k)')
           \/ \E h \in Hosts \cap S : rows[h].loop = l
           \/ pc[p] = "record" /\ l = act[p].link.loop
  BY <1>1
<1> QED BY <1>1, <1>2, VanishStep

\* The worker of a resume is its own.
LEMMA FreedOwn ==
  ASSUME Inv, NEW p \in Streams, Freed(p)
  PROVE  /\ worker[p].id \in Stored \cap claimed /\ rows[worker[p].id].loop = 0
         /\ worker[p].id \notin Hosts
         /\ \A q \in Streams \ {p} : ~Of(q, worker[p].id)
<1>1. worker[p].id \in Mine(p) BY DEF Freed, Mine
<1>2. worker[p].id \in claimed BY DEF Freed, Inv, Local, WorkerOK
<1> QED BY <1>1, <1>2, MineStored, Disjoint DEF Hosts

LEMMA YieldSurfaces ==
  ASSUME Inv, NEW p \in Streams, YieldRequired(p), Move(p), ~(Lvl(p) > act[p].top)
  PROVE  Inv'
<1>1. /\ pc[p] = "yield" /\ Release(p) /\ Leave(p)
      /\ announced' = announced \cup IF Surfaces(p) THEN {child[p]} ELSE {}
      /\ UNCHANGED <<issued, status, recorded, answered, happened>>
  BY DEF YieldRequired
<1>2. /\ pc[p] \in Asking /\ Suspending(p) /\ Stacked(p) /\ ~Passing(p)
  BY <1>1 DEF Asking, Suspending, Stacked, Passing
<1>3. ~(act[p].top < Lvl(p)) /\ Lvl(p) \in Nat /\ act[p].top \in Nat
  BY ActType, SizeAssumption DEF Inv, Global, Levels
<1>4. \A i \in Unlinked : Leaf(i) # {child[p]}
  BY <1>1, <1>2, <1>3 DEF Inv, Local, Chain
<1> DEFINE S == IF Freed(p) THEN {worker[p].id} ELSE {}
           A == IF Surfaces(p) THEN {child[p]} ELSE {}
<1>5. rows' = Without(S) /\ claimed' = claimed \ S BY <1>1 DEF Release
<1>6. announced' = announced \cup A BY <1>1
<1>7. \A q \in Streams \ {p} : \A i \in S : ~Of(q, i) BY FreedOwn
<1>8. Hosts \cap S = {} BY FreedOwn
<1>9. A # {} => A = {child[p]} OBVIOUS
<1> HIDE DEF S, A
<1>10. issued' \in Nat BY <1>1, SizeAssumption DEF Inv, Global, Types, TypeOK
<1>11. Local(p)' /\ Away(p)' /\ worker'[p] = NoWorker BY <1>1, <1>10, LeaveLocal
<1>12. Running' = Running BY <1>1 DEF Running
<1>13. Deletes(p, S, {}, A) BY <1>1, <1>2, <1>4, <1>5, <1>6, <1>7, <1>9 DEF Deletes
<1> QED BY <1>1, <1>2, <1>8, <1>11, <1>12, <1>13, AwayFewer

LEMMA YieldBelow ==
  ASSUME Inv, NEW p \in Streams, YieldRequired(p), Move(p), Lvl(p) > act[p].top
  PROVE  Inv'
<1> DEFINE k == Lvl(p) - 1
<1>1. /\ pc[p] = "yield" /\ pc'[p] = "suspending"
      /\ act' = [act EXCEPT ![p].lvl = @ - 1]
      /\ UNCHANGED <<rows, claimed, worker, child, snap, frames>>
      /\ announced' = announced \cup IF Surfaces(p) THEN {child[p]} ELSE {}
      /\ UNCHANGED <<issued, status, recorded, answered, happened>>
  BY DEF YieldRequired, Inv, Global, Types, TypeOK
<1>2. /\ Levels \subseteq Nat /\ Lvl(p) \in Levels /\ act[p].top \in Levels /\ Depth \in Nat
      /\ k \in Levels /\ act[p].top <= k /\ k < Lvl(p) /\ Lvl(p) = k + 1 /\ k < Depth
      /\ Lvl(p) # act[p].top /\ k \in Nat
  <2>1. Lvl(p) \in 1..Depth /\ act[p].top \in 1..Depth BY ActType DEF Inv, Global, Levels
  <2> QED BY <2>1, SizeAssumption DEF Levels
<1>3. Still
  <2>1. ~Surfaces(p) BY <1>2 DEF Surfaces
  <2>2. announced' = announced BY <1>1, <2>1
  <2> QED BY <1>1, <2>2 DEF Still
<1>4. /\ act'[p].lvl = k /\ act'[p].top = act[p].top /\ act'[p].link = act[p].link
      /\ act'[p].cur = act[p].cur /\ act'[p].open = act[p].open
  <2>1. act[p] \in Activation /\ act \in [Streams -> Activation]
    BY DEF Inv, Global, Types, TypeOK
  <2> QED BY <2>1, <1>1 DEF Activation, Lvl
<1> HIDE DEF k
<1>5. /\ pc[p] \in Asking /\ Suspending(p) /\ Stacked(p) /\ Bearing(p) /\ ~Passing(p)
      /\ \A j : Live(p, j) <=> act[p].top <= j /\ j <= Lvl(p) /\ Cur(p, j) # 0 /\ j < Lvl(p)
  <2>1. pc[p] \in Asking BY <1>1 DEF Asking
  <2> QED BY <2>1, <1>1, <1>2, AskingParts DEF Passing
<1>6. /\ Suspending(p)' /\ Stacked(p)' /\ ~Closing(p)'
      /\ \A j : Live(p, j)' <=> act[p].top <= j /\ j <= k /\ Cur(p, j) # 0
  BY <1>1, <1>4 DEF Suspending, Stacked, Closing, Live, Lvl, Cur
<1>7. Stored' = Stored /\ Unlinked' = Unlinked /\ \A i : Leaf(i)' = Leaf(i)
  BY <1>3, StillStored
<1>8. StackOK(p) /\ WorkerOK(p) /\ ChildOK(p) /\ Carried(p) /\ Chain(p)
  BY DEF Inv, Local
<1>9. \A j \in Levels : j <= k => j < Lvl(p) BY <1>2
<1>10. StackOK(p)'
  <2>1. \A j \in Levels : act[p].top <= j /\ j <= k => Cur(p, j) = Open(p, j) /\ Cur(p, j) # 0
    BY <1>5, <1>8, <1>9 DEF StackOK
  <2>2. \A j \in Levels : act'[p].top <= j /\ j < act'[p].lvl =>
          act'[p].cur[j] = act'[p].open[j] /\ act'[p].cur[j] # 0
    <3>1. \A j \in Levels : j < k => j <= k BY <1>2
    <3> QED BY <2>1, <3>1, <1>4 DEF Cur, Open
  <2>3. act'[p].cur[k] = act'[p].open[k] /\ act'[p].cur[k] # 0
    BY <2>1, <1>2, <1>4 DEF Cur, Open
  <2>4. act'[p].cur[Depth] = 0 BY <1>4, <1>5, <1>8 DEF StackOK, Cur
  <2>5. act'[p].link.host <= issued' BY <1>1, <1>4, <1>8 DEF StackOK
  <2> QED BY <2>2, <2>3, <2>4, <2>5, <1>1, <1>2, <1>4 DEF StackOK, Cur, Open, Lvl
<1>11. WorkerOK(p)' BY <1>1, <1>7, <1>8 DEF WorkerOK
<1>12. ChildOK(p)' BY <1>1, <1>3, <1>5, <1>7, <1>8 DEF ChildOK, Still
<1>13. Carried(p)' BY <1>1, <1>4, <1>5, <1>7, <1>8 DEF Carried
<1>14. ClaimOK(p)' /\ ClosingOK(p)' /\ Linking(p)' /\ Tip(p)' /\ Saving(p)'
  BY <1>1, <1>6 DEF ClaimOK, ClosingOK, Linking, Tip, Saving
<1>15. Chain(p)'
  <2>1. \A i \in Unlinked : Leaf(i) = {child[p]} =>
          rows[i].level = k + 1 /\ rows[i].link.loop = act[p].cur[k]
    <3>1. Lvl(p) - 1 = k BY DEF k
    <3> QED BY <3>1, <1>1, <1>2, <1>5, <1>8 DEF Chain, Cur
  <2>2. \A i, j \in Unlinked : Leaf(i) = {child[p]} /\ Leaf(j) = {child[p]} => i = j
    BY <1>1, <1>5, <1>8 DEF Chain
  <2> QED BY <2>1, <2>2, <1>1, <1>4, <1>7 DEF Chain, Cur, Lvl
<1>16. FramesOver(p)'
  BY <1>1, <1>4, <1>6, FramesNext DEF Cur
<1>17. Local(p)' BY <1>10, <1>11, <1>12, <1>13, <1>14, <1>15, <1>16 DEF Local
<1>18. PlaceOnce' /\ PlaceRuns' /\ NoneYet'
  <2>1. Running' = Running BY <1>1 DEF Running
  <2>2. \A j \in Levels : Live(p, j)' => Live(p, j) /\ Cur(p, j)' = Cur(p, j)
    BY <1>4, <1>5, <1>6, <1>9, <1>2 DEF Cur
  <2> QED BY <2>1, <2>2, <1>1, <1>3, PlacesStep
<1>19. /\ Types' /\ Tokens' /\ Issued' /\ Singles' /\ Claims' /\ Above' /\ Told'
       /\ \A q \in Streams : Local(q)'
  BY <1>1, <1>3, <1>4, <1>5, <1>17, StillStep
<1> QED BY <1>18, <1>19, InvNext

LEMMA YieldRequiredKeeps ==
  ASSUME Inv, NEW p \in Streams, YieldRequired(p), Move(p)
  PROVE  Inv'
  BY YieldBelow, YieldSurfaces

LEMMA ClaimHostKeeps ==
  ASSUME Inv, NEW p \in Streams, ClaimHost(p), Move(p)
  PROVE  Inv'
<1> DEFINE h == act[p].link.host
<1>1. /\ pc[p] = "host" /\ UNCHANGED <<issued, status, recorded, clientVars, act, child, snap,
                                      frames, worker>>
  BY DEF ClaimHost
<1>2. Closing(p) /\ Bearing(p) /\ ~Passing(p) /\ ~Stacked(p) /\ ~Suspending(p)
  BY <1>1 DEF Closing, Bearing, Passing, Stacked, Suspending, Asking
<1>3. announced' = announced /\ Running' = Running BY <1>1 DEF clientVars, Running
<1>4. CASE UNCHANGED <<rows, claimed>> /\ pc'[p] = "throwing"
  <2>1. Still BY <1>1, <1>4, <1>3 DEF Still
  <2> QED BY <2>1, <1>1, <1>2, <1>3, <1>4, ThrowStep
<1>5. CASE h \in Stored /\ rows' = Without({h}) /\ claimed' = claimed \ {h} /\ pc'[p] = "record"
  <2> DEFINE r == Read(p)
  <2>1. /\ ClosingOK(p) /\ Carried(p) /\ StackOK(p) /\ WorkerOK(p) /\ FramesOver(p)
    BY DEF Inv, Local
  <2>2. /\ DOMAIN snap[p] = {h} /\ r.loop = act[p].link.loop /\ r.level = act[p].top - 1
        /\ r.pending = {worker[p].id} /\ rows[h] = r /\ h # 0
    BY <2>1, <1>1, <1>2, <1>5 DEF ClosingOK
  <2>3. /\ worker[p].releasing /\ worker[p].id \in claimed /\ worker[p].id \in Mine(p)
    BY <2>1, <1>2, <1>5 DEF Carried, WorkerOK, Mine
  <2>4. h \in Hosts /\ h \notin claimed /\ rows[h].loop = act[p].link.loop /\ rows[h].loop # 0
        /\ Leaf(h) = {worker[p].id} /\ Of(p, h)
    <3>1. rows[h].loop = act[p].link.loop /\ act[p].link.loop # 0
      BY <2>2, <1>2, <1>5, ActToken DEF Inv, Global
    <3>2. h \in Hosts BY <3>1, <1>5 DEF Hosts
    <3>3. Leaf(h) = {worker[p].id} BY <3>1, <2>2 DEF Leaf
    <3> QED BY <3>1, <3>2, <3>3, <2>3, <1>5 DEF Of, Inv, Global, Claims
  <2>5. OnlyStream(p) /\ \A l \in Loops : status[l] # "none" =>
        status'[l] # "none" /\ (status'[l] = "running" => status[l] = "running")
    BY MoveOthers DEF Inv, Global
  <2>6. Deletes(p, {h}, {}, {})
    <3>1. \A q \in Streams \ {p} : ~Of(q, h) BY <2>4, Disjoint
    <3> QED BY <3>1, <1>1, <1>3, <1>5 DEF Deletes
  <2>7. Stored' = Stored \ {h} /\ (\A i \in Stored' : rows'[i] = rows[i]) /\ claimed' = claimed
    BY <1>5, <2>4, DeleteStored
  <2>8. Read(p)' = r /\ act'[p] = act[p] /\ worker'[p] = worker[p] /\ snap'[p] = snap[p]
        /\ pc'[p] = "record"
    BY <1>1, <1>5 DEF Read
  <2>9. /\ Closing(p)' /\ Bearing(p)' /\ ~Stacked(p)' /\ ~Suspending(p)' /\ \A k : ~Live(p, k)'
    BY <2>8 DEF Closing, Bearing, Stacked, Suspending, Asking, Live
  <2>10. Keeps BY <2>5, <2>6, FewerOthers
  <2> HIDE DEF h, r
  <2>11. Whole(h)
    <3>1. worker[p].id \in rows[h].pending BY <2>2
    <3> QED BY <3>1, <2>3, <2>4 DEF Inv, Global, Told
  <2>12. Held("row", h, r.link, r.level) BY <1>5, <2>2, <2>4 DEF Held
  <2>13. r.link.host \in Stored =>
           r.link.host # h /\ rows[r.link.host].pending = {worker[p].id}
    <3> SUFFICES ASSUME r.link.host \in Stored
                 PROVE  r.link.host # h /\ rows[r.link.host].pending = {worker[p].id}
      OBVIOUS
    <3>1. r.link.host # h
      <4>1. r.link.host # 0 BY IdTypes DEF Stored
      <4>2. rows[h].link.host # act[p].link.host
        BY <1>2, <1>5, <2>2, <2>4, <4>1, OneRow DEF Inv, Global
      <4> QED BY <4>2, <2>2 DEF h
    <3>2. ~Orphan(h) BY <2>3, <2>4 DEF Orphan
    <3>3. \A q \in Streams : ~Handed(q, h)
      <4> SUFFICES ASSUME NEW q \in Streams, Handed(q, h) PROVE FALSE
        OBVIOUS
      <4>1. child[q] = worker[p].id /\ Suspending(q)
        BY <2>4 DEF Handed, Passing, Suspending, Asking
      <4> QED BY <4>1, <2>3 DEF Inv, Local, ChildOK
    <3>4. rows[r.link.host].pending = {worker[p].id}
      BY <1>5, <2>2, <2>4, <3>2, <3>3 DEF Inv, Global, Above
    <3> QED BY <3>1, <3>4
  <2>14. Local(p)'
    <3>1. StackOK(p)' BY <1>1, <2>1, <2>8, <2>9 DEF StackOK
    <3>2. WorkerOK(p)' BY <1>1, <2>1, <2>3, <2>7, <2>8 DEF WorkerOK
    <3>3. ChildOK(p)' /\ Linking(p)' /\ Tip(p)' /\ Saving(p)' /\ Chain(p)' /\ ClaimOK(p)'
      BY <2>8, <2>9 DEF ChildOK, Linking, Tip, Saving, Chain, ClaimOK
    <3>4. FramesOver(p)'
      BY <1>1, <1>2, <2>8, FramesNext
    <3>5. Carried(p)' BY <2>7, <2>8 DEF Carried, h
    <3>6. ClosingOK(p)'
      <4>1. r.link.host \in Stored' => worker[p].releasing /\ rows'[r.link.host].pending = {worker[p].id}
        BY <2>3, <2>7, <2>13
      <4>2. h \notin Stored' BY <2>7
      <4> QED BY <4>1, <4>2, <2>2, <2>8 DEF ClosingOK, h
    <3> QED BY <3>1, <3>2, <3>3, <3>4, <3>5, <3>6 DEF Local
  <2>15. Tokens'
    <3>1. ASSUME NEW k, NEW z, NEW ln, NEW v, Held(k, z, ln, v)'
          PROVE  \/ /\ Held(k, z, ln, v) /\ ~(k = "row" /\ z = h)
                    /\ k = "act" /\ pc[z] = "record" /\ ln.loop \in Running' => pc'[z] = "record"
                 \/ /\ k = "read" /\ z = p /\ Held("row", h, ln, v)
                    /\ ln.host = 0 => ln.loop = 0
      <4>1. CASE k = "row"
        <5>1. z \in Stored' \ claimed' /\ ln = rows'[z].link /\ v = rows'[z].level
          BY <3>1, <4>1 DEF Held
        <5>2. z \in Stored \ claimed /\ z # h /\ rows'[z] = rows[z]
          BY <5>1, <2>7
        <5> QED BY <5>1, <5>2, <4>1 DEF Held
      <4>2. CASE k # "row" /\ z # p
        <5>1. z \in Streams /\ SparesStream(z) BY <3>1, <4>2, <2>5 DEF Held, OnlyStream
        <5>2. /\ pc'[z] = pc[z] /\ act'[z] = act[z] /\ snap'[z] = snap[z]
              /\ Bearing(z)' = Bearing(z) /\ Read(z)' = Read(z)
          BY <5>1, MinePrime DEF SparesStream
        <5> QED BY <4>2, <5>2, <3>1 DEF Held
      <4>3. CASE k = "act" /\ z = p
        <5>1. Held(k, z, ln, v) BY <4>3, <3>1, <2>8, <1>2 DEF Held
        <5> QED BY <5>1, <4>3, <2>8
      <4>4. CASE k \notin {"row", "act"} /\ z = p
        <5>1. k = "read" /\ ln = r.link /\ v = r.level BY <4>4, <3>1, <2>8 DEF Held
        <5> QED BY <5>1, <4>4, <2>2, <2>11, <2>12 DEF Whole
      <4> QED BY <4>1, <4>2, <4>3, <4>4
    <3>2. \A i \in Stored \cap Stored' :
           rows'[i].loop = rows[i].loop /\ rows'[i].level = rows[i].level
      BY <2>7
    <3>3. ASSUME NEW k, NEW z, NEW ln, NEW v, Held(k, z, ln, v)', ln.host \in Stored \ Stored'
          PROVE  k = "act" /\ pc'[z] = "record"
      <4>1. ln.host = h BY <3>3, <2>7
      <4>2. Held("act", p, act[p].link, act[p].top) BY <1>2 DEF Held
      <4>3. \A j, y : Held(j, y, ln, v) => j = "act" /\ y = p
        BY <4>1, <4>2, <2>2 DEF Inv, Global, Tokens, TokenOnce, h
      <4>4. Held(k, z, ln, v) \/ Held("row", h, ln, v) BY <3>1, <3>3
      <4>5. ~Held("row", h, ln, v)
        <5>1. "row" # "act" OBVIOUS
        <5> QED BY <5>1, <4>3
      <4> QED BY <4>3, <4>4, <4>5, <2>8
    <3>4. TokenMoves("row", h, "read", p) BY <3>1 DEF TokenMoves
    <3> QED BY <3>2, <3>3, <3>4, <2>10, TokensMove
  <2>16. PlaceOnce' /\ PlaceRuns' /\ NoneYet'
    <3>1. ASSUME NEW a, NEW z, NEW k, NEW l, Place(a, z, k, l)'
          PROVE  \/ /\ Place(a, z, k, l) /\ ~(a = "host" /\ z = h /\ k = 0)
                    /\ (a = "live" /\ pc[z] = "turn" /\ k = Lvl(z)) =>
                         Done(l) < MaxIterations \/ (pc'[z] = "turn" /\ k = Lvl(z)')
                 \/ /\ a = "record" /\ z = p /\ k = 0 /\ Place("host", h, 0, l)
                    /\ Done(l)' < MaxIterations \/ (a = "live" /\ pc'[z] = "turn" /\ k = Lvl(z)')
      <4>1. CASE a = "host"
        <5>1. z \in Hosts' /\ k = 0 /\ l = rows'[z].loop BY <3>1, <4>1 DEF Place
        <5>2. z \in Hosts /\ z # h /\ rows'[z] = rows[z] BY <5>1, <2>7 DEF Hosts
        <5> QED BY <5>1, <5>2, <4>1 DEF Place
      <4>2. CASE a # "host" /\ z # p
        <5>1. z \in Streams /\ SparesStream(z) BY <3>1, <4>2, <2>5 DEF Place, OnlyStream
        <5>2. /\ pc'[z] = pc[z] /\ act'[z] = act[z] /\ Lvl(z)' = Lvl(z)
              /\ Stacked(z)' = Stacked(z) /\ \A j : Cur(z, j)' = Cur(z, j)
          BY <5>1, MinePrime DEF SparesStream
        <5>3. \A j : Live(z, j)' = Live(z, j) BY <5>2 DEF Live
        <5>4. Place(a, z, k, l) BY <5>1, <5>2, <5>3, <4>2, <3>1 DEF Place
        <5> QED BY <5>4, <5>2, <4>2
      <4>3. CASE a # "host" /\ z = p
        <5>1. a = "record" /\ k = 0 /\ l = act[p].link.loop BY <4>3, <3>1, <2>8, <2>9 DEF Place
        <5>2. Place("host", h, 0, l) BY <5>1, <2>4 DEF Place
        <5>3. Done(l) < MaxIterations
          <6>1. "host" # "live" OBVIOUS
          <6> QED BY <5>2, <6>1 DEF Inv, Global, PlaceRuns
        <5>4. Done(l)' = Done(l) BY <1>1 DEF Done
        <5> QED BY <5>1, <5>2, <5>3, <5>4, <4>3
      <4> QED BY <4>1, <4>2, <4>3
    <3>2. PlaceMoves("host", h, 0, "record", p, 0) BY <3>1 DEF PlaceMoves
    <3>3. \A l \in Loops : Done(l)' = Done(l) BY <1>1 DEF Done
    <3>4. PlaceOnce' /\ PlaceRuns' BY <3>2, <3>3, <1>3, PlacesMove
    <3>5. NoneYet' BY <1>1 DEF NoneYet, Unused, Inv, Global
    <3> QED BY <3>4, <3>5
  <2> QED BY <1>2, <2>6, <2>8, <2>9, <2>14, <2>15, <2>16, FewerStep
<1>6. (UNCHANGED <<rows, claimed>> /\ pc'[p] = "throwing")
      \/ (h \in Stored /\ rows' = Without({h}) /\ claimed' = claimed \ {h} /\ pc'[p] = "record")
  BY DEF ClaimHost, Inv, Global, Types, TypeOK
<1> QED BY <1>4, <1>5, <1>6

LEMMA RecordIterationKeeps ==
  ASSUME Inv, NEW p \in Streams, RecordIteration(p), Move(p)
  PROVE  Inv'
<1> DEFINE r == Read(p)
           l == act[p].link.loop
           k == act[p].top - 1
           S == IF Freed(p) THEN {worker[p].id} ELSE {}
           f == [link |-> r.link, loop |-> l, open |-> TRUE,
                 child |-> CHOOSE c \in r.pending : TRUE]
<1>1. /\ pc[p] = "record" /\ pc'[p] = "turn"
      /\ rows' = Without(S) /\ claimed' = claimed \ S
      /\ recorded' = [recorded EXCEPT ![l] = Append(@, act[p].link.iter)]
      /\ worker'[p] = [worker[p] EXCEPT !.releasing = @ /\ ~Freed(p)]
      /\ frames'[p] = Append(frames[p], f)
      /\ act'[p] = [NoAct EXCEPT !.top = k, !.lvl = k, !.link = r.link, !.step[k] = r.link.step,
                        !.cur[k] = IF l \in Running THEN l ELSE 0]
      /\ UNCHANGED <<issued, status, clientVars, child, happened>>
  BY DEF RecordIteration, Release, Read, Inv, Global, Types, TypeOK
<1>2. announced' = announced /\ Running' = Running /\ Unused' = Unused
  BY <1>1 DEF clientVars, Running, Unused
<1>3. Closing(p) /\ Bearing(p) /\ ~Passing(p) /\ ~Stacked(p) /\ ~Suspending(p)
  BY <1>1 DEF Closing, Bearing, Passing, Stacked, Suspending, Asking
<1>4. /\ ClosingOK(p) /\ StackOK(p) /\ WorkerOK(p) /\ FramesOver(p)
  BY DEF Inv, Local
<1>5. /\ DOMAIN snap[p] = {act[p].link.host} /\ r.level = k /\ r.pending = {worker[p].id}
      /\ act[p].link.host # 0
      /\ (r.link.host \in Stored =>
            worker[p].releasing /\ rows[r.link.host].pending = {worker[p].id})
  BY <1>1, <1>3, <1>4 DEF ClosingOK
<1>6. r \in Row /\ r.level \in Levels /\ r.link \in Link /\ r.link.host \in 0..MaxRows
      /\ r.link.step \in 1..Steps
  <2>1. r \in Row BY <1>5 DEF Read, Inv, Global, Types, TypeOK
  <2> HIDE DEF r
  <2>2. r.level \in Levels /\ r.link \in Link BY <2>1 DEF Row
  <2> QED BY <2>1, <2>2 DEF Link
<1>7. Place("record", p, 0, l) BY <1>1 DEF Place
<1>8. l \in Running /\ l \in Loops /\ l # 0 /\ status[l] # "none" /\ l \notin Unused
  <2>1. l \in Running BY <1>7 DEF Inv, Global, PlaceRuns
  <2> QED BY <2>1, IdTypes DEF Running, Unused
<1>9. /\ r.link.loop = 0 <=> r.link.host = 0
      /\ r.link.host <= issued
      /\ r.link.host \in Stored => rows[r.link.host].loop = r.link.loop
  BY <1>1, ReadToken DEF Inv, Global
<1>10. k \in Levels /\ k < Depth /\ Levels \subseteq Nat /\ Depth \in Levels
  <2>1. act[p].top \in 1..Depth BY ActType DEF Inv, Global, Levels
  <2> QED BY <2>1, <1>5, <1>6, SizeAssumption DEF Levels
<1> HIDE DEF r, l, k
<1>11. /\ act'[p].top = k /\ act'[p].lvl = k /\ act'[p].link = r.link
       /\ \A j \in Levels : act'[p].cur[j] = IF j = k THEN l ELSE 0
       /\ \A j \in Levels : act'[p].open[j] = 0
  BY <1>1, <1>8, <1>10 DEF NoAct
<1>12. worker'[p].id = worker[p].id /\ worker'[p].releasing = (worker[p].releasing /\ ~Freed(p))
  <2>1. worker[p] \in [id : 0..MaxRows, link : Link, releasing : BOOLEAN]
    BY DEF Inv, Global, Types, TypeOK
  <2> QED BY <2>1, <1>1
<1>13. /\ \A q \in Streams \ {p} : \A i \in S : ~Of(q, i)
       /\ \A i \in S : i \in Stored \cap claimed /\ rows[i].loop = 0 /\ i \notin Hosts
  BY FreedOwn
<1>14. Deletes(p, S, {}, {})
  <2> HIDE DEF S
  <2> QED BY <1>1, <1>2, <1>13 DEF Deletes
<1>15. OnlyStream(p) /\ \A m \in Loops : status[m] # "none" =>
        status'[m] # "none" /\ (status'[m] = "running" => status[m] = "running")
  BY MoveOthers DEF Inv, Global
<1>16. Keeps BY <1>14, <1>15, FewerOthers
<1>17. Stored' = Stored \ S /\ (\A i \in Stored' : rows'[i] = rows[i])
  BY <1>1, DeleteStored
<1>18. /\ Stacked(p)' /\ Bearing(p)' /\ ~Suspending(p)' /\ ~Closing(p)'
       /\ \A j \in Levels : Live(p, j)' => j = k /\ Cur(p, j)' = l
  BY <1>1, <1>10, <1>11 DEF Stacked, Bearing, Suspending, Closing, Asking, Live, Cur, Lvl
<1>19. Local(p)'
  <2>1. StackOK(p)'
    <3>1. act'[p].link.host <= issued' BY <1>1, <1>9, <1>11
    <3>2. act'[p].cur[Depth] = 0 BY <1>10, <1>11
    <3>3. \A j \in Levels : ~(k <= j /\ j < k) BY <1>10
    <3> QED BY <1>1, <1>10, <1>11, <3>1, <3>2, <3>3 DEF StackOK, Asking, Lvl, Cur, Open
  <2>2. WorkerOK(p)'
    <3>1. worker'[p].releasing => worker[p].id \in claimed'
      BY <1>1, <1>4, <1>12 DEF WorkerOK
    <3>2. ~worker'[p].releasing => worker[p].id \notin Stored'
      BY <1>4, <1>12, <1>17 DEF WorkerOK
    <3> QED BY <3>1, <3>2, <1>1, <1>4, <1>12 DEF WorkerOK
  <2>3. Carried(p)'
    <3> SUFFICES ASSUME r.link.host \in Stored'
                 PROVE  worker'[p].releasing /\ rows'[r.link.host].pending = {worker'[p].id}
      BY <1>11 DEF Carried
    <3>1. r.link.host \in Stored /\ rows'[r.link.host] = rows[r.link.host] BY <1>17
    <3>2. worker[p].releasing /\ rows[r.link.host].pending = {worker[p].id}
      BY <1>5, <3>1 DEF r
    <3>3. r.link.host \in Hosts
      <4>1. r.link.host # 0 BY <3>1, IdTypes DEF Stored
      <4> QED BY <4>1, <3>1, <1>9 DEF Hosts
    <3>4. ~Freed(p)
      <4>1. StillPending(worker[p].id) BY <3>2, <3>3 DEF StillPending
      <4> QED BY <4>1 DEF Freed
    <3> QED BY <3>1, <3>2, <3>4, <1>12
  <2>4. FramesOver(p)'
    <3>1. frames[p] \in Seq(Frame) BY DEF Inv, Global, Types, TypeOK
    <3>2. f.child = worker[p].id /\ f.loop = l BY <1>5 DEF r
    <3> HIDE DEF f
    <3>3. /\ Len(frames'[p]) = Len(frames[p]) + 1 /\ DOMAIN frames'[p] = 1..(Len(frames[p]) + 1)
          /\ \A n \in 1..Len(frames[p]) : frames'[p][n] = frames[p][n]
          /\ frames'[p][Len(frames[p]) + 1] = f
          /\ DOMAIN frames[p] = 1..Len(frames[p]) /\ Len(frames[p]) \in Nat
      BY <1>1, <3>1
    <3>4. ASSUME NEW n \in DOMAIN frames'[p]
          PROVE  LET g == frames'[p][n] IN
             /\ g.loop \in Loops /\ status'[g.loop] # "none" /\ g.child = worker'[p].id
             /\ g.loop \in Running' =>
                  n = Len(frames'[p]) /\ Stacked(p)' /\ act'[p].cur[act'[p].top] = g.loop
                  /\ (pc'[p] = "ended" => act'[p].top < act'[p].lvl)
      <4>1. CASE n = Len(frames[p]) + 1
        <5>1. frames'[p][n] = f BY <4>1, <3>3
        <5> QED BY <5>1, <4>1, <3>2, <3>3, <1>1, <1>8, <1>10, <1>11, <1>12, <1>18
      <4>2. CASE n # Len(frames[p]) + 1
        <5>1. n \in DOMAIN frames[p] /\ frames'[p][n] = frames[p][n] BY <4>2, <3>3
        <5> DEFINE g == frames[p][n]
        <5>2. /\ g.loop \in Loops /\ status[g.loop] # "none" /\ g.child = worker[p].id
              /\ g.loop \notin Running
          BY <5>1, <1>3, <1>4 DEF FramesOver
        <5> HIDE DEF g
        <5>3. frames'[p][n] = g BY <5>1 DEF g
        <5> QED BY <5>2, <5>3, <1>1, <1>2, <1>12
      <4> QED BY <4>1, <4>2
    <3> QED BY <3>4, <1>1 DEF FramesOver, Cur, Lvl
  <2>5. ChildOK(p)' /\ ClosingOK(p)' /\ Linking(p)' /\ Tip(p)' /\ Saving(p)' /\ Chain(p)'
        /\ ClaimOK(p)'
    BY <1>1, <1>18 DEF ChildOK, ClosingOK, Linking, Tip, Saving, Chain, ClaimOK
  <2> QED BY <2>1, <2>2, <2>3, <2>4, <2>5 DEF Local
<1>20. Tokens'
  <2>1. ASSUME NEW kk, NEW z, NEW ln, NEW v, Held(kk, z, ln, v)'
        PROVE  \/ /\ Held(kk, z, ln, v) /\ ~(kk = "read" /\ z = p)
                  /\ kk = "act" /\ pc[z] = "record" /\ ln.loop \in Running' => pc'[z] = "record"
               \/ /\ kk = "act" /\ z = p /\ Held("read", p, ln, v)
                  /\ ln.host = 0 => ln.loop = 0
    <3>1. CASE kk = "row"
      <4>1. z \in Stored' \ claimed' /\ ln = rows'[z].link /\ v = rows'[z].level
        BY <2>1, <3>1 DEF Held
      <4>2. z \in Stored \ claimed /\ rows'[z] = rows[z] BY <4>1, <1>1, <1>17
      <4> QED BY <4>1, <4>2, <3>1 DEF Held
    <3>2. CASE kk # "row" /\ z # p
      <4>1. z \in Streams /\ SparesStream(z) BY <2>1, <3>2, <1>15 DEF Held, OnlyStream
      <4>2. /\ pc'[z] = pc[z] /\ act'[z] = act[z] /\ snap'[z] = snap[z]
            /\ Bearing(z)' = Bearing(z) /\ Read(z)' = Read(z)
        BY <4>1, MinePrime DEF SparesStream
      <4> QED BY <3>2, <4>2, <2>1 DEF Held
    <3>3. CASE kk # "row" /\ z = p
      <4>1. kk = "act" /\ ln = r.link /\ v = k BY <3>3, <2>1, <1>1, <1>11 DEF Held
      <4>2. Held("read", p, ln, v) BY <4>1, <1>1, <1>5 DEF Held, r
      <4> QED BY <4>1, <4>2, <3>3, <1>9
    <3> QED BY <3>1, <3>2, <3>3
  <2>2. \A i \in Stored \cap Stored' :
         rows'[i].loop = rows[i].loop /\ rows'[i].level = rows[i].level
    BY <1>17
  <2>3. ASSUME NEW kk, NEW z, NEW ln, NEW v, Held(kk, z, ln, v)', ln.host \in Stored \ Stored'
        PROVE  FALSE
    <3>1. rows[ln.host].loop = 0 /\ ln.host # 0
      <4>1. ln.host \in S BY <2>3, <1>17
      <4> QED BY <4>1, <1>13, IdTypes DEF Stored
    <3>2. PICK j, y : Held(j, y, ln, v) BY <2>1, <2>3
    <3>3. rows[ln.host].loop = ln.loop /\ (ln.loop = 0 => ln.host = 0)
      BY <3>2, <2>3 DEF Inv, Global, Tokens, TokenFits, TokenShape
    <3> QED BY <3>1, <3>3
  <2>4. TokenMoves("read", p, "act", p) BY <2>1 DEF TokenMoves
  <2> QED BY <2>2, <2>3, <2>4, <1>16, TokensMove
<1>21. PlaceOnce' /\ PlaceRuns' /\ NoneYet'
  <2>1. ASSUME NEW a, NEW z, NEW j, NEW m, Place(a, z, j, m)'
        PROVE  \/ /\ Place(a, z, j, m) /\ ~(a = "record" /\ z = p /\ j = 0)
                  /\ (a = "live" /\ pc[z] = "turn" /\ j = Lvl(z)) =>
                       Done(m) < MaxIterations \/ (pc'[z] = "turn" /\ j = Lvl(z)')
               \/ /\ a = "live" /\ z = p /\ j = k /\ Place("record", p, 0, m)
                  /\ Done(m)' < MaxIterations \/ (a = "live" /\ pc'[z] = "turn" /\ j = Lvl(z)')
    <3>1. CASE a = "host"
      <4>1. z \in Hosts' /\ j = 0 /\ m = rows'[z].loop BY <2>1, <3>1 DEF Place
      <4>2. z \in Hosts /\ rows'[z] = rows[z] BY <4>1, <1>17 DEF Hosts
      <4> QED BY <4>1, <4>2, <3>1 DEF Place
    <3>2. CASE a # "host" /\ z # p
      <4>1. z \in Streams /\ SparesStream(z) BY <2>1, <3>2, <1>15 DEF Place, OnlyStream
      <4>2. /\ pc'[z] = pc[z] /\ act'[z] = act[z] /\ Lvl(z)' = Lvl(z)
            /\ Stacked(z)' = Stacked(z) /\ \A i : Cur(z, i)' = Cur(z, i)
        BY <4>1, MinePrime DEF SparesStream
      <4>3. \A i : Live(z, i)' = Live(z, i) BY <4>2 DEF Live
      <4>4. Place(a, z, j, m) BY <4>1, <4>2, <4>3, <3>2, <2>1 DEF Place
      <4> QED BY <4>4, <4>2, <3>2
    <3>3. CASE a # "host" /\ z = p
      <4>1. a = "live" /\ j = k /\ m = l BY <3>3, <2>1, <1>1, <1>18 DEF Place
      <4>2. Lvl(p)' = k BY <1>11 DEF Lvl
      <4> QED BY <4>1, <4>2, <1>1, <1>7, <3>3 DEF l
    <3> QED BY <3>1, <3>2, <3>3
  <2>2. PlaceMoves("record", p, 0, "live", p, k) BY <2>1 DEF PlaceMoves
  <2>3. ASSUME NEW m \in Loops, m # l PROVE recorded'[m] = recorded[m]
    BY <1>1, <2>3 DEF Inv, Global, Types, TypeOK
  <2>4. \A m \in Loops : Done(m)' = Done(m) \/ Place("record", p, 0, m)
    BY <2>3, <1>7 DEF Done, l
  <2>5. PlaceOnce' /\ PlaceRuns' BY <2>2, <2>4, <1>2, PlacesMove
  <2>6. NoneYet'
    <3>1. NoneYet BY DEF Inv, Global
    <3> QED BY <3>1, <2>3, <1>2, <1>8 DEF NoneYet, Unused
  <2> QED BY <2>5, <2>6
<1> QED BY <1>3, <1>12, <1>14, <1>18, <1>19, <1>20, <1>21, FewerStep

----------------------------------------------------------------------------
(* Failures that take host checkpoints with them.                          *)

\* The hosts G of a failing child go, and the loops they hold fail.
HostsGone(G, failing, also, loops) ==
  /\ rows' = Without(G \cup also) /\ claimed' = claimed \ (G \cup also)
  /\ CloseLoops(loops \cup {rows[h].loop : h \in G}, "failed")
  /\ \A h \in G : \A c \in Leaf(h) : c = failing \/ c \notin Stored

LEMMA DropHostsShape ==
  ASSUME Inv, NEW link, NEW failing, NEW also, NEW loops, DropHosts(link, failing, also, loops)
  PROVE  \E G \in SUBSET Hosts : HostsGone(G, failing, also, loops)
<1> DEFINE Visited == Upward(link.host) \cap Hosts
           Kept(h) == (rows[h].pending \ {failing}) \cap Stored
           G == {h \in Visited : Kept(h) = {}}
<1>1. /\ rows' = [i \in Ids |->
                   IF i \in G \cup also THEN NoRow
                   ELSE IF i \in Visited THEN [rows[i] EXCEPT !.pending = Kept(i)]
                   ELSE rows[i]]
      /\ claimed' = claimed \ (G \cup also)
      /\ CloseLoops(loops \cup {rows[h].loop : h \in G}, "failed")
  BY DEF DropHosts
<1>2. ASSUME NEW i \in Visited \ G PROVE [rows[i] EXCEPT !.pending = Kept(i)] = rows[i]
  <2>1. i \in Hosts /\ i \in Stored BY DEF Hosts
  <2>2. PICK c : rows[i].pending = {c} BY <2>1 DEF Hosts, Inv, Global, Singles
  <2>3. Kept(i) = {c} BY <2>2
  <2>4. rows[i] \in Row BY <2>1, RowType DEF Inv, Global
  <2> HIDE DEF Kept
  <2> QED BY <2>2, <2>3, <2>4 DEF Row
<1>3. rows' = Without(G \cup also)
  <2> HIDE DEF G, Visited
  <2> QED BY <1>1, <1>2 DEF Without
<1>4. \A h \in G : \A c \in Leaf(h) : c = failing \/ c \notin Stored
  BY DEF Leaf, Hosts
<1>5. G \in SUBSET Hosts OBVIOUS
<1> HIDE DEF G
<1>6. HostsGone(G, failing, also, loops) BY <1>1, <1>3, <1>4 DEF HostsGone
<1> QED BY <1>5, <1>6

LEMMA NotMine ==
  ASSUME Inv, NEW p \in Streams, NEW q \in Streams \ {p}
  PROVE  worker[p].id \notin Mine(q)
<1> SUFFICES ASSUME worker[p].id \in Mine(q) PROVE FALSE
  OBVIOUS
<1>1. worker[p].id \in Stored /\ Of(q, worker[p].id) BY MineStored
<1>2. worker[p].releasing BY <1>1 DEF Inv, Local, WorkerOK
<1>3. worker[p].id \in Mine(p) BY <1>2 DEF Mine
<1> QED BY <1>1, <1>3, MineStored, Disjoint

LEMMA DropOwn ==
  ASSUME Inv, NEW p \in Streams, NEW q \in Streams \ {p}, NEW h \in Hosts,
         \A c \in Leaf(h) : c = worker[p].id \/ c \notin Stored
  PROVE  ~Of(q, h)
<1> SUFFICES ASSUME Of(q, h) PROVE FALSE
  OBVIOUS
<1>1. PICK c \in Mine(q) : Leaf(h) = {c} BY DEF Of
<1>2. c \in Stored BY <1>1, MineStored
<1> QED BY <1>1, <1>2, NotMine

LEMMA CloseLoopsCloses ==
  ASSUME NEW S, NEW how, how # "running", CloseLoops(S, how)
  PROVE  Running' = Running \ S
  BY DEF CloseLoops, Running

LEMMA AbandonKeeps ==
  ASSUME Inv, NEW p \in Streams, AbandonWorker(p), Move(p), ~Passing(p), pc[p] # "record"
  PROVE  Inv'
<1> DEFINE w == worker[p]
           also == IF w.releasing THEN {w.id} ELSE {}
<1>1. /\ DropHosts(w.link, w.id, also, {}) /\ Leave(p)
      /\ UNCHANGED <<issued, recorded, clientVars>>
  BY DEF AbandonWorker
<1>2. PICK G \in SUBSET Hosts :
           /\ rows' = Without(G \cup also) /\ claimed' = claimed \ (G \cup also)
           /\ CloseLoops({} \cup {rows[h].loop : h \in G}, "failed")
           /\ \A h \in G : \A c \in Leaf(h) : c = w.id \/ c \notin Stored
  <2> HIDE DEF w, also
  <2>1. \E G \in SUBSET Hosts : HostsGone(G, w.id, also, {}) BY <1>1, DropHostsShape
  <2> QED BY <2>1 DEF HostsGone
<1> DEFINE S == G \cup also
<1>3. \A q \in Streams \ {p} : \A i \in S : ~Of(q, i)
  <2> SUFFICES ASSUME NEW q \in Streams \ {p}, NEW i \in S PROVE ~Of(q, i)
    OBVIOUS
  <2>1. CASE i \in G BY <2>1, <1>2, DropOwn
  <2>2. CASE w.releasing /\ i = w.id
    <3>1. w.id \in Mine(p) BY <2>2 DEF Mine
    <3> QED BY <3>1, <2>2, MineStored, Disjoint
  <2> QED BY <2>1, <2>2
<1>4. Hosts \cap S \subseteq G
  <2>1. w.releasing => w.id \notin Hosts
    BY DEF Inv, Local, WorkerOK, Global, Claims, Hosts
  <2> QED BY <2>1
<1>5. Running' = Running \ {rows[h].loop : h \in G}
  <2>1. "failed" # "running" OBVIOUS
  <2> QED BY <1>2, <2>1, CloseLoopsCloses
<1>6. issued' \in Nat BY <1>1, SizeAssumption DEF Inv, Global, Types, TypeOK
<1>7. Local(p)' /\ Away(p)' /\ worker'[p] = NoWorker BY <1>1, <1>6, LeaveLocal
<1>8. rows' = Without(S) /\ claimed' = claimed \ S BY <1>2
<1> HIDE DEF w, also
<1>9. \A l \in Running \ Running' : \E h \in Hosts \cap S : rows[h].loop = l
  <2>1. G \subseteq Hosts \cap S OBVIOUS
  <2> QED BY <2>1, <1>5
<1>10. \A h \in Hosts \cap S : rows[h].loop \notin Running' BY <1>4, <1>5
<1> HIDE DEF S
<1>11. Deletes(p, S, {}, {}) BY <1>1, <1>3, <1>8 DEF Deletes, clientVars
<1> QED BY <1>1, <1>7, <1>9, <1>10, <1>11, AwayFewer

LEMMA ThrowKeeps ==
  ASSUME Inv, NEW p \in Streams, Throw(p), Move(p)
  PROVE  Inv'
<1>1. pc[p] = "throwing" /\ AbandonWorker(p) BY DEF Throw
<1> QED BY <1>1, AbandonKeeps DEF Passing

LEMMA StopKeeps ==
  ASSUME Inv, NEW p \in Streams, Stop(p), Move(p)
  PROVE  Inv'
<1>1. pc[p] = "turn" /\ ~Passing(p) BY DEF Stop, Passing
<1>2. AbandonWorker(p) \/ (Leave(p) /\ UNCHANGED <<storeVars, clientVars>>) BY DEF Stop
<1>3. CASE AbandonWorker(p) BY <1>1, <1>3, AbandonKeeps
<1>4. CASE Leave(p) /\ UNCHANGED <<storeVars, clientVars>>
  BY <1>1, <1>4, LeaveStep DEF storeVars, clientVars
<1> QED BY <1>2, <1>3, <1>4

LEMMA UnwindKeeps ==
  ASSUME Inv, NEW p \in Streams, Unwind(p), Move(p)
  PROVE  Inv'
<1> DEFINE n == Len(frames[p])
           f == frames[p][n]
<1>1. /\ pc[p] = "throwing" /\ frames[p] # << >>
      /\ UNCHANGED <<issued, recorded, clientVars, pc, act, child, snap, worker, happened>>
  BY DEF Unwind
<1>2. frames[p] \in Seq(Frame) /\ frames \in [Streams -> Seq(Frame)]
  BY DEF Inv, Global, Types, TypeOK
<1>3. n \in DOMAIN frames[p] /\ Last(frames[p]) = f /\ n \in Nat /\ n > 0
  BY <1>1, <1>2 DEF Last
<1>4. Away(p) /\ Away(p)' /\ ~Passing(p) /\ ~Stacked(p) /\ ~Suspending(p)
  BY <1>1 DEF Away, Passing, Stacked, Suspending, Asking
<1>5. \A m \in DOMAIN frames[p] :
        /\ frames[p][m].loop \in Loops /\ status[frames[p][m].loop] # "none"
        /\ frames[p][m].child = worker[p].id /\ frames[p][m].loop \notin Running
  BY <1>4 DEF Inv, Local, FramesOver
<1>6. \/ f.open /\ DropHosts(f.link, f.child, {}, {})
         /\ frames' = [frames EXCEPT ![p][n].open = FALSE]
      \/ CloseLoops({f.loop}, "failed") /\ frames' = [frames EXCEPT ![p] = Front(@)]
         /\ UNCHANGED <<rows, claimed>>
  BY <1>3 DEF Unwind
<1>7. Running' \subseteq Running /\ \A l \in Loops : status[l] # "none" => status'[l] # "none"
  <2>1. \A l \in Loops : status[l] # "none" =>
          status'[l] # "none" /\ (status'[l] = "running" => status[l] = "running")
    BY MoveOthers DEF Inv, Global
  <2>2. "running" # "none" OBVIOUS
  <2>3. CASE CloseLoops({f.loop}, "failed")
    <3>1. "failed" # "running" OBVIOUS
    <3> QED BY <2>1, <2>3, <3>1, CloseLoopsCloses
  <2>4. CASE DropHosts(f.link, f.child, {}, {})
    <3>0. \E G \in SUBSET Hosts : HostsGone(G, f.child, {}, {}) BY <2>4, DropHostsShape
    <3>1. PICK S : CloseLoops(S, "failed") BY <3>0 DEF HostsGone
    <3>2. "failed" # "running" OBVIOUS
    <3> QED BY <2>1, <3>1, <3>2, CloseLoopsCloses
  <2> QED BY <2>3, <2>4, <1>6
<1>8. act'[p].link.host <= issued' BY <1>1 DEF Inv, Local, StackOK
<1> HIDE DEF n, f
<1>9. CASE f.open /\ DropHosts(f.link, f.child, {}, {})
           /\ frames' = [frames EXCEPT ![p][n].open = FALSE]
  <2>1. PICK S \in SUBSET Hosts :
           /\ rows' = Without(S \cup {}) /\ claimed' = claimed \ (S \cup {})
           /\ CloseLoops({} \cup {rows[h].loop : h \in S}, "failed")
           /\ \A h \in S : \A c \in Leaf(h) : c = f.child \/ c \notin Stored
    <3>1. \E S \in SUBSET Hosts : HostsGone(S, f.child, {}, {}) BY <1>9, DropHostsShape
    <3> QED BY <3>1 DEF HostsGone
  <2>2. rows' = Without(S) /\ claimed' = claimed \ S
    <3>1. S \cup {} = S OBVIOUS
    <3> QED BY <2>1, <3>1
  <2>3. f.child = worker[p].id BY <1>3, <1>5 DEF f
  <2>4. \A q \in Streams \ {p} : \A i \in S : ~Of(q, i) BY <2>1, <2>3, DropOwn
  <2>5. Running' = Running \ {rows[h].loop : h \in S}
    <3>1. "failed" # "running" OBVIOUS
    <3> QED BY <2>1, <3>1, CloseLoopsCloses
  <2>6. Deletes(p, S, {}, {}) BY <1>1, <2>2, <2>4 DEF Deletes, clientVars
  <2>7. Stored' = Stored \ S BY <2>2, DeleteStored
  <2>8. WorkerOK(p)'
    <3>1. WorkerOK(p) BY DEF Inv, Local
    <3>2. worker[p].id \in claimed => worker[p].id \notin S
      BY DEF Hosts, Inv, Global, Claims
    <3> QED BY <3>1, <3>2, <2>2, <2>7, <1>1 DEF WorkerOK
  <2>9. FramesOver(p)'
    <3>1. /\ DOMAIN frames'[p] = DOMAIN frames[p]
          /\ \A m \in DOMAIN frames[p] : frames'[p][m] =
               IF m = n THEN [f EXCEPT !.open = FALSE] ELSE frames[p][m]
      BY <1>9, <1>2, <1>3 DEF f
    <3>2. [f EXCEPT !.open = FALSE].loop = f.loop /\ [f EXCEPT !.open = FALSE].child = f.child
      <4>1. f \in Frame BY <1>2, <1>3 DEF f
      <4> QED BY <4>1 DEF Frame
    <3>3. \A m \in DOMAIN frames[p] :
            frames'[p][m].loop = frames[p][m].loop /\ frames'[p][m].child = frames[p][m].child
      BY <3>1, <3>2 DEF f
    <3>4. ASSUME NEW m \in DOMAIN frames'[p]
          PROVE  /\ frames'[p][m].loop \in Loops /\ status'[frames'[p][m].loop] # "none"
                 /\ frames'[p][m].child = worker'[p].id
                 /\ frames'[p][m].loop \notin Running'
      BY <3>1, <3>3, <1>1, <1>5, <1>7
    <3> QED BY <3>4, <1>1 DEF FramesOver
  <2>10. Local(p)' BY <2>8, <2>9, <1>4, <1>8, AwayNext
  <2>11. \A l \in Running \ Running' : \E h \in Hosts \cap S : rows[h].loop = l BY <2>5
  <2>12. \A h \in Hosts \cap S : rows[h].loop \notin Running' BY <2>5
  <2>13. recorded' = recorded /\ worker'[p] = worker[p] BY <1>1
  <2> QED BY <1>1, <1>4, <2>6, <2>10, <2>11, <2>12, <2>13, AwayFewer
<1>10. CASE CloseLoops({f.loop}, "failed") /\ frames' = [frames EXCEPT ![p] = Front(@)]
            /\ UNCHANGED <<rows, claimed>>
  <2>1. Still BY <1>1, <1>10 DEF Still, clientVars
  <2>2. Running' = Running
    <3>1. "failed" # "running" OBVIOUS
    <3>2. f.loop \notin Running BY <1>3, <1>5 DEF f
    <3> QED BY <3>1, <3>2, <1>10, CloseLoopsCloses
  <2>3. WorkerOK(p)'
    <3>1. WorkerOK(p) BY DEF Inv, Local
    <3> QED BY <3>1, <1>1, <2>1, StillStored DEF WorkerOK, Still
  <2>4. FramesOver(p)'
    <3>1. frames'[p] = SubSeq(frames[p], 1, n - 1) BY <1>2, <1>10 DEF Front, n
    <3>2. \A m \in DOMAIN frames'[p] : m \in DOMAIN frames[p] /\ frames'[p][m] = frames[p][m]
      BY <3>1, <1>2, <1>3 DEF n
    <3>3. ASSUME NEW m \in DOMAIN frames'[p]
          PROVE  /\ frames'[p][m].loop \in Loops /\ status'[frames'[p][m].loop] # "none"
                 /\ frames'[p][m].child = worker'[p].id
                 /\ frames'[p][m].loop \notin Running'
      BY <3>2, <1>1, <1>5, <1>7
    <3> QED BY <3>3, <1>1 DEF FramesOver
  <2>5. Local(p)' BY <2>3, <2>4, <1>4, <1>8, AwayNext
  <2> QED BY <2>1, <2>2, <2>5, <1>1, <1>4, AwayStep
<1> QED BY <1>6, <1>9, <1>10

----------------------------------------------------------------------------
(* A suspension that cannot be kept, and a host without live children.     *)

LEMMA FailOpenShape ==
  ASSUME Inv, NEW p \in Streams, Suspending(p), NEW loops, FailOpen(loops, child[p]),
         UNCHANGED <<issued, announced>>
  PROVE  \E S :
           /\ Deletes(p, S, {}, {}) /\ claimed' = claimed
           /\ \A h \in Hosts \cap S : rows[h].loop \notin Running'
           /\ \A l \in Running \ Running' : l \in loops \/ \E h \in Hosts \cap S : rows[h].loop = l
           /\ \A l \in loops : l \notin Running'
<1> DEFINE Linked == {child[p]} \cup {l.host : l \in HostLinks(child[p])}
           Bare == {h \in Hosts : rows[h].pending # {} /\ rows[h].pending \cap Stored \subseteq Linked}
           S == Linked \cup Bare
           closed == loops \cup {l.loop : l \in HostLinks(child[p])} \cup {rows[h].loop : h \in Bare}
<1>1. rows' = Without(S) /\ claimed' = claimed \ S /\ CloseLoops(closed, "failed")
  BY DEF FailOpen
<1>2. child[p] \in Stored /\ rows[child[p]].loop = 0 BY DEF Inv, Local, ChildOK
<1>3. \A i \in Linked : i = child[p] \/
        \E j \in Upward(child[p]) : rows[j].link.host = i /\ i # 0 /\ rows[j].link.loop \in closed
  BY DEF HostLinks
<1>4. \A i \in Linked \cap Stored : i \in Stored \ claimed /\ Of(p, i)
  <2>1. \A i \in Upward(child[p]) : i \in Stored \ claimed /\ Of(p, i) BY ChainOwned
  <2>2. \A i \in Linked \cap Stored : i \in Upward(child[p])
    BY <1>2, <1>3, UpwardSelf, UpwardNext
  <2> HIDE DEF Linked
  <2> QED BY <2>1, <2>2
<1>5. \A h \in Hosts \cap Linked : rows[h].loop \in closed
  <2> SUFFICES ASSUME NEW h \in Hosts \cap Linked PROVE rows[h].loop \in closed
    OBVIOUS
  <2>1. PICK j \in Upward(child[p]) :
          rows[j].link.host = h /\ rows[j].link.loop \in closed
    BY <1>2, <1>3 DEF Hosts
  <2>2. j \in Stored \ claimed BY ChainOwned
  <2> HIDE DEF closed, Linked
  <2> QED BY <2>1, <2>2, RowToken DEF Inv, Global, Hosts
<1>6. \A h \in Hosts \cap S : rows[h].loop \in closed
  BY <1>5
<1>7. Running' = Running \ closed
  <2>1. "failed" # "running" OBVIOUS
  <2> HIDE DEF closed
  <2> QED BY <1>1, <2>1, CloseLoopsCloses
<1>8. ASSUME NEW l \in Running, l \in closed, l \notin loops
      PROVE  \E h \in Hosts \cap S : rows[h].loop = l
  <2>1. CASE l \in {rows[h].loop : h \in Bare} BY <2>1
  <2>2. CASE l \in {m.loop : m \in HostLinks(child[p])}
    <3>1. PICK j \in Upward(child[p]) :
            rows[j].link.host # 0 /\ rows[j].link.loop = l /\ rows[j].link.host \in Linked
      BY <2>2 DEF HostLinks
    <3>2. j \in Stored \ claimed BY ChainOwned
    <3>3. rows[j].link.host \in Ids BY <3>1, <3>2, RowType, IdTypes DEF Inv, Global
    <3>4. rows[j].link.host \in Stored
      BY <3>1, <3>2, <3>3, RowToken DEF Inv, Global
    <3>5. rows[j].link.host \in Hosts /\ rows[rows[j].link.host].loop = l
      BY <3>1, <3>2, <3>4, RowToken, LinkedHost DEF Inv, Global
    <3> HIDE DEF Linked, Bare
    <3> QED BY <3>1, <3>5
  <2> QED BY <1>8, <2>1, <2>2
<1>9. S \cap claimed = {}
  <2>1. claimed \subseteq Stored /\ \A i \in claimed : i \notin Hosts
    BY DEF Inv, Global, Claims, Hosts
  <2>2. Bare \subseteq Hosts OBVIOUS
  <2> HIDE DEF Linked, Bare
  <2> QED BY <2>1, <2>2, <1>4
<1>10. \A q \in Streams \ {p} : \A i \in S : ~Of(q, i)
  <2> SUFFICES ASSUME NEW q \in Streams \ {p}, NEW i \in S, Of(q, i) PROVE FALSE
    OBVIOUS
  <2>1. CASE i \in Linked
    <3>1. i \in Stored BY DEF Of
    <3> HIDE DEF Linked
    <3> QED BY <2>1, <3>1, <1>4, Disjoint
  <2>2. CASE i \in Bare
    <3>1. PICK c \in Mine(q) : Leaf(i) = {c} BY DEF Of
    <3>2. c \in Stored /\ Of(q, c) BY <3>1, MineStored
    <3>3. c \in Linked BY <2>2, <3>1, <3>2 DEF Leaf, Hosts
    <3> HIDE DEF Linked
    <3> QED BY <3>2, <3>3, <1>4, Disjoint
  <2> QED BY <2>1, <2>2
<1> HIDE DEF S, closed, Linked, Bare
<1>11. claimed' = claimed BY <1>1, <1>9
<1>12. announced' = announced \cup {} /\ claimed' = (claimed \cup {}) \ S BY <1>1
<1>13. Deletes(p, S, {}, {}) BY <1>1, <1>10, <1>12 DEF Deletes
<1>14. \A h \in Hosts \cap S : rows[h].loop \notin Running' BY <1>6, <1>7
<1>15. \A l \in Running \ Running' : l \in loops \/ \E h \in Hosts \cap S : rows[h].loop = l
  BY <1>7, <1>8
<1>16. \A l \in loops : l \notin Running' BY <1>7 DEF closed
<1> QED BY <1>11, <1>13, <1>14, <1>15, <1>16

\* A stream that goes back to its turn, with fewer checkpoints in the store.
LEMMA TurnAfter ==
  ASSUME Inv, NEW p \in Streams, Bearing(p), pc'[p] = "turn", worker'[p] = worker[p],
         act'[p].link = act[p].link, issued' = issued, claimed' = claimed,
         NEW S, rows' = Without(S), StackOK(p)', FramesOver(p)'
  PROVE  Local(p)'
<1>0. Stored' = Stored \ S /\ \A i \in Stored' : rows'[i] = rows[i] BY DeleteStored
<1>1. ~Suspending(p)' /\ ~Closing(p)'
      /\ pc'[p] \notin {"retarget", "save", "link", "claim", "inspect", "host", "record", "off"}
  BY DEF Suspending, Closing, Asking
<1>2. WorkerOK(p)'
  <2>1. WorkerOK(p) BY DEF Inv, Local
  <2> QED BY <1>0, <1>1, <2>1 DEF WorkerOK
<1>3. ChildOK(p)' /\ Chain(p)' BY <1>1 DEF ChildOK, Chain
<1>4. ClaimOK(p)' BY <1>1 DEF ClaimOK
<1>5. Carried(p)'
  <2>1. Carried(p) BY DEF Inv, Local
  <2> QED BY <1>0, <2>1 DEF Carried
<1>6. ClosingOK(p)' /\ Linking(p)' /\ Tip(p)' /\ Saving(p)'
  BY <1>1 DEF ClosingOK, Linking, Tip, Saving
<1> QED BY <1>2, <1>3, <1>4, <1>5, <1>6 DEF Local

LEMMA SuspendingParts ==
  ASSUME Inv, NEW p \in Streams, pc[p] = "suspending"
  PROVE  /\ Bearing(p) /\ Stacked(p) /\ Suspending(p) /\ ~Closing(p) /\ ~Passing(p)
         /\ Depth \in Levels /\ Levels \subseteq Nat
         /\ act[p].top \in Levels /\ Lvl(p) \in Levels /\ act[p].top <= Lvl(p)
         /\ Cur(p, Depth) = 0 /\ Lvl(p) < Depth
         /\ \A k \in Levels : act[p].top <= k /\ k <= Lvl(p) =>
              Cur(p, k) = Open(p, k) /\ Cur(p, k) # 0 /\ Live(p, k)
         /\ \A k \in Levels : Live(p, k) <=> act[p].top <= k /\ k <= Lvl(p) /\ Cur(p, k) # 0
<1>1. Bearing(p) /\ Stacked(p) /\ Suspending(p) /\ ~Closing(p) /\ ~Passing(p)
  BY DEF Bearing, Stacked, Suspending, Closing, Passing
<1>2. Depth \in Levels /\ Levels \subseteq Nat /\ act[p].top \in Levels /\ Lvl(p) \in Levels
  BY ActType, SizeAssumption DEF Levels, Inv, Global
<1>3. StackOK(p) BY DEF Inv, Local
<1>4. \A k \in Levels : Live(p, k) <=> act[p].top <= k /\ k <= Lvl(p) /\ Cur(p, k) # 0
  BY DEF Live
<1>5. act[p].top <= Lvl(p) /\ Cur(p, Depth) = 0 /\ Lvl(p) < Depth
      /\ Cur(p, Lvl(p)) = Open(p, Lvl(p)) /\ Cur(p, Lvl(p)) # 0
  BY <1>1, <1>3 DEF StackOK
<1>6. \A k \in Levels : act[p].top <= k /\ k < Lvl(p) => Cur(p, k) = Open(p, k) /\ Cur(p, k) # 0
  BY <1>1, <1>3 DEF StackOK
<1>7. \A k \in Levels : k <= Lvl(p) => k < Lvl(p) \/ k = Lvl(p)
  BY <1>2
<1> QED BY <1>1, <1>2, <1>4, <1>5, <1>6, <1>7

LEMMA UnsupportedKeeps ==
  ASSUME Inv, NEW p \in Streams, Unsupported(p), Move(p)
  PROVE  Inv'
<1> DEFINE k == Lvl(p)
<1>1. /\ pc[p] = "suspending" /\ FailOpen({Open(p, k)}, child[p]) /\ Thrown(p)
      /\ UNCHANGED <<issued, recorded, clientVars, child, snap, frames, worker>>
  BY DEF Unsupported
<1>2. /\ Bearing(p) /\ Stacked(p) /\ Suspending(p) /\ ~Passing(p)
      /\ Depth \in Levels /\ Levels \subseteq Nat
      /\ act[p].top \in Levels /\ k \in Levels /\ act[p].top <= k /\ k \in Nat
      /\ Cur(p, Depth) = 0 /\ k < Depth
      /\ \A j \in Levels : act[p].top <= j /\ j <= k =>
              Cur(p, j) = Open(p, j) /\ Cur(p, j) # 0 /\ Live(p, j)
      /\ \A j \in Levels : Live(p, j) <=> act[p].top <= j /\ j <= k /\ Cur(p, j) # 0
  BY <1>1, SuspendingParts
<1>3. Open(p, k) = Cur(p, k) /\ Live(p, k) BY <1>2
<1>4. UNCHANGED <<issued, announced>> BY <1>1 DEF clientVars
<1>5. PICK S :
           /\ Deletes(p, S, {}, {}) /\ claimed' = claimed
           /\ \A h \in Hosts \cap S : rows[h].loop \notin Running'
           /\ \A l \in Running \ Running' :
                l \in {Open(p, k)} \/ \E h \in Hosts \cap S : rows[h].loop = l
           /\ \A l \in {Open(p, k)} : l \notin Running'
  <2>1. PICK loops : loops = {Open(p, k)} OBVIOUS
  <2>2. FailOpen(loops, child[p]) BY <1>1, <2>1
  <2> HIDE DEF k
  <2>3. \E S :
           /\ Deletes(p, S, {}, {}) /\ claimed' = claimed
           /\ \A h \in Hosts \cap S : rows[h].loop \notin Running'
           /\ \A l \in Running \ Running' : l \in loops \/ \E h \in Hosts \cap S : rows[h].loop = l
           /\ \A l \in loops : l \notin Running'
    BY <2>2, <1>2, <1>4, FailOpenShape
  <2> QED BY <2>1, <2>3
<1>6. rows' = Without(S) /\ Stored' = Stored \ S BY <1>5, DeleteStored DEF Deletes
<1>7. Cur(p, k) \notin Running' BY <1>3, <1>5
<1>8. act[p].link.host <= issued' BY <1>1 DEF Inv, Local, StackOK
<1>9. CASE k > act[p].top
  <2>1. pc'[p] = "turn" /\ act' = [act EXCEPT ![p].lvl = @ - 1, ![p].open[k - 1] = 0]
    BY <1>1, <1>9 DEF Thrown, Inv, Global, Types, TypeOK
  <2>2. k - 1 \in Levels /\ act[p].top <= k - 1 /\ k - 1 < k /\ k - 1 \in Nat
    <3> HIDE DEF k
    <3> QED BY <1>2, <1>9, SizeAssumption DEF Levels
  <2>3. /\ act'[p].lvl = k - 1 /\ act'[p].top = act[p].top /\ act'[p].link = act[p].link
        /\ \A j \in Levels : act'[p].cur[j] = Cur(p, j)
        /\ \A j \in Levels : act'[p].open[j] = IF j = k - 1 THEN 0 ELSE Open(p, j)
    <3>1. act[p] \in Activation /\ act \in [Streams -> Activation]
      BY DEF Inv, Global, Types, TypeOK
    <3>2. act[p].lvl = k BY DEF Lvl
    <3> HIDE DEF k
    <3> QED BY <3>1, <3>2, <2>1, <2>2 DEF Activation, Cur, Open
  <2>4. \A j \in Levels : j <= k - 1 => j <= k /\ j # k
    <3> HIDE DEF k
    <3> QED BY <1>2
  <2>5. \A j \in Levels : j < k - 1 => j <= k /\ j # k - 1
    <3> HIDE DEF k
    <3> QED BY <1>2
  <2> HIDE DEF k
  <2>6. StackOK(p)'
    <3>3. \A j \in Levels : act'[p].top <= j /\ j < act'[p].lvl =>
            act'[p].cur[j] = act'[p].open[j] /\ act'[p].cur[j] # 0
      BY <2>3, <2>5, <1>2
    <3> QED BY <3>3, <1>2, <1>8, <2>1, <2>2, <2>3 DEF StackOK, Asking, Lvl, Cur, Open
  <2>7. FramesOver(p)'
    <3> SUFFICES ASSUME NEW m \in Running \cap Running', Cur(p, act[p].top) = m
                 PROVE  act'[p].cur[act'[p].top] = m
      BY <1>1, <2>1, FramesNext DEF Stacked
    <3> QED BY <1>2, <2>3
  <2>8. \A j \in Levels : Live(p, j)' => Live(p, j) /\ Cur(p, j)' = Cur(p, j) /\ j # k
    <3> SUFFICES ASSUME NEW j \in Levels, Live(p, j)'
                 PROVE  Live(p, j) /\ Cur(p, j)' = Cur(p, j) /\ j # k
      OBVIOUS
    <3>1. act[p].top <= j /\ j <= k - 1 /\ act'[p].cur[j] # 0 BY <2>3 DEF Live, Lvl, Cur
    <3>2. Cur(p, j)' = Cur(p, j) BY <2>3 DEF Cur
    <3> QED BY <3>1, <3>2, <2>4, <1>2 DEF Cur
  <2>9. Local(p)' BY <1>1, <1>2, <1>5, <1>6, <2>1, <2>3, <2>6, <2>7, TurnAfter
  <2>10. \A l \in Running \ Running' :
           \/ \E j \in Levels : Live(p, j) /\ l = Cur(p, j) /\ ~(Live(p, j)' /\ l = Cur(p, j)')
           \/ \E h \in Hosts \cap S : rows[h].loop = l
    BY <1>2, <1>3, <1>5, <2>8
  <2>11. ~Suspending(p)' /\ pc'[p] \notin {"record", "link"} /\ pc[p] \notin {"record", "turn"}
    BY <1>1, <2>1 DEF Suspending, Asking
  <2> QED BY <1>1, <1>2, <1>5, <2>3, <2>8, <2>9, <2>10, <2>11, VanishStep
<1>10. CASE ~(k > act[p].top)
  <2>1. pc'[p] = "throwing" /\ act' = act BY <1>1, <1>10 DEF Thrown, Inv, Global, Types, TypeOK
  <2>2. act[p].top = k
    <3>1. act[p].top \in Nat BY <1>2
    <3> HIDE DEF k
    <3> QED BY <3>1, <1>2, <1>10
  <2> HIDE DEF k
  <2>3. WorkerOK(p)'
    <3>1. WorkerOK(p) BY DEF Inv, Local
    <3> QED BY <3>1, <2>1, <1>1, <1>5, <1>6 DEF WorkerOK
  <2>4. FramesOver(p)'
    <3>1. \A l \in Running \cap Running' : Cur(p, act[p].top) # l BY <1>7, <2>2
    <3> QED BY <3>1, <1>1, <2>1, FramesNext
  <2>5. Away(p)' BY <2>1 DEF Away
  <2>6. Local(p)' BY <2>1, <2>3, <2>4, <2>5, <1>8, AwayNext
  <2>7. \A l \in Running \ Running' :
           \/ \E j \in Levels : Live(p, j) /\ l = Cur(p, j)
           \/ \E h \in Hosts \cap S : rows[h].loop = l
    BY <1>2, <1>3, <1>5
  <2> QED BY <1>1, <1>2, <1>5, <2>5, <2>6, <2>7, AwayFewer
<1> QED BY <1>9, <1>10

LEMMA RetryHostKeeps ==
  ASSUME Inv, NEW p \in Streams, RetryHost(p), Move(p)
  PROVE  Inv'
<1> DEFINE k == Lvl(p)
           started == IF act[p].mine[k] THEN {Cur(p, k)} ELSE {}
<1>1. /\ pc[p] = "suspending" /\ FailOpen(started, child[p])
      /\ act' = [act EXCEPT ![p].cur[k] = IF started = {} THEN @ ELSE 0,
                           ![p].mine[k] = FALSE,
                           ![p].open[k] = 0]
      /\ pc' = [pc EXCEPT ![p] = "turn"]
      /\ UNCHANGED <<issued, recorded, clientVars, child, snap, frames, worker>>
  BY DEF RetryHost
<1>2. /\ Bearing(p) /\ Stacked(p) /\ Suspending(p) /\ ~Passing(p)
      /\ Depth \in Levels /\ Levels \subseteq Nat
      /\ act[p].top \in Levels /\ k \in Levels /\ act[p].top <= k /\ k \in Nat
      /\ Cur(p, Depth) = 0 /\ k < Depth
      /\ \A j \in Levels : act[p].top <= j /\ j <= k =>
              Cur(p, j) = Open(p, j) /\ Cur(p, j) # 0 /\ Live(p, j)
      /\ \A j \in Levels : Live(p, j) <=> act[p].top <= j /\ j <= k /\ Cur(p, j) # 0
  BY <1>1, SuspendingParts
<1>3. started = {} \/ started = {Cur(p, k)} OBVIOUS
<1>4. UNCHANGED <<issued, announced>> BY <1>1 DEF clientVars
<1>5. pc'[p] = "turn" BY <1>1 DEF Inv, Global, Types, TypeOK
<1>6. /\ act'[p].lvl = k /\ act'[p].top = act[p].top /\ act'[p].link = act[p].link
      /\ \A j \in Levels : act'[p].cur[j] = IF j = k /\ started # {} THEN 0 ELSE Cur(p, j)
      /\ \A j \in Levels : act'[p].open[j] = IF j = k THEN 0 ELSE Open(p, j)
  <2>1. act[p] \in Activation /\ act \in [Streams -> Activation]
    BY DEF Inv, Global, Types, TypeOK
  <2>2. act[p].lvl = k BY DEF Lvl
  <2> HIDE DEF k, started
  <2> QED BY <2>1, <2>2, <1>1, <1>2 DEF Activation, Cur, Open
<1> HIDE DEF started, k
<1>7. PICK S :
           /\ Deletes(p, S, {}, {}) /\ claimed' = claimed
           /\ \A h \in Hosts \cap S : rows[h].loop \notin Running'
           /\ \A l \in Running \ Running' :
                l \in started \/ \E h \in Hosts \cap S : rows[h].loop = l
           /\ \A l \in started : l \notin Running'
  BY <1>1, <1>2, <1>4, FailOpenShape
<1>8. rows' = Without(S) BY <1>7 DEF Deletes
<1>9. StackOK(p)'
  <2>1. act[p].link.host <= issued' BY <1>1 DEF Inv, Local, StackOK
  <2>2. \A j \in Levels : j < k => j <= k /\ j # k BY <1>2
  <2>3. \A j \in Levels : act'[p].top <= j /\ j < act'[p].lvl =>
            act'[p].cur[j] = act'[p].open[j] /\ act'[p].cur[j] # 0
    BY <1>2, <1>6, <2>2
  <2>4. act'[p].cur[Depth] = 0 BY <1>2, <1>6
  <2> QED BY <2>1, <2>3, <2>4, <1>2, <1>5, <1>6 DEF StackOK, Asking, Lvl, Cur, Open
<1>10. FramesOver(p)'
  <2> SUFFICES ASSUME NEW m \in Running \cap Running', Cur(p, act[p].top) = m
               PROVE  act'[p].cur[act'[p].top] = m
    BY <1>1, <1>5, FramesNext DEF Stacked
  <2>1. ~(act[p].top = k /\ started # {}) BY <1>3, <1>7
  <2> QED BY <2>1, <1>2, <1>6
<1>11. \A j \in Levels : Live(p, j)' =>
          Live(p, j) /\ Cur(p, j)' = Cur(p, j) /\ ~(j = k /\ started # {})
  <2> SUFFICES ASSUME NEW j \in Levels, Live(p, j)'
               PROVE  Live(p, j) /\ Cur(p, j)' = Cur(p, j) /\ ~(j = k /\ started # {})
    OBVIOUS
  <2>1. act[p].top <= j /\ j <= k /\ act'[p].cur[j] # 0 BY <1>6 DEF Live, Lvl, Cur
  <2>2. Cur(p, j)' = act'[p].cur[j] BY DEF Cur
  <2> QED BY <2>1, <2>2, <1>2, <1>6
<1>12. Local(p)' BY <1>1, <1>2, <1>5, <1>6, <1>7, <1>8, <1>9, <1>10, TurnAfter
<1>13. \A l \in Running \ Running' :
         \/ \E j \in Levels : Live(p, j) /\ l = Cur(p, j) /\ ~(Live(p, j)' /\ l = Cur(p, j)')
         \/ \E h \in Hosts \cap S : rows[h].loop = l
  <2> SUFFICES ASSUME NEW l \in Running \ Running', l \in started
               PROVE  \E j \in Levels : Live(p, j) /\ l = Cur(p, j) /\ ~(Live(p, j)' /\ l = Cur(p, j)')
    BY <1>7
  <2>1. l = Cur(p, k) /\ started # {} BY <1>3
  <2>2. Live(p, k) BY <1>2
  <2> QED BY <2>1, <2>2, <1>2, <1>11
<1>14. ~Suspending(p)' /\ pc'[p] \notin {"record", "link"} /\ pc[p] \notin {"record", "turn"}
  BY <1>1, <1>5 DEF Suspending, Asking
<1> QED BY <1>1, <1>2, <1>6, <1>7, <1>11, <1>12, <1>13, <1>14, VanishStep

\* Reading before and writing after an overtaking save is excluded.
LEMMA InspectHostKeeps ==
  ASSUME Inv, NEW p \in Streams, InspectHost(p), Move(p), Fresh'
  PROVE  Inv'
<1> DEFINE h == child[p]
           read == snap[p][h]
           live == read.pending \cap Stored
<1>1. /\ pc[p] = "inspect" /\ Leave(p) /\ UNCHANGED <<issued, recorded, clientVars>>
      /\ IF live = {}
         THEN DropHosts(read.link, CHOOSE c \in read.pending : TRUE, {h}, {read.loop})
         ELSE rows' = (IF live = read.pending THEN rows
                        ELSE [rows EXCEPT ![h] = [read EXCEPT !.pending = live]])
              /\ UNCHANGED <<claimed, status>>
      /\ happened' = IF rows[h] = read THEN happened ELSE happened \cup {"overtaken"}
  BY DEF InspectHost
<1>2. rows[h] = read BY <1>1 DEF Fresh
<1>3. DOMAIN snap[p] = {h} /\ read.loop # 0 BY <1>1 DEF Inv, Local, ClaimOK
<1>4. h \in Ids /\ read \in Row BY <1>3 DEF Inv, Global, Types, TypeOK
<1>5. h \in Stored BY <1>2, <1>4, NotARow DEF Stored
<1>6. h \in Hosts BY <1>2, <1>3, <1>5 DEF Hosts
<1>7. PICK c : read.pending = {c} BY <1>2, <1>3, <1>5 DEF Inv, Global, Singles
<1>8. ~Passing(p) BY <1>1 DEF Passing
<1>9. CASE live # {}
  <2>1. live = read.pending BY <1>7, <1>9
  <2>2. UNCHANGED <<rows, claimed, status>> BY <1>1, <1>9, <2>1
  <2>3. announced' = announced BY <1>1 DEF clientVars
  <2> QED BY <1>1, <1>8, <2>2, <2>3, LeaveStep
<1>10. CASE live = {}
  <2>1. c \notin Stored /\ (CHOOSE d \in read.pending : TRUE) = c BY <1>7, <1>10
  <2>2. DropHosts(read.link, c, {h}, {read.loop}) BY <1>1, <1>10, <2>1
  <2> HIDE DEF live, read, h
  <2>3. PICK G \in SUBSET Hosts :
           /\ rows' = Without(G \cup {h}) /\ claimed' = claimed \ (G \cup {h})
           /\ CloseLoops({read.loop} \cup {rows[g].loop : g \in G}, "failed")
           /\ \A g \in G : \A d \in Leaf(g) : d = c \/ d \notin Stored
    <3>1. \E G \in SUBSET Hosts : HostsGone(G, c, {h}, {read.loop}) BY <2>2, DropHostsShape
    <3> QED BY <3>1 DEF HostsGone
  <2> DEFINE S == G \cup {h}
  <2>4. \A g \in S : \A d \in Leaf(g) : d \notin Stored
    <3>1. Leaf(h) = {c} BY <1>2, <1>6, <1>7 DEF Leaf, Hosts
    <3> QED BY <3>1, <2>1, <2>3
  <2>5. S \subseteq Hosts BY <1>6
  <2>6. {read.loop} \cup {rows[g].loop : g \in G} = {rows[g].loop : g \in S} BY <1>2
  <2>7. Running' = Running \ {rows[g].loop : g \in S}
    <3>1. "failed" # "running" OBVIOUS
    <3> QED BY <3>1, <2>3, <2>6, CloseLoopsCloses
  <2>8. rows' = Without(S) /\ claimed' = claimed \ S BY <2>3
  <2> HIDE DEF S
  <2>9. \A q \in Streams \ {p} : \A i \in S : ~Of(q, i)
    <3> SUFFICES ASSUME NEW q \in Streams \ {p}, NEW i \in S, Of(q, i) PROVE FALSE
      OBVIOUS
    <3>1. PICK d \in Mine(q) : Leaf(i) = {d} BY DEF Of
    <3>2. d \in Stored BY <3>1, MineStored
    <3> QED BY <3>1, <3>2, <2>4
  <2>10. issued' \in Nat BY <1>1, SizeAssumption DEF Inv, Global, Types, TypeOK
  <2>11. Local(p)' /\ Away(p)' /\ worker'[p] = NoWorker BY <1>1, <2>10, LeaveLocal
  <2>12. \A l \in Running \ Running' : \E g \in Hosts \cap S : rows[g].loop = l
    BY <2>5, <2>7
  <2>13. \A g \in Hosts \cap S : rows[g].loop \notin Running' BY <2>7
  <2>14. Deletes(p, S, {}, {})
    <3>1. announced' = announced \cup {} /\ claimed' = (claimed \cup {}) \ S
      BY <1>1, <2>8 DEF clientVars
    <3> QED BY <3>1, <1>1, <2>8, <2>9 DEF Deletes
  <2> QED BY <1>1, <1>8, <2>11, <2>12, <2>13, <2>14, AwayFewer
<1> QED BY <1>9, <1>10

----------------------------------------------------------------------------
(* Saving the hosts above a question.                                      *)

LEMMA OthersStay ==
  ASSUME NEW p \in Streams, OnlyStream(p), NEW q \in Streams \ {p}
  PROVE  /\ SparesStream(q) /\ Suspending(q)' = Suspending(q) /\ child'[q] = child[q]
         /\ worker'[q] = worker[q] /\ Passing(q)' = Passing(q) /\ act'[q] = act[q]
<1>1. SparesStream(q) BY DEF OnlyStream
<1>2. Suspending(q)' = Suspending(q) /\ Lvl(q)' = Lvl(q) BY <1>1, MinePrime
<1> QED BY <1>1, <1>2 DEF SparesStream, Passing

LEMMA SaveShape ==
  ASSUME Inv, NEW p \in Streams, SaveHosts(p)
  PROVE  /\ DOMAIN snap[p] \subseteq Hosts /\ Stored' = Stored /\ Hosts' = Hosts
         /\ \A i \in Ids \ DOMAIN snap[p] : rows'[i] = rows[i]
         /\ \A i \in Stored : rows'[i].link = rows[i].link /\ rows'[i].level = rows[i].level
                              /\ rows'[i].loop = rows[i].loop
         /\ \A i \in DOMAIN snap[p] : rows'[i].pending = {child[p]} /\ Leaf(i)' = {child[p]}
         /\ \A i \in Ids \ DOMAIN snap[p] : Leaf(i)' = Leaf(i)
<1>1. pc[p] = "save" /\ rows' = [i \in Ids |-> IF i \in DOMAIN snap[p] THEN snap[p][i] ELSE rows[i]]
  BY DEF SaveHosts
<1>2. /\ DOMAIN snap[p] \subseteq Hosts
      /\ \A i \in DOMAIN snap[p] : snap[p][i] = [rows[i] EXCEPT !.pending = {child[p]}]
  BY <1>1 DEF Inv, Local, Saving
<1>3. \A i \in DOMAIN snap[p] : i \in Ids /\ i \in Stored /\ rows[i] \in Row /\ rows'[i] = snap[p][i]
  BY <1>1, <1>2, RowType DEF Hosts, Inv, Global
<1>4. \A i \in Ids \ DOMAIN snap[p] : rows'[i] = rows[i] BY <1>1
<1>5. \A i \in DOMAIN snap[p] :
        /\ rows'[i].link = rows[i].link /\ rows'[i].level = rows[i].level
        /\ rows'[i].loop = rows[i].loop /\ rows'[i].pending = {child[p]}
  <2> SUFFICES ASSUME NEW i \in DOMAIN snap[p]
               PROVE  /\ rows'[i].link = rows[i].link /\ rows'[i].level = rows[i].level
                      /\ rows'[i].loop = rows[i].loop /\ rows'[i].pending = {child[p]}
    OBVIOUS
  <2>1. PICK r, s : r = rows[i] /\ s = rows'[i] OBVIOUS
  <2>2. r \in Row /\ s = [r EXCEPT !.pending = {child[p]}] BY <2>1, <1>2, <1>3
  <2>3. s.link = r.link /\ s.level = r.level /\ s.loop = r.loop /\ s.pending = {child[p]}
    BY <2>2 DEF Row
  <2> QED BY <2>1, <2>3
<1>6. \A i \in DOMAIN snap[p] : rows'[i] # NoRow
  BY <1>3, NotARow DEF Inv, Global, Types, TypeOK
<1>7. Stored' = Stored BY <1>3, <1>4, <1>6 DEF Stored
<1>8. \A i \in Stored : rows'[i].link = rows[i].link /\ rows'[i].level = rows[i].level
                        /\ rows'[i].loop = rows[i].loop
  BY <1>4, <1>5 DEF Stored
<1>9. Hosts' = Hosts BY <1>7, <1>8 DEF Hosts
<1>10. \A i \in DOMAIN snap[p] : Leaf(i)' = {child[p]} BY <1>2, <1>5 DEF Leaf, Hosts
<1>11. \A i \in Ids \ DOMAIN snap[p] : Leaf(i)' = Leaf(i) BY <1>4 DEF Leaf
<1> QED BY <1>2, <1>4, <1>5, <1>7, <1>8, <1>9, <1>10, <1>11

LEMMA SaveParts ==
  ASSUME Inv, NEW p \in Streams, pc[p] = "save"
  PROVE  /\ pc[p] \in Asking /\ Suspending(p)
         /\ child[p] \in Stored /\ child[p] \notin claimed /\ child[p] \notin announced
         /\ rows[child[p]].loop = 0 /\ child[p] \notin DOMAIN snap[p]
         /\ \A i \in DOMAIN snap[p] : Of(p, i) /\ i \notin claimed /\ i \notin announced
         /\ \A i \in DOMAIN snap[p] : \E j \in (DOMAIN snap[p] \cup {child[p]}) \cap (Stored \ claimed) :
              rows[j].link.host = i
         /\ \A j \in DOMAIN snap[p] \cup {child[p]} :
              rows[j].link.host \in Stored => rows[j].link.host \in DOMAIN snap[p]
         /\ Lvl(p) = act[p].top /\ act[p].link.host \in Stored => act[p].link.host \in DOMAIN snap[p]
         /\ \A i \in DOMAIN snap[p] \cap Unlinked : Leaf(i) = {child[p]}
<1>1. pc[p] \in Asking /\ Suspending(p) BY DEF Asking, Suspending
<1>2. child[p] \in Stored /\ child[p] \notin claimed /\ child[p] \notin announced
      /\ rows[child[p]].loop = 0
  BY <1>1 DEF Inv, Local, ChildOK
<1>3. /\ DOMAIN snap[p] \subseteq Hosts
      /\ \A i \in DOMAIN snap[p] :
           \/ rows[i].pending = {child[p]}
           \/ worker[p].releasing /\ rows[i].pending = {worker[p].id}
      /\ \A i \in DOMAIN snap[p] : \E j \in DOMAIN snap[p] \cup {child[p]} : rows[j].link.host = i
      /\ \A j \in DOMAIN snap[p] \cup {child[p]} :
           rows[j].link.host \in Stored => rows[j].link.host \in DOMAIN snap[p]
      /\ Lvl(p) = act[p].top /\ act[p].link.host \in Stored => act[p].link.host \in DOMAIN snap[p]
  BY DEF Inv, Local, Saving
<1>4. \A i \in Hosts : i \in Stored /\ i \notin claimed /\ i \notin announced /\ Leaf(i) = rows[i].pending
  BY DEF Inv, Global, Claims, Told, Hosts, Leaf
<1>5. ASSUME NEW i \in DOMAIN snap[p] PROVE Of(p, i)
  <2>1. Leaf(i) = {child[p]} \/ (worker[p].releasing /\ Leaf(i) = {worker[p].id})
    BY <1>3, <1>4
  <2> QED BY <2>1, <1>1, <1>3, <1>4 DEF Of, Mine
<1>6. ASSUME NEW i \in DOMAIN snap[p], i \in Unlinked PROVE Leaf(i) = {child[p]}
  <2>1. ~Whole(i) BY <1>6 DEF Unlinked
  <2>2. ~(worker[p].releasing /\ rows[i].pending = {worker[p].id})
    <3>1. worker[p].releasing => worker[p].id \in claimed BY DEF Inv, Local, WorkerOK
    <3> QED BY <3>1, <2>1, <1>3 DEF Inv, Global, Told
  <2> QED BY <2>2, <1>3, <1>4
<1>7. child[p] \notin DOMAIN snap[p] BY <1>2, <1>3 DEF Hosts
<1>8. DOMAIN snap[p] \cup {child[p]} \subseteq Stored \ claimed BY <1>2, <1>3, <1>4
<1> QED BY <1>1, <1>2, <1>3, <1>4, <1>5, <1>6, <1>7, <1>8

LEMMA SaveHostsKeeps ==
  ASSUME Inv, NEW p \in Streams, SaveHosts(p), Move(p)
  PROVE  Inv'
<1> DEFINE D == DOMAIN snap[p]
           c == child[p]
<1>1. /\ pc[p] = "save" /\ pc'[p] = "notify"
      /\ UNCHANGED <<claimed, issued, status, recorded, clientVars, act, child, frames, worker>>
  BY DEF SaveHosts, Inv, Global, Types, TypeOK
<1>2. UNCHANGED <<announced>> BY <1>1 DEF clientVars
<1>3. /\ D \subseteq Hosts /\ Stored' = Stored /\ Hosts' = Hosts
      /\ \A i \in Ids \ D : rows'[i] = rows[i]
      /\ \A i \in Stored : rows'[i].link = rows[i].link /\ rows'[i].level = rows[i].level
                              /\ rows'[i].loop = rows[i].loop
      /\ \A i \in D : rows'[i].pending = {c} /\ Leaf(i)' = {c}
      /\ \A i \in Ids \ D : Leaf(i)' = Leaf(i)
  BY SaveShape
<1>4. /\ pc[p] \in Asking /\ Suspending(p)
      /\ c \in Stored /\ c \notin claimed /\ c \notin announced /\ rows[c].loop = 0 /\ c \notin D
      /\ \A i \in D : Of(p, i) /\ i \notin claimed /\ i \notin announced
      /\ \A i \in D : \E j \in (D \cup {c}) \cap (Stored \ claimed) : rows[j].link.host = i
      /\ \A j \in D \cup {c} : rows[j].link.host \in Stored => rows[j].link.host \in D
      /\ Lvl(p) = act[p].top /\ act[p].link.host \in Stored => act[p].link.host \in D
      /\ \A i \in D \cap Unlinked : Leaf(i) = {c}
  BY <1>1, SaveParts
<1> HIDE DEF D, c
<1>5. OnlyStream(p) /\ \A l \in Loops : status[l] # "none" =>
        status'[l] # "none" /\ (status'[l] = "running" => status[l] = "running")
  BY MoveOthers DEF Inv, Global
<1>6. Types' BY MoveTypes
<1>7. Tokens /\ Types /\ issued \in Nat /\ Stored \subseteq Ids /\ 0 \notin Ids
  BY IdTypes, SizeAssumption DEF Inv, Global, Stored, Types, TypeOK
<1>8. Keeps
  <2>1. \A i \in announced : rows'[i] \in {rows[i], NoRow}
    <3>1. announced \subseteq Ids BY DEF Inv, Global, Types, TypeOK
    <3> QED BY <3>1, <1>3, <1>4
  <2>2. claimed' \subseteq Stored' BY <1>1, <1>3 DEF Inv, Global, Claims
  <2> QED BY <2>1, <2>2, <1>1, <1>2, <1>3, <1>5, <1>7 DEF Keeps
<1>9. ASSUME NEW q \in Streams \ {p} PROVE Local(q)'
  <2>1. SparesStream(q) BY <1>5 DEF OnlyStream
  <2>2. \A i \in D : ~Of(q, i) /\ ~Of(q, i)'
    <3>1. \A i \in D : ~Of(q, i) BY <1>4, Disjoint
    <3>2. c \notin Mine(q)
      <4>1. Of(p, c) BY <1>4, MineStored DEF Mine, c
      <4> QED BY <4>1, MineStored, Disjoint
    <3>3. Mine(q)' = Mine(q) BY <2>1, MinePrime
    <3> QED BY <3>1, <3>2, <3>3, <1>3 DEF Of
  <2>3. SparesRows(q)
    <3>1. \A i \in Ids : Of(q, i) \/ Of(q, i)' => rows'[i] = rows[i] BY <2>2, <1>3
    <3>2. Suspending(q) => child[q] \notin announced' BY <1>2 DEF Inv, Local, ChildOK
    <3> QED BY <3>1, <3>2, <1>1 DEF SparesRows
  <2> QED BY <2>1, <2>3, <1>8, LocalKeeps
<1>10. /\ pc'[p] \in Asking /\ Suspending(p)' /\ Stacked(p)' /\ ~Closing(p)'
       /\ (Bearing(p)' <=> act[p].top < Lvl(p)) /\ (Bearing(p) <=> act[p].top < Lvl(p))
       /\ Stacked(p) /\ Lvl(p)' = Lvl(p)
       /\ \A j : Cur(p, j)' = Cur(p, j) /\ Open(p, j)' = Open(p, j)
       /\ \A j : Live(p, j)' <=> Live(p, j)
  <2>1. pc'[p] \in Asking BY <1>1 DEF Asking
  <2>2. Lvl(p)' = Lvl(p) /\ \A j : Cur(p, j)' = Cur(p, j) /\ Open(p, j)' = Open(p, j)
    BY <1>1 DEF Lvl, Cur, Open
  <2> QED BY <2>1, <2>2, <1>1, <1>4, AskingParts, AskingNext
<1>11. \A i \in D : \A j \in Stored \ claimed : rows[j].link.host = i => j \in D \cup {c}
  <2> SUFFICES ASSUME NEW i \in D, NEW j \in Stored \ claimed, rows[j].link.host = i
               PROVE  j \in D \cup {c}
    OBVIOUS
  <2>1. PICK m \in (D \cup {c}) \cap (Stored \ claimed) : rows[m].link.host = i BY <1>4
  <2>2. i # 0 BY <1>3, <1>7 DEF Hosts
  <2> QED BY <2>1, <2>2, <1>7, OneRow
<1>12. Unlinked' = Unlinked /\ \A i \in Stored : Whole(i)' <=> Whole(i)
  BY <1>1, <1>3 DEF Unlinked, Whole
<1>13. Local(p)'
  <2>1. StackOK(p)'
    <3>1. StackOK(p) BY DEF Inv, Local
    <3> QED BY <3>1, <1>1, <1>4, <1>10 DEF StackOK
  <2>2. WorkerOK(p)'
    <3>1. WorkerOK(p) BY DEF Inv, Local
    <3> QED BY <3>1, <1>1, <1>3 DEF WorkerOK
  <2>3. ChildOK(p)' BY <1>1, <1>2, <1>3, <1>4 DEF ChildOK, c
  <2>4. Carried(p)'
    <3> SUFFICES ASSUME Bearing(p), act[p].link.host \in Stored
                 PROVE  /\ worker[p].releasing
                        /\ rows'[act[p].link.host].pending = {worker[p].id}
      BY <1>1, <1>3, <1>10 DEF Carried
    <3>1. worker[p].releasing /\ rows[act[p].link.host].pending = {worker[p].id}
      BY DEF Inv, Local, Carried
    <3>2. act[p].link.host \notin D
      <4> SUFFICES ASSUME act[p].link.host \in D PROVE FALSE
        OBVIOUS
      <4>1. PICK j \in (D \cup {c}) \cap (Stored \ claimed) : rows[j].link.host = act[p].link.host
        BY <1>4
      <4>2. rows[j].link.host # 0 BY <4>1, <1>7
      <4> QED BY <4>1, <4>2, <1>7, OneRow
    <3> QED BY <3>1, <3>2, <1>3, <1>7
  <2>5. Chain(p)'
    <3>1. \A i \in Unlinked : Leaf(i)' = {c} => Leaf(i) = {c}
      <4>1. Unlinked \subseteq Stored BY DEF Unlinked
      <4> QED BY <4>1, <1>3, <1>4, <1>7
    <3>2. /\ \A i \in Unlinked : Leaf(i) = {c} =>
                rows[i].level = Lvl(p) /\ act[p].top < Lvl(p)
                /\ rows[i].link.loop = Cur(p, Lvl(p) - 1)
          /\ \A i, j \in Unlinked : Leaf(i) = {c} /\ Leaf(j) = {c} => i = j
      BY <1>1, <1>4 DEF Inv, Local, Chain, c
    <3>3. \A i \in Unlinked : rows'[i].level = rows[i].level /\ rows'[i].link = rows[i].link
      BY <1>3 DEF Unlinked
    <3>4. c' = c BY <1>1 DEF c
    <3>5. \A i \in Unlinked' : Leaf(i)' = {child'[p]} =>
            /\ rows'[i].level = act'[p].lvl /\ act'[p].top < act'[p].lvl
            /\ rows'[i].link.loop = act'[p].cur[act'[p].lvl - 1]
      BY <3>1, <3>2, <3>3, <1>1, <1>12 DEF Lvl, Cur, c
    <3>6. \A i, j \in Unlinked' : Leaf(i)' = {child'[p]} /\ Leaf(j)' = {child'[p]} => i = j
      BY <3>1, <3>2, <1>1, <1>12 DEF c
    <3> QED BY <3>5, <3>6, <1>10 DEF Chain, Lvl, Cur
  <2>6. FramesOver(p)'
    <3>1. pc'[p] \notin {"off", "claim", "inspect", "ended"} BY <1>1
    <3> QED BY <3>1, <1>1, <1>10, FramesNext DEF Cur
  <2>7. ClaimOK(p)' /\ ClosingOK(p)' /\ Linking(p)' /\ Tip(p)' /\ Saving(p)'
    BY <1>1, <1>10 DEF ClaimOK, ClosingOK, Linking, Tip, Saving
  <2> QED BY <2>1, <2>2, <2>3, <2>4, <2>5, <2>6, <2>7 DEF Local
<1>14. Tokens'
  <2>1. \A k, z, ln, v : Held(k, z, ln, v)' => Held(k, z, ln, v)
    <3>1. \A i \in Stored' \ claimed' : i \in Stored \ claimed
             /\ rows'[i].link = rows[i].link /\ rows'[i].level = rows[i].level
      BY <1>1, <1>3
    <3> QED BY <3>1, <1>1, <1>5, <1>10, TokensOf
  <2>2. \A q \in Streams : pc[q] = "record" /\ act[q].link.loop \in Running' => pc'[q] = "record"
    BY <1>1, <1>5 DEF OnlyStream, SparesStream
  <2>3. Hosts \ Stored' = {} BY <1>3 DEF Hosts
  <2> QED BY <2>1, <2>2, <2>3, <1>3, <1>8, TokensVanish
<1>15. PlaceOnce' /\ PlaceRuns' /\ NoneYet'
  <2>1. \A a, z, k, l : Place(a, z, k, l)' => Place(a, z, k, l)
    <3>1. \A h \in Hosts' : h \in Hosts /\ rows'[h].loop = rows[h].loop BY <1>3 DEF Hosts
    <3>2. \A k \in Levels : Live(p, k)' => Live(p, k) /\ Cur(p, k)' = Cur(p, k) BY <1>10
    <3> QED BY <3>1, <3>2, <1>1, <1>5, PlacesOf
  <2>2. \A z, k, l : Place("live", z, k, l)' /\ pc[z] = "turn" /\ k = Lvl(z) =>
           Done(l) < MaxIterations \/ (pc'[z] = "turn" /\ k = Lvl(z)')
    <3> SUFFICES ASSUME NEW z, NEW k, NEW l, Place("live", z, k, l)', pc[z] = "turn", k = Lvl(z)
                 PROVE  pc'[z] = "turn" /\ k = Lvl(z)'
      OBVIOUS
    <3>1. z \in Streams \ {p} BY <1>1 DEF Place
    <3> QED BY <3>1, <1>5 DEF OnlyStream, SparesStream, Lvl
  <2>3. Running' = Running /\ recorded' = recorded BY <1>1 DEF Running
  <2>4. NoneYet' BY <1>1 DEF NoneYet, Unused, Inv, Global
  <2> QED BY <2>1, <2>2, <2>3, <2>4, PlacesVanish
<1>16. \A q \in Streams \ {p} :
         /\ Suspending(q)' = Suspending(q) /\ child'[q] = child[q]
         /\ worker'[q] = worker[q] /\ Passing(q)' = Passing(q) /\ act'[q] = act[q]
  BY <1>5, OthersStay
<1>17. Issued' /\ Singles' /\ Claims' /\ Told'
  <2>0. Issued /\ Singles /\ Claims /\ Told BY DEF Inv, Global
  <2>1. Issued' BY <2>0, <1>1, <1>2, <1>3 DEF Issued
  <2>2. Singles'
    <3>1. c \in Ids /\ c <= issued BY <2>0, <1>4, <1>7 DEF Issued
    <3>2. \A i \in Stored : rows'[i].pending = IF i \in D THEN {c} ELSE rows[i].pending
      BY <1>3, <1>7
    <3>3. \A i \in D : rows[i].loop # 0 BY <1>3 DEF Hosts
    <3>4. \A i \in Stored : rows[i].loop # 0 => \E d \in Ids :
            d <= issued /\ rows'[i].pending = {d} /\ (d \in Stored => rows[d].loop = 0)
      BY <2>0, <3>1, <3>2, <1>4 DEF Singles
    <3>5. \A i \in Stored : rows[i].loop = 0 => rows'[i].pending = {}
      BY <2>0, <3>2, <3>3 DEF Singles
    <3>6. \A i \in Stored : rows'[i].loop = rows[i].loop /\ rows'[i].level = rows[i].level BY <1>3
    <3>7. \A d : d \in Stored => (rows'[d].loop = 0 <=> rows[d].loop = 0) BY <3>6
    <3> QED BY <2>0, <3>4, <3>5, <3>6, <3>7, <1>1, <1>3 DEF Singles
  <2>3. Claims'
    <3>1. \A q \in Streams : worker'[q] = worker[q] /\ child'[q] = child[q]
            /\ (Suspending(q)' => Suspending(q))
      BY <1>1, <1>4, <1>16
    <3>2. \A d \in claimed : rows'[d].loop = 0 BY <2>0, <1>3 DEF Claims
    <3> QED BY <2>0, <3>1, <3>2, <1>1, <1>3 DEF Claims
  <2>4. Told'
    <3>1. \A d \in announced \cap Stored : rows'[d].loop = 0 /\ Whole(d)'
      BY <2>0, <1>3, <1>12 DEF Told
    <3>2. \A h \in Hosts : rows'[h].pending \cap (announced \cup claimed) # {} => Whole(h)'
      <4> SUFFICES ASSUME NEW h \in Hosts, rows'[h].pending \cap (announced \cup claimed) # {}
                   PROVE  Whole(h)'
        OBVIOUS
      <4>1. h \notin D BY <1>3, <1>4
      <4>2. h \in Stored BY DEF Hosts
      <4>3. rows'[h].pending = rows[h].pending BY <4>1, <4>2, <1>3, <1>7
      <4> QED BY <2>0, <4>2, <4>3, <1>12 DEF Told
    <3> QED BY <3>1, <3>2, <1>1, <1>2, <1>3 DEF Told
  <2> QED BY <2>1, <2>2, <2>3, <2>4
<1>18. Above'
  <2> SUFFICES ASSUME NEW i \in Stored \ claimed, rows[i].link.host \in Stored
               PROVE  \/ rows'[rows[i].link.host].pending = Leaf(i)'
                      \/ \E q \in Streams : Handed(q, i)'
                      \/ Orphan(i)'
    <3>1. \A i \in Stored' \ claimed' : i \in Stored \ claimed /\ rows'[i].link.host = rows[i].link.host
      BY <1>1, <1>3
    <3>2. \A i \in Stored \ claimed : rows[i].link.host \in Stored =>
                      \/ rows'[rows[i].link.host].pending = Leaf(i)'
                      \/ \E q \in Streams : Handed(q, i)'
                      \/ Orphan(i)'
      OBVIOUS
    <3> QED BY <3>1, <3>2, <1>3 DEF Above
  <2> DEFINE h == rows[i].link.host
  <2>1. CASE i \in D \cup {c}
    <3>1. Leaf(i)' = {c}
      <4>1. c \notin D /\ c \in Ids /\ Leaf(c) = {c} BY <1>4, <1>7 DEF Leaf
      <4> QED BY <4>1, <2>1, <1>3
    <3>2. h \in D BY <2>1, <1>4
    <3> QED BY <3>1, <3>2, <1>3
  <2>2. CASE i \notin D \cup {c}
    <3>1. h \notin D BY <2>2, <1>11
    <3>2. Leaf(i)' = Leaf(i) /\ rows'[h] = rows[h] /\ rows'[i] = rows[i] BY <2>2, <3>1, <1>3, <1>7
    <3>3. Orphan(i) => Orphan(i)' BY <3>2, <1>1, <1>2, <1>4, <1>16 DEF Orphan
    <3>4. ASSUME NEW q \in Streams, Handed(q, i) PROVE Handed(q, i)'
      <4>1. h = act[q].link.host /\ Passing(q) BY <3>4 DEF Handed
      <4>2. q # p
        <5> SUFFICES ASSUME q = p PROVE FALSE
          OBVIOUS
        <5> QED BY <4>1, <3>1, <1>4 DEF Passing
      <4>3. Passing(q)' /\ child'[q] = child[q] /\ act'[q] = act[q] /\ worker'[q] = worker[q]
        BY <4>1, <4>2, <1>16
      <4> QED BY <4>3, <3>2, <3>4 DEF Handed
    <3>5. Above BY DEF Inv, Global
    <3> HIDE DEF h
    <3>6. rows[h].pending = Leaf(i) \/ (\E q \in Streams : Handed(q, i)) \/ Orphan(i)
      BY <3>5 DEF Above, h
    <3>7. rows'[h].pending = rows[h].pending BY <3>2
    <3> QED BY <3>2, <3>3, <3>4, <3>6, <3>7 DEF h
  <2> QED BY <2>1, <2>2
<1>19. \A q \in Streams : Local(q)' BY <1>9, <1>13
<1> QED BY <1>6, <1>14, <1>15, <1>17, <1>18, <1>19, InvNext

----------------------------------------------------------------------------
(* Linking the frame to the host checkpoint.                               *)

LEMMA UpwardSelfNext == ASSUME NEW id \in Stored' PROVE id \in Upward(id)'
  BY DEF Upward

LEMMA UpwardNextNext ==
  ASSUME NEW id, NEW i \in Upward(id)', rows'[i].link.host \in Stored'
  PROVE  rows'[i].link.host \in Upward(id)'
<1> SUFFICES ASSUME NEW S \in SUBSET Stored',
                    ({id} \cup {rows'[j].link.host : j \in S}) \cap Stored' \subseteq S
             PROVE  rows'[i].link.host \in S
  BY DEF Upward
<1>1. i \in S BY DEF Upward
<1> QED BY <1>1

\* The frame f and the host n of a stream that links.
Links(p, f, n) ==
  /\ f \in Stored \ claimed /\ n \in Hosts /\ f # n
  /\ DOMAIN snap[p] = {f}
  /\ f \in Upward(child[p]) /\ Leaf(f) = {child[p]} /\ rows[f].level = Lvl(p) + 1
  /\ rows[f].link.host = 0 /\ rows[f].link.loop = Cur(p, Lvl(p))
  /\ snap[p][f] \in Row /\ snap[p][f].pending = rows[f].pending
  /\ snap[p][f].level = rows[f].level /\ snap[p][f].loop = rows[f].loop
  /\ snap[p][f].link.loop = rows[f].link.loop /\ snap[p][f].link.host = n
  /\ rows[n].pending = {child[p]} /\ rows[n].level = Lvl(p) /\ rows[n].loop = Cur(p, Lvl(p))
  /\ Lvl(p) = act[p].top => rows[n].link.host = act[p].link.host
  /\ Cur(p, Lvl(p)) # 0 /\ Of(p, f)

LEMMA LinkingParts ==
  ASSUME Inv, NEW p \in Streams, pc[p] = "link"
  PROVE  \E f, n : Links(p, f, n)
<1>1. PICK f \in Stored \ claimed, n \in Hosts :
        /\ DOMAIN snap[p] = {f}
        /\ f \in Upward(child[p]) /\ Leaf(f) = {child[p]} /\ rows[f].level = Lvl(p) + 1
        /\ rows[f].link.host = 0 /\ rows[f].link.loop = Cur(p, Lvl(p))
        /\ snap[p][f] = [rows[f] EXCEPT !.link = snap[p][f].link]
        /\ snap[p][f].link.loop = rows[f].link.loop /\ snap[p][f].link.host = n
        /\ rows[n].pending = {child[p]} /\ rows[n].level = Lvl(p) /\ rows[n].loop = Cur(p, Lvl(p))
        /\ Lvl(p) = act[p].top => rows[n].link.host = act[p].link.host
  BY DEF Inv, Local, Linking
<1>2. snap[p][f] \in Row BY <1>1 DEF Inv, Global, Types, TypeOK
<1>3. /\ snap[p][f].pending = rows[f].pending /\ snap[p][f].level = rows[f].level
      /\ snap[p][f].loop = rows[f].loop
  <2>1. PICK r, s : r = rows[f] /\ s = snap[p][f] OBVIOUS
  <2>2. r \in Row /\ s = [r EXCEPT !.link = s.link]
    BY <2>1, <1>1, RowType DEF Inv, Global
  <2>3. s.pending = r.pending /\ s.level = r.level /\ s.loop = r.loop BY <2>2 DEF Row
  <2> QED BY <2>1, <2>3
<1>4. f # n
  <2>1. Lvl(p) \in Nat BY ActType, SizeAssumption DEF Inv, Global, Levels
  <2> QED BY <2>1, <1>1
<1>5. Cur(p, Lvl(p)) # 0 BY <1>1 DEF Hosts
<1>6. Of(p, f) BY <1>1 DEF Of, Mine, Suspending, Asking
<1> QED BY <1>1, <1>2, <1>3, <1>4, <1>5, <1>6 DEF Links

LEMMA LinkShape ==
  ASSUME Inv, NEW p \in Streams, NEW f, NEW n, Links(p, f, n), LinkFrame(p)
  PROVE  /\ Stored' = Stored /\ Hosts' = Hosts /\ f \in Stored /\ f \in Ids
         /\ \A i \in Ids \ {f} : rows'[i] = rows[i]
         /\ rows'[f] = snap[p][f]
         /\ \A i \in Stored : rows'[i].pending = rows[i].pending /\ rows'[i].level = rows[i].level
                              /\ rows'[i].loop = rows[i].loop /\ Leaf(i)' = Leaf(i)
         /\ ~Whole(f) /\ Whole(f)' /\ f \notin announced
         /\ Unlinked' = Unlinked \ {f}
         /\ \A i \in Stored \ {f} : rows'[i].link = rows[i].link /\ (Whole(i)' <=> Whole(i))
<1>1. rows' = [i \in Ids |-> IF i \in {f} THEN snap[p][i] ELSE rows[i]] /\ claimed' = claimed
  BY DEF LinkFrame, Links
<1>2. f \in Stored /\ f \in Ids /\ f \notin claimed /\ snap[p][f] \in Row BY DEF Links, Stored
<1>3. rows'[f] = snap[p][f] /\ \A i \in Ids \ {f} : rows'[i] = rows[i] BY <1>1, <1>2
<1>4. rows'[f] # NoRow BY <1>2, <1>3, NotARow
<1>5. Stored' = Stored BY <1>2, <1>3, <1>4 DEF Stored
<1>6. \A i \in Stored : i \in Ids BY DEF Stored
<1>7. \A i \in Stored : rows'[i].pending = rows[i].pending /\ rows'[i].level = rows[i].level
                        /\ rows'[i].loop = rows[i].loop
  BY <1>3, <1>6 DEF Links
<1>8. \A i \in Stored : Leaf(i)' = Leaf(i) BY <1>7 DEF Leaf
<1>9. Hosts' = Hosts BY <1>5, <1>7 DEF Hosts
<1>10. n # 0 BY IdTypes DEF Links, Hosts, Stored
<1>11. ~Whole(f) /\ Whole(f)' BY <1>3, <1>10 DEF Links, Whole
<1>12. f \notin announced BY <1>2, <1>11 DEF Inv, Global, Told
<1>13. \A i \in Stored \ {f} : rows'[i].link = rows[i].link /\ (Whole(i)' <=> Whole(i))
  BY <1>3, <1>6 DEF Whole
<1>14. Unlinked' = Unlinked \ {f}
  BY <1>1, <1>5, <1>11, <1>13 DEF Unlinked
<1> QED BY <1>2, <1>3, <1>5, <1>7, <1>8, <1>9, <1>11, <1>12, <1>13, <1>14

LEMMA LinkFrameKeeps ==
  ASSUME Inv, NEW p \in Streams, LinkFrame(p), Move(p)
  PROVE  Inv'
<1> DEFINE c == child[p]
<1>1. /\ pc[p] = "link" /\ pc'[p] = "retarget"
      /\ UNCHANGED <<claimed, issued, status, recorded, clientVars, act, child, frames, worker>>
  BY DEF LinkFrame, Inv, Global, Types, TypeOK
<1>2. UNCHANGED <<announced>> BY <1>1 DEF clientVars
<1>3. PICK f, n : Links(p, f, n) BY <1>1, LinkingParts
<1>4. /\ Stored' = Stored /\ Hosts' = Hosts /\ f \in Stored /\ f \in Ids
      /\ \A i \in Ids \ {f} : rows'[i] = rows[i]
      /\ rows'[f] = snap[p][f]
      /\ \A i \in Stored : rows'[i].pending = rows[i].pending /\ rows'[i].level = rows[i].level
                              /\ rows'[i].loop = rows[i].loop /\ Leaf(i)' = Leaf(i)
      /\ ~Whole(f) /\ Whole(f)' /\ f \notin announced
      /\ Unlinked' = Unlinked \ {f}
      /\ \A i \in Stored \ {f} : rows'[i].link = rows[i].link /\ (Whole(i)' <=> Whole(i))
  BY <1>3, LinkShape
<1>5. OnlyStream(p) /\ \A l \in Loops : status[l] # "none" =>
        status'[l] # "none" /\ (status'[l] = "running" => status[l] = "running")
  BY MoveOthers DEF Inv, Global
<1>6. Types' BY MoveTypes
<1>7. Tokens /\ Types /\ issued \in Nat /\ Stored \subseteq Ids /\ 0 \notin Ids
  BY IdTypes, SizeAssumption DEF Inv, Global, Stored, Types, TypeOK
<1>8. Keeps
  <2>1. \A i \in announced : rows'[i] \in {rows[i], NoRow}
    <3>1. announced \subseteq Ids BY DEF Inv, Global, Types, TypeOK
    <3> QED BY <3>1, <1>4
  <2>2. claimed' \subseteq Stored' BY <1>1, <1>4 DEF Inv, Global, Claims
  <2> QED BY <2>1, <2>2, <1>1, <1>2, <1>4, <1>5, <1>7 DEF Keeps
<1>9. ASSUME NEW q \in Streams \ {p} PROVE Local(q)'
  <2>1. SparesStream(q) BY <1>5 DEF OnlyStream
  <2>2. ~Of(q, f) /\ ~Of(q, f)'
    <3>1. ~Of(q, f) BY <1>3, Disjoint DEF Links
    <3>2. Mine(q)' = Mine(q) BY <2>1, MinePrime
    <3> QED BY <3>1, <3>2, <1>4 DEF Of
  <2>3. SparesRows(q)
    <3>1. \A i \in Ids : Of(q, i) \/ Of(q, i)' => rows'[i] = rows[i] BY <2>2, <1>4
    <3>2. Suspending(q) => child[q] \notin announced' BY <1>2 DEF Inv, Local, ChildOK
    <3> QED BY <3>1, <3>2, <1>1 DEF SparesRows
  <2> QED BY <2>1, <2>3, <1>8, LocalKeeps
<1>10. /\ pc[p] \in Asking /\ Suspending(p)
       /\ pc'[p] \in Asking /\ Suspending(p)' /\ Stacked(p)' /\ ~Closing(p)'
       /\ (Bearing(p)' <=> act[p].top < Lvl(p)) /\ (Bearing(p) <=> act[p].top < Lvl(p))
       /\ Stacked(p) /\ Lvl(p)' = Lvl(p)
       /\ \A j : Cur(p, j)' = Cur(p, j) /\ Open(p, j)' = Open(p, j)
       /\ \A j : Live(p, j)' <=> Live(p, j)
  <2>1. pc[p] \in Asking /\ pc'[p] \in Asking BY <1>1 DEF Asking
  <2>2. Lvl(p)' = Lvl(p) /\ \A j : Cur(p, j)' = Cur(p, j) /\ Open(p, j)' = Open(p, j)
    BY <1>1 DEF Lvl, Cur, Open
  <2> QED BY <2>1, <2>2, <1>1, AskingParts, AskingNext
<1>11. \A q \in Streams \ {p} :
         /\ Suspending(q)' = Suspending(q) /\ child'[q] = child[q]
         /\ worker'[q] = worker[q] /\ Passing(q)' = Passing(q) /\ act'[q] = act[q]
  BY <1>5, OthersStay
<1>12. Passing(p)' <=> Passing(p) BY <1>1, <1>10 DEF Passing
<1>13. \A q \in Streams :
         /\ (Suspending(q)' <=> Suspending(q)) /\ child'[q] = child[q]
         /\ worker'[q] = worker[q] /\ (Passing(q)' <=> Passing(q)) /\ act'[q] = act[q]
  BY <1>1, <1>10, <1>11, <1>12
<1>14. Issued' /\ Singles' /\ Claims' /\ Told'
  <2>0. Issued /\ Singles /\ Claims /\ Told BY DEF Inv, Global
  <2>1. Issued' BY <2>0, <1>1, <1>2, <1>4 DEF Issued
  <2>2. Singles' BY <2>0, <1>1, <1>4 DEF Singles
  <2>3. Claims'
    <3>1. \A d \in claimed : rows'[d].loop = 0 BY <2>0, <1>4 DEF Claims
    <3> QED BY <2>0, <3>1, <1>13, <1>1, <1>4 DEF Claims
  <2>4. Told'
    <3>1. \A d \in announced \cap Stored : rows'[d].loop = 0 /\ Whole(d)'
      BY <2>0, <1>4 DEF Told
    <3>2. \A h \in Hosts : rows'[h].pending \cap (announced \cup claimed) # {} => Whole(h)'
      BY <2>0, <1>4 DEF Told, Hosts
    <3> QED BY <3>1, <3>2, <1>1, <1>2, <1>4 DEF Told
  <2> QED BY <2>1, <2>2, <2>3, <2>4
<1>15. Above'
  <2>1. Above BY DEF Inv, Global
  <2>2. ASSUME NEW i \in Stored \ claimed, rows'[i].link.host \in Stored, i # f
        PROVE  \/ rows'[rows'[i].link.host].pending = Leaf(i)'
               \/ \E q \in Streams : Handed(q, i)'
               \/ Orphan(i)'
    <3> DEFINE h == rows[i].link.host
    <3>1. rows'[i].link.host = h /\ h \in Stored BY <2>2, <1>4
    <3>2. Leaf(i)' = Leaf(i) /\ rows'[h].pending = rows[h].pending BY <3>1, <1>4
    <3>3. Orphan(i) => Orphan(i)' BY <3>2, <1>1, <1>2, <1>13 DEF Orphan
    <3>4. ASSUME NEW q \in Streams, Handed(q, i) PROVE Handed(q, i)'
      BY <3>1, <3>2, <3>4, <1>13 DEF Handed
    <3> HIDE DEF h
    <3>5. rows[h].pending = Leaf(i) \/ (\E q \in Streams : Handed(q, i)) \/ Orphan(i)
      BY <2>1, <3>1 DEF Above, h
    <3> QED BY <3>1, <3>2, <3>3, <3>4, <3>5
  <2>3. rows'[rows'[f].link.host].pending = Leaf(f)'
    <3>1. n \in Stored BY <1>3 DEF Links, Hosts
    <3>2. rows'[f].link.host = n /\ rows'[n].pending = {c} /\ Leaf(f)' = {c}
      BY <3>1, <1>3, <1>4 DEF Links
    <3> QED BY <3>2
  <2>4. Stored' \ claimed' = Stored \ claimed BY <1>1, <1>4
  <2>5. \A i \in Stored' \ claimed' : rows'[i].link.host \in Stored' =>
               \/ rows'[rows'[i].link.host].pending = Leaf(i)'
               \/ \E q \in Streams : Handed(q, i)'
               \/ Orphan(i)'
    BY <2>2, <2>3, <2>4, <1>4
  <2> QED BY <2>5 DEF Above
<1>16. Tokens'
  <2>1. TokenMoves("frame", p, "row", f)
    <3> SUFFICES ASSUME NEW k, NEW z, NEW ln, NEW v, Held(k, z, ln, v)'
                 PROVE  \/ /\ Held(k, z, ln, v) /\ ~(k = "frame" /\ z = p)
                           /\ k = "act" /\ pc[z] = "record" /\ ln.loop \in Running' => pc'[z] = "record"
                        \/ /\ k = "row" /\ z = f /\ Held("frame", p, ln, v) /\ "frame" # "act"
                           /\ ln.host = 0 => ln.loop = 0
      BY DEF TokenMoves
    <3>1. CASE k = "row"
      <4>1. z \in Stored \ claimed /\ ln = rows'[z].link /\ v = rows'[z].level
        BY <3>1, <1>1, <1>4 DEF Held
      <4>2. CASE z = f
        <5>1. ln = snap[p][f].link /\ v = snap[p][f].level /\ f \in DOMAIN snap[p]
          BY <4>1, <4>2, <1>3, <1>4 DEF Links
        <5>2. Held("frame", p, ln, v) BY <5>1, <1>1 DEF Held
        <5>3. ln.host = 0 => ln.loop = 0
          <6>1. "frame" # "row" OBVIOUS
          <6> QED BY <5>2, <6>1 DEF Inv, Global, Tokens, TokenShape
        <5> QED BY <3>1, <4>2, <5>2, <5>3
      <4>3. CASE z # f
        <5>1. Held("row", z, ln, v) BY <4>1, <4>3, <1>4 DEF Held
        <5> QED BY <5>1, <3>1
      <4> QED BY <4>2, <4>3
    <3>2. CASE k = "act"
      <4>1. z \in Streams /\ Bearing(z)' /\ ln = act'[z].link /\ v = act'[z].top
        BY <3>2 DEF Held
      <4>2. Bearing(z)
        <5>1. CASE z = p BY <5>1, <4>1, <1>10
        <5>2. CASE z # p
          <6>1. z \in Streams \ {p} BY <4>1, <5>2
          <6>2. SparesStream(z) BY <6>1, <1>11, <1>5 DEF OnlyStream
          <6> QED BY <6>2, <4>1, MinePrime
        <5> QED BY <5>1, <5>2
      <4>3. Held("act", z, ln, v) BY <4>1, <4>2, <1>1 DEF Held
      <4>4. pc[z] = "record" => pc'[z] = "record"
        BY <4>1, <1>1, <1>5 DEF OnlyStream, SparesStream
      <4> QED BY <4>3, <4>4, <3>2
    <3>3. CASE k = "read"
      <4>1. z \in Streams \ {p} BY <3>3, <1>1 DEF Held
      <4>2. SparesStream(z) BY <4>1, <1>5 DEF OnlyStream
      <4>3. Held("read", z, ln, v)
        BY <3>3, <4>1, <4>2 DEF Held, Read, SparesStream
      <4> QED BY <3>3, <4>3
    <3>4. CASE k = "frame"
      <4>1. z \in Streams \ {p} BY <3>4, <1>1 DEF Held
      <4>2. SparesStream(z) BY <4>1, <1>5 DEF OnlyStream
      <4>3. Held("frame", z, ln, v) BY <3>4, <4>1, <4>2 DEF Held, SparesStream
      <4> QED BY <3>4, <4>1, <4>3
    <3> QED BY <3>1, <3>2, <3>3, <3>4 DEF Held
  <2>2. \A h \in Stored \cap Stored' :
           rows'[h].loop = rows[h].loop /\ rows'[h].level = rows[h].level
    BY <1>4
  <2>3. Stored \ Stored' = {} BY <1>4
  <2> QED BY <2>1, <2>2, <2>3, <1>8, TokensMove
<1>17. PlaceOnce' /\ PlaceRuns' /\ NoneYet'
  <2>1. \A a, z, k, l : Place(a, z, k, l)' => Place(a, z, k, l)
    <3>1. \A h \in Hosts' : h \in Hosts /\ rows'[h].loop = rows[h].loop BY <1>4 DEF Hosts
    <3>2. \A k \in Levels : Live(p, k)' => Live(p, k) /\ Cur(p, k)' = Cur(p, k) BY <1>10
    <3> QED BY <3>1, <3>2, <1>1, <1>5, PlacesOf
  <2>2. \A z, k, l : Place("live", z, k, l)' /\ pc[z] = "turn" /\ k = Lvl(z) =>
           Done(l) < MaxIterations \/ (pc'[z] = "turn" /\ k = Lvl(z)')
    <3> SUFFICES ASSUME NEW z, NEW k, NEW l, Place("live", z, k, l)', pc[z] = "turn", k = Lvl(z)
                 PROVE  pc'[z] = "turn" /\ k = Lvl(z)'
      OBVIOUS
    <3>1. z \in Streams \ {p} BY <1>1 DEF Place
    <3> QED BY <3>1, <1>5 DEF OnlyStream, SparesStream, Lvl
  <2>3. Running' = Running /\ recorded' = recorded BY <1>1 DEF Running
  <2>4. NoneYet' BY <1>1 DEF NoneYet, Unused, Inv, Global
  <2> QED BY <2>1, <2>2, <2>3, <2>4, PlacesVanish
<1>18. Local(p)'
  <2>1. StackOK(p)'
    <3>1. StackOK(p) BY DEF Inv, Local
    <3> QED BY <3>1, <1>1, <1>10 DEF StackOK
  <2>2. WorkerOK(p)'
    <3>1. WorkerOK(p) BY DEF Inv, Local
    <3> QED BY <3>1, <1>1, <1>4 DEF WorkerOK
  <2>3. ChildOK(p)'
    <3>1. ChildOK(p) BY DEF Inv, Local
    <3> QED BY <3>1, <1>1, <1>2, <1>4, <1>10 DEF ChildOK
  <2>4. Carried(p)'
    <3>1. Carried(p) BY DEF Inv, Local
    <3> QED BY <3>1, <1>1, <1>4, <1>10 DEF Carried
  <2>5. Chain(p)'
    <3>1. /\ \A i \in Unlinked : Leaf(i) = {c} /\ i # f =>
                rows[i].level = Lvl(p) /\ act[p].top < Lvl(p)
                /\ rows[i].link.loop = Cur(p, Lvl(p) - 1)
          /\ \A i, j \in Unlinked : Leaf(i) = {c} /\ Leaf(j) = {c} /\ i # f /\ j # f => i = j
      BY <1>1, <1>3, <1>10 DEF Inv, Local, Chain, Links
    <3>2. \A i \in Unlinked : i # f => rows'[i].level = rows[i].level /\ rows'[i].link = rows[i].link
                                       /\ Leaf(i)' = Leaf(i)
      BY <1>4 DEF Unlinked
    <3>3. \A i \in Unlinked' : Leaf(i)' = {child'[p]} =>
            /\ rows'[i].level = act'[p].lvl /\ act'[p].top < act'[p].lvl
            /\ rows'[i].link.loop = act'[p].cur[act'[p].lvl - 1]
      BY <3>1, <3>2, <1>1, <1>4 DEF Lvl, Cur
    <3>4. \A i, j \in Unlinked' : Leaf(i)' = {child'[p]} /\ Leaf(j)' = {child'[p]} => i = j
      BY <3>1, <3>2, <1>1, <1>4
    <3> QED BY <3>3, <3>4, <1>10 DEF Chain, Lvl, Cur
  <2>6. FramesOver(p)'
    <3>1. pc'[p] \notin {"off", "claim", "inspect", "ended"} BY <1>1
    <3> QED BY <3>1, <1>1, <1>10, FramesNext DEF Cur
  <2>7. Tip(p)'
    <3> SUFFICES ASSUME Lvl(p) = act[p].top, act[p].link.host \in Stored
                 PROVE  act[p].link.host \in Upward(c)' /\ act[p].link.host # c
      BY <1>1, <1>4 DEF Tip, Lvl, Upward
    <3>1. Upward(c) \subseteq Upward(c)'
      <4>1. PICK x : x = c OBVIOUS
      <4>2. Upward(x) \subseteq Stored BY UpwardStored
      <4>3. \A i \in Upward(x) : i \in Stored' /\
              (rows[i].link.host \in Stored => rows'[i].link.host = rows[i].link.host)
        BY <4>2, <1>3, <1>4, <1>7 DEF Links
      <4>4. Upward(x) \subseteq Upward(x)' BY <4>3, UpwardKeeps
      <4> QED BY <4>1, <4>4, <1>1 DEF Upward
    <3>2. n \in Hosts /\ n # f /\ n \in Stored /\ n \notin claimed
      BY <1>3 DEF Links, Hosts, Inv, Global, Claims
    <3>3. rows'[f].link.host = n /\ rows'[n].link.host = act[p].link.host
      BY <3>2, <1>3, <1>4 DEF Links
    <3>4. f \in Upward(c)' BY <3>1, <1>3 DEF Links
    <3>5. n \in Upward(c)' /\ act[p].link.host \in Upward(c)'
      <4>1. PICK x : x = c OBVIOUS
      <4>2. Upward(x)' = Upward(c)' BY <4>1, <1>1 DEF Upward
      <4>3. n \in Upward(x)' BY <3>2, <3>3, <3>4, <4>2, <1>4, UpwardNextNext
      <4>4. act[p].link.host \in Upward(x)' BY <3>3, <4>3, <1>4, UpwardNextNext
      <4> QED BY <4>2, <4>3, <4>4
    <3>6. act[p].link.host \in Hosts
      BY <3>2, <1>3, <1>7, LinkedHost DEF Links
    <3>7. rows[c].loop = 0 BY <1>10 DEF Inv, Local, ChildOK
    <3> QED BY <3>5, <3>6, <3>7 DEF Hosts
  <2>8. ClaimOK(p)' /\ ClosingOK(p)' /\ Linking(p)' /\ Saving(p)'
    BY <1>1, <1>10 DEF ClaimOK, ClosingOK, Linking, Saving
  <2> QED BY <2>1, <2>2, <2>3, <2>4, <2>5, <2>6, <2>7, <2>8 DEF Local
<1>19. \A q \in Streams : Local(q)' BY <1>9, <1>18
<1> QED BY <1>6, <1>14, <1>15, <1>16, <1>17, <1>19, InvNext

----------------------------------------------------------------------------
(* A new checkpoint: the worker's, or that of a host around it.            *)

\* The stream asks, or suspends as a host: its right to close the iteration
\* above it goes into the row, if it is at the top of its stack.
Adds(p, r, n) ==
  /\ n = NextId /\ n \in Ids /\ r \in Row
  /\ rows' = [rows EXCEPT ![n] = r] /\ issued' = n
  /\ UNCHANGED <<claimed, status, recorded, announced, act, frames, worker>>
  /\ r.level = Lvl(p)
  /\ r.link.host = (IF act[p].top = Lvl(p) THEN act[p].link.host ELSE 0)
  /\ r.link.loop = (IF act[p].top = Lvl(p) THEN act[p].link.loop ELSE Cur(p, Lvl(p) - 1))
  /\ act[p].top # Lvl(p) => r.link.loop \in Running
  /\ \/ /\ pc[p] = "turn" /\ pc'[p] = "retarget" /\ child'[p] = n
        /\ r.loop = 0 /\ r.pending = {} /\ r.level = Depth
     \/ /\ pc[p] = "suspending" /\ pc'[p] = "link" /\ child'[p] = child[p]
        /\ r.loop = Cur(p, Lvl(p)) /\ r.loop \in Running /\ r.pending = {child[p]}
        /\ r.level < Depth
        /\ \E f : /\ DOMAIN snap'[p] = {f}
                  /\ snap'[p][f].link.host = n /\ snap'[p][f].link.loop = r.loop
                  /\ snap'[p][f].level = r.level + 1

LEMMA AddShape ==
  ASSUME Inv, NEW p \in Streams, NEW r, NEW n, Adds(p, r, n)
  PROVE  /\ n \in Ids /\ n \in Nat /\ issued \in Nat /\ issued < n
         /\ n \notin Stored /\ n \notin claimed /\ n \notin announced
         /\ Stored' = Stored \cup {n} /\ rows'[n] = r
         /\ \A i \in Ids \ {n} : rows'[i] = rows[i]
         /\ \A i \in Stored : i # n /\ rows'[i] = rows[i] /\ Leaf(i)' = Leaf(i)
         /\ Leaf(n)' = {child'[p]}
         /\ Hosts' = Hosts \cup (IF r.loop = 0 THEN {} ELSE {n})
         /\ Stored \subseteq Ids /\ 0 \notin Ids
<1>1. issued \in Nat /\ n \in Nat /\ issued < n
  BY SizeAssumption DEF Adds, NextId, Inv, Global, Types, TypeOK
<1>2. n \in Ids /\ rows' = [rows EXCEPT ![n] = r] BY DEF Adds
<1>3. \A i \in Stored \cup announced : i <= issued /\ i \in Ids /\ i \in Nat
  BY IdTypes DEF Inv, Global, Issued, Types, TypeOK, Stored
<1>4. \A i \in Stored \cup announced : i # n
  <2> SUFFICES ASSUME n \in Stored \cup announced PROVE FALSE
    OBVIOUS
  <2>1. n <= issued BY <1>3
  <2> QED BY <1>1, <2>1
<1>5. claimed \subseteq Stored BY DEF Inv, Global, Claims
<1>6. rows'[n] = r /\ \A i \in Ids \ {n} : rows'[i] = rows[i]
  BY <1>2 DEF Inv, Global, Types, TypeOK
<1>7. r # NoRow BY NotARow DEF Adds
<1>8. Stored' = Stored \cup {n} BY <1>2, <1>6, <1>7 DEF Stored
<1>9. \A i \in Stored : rows'[i] = rows[i] BY <1>3, <1>4, <1>6
<1>10. \A i \in Stored : Leaf(i)' = Leaf(i) BY <1>9 DEF Leaf
<1>11. 0 \notin Ids /\ Running \subseteq Loops /\ 0 \notin Loops BY IdTypes DEF Running
<1>12. Leaf(n)' = {child'[p]}
  <2>1. CASE r.loop = 0 /\ child'[p] = n BY <2>1, <1>6 DEF Leaf
  <2>2. CASE r.loop # 0 /\ r.pending = {child'[p]} BY <2>2, <1>6 DEF Leaf
  <2> QED BY <2>1, <2>2, <1>11 DEF Adds
<1>13. Hosts' = Hosts \cup (IF r.loop = 0 THEN {} ELSE {n})
  BY <1>6, <1>8, <1>9 DEF Hosts
<1> QED BY <1>1, <1>2, <1>3, <1>4, <1>5, <1>6, <1>8, <1>9, <1>10, <1>11, <1>12, <1>13

LEMMA AddParts ==
  ASSUME Inv, NEW p \in Streams, NEW r, NEW n, Adds(p, r, n)
  PROVE  /\ Bearing(p) /\ ~Passing(p) /\ pc'[p] \in Asking /\ Suspending(p)'
         /\ Lvl(p)' = Lvl(p) /\ act' = act /\ worker' = worker
         /\ act[p].top \in Levels /\ Lvl(p) \in Levels /\ Levels \subseteq Nat
         /\ act[p].top <= Lvl(p)
         /\ (Bearing(p)' <=> act[p].top < Lvl(p))
         /\ (Passing(p)' <=> act[p].top = Lvl(p))
<1>1. Bearing(p) /\ ~Passing(p) /\ Stacked(p) BY DEF Adds, Bearing, Passing, Stacked, Suspending
<1>2. pc'[p] \in Asking /\ act' = act /\ worker' = worker /\ pc'[p] \in {"link", "retarget"}
  BY DEF Adds, Asking
<1>3. Lvl(p)' = Lvl(p) BY <1>2 DEF Lvl
<1>4. act[p].top \in Levels /\ Lvl(p) \in Levels /\ Levels \subseteq Nat
  BY ActType, SizeAssumption DEF Inv, Global, Levels
<1>5. act[p].top <= Lvl(p) BY <1>1 DEF Inv, Local, StackOK
<1>6. Suspending(p)' /\ (Bearing(p)' <=> act[p].top < Lvl(p)) BY <1>2, <1>3, AskingNext
<1>7. Passing(p)' <=> act[p].top = Lvl(p) BY <1>2, <1>3 DEF Passing
<1> QED BY <1>1, <1>2, <1>3, <1>4, <1>5, <1>6, <1>7

LEMMA AddOthers ==
  ASSUME Inv, NEW p \in Streams, NEW r, NEW n, Adds(p, r, n), OnlyStream(p),
         \A l \in Loops : status[l] # "none" =>
           status'[l] # "none" /\ (status'[l] = "running" => status[l] = "running")
  PROVE  /\ Keeps
         /\ \A q \in Streams \ {p} : Local(q)'
<1>1. /\ n \in Ids /\ n \in Nat /\ issued \in Nat /\ issued < n
      /\ n \notin Stored /\ n \notin claimed /\ n \notin announced
      /\ Stored' = Stored \cup {n} /\ rows'[n] = r
      /\ \A i \in Ids \ {n} : rows'[i] = rows[i]
      /\ \A i \in Stored : i # n /\ rows'[i] = rows[i] /\ Leaf(i)' = Leaf(i)
      /\ Leaf(n)' = {child'[p]}
  BY AddShape
<1>2. claimed' = claimed /\ announced' = announced /\ issued' = n BY DEF Adds
<1>3. Keeps
  <2>1. \A i \in announced : rows'[i] \in {rows[i], NoRow}
    <3>1. announced \subseteq Ids BY DEF Inv, Global, Types, TypeOK
    <3> QED BY <3>1, <1>1
  <2>2. claimed' \subseteq Stored' BY <1>1, <1>2 DEF Inv, Global, Claims
  <2>3. \A i \in Stored' \ Stored : i > issued BY <1>1
  <2>4. issued <= issued' BY <1>1, <1>2
  <2> QED BY <2>1, <2>2, <2>3, <2>4, <1>1, <1>2 DEF Keeps
<1>4. ASSUME NEW q \in Streams \ {p} PROVE Local(q)'
  <2>1. SparesStream(q) BY DEF OnlyStream
  <2>2. Mine(q)' = Mine(q) BY <2>1, MinePrime
  <2>3. ~Of(q, n) /\ ~Of(q, n)'
    <3>1. child'[p] \notin Mine(q)
      <4>1. CASE child'[p] = n BY <4>1, <1>1, MineStored
      <4>2. CASE pc[p] = "suspending" /\ child'[p] = child[p]
        <5>1. child[p] \in Mine(p) BY <4>2 DEF Mine, Suspending
        <5> QED BY <4>2, <5>1, MineStored, Disjoint
      <4> QED BY <4>1, <4>2 DEF Adds
    <3> QED BY <3>1, <2>2, <1>1 DEF Of
  <2>4. SparesRows(q)
    <3>1. \A i \in Ids : Of(q, i) \/ Of(q, i)' => rows'[i] = rows[i] BY <2>3, <1>1
    <3>2. Suspending(q) => child[q] \notin announced' BY <1>2 DEF Inv, Local, ChildOK
    <3> QED BY <3>1, <3>2, <1>2 DEF SparesRows
  <2> QED BY <2>1, <2>4, <1>3, LocalKeeps
<1> QED BY <1>3, <1>4

LEMMA AddGlobal ==
  ASSUME Inv, NEW p \in Streams, NEW r, NEW n, Adds(p, r, n), OnlyStream(p)
  PROVE  Issued' /\ Singles' /\ Claims' /\ Above' /\ Told'
<1>1. /\ n \in Ids /\ n \in Nat /\ issued \in Nat /\ issued < n
      /\ n \notin Stored /\ n \notin claimed /\ n \notin announced
      /\ Stored' = Stored \cup {n} /\ rows'[n] = r
      /\ \A i \in Ids \ {n} : rows'[i] = rows[i]
      /\ \A i \in Stored : i # n /\ rows'[i] = rows[i] /\ Leaf(i)' = Leaf(i)
      /\ Leaf(n)' = {child'[p]}
      /\ Hosts' = Hosts \cup (IF r.loop = 0 THEN {} ELSE {n})
      /\ Stored \subseteq Ids /\ 0 \notin Ids
  BY AddShape
<1>2. claimed' = claimed /\ announced' = announced /\ issued' = n BY DEF Adds
<1>3. /\ Bearing(p) /\ ~Passing(p) /\ pc'[p] \in Asking /\ Suspending(p)'
      /\ Lvl(p)' = Lvl(p) /\ act' = act /\ worker' = worker
      /\ (Passing(p)' <=> act[p].top = Lvl(p))
  BY AddParts
<1>4. \A q \in Streams \ {p} :
         /\ Suspending(q)' = Suspending(q) /\ child'[q] = child[q]
         /\ worker'[q] = worker[q] /\ Passing(q)' = Passing(q) /\ act'[q] = act[q]
  BY OthersStay
<1>5. child'[p] = n \/ (child'[p] = child[p] /\ Suspending(p)) BY DEF Adds, Suspending
<1>6. \A i \in Ids : i <= issued => i # n
  <2> QED BY <1>1
<1>7. Issued /\ Singles /\ Claims /\ Told /\ Above /\ Tokens /\ Types BY DEF Inv, Global
<1>8. \A q \in Streams : Suspending(q) => child[q] \in Stored /\ child[q] \notin announced /\ child[q] \notin claimed
        /\ rows[child[q]].loop = 0
  BY DEF Inv, Local, ChildOK
<1>9. /\ r.level = Lvl(p)
      /\ r.link.host = (IF act[p].top = Lvl(p) THEN act[p].link.host ELSE 0)
      /\ \/ r.loop = 0 /\ r.pending = {} /\ r.level = Depth
         \/ r.loop # 0 /\ r.level < Depth /\ r.pending = {child[p]} /\ Suspending(p)
  BY IdTypes DEF Adds, Running, Suspending
<1>10. Issued'
  <2>1. \A i \in Stored \cup announced : i \in Nat /\ i <= issued
    BY <1>7, IdTypes DEF Issued, Stored, Types, TypeOK
  <2>2. \A i \in Stored \cup announced \cup {n} : i <= n
    <3>1. issued \in Nat /\ n \in Nat /\ issued < n BY <1>1
    <3> QED BY <2>1, <3>1
  <2> QED BY <2>2, <1>1, <1>2 DEF Issued
<1>11. Singles'
  <2>1. ASSUME NEW i \in Stored, rows[i].loop # 0
        PROVE  \E c \in Ids : c <= issued' /\ rows'[i].pending = {c} /\ (c \in Stored' => rows'[c].loop = 0)
    <3>1. PICK c \in Ids : c <= issued /\ rows[i].pending = {c} /\ (c \in Stored => rows[c].loop = 0)
      BY <1>7, <2>1 DEF Singles
    <3>2. c # n /\ c \in Nat /\ c <= n BY <3>1, <1>1, <1>6, IdTypes
    <3>3. c \in Stored' => c \in Stored BY <3>2, <1>1
    <3>4. rows'[i].pending = {c} BY <3>1, <1>1
    <3>5. c \in Stored' => rows'[c].loop = 0 BY <3>1, <3>3, <1>1
    <3> QED BY <3>1, <3>2, <3>4, <3>5, <1>2
  <2>2. ASSUME r.loop # 0
        PROVE  \E c \in Ids : c <= issued' /\ rows'[n].pending = {c} /\ (c \in Stored' => rows'[c].loop = 0)
    <3>1. r.pending = {child[p]} /\ Suspending(p) BY <2>2, <1>9
    <3>2. child[p] \in Stored /\ rows[child[p]].loop = 0 BY <3>1, <1>8
    <3>3. child[p] \in Ids /\ child[p] <= n
      <4>1. child[p] \in Ids /\ child[p] \in Nat /\ child[p] <= issued
        BY <3>2, <1>7, <1>1, IdTypes DEF Issued
      <4> QED BY <4>1, <1>1
    <3> QED BY <3>1, <3>2, <3>3, <1>1, <1>2
  <2>3. \A i \in Stored : (rows[i].loop = 0 => rows[i].pending = {} /\ rows[i].level = Depth)
                          /\ (rows[i].loop # 0 => rows[i].level < Depth)
    BY <1>7 DEF Singles
  <2>4. (r.loop = 0 => r.pending = {} /\ r.level = Depth) /\ (r.loop # 0 => r.level < Depth) BY <1>9
  <2>5. \A i \in Stored : rows'[i] = rows[i] BY <1>1
  <2>6. \A i \in Stored' : i \in Stored \/ i = n BY <1>1
  <2>7. rows'[n] = r BY <1>1
  <2> HIDE <1>1
  <2>8. ASSUME NEW i \in Stored'
        PROVE  /\ rows'[i].loop = 0 => rows'[i].pending = {} /\ rows'[i].level = Depth
               /\ rows'[i].loop # 0 => rows'[i].level < Depth
               /\ rows'[i].loop # 0 => \E c \in Ids :
                    c <= issued' /\ rows'[i].pending = {c} /\ (c \in Stored' => rows'[c].loop = 0)
    <3>1. CASE i \in Stored BY <3>1, <2>1, <2>3, <2>5
    <3>2. CASE i = n BY <3>2, <2>2, <2>4, <2>7
    <3> QED BY <3>1, <3>2, <2>6
  <2> QED BY <2>8 DEF Singles
<1>12. Claims'
  <2>1. \A d \in claimed : rows'[d].loop = 0 BY <1>1, <1>7 DEF Claims
  <2>2. claimed' \subseteq Stored' BY <1>1, <1>2, <1>7 DEF Claims
  <2>3. \A u, q \in Streams : Suspending(u)' /\ Suspending(q)' /\ child'[u] = child'[q] => u = q
    <3>1. \A q \in Streams \ {p} : Suspending(q)' => child'[q] \in Stored /\ Suspending(q) /\ child'[q] = child[q]
      BY <1>4, <1>8
    <3>2. \A q \in Streams \ {p} : Suspending(q)' => child'[q] # child'[p]
      BY <3>1, <1>1, <1>5, <1>7 DEF Claims
    <3> QED BY <3>1, <3>2, <1>7 DEF Claims
  <2> QED BY <2>1, <2>2, <2>3, <1>2, <1>3, <1>7 DEF Claims
<1>13. Told'
  <2>1. \A d \in announced \cap Stored' : d \in Stored /\ rows'[d] = rows[d] BY <1>1
  <2>2. \A d \in announced \cap Stored' : rows'[d].loop = 0 /\ Whole(d)'
    BY <2>1, <1>7 DEF Told, Whole
  <2>3. \A h \in Hosts : rows'[h].pending \cap (announced \cup claimed) # {} => Whole(h)'
    BY <1>1, <1>7 DEF Told, Whole, Hosts
  <2>4. r.loop # 0 => rows'[n].pending \cap (announced \cup claimed) = {} BY <1>1, <1>8, <1>9
  <2> QED BY <2>2, <2>3, <2>4, <1>1, <1>2 DEF Told
<1>14. Above'
  <2>1. ASSUME NEW i \in Stored \ claimed, rows[i].link.host \in Stored'
        PROVE  \/ rows'[rows[i].link.host].pending = Leaf(i)
               \/ \E q \in Streams : Handed(q, i)'
               \/ Orphan(i)'
    <3> DEFINE h == rows[i].link.host
    <3>1. h \in Stored
      <4>1. h <= issued BY <1>7, RowToken
      <4> HIDE DEF h
      <4> QED BY <4>1, <2>1, <1>1, <1>6 DEF h
    <3> HIDE DEF h
    <3>2. Leaf(i)' = Leaf(i) /\ rows'[h] = rows[h] /\ rows'[i] = rows[i] BY <3>1, <1>1
    <3>3. Orphan(i) => Orphan(i)'
      <4>1. Leaf(i) # {n}
        <5>1. PICK c \in Ids : c <= issued /\ Leaf(i) = {c} BY OneLeaf
        <5> QED BY <5>1, <1>6
      <4> QED BY <4>1, <3>2, <1>2, <1>4, <1>5 DEF Orphan
    <3>4. ASSUME NEW q \in Streams, Handed(q, i) PROVE Handed(q, i)'
      <4>1. q # p BY <3>4, <1>3 DEF Handed
      <4>2. Passing(q)' /\ child'[q] = child[q] /\ act'[q] = act[q] /\ worker'[q] = worker[q]
        BY <3>4, <4>1, <1>4 DEF Handed
      <4> QED BY <4>2, <3>2, <3>4 DEF Handed, h
    <3>5. rows[h].pending = Leaf(i) \/ (\E q \in Streams : Handed(q, i)) \/ Orphan(i)
      BY <1>7, <3>1 DEF Above, h
    <3>6. rows'[h].pending = rows[h].pending BY <3>2
    <3> QED BY <3>3, <3>4, <3>5, <3>6 DEF h
  <2>2. ASSUME r.link.host \in Stored'
        PROVE  Handed(p, n)'
    <3>1. act[p].top = Lvl(p) /\ r.link.host = act[p].link.host BY <2>2, <1>1, <1>9
    <3>2. act[p].link.host <= issued BY <1>3, <1>7, ActToken
    <3>3. act[p].link.host \in Stored BY <2>2, <3>1, <3>2, <1>1, <1>6
    <3>4. worker[p].releasing /\ rows[act[p].link.host].pending = {worker[p].id}
      BY <3>3, <1>3 DEF Inv, Local, Carried
    <3>5. rows'[act[p].link.host] = rows[act[p].link.host] BY <3>3, <1>1
    <3> QED BY <3>1, <3>4, <3>5, <1>1, <1>3 DEF Handed
  <2>3. \A i \in Stored' \ claimed' : rows'[i].link.host \in Stored' =>
               \/ rows'[rows'[i].link.host].pending = Leaf(i)'
               \/ \E q \in Streams : Handed(q, i)'
               \/ Orphan(i)'
    <3> SUFFICES ASSUME NEW i \in Stored' \ claimed', rows'[i].link.host \in Stored'
                 PROVE  \/ rows'[rows'[i].link.host].pending = Leaf(i)'
                        \/ \E q \in Streams : Handed(q, i)'
                        \/ Orphan(i)'
      OBVIOUS
    <3>1. CASE i \in Stored
      <4>1. i \in Stored \ claimed /\ rows'[i] = rows[i] /\ Leaf(i)' = Leaf(i) BY <3>1, <1>1, <1>2
      <4> QED BY <4>1, <2>1
    <3>2. CASE i = n
      <4>1. rows'[i].link.host = r.link.host BY <3>2, <1>1
      <4> QED BY <4>1, <3>2, <2>2
    <3> QED BY <3>1, <3>2, <1>1
  <2> QED BY <2>3 DEF Above
<1> QED BY <1>10, <1>11, <1>12, <1>13, <1>14

LEMMA AddTokens ==
  ASSUME Inv, NEW p \in Streams, NEW r, NEW n, Adds(p, r, n), OnlyStream(p)
  PROVE  Tokens'
<1> DEFINE Old(k, z, ln, v) ==
             /\ Held(k, z, ln, v) /\ ln.host <= issued
             /\ k = "act" /\ z = p => act[p].top # Lvl(p)
             /\ pc[z] = "record" /\ k = "act" => pc'[z] = "record"
           Row1(k, z, ln, v) == k = "row" /\ z = n /\ ln = r.link /\ v = r.level
           Frame1(k, z, ln, v) ==
             /\ k = "frame" /\ z = p /\ ln.host = n /\ ln.loop = r.loop /\ v = r.level + 1
             /\ r.loop = Cur(p, Lvl(p)) /\ r.loop \in Running
<1>1. /\ n \in Ids /\ n \in Nat /\ issued \in Nat /\ issued < n
      /\ n \notin Stored /\ n \notin claimed
      /\ Stored' = Stored \cup {n} /\ rows'[n] = r
      /\ \A i \in Stored : i # n /\ rows'[i] = rows[i]
      /\ Stored \subseteq Ids /\ 0 \notin Ids
  BY AddShape
<1>2. claimed' = claimed /\ issued' = n /\ act' = act BY DEF Adds
<1>3. /\ Bearing(p) /\ act[p].top \in Levels /\ Lvl(p) \in Levels /\ Levels \subseteq Nat
      /\ act[p].top <= Lvl(p) /\ (Bearing(p)' <=> act[p].top < Lvl(p))
  BY AddParts
<1>4. pc[p] \in {"turn", "suspending"} /\ pc'[p] \in {"retarget", "link"} BY DEF Adds
<1>5. Tokens BY DEF Inv, Global
<1>6. Running' = Running /\ Unused' = Unused BY DEF Adds, Running, Unused
<1>7. \A k, z, ln, v : Held(k, z, ln, v)' =>
        Old(k, z, ln, v) \/ Row1(k, z, ln, v) \/ Frame1(k, z, ln, v)
  <2> SUFFICES ASSUME NEW k, NEW z, NEW ln, NEW v, Held(k, z, ln, v)'
               PROVE  Old(k, z, ln, v) \/ Row1(k, z, ln, v) \/ Frame1(k, z, ln, v)
    OBVIOUS
  <2>0. Held(k, z, ln, v) => ln.host <= issued BY <1>5 DEF Tokens, TokenShape
  <2>1. CASE k = "row"
    <3>1. z \in (Stored \cup {n}) \ claimed /\ ln = rows'[z].link /\ v = rows'[z].level
      BY <2>1, <1>1, <1>2 DEF Held
    <3>2. CASE z = n BY <2>1, <3>1, <3>2, <1>1
    <3>3. CASE z # n
      <4>1. Held("row", z, ln, v) BY <3>1, <3>3, <1>1 DEF Held
      <4> QED BY <4>1, <2>0, <2>1
    <3> QED BY <3>2, <3>3
  <2>2. CASE k = "act"
    <3>1. z \in Streams /\ Bearing(z)' /\ ln = act[z].link /\ v = act[z].top
      BY <2>2, <1>2 DEF Held
    <3>2. CASE z = p
      <4>1. act[p].top < Lvl(p) BY <3>1, <3>2, <1>3
      <4>2. act[p].top # Lvl(p)
        <5>1. act[p].top \in Nat /\ Lvl(p) \in Nat BY <1>3
        <5> QED BY <4>1, <5>1
      <4>3. Held("act", z, ln, v) BY <3>1, <3>2, <1>3 DEF Held
      <4> QED BY <4>2, <4>3, <2>0, <2>2, <3>2, <1>4
    <3>3. CASE z # p
      <4>1. SparesStream(z) BY <3>1, <3>3 DEF OnlyStream
      <4>2. Bearing(z) BY <4>1, <3>1, MinePrime
      <4>3. Held("act", z, ln, v) BY <3>1, <4>2 DEF Held
      <4> QED BY <4>1, <4>3, <2>0, <2>2, <3>3 DEF SparesStream
    <3> QED BY <3>2, <3>3
  <2>3. CASE k = "read"
    <3>1. z \in Streams \ {p} BY <2>3, <1>4 DEF Held
    <3>2. SparesStream(z) BY <3>1 DEF OnlyStream
    <3>3. Held("read", z, ln, v) BY <2>3, <3>1, <3>2 DEF Held, Read, SparesStream
    <3> QED BY <3>3, <2>0, <2>3
  <2>4. CASE k = "frame"
    <3>1. CASE z = p
      <4>1. pc'[p] = "link" /\ \E f \in DOMAIN snap'[p] : ln = snap'[p][f].link /\ v = snap'[p][f].level
        BY <2>4, <3>1 DEF Held
      <4>2. /\ r.loop = Cur(p, Lvl(p)) /\ r.loop \in Running
            /\ \E f : /\ DOMAIN snap'[p] = {f}
                      /\ snap'[p][f].link.host = n /\ snap'[p][f].link.loop = r.loop
                      /\ snap'[p][f].level = r.level + 1
        BY <4>1 DEF Adds
      <4> QED BY <4>1, <4>2, <2>4, <3>1
    <3>2. CASE z # p
      <4>1. z \in Streams \ {p} BY <2>4, <3>2 DEF Held
      <4>2. SparesStream(z) BY <4>1 DEF OnlyStream
      <4>3. Held("frame", z, ln, v) BY <2>4, <4>1, <4>2 DEF Held, SparesStream
      <4> QED BY <4>3, <2>0, <2>4
    <3> QED BY <3>1, <3>2
  <2> QED BY <2>1, <2>2, <2>3, <2>4 DEF Held
<1>8. Held("act", p, act[p].link, act[p].top) BY <1>3 DEF Held
<1>9. \A i \in Ids : i <= issued => i # n
  BY <1>1
<1>10. /\ r.link.loop = 0 => r.link.host = 0
       /\ r.link.host <= issued /\ r.link.host # n
       /\ r.link.loop # 0 => r.link.loop \notin Unused
       /\ r.link.host \in Stored => rows[r.link.host].loop = r.link.loop /\ rows[r.link.host].level = r.level - 1
       /\ r.link.host \in Ids \ Stored => r.link.loop \notin Running
       /\ r.link.host # 0 => act[p].top = Lvl(p) /\ r.link.host = act[p].link.host
  <2>1. r.level = Lvl(p) BY DEF Adds
  <2>2. CASE act[p].top = Lvl(p)
    <3>1. r.link.host = act[p].link.host /\ r.link.loop = act[p].link.loop BY <2>2 DEF Adds
    <3>2. act[p].link.host # n
      <4>1. act[p].link.host <= issued BY <1>3, <1>5, ActToken
      <4> QED BY <4>1, <1>1, <1>9
    <3> QED BY <3>1, <3>2, <2>1, <2>2, <1>3, <1>4, <1>5, ActToken
  <2>3. CASE act[p].top # Lvl(p)
    <3>1. r.link.host = 0 /\ r.link.loop \in Running BY <2>3 DEF Adds
    <3>2. r.link.loop \notin Unused /\ r.link.loop # 0
      <4>1. "running" # "none" OBVIOUS
      <4> QED BY <4>1, <3>1, IdTypes DEF Running, Unused
    <3>3. r.link.host <= issued BY <3>1, <1>1
    <3> QED BY <3>1, <3>2, <3>3, <1>1
  <2> QED BY <2>2, <2>3
<1>11. TokenShape'
  <2> SUFFICES ASSUME NEW k, NEW z, NEW ln, NEW v, Held(k, z, ln, v)'
               PROVE  /\ ln.loop = 0 => ln.host = 0
                      /\ k # "row" /\ ln.host = 0 => ln.loop = 0
                      /\ ln.host <= n
                      /\ ln.loop # 0 => ln.loop \notin Unused
    BY <1>2, <1>6 DEF TokenShape
  <2>1. CASE Old(k, z, ln, v)
    <3>1. ln.host \in Nat BY <2>1, HeldType, SizeAssumption
    <3>2. ln.host <= n BY <2>1, <3>1, <1>1
    <3> QED BY <3>2, <2>1, <1>5 DEF Tokens, TokenShape
  <2>2. CASE Row1(k, z, ln, v)
    <3>1. r.link.host \in Nat BY SizeAssumption DEF Adds, Row, Link
    <3> QED BY <3>1, <2>2, <1>1, <1>10
  <2>3. CASE Frame1(k, z, ln, v)
    <3>1. r.loop # 0 /\ r.loop \notin Unused
      <4>1. "running" # "none" OBVIOUS
      <4> QED BY <4>1, <2>3, IdTypes DEF Running, Unused
    <3>2. ln.host # 0 /\ ln.host <= n BY <2>3, <1>1
    <3> QED BY <3>1, <3>2, <2>3
  <2> QED BY <1>7, <2>1, <2>2, <2>3
<1>12. TokenFits'
  <2> SUFFICES ASSUME NEW k, NEW z, NEW ln, NEW v, Held(k, z, ln, v)'
               PROVE  /\ ln.host \in Stored \cup {n} =>
                           rows'[ln.host].loop = ln.loop /\ rows'[ln.host].level = v - 1
                      /\ ln.host \in Ids \ (Stored \cup {n}) =>
                           ln.loop \notin Running \/ (k = "act" /\ pc'[z] = "record")
    BY <1>1, <1>6 DEF TokenFits
  <2>1. CASE Old(k, z, ln, v)
    <3>1. ln.host \in Stored \cup {n} => ln.host \in Stored BY <2>1, <1>1, <1>9
    <3>2. /\ ln.host \in Stored => rows[ln.host].loop = ln.loop /\ rows[ln.host].level = v - 1
          /\ ln.host \in Ids \ Stored => ln.loop \notin Running \/ (k = "act" /\ pc[z] = "record")
      BY <2>1, <1>5 DEF Tokens, TokenFits
    <3> QED BY <2>1, <3>1, <3>2, <1>1
  <2>2. CASE Row1(k, z, ln, v) BY <2>2, <1>1, <1>10
  <2>3. CASE Frame1(k, z, ln, v)
    <3>1. rows'[ln.host].loop = ln.loop /\ rows'[ln.host].level = r.level BY <2>3, <1>1
    <3>2. r.level \in Nat /\ v = r.level + 1 BY <2>3, <1>3 DEF Adds
    <3>3. v - 1 = r.level BY <3>2
    <3> QED BY <3>1, <3>3, <2>3
  <2> QED BY <1>7, <2>1, <2>2, <2>3
<1>13. TokenOnce'
  <2>1. ASSUME NEW k, NEW z, NEW ln, NEW v, Old(k, z, ln, v)
        PROVE  ln.host # n /\ (ln.host # 0 => ln.host # r.link.host)
    <3>1. ln.host # n BY <2>1, <1>1, <1>9
    <3>2. ln.host # 0 => ln.host # r.link.host
      <4> SUFFICES ASSUME ln.host # 0, ln.host = r.link.host PROVE FALSE
        OBVIOUS
      <4>1. act[p].top = Lvl(p) /\ ln.host = act[p].link.host BY <1>10
      <4>2. Held(k, z, ln, v) BY <2>1
      <4>3. k = "act" /\ z = p BY <4>1, <4>2, <1>5, <1>8 DEF Tokens, TokenOnce
      <4> QED BY <4>1, <4>3, <2>1
    <3> QED BY <3>1, <3>2
  <2> SUFFICES ASSUME NEW k, NEW z, NEW ln, NEW v, NEW j, NEW y, NEW m, NEW w,
                      Held(k, z, ln, v)', Held(j, y, m, w)', ln.host = m.host, m.host # 0
               PROVE  k = j /\ z = y
    BY DEF TokenOnce
  <2>2. CASE Old(k, z, ln, v)
    <3>1. ~Row1(j, y, m, w) /\ ~Frame1(j, y, m, w) BY <2>1, <2>2
    <3>2. Old(j, y, m, w) BY <3>1, <1>7
    <3> QED BY <3>2, <2>2, <1>5 DEF Tokens, TokenOnce
  <2>3. CASE Old(j, y, m, w)
    <3>1. ~Row1(k, z, ln, v) /\ ~Frame1(k, z, ln, v) BY <2>1, <2>3
    <3>2. Old(k, z, ln, v) BY <3>1, <1>7
    <3> QED BY <3>2, <2>3, <1>5 DEF Tokens, TokenOnce
  <2>4. CASE ~Old(k, z, ln, v) /\ ~Old(j, y, m, w)
    <3>1. Row1(k, z, ln, v) \/ Frame1(k, z, ln, v) BY <2>4, <1>7
    <3>2. Row1(j, y, m, w) \/ Frame1(j, y, m, w) BY <2>4, <1>7
    <3> QED BY <3>1, <3>2, <1>10
  <2> QED BY <2>2, <2>3, <2>4
<1> QED BY <1>11, <1>12, <1>13 DEF Tokens

\* The link of a new row: the stream's own at the top, else an unlinked one.
LEMMA ParentParts ==
  ASSUME Inv, NEW p \in Streams, pc[p] \in {"turn", "suspending"}
  PROVE  /\ ParentOf(p, Lvl(p)) \in Link
         /\ ParentOf(p, Lvl(p)).host = IF act[p].top = Lvl(p) THEN act[p].link.host ELSE 0
         /\ ParentOf(p, Lvl(p)).loop = IF act[p].top = Lvl(p) THEN act[p].link.loop
                                       ELSE Cur(p, Lvl(p) - 1)
         /\ act[p].top # Lvl(p) => Cur(p, Lvl(p) - 1) \in Running
                                   /\ Lvl(p) - 1 \in Levels /\ Live(p, Lvl(p) - 1)
<1>1. /\ act[p].link \in Link /\ act[p].top \in Levels /\ Lvl(p) \in Levels
      /\ \A k \in Levels : Open(p, k) \in 0..MaxLoops /\ act[p].step[k] \in 1..Steps
  BY ActType DEF Inv, Global
<1>2. Stacked(p) BY DEF Stacked, Suspending
<1>3. StackOK(p) BY DEF Inv, Local
<1>4. act[p].top <= Lvl(p) BY <1>2, <1>3 DEF StackOK
<1>5. CASE act[p].top = Lvl(p)
  <2>1. PICK a, s : a = act[p].link /\ s = act[p].step[Lvl(p)] OBVIOUS
  <2>2. a \in Link /\ s \in 1..Steps BY <1>1, <2>1
  <2>3. ParentOf(p, Lvl(p)) = [a EXCEPT !.step = s] BY <1>5, <2>1 DEF ParentOf
  <2>4. [a EXCEPT !.step = s] \in Link /\ [a EXCEPT !.step = s].host = a.host
        /\ [a EXCEPT !.step = s].loop = a.loop
    BY <2>2 DEF Link
  <2> QED BY <2>1, <2>3, <2>4, <1>5
<1>6. CASE act[p].top # Lvl(p)
  <2>1. Lvl(p) - 1 \in Levels /\ act[p].top <= Lvl(p) - 1 /\ Lvl(p) - 1 < Lvl(p)
    BY <1>1, <1>4, <1>6, SizeAssumption DEF Levels
  <2>2. Cur(p, Lvl(p) - 1) = Open(p, Lvl(p) - 1) /\ Cur(p, Lvl(p) - 1) # 0
    BY <2>1, <1>2, <1>3 DEF StackOK
  <2>3. Live(p, Lvl(p) - 1)
    <3>1. Lvl(p) - 1 <= Lvl(p) BY <1>1, SizeAssumption DEF Levels
    <3> QED BY <3>1, <2>1, <2>2, <1>2 DEF Live
  <2>4. Cur(p, Lvl(p) - 1) \in Running BY <2>1, <2>3, OnlyPlace
  <2>5. ParentOf(p, Lvl(p)) =
          [loop |-> Open(p, Lvl(p) - 1), host |-> 0, iter |-> 0, step |-> act[p].step[Lvl(p)]]
    BY <1>6 DEF ParentOf
  <2>6. ParentOf(p, Lvl(p)) \in Link
    <3>1. 0 \in 0..MaxRows /\ 0 \in Nat BY SizeAssumption
    <3> QED BY <3>1, <2>5, <2>1, <1>1 DEF Link
  <2> QED BY <2>1, <2>2, <2>3, <2>4, <2>5, <2>6, <1>6
<1> QED BY <1>5, <1>6

\* What a stream that adds a row keeps of its own.
LEMMA AddLocal ==
  ASSUME Inv, NEW p \in Streams, NEW r, NEW n, Adds(p, r, n), Move(p),
         Chain(p)', Tip(p)', Linking(p)', ChildOK(p)'
  PROVE  Local(p)'
<1>1. /\ n \in Ids /\ n \in Nat /\ issued \in Nat /\ issued < n
      /\ Stored' = Stored \cup {n} /\ \A i \in Stored : i # n /\ rows'[i] = rows[i]
  BY AddShape
<1>2. /\ pc[p] \in {"turn", "suspending"} /\ pc'[p] \in {"retarget", "link"}
      /\ UNCHANGED <<claimed, act, frames, worker>> /\ issued' = n
      /\ pc'[p] = "link" => pc[p] = "suspending"
      /\ pc'[p] = "retarget" => Lvl(p) = Depth
  BY DEF Adds
<1>3. /\ Bearing(p) /\ pc'[p] \in Asking /\ Suspending(p)' /\ Lvl(p)' = Lvl(p)
      /\ act[p].top \in Levels /\ Lvl(p) \in Levels /\ Levels \subseteq Nat
      /\ (Bearing(p)' <=> act[p].top < Lvl(p))
  BY AddParts
<1>4. Stacked(p) /\ Stacked(p)' /\ ~Closing(p)' BY <1>2, <1>3, AskingNext DEF Stacked, Suspending
<1>5. \A j : Cur(p, j)' = Cur(p, j) /\ Open(p, j)' = Open(p, j) BY <1>2 DEF Cur, Open
<1>6. \A i \in Ids : i <= issued => i # n BY <1>1
<1>7. act[p].link.host <= issued /\ worker[p].id <= issued
  BY DEF Inv, Local, StackOK, WorkerOK
<1>8. StackOK(p)'
  <2>1. StackOK(p) BY DEF Inv, Local
  <2>2. act'[p].link.host <= issued'
    <3>1. act[p].link.host \in Nat BY ActType, SizeAssumption DEF Inv, Global
    <3> QED BY <3>1, <1>1, <1>2, <1>7
  <2>3. ~(Depth < Depth) /\ (pc'[p] = "link" => Lvl(p) < Depth)
    BY <2>1, <1>2, <1>4, SizeAssumption DEF StackOK
  <2>4. pc'[p] = "link" => Cur(p, Lvl(p)) = Open(p, Lvl(p)) /\ Cur(p, Lvl(p)) # 0
    BY <2>1, <1>2, <1>4 DEF StackOK
  <2>5. /\ act[p].top <= Lvl(p) /\ Cur(p, Depth) = 0
        /\ \A k \in Levels : act[p].top <= k /\ k < Lvl(p) => Cur(p, k) = Open(p, k) /\ Cur(p, k) # 0
    BY <2>1, <1>4 DEF StackOK
  <2>6. /\ act'[p].top <= act'[p].lvl /\ act'[p].cur[Depth] = 0
        /\ \A k \in Levels : act'[p].top <= k /\ k < act'[p].lvl =>
             act'[p].cur[k] = act'[p].open[k] /\ act'[p].cur[k] # 0
    BY <2>5, <1>2 DEF Lvl, Cur, Open
  <2>7. /\ pc'[p] = "suspending" \/ (pc'[p] \in Asking /\ act'[p].lvl < Depth) =>
             act'[p].lvl < Depth /\ act'[p].cur[act'[p].lvl] = act'[p].open[act'[p].lvl]
             /\ act'[p].cur[act'[p].lvl] # 0
        /\ pc'[p] = "link" => act'[p].lvl < Depth
    <3>1. act'[p].lvl = Lvl(p) /\ act'[p].cur[act'[p].lvl] = Cur(p, Lvl(p))
          /\ act'[p].open[act'[p].lvl] = Open(p, Lvl(p))
      BY <1>2 DEF Lvl, Cur, Open
    <3> QED BY <3>1, <2>3, <2>4, <1>2
  <2> QED BY <2>2, <2>6, <2>7 DEF StackOK, Lvl, Cur, Open
<1>9. WorkerOK(p)'
  <2>1. WorkerOK(p) BY DEF Inv, Local
  <2>2. worker[p].id \in Nat /\ (worker[p].id \in Ids => worker[p].id # n) /\ worker[p].id <= n
    <3>1. worker[p].id \in 0..MaxRows BY DEF Inv, Global, Types, TypeOK
    <3> QED BY <3>1, <1>1, <1>6, <1>7, SizeAssumption
  <2>3. Stored \subseteq Ids BY DEF Stored
  <2>4. worker[p].id \in Stored' => worker[p].id \in Stored BY <2>2, <1>1
  <2>5. worker'[p] = worker[p] /\ claimed' = claimed /\ pc'[p] # "off" BY <1>2
  <2> QED BY <2>1, <2>2, <2>4, <2>5, <1>2 DEF WorkerOK
<1>10. Carried(p)'
  <2> SUFFICES ASSUME act[p].link.host \in Stored'
               PROVE  worker[p].releasing /\ rows'[act[p].link.host].pending = {worker[p].id}
    BY <1>2 DEF Carried
  <2>1. act[p].link.host \in Stored BY <1>1, <1>6, <1>7
  <2> QED BY <2>1, <1>1, <1>3 DEF Inv, Local, Carried
<1>11. ClaimOK(p)' /\ ClosingOK(p)' /\ Saving(p)'
  BY <1>2, <1>4 DEF ClaimOK, ClosingOK, Saving
<1>12. FramesOver(p)'
  <2>1. pc'[p] \notin {"off", "claim", "inspect", "ended"} BY <1>2
  <2> QED BY <2>1, <1>2, <1>4, FramesNext DEF Cur
<1> QED BY <1>8, <1>9, <1>10, <1>11, <1>12 DEF Local

LEMMA AskKeeps ==
  ASSUME Inv, NEW p \in Streams, Ask(p), Move(p)
  PROVE  Inv'
<1> DEFINE r == [level |-> Depth, link |-> ParentOf(p, Depth), loop |-> 0, pending |-> {}]
<1>1. /\ pc[p] = "turn" /\ Lvl(p) = Depth /\ NextId + (Depth - act[p].top) \in Ids
      /\ rows' = [rows EXCEPT ![NextId] = r] /\ issued' = NextId
      /\ child'[p] = NextId /\ pc'[p] = "retarget"
      /\ UNCHANGED <<claimed, status, recorded, clientVars, act, snap, frames, worker, happened>>
  BY DEF Ask, Inv, Global, Types, TypeOK
<1>2. PICK n : n = NextId OBVIOUS
<1>3. InTurn(p) BY <1>1 DEF InTurn
<1>4. /\ ~Suspending(p) /\ Bearing(p) /\ Stacked(p)
      /\ act[p].top \in Levels /\ Lvl(p) \in Levels /\ act[p].top <= Lvl(p)
      /\ Cur(p, Depth) = 0
  BY <1>3, TurnParts
<1>5. n \in Ids
  <2>1. issued \in Nat BY SizeAssumption DEF Inv, Global, Types, TypeOK
  <2>2. n = issued + 1 BY <1>2 DEF NextId
  <2>3. n + (Depth - act[p].top) \in Ids BY <1>1, <1>2
  <2>4. Depth \in Nat /\ act[p].top \in Nat /\ act[p].top <= Depth /\ MaxRows \in Nat
    BY <1>1, <1>4, SizeAssumption DEF Levels
  <2> QED BY <2>1, <2>2, <2>3, <2>4 DEF Ids
<1>6. /\ ParentOf(p, Depth) \in Link
      /\ ParentOf(p, Depth).host = (IF act[p].top = Lvl(p) THEN act[p].link.host ELSE 0)
      /\ ParentOf(p, Depth).loop = (IF act[p].top = Lvl(p) THEN act[p].link.loop
                                    ELSE Cur(p, Lvl(p) - 1))
      /\ act[p].top # Lvl(p) => Cur(p, Lvl(p) - 1) \in Running
  BY <1>1, ParentParts
<1>7. r \in Row
  <2>1. Depth \in Levels /\ 0 \in 0..MaxLoops /\ {} \in SUBSET Ids
    BY SizeAssumption DEF Levels
  <2> QED BY <2>1, <1>6 DEF Row
<1>8. announced' = announced BY <1>1 DEF clientVars
<1>9. Adds(p, r, n) BY <1>1, <1>2, <1>5, <1>6, <1>7, <1>8 DEF Adds
<1>10. r.loop = 0 /\ r.link = ParentOf(p, Depth) /\ r.level = Depth OBVIOUS
<1> HIDE DEF r
<1>11. /\ n \in Ids /\ n \in Nat /\ issued \in Nat /\ issued < n
      /\ n \notin Stored /\ n \notin claimed /\ n \notin announced
      /\ Stored' = Stored \cup {n} /\ rows'[n] = r
      /\ \A i \in Stored : i # n /\ rows'[i] = rows[i] /\ Leaf(i)' = Leaf(i)
      /\ Leaf(n)' = {child'[p]} /\ Hosts' = Hosts
  <2>1. Hosts' = Hosts \cup (IF r.loop = 0 THEN {} ELSE {n}) BY <1>9, AddShape
  <2>2. Hosts' = Hosts BY <2>1, <1>10
  <2> QED BY <2>2, <1>9, AddShape
<1>12. /\ pc'[p] \in Asking /\ Suspending(p)' /\ Lvl(p)' = Lvl(p) /\ act' = act
       /\ Levels \subseteq Nat
  BY <1>9, AddParts
<1>13. OnlyStream(p) /\ \A l \in Loops : status[l] # "none" =>
        status'[l] # "none" /\ (status'[l] = "running" => status[l] = "running")
  BY MoveOthers DEF Inv, Global
<1>14. \A i \in Ids : i <= issued => i # n BY <1>11
<1>15. ChildOK(p)' BY <1>1, <1>2, <1>8, <1>10, <1>11 DEF ChildOK
<1>16. Tip(p)'
  <2> SUFFICES ASSUME Lvl(p) = act[p].top, act[p].link.host \in Stored'
               PROVE  act[p].link.host \in Upward(n)' /\ act[p].link.host # n
    BY <1>1, <1>2, <1>12 DEF Tip, Lvl, Upward
  <2>1. rows'[n].link.host = act[p].link.host BY <1>6, <1>10, <1>11
  <2>2. n \in Upward(n)' BY <1>11, UpwardSelfNext
  <2>3. act[p].link.host \in Upward(n)' BY <2>1, <2>2, UpwardNextNext
  <2>4. act[p].link.host <= issued BY DEF Inv, Local, StackOK
  <2> QED BY <2>3, <2>4, <1>11, <1>14
<1>17. Linking(p)' BY <1>1 DEF Linking
<1>18. Chain(p)'
  <2>1. \A i \in Unlinked' : Leaf(i)' = {n} => i = n
    <3> SUFFICES ASSUME NEW i \in Stored, Leaf(i)' = {n} PROVE FALSE
      BY <1>11 DEF Unlinked
    <3>1. PICK c \in Ids : c <= issued /\ Leaf(i) = {c} BY OneLeaf
    <3> QED BY <3>1, <1>11, <1>14
  <2>2. n \in Unlinked' =>
          rows'[n].level = act'[p].lvl /\ act'[p].top < act'[p].lvl
          /\ rows'[n].link.loop = act'[p].cur[act'[p].lvl - 1]
    <3> SUFFICES ASSUME r.link.loop # 0, r.link.host = 0
                 PROVE  /\ r.level = Lvl(p) /\ act[p].top < Lvl(p)
                        /\ r.link.loop = Cur(p, Lvl(p) - 1)
      BY <1>11, <1>12 DEF Unlinked, Whole, Lvl, Cur
    <3>1. act[p].top # Lvl(p)
      <4>1. act[p].link.loop = 0 <=> act[p].link.host = 0 BY <1>4, ActToken DEF Inv, Global
      <4> QED BY <4>1, <1>6, <1>10
    <3>2. act[p].top < Lvl(p)
      <4>1. act[p].top \in Nat /\ Lvl(p) \in Nat BY <1>4, <1>12
      <4> QED BY <4>1, <3>1, <1>4
    <3> QED BY <3>1, <3>2, <1>1, <1>6, <1>10
  <2>3. child'[p] = n BY <1>1, <1>2
  <2> QED BY <2>1, <2>2, <2>3, <1>12 DEF Chain, Lvl, Cur
<1>19. Local(p)' BY <1>9, <1>15, <1>16, <1>17, <1>18, AddLocal
<1>20. Keeps /\ \A q \in Streams \ {p} : Local(q)' BY <1>9, <1>13, AddOthers
<1>21. Issued' /\ Singles' /\ Claims' /\ Above' /\ Told' BY <1>9, <1>13, AddGlobal
<1>22. Tokens' BY <1>9, <1>13, AddTokens
<1>23. PlaceOnce' /\ PlaceRuns' /\ NoneYet'
  <2>0. \A k \in Levels : Live(p, k)' => Live(p, k) /\ Cur(p, k)' = Cur(p, k) /\ k # Lvl(p)
    <3> SUFFICES ASSUME NEW k \in Levels, Live(p, k)' PROVE Live(p, k) /\ Cur(p, k)' = Cur(p, k) /\ k # Lvl(p)
      OBVIOUS
    <3>1. act[p].top <= k /\ k <= Lvl(p) /\ Cur(p, k)' # 0 BY <1>12 DEF Live, Lvl
    <3>2. Cur(p, k)' = Cur(p, k) BY <1>12 DEF Cur
    <3> QED BY <3>1, <3>2, <1>1, <1>4 DEF Live
  <2>1. \A a, z, k, l : Place(a, z, k, l)' => Place(a, z, k, l)
    <3>1. \A h \in Hosts' : h \in Hosts /\ rows'[h].loop = rows[h].loop
      <4>1. Hosts \subseteq Stored BY DEF Hosts
      <4>2. \A h \in Hosts : rows'[h].loop = rows[h].loop BY <4>1, <1>11
      <4>3. Hosts' = Hosts
        <5>1. Hosts' = Hosts \cup (IF r.loop = 0 THEN {} ELSE {n}) BY <1>9, AddShape
        <5> QED BY <5>1, <1>10
      <4> QED BY <4>2, <4>3
    <3> QED BY <2>0, <3>1, <1>1, <1>13, PlacesOf
  <2>2. \A z, k, l : Place("live", z, k, l)' /\ pc[z] = "turn" /\ k = Lvl(z) =>
           Done(l) < MaxIterations \/ (pc'[z] = "turn" /\ k = Lvl(z)')
    <3> SUFFICES ASSUME NEW z, NEW k, NEW l, Place("live", z, k, l)', pc[z] = "turn", k = Lvl(z)
                 PROVE  pc'[z] = "turn" /\ k = Lvl(z)'
      OBVIOUS
    <3>1. z \in Streams \ {p} BY <2>0 DEF Place
    <3> QED BY <3>1, <1>13 DEF OnlyStream, SparesStream, Lvl
  <2>3. Running' = Running /\ recorded' = recorded BY <1>1 DEF Running
  <2>4. NoneYet' BY <1>1 DEF NoneYet, Unused, Inv, Global
  <2> QED BY <2>1, <2>2, <2>3, <2>4, PlacesVanish
<1>24. Types' BY MoveTypes
<1>25. \A q \in Streams : Local(q)' BY <1>19, <1>20
<1> QED BY <1>21, <1>22, <1>23, <1>24, <1>25, InvNext

\* The one frame a host can link, and the checkpoint that waits below it.
LEMMA FoundOne ==
  ASSUME Inv, NEW p \in Streams, pc[p] = "suspending", FrameOf(child[p], Open(p, Lvl(p))) # {}
  PROVE  \E f \in Unlinked :
           /\ FrameOf(child[p], Open(p, Lvl(p))) = {f}
           /\ f \in Upward(child[p]) /\ f \in Stored \ claimed /\ Leaf(f) = {child[p]}
           /\ rows[f].level = Lvl(p) + 1 /\ rows[f].link.loop = Cur(p, Lvl(p))
           /\ rows[f].link.host = 0
           /\ \A i \in Unlinked : Leaf(i) = {child[p]} => i = f
<1> DEFINE found == FrameOf(child[p], Open(p, Lvl(p)))
           l == Cur(p, Lvl(p))
<1>1. /\ Suspending(p) /\ Lvl(p) \in Levels /\ Live(p, Lvl(p)) /\ Open(p, Lvl(p)) = l /\ l # 0
  BY SuspendingParts
<1>2. l \in Running /\ \A a, z, j : Place(a, z, j, l) => a = "live" /\ z = p /\ j = Lvl(p)
  BY <1>1, OnlyPlace
<1>3. Tokens /\ Types /\ 0 \notin Ids BY IdTypes DEF Inv, Global
<1>4. ASSUME NEW f \in found
      PROVE  /\ f \in Unlinked /\ Leaf(f) = {child[p]} /\ f \in Upward(child[p])
             /\ rows[f].link.loop = l /\ rows[f].link.host = 0 /\ f \in Stored \ claimed
  <2>1. f \in Upward(child[p]) /\ rows[f].link.loop = l BY <1>1 DEF FrameOf
  <2>2. f \in Stored \ claimed /\ Of(p, f) BY <2>1, <1>1, ChainOwned
  <2> HIDE DEF found, l
  <2>3. rows[f].link.host \in Ids \cup {0} BY <2>2, <1>3, RowType, IdTypes
  <2>4. rows[f].link.host \notin Stored
    <3> SUFFICES ASSUME rows[f].link.host \in Stored PROVE FALSE
      OBVIOUS
    <3> DEFINE h == rows[f].link.host
    <3>1. h \in Hosts /\ rows[h].loop = l BY <2>1, <2>2, <1>3, LinkedHost, RowToken
    <3>2. Place("host", h, 0, l) BY <3>1 DEF Place
    <3>3. "host" # "live" OBVIOUS
    <3> QED BY <3>2, <3>3, <1>2
  <2>5. rows[f].link.host \notin Ids \ Stored BY <2>1, <2>2, <1>2, <1>3, RowToken
  <2>6. rows[f].link.host = 0 BY <2>3, <2>4, <2>5
  <2>7. ~Whole(f) /\ f \in Unlinked BY <2>1, <2>2, <2>6, <1>1 DEF Whole, Unlinked
  <2>8. Leaf(f) = {child[p]}
    <3>1. PICK c \in Mine(p) : Leaf(f) = {c} BY <2>2 DEF Of
    <3>2. CASE c \in claimed
      <4>1. f # c BY <2>2, <3>2
      <4>2. rows[f].loop # 0 BY <3>1, <4>1 DEF Leaf
      <4>3. f \in Hosts /\ rows[f].pending = {c} BY <4>2, <2>2, <3>1 DEF Hosts, Leaf
      <4>4. rows[f].pending \cap (announced \cup claimed) # {} BY <4>3, <3>2
      <4> QED BY <4>3, <4>4, <2>7 DEF Inv, Global, Told
    <3>3. CASE c \notin claimed
      <4>1. c = child[p] BY <3>1, <3>3, MineStored
      <4> QED BY <4>1, <3>1
    <3> QED BY <3>2, <3>3
  <2> QED BY <2>1, <2>2, <2>6, <2>7, <2>8
<1>5. PICK f : f \in found OBVIOUS
<1>6. /\ \A i \in Unlinked : Leaf(i) = {child[p]} => rows[i].level = Lvl(p) + 1
      /\ \A i, j \in Unlinked : Leaf(i) = {child[p]} /\ Leaf(j) = {child[p]} => i = j
  BY <1>1 DEF Inv, Local, Chain, Asking
<1> HIDE DEF found
<1>7. found = {f} BY <1>4, <1>5, <1>6
<1>8. f \in Unlinked /\ rows[f].level = Lvl(p) + 1
      /\ \A i \in Unlinked : Leaf(i) = {child[p]} => i = f
  BY <1>4, <1>5, <1>6
<1> QED BY <1>4, <1>5, <1>7, <1>8 DEF found

LEMMA SuspendHostKeeps ==
  ASSUME Inv, NEW p \in Streams, SuspendHost(p), Move(p)
  PROVE  Inv'
<1> DEFINE k == Lvl(p)
           c == child[p]
           l == Cur(p, k)
           r == [level |-> k, link |-> ParentOf(p, k), loop |-> Open(p, k), pending |-> {c}]
           linked(f) == [rows[f].link EXCEPT !.host = NextId, !.iter = OpenIteration(Open(p, k))]
<1>1. /\ pc[p] = "suspending" /\ FrameOf(c, Open(p, k)) # {} /\ NextId \in Ids
      /\ rows' = [rows EXCEPT ![NextId] = r] /\ issued' = NextId
      /\ snap'[p] = [f \in FrameOf(c, Open(p, k)) |-> [rows[f] EXCEPT !.link = linked(f)]]
      /\ pc'[p] = "link"
      /\ UNCHANGED <<claimed, status, recorded, clientVars, act, child, frames, worker, happened>>
  BY DEF SuspendHost, Inv, Global, Types, TypeOK
<1>2. PICK n : n = NextId OBVIOUS
<1>3. /\ Bearing(p) /\ Stacked(p) /\ Suspending(p)
      /\ Depth \in Levels /\ Levels \subseteq Nat
      /\ act[p].top \in Levels /\ k \in Levels /\ act[p].top <= k
      /\ k < Depth /\ Open(p, k) = l /\ l # 0 /\ Live(p, k)
      /\ \A j \in Levels : Live(p, j) <=> act[p].top <= j /\ j <= k /\ Cur(p, j) # 0
  <2>1. /\ Bearing(p) /\ Stacked(p) /\ Suspending(p)
        /\ Depth \in Levels /\ Levels \subseteq Nat
        /\ act[p].top \in Levels /\ Lvl(p) \in Levels /\ act[p].top <= Lvl(p) /\ Lvl(p) < Depth
        /\ \A j \in Levels : act[p].top <= j /\ j <= Lvl(p) =>
              Cur(p, j) = Open(p, j) /\ Cur(p, j) # 0 /\ Live(p, j)
        /\ \A j \in Levels : Live(p, j) <=> act[p].top <= j /\ j <= Lvl(p) /\ Cur(p, j) # 0
    BY <1>1, SuspendingParts
  <2>2. Lvl(p) <= Lvl(p) BY <2>1, SizeAssumption DEF Levels
  <2>3. Cur(p, Lvl(p)) = Open(p, Lvl(p)) /\ Cur(p, Lvl(p)) # 0 /\ Live(p, Lvl(p)) BY <2>1, <2>2
  <2> QED BY <2>1, <2>3
<1>4. l \in Running /\ l \in 0..MaxLoops BY <1>3, OnlyPlace, ActType DEF Inv, Global
<1>5. /\ ParentOf(p, k) \in Link
      /\ ParentOf(p, k).host = (IF act[p].top = Lvl(p) THEN act[p].link.host ELSE 0)
      /\ ParentOf(p, k).loop = (IF act[p].top = Lvl(p) THEN act[p].link.loop
                                    ELSE Cur(p, Lvl(p) - 1))
      /\ act[p].top # Lvl(p) => Cur(p, Lvl(p) - 1) \in Running
  BY <1>1, ParentParts
<1>6. PICK f \in Unlinked :
           /\ FrameOf(c, Open(p, k)) = {f}
           /\ f \in Upward(c) /\ f \in Stored \ claimed /\ Leaf(f) = {c}
           /\ rows[f].level = k + 1 /\ rows[f].link.loop = l /\ rows[f].link.host = 0
           /\ \A i \in Unlinked : Leaf(i) = {c} => i = f
  BY <1>1, FoundOne
<1>7. c \in Stored /\ rows[c].loop = 0 /\ c \notin announced /\ c \notin claimed /\ c \in Ids
  BY <1>3 DEF Inv, Local, ChildOK, Stored
<1>8. r \in Row
  <2> HIDE DEF k, c, l
  <2> QED BY <1>3, <1>4, <1>5, <1>7 DEF Row
<1>9. /\ DOMAIN snap'[p] = {f}
      /\ snap'[p][f] = [rows[f] EXCEPT !.link = snap'[p][f].link]
      /\ snap'[p][f].link.host = n /\ snap'[p][f].link.loop = l /\ snap'[p][f].level = k + 1
  <2>1. DOMAIN snap'[p] = {f} /\ snap'[p][f] = [rows[f] EXCEPT !.link = linked(f)]
    BY <1>1, <1>6
  <2>2. PICK x, y : x = rows[f] /\ y = linked(f) OBVIOUS
  <2>3. x \in Row /\ x.link \in Link /\ x.level = k + 1 /\ x.link.loop = l
    BY <2>2, <1>6, RowType DEF Inv, Global
  <2>4. snap'[p][f] = [x EXCEPT !.link = y] BY <2>1, <2>2
  <2>5. y.host = n /\ y.loop = l
    <3>1. PICK e : e = OpenIteration(Open(p, k)) OBVIOUS
    <3>2. y = [x.link EXCEPT !.host = n, !.iter = e] BY <2>2, <3>1, <1>2
    <3> HIDE DEF l, k
    <3> QED BY <3>2, <2>3 DEF Link
  <2> HIDE DEF linked, k, l
  <2>6. snap'[p][f].link = y /\ snap'[p][f].level = x.level BY <2>3, <2>4 DEF Row
  <2> QED BY <2>1, <2>2, <2>3, <2>4, <2>5, <2>6
<1>10. announced' = announced BY <1>1 DEF clientVars
<1>11. r.level = k /\ r.link = ParentOf(p, k) /\ r.loop = l /\ r.pending = {c} BY <1>3
<1> HIDE DEF r, linked
<1>12. Adds(p, r, n)
  BY <1>1, <1>2, <1>3, <1>4, <1>5, <1>8, <1>9, <1>10, <1>11 DEF Adds
<1>13. /\ n \in Ids /\ n \in Nat /\ issued \in Nat /\ issued < n
      /\ n \notin Stored /\ n \notin claimed /\ n \notin announced
      /\ Stored' = Stored \cup {n} /\ rows'[n] = r
      /\ \A i \in Stored : i # n /\ rows'[i] = rows[i] /\ Leaf(i)' = Leaf(i)
      /\ Leaf(n)' = {child'[p]}
  BY <1>12, AddShape
<1>14. Hosts' = Hosts \cup {n}
  <2>1. Hosts' = Hosts \cup (IF r.loop = 0 THEN {} ELSE {n}) BY <1>12, AddShape
  <2> QED BY <2>1, <1>3, <1>11
<1>15. /\ pc'[p] \in Asking /\ Suspending(p)' /\ Lvl(p)' = Lvl(p) /\ act' = act
       /\ child'[p] = c
  BY <1>1, <1>12, AddParts
<1>16. OnlyStream(p) /\ \A l1 \in Loops : status[l1] # "none" =>
        status'[l1] # "none" /\ (status'[l1] = "running" => status[l1] = "running")
  BY MoveOthers DEF Inv, Global
<1>17. ChildOK(p)' BY <1>1, <1>7, <1>10, <1>13, <1>15 DEF ChildOK
<1>18. Tip(p)' BY <1>1 DEF Tip
<1> HIDE DEF c, k, l
<1>19. Upward(c) \subseteq Upward(child[p])'
  <2>1. PICK x : x = c OBVIOUS
  <2>2. Upward(x) \subseteq Stored BY UpwardStored
  <2>3. Upward(x) \subseteq Upward(x)' BY <2>2, <1>13, UpwardKeeps
  <2>4. Upward(x)' = Upward(child[p])'
    <3>1. child'[p] = x BY <2>1, <1>15
    <3> QED BY <3>1 DEF Upward
  <2> QED BY <2>1, <2>3, <2>4
<1>20. Linking(p)'
  <2>1. f \in Stored' \ claimed' /\ n \in Hosts' /\ rows'[f] = rows[f] /\ Leaf(f)' = {child'[p]}
    BY <1>6, <1>12, <1>13, <1>14, <1>15 DEF Adds
  <2>2. /\ rows'[n].pending = {child'[p]} /\ rows'[n].level = Lvl(p)'
        /\ rows'[n].loop = Cur(p, Lvl(p)) /\ Cur(p, Lvl(p)) = act'[p].cur[act'[p].lvl]
        /\ Lvl(p)' = act'[p].top => rows'[n].link.host = act'[p].link.host
    BY <1>5, <1>11, <1>13, <1>15 DEF k, l, Lvl, Cur
  <2>3. /\ DOMAIN snap'[p] = {f} /\ snap'[p][f] = [rows'[f] EXCEPT !.link = snap'[p][f].link]
        /\ snap'[p][f].link.loop = rows'[f].link.loop /\ snap'[p][f].link.host = n
        /\ rows'[f].level = act'[p].lvl + 1 /\ rows'[f].link.host = 0
        /\ rows'[f].link.loop = act'[p].cur[act'[p].lvl]
    BY <1>6, <1>9, <1>15, <2>1 DEF k, l, Lvl, Cur
  <2>4. f \in Upward(child[p])' BY <1>6, <1>19
  <2> QED BY <2>1, <2>2, <2>3, <2>4 DEF Linking, Lvl, Cur
<1>21. Chain(p)'
  <2>1. \A i \in Unlinked' : Leaf(i)' = {c} => i = f \/ i = n
    <3> SUFFICES ASSUME NEW i \in Stored \ claimed, ~Whole(i)', Leaf(i)' = {c} PROVE i = f
      BY <1>12, <1>13 DEF Unlinked, Adds
    <3>1. ~Whole(i) /\ Leaf(i) = {c} BY <1>13 DEF Whole
    <3> QED BY <3>1, <1>6 DEF Unlinked
  <2>2. n \in Unlinked' =>
          rows'[n].level = act'[p].lvl /\ act'[p].top < act'[p].lvl
          /\ rows'[n].link.loop = act'[p].cur[act'[p].lvl - 1]
    <3> SUFFICES ASSUME r.link.loop # 0, r.link.host = 0
                 PROVE  /\ r.level = Lvl(p) /\ act[p].top < Lvl(p)
                        /\ r.link.loop = Cur(p, Lvl(p) - 1)
      BY <1>13, <1>15 DEF Unlinked, Whole, Lvl, Cur
    <3>1. act[p].top # Lvl(p)
      <4>1. act[p].link.loop = 0 <=> act[p].link.host = 0 BY <1>3, ActToken DEF Inv, Global
      <4> QED BY <4>1, <1>5, <1>11
    <3>2. act[p].top < Lvl(p)
      <4>1. act[p].top \in Nat /\ Lvl(p) \in Nat /\ act[p].top <= Lvl(p) BY <1>3 DEF k
      <4> QED BY <4>1, <3>1
    <3> QED BY <3>1, <3>2, <1>5, <1>11 DEF k
  <2>3. DOMAIN snap'[p] = {f} BY <1>9
  <2> QED BY <2>1, <2>2, <2>3, <1>1, <1>15 DEF Chain, Lvl, Cur
<1>22. Local(p)' BY <1>12, <1>17, <1>18, <1>20, <1>21, AddLocal
<1>23. Keeps /\ \A q \in Streams \ {p} : Local(q)' BY <1>12, <1>16, AddOthers
<1>24. Issued' /\ Singles' /\ Claims' /\ Above' /\ Told' BY <1>12, <1>16, AddGlobal
<1>25. Tokens' BY <1>12, <1>16, AddTokens
<1>26. NoneYet' BY <1>1 DEF NoneYet, Unused, Inv, Global
<1>27. PlaceOnce' /\ PlaceRuns'
  <2>1. Running' = Running /\ recorded' = recorded BY <1>1 DEF Running
  <2>2. \A j \in Levels : Live(p, j)' => Live(p, j) /\ Cur(p, j)' = Cur(p, j) /\ j # k
    <3> SUFFICES ASSUME NEW j \in Levels, Live(p, j)'
                 PROVE  Live(p, j) /\ Cur(p, j)' = Cur(p, j) /\ j # k
      OBVIOUS
    <3>1. act[p].top <= j /\ j <= k /\ Cur(p, j)' # 0 /\ j < k
      BY <1>1, <1>15, AskingNext DEF k, Lvl
    <3>2. Cur(p, j)' = Cur(p, j) BY <1>15 DEF Cur
    <3>3. j # k
      <4>1. j \in Nat /\ k \in Nat BY <1>3
      <4> QED BY <4>1, <3>1
    <3> QED BY <3>1, <3>2, <3>3, <1>3
  <2>3. Place("live", p, k, l) BY <1>3 DEF Place, k, l
  <2>4. Done(l) < MaxIterations
    <3>1. pc[p] # "turn" BY <1>1
    <3> QED BY <3>1, <2>3 DEF Inv, Global, PlaceRuns
  <2>5. PlaceMoves("live", p, k, "host", n, 0)
    <3> SUFFICES ASSUME NEW a, NEW z, NEW j, NEW m, Place(a, z, j, m)'
                 PROVE  \/ /\ Place(a, z, j, m) /\ ~(a = "live" /\ z = p /\ j = k)
                           /\ (a = "live" /\ pc[z] = "turn" /\ j = Lvl(z)) =>
                                Done(m) < MaxIterations \/ (pc'[z] = "turn" /\ j = Lvl(z)')
                        \/ /\ a = "host" /\ z = n /\ j = 0 /\ Place("live", p, k, m)
                           /\ Done(m)' < MaxIterations \/ (a = "live" /\ pc'[z] = "turn" /\ j = Lvl(z)')
      BY DEF PlaceMoves
    <3>1. CASE a = "live"
      <4>1. z \in Streams /\ j \in Levels /\ Live(z, j)' /\ m = Cur(z, j)' BY <3>1 DEF Place
      <4>2. CASE z = p
        <5>1. Live(p, j) /\ m = Cur(p, j) /\ j # k BY <4>1, <4>2, <2>2
        <5>2. Place("live", p, j, m) BY <5>1, <4>1 DEF Place
        <5> QED BY <5>1, <5>2, <4>2, <3>1, <1>1
      <4>3. CASE z # p
        <5>1. SparesStream(z) BY <4>1, <4>3, <1>16 DEF OnlyStream
        <5>2. Live(z, j) /\ m = Cur(z, j) BY <5>1, <4>1, MinePrime DEF Live, SparesStream
        <5>3. Place("live", z, j, m) BY <5>2, <4>1 DEF Place
        <5>4. pc'[z] = pc[z] /\ Lvl(z)' = Lvl(z) BY <5>1 DEF SparesStream, Lvl
        <5> QED BY <5>3, <5>4, <4>3, <3>1
      <4> QED BY <4>2, <4>3
    <3>2. CASE a = "host"
      <4>1. z \in Hosts' /\ j = 0 /\ m = rows'[z].loop BY <3>2 DEF Place
      <4>2. CASE z = n
        <5>1. m = l BY <4>1, <4>2, <1>11, <1>13
        <5>2. Done(m)' = Done(l) BY <5>1, <2>1 DEF Done
        <5> QED BY <5>1, <5>2, <2>3, <2>4, <3>2, <4>1, <4>2
      <4>3. CASE z # n
        <5>1. z \in Hosts /\ z \in Stored BY <4>1, <4>3, <1>14 DEF Hosts
        <5>2. Place("host", z, j, m) BY <5>1, <4>1, <1>13 DEF Place
        <5> QED BY <5>2, <3>2
      <4> QED BY <4>2, <4>3
    <3>3. CASE a = "record"
      <4>1. z \in Streams /\ j = 0 /\ pc'[z] = "record" /\ m = act'[z].link.loop BY <3>3 DEF Place
      <4>2. z # p BY <4>1, <1>1
      <4>3. SparesStream(z) BY <4>1, <4>2, <1>16 DEF OnlyStream
      <4>4. Place("record", z, j, m) BY <4>1, <4>3 DEF Place, SparesStream
      <4> QED BY <4>4, <3>3
    <3> QED BY <3>1, <3>2, <3>3 DEF Place
  <2>6. \A m \in Loops : Done(m)' = Done(m) BY <2>1 DEF Done
  <2> QED BY <2>1, <2>5, <2>6, PlacesMove
<1>28. Types' BY MoveTypes
<1>29. \A q \in Streams : Local(q)' BY <1>22, <1>23
<1> QED BY <1>24, <1>25, <1>26, <1>27, <1>28, <1>29, InvNext

----------------------------------------------------------------------------
(* A crash, a stutter and the start.                                       *)

LEMMA CrashKeeps ==
  ASSUME Inv, Crash
  PROVE  Inv'
<1>1. /\ pc' = [p \in Streams |-> "off"] /\ act' = [p \in Streams |-> NoAct]
      /\ child' = [p \in Streams |-> 0] /\ snap' = [p \in Streams |-> <<>>]
      /\ frames' = [p \in Streams |-> <<>>] /\ worker' = [p \in Streams |-> NoWorker]
      /\ UNCHANGED <<storeVars, clientVars>> /\ Fault("crash")
  BY DEF Crash
<1>2. Still /\ status' = status /\ recorded' = recorded BY <1>1 DEF Still, storeVars, clientVars
<1>3. Stored' = Stored /\ Hosts' = Hosts /\ Unlinked' = Unlinked
      /\ \A i : Leaf(i)' = Leaf(i) /\ Whole(i)' = Whole(i)
  BY <1>2, StillStored
<1>4. rows' = rows /\ claimed' = claimed /\ issued' = issued /\ announced' = announced
      /\ Running' = Running /\ Unused' = Unused /\ \A l : Done(l)' = Done(l)
  BY <1>2 DEF Still, Running, Unused, Done
<1>5. Issued /\ Singles /\ Claims /\ Above /\ Told /\ Types /\ Tokens /\ PlaceOnce /\ PlaceRuns /\ NoneYet
  BY DEF Inv, Global
<1>6. issued \in Nat /\ 0 \notin Ids BY <1>5, IdTypes, SizeAssumption DEF Types, TypeOK
<1>7. ASSUME NEW p \in Streams
      PROVE  /\ Away(p)' /\ pc'[p] = "off" /\ act'[p] = NoAct /\ child'[p] = 0 /\ snap'[p] = <<>>
             /\ frames'[p] = <<>> /\ worker'[p] = NoWorker
             /\ ~Bearing(p)' /\ ~Suspending(p)' /\ \A k : ~Live(p, k)'
  <2>1. pc'[p] = "off" BY <1>1
  <2>2. Away(p)' BY <2>1 DEF Away
  <2> QED BY <2>1, <2>2, <1>1, AwayParts
<1>8. \A p \in Streams : Local(p)'
  <2> SUFFICES ASSUME NEW p \in Streams PROVE Local(p)'
    OBVIOUS
  <2>1. act'[p].link.host <= issued' BY <1>4, <1>6, <1>7 DEF NoAct, NoLink
  <2>2. WorkerOK(p)'
    <3>1. 0 \notin Stored BY <1>6 DEF Stored
    <3> QED BY <3>1, <1>3, <1>4, <1>6, <1>7 DEF WorkerOK, NoWorker
  <2>3. FramesOver(p)' BY <1>7 DEF FramesOver
  <2> QED BY <2>1, <2>2, <2>3, <1>7, AwayNext
<1>9. Types'
  <2>1. StoreTypes' BY <1>1, <1>5, SameTypes
  <2>2. ClientTypes' BY <1>1, <1>5, SameTypes, FaultType
  <2>3. StreamTypes'
    <3>1. NoAct \in Activation /\ NoLink \in Link BY NoActType
    <3>2. NoWorker \in [id : 0..MaxRows, link : Link, releasing : BOOLEAN]
      BY <3>1, SizeAssumption DEF NoWorker
    <3>3. << >> \in Seq(Frame) /\ 0 \in 0..MaxRows /\ "off" \in PCs BY SizeAssumption DEF PCs
    <3>4. DOMAIN << >> = {} OBVIOUS
    <3> QED BY <3>1, <3>2, <3>3, <3>4, <1>1 DEF StreamTypes, SnapTypes
  <2> QED BY <2>1, <2>2, <2>3, TypesNext
<1>10. Tokens'
  <2>1. \A k, z, ln, v : Held(k, z, ln, v)' => k = "row" /\ Held(k, z, ln, v)
    <3> SUFFICES ASSUME NEW k, NEW z, NEW ln, NEW v, Held(k, z, ln, v)'
                 PROVE  k = "row" /\ Held(k, z, ln, v)
      OBVIOUS
    <3>1. z \in Streams => ~Bearing(z)' /\ pc'[z] = "off" BY <1>7
    <3> QED BY <3>1, <1>3, <1>4 DEF Held
  <2>2. "row" # "act" OBVIOUS
  <2>3. TokenShape' BY <2>1, <1>4, <1>5 DEF Tokens, TokenShape
  <2>4. TokenFits' BY <2>1, <2>2, <1>3, <1>4, <1>5 DEF Tokens, TokenFits
  <2>5. TokenOnce' BY <2>1, <1>5 DEF Tokens, TokenOnce
  <2> QED BY <2>3, <2>4, <2>5 DEF Tokens
<1>11. PlaceOnce' /\ PlaceRuns'
  <2>1. \A a, z, k, l : Place(a, z, k, l)' => a = "host" /\ Place(a, z, k, l)
    <3> SUFFICES ASSUME NEW a, NEW z, NEW k, NEW l, Place(a, z, k, l)'
                 PROVE  a = "host" /\ Place(a, z, k, l)
      OBVIOUS
    <3>1. z \in Streams => ~Live(z, k)' /\ pc'[z] = "off" BY <1>7
    <3> QED BY <3>1, <1>3, <1>4 DEF Place
  <2>2. "host" # "live" OBVIOUS
  <2>3. PlaceOnce' BY <2>1, <1>5 DEF PlaceOnce
  <2>4. PlaceRuns' BY <2>1, <2>2, <1>4, <1>5 DEF PlaceRuns
  <2> QED BY <2>3, <2>4
<1>12. Issued' /\ Singles' /\ NoneYet' /\ Told'
  <2>1. Issued' BY <1>3, <1>4, <1>5 DEF Issued
  <2>2. Singles' BY <1>3, <1>4, <1>5 DEF Singles
  <2>3. NoneYet' BY <1>2, <1>4, <1>5 DEF NoneYet
  <2>4. Told' BY <1>3, <1>4, <1>5 DEF Told
  <2> QED BY <2>1, <2>2, <2>3, <2>4
<1>13. Claims'
  <2>1. \A p \in Streams : ~worker'[p].releasing /\ ~Suspending(p)' BY <1>7 DEF NoWorker
  <2> QED BY <2>1, <1>3, <1>4, <1>5 DEF Claims
<1>14. Above'
  <2> SUFFICES ASSUME NEW i \in Stored \ claimed, rows[i].link.host \in Stored
               PROVE  rows[rows[i].link.host].pending = Leaf(i) \/ Orphan(i)'
    BY <1>3, <1>4 DEF Above
  <2>1. ASSUME Leaf(i) \cap (announced \cup claimed) = {} PROVE Orphan(i)'
    BY <2>1, <1>3, <1>4, <1>7 DEF Orphan
  <2>2. ASSUME NEW p \in Streams, Handed(p, i) PROVE Leaf(i) \cap (announced \cup claimed) = {}
    <3>1. Leaf(i) = {child[p]} /\ Suspending(p)
      BY <2>2 DEF Handed, Passing, Suspending, Asking
    <3> QED BY <3>1 DEF Inv, Local, ChildOK
  <2>3. Orphan(i) => Leaf(i) \cap (announced \cup claimed) = {} BY DEF Orphan
  <2> QED BY <2>1, <2>2, <2>3, <1>5 DEF Above
<1> QED BY <1>8, <1>9, <1>10, <1>11, <1>12, <1>13, <1>14, InvNext

LEMMA StutterKeeps ==
  ASSUME Inv, UNCHANGED vars
  PROVE  Inv'
<1>1. /\ rows' = rows /\ claimed' = claimed /\ issued' = issued /\ status' = status
      /\ recorded' = recorded /\ announced' = announced /\ answered' = answered
      /\ pc' = pc /\ act' = act /\ child' = child /\ snap' = snap /\ frames' = frames
      /\ worker' = worker /\ happened' = happened
  BY DEF vars, storeVars, clientVars, streamVars
<1>2. \A q \in Streams : SparesStream(q) BY <1>1 DEF SparesStream
<1>3. Still BY <1>1 DEF Still
<1>4. Keeps /\ \A q \in Streams : SparesRows(q)
  BY <1>1, <1>2, <1>3, StillKeeps
<1>5. \A q \in Streams : Local(q)' BY <1>2, <1>4, LocalKeeps
<1>6. Run \in Streams BY DEF Streams
<1>7. OnlyStream(Run) BY <1>2 DEF OnlyStream
<1>8. \A q \in Streams : /\ Suspending(q)' = Suspending(q) /\ Lvl(q)' = Lvl(q)
        /\ Bearing(q)' = Bearing(q) /\ Read(q)' = Read(q) /\ \A k : Cur(q, k)' = Cur(q, k)
  BY <1>2, MinePrime
<1>9. \A q : Passing(q)' = Passing(q) BY <1>1 DEF Passing, Lvl
<1>10. Issued' /\ Singles' /\ Claims' /\ Above' /\ Told'
  BY <1>1, <1>3, <1>6, <1>7, <1>8, <1>9, StillGlobal
<1>11. Stored' = Stored /\ Hosts' = Hosts BY <1>3, StillStored
<1>12. Running' = Running /\ Unused' = Unused /\ \A l : Done(l)' = Done(l)
  BY <1>1 DEF Running, Unused, Done
<1>13. Types /\ Tokens /\ PlaceOnce /\ PlaceRuns /\ NoneYet BY DEF Inv, Global
<1>14. Types'
  <2>1. UNCHANGED storeVars /\ UNCHANGED clientVars /\ UNCHANGED snap
    BY <1>1 DEF storeVars, clientVars
  <2>2. happened' \subseteq FaultKinds BY <1>1, <1>13 DEF Types, TypeOK
  <2>3. StoreTypes' /\ ClientTypes' /\ SnapTypes' BY <2>1, <2>2, <1>13, SameTypes
  <2>4. StreamTypes' BY <2>3, <1>1, <1>13 DEF StreamTypes, Types, TypeOK
  <2> QED BY <2>3, <2>4, TypesNext
<1>15. \A k, z, ln, v : Held(k, z, ln, v)' <=> Held(k, z, ln, v)
  BY <1>1, <1>8, <1>11 DEF Held
<1>16. Tokens'
  <2>1. TokenShape' BY <1>1, <1>12, <1>13, <1>15 DEF Tokens, TokenShape
  <2>2. TokenFits' BY <1>1, <1>11, <1>12, <1>13, <1>15 DEF Tokens, TokenFits
  <2>3. TokenOnce' BY <1>13, <1>15 DEF Tokens, TokenOnce
  <2> QED BY <2>1, <2>2, <2>3 DEF Tokens
<1>17. \A q, k : Live(q, k)' <=> Live(q, k)
  <2>1. \A q : Suspending(q)' <=> Suspending(q) BY <1>1 DEF Suspending
  <2>2. \A q : Stacked(q)' <=> Stacked(q) BY <2>1, <1>1 DEF Stacked
  <2> QED BY <2>2, <1>1 DEF Live, Lvl, Cur
<1>18. \A a, z, k, l : Place(a, z, k, l)' <=> Place(a, z, k, l)
  BY <1>1, <1>11, <1>17 DEF Place, Cur
<1>19. PlaceOnce' BY <1>13, <1>18 DEF PlaceOnce
<1>20. PlaceRuns'
  <2>1. \A z : Lvl(z)' = Lvl(z) BY <1>1 DEF Lvl
  <2> QED BY <2>1, <1>1, <1>12, <1>13, <1>18 DEF PlaceRuns
<1>21. NoneYet' BY <1>1, <1>12, <1>13 DEF NoneYet
<1> QED BY <1>5, <1>10, <1>14, <1>16, <1>19, <1>20, <1>21, InvNext

LEMMA InitInv == Init => Inv
<1> SUFFICES ASSUME Init PROVE Inv
  OBVIOUS
<1>1. /\ rows = [i \in Ids |-> NoRow] /\ claimed = {} /\ issued = 0
      /\ status = [l \in Loops |-> "none"] /\ recorded = [l \in Loops |-> <<>>]
      /\ announced = {} /\ answered = [i \in Ids |-> 0]
      /\ pc = [p \in Streams |-> IF p = Run THEN "turn" ELSE "off"]
      /\ act = [p \in Streams |-> NoAct] /\ child = [p \in Streams |-> 0]
      /\ snap = [p \in Streams |-> <<>>] /\ frames = [p \in Streams |-> <<>>]
      /\ worker = [p \in Streams |-> NoWorker] /\ happened = {}
  BY DEF Init
<1>2. Stored = {} /\ Hosts = {} /\ Unlinked = {} BY <1>1 DEF Stored, Hosts, Unlinked
<1>3. \A p \in Streams :
        /\ pc[p] \in {"turn", "off"} /\ act[p] = NoAct /\ worker[p] = NoWorker
        /\ frames[p] = <<>> /\ snap[p] = <<>>
        /\ ~Suspending(p) /\ ~Closing(p) /\ ~Passing(p)
        /\ \A k \in Levels : Cur(p, k) = 0 /\ ~Live(p, k)
  BY <1>1 DEF Suspending, Closing, Passing, Asking, Live, Cur, NoAct
<1>4. 1 \in Levels /\ Depth \in Levels /\ 0 \notin Ids /\ 0 <= 0
  BY IdTypes, SizeAssumption DEF Levels
<1>5. Types
  <2>1. NoAct \in Activation /\ NoLink \in Link BY NoActType
  <2>2. NoWorker \in [id : 0..MaxRows, link : Link, releasing : BOOLEAN]
    BY <2>1, SizeAssumption DEF NoWorker
  <2>3. << >> \in Seq(Frame) /\ << >> \in Seq(Nat) /\ 0 \in 0..MaxRows /\ 0 \in Nat
    BY SizeAssumption
  <2>4. \A p \in Streams : DOMAIN snap[p] \subseteq Ids /\ \A i \in DOMAIN snap[p] : snap[p][i] \in Row
    BY <1>3
  <2>5. pc \in [Streams -> PCs] BY <1>1 DEF PCs
  <2> QED BY <2>1, <2>2, <2>3, <2>4, <2>5, <1>1 DEF Types, TypeOK
<1>6. Tokens
  <2>1. \A k, z, ln, v : Held(k, z, ln, v) => ln = NoLink
    BY <1>2, <1>3 DEF Held, NoAct
  <2>2. NoLink.loop = 0 /\ NoLink.host = 0 BY DEF NoLink
  <2> QED BY <2>1, <2>2, <1>1, <1>2, <1>4 DEF Tokens, TokenShape, TokenFits, TokenOnce
<1>7. PlaceOnce /\ PlaceRuns
  <2>1. \A a, z, k, l : ~Place(a, z, k, l) BY <1>2, <1>3 DEF Place
  <2> QED BY <2>1 DEF PlaceOnce, PlaceRuns
<1>8. Issued /\ NoneYet /\ Singles /\ Told
  BY <1>1, <1>2 DEF Issued, NoneYet, Singles, Told, Unused
<1>9. Claims BY <1>1, <1>2, <1>3 DEF Claims, NoWorker
<1>10. Above BY <1>2 DEF Above
<1>11. ASSUME NEW p \in Streams PROVE Local(p)
  <2>1. act[p].top = 1 /\ Lvl(p) = 1 /\ act[p].link = NoLink BY <1>3 DEF NoAct, Lvl
  <2>2. StackOK(p)
    <3>1. act[p].link.host <= issued BY <2>1, <1>1, <1>4 DEF NoLink
    <3>2. pc[p] # "suspending" /\ pc[p] \notin Asking /\ pc[p] # "link" BY <1>3 DEF Asking
    <3>3. \A k \in Levels : ~(1 <= k /\ k < 1) BY SizeAssumption DEF Levels
    <3>4. 1 <= 1 OBVIOUS
    <3> QED BY <3>1, <3>2, <3>3, <3>4, <2>1, <1>3, <1>4 DEF StackOK
  <2>3. WorkerOK(p) BY <1>1, <1>2, <1>3, <1>4 DEF WorkerOK, NoWorker
  <2>4. ChildOK(p) /\ Chain(p) BY <1>3 DEF ChildOK, Chain
  <2>5. ClaimOK(p) /\ ClosingOK(p) /\ Linking(p) /\ Tip(p) /\ Saving(p)
    BY <1>3 DEF ClaimOK, ClosingOK, Linking, Tip, Saving, Closing
  <2>6. Carried(p) BY <1>2 DEF Carried
  <2>7. FramesOver(p) BY <1>3 DEF FramesOver
  <2> QED BY <2>2, <2>3, <2>4, <2>5, <2>6, <2>7 DEF Local
<1> QED BY <1>5, <1>6, <1>7, <1>8, <1>9, <1>10, <1>11 DEF Inv, Global

----------------------------------------------------------------------------
(* Every step.                                                             *)

\* What has happened is not forgotten.
LEMMA MoveFresh ==
  ASSUME NEW p \in Streams, Move(p)
  PROVE  happened \subseteq happened'
<1>1. ASSUME Step(p) PROVE happened \subseteq happened'
  <2>1. \/ \E k \in Levels : StartLoop(p, k) \/ IterateLoop(p, k) \/ CloseLoop(p, k)
        \/ EndRun(p) \/ NextStep(p) \/ FinalizeIteration(p) \/ ContinueParent(p)
        \/ Ask(p) \/ ReadHosts(p) \/ SaveHosts(p) \/ Notify(p) \/ YieldRequired(p)
        \/ SuspendHost(p) \/ LinkFrame(p) \/ Unsupported(p)
        \/ Claim(p) \/ InspectHost(p) \/ GetHost(p) \/ ClaimHost(p) \/ RecordIteration(p)
        \/ Unwind(p) \/ Throw(p)
    BY <1>1 DEF Step
  <2>2. ASSUME \E k \in Levels : StartLoop(p, k) \/ IterateLoop(p, k) \/ CloseLoop(p, k)
        PROVE  happened' = happened
    BY <2>2 DEF StartLoop, IterateLoop, CloseLoop
  <2>3. EndRun(p) \/ NextStep(p) \/ FinalizeIteration(p) \/ ContinueParent(p) => happened' = happened
    BY DEF EndRun, NextStep, FinalizeIteration, ContinueParent
  <2>4. Ask(p) \/ ReadHosts(p) \/ SaveHosts(p) \/ Notify(p) \/ YieldRequired(p) => happened' = happened
    BY DEF Ask, ReadHosts, SaveHosts, Notify, YieldRequired
  <2>5. SuspendHost(p) \/ LinkFrame(p) \/ Claim(p) \/ GetHost(p) \/ RecordIteration(p) => happened' = happened
    BY DEF SuspendHost, LinkFrame, Claim, GetHost, RecordIteration
  <2>6. Unwind(p) \/ Throw(p) => happened' = happened BY DEF Unwind, Throw
  <2>7. Unsupported(p) \/ ClaimHost(p) => happened \subseteq happened'
    BY DEF Unsupported, ClaimHost, Fault
  <2>8. InspectHost(p) => happened \subseteq happened' BY DEF InspectHost
  <2> QED BY <2>1, <2>2, <2>3, <2>4, <2>5, <2>6, <2>7, <2>8
<1>2. Faults(p) => happened \subseteq happened'
  BY DEF Faults, FailRun, RecoverRun, RetryHost, LoseRecord, Stop, Fault
<1>3. (\E c \in Ids : ReadCheckpoint(p, c)) => happened' = happened BY DEF ReadCheckpoint
<1> QED BY <1>1, <1>2, <1>3 DEF Move

LEMMA MoveKeeps ==
  ASSUME Inv, NEW p \in Streams, Move(p), Fresh', Callback = FALSE, MaxIterations > 0
  PROVE  Inv'
<1>1. ASSUME Step(p) PROVE Inv'
  <2>1. \/ \E k \in Levels : StartLoop(p, k) \/ IterateLoop(p, k) \/ CloseLoop(p, k)
        \/ EndRun(p) \/ NextStep(p) \/ FinalizeIteration(p) \/ ContinueParent(p)
        \/ Ask(p) \/ ReadHosts(p) \/ SaveHosts(p) \/ Notify(p) \/ YieldRequired(p)
        \/ SuspendHost(p) \/ LinkFrame(p) \/ Unsupported(p)
        \/ Claim(p) \/ InspectHost(p) \/ GetHost(p) \/ ClaimHost(p) \/ RecordIteration(p)
        \/ Unwind(p) \/ Throw(p)
    BY <1>1 DEF Step
  <2>2. ASSUME NEW k \in Levels, StartLoop(p, k) \/ IterateLoop(p, k) \/ CloseLoop(p, k) PROVE Inv'
    BY <2>2, StartLoopKeeps, IterateLoopKeeps, CloseLoopKeeps
  <2>3. EndRun(p) \/ NextStep(p) \/ FinalizeIteration(p) \/ ContinueParent(p) => Inv'
    BY EndRunKeeps, NextStepKeeps, FinalizeIterationKeeps, ContinueParentKeeps
  <2>4. Ask(p) \/ ReadHosts(p) \/ SaveHosts(p) \/ Notify(p) \/ YieldRequired(p) => Inv'
    BY AskKeeps, ReadHostsKeeps, SaveHostsKeeps, NotifyKeeps, YieldRequiredKeeps
  <2>5. SuspendHost(p) \/ LinkFrame(p) \/ Unsupported(p) => Inv'
    BY SuspendHostKeeps, LinkFrameKeeps, UnsupportedKeeps
  <2>6. Claim(p) \/ InspectHost(p) \/ GetHost(p) \/ ClaimHost(p) \/ RecordIteration(p) => Inv'
    BY ClaimKeeps, InspectHostKeeps, GetHostKeeps, ClaimHostKeeps, RecordIterationKeeps
  <2>7. Unwind(p) \/ Throw(p) => Inv' BY UnwindKeeps, ThrowKeeps
  <2> QED BY <2>1, <2>2, <2>3, <2>4, <2>5, <2>6, <2>7
<1>2. Faults(p) => Inv'
  BY FailRunKeeps, RecoverRunKeeps, RetryHostKeeps, LoseRecordKeeps, StopKeeps DEF Faults
<1>3. ASSUME NEW c \in Ids, ReadCheckpoint(p, c) PROVE Inv' BY <1>3, ReadCheckpointKeeps
<1> QED BY <1>1, <1>2, <1>3 DEF Move

LEMMA NextMoves ==
  ASSUME Next PROVE Crash \/ \E p \in Streams : Move(p)
<1>1. \/ \E p \in Streams : Step(p) \/ Faults(p)
      \/ \E p \in Streams, c \in Ids : ReadCheckpoint(p, c)
      \/ Crash
  BY DEF Next
<1> QED BY <1>1 DEF Move

LEMMA StepKeeps ==
  ASSUME HInv, [Next]_vars, Callback = FALSE, MaxIterations > 0
  PROVE  HInv' /\ (Fresh' => Fresh)
<1>1. happened \subseteq happened'
  <2>1. ASSUME Crash PROVE happened \subseteq happened' BY <2>1 DEF Crash, Fault
  <2>2. ASSUME UNCHANGED vars PROVE happened \subseteq happened' BY <2>2 DEF vars
  <2> QED BY <2>1, <2>2, NextMoves, MoveFresh
<1>2. Fresh' => Fresh BY <1>1 DEF Fresh
<1>3. ASSUME Fresh' PROVE Inv'
  <2>1. Inv BY <1>2, <1>3 DEF HInv
  <2> QED BY <2>1, <1>3, NextMoves, MoveKeeps, CrashKeeps, StutterKeeps
<1> QED BY <1>2, <1>3 DEF HInv

----------------------------------------------------------------------------
(* What a step does to the loops.                                          *)

\* Running loops are closed, and no other row changes.
Closes ==
  /\ status' = [l \in Loops |-> status'[l]]
  /\ \A l \in Loops :
       \/ status'[l] = status[l]
       \/ l \in Running /\ status'[l] \in {"completed", "exhausted", "failed"}

LEMMA ClosesLoop ==
  ASSUME Closes, recorded' = recorded
  PROVE  LoopLife!LoopNext
<1> DEFINE S == {l \in Loops : status'[l] # status[l]}
           how == [l \in S |-> status'[l]]
<1>1. S \in SUBSET Loops OBVIOUS
<1>2. \A l \in S : status[l] = "running" BY DEF Closes, Running
<1>3. how \in [S -> {"completed", "exhausted", "failed"}] BY DEF Closes
<1>4. status' = [l \in Loops |-> IF l \in S THEN how[l] ELSE status[l]] BY DEF Closes
<1>5. [l \in Loops |-> Done(l)]' = [l \in Loops |-> Done(l)] BY DEF Done
<1> HIDE DEF S, how
<1>6. LoopLife!Close(S) BY <1>2, <1>3, <1>4, <1>5 DEF LoopLife!Close
<1> QED BY <1>1, <1>6 DEF LoopLife!LoopNext

LEMMA SameCloses ==
  ASSUME Types, status' = status PROVE Closes
  BY DEF Closes, Types, TypeOK

LEMMA CloseLoopsClosing ==
  ASSUME NEW S, NEW how \in {"completed", "exhausted", "failed"}, CloseLoops(S, how)
  PROVE  Closes
  BY DEF CloseLoops, Closes

LEMMA DropFailCloses ==
  /\ \A link, failing, also, loops : DropHosts(link, failing, also, loops) => Closes
  /\ \A loops, leaf : FailOpen(loops, leaf) => Closes
<1>1. ASSUME NEW link, NEW failing, NEW also, NEW loops, DropHosts(link, failing, also, loops)
      PROVE  Closes
  <2>1. \E S : CloseLoops(S, "failed") BY <1>1 DEF DropHosts
  <2> QED BY <2>1, CloseLoopsClosing
<1>2. ASSUME NEW loops, NEW leaf, FailOpen(loops, leaf) PROVE Closes
  <2>1. \E S : CloseLoops(S, "failed") BY <1>2 DEF FailOpen
  <2> QED BY <2>1, CloseLoopsClosing
<1> QED BY <1>1, <1>2

\* A stream closes a loop only while it works on it.
LEMMA OwnCloses ==
  ASSUME Inv, NEW p \in Streams, NEW k \in Levels, Live(p, k),
         NEW how \in {"completed", "exhausted", "failed"},
         status' = [status EXCEPT ![Cur(p, k)] = how]
  PROVE  Closes
<1>1. Cur(p, k) \in Running BY OnlyPlace
<1>2. status \in [Loops -> {"none", "running", "completed", "exhausted", "failed"}]
  BY DEF Inv, Global, Types, TypeOK
<1> QED BY <1>1, <1>2 DEF Closes, Running

LEMMA FinalizeClosing ==
  ASSUME Inv, NEW p \in Streams, pc[p] = "turn", NEW how \in {"completed", "failed"},
         Finalize(p, Lvl(p), how)
  PROVE  Closes
<1>1. Types /\ Lvl(p) \in Levels BY ActType DEF Inv, Global
<1>2. ASSUME Cur(p, Lvl(p)) = 0 PROVE Closes BY <1>1, <1>2, SameCloses DEF Finalize
<1>3. ASSUME Cur(p, Lvl(p)) # 0 PROVE Closes
  <2>1. act[p].top <= Lvl(p) BY DEF Inv, Local, StackOK, Stacked
  <2>2. Lvl(p) <= Lvl(p) BY <1>1, SizeAssumption DEF Levels
  <2>3. Live(p, Lvl(p)) BY <2>1, <2>2, <1>3 DEF Live
  <2> QED BY <1>1, <1>3, <2>3, OwnCloses DEF Finalize
<1> QED BY <1>2, <1>3

LEMMA StartStarts ==
  ASSUME Inv, NEW p \in Streams, NEW k \in Levels, StartLoop(p, k)
  PROVE  LoopLife!LoopNext
<1>1. PICK l \in Unused : status' = [status EXCEPT ![l] = "running"] BY DEF StartLoop
<1>2. l \in Loops /\ status[l] = "none" BY DEF Unused
<1>3. recorded' = recorded BY DEF StartLoop
<1>4. [x \in Loops |-> Done(x)]' = [x \in Loops |-> Done(x)] BY <1>3 DEF Done
<1>5. LoopLife!Start(l) BY <1>1, <1>2, <1>4 DEF LoopLife!Start
<1> QED BY <1>2, <1>5 DEF LoopLife!LoopNext

\* An iteration is recorded for a running loop that has one left.
LEMMA AppendRecords ==
  ASSUME Inv, NEW l \in Running, Done(l) < MaxIterations, NEW e \in Nat,
         recorded' = [recorded EXCEPT ![l] = Append(@, e)], status' = status
  PROVE  LoopLife!LoopNext
<1>1. l \in Loops /\ status[l] = "running" BY DEF Running
<1>2. recorded \in [Loops -> Seq(Nat)] BY DEF Inv, Global, Types, TypeOK
<1>3. \A x \in Loops : Len(recorded'[x]) = IF x = l THEN Len(recorded[l]) + 1 ELSE Len(recorded[x])
  BY <1>1, <1>2
<1>4. [x \in Loops |-> Done(x)]' = [[x \in Loops |-> Done(x)] EXCEPT ![l] = @ + 1]
  BY <1>1, <1>3 DEF Done
<1>5. LoopLife!Record(l) BY <1>1, <1>4 DEF LoopLife!Record
<1> QED BY <1>1, <1>5 DEF LoopLife!LoopNext

LEMMA FinalizeRecords ==
  ASSUME Inv, NEW p \in Streams, FinalizeIteration(p)
  PROVE  LoopLife!LoopNext
<1> DEFINE k == Lvl(p)
           l == Open(p, k - 1)
<1>1. /\ pc[p] = "ended" /\ k > act[p].top /\ status' = status
      /\ recorded' = [recorded EXCEPT ![l] = Append(@, Len(@) + 1)]
  BY DEF FinalizeIteration
<1>2. k \in Levels /\ act[p].top \in Levels BY ActType DEF Inv, Global
<1>3. k - 1 \in Levels /\ act[p].top <= k - 1 /\ k - 1 < k /\ k - 1 <= k /\ k - 1 # k
  BY <1>1, <1>2, SizeAssumption DEF Levels
<1> HIDE DEF k
<1>4. Cur(p, k - 1) = l /\ Cur(p, k - 1) # 0
  BY <1>1, <1>3 DEF Inv, Local, StackOK, Stacked, k
<1>5. Live(p, k - 1) BY <1>1, <1>3, <1>4 DEF Live, Stacked, k
<1>6. Place("live", p, k - 1, l) BY <1>3, <1>4, <1>5 DEF Place
<1>7. l \in Running /\ Done(l) < MaxIterations BY <1>1, <1>6 DEF Inv, Global, PlaceRuns
<1>8. recorded[l] \in Seq(Nat) BY <1>7 DEF Inv, Global, Types, TypeOK, Running
<1>9. recorded' = [recorded EXCEPT ![l] = Append(@, Len(recorded[l]) + 1)] BY <1>1, <1>7, <1>8
<1>10. Len(recorded[l]) + 1 \in Nat BY <1>8
<1> HIDE DEF l
<1> QED BY <1>1, <1>7, <1>9, <1>10, AppendRecords

LEMMA RecordRecords ==
  ASSUME Inv, NEW p \in Streams, RecordIteration(p)
  PROVE  LoopLife!LoopNext
<1> DEFINE l == act[p].link.loop
<1>1. /\ pc[p] = "record" /\ status' = status
      /\ recorded' = [recorded EXCEPT ![l] = Append(@, act[p].link.iter)]
  BY DEF RecordIteration
<1>2. Place("record", p, 0, l) BY <1>1 DEF Place
<1>3. "record" # "live" OBVIOUS
<1>4. l \in Running /\ Done(l) < MaxIterations BY <1>2, <1>3 DEF Inv, Global, PlaceRuns
<1>5. act[p].link.iter \in Nat BY ActType DEF Inv, Global, Link
<1> HIDE DEF l
<1> QED BY <1>1, <1>4, <1>5, AppendRecords

\* What one stream does, a loop's row allows.
LEMMA MoveRefines ==
  ASSUME Inv, NEW p \in Streams, Move(p)
  PROVE  LoopLife!LoopNext
<1>0. Types BY DEF Inv, Global
<1>1. recorded' = recorded /\ status' = status => LoopLife!LoopNext
  BY <1>0, SameCloses, ClosesLoop
<1>2. ASSUME Step(p) PROVE LoopLife!LoopNext
  <2>1. \/ \E k \in Levels : StartLoop(p, k) \/ IterateLoop(p, k) \/ CloseLoop(p, k)
        \/ EndRun(p) \/ NextStep(p) \/ FinalizeIteration(p) \/ ContinueParent(p)
        \/ Ask(p) \/ ReadHosts(p) \/ SaveHosts(p) \/ Notify(p) \/ YieldRequired(p)
        \/ SuspendHost(p) \/ LinkFrame(p) \/ Unsupported(p)
        \/ Claim(p) \/ InspectHost(p) \/ GetHost(p) \/ ClaimHost(p) \/ RecordIteration(p)
        \/ Unwind(p) \/ Throw(p)
    BY <1>2 DEF Step
  <2>2. ASSUME NEW k \in Levels, StartLoop(p, k) \/ IterateLoop(p, k) \/ CloseLoop(p, k)
        PROVE  LoopLife!LoopNext
    <3>1. ASSUME CloseLoop(p, k) PROVE LoopLife!LoopNext
      <4>1. \E how \in {"completed", "exhausted", "failed"} : status' = [status EXCEPT ![Cur(p, k)] = how]
        BY <3>1 DEF CloseLoop
      <4>2. Calling(p, k) /\ Cur(p, k) # 0 BY <3>1 DEF CloseLoop
      <4>3. pc[p] = "turn" /\ k = Lvl(p) BY <4>2 DEF Calling, MayCall
      <4>4. act[p].top <= Lvl(p) BY <4>3 DEF Inv, Local, StackOK, Stacked
      <4>5. Lvl(p) <= Lvl(p) BY <1>0, ActType, SizeAssumption DEF Levels
      <4>6. Live(p, k) BY <4>2, <4>3, <4>4, <4>5 DEF Live
      <4>7. Closes BY <4>1, <4>6, OwnCloses
      <4>8. recorded' = recorded BY <3>1 DEF CloseLoop
      <4> QED BY <4>7, <4>8, ClosesLoop
    <3>2. IterateLoop(p, k) => recorded' = recorded /\ status' = status
      BY DEF IterateLoop, storeVars
    <3> QED BY <2>2, <3>1, <3>2, <1>1, StartStarts
  <2>3. ASSUME EndRun(p) PROVE LoopLife!LoopNext
    <3>1. pc[p] = "turn" /\ Finalize(p, Lvl(p), "completed") /\ recorded' = recorded
      BY <2>3 DEF EndRun
    <3> QED BY <3>1, FinalizeClosing, ClosesLoop
  <2>4. NextStep(p) \/ ContinueParent(p) \/ Ask(p) \/ ReadHosts(p) \/ SaveHosts(p)
        \/ Notify(p) \/ YieldRequired(p) => recorded' = recorded /\ status' = status
    BY DEF NextStep, ContinueParent, Ask, ReadHosts, SaveHosts, Notify, YieldRequired, storeVars
  <2>5. SuspendHost(p) \/ LinkFrame(p) \/ Claim(p) \/ ClaimHost(p) => recorded' = recorded /\ status' = status
    BY DEF SuspendHost, LinkFrame, Claim, ClaimHost
  <2>6. Unsupported(p) => LoopLife!LoopNext
    BY DropFailCloses, ClosesLoop DEF Unsupported
  <2>7. InspectHost(p) => LoopLife!LoopNext
    BY <1>0, DropFailCloses, SameCloses, ClosesLoop DEF InspectHost
  <2>8. GetHost(p) => LoopLife!LoopNext
    BY <1>0, CloseLoopsClosing, SameCloses, ClosesLoop DEF GetHost
  <2>9. Unwind(p) => LoopLife!LoopNext
    BY CloseLoopsClosing, DropFailCloses, ClosesLoop DEF Unwind
  <2>10. Throw(p) => LoopLife!LoopNext
    BY DropFailCloses, ClosesLoop DEF Throw, AbandonWorker
  <2> QED
    BY <1>1, <2>1, <2>2, <2>3, <2>4, <2>5, <2>6, <2>7, <2>8, <2>9, <2>10, FinalizeRecords,
       RecordRecords
<1>3. ASSUME Faults(p) PROVE LoopLife!LoopNext
  <2>1. ASSUME FailRun(p) PROVE LoopLife!LoopNext
    <3>1. pc[p] = "turn" /\ Finalize(p, Lvl(p), "failed") /\ recorded' = recorded
      BY <2>1 DEF FailRun
    <3> QED BY <3>1, FinalizeClosing, ClosesLoop
  <2>2. RecoverRun(p) => LoopLife!LoopNext
    BY <1>0, CloseLoopsClosing, SameCloses, ClosesLoop DEF RecoverRun
  <2>3. RetryHost(p) => LoopLife!LoopNext BY DropFailCloses, ClosesLoop DEF RetryHost
  <2>4. LoseRecord(p) => LoopLife!LoopNext BY CloseLoopsClosing, ClosesLoop DEF LoseRecord
  <2>5. Stop(p) => LoopLife!LoopNext
    BY <1>1, DropFailCloses, ClosesLoop DEF Stop, AbandonWorker, storeVars
  <2> QED BY <1>3, <2>1, <2>2, <2>3, <2>4, <2>5 DEF Faults
<1>4. (\E c \in Ids : ReadCheckpoint(p, c)) => recorded' = recorded /\ status' = status
  BY DEF ReadCheckpoint, storeVars
<1> QED BY <1>1, <1>2, <1>3, <1>4 DEF Move

LEMMA StepRefines ==
  ASSUME HInv, [Next]_vars, Callback = FALSE, MaxIterations > 0
  PROVE  [LoopLife!LoopNext \/ "overtaken" \in happened']_<<status, recorded>>
<1>1. ASSUME Fresh' PROVE [LoopLife!LoopNext]_<<status, recorded>>
  <2>1. Inv BY <1>1, StepKeeps DEF HInv
  <2>2. Crash => UNCHANGED <<status, recorded>> BY DEF Crash, storeVars
  <2>3. UNCHANGED vars => UNCHANGED <<status, recorded>> BY DEF vars, storeVars
  <2> QED BY <2>1, <2>2, <2>3, NextMoves, MoveRefines
<1> QED BY <1>1 DEF Fresh

\* HostLoopInv: every reachable state in which no host checkpoint was acted on
\* after it changed has its running loops in one place, the right to close each
\* iteration in one hand, and links and pending lists that agree (claimCheckpoint,
\* linkLoopHost and retargetLoopHostPending together).
THEOREM HostLoopInv ==
  ASSUME Callback = FALSE, MaxIterations > 0
  PROVE  Spec => []HInv
<1>1. Init => HInv BY InitInv DEF HInv
<1>2. HInv /\ [Next]_vars => HInv' BY StepKeeps
<1> QED BY <1>1, <1>2, PTL DEF Spec

\* OnlyRunningLoopsMove: only a running loop with an iteration left gains one, a
\* loop is closed from running and never again, by nested suspensions, failures,
\* crashes and concurrent resumes (finalizeIteration, completeLoopIteration,
\* closeLoopIfRunning and the updateLoop that looks at no status).
THEOREM OnlyRunningLoopsMove ==
  ASSUME Callback = FALSE, MaxIterations > 0
  PROVE  Spec => RefinesLoop
<1>1. ASSUME Init PROVE HInv /\ LoopLife!LoopInit
  <2>1. HInv BY <1>1, InitInv DEF HInv
  <2>2. [l \in Loops |-> Done(l)] = [l \in Loops |-> 0] BY <1>1 DEF Init, Done
  <2>3. status = [l \in Loops |-> "none"] BY <1>1 DEF Init
  <2>4. LoopLife!LoopInit BY <2>2, <2>3 DEF LoopLife!LoopInit
  <2> QED BY <2>1, <2>4
<1>2. HInv /\ [Next]_vars => HInv' BY StepKeeps
<1>3. HInv /\ [Next]_vars => [LoopLife!LoopNext \/ "overtaken" \in happened']_<<status, recorded>>
  BY StepRefines
<1> QED BY <1>1, <1>2, <1>3, PTL DEF Spec, RefinesLoop
=============================================================================

--------------------------- MODULE StoredProofs ---------------------------
(***************************************************************************)
(* Proofs about what is stored of a run: its crumb log, with those who     *)
(* read it (RunStream), and the rows of the three stores (Stores).         *)
(*                                                                         *)
(* RunStream, the writers: while the store answers and the clients wait    *)
(* for a stream to end, seq is a position over all streams of the run, and *)
(* a stream that closed left all it carried in the log. The readers, with  *)
(* every fault: what one is sent is in order, and what one misses was on   *)
(* its way to the log when it read it.                                     *)
(*                                                                         *)
(* WriterInv follows the numbers: what the latest writer has chained is in *)
(* order and above everything in the log, and its counter is the greatest  *)
(* seq of either. A stream closes once its chain is empty, so the greatest *)
(* seq is then in the log, where the next writer's seed is read from.      *)
(* MissInv follows the readers: see the second part.                       *)
(*                                                                         *)
(* Stores: whatever the calls and their order, a checkpoint row is handed  *)
(* out once between its insertion and its removal, by the memory store and *)
(* by both SQL stores. The memory store remembers claimed ids beside the   *)
(* rows, the SQL stores have a column. The argument is the same: a row     *)
(* that can still be taken has not been taken, and the call that takes it  *)
(* ends that (TInv).                                                       *)
(***************************************************************************)
EXTENDS RunStream, Stores, SequenceTheorems, FiniteSetTheorems, TLAPS

LogEntry == [seq : Nat, of : SUBSET Nat]
Window == [kind : Channels, of : SUBSET Nat]
Crumb == [kind : Channels \cup Boundaries, seq : Nat]

Types ==
  /\ sent \in Seq(Crumb)
  /\ stream \in Nat /\ counter \in Nat
  /\ window \in Seq(Window)
  /\ chain \in [Streams -> Seq(LogEntry)]
  /\ log \subseteq LogEntry

\* No write has failed.
Writing == disabled = [s \in Streams |-> FALSE]

\* Seqs grow from crumb to crumb, up to the counter.
Positions ==
  /\ \A p \in Places : sent[p].seq <= counter
  /\ \A p, q \in Places : p < q =>
       IF q \in Deltas THEN sent[p].seq <= sent[q].seq ELSE sent[p].seq < sent[q].seq

\* Only the latest writer has writes underway; they are above the log, in
\* order, and none is above the counter.
InLine(entries, n) ==
  \A i \in 1..Len(entries) :
    /\ entries[i].seq <= n
    /\ \A e \in log : e.seq < entries[i].seq
    /\ \A j \in 1..Len(entries) : i < j => entries[i].seq < entries[j].seq

Ordered ==
  /\ \A e \in log : e.seq <= counter
  /\ \A s \in Streams : s # stream => chain[s] = <<>>
  /\ \A s \in Streams : InLine(chain[s], counter)

\* The counter is the seq of an entry, in the log or on its way.
Reached ==
  \/ \E e \in log : e.seq = counter
  \/ \E i \in 1..Len(chain[stream]) : chain[stream][i].seq = counter

Chained(p) == \E s \in Streams : \E i \in 1..Len(chain[s]) : p \in chain[s][i].of
Windowed(p) == \E i \in 1..Len(window) : p \in window[i].of
Carried(p) == p \in Logged \/ Chained(p) \/ Windowed(p)

\* What the run's stages say of its writers.
Staged ==
  /\ stage = "idle" => stream = 0 /\ counter = 0 /\ sent = <<>> /\ log = {}
  /\ stage # "idle" => stream \in Streams /\ Reached
  /\ stage # "live" => window = <<>>
  /\ stage \in {"idle", "suspended", "ended"} => \A s \in Streams : chain[s] = <<>>

Good ==
  /\ Types /\ Writing
  /\ Positions
  /\ Ordered
  /\ \A p : p \in Places <=> Carried(p)
  /\ Staged

WriterInv == faults \in Nat /\ (faults = 0 => Good)

-----------------------------------------------------------------------------
(* One lemma per thing a writer does: it chains entries, publishes a crumb, *)
(* moves a window into an entry.                                           *)

LEMMA Extends ==
  ASSUME NEW old \in Seq(LogEntry), NEW es \in Seq(LogEntry), NEW n \in Nat,
         log \subseteq LogEntry, \A e \in log : e.seq <= n, InLine(old, n),
         \A i \in 1..Len(es) : es[i].seq = n + i
  PROVE  InLine(old \o es, n + Len(es))
<1> DEFINE new == old \o es
           a == Len(old)
           b == Len(es)
<1>1. a \in Nat /\ b \in Nat /\ Len(new) = a + b
  OBVIOUS
<1>2. \A i \in 1..a : new[i] = old[i] /\ old[i].seq \in Nat
  <2>1. \A i \in 1..a : new[i] = old[i] /\ old[i] \in LogEntry
    OBVIOUS
  <2> QED
    BY <2>1 DEF LogEntry
<1>3. \A i \in 1..(a + b) : i > a => new[i].seq = n + (i - a)
  <2> SUFFICES ASSUME NEW i \in 1..(a + b), i > a PROVE new[i].seq = n + (i - a)
    OBVIOUS
  <2>1. new[i] = es[i - a] /\ i - a \in 1..b
    BY <1>1
  <2> QED
    BY <2>1
<1>4. \A i \in 1..a : /\ old[i].seq <= n
                      /\ \A e \in log : e.seq < old[i].seq
                      /\ \A j \in 1..a : i < j => old[i].seq < old[j].seq
  BY DEF InLine
<1>5. \A e \in log : e.seq \in Nat
  BY DEF LogEntry
<1>6. \A i \in 1..(a + b) : new[i].seq \in Nat /\ new[i].seq <= n + b
  <2> HIDE DEF new, a, b
  <2> QED
    BY <1>1, <1>2, <1>3, <1>4
<1>7. ASSUME NEW i \in 1..(a + b), NEW e \in log PROVE e.seq < new[i].seq
  <2> HIDE DEF new, a, b
  <2> QED
    BY <1>1, <1>2, <1>3, <1>4, <1>5
<1>8. ASSUME NEW i \in 1..(a + b), NEW j \in 1..(a + b), i < j
      PROVE  new[i].seq < new[j].seq
  <2> HIDE DEF new, a, b
  <2>1. CASE j <= a
    BY <1>1, <1>2, <1>4, <1>8, <2>1
  <2>2. CASE i <= a /\ j > a
    BY <1>1, <1>2, <1>3, <1>4, <1>8, <2>2
  <2>3. CASE i > a
    <3>1. j > a /\ i \in Int /\ j \in Int BY <1>1, <1>8, <2>3
    <3>2. new[i].seq = n + (i - a) BY <1>3, <2>3
    <3>3. new[j].seq = n + (j - a) BY <1>3, <3>1
    <3> QED BY <1>1, <1>8, <3>1, <3>2, <3>3
  <2> QED
    BY <1>1, <1>8, <2>1, <2>2, <2>3
<1> QED
  BY <1>1, <1>6, <1>7, <1>8 DEF InLine

\* Entries chained with the counter's next seqs keep the chain in order, and
\* their last one is the new counter.
LEMMA Chains ==
  ASSUME Types, Ordered, stream \in Streams,
         NEW es \in Seq(LogEntry), \A i \in 1..Len(es) : es[i].seq = counter + i,
         chain' = [chain EXCEPT ![stream] = chain[stream] \o es],
         counter' = counter + Len(es), Len(es) > 0 \/ Reached,
         UNCHANGED <<stream, log>>
  PROVE  /\ Ordered' /\ Reached' /\ chain' \in [Streams -> Seq(LogEntry)]
         /\ \A p : Chained(p)' <=> (Chained(p) \/ \E j \in 1..Len(es) : p \in es[j].of)
<1> DEFINE old == chain[stream]
           new == chain'[stream]
<1>1. old \in Seq(LogEntry) /\ new = old \o es /\ chain' \in [Streams -> Seq(LogEntry)]
  BY DEF Types
<1>2. Len(new) = Len(old) + Len(es) /\ Len(old) \in Nat /\ Len(es) \in Nat
  BY <1>1
<1>3. \A i \in 1..Len(old) : new[i] = old[i]
  BY <1>1
<1>4. \A i \in 1..Len(es) : new[Len(old) + i] = es[i]
  BY <1>1
<1>5. \A i \in 1..Len(new) : i > Len(old) =>
        i - Len(old) \in 1..Len(es) /\ new[i] = es[i - Len(old)]
  BY <1>2, <1>4
<1>6. \A s \in Streams : s # stream => chain'[s] = chain[s]
  BY DEF Types
<1>7. counter \in Nat /\ log \subseteq LogEntry
  BY DEF Types
<1>8. Ordered'
  <2>1. \A e \in log : e.seq \in Nat /\ e.seq <= counter
    BY <1>7 DEF Ordered, LogEntry
  <2>2. \A e \in log : e.seq <= counter'
    BY <1>2, <1>7, <2>1
  <2>3. \A s \in Streams : s # stream => chain'[s] = <<>>
    BY <1>6 DEF Ordered
  <2>4. \A s \in Streams : s # stream => InLine(chain[s], counter)'
    BY <2>3 DEF InLine
  <2>5. InLine(old, counter)
    BY DEF Ordered
  <2>6. InLine(new, counter')
    BY <1>1, <1>7, <2>1, <2>5, Extends
  <2>7. InLine(chain[stream], counter)'
    BY <2>6 DEF InLine
  <2> QED
    BY <2>2, <2>3, <2>4, <2>7 DEF Ordered
<1>9. Reached'
  <2>1. CASE Len(es) > 0
    <3>1. Len(es) \in 1..Len(es) /\ es[Len(es)].seq = counter'
      BY <1>2, <2>1
    <3>2. Len(new) \in 1..Len(new) /\ new[Len(new)] = es[Len(es)]
      BY <1>2, <1>4, <3>1
    <3> QED
      BY <3>1, <3>2 DEF Reached
  <2>2. CASE Len(es) = 0
    <3>1. counter' = counter /\ Reached
      BY <1>7, <2>2
    <3>2. 1..Len(old) \subseteq 1..Len(new)
      BY <1>2
    <3> QED
      BY <1>3, <3>1, <3>2 DEF Reached
  <2> QED
    BY <1>2, <2>1, <2>2
<1>10. ASSUME NEW p
       PROVE  Chained(p)' <=> (Chained(p) \/ \E j \in 1..Len(es) : p \in es[j].of)
  <2>1. Chained(p)' => Chained(p) \/ \E j \in 1..Len(es) : p \in es[j].of
    <3> SUFFICES ASSUME NEW s \in Streams, NEW i \in 1..Len(chain'[s]), p \in chain'[s][i].of
                 PROVE  Chained(p) \/ \E j \in 1..Len(es) : p \in es[j].of
      BY DEF Chained
    <3>1. CASE s # stream
      BY <1>6, <3>1 DEF Chained
    <3>2. CASE s = stream /\ i <= Len(old)
      <4>1. i \in 1..Len(old) /\ p \in old[i].of
        BY <1>2, <1>3, <3>2
      <4> QED
        BY <4>1 DEF Chained
    <3>3. CASE s = stream /\ i > Len(old)
      BY <1>2, <1>5, <3>3
    <3> QED
      BY <1>2, <3>1, <3>2, <3>3
  <2>2. ASSUME Chained(p) PROVE Chained(p)'
    <3>1. PICK s \in Streams : \E i \in 1..Len(chain[s]) : p \in chain[s][i].of
      BY <2>2 DEF Chained
    <3>2. CASE s # stream
      BY <1>6, <3>1, <3>2 DEF Chained
    <3>3. CASE s = stream
      <4>1. PICK i \in 1..Len(old) : p \in old[i].of
        BY <3>1, <3>3
      <4>2. i \in 1..Len(new) /\ p \in new[i].of
        BY <1>2, <1>3, <4>1
      <4> QED
        BY <4>2 DEF Chained
    <3> QED
      BY <3>2, <3>3
  <2>3. ASSUME NEW j \in 1..Len(es), p \in es[j].of PROVE Chained(p)'
    <3>1. Len(old) + j \in 1..Len(new) /\ p \in new[Len(old) + j].of
      BY <1>2, <1>4, <2>3
    <3> QED
      BY <3>1 DEF Chained
  <2> QED
    BY <2>1, <2>2, <2>3
<1> QED
  BY <1>1, <1>8, <1>9, <1>10

\* A crumb published with a seq at or above the counter, above it unless it is
\* a delta, keeps seqs growing.
LEMMA Publishes ==
  ASSUME Types, Positions, NEW kind \in Channels \cup Boundaries, NEW n \in Nat,
         Publish(kind, n), counter <= n, kind \in Boundaries => counter < n,
         counter' \in Nat, n <= counter'
  PROVE  /\ sent' \in Seq(Crumb) /\ Positions'
         /\ \A p : p \in Places' <=> (p \in Places \/ p = Len(sent) + 1)
<1> DEFINE new == [kind |-> kind, seq |-> n]
<1>1. new \in Crumb /\ sent \in Seq(Crumb) /\ sent' = Append(sent, new) /\ counter \in Nat
  BY DEF Types, Publish, Crumb
<1>2. sent' \in Seq(Crumb) /\ Len(sent') = Len(sent) + 1 /\ Len(sent) \in Nat
  BY <1>1
<1>3. \A p \in Places : sent'[p] = sent[p]
  BY <1>1 DEF Places
<1>4. sent'[Len(sent) + 1] = new
  BY <1>1
<1>5. Places' = Places \cup {Len(sent) + 1}
  BY <1>2 DEF Places
<1>6. \A p \in Places : p < Len(sent) + 1 /\ p \in Nat /\ sent[p].seq \in Nat
  <2>1. \A p \in 1..Len(sent) : sent[p] \in Crumb
    BY <1>1
  <2> QED
    BY <1>2, <2>1 DEF Places, Crumb
<1>7. \A p \in Places' : sent'[p].seq <= counter'
  <2>1. \A p \in Places : sent[p].seq <= counter
    BY DEF Positions
  <2>2. counter <= counter'
    BY <1>1
  <2>3. ASSUME NEW p \in Places PROVE sent'[p].seq <= counter'
    <3> DEFINE x == sent[p].seq
    <3>1. sent'[p].seq = x /\ x \in Nat /\ x <= counter
      BY <1>3, <1>6, <2>1
    <3> HIDE DEF x
    <3>2. x <= counter'
      BY <1>1, <2>2, <3>1
    <3> QED
      BY <3>1, <3>2
  <2>4. sent'[Len(sent) + 1].seq <= counter'
    BY <1>4
  <2> QED
    BY <1>5, <2>3, <2>4
<1>8. ASSUME NEW p \in Places', NEW q \in Places', p < q
      PROVE  IF q \in Deltas' THEN sent'[p].seq <= sent'[q].seq
                              ELSE sent'[p].seq < sent'[q].seq
  <2>1. p \in Places
    BY <1>2, <1>5, <1>6, <1>8
  <2>2. CASE q \in Places
    <3>1. q \in Deltas' <=> q \in Deltas
      BY <1>3, <1>5, <2>2 DEF Deltas
    <3> QED
      BY <1>3, <1>8, <2>1, <2>2, <3>1 DEF Positions
  <2>3. CASE q = Len(sent) + 1
    <3>1. sent'[q] = new /\ sent'[p] = sent[p] /\ sent[p].seq <= counter
      BY <1>3, <1>4, <2>1, <2>3 DEF Positions
    <3>2. q \in Deltas' <=> kind \in Channels
      BY <1>5, <3>1 DEF Deltas
    <3>3. sent'[q].seq = n /\ sent[p].seq \in Nat
      BY <1>6, <2>1, <3>1
    <3>4. sent[p].seq <= n
      BY <1>1, <3>1, <3>3
    <3>5. CASE kind \in Channels
      BY <3>1, <3>2, <3>3, <3>4, <3>5
    <3>6. CASE kind \notin Channels
      <4>1. sent[p].seq < n
        BY <1>1, <3>1, <3>3, <3>6
      <4> QED
        BY <3>1, <3>2, <3>3, <3>6, <4>1
    <3> QED
      BY <3>5, <3>6
  <2> QED
    BY <1>5, <2>2, <2>3
<1> QED
  BY <1>2, <1>5, <1>7, <1>8 DEF Positions

LEMMA Enqueued ==
  ASSUME Types, Writing, stream \in Streams, NEW es \in Seq(LogEntry),
         Enqueue(stream, es)
  PROVE  chain' = [chain EXCEPT ![stream] = chain[stream] \o es]
BY DEF Types, Writing, Enqueue

\* What flushing all windows chains.
LEMMA FlushesAll ==
  ASSUME Types
  PROVE  /\ FlushAll \in Seq(LogEntry) /\ Len(FlushAll) = Len(window)
         /\ \A i \in 1..Len(window) :
              FlushAll[i].seq = counter + i /\ FlushAll[i].of = window[i].of
<1>1. window \in Seq(Window) /\ counter \in Nat /\ Len(window) \in Nat
  BY DEF Types
<1>2. \A i \in 1..Len(window) : window[i] \in Window
  BY <1>1
<1>3. \A i \in 1..Len(window) : [seq |-> counter + i, of |-> window[i].of] \in LogEntry
  BY <1>1, <1>2 DEF Window, LogEntry
<1>4. DOMAIN window = 1..Len(window)
  BY <1>1
<1> QED
  BY <1>1, <1>3, <1>4 DEF FlushAll

\* What removing a window leaves.
LEMMA Removing ==
  ASSUME NEW ws \in Seq(Window), NEW k \in 1..Len(ws)
  PROVE  /\ RemoveAt(ws, k) \in Seq(Window) /\ Len(RemoveAt(ws, k)) = Len(ws) - 1
         /\ \A j \in 1..(Len(ws) - 1) :
              RemoveAt(ws, k)[j] = IF j < k THEN ws[j] ELSE ws[j + 1]
<1> DEFINE front == SubSeq(ws, 1, k - 1)
           back == SubSeq(ws, k + 1, Len(ws))
           left == RemoveAt(ws, k)
<1>1. left = front \o back /\ Len(ws) \in Nat
  BY DEF RemoveAt
<1>2. /\ front \in Seq(Window) /\ Len(front) = k - 1
      /\ \A j \in 1..(k - 1) : front[j] = ws[j]
  OBVIOUS
<1>3. back \in Seq(Window) /\ Len(back) = Len(ws) - k
  OBVIOUS
<1>4. \A j \in 1..(Len(ws) - k) : back[j] = ws[k + j]
  OBVIOUS
<1> HIDE DEF front, back, left
<1>5. left \in Seq(Window) /\ Len(left) = Len(ws) - 1
  BY <1>1, <1>2, <1>3
<1>6. ASSUME NEW j \in 1..(Len(ws) - 1), j < k PROVE left[j] = ws[j]
  BY <1>1, <1>2, <1>3, <1>6
<1>7. ASSUME NEW j \in 1..(Len(ws) - 1), ~(j < k) PROVE left[j] = ws[j + 1]
  <2>1. j - (k - 1) \in 1..(Len(ws) - k) /\ k + (j - (k - 1)) = j + 1
    BY <1>1, <1>7
  <2>2. /\ j \in 1..(Len(front) + Len(back)) /\ ~(j <= Len(front))
        /\ j - Len(front) = j - (k - 1)
    BY <1>1, <1>2, <1>3, <1>7
  <2>3. left[j] = back[j - (k - 1)]
    BY <1>1, <1>2, <1>3, <2>2, ConcatProperties
  <2> QED
    BY <1>4, <2>1, <2>3
<1> QED
  BY <1>5, <1>6, <1>7 DEF left

\* Flushing one window moves what it holds into the chain.
LEMMA Flushes ==
  ASSUME Types, Writing, Ordered, stream \in Streams, NEW ws \in Seq(Window),
         NEW k \in DOMAIN ws, Flush(ws, k), UNCHANGED <<stream, log>>
  PROVE  /\ Ordered' /\ Reached' /\ counter' = counter + 1
         /\ window' \in Seq(Window) /\ chain' \in [Streams -> Seq(LogEntry)]
         /\ \A p : (Chained(p) \/ Windowed(p))'
                     <=> (Chained(p) \/ \E j \in 1..Len(ws) : p \in ws[j].of)
<1> DEFINE es == <<[seq |-> counter + 1, of |-> ws[k].of]>>
<1>1. k \in 1..Len(ws) /\ Len(ws) \in Nat /\ ws[k] \in Window /\ counter \in Nat
  BY DEF Types
<1>2. es \in Seq(LogEntry) /\ Len(es) = 1 /\ es[1].seq = counter + 1 /\ es[1].of = ws[k].of
  BY <1>1 DEF Window, LogEntry
<1>3. \A i \in 1..Len(es) : es[i].seq = counter + i
  BY <1>2
<1>4. counter' = counter + 1 /\ Enqueue(stream, es) /\ window' = RemoveAt(ws, k)
  BY DEF Flush
<1>5. chain' = [chain EXCEPT ![stream] = chain[stream] \o es]
  BY <1>2, <1>4, Enqueued
<1>6. /\ Ordered' /\ Reached' /\ chain' \in [Streams -> Seq(LogEntry)]
      /\ \A p : Chained(p)' <=> (Chained(p) \/ \E j \in 1..Len(es) : p \in es[j].of)
  <2>1. counter' = counter + Len(es) /\ Len(es) > 0
    BY <1>2, <1>4
  <2> HIDE DEF es
  <2> QED
    BY <1>2, <1>3, <1>5, <2>1, Chains
<1>7. /\ window' \in Seq(Window) /\ Len(window') = Len(ws) - 1
      /\ \A j \in 1..(Len(ws) - 1) : window'[j] = IF j < k THEN ws[j] ELSE ws[j + 1]
  BY <1>1, <1>4, Removing
<1>8. ASSUME NEW p
      PROVE  (\E j \in 1..Len(ws) : p \in ws[j].of) <=> (Windowed(p)' \/ p \in ws[k].of)
  <2>1. Windowed(p)' => \E j \in 1..Len(ws) : p \in ws[j].of
    <3> SUFFICES ASSUME NEW j \in 1..(Len(ws) - 1), p \in window'[j].of
                 PROVE  \E i \in 1..Len(ws) : p \in ws[i].of
      BY <1>7 DEF Windowed
    <3>1. j \in 1..Len(ws) /\ j + 1 \in 1..Len(ws)
      BY <1>1
    <3> QED
      BY <1>7, <3>1
  <2>2. ASSUME NEW j \in 1..Len(ws), p \in ws[j].of, j # k PROVE Windowed(p)'
    <3>1. CASE j < k
      <4>1. j \in 1..(Len(ws) - 1)
        BY <1>1, <3>1
      <4> QED
        BY <1>7, <2>2, <3>1, <4>1 DEF Windowed
    <3>2. CASE j > k
      <4>1. j - 1 \in 1..(Len(ws) - 1) /\ ~(j - 1 < k) /\ (j - 1) + 1 = j
        BY <1>1, <3>2
      <4>2. window'[j - 1] = ws[j]
        BY <1>7, <4>1
      <4> QED
        BY <1>7, <2>2, <4>1, <4>2 DEF Windowed
    <3> QED
      BY <1>1, <2>2, <3>1, <3>2
  <2> QED
    BY <1>1, <2>1, <2>2
<1>9. \A p : (\E j \in 1..Len(es) : p \in es[j].of) <=> p \in ws[k].of
  BY <1>2
<1> QED
  BY <1>4, <1>6, <1>7, <1>8, <1>9

\* A delta adds itself to what the windows hold.
LEMMA Collects ==
  ASSUME Types, NEW c \in Channels, NEW p \in Nat
  PROVE  /\ Collected(c, p) \in Seq(Window)
         /\ \A q : (\E k \in 1..Len(Collected(c, p)) : q \in Collected(c, p)[k].of)
                     <=> (Windowed(q) \/ q = p)
<1>1. window \in Seq(Window) /\ DOMAIN window = 1..Len(window) /\ Len(window) \in Nat
  BY DEF Types
<1>2. \A i \in 1..Len(window) : window[i] \in Window
  BY <1>1
<1>3. CASE \E i \in DOMAIN window : window[i].kind = c
  <2> DEFINE e(i) == IF window[i].kind = c THEN [kind |-> c, of |-> window[i].of \cup {p}]
                     ELSE window[i]
  <2>1. Collected(c, p) = [i \in 1..Len(window) |-> e(i)]
    BY <1>1, <1>3 DEF Collected
  <2>2. \A i \in 1..Len(window) : e(i) \in Window
    BY <1>2 DEF Window
  <2>3. \A i \in 1..Len(window) :
          e(i).of = IF window[i].kind = c THEN window[i].of \cup {p} ELSE window[i].of
    OBVIOUS
  <2> HIDE DEF e
  <2>4. Collected(c, p) \in Seq(Window) /\ Len(Collected(c, p)) = Len(window)
    BY <1>1, <2>1, <2>2
  <2>5. \A i \in 1..Len(window) : Collected(c, p)[i] = e(i)
    BY <2>1
  <2> QED
    BY <1>1, <1>3, <2>3, <2>4, <2>5 DEF Windowed
<1>4. CASE ~ \E i \in DOMAIN window : window[i].kind = c
  <2> DEFINE w == [kind |-> c, of |-> {p}]
  <2>1. Collected(c, p) = Append(window, w) /\ w \in Window /\ w.of = {p}
    BY <1>4 DEF Collected, Window
  <2> HIDE DEF w
  <2>2. Collected(c, p) \in Seq(Window) /\ Len(Collected(c, p)) = Len(window) + 1
    BY <1>1, <2>1
  <2>3. \A i \in 1..Len(window) : Collected(c, p)[i] = window[i]
    BY <1>1, <2>1
  <2>4. Collected(c, p)[Len(window) + 1] = w
    BY <1>1, <2>1
  <2>5. 1..(Len(window) + 1) = (1..Len(window)) \cup {Len(window) + 1}
    BY <1>1
  <2> QED
    BY <2>1, <2>2, <2>3, <2>4, <2>5 DEF Windowed
<1> QED
  BY <1>3, <1>4

-----------------------------------------------------------------------------
(* Every step of the writers that is not a fault keeps Good.               *)

LEMMA NextPlace ==
  ASSUME Types
  PROVE  /\ Len(sent) + 1 \in Nat /\ Len(sent) + 1 \notin Places
         /\ [seq |-> OwnSeq, of |-> {Len(sent) + 1}] \in LogEntry
         /\ OwnSeq = counter + (Len(window) + 1) /\ OwnSeq \in Nat /\ counter < OwnSeq
<1>1. Len(sent) \in Nat /\ Len(window) \in Nat /\ counter \in Nat
  BY DEF Types
<1> QED
  BY <1>1 DEF Places, OwnSeq, LogEntry

\* What a boundary crumb chains: the windows, then itself.
LEMMA Closing ==
  ASSUME Types, NEW es, es = WindowsFirst(Len(sent) + 1)
  PROVE  /\ es \in Seq(LogEntry) /\ Len(es) = Len(window) + 1
         /\ \A i \in 1..Len(es) : es[i].seq = counter + i
         /\ \A i \in 1..Len(window) : es[i].of = window[i].of
         /\ es[Len(window) + 1].of = {Len(sent) + 1}
         /\ es[Len(window) + 1].seq = OwnSeq
         /\ OwnSeq = counter + Len(es)
<1> DEFINE own == [seq |-> OwnSeq, of |-> {Len(sent) + 1}]
<1>1. Len(window) \in Nat /\ counter \in Nat
  BY DEF Types
<1>2. /\ own \in LogEntry /\ own.seq = counter + (Len(window) + 1)
      /\ own.of = {Len(sent) + 1} /\ own.seq = OwnSeq
  BY NextPlace
<1>3. es = Append(FlushAll, own)
  BY DEF WindowsFirst
<1> HIDE DEF own
<1>4. /\ es \in Seq(LogEntry) /\ Len(es) = Len(window) + 1
      /\ \A i \in 1..Len(window) : es[i] = FlushAll[i]
      /\ es[Len(window) + 1] = own
  <2>1. FlushAll \in Seq(LogEntry) /\ Len(FlushAll) = Len(window)
    BY FlushesAll
  <2> QED
    BY <1>1, <1>2, <1>3, <2>1
<1>5. \A i \in 1..Len(window) : es[i].seq = counter + i /\ es[i].of = window[i].of
  BY <1>4, FlushesAll
<1>6. \A i \in 1..Len(es) : i \in 1..Len(window) \/ i = Len(window) + 1
  BY <1>1, <1>4
<1> QED
  BY <1>1, <1>2, <1>4, <1>5, <1>6

LEMMA OnBoundary ==
  ASSUME Good, NEW kind \in Boundaries, Boundary(kind),
         stage' \in {"live", "asked", "ending"}
  PROVE  Good'
<1> DEFINE place == Len(sent) + 1
           es == WindowsFirst(place)
<1>1. Types /\ Writing /\ Ordered /\ Positions /\ Staged
  BY DEF Good
<1>2. stream \in Streams
  BY <1>1 DEF Boundary, Staged
<1>3. Len(window) \in Nat
  BY <1>1 DEF Types
<1>4. /\ es \in Seq(LogEntry) /\ Len(es) = Len(window) + 1
      /\ \A i \in 1..Len(es) : es[i].seq = counter + i
      /\ \A i \in 1..Len(window) : es[i].of = window[i].of
      /\ es[Len(window) + 1].of = {place} /\ OwnSeq = counter + Len(es)
  BY <1>1, Closing
<1> HIDE DEF es
<1>7. \A p : (\E i \in 1..Len(es) : p \in es[i].of) <=> (Windowed(p) \/ p = place)
  <2>1. 1..Len(es) = (1..Len(window)) \cup {Len(window) + 1}
    BY <1>3, <1>4
  <2> QED
    BY <1>4, <2>1 DEF Windowed
<1>8. /\ Enqueue(stream, es) /\ window' = <<>> /\ counter' = OwnSeq
      /\ Publish(kind, OwnSeq) /\ UNCHANGED <<stream, disabled, log>>
  BY DEF Boundary, es
<1>9. /\ Ordered' /\ Reached' /\ chain' \in [Streams -> Seq(LogEntry)]
      /\ \A p : Chained(p)' <=> (Chained(p) \/ \E j \in 1..Len(es) : p \in es[j].of)
  <2>1. counter' = counter + Len(es) /\ Len(es) > 0
    BY <1>3, <1>4, <1>8
  <2>2. chain' = [chain EXCEPT ![stream] = chain[stream] \o es]
    BY <1>1, <1>2, <1>4, <1>8, Enqueued
  <2> QED
    BY <1>1, <1>2, <1>4, <1>8, <2>1, <2>2, Chains
<1>10. /\ sent' \in Seq(Crumb) /\ Positions'
       /\ \A p : p \in Places' <=> (p \in Places \/ p = place)
  <2>1. OwnSeq \in Nat /\ counter < OwnSeq /\ counter <= OwnSeq /\ counter' = OwnSeq
    BY <1>1, <1>8, NextPlace DEF Types
  <2>2. OwnSeq <= counter' /\ counter' \in Nat
    BY <2>1
  <2> QED
    BY <1>1, <1>8, <2>1, <2>2, Publishes
<1>11. Types'
  BY <1>1, <1>8, <1>9, <1>10, NextPlace DEF Types
<1>12. \A p : ~Windowed(p)'
  BY <1>8 DEF Windowed
<1>13. \A p : p \in Places' <=> Carried(p)'
  BY <1>7, <1>8, <1>9, <1>10, <1>12 DEF Good, Carried, Logged
<1>14. Staged'
  BY <1>2, <1>8, <1>9 DEF Staged
<1> QED
  BY <1>1, <1>8, <1>9, <1>10, <1>11, <1>13, <1>14 DEF Good, Writing

LEMMA OnDelta ==
  ASSUME Good, NEW c \in Channels, Delta(c)
  PROVE  Good'
<1> DEFINE place == Len(sent) + 1
           ws == Collected(c, place)
<1>1. Types /\ Writing /\ Ordered /\ Positions /\ Staged
  BY DEF Good
<1>2. stage = "live" /\ stream \in Streams /\ Reached /\ ~disabled[stream]
  BY <1>1 DEF Delta, Staged, Writing
<1>3. /\ Publish(c, counter) /\ stage' = stage /\ counter \in Nat
      /\ UNCHANGED <<stream, disabled, log>>
  BY <1>1 DEF Delta, Types
<1>4. /\ ws \in Seq(Window)
      /\ \A q : (\E k \in 1..Len(ws) : q \in ws[k].of) <=> (Windowed(q) \/ q = place)
  BY <1>1, NextPlace, Collects
<1> HIDE DEF ws
<1>5. c \notin Boundaries
  BY ChannelAssumption
<1>6. SUFFICES
        /\ Ordered' /\ Reached' /\ chain' \in [Streams -> Seq(LogEntry)]
        /\ window' \in Seq(Window) /\ counter' \in Nat /\ counter <= counter'
        /\ \A p : (Chained(p) \/ Windowed(p))'
                    <=> (Chained(p) \/ \E k \in 1..Len(ws) : p \in ws[k].of)
  <2>1. /\ sent' \in Seq(Crumb) /\ Positions'
        /\ \A p : p \in Places' <=> (p \in Places \/ p = place)
    BY <1>1, <1>3, <1>5, <1>6, Publishes
  <2>2. Types'
    BY <1>1, <1>3, <1>6, <2>1 DEF Types
  <2>3. \A p : p \in Places' <=> Carried(p)'
    BY <1>3, <1>4, <1>6, <2>1 DEF Good, Carried, Logged
  <2>4. Staged'
    BY <1>2, <1>3, <1>6 DEF Staged
  <2> QED
    BY <1>1, <1>3, <1>6, <2>1, <2>2, <2>3, <2>4 DEF Good, Writing
<1>7. CASE window' = ws /\ UNCHANGED <<counter, chain>>
  <2>1. Ordered' /\ Reached'
    BY <1>1, <1>2, <1>3, <1>7 DEF Ordered, Reached, InLine
  <2>2. \A p : Chained(p)' <=> Chained(p)
    BY <1>7 DEF Chained
  <2>3. \A p : Windowed(p)' <=> \E k \in 1..Len(ws) : p \in ws[k].of
    BY <1>7 DEF Windowed
  <2> QED
    BY <1>1, <1>3, <1>4, <1>7, <2>1, <2>2, <2>3 DEF Types
<1>8. CASE \E i \in DOMAIN ws : ws[i].kind = c /\ Flush(ws, i)
  <2>1. PICK i \in DOMAIN ws : Flush(ws, i)
    BY <1>8
  <2>2. /\ Ordered' /\ Reached' /\ counter' = counter + 1
        /\ window' \in Seq(Window) /\ chain' \in [Streams -> Seq(LogEntry)]
        /\ \A p : (Chained(p) \/ Windowed(p))'
                    <=> (Chained(p) \/ \E j \in 1..Len(ws) : p \in ws[j].of)
    BY <1>1, <1>2, <1>3, <1>4, <2>1, Flushes
  <2> QED
    BY <1>3, <2>2
<1> QED
  BY <1>2, <1>7, <1>8 DEF Delta, ws

\* A counter that goes up alone keeps seqs below it.
LEMMA Raised ==
  ASSUME Types, Positions, UNCHANGED sent, counter' \in Nat, counter <= counter'
  PROVE  Positions'
<1>1. counter \in Nat /\ \A p \in Places : sent[p].seq \in Nat
  <2>1. \A p \in 1..Len(sent) : sent[p] \in Crumb
    BY DEF Types
  <2> QED
    BY <2>1 DEF Types, Crumb, Places
<1>2. \A p \in Places : sent[p].seq <= counter'
  BY <1>1 DEF Positions
<1> QED
  BY <1>2 DEF Positions, Places, Deltas

LEMMA OnTimer ==
  ASSUME Good, NEW i \in DOMAIN window, Timer(i)
  PROVE  Good'
<1>1. Types /\ Writing /\ Ordered /\ Positions /\ Staged /\ window \in Seq(Window)
  BY DEF Good, Types
<1>2. stage = "live" /\ stream \in Streams
  BY <1>1 DEF Timer, Staged
<1>3. Flush(window, i) /\ UNCHANGED <<sent, stage, stream, disabled, log>>
  BY DEF Timer
<1>4. /\ Ordered' /\ Reached' /\ counter' = counter + 1
      /\ window' \in Seq(Window) /\ chain' \in [Streams -> Seq(LogEntry)]
      /\ \A p : (Chained(p) \/ Windowed(p))'
                  <=> (Chained(p) \/ \E j \in 1..Len(window) : p \in window[j].of)
  BY <1>1, <1>2, <1>3, Flushes
<1>5. Types'
  BY <1>1, <1>3, <1>4 DEF Types
<1>6. Positions'
  <2>1. counter' \in Nat /\ counter <= counter'
    BY <1>1, <1>4 DEF Types
  <2> QED
    BY <1>1, <1>3, <2>1, Raised
<1>7. \A p : p \in Places' <=> Carried(p)'
  BY <1>3, <1>4 DEF Good, Carried, Logged, Windowed, Places
<1>8. Staged'
  BY <1>2, <1>3, <1>4 DEF Staged
<1> QED
  BY <1>1, <1>3, <1>4, <1>5, <1>6, <1>7, <1>8 DEF Good, Writing

LEMMA OnAbandon ==
  ASSUME Good, Abandon
  PROVE  Good'
<1>1. Types /\ Writing /\ Ordered /\ Positions /\ Staged
  BY DEF Good
<1>2. stage = "live" /\ stream \in Streams /\ Reached
  BY <1>1 DEF Abandon, Staged
<1>3. /\ FlushAll \in Seq(LogEntry) /\ Len(FlushAll) = Len(window)
      /\ \A i \in 1..Len(window) :
           FlushAll[i].seq = counter + i /\ FlushAll[i].of = window[i].of
  BY <1>1, FlushesAll
<1>4. /\ Enqueue(stream, FlushAll) /\ window' = <<>> /\ counter' = counter + Len(window)
      /\ stage' = "lost" /\ UNCHANGED <<sent, stream, disabled, log>>
  BY DEF Abandon
<1>5. /\ Ordered' /\ Reached' /\ chain' \in [Streams -> Seq(LogEntry)]
      /\ \A p : Chained(p)' <=>
           (Chained(p) \/ \E j \in 1..Len(FlushAll) : p \in FlushAll[j].of)
  <2>1. chain' = [chain EXCEPT ![stream] = chain[stream] \o FlushAll]
    BY <1>1, <1>2, <1>3, <1>4, Enqueued
  <2> QED
    BY <1>1, <1>2, <1>3, <1>4, <2>1, Chains
<1>6. counter \in Nat /\ Len(window) \in Nat
  BY <1>1 DEF Types
<1>7. Types'
  BY <1>1, <1>4, <1>5, <1>6 DEF Types
<1>8. Positions'
  <2>1. counter' \in Nat /\ counter <= counter'
    BY <1>4, <1>6
  <2> QED
    BY <1>1, <1>4, <2>1, Raised
<1>9. \A p : p \in Places' <=> Carried(p)'
  <2>1. \A p : Windowed(p) <=> \E j \in 1..Len(FlushAll) : p \in FlushAll[j].of
    BY <1>3 DEF Windowed
  <2>2. \A p : ~Windowed(p)'
    BY <1>4 DEF Windowed
  <2>3. Places' = Places /\ Logged' = Logged
    BY <1>4 DEF Places, Logged
  <2> QED
    BY <1>5, <2>1, <2>2, <2>3 DEF Good, Carried
<1>10. Staged'
  BY <1>2, <1>4, <1>5 DEF Staged
<1> QED
  BY <1>1, <1>4, <1>5, <1>7, <1>8, <1>9, <1>10 DEF Good, Writing

LEMMA OnClose ==
  ASSUME Good, Close
  PROVE  Good'
<1>1. Types /\ Writing /\ Ordered /\ Positions /\ Staged
  BY DEF Good
<1>2. /\ stage \in {"asked", "ending"} /\ stage' \in {"suspended", "ended"}
      /\ chain[stream] = <<>>
      /\ UNCHANGED <<sent, stream, counter, window, chain, disabled, log>>
  BY DEF Close, Awaited
<1>3. Types' /\ Positions' /\ Ordered' /\ (Reached => Reached')
  BY <1>1, <1>2 DEF Types, Positions, Places, Deltas, Ordered, InLine, Reached
<1>4. \A p : p \in Places' <=> Carried(p)'
  BY <1>2 DEF Good, Carried, Logged, Windowed, Chained, Places
<1>5. \A s \in Streams : chain[s] = <<>>
  BY <1>1, <1>2 DEF Ordered
<1>6. Staged'
  BY <1>1, <1>2, <1>3, <1>5 DEF Staged
<1> QED
  BY <1>1, <1>2, <1>3, <1>4, <1>6 DEF Good, Writing

\* The seed of a new writer is the last writer's counter.
LEMMA SeedIsCounter ==
  ASSUME Good, stage \in {"idle", "suspended"}
  PROVE  Seed = counter /\ \A s \in Streams : chain[s] = <<>>
<1>1. Types /\ Ordered /\ Staged
  BY DEF Good
<1>2. \A s \in Streams : chain[s] = <<>>
  BY <1>1 DEF Staged
<1>3. CASE stage = "idle"
  BY <1>1, <1>2, <1>3 DEF Staged, Seed, LastLogged
<1>4. CASE stage = "suspended"
  <2>1. stream \in Streams /\ Reached /\ Len(chain[stream]) = 0
    BY <1>1, <1>2, <1>4 DEF Staged
  <2>2. \E e \in log : e.seq = counter
    BY <2>1 DEF Reached
  <2>3. counter \in Nat /\ \A e \in log : e.seq \in Nat /\ e.seq <= counter
    BY <1>1 DEF Types, Ordered, LogEntry
  <2> DEFINE IsLast(n) == \A e \in log : e.seq <= n
  <2>4. counter \in {e.seq : e \in log} /\ IsLast(counter)
    BY <2>2, <2>3
  <2>5. \A n \in {e.seq : e \in log} : IsLast(n) => n = counter
    BY <2>2, <2>3
  <2>6. (CHOOSE n \in {e.seq : e \in log} : IsLast(n)) = counter
    <3> HIDE DEF IsLast
    <3> QED
      BY <2>4, <2>5
  <2>7. log # {}
    BY <2>2
  <2> QED
    BY <1>2, <2>6, <2>7 DEF Seed, LastLogged
<1> QED
  BY <1>3, <1>4

\* The first entry of a new writer, when nothing is underway.
LEMMA Starts ==
  ASSUME Types, Ordered, NEW s \in Streams, NEW own \in LogEntry, own.seq = counter + 1,
         \A t \in Streams : chain[t] = <<>>,
         chain' = [chain EXCEPT ![s] = <<own>>], stream' = s, counter' = counter + 1,
         UNCHANGED log
  PROVE  Ordered'
<1>1. counter \in Nat /\ \A e \in log : e.seq \in Nat /\ e.seq <= counter
  BY DEF Types, Ordered, LogEntry
<1>2. \A e \in log : e.seq <= counter' /\ e.seq < counter'
  BY <1>1
<1>3. /\ chain'[s] = <<own>> /\ \A t \in Streams : t # s => chain'[t] = <<>>
  BY DEF Types
<1>4. ASSUME NEW t \in Streams PROVE InLine(chain[t], counter)'
  <2>1. CASE t = s
    <3>1. 1..Len(chain'[t]) = {1} /\ chain'[t][1] = own
      BY <1>3, <2>1
    <3>2. \A i \in 1..Len(chain'[t]) :
            /\ chain'[t][i].seq = counter'
            /\ \A e \in log : e.seq < chain'[t][i].seq
            /\ \A j \in 1..Len(chain'[t]) : ~(i < j)
      BY <1>2, <3>1
    <3>3. counter' <= counter'
      BY <1>1
    <3> QED
      BY <3>2, <3>3 DEF InLine
  <2>2. CASE t # s
    <3>1. Len(chain'[t]) = 0
      BY <1>3, <2>2
    <3> QED
      BY <3>1 DEF InLine
  <2> QED
    BY <2>1, <2>2
<1> QED
  BY <1>2, <1>3, <1>4 DEF Ordered

LEMMA OnOpenStream ==
  ASSUME Good, OpenStream
  PROVE  Good'
<1> DEFINE place == Len(sent) + 1
           s == stream + 1
           own == [seq |-> counter + 1, of |-> {place}]
<1>1. Types /\ Writing /\ Ordered /\ Positions /\ Staged /\ counter \in Nat
  BY DEF Good, Types
<1>2. /\ stage \in {"idle", "suspended"} /\ Opens(counter, FALSE)
      /\ \A t \in Streams : chain[t] = <<>>
  BY SeedIsCounter DEF OpenStream
<1>3. /\ s \in Streams /\ stream' = s /\ stage' = "live" /\ counter' = counter + 1
      /\ disabled' = [disabled EXCEPT ![s] = FALSE]
      /\ chain' = [chain EXCEPT ![s] = <<own>>]
      /\ Publish("step", counter + 1) /\ UNCHANGED <<window, log>>
  BY <1>2 DEF Opens
<1>4. window = <<>>
  BY <1>1, <1>2 DEF Staged
<1>5. own \in LogEntry /\ own.seq = counter + 1 /\ own.of = {place} /\ place \in Nat
  BY <1>1, NextPlace DEF LogEntry
<1>6. /\ chain'[s] = <<own>> /\ Len(chain'[s]) = 1 /\ chain'[s][1] = own
      /\ \A t \in Streams : t # s => chain'[t] = <<>>
  BY <1>1, <1>2, <1>3 DEF Types
<1>7. /\ sent' \in Seq(Crumb) /\ Positions'
      /\ \A p : p \in Places' <=> (p \in Places \/ p = place)
  <2>1. "step" \in Channels \cup Boundaries /\ counter + 1 \in Nat
        /\ counter <= counter + 1 /\ counter < counter + 1
        /\ counter' \in Nat /\ counter + 1 <= counter'
    BY <1>1, <1>3 DEF Boundaries
  <2> QED
    BY <1>1, <1>3, <2>1, Publishes
<1>8. Types' /\ Writing'
  <2>1. chain' \in [Streams -> Seq(LogEntry)]
    <3> HIDE DEF own
    <3>1. <<own>> \in Seq(LogEntry)
      BY <1>5
    <3> QED
      BY <1>1, <1>3, <3>1 DEF Types
  <2>2. Writing'
    BY <1>1, <1>3 DEF Writing
  <2>3. stream' \in Nat /\ counter' \in Nat
    BY <1>1, <1>3 DEF Types
  <2>4. window' \in Seq(Window) /\ log' \subseteq LogEntry
    BY <1>1, <1>3 DEF Types
  <2> QED
    BY <1>7, <2>1, <2>2, <2>3, <2>4 DEF Types
<1>9. Ordered'
  <2> HIDE DEF own
  <2> QED
    BY <1>1, <1>2, <1>3, <1>5, Starts
<1>10. Reached'
  BY <1>3, <1>5, <1>6 DEF Reached
<1>11. ASSUME NEW p PROVE p \in Places' <=> Carried(p)'
  <2>1. ~Windowed(p) /\ ~Windowed(p)'
    BY <1>3, <1>4 DEF Windowed
  <2>2. ~Chained(p)
    BY <1>2 DEF Chained
  <2>3. Chained(p)' <=> p = place
    <3>1. \A t \in Streams : t # s => Len(chain'[t]) = 0
      BY <1>6
    <3> HIDE DEF s, own
    <3>2. \A t \in Streams : t # s => 1..Len(chain'[t]) = {}
      BY <3>1
    <3>3. 1..Len(chain'[s]) = {1}
      BY <1>6
    <3> QED
      BY <1>3, <1>5, <1>6, <3>2, <3>3 DEF Chained
  <2>4. Logged' = Logged
    BY <1>3 DEF Logged
  <2> QED
    BY <1>7, <2>1, <2>2, <2>3, <2>4 DEF Good, Carried
<1>12. Staged'
  BY <1>3, <1>10 DEF Staged
<1> QED
  BY <1>7, <1>8, <1>9, <1>11, <1>12 DEF Good

\* The first entry of a chain leaves it, for the log or not.
LEMMA Landing ==
  ASSUME Types, Ordered, NEW s \in Streams, chain[s] # <<>>,
         chain' = [chain EXCEPT ![s] = Tail(chain[s])],
         log' = log \/ log' = log \cup {Head(chain[s])}, UNCHANGED <<stream, counter>>
  PROVE  Ordered' /\ s = stream
<1> DEFINE old == chain[s]
           e == Head(old)
<1>1. s = stream
  BY DEF Ordered
<1>2. /\ old \in Seq(LogEntry) /\ Len(old) \in Nat /\ Len(old) > 0
      /\ e = old[1] /\ Len(Tail(old)) = Len(old) - 1
      /\ \A i \in 1..(Len(old) - 1) : Tail(old)[i] = old[i + 1]
  BY DEF Types
<1>3. chain'[s] = Tail(old) /\ \A t \in Streams : t # s => chain'[t] = chain[t]
  BY DEF Types
<1>4. \A i \in 1..Len(old) :
        /\ old[i].seq <= counter
        /\ \A d \in log : d.seq < old[i].seq
        /\ \A j \in 1..Len(old) : i < j => old[i].seq < old[j].seq
  BY DEF Ordered, InLine
<1>5. 1 \in 1..Len(old) /\ e.seq <= counter
  BY <1>2, <1>4
<1>6. \A d \in log' : d.seq <= counter'
  BY <1>5 DEF Ordered
<1>7. InLine(chain[s], counter)'
  <2>1. ASSUME NEW i \in 1..(Len(old) - 1)
        PROVE  /\ Tail(old)[i].seq <= counter
               /\ \A d \in log' : d.seq < Tail(old)[i].seq
               /\ \A j \in 1..(Len(old) - 1) : i < j => Tail(old)[i].seq < Tail(old)[j].seq
    <3>1. i + 1 \in 1..Len(old) /\ 1 < i + 1 /\ Tail(old)[i] = old[i + 1]
      BY <1>2
    <3>2. \A j \in 1..(Len(old) - 1) :
            i < j => j + 1 \in 1..Len(old) /\ i + 1 < j + 1 /\ Tail(old)[j] = old[j + 1]
      BY <1>2
    <3>3. e.seq < old[i + 1].seq
      BY <1>2, <1>4, <1>5, <3>1
    <3> QED
      BY <1>4, <3>1, <3>2, <3>3
  <2>2. Len(chain'[s]) = Len(old) - 1 /\ counter' = counter /\ chain'[s] = Tail(old)
    BY <1>2, <1>3
  <2> HIDE DEF old
  <2>3. \A i \in 1..Len(chain'[s]) :
          /\ chain'[s][i].seq <= counter'
          /\ \A d \in log' : d.seq < chain'[s][i].seq
          /\ \A j \in 1..Len(chain'[s]) : i < j => chain'[s][i].seq < chain'[s][j].seq
    BY <2>1, <2>2
  <2> QED
    BY <2>3 DEF InLine
<1>8. \A t \in Streams : t # stream' => chain'[t] = <<>>
  BY <1>1, <1>3 DEF Ordered
<1>9. \A t \in Streams : t # s => Len(chain'[t]) = 0
  BY <1>1, <1>8
<1>10. ASSUME NEW t \in Streams, t # s PROVE InLine(chain[t], counter)'
  BY <1>9, <1>10 DEF InLine
<1>11. \A t \in Streams : InLine(chain[t], counter)'
  BY <1>7, <1>10
<1> QED
  BY <1>1, <1>6, <1>8, <1>11 DEF Ordered

\* A write lands: nothing in the log has its seq.
LEMMA OnWrite ==
  ASSUME Good, NEW s \in Streams, Write(s)
  PROVE  Good'
<1> DEFINE old == chain[s]
           e == Head(old)
<1>1. Types /\ Writing /\ Ordered /\ Positions /\ Staged
  BY DEF Good
<1>2. /\ old # <<>> /\ chain' = [chain EXCEPT ![s] = Tail(old)]
      /\ UNCHANGED <<sent, stage, stream, counter, window>>
  BY DEF Write
<1>3. s = stream /\ stage \notin {"idle", "suspended", "ended"} /\ Reached
  BY <1>1, <1>2 DEF Ordered, Staged
<1>4. /\ old \in Seq(LogEntry) /\ Len(old) \in Nat /\ Len(old) > 0
      /\ e = old[1] /\ e \in LogEntry
      /\ Tail(old) \in Seq(LogEntry) /\ Len(Tail(old)) = Len(old) - 1
      /\ \A i \in 1..(Len(old) - 1) : Tail(old)[i] = old[i + 1]
  BY <1>1, <1>2 DEF Types
<1>5. /\ chain' \in [Streams -> Seq(LogEntry)] /\ chain'[s] = Tail(old)
      /\ \A t \in Streams : t # s => chain'[t] = chain[t]
  BY <1>1, <1>2, <1>4 DEF Types
<1>6. \A i \in 1..Len(old) :
        /\ old[i].seq <= counter
        /\ \A d \in log : d.seq < old[i].seq
        /\ \A j \in 1..Len(old) : i < j => old[i].seq < old[j].seq
  BY <1>1 DEF Ordered, InLine
<1>7. log \subseteq LogEntry /\ counter \in Nat /\ \A d \in log : d.seq \in Nat
  BY <1>1 DEF Types, LogEntry
<1>8. 1 \in 1..Len(old)
  BY <1>4
<1>9. e.seq <= counter /\ e.seq \in Nat /\ \A d \in log : d.seq < e.seq
  <2>1. e.seq \in Nat
    BY <1>4 DEF LogEntry
  <2>2. old[1].seq <= counter /\ \A d \in log : d.seq < old[1].seq
    BY <1>6, <1>8
  <2> QED
    BY <1>4, <2>1, <2>2
<1>10. ~ \E f \in log : f.seq = e.seq
  BY <1>7, <1>9
<1>11. log' = log \cup {e} /\ disabled' = disabled
  BY <1>10 DEF Write
<1>12. Types'
  BY <1>1, <1>2, <1>4, <1>5, <1>7, <1>11 DEF Types
<1>15. Ordered'
  BY <1>1, <1>2, <1>11, Landing
<1>16. \A i \in 1..Len(old) :
         old[i] \in log' \/ (i - 1 \in 1..(Len(old) - 1) /\ Tail(old)[i - 1] = old[i])
  <2> SUFFICES ASSUME NEW i \in 1..Len(old), i # 1
               PROVE  i - 1 \in 1..(Len(old) - 1) /\ Tail(old)[i - 1] = old[i]
    BY <1>4, <1>11
  <2>1. i - 1 \in 1..(Len(old) - 1) /\ (i - 1) + 1 = i
    BY <1>4
  <2> QED
    BY <1>4, <2>1
<1>17. Reached'
  <2>1. CASE \E d \in log : d.seq = counter
    BY <1>2, <1>11, <2>1 DEF Reached
  <2>2. CASE \E i \in 1..Len(old) : old[i].seq = counter
    <3>1. PICK i \in 1..Len(old) : old[i].seq = counter
      BY <2>2
    <3> QED
      BY <1>2, <1>3, <1>4, <1>5, <1>16, <3>1 DEF Reached
  <2> QED
    BY <1>3, <2>1, <2>2 DEF Reached
<1>18. ASSUME NEW p PROVE (p \in Logged \/ Chained(p)) <=> (p \in Logged' \/ Chained(p)')
  <2>1. p \in Logged' <=> p \in Logged \/ p \in e.of
    BY <1>11 DEF Logged
  <2>2. Chained(p) <=> \E i \in 1..Len(old) : p \in old[i].of
    <3>1. \A t \in Streams : t # s => Len(chain[t]) = 0
      BY <1>1, <1>3 DEF Ordered
    <3>2. \A t \in Streams : t # s => 1..Len(chain[t]) = {}
      BY <3>1
    <3> QED
      BY <3>2 DEF Chained
  <2>3. Chained(p)' <=> \E i \in 1..(Len(old) - 1) : p \in Tail(old)[i].of
    <3>1. \A t \in Streams : t # s => Len(chain'[t]) = 0
      BY <1>2, <1>3, <1>15 DEF Ordered
    <3>2. \A t \in Streams : t # s => 1..Len(chain'[t]) = {}
      BY <3>1
    <3> QED
      BY <1>4, <1>5, <3>2 DEF Chained
  <2>4. ASSUME NEW i \in 1..(Len(old) - 1)
        PROVE  i + 1 \in 1..Len(old) /\ Tail(old)[i] = old[i + 1]
    BY <1>4
  <2>5. (\E i \in 1..Len(old) : p \in old[i].of)
          <=> (p \in e.of \/ \E i \in 1..(Len(old) - 1) : p \in Tail(old)[i].of)
    <3>1. ASSUME NEW i \in 1..Len(old), p \in old[i].of, i # 1
          PROVE  \E j \in 1..(Len(old) - 1) : p \in Tail(old)[j].of
      <4>1. i - 1 \in 1..(Len(old) - 1) /\ (i - 1) + 1 = i
        BY <1>4, <3>1
      <4> QED
        BY <2>4, <3>1, <4>1
    <3> QED
      BY <1>4, <1>8, <2>4, <3>1
  <2> QED
    BY <2>1, <2>2, <2>3, <2>5
<1>19. \A p : p \in Places' <=> Carried(p)'
  <2>1. Places' = Places /\ \A p : Windowed(p)' <=> Windowed(p)
    BY <1>2 DEF Places, Windowed
  <2> QED
    BY <1>18, <2>1 DEF Good, Carried
<1>20. Positions' /\ Staged'
  BY <1>1, <1>2, <1>3, <1>17 DEF Positions, Places, Deltas, Staged
<1> QED
  BY <1>1, <1>11, <1>12, <1>15, <1>19, <1>20 DEF Good, Writing

-----------------------------------------------------------------------------

LEMMA InitiallyGood == Init => WriterInv
<1> SUFFICES ASSUME Init PROVE WriterInv
  OBVIOUS
<1>1. Types /\ Writing
  BY DEF Init, Types, Writing
<1>2. Places = {} /\ Logged = {}
  BY DEF Init, Places, Logged
<1>3. \A s \in Streams : chain[s] = <<>> /\ Len(chain[s]) = 0
  BY DEF Init
<1>4. \A p : ~Carried(p)
  BY <1>2, <1>3 DEF Init, Carried, Chained, Windowed
<1>5. Ordered
  BY <1>3 DEF Init, Ordered, InLine
<1>6. Positions /\ Staged
  BY <1>2, <1>3 DEF Init, Positions, Staged
<1> QED
  BY <1>1, <1>2, <1>4, <1>5, <1>6 DEF Init, WriterInv, Good

\* A step that leaves the writers and the log alone.
LEMMA NoWriter ==
  ASSUME Good, UNCHANGED <<writerVars, log>>
  PROVE  Good'
<1>1. UNCHANGED <<sent, stage, stream, counter, window, chain, disabled, log>>
  BY DEF writerVars
<1>2. Types' /\ Writing' /\ Positions' /\ Ordered' /\ Staged'
  BY <1>1 DEF Good, Types, Writing, Positions, Places, Deltas, Ordered, InLine, Staged, Reached
<1>3. \A p : p \in Places' <=> Carried(p)'
  BY <1>1 DEF Good, Carried, Logged, Chained, Windowed, Places
<1> QED
  BY <1>2, <1>3 DEF Good

LEMMA WriterSteps == WriterInv /\ [Next]_vars => WriterInv'
<1> SUFFICES ASSUME WriterInv, [Next]_vars PROVE WriterInv'
  OBVIOUS
<1>1. faults \in Nat
  BY DEF WriterInv
<1>2. CASE Fault
  BY <1>1, <1>2 DEF Fault, WriterInv
<1>3. faults' = faults /\ (Good => Good') => WriterInv'
  BY <1>1 DEF WriterInv
<1>4. CASE Writer
  <2>1. faults' = faults
    BY <1>4 DEF Writer, Step, Ask, End, Boundary, Close, Delta, Timer, Write, OpenStream,
      countVars
  <2>2. ASSUME Good PROVE Good'
    <3>1. CASE Step
      <4>1. stage = "live" /\ stage' = stage /\ Boundary("step")
        BY <3>1 DEF Step, Boundary
      <4> QED
        BY <2>2, <4>1, OnBoundary DEF Boundaries
    <3>2. CASE Ask
      BY <2>2, <3>2, OnBoundary DEF Ask, Boundaries
    <3>3. CASE End
      BY <2>2, <3>3, OnBoundary DEF End, Boundaries
    <3>4. CASE Close
      BY <2>2, <3>4, OnClose
    <3>5. ASSUME NEW c \in Channels, Delta(c) PROVE Good'
      BY <2>2, <3>5, OnDelta
    <3>6. ASSUME NEW i \in DOMAIN window, Timer(i) PROVE Good'
      BY <2>2, <3>6, OnTimer
    <3>7. ASSUME NEW s \in Streams, Write(s) PROVE Good'
      BY <2>2, <3>7, OnWrite
    <3>8. CASE OpenStream
      BY <2>2, <3>8, OnOpenStream
    <3> QED
      BY <1>4, <3>1, <3>2, <3>3, <3>4, <3>5, <3>6, <3>7, <3>8 DEF Writer
  <2> QED
    BY <1>3, <2>1, <2>2
<1>5. CASE Faulty
  <2>1. CASE Abandon
    <3>1. faults' = faults
      BY <2>1 DEF Abandon, countVars
    <3> QED
      BY <1>3, <2>1, <3>1, OnAbandon
  <2>2. CASE ~Abandon
    BY <1>2, <1>5, <2>2 DEF Faulty, Overtake, SeedFails, Crash, WriteFails
  <2> QED
    BY <2>1, <2>2
<1>6. CASE UNCHANGED <<writerVars, log>> /\ faults' = faults
  BY <1>3, <1>6, NoWriter
<1>7. ASSUME NEW r \in Readers, Reader(r) \/ DropInReplay(r) \/ DropLive(r)
      PROVE  UNCHANGED <<writerVars, log>> /\ faults' = faults
  <2>1. CASE Subscribe(r)
    BY <2>1 DEF Subscribe, countVars
  <2>2. CASE Refuse(r)
    BY <2>2 DEF Refuse, countVars
  <2>3. CASE ReplayAll(r)
    BY <2>3 DEF ReplayAll, Replay, countVars
  <2>4. CASE Deliver(r)
    BY <2>4 DEF Deliver, countVars
  <2>5. CASE DropInReplay(r)
    BY <2>5 DEF DropInReplay, Replay, Loses
  <2>6. CASE DropLive(r)
    BY <2>6 DEF DropLive, Loses
  <2> QED
    BY <1>7, <2>1, <2>2, <2>3, <2>4, <2>5, <2>6 DEF Reader
<1>8. CASE UNCHANGED vars
  BY <1>6, <1>8 DEF vars, countVars
<1> QED
  BY <1>4, <1>5, <1>6, <1>7, <1>8 DEF Next

\* While the store answers and the clients wait for a stream to end, seq is a
\* position over all streams of the run, whatever the channels and bounds.
\* (crumb-log.ts:110-132, 196-214; docs/http-api.md:10-11.)
THEOREM SeqAlways == Spec => []SeqIsPosition
<1>1. WriterInv => SeqIsPosition
  BY DEF WriterInv, Good, Positions, SeqIsPosition
<1> QED
  BY <1>1, InitiallyGood, WriterSteps, PTL DEF Spec

\* A stream that closed left every crumb it carried in the log, in an entry of
\* its own or in an aggregate. (crumb-log.ts:216-219; instance.ts:116-121.)
THEOREM LogAlways == Spec => []LogComplete
<1>1. WriterInv => LogComplete
  <2> SUFFICES ASSUME Good, stage \in {"suspended", "ended"} PROVE Logged = Places
    BY DEF WriterInv, LogComplete
  <2>1. window = <<>> /\ \A s \in Streams : chain[s] = <<>>
    BY DEF Good, Staged
  <2>2. \A p : ~Chained(p) /\ ~Windowed(p)
    BY <2>1 DEF Chained, Windowed
  <2> QED
    BY <2>2 DEF Good, Carried
<1> QED
  BY <1>1, InitiallyGood, WriterSteps, PTL DEF Spec
-----------------------------------------------------------------------------
(* The readers.                                                            *)
(*                                                                         *)
(* What follows holds with every fault.  A reader's frames come in the     *)
(* order of their numbers, whoever gave them out; and as long as no number *)
(* was given out again and no write was lost in front of one that landed,  *)
(* the number a reader goes on from says what it has got: all crumbs and   *)
(* all entries, written or still on their way, that are not above it.      *)

Chain(s) == {chain[s][i] : i \in 1..Len(chain[s])}
Entries == log \cup UNION {Chain(s) : s \in Streams}

\* An entry is a boundary crumb under its seq, or deltas.
Fits(e) ==
  \/ \E p \in Places \ Deltas : e.of = {p} /\ e.seq = sent[p].seq
  \/ e.of # {} /\ e.of \subseteq Deltas

Shapes ==
  /\ sent \in Seq(Crumb) /\ stream \in Nat /\ counter \in Nat
  /\ stage # "idle" => stream \in Streams
  /\ window \in Seq(Window) /\ chain \in [Streams -> Seq(LogEntry)]
  /\ log \subseteq LogEntry /\ IsFiniteSet(log)
  /\ log # {} => \E d \in log : \A e \in log : e.seq <= d.seq
  /\ pc \in [Readers -> {"off", "subscribed", "replayed", "live", "closed"}]
  /\ pending \in [Readers -> Seq(Nat)] /\ shown \in [Readers -> Seq(Nat)]
  /\ maxseq \in [Readers -> Nat] /\ lastid \in [Readers -> Nat]
  /\ text \in [Readers -> SUBSET Nat] /\ inflight \in [Readers -> SUBSET Nat]

WindowsFit ==
  /\ \A i \in 1..Len(window) : window[i].of # {} /\ window[i].of \subseteq Deltas
  /\ stage # "live" => window = <<>>
BoundariesCount == \A p \in Places \ Deltas : sent[p].seq > 0

\* A reader is shown boundary crumbs of growing numbers, up to the one it has
\* replayed or seen.
Growing(r) ==
  /\ \A i \in 1..Len(shown[r]) :
       shown[r][i] \in Places \ Deltas /\ sent[shown[r][i]].seq <= maxseq[r]
  /\ \A i, j \in 1..Len(shown[r]) : i < j => sent[shown[r][i]].seq < sent[shown[r][j]].seq
  /\ maxseq[r] <= lastid[r]
\* The frames it has yet to look at come in the order of their crumbs.
Queued(r) ==
  /\ \A i \in 1..Len(pending[r]) : pending[r][i] \in Places
  /\ \A i, j \in 1..Len(pending[r]) : i < j => pending[r][i] < pending[r][j]
  /\ pc[r] \in {"off", "replayed"} => pending[r] = <<>>
  /\ pc[r] = "subscribed" => route[r] = "stream"

Shown ==
  /\ Shapes /\ WindowsFit /\ BoundariesCount
  /\ \A e \in Entries : Fits(e)
  /\ \A r \in Readers : Growing(r) /\ Queued(r)

\* A boundary crumb that never will be logged.
Gone(p) == \A e \in Entries : p \notin e.of
Torn == \E p \in Places \ Deltas : Gone(p) /\ \E e \in log : e.seq > sent[p].seq

\* What the numbers say of the writers, as long as none was given out again.
\* No entry has the seq of a boundary crumb it does not hold.
Apart == \A e \in Entries : \A p \in Places \ Deltas : e.seq = sent[p].seq => p \in e.of
\* A stream that waits for an answer has published a boundary crumb last.
StagesKnow ==
  /\ stage \in {"asked", "suspended"} =>
       Len(sent) \in Places \ Deltas /\ counter = sent[Len(sent)].seq
  /\ stage = "idle" => sent = <<>> /\ counter = 0 /\ Entries = {}
\* The members of an entry come before the crumbs of greater numbers.
Numbered ==
  /\ Positions /\ Ordered /\ Apart
  /\ \A e \in Entries : \A p \in e.of : \A d \in Places : d < p => sent[d].seq < e.seq
  /\ StagesKnow

\* What the reader was sent or cannot get any more.
Got(r) == ToSet(shown[r]) \cup text[r] \cup inflight[r]
\* It has got all that its number is not below...
Underlined(r) ==
  /\ lastid[r] <= counter
  /\ \A p \in Places \ Deltas : sent[p].seq <= lastid[r] => p \in Got(r)
  /\ \A e \in Entries : e.seq <= lastid[r] => e.of \subseteq Got(r)
\* ... and, once it has replayed, all but the frames it has yet to look at.
Tailed(r) ==
  pc[r] \in {"replayed", "live"} =>
    /\ Places \subseteq Got(r) \cup ToSet(pending[r])
    /\ \A p \in Deltas : sent[p].seq < maxseq[r] => p \in Got(r)

MissInv ==
  /\ Shown
  /\ ~Reused => Numbered
  /\ ~Reused /\ ~Torn => \A r \in Readers : Underlined(r) /\ Tailed(r)

-----------------------------------------------------------------------------
(* One lemma per thing that a step of the writers does to what the readers *)
(* are told.                                                               *)

\* Crumbs stay as they are, and one may come.
Keeps ==
  /\ Places \subseteq Places'
  /\ \A p \in Places : sent'[p] = sent[p] /\ (p \in Deltas' <=> p \in Deltas)
  /\ \A p \in Places' :
       p \in Places \/ (p = Len(sent) + 1 /\ p \notin Places /\ \A q \in Places : q < p)
\* The new one is heard by who is subscribed.
Heard ==
  \A r \in Readers :
    \/ /\ pending'[r] = pending[r] /\ inflight'[r] = inflight[r]
       /\ Places' = Places \/ pc[r] \in {"off", "closed"}
    \/ /\ pc[r] \in {"subscribed", "live"} /\ Places' = Places \cup {Len(sent) + 1}
       /\ pending'[r] = Append(pending[r], Len(sent) + 1) /\ inflight'[r] = inflight[r]
    \/ /\ pc[r] = "replayed" /\ Places' = Places \cup {Len(sent) + 1}
       /\ pending'[r] = pending[r] /\ inflight'[r] = inflight[r] \cup {Len(sent) + 1}

LEMMA PlacesAreNumbers ==
  ASSUME Shapes
  PROVE  /\ Places \subseteq Nat /\ Deltas \subseteq Places /\ Places = 1..Len(sent)
         /\ Len(sent) \in Nat /\ \A p \in Places : sent[p] \in Crumb /\ sent[p].seq \in Nat
<1>1. sent \in Seq(Crumb) /\ Len(sent) \in Nat
  BY DEF Shapes
<1>2. \A p \in 1..Len(sent) : sent[p] \in Crumb
  BY <1>1
<1> QED
  BY <1>1, <1>2 DEF Places, Deltas, Crumb

LEMMA Publishing ==
  ASSUME Shapes, NEW kind \in Channels \cup Boundaries, NEW n \in Nat, Publish(kind, n)
  PROVE  /\ Keeps /\ Heard /\ sent' \in Seq(Crumb) /\ Len(sent') = Len(sent) + 1
         /\ pending' \in [Readers -> Seq(Nat)] /\ inflight' \in [Readers -> SUBSET Nat]
         /\ Places' = Places \cup {Len(sent) + 1}
         /\ sent'[Len(sent) + 1].seq = n
         /\ Len(sent) + 1 \in Deltas' <=> kind \in Channels
<1> DEFINE new == [kind |-> kind, seq |-> n]
           place == Len(sent) + 1
<1>1. new \in Crumb /\ sent \in Seq(Crumb) /\ sent' = Append(sent, new)
  BY DEF Shapes, Publish, Crumb
<1>2. /\ sent' \in Seq(Crumb) /\ Len(sent') = place /\ place \in Nat /\ Len(sent) \in Nat
      /\ sent'[place] = new /\ \A p \in 1..Len(sent) : sent'[p] = sent[p]
  BY <1>1
<1>3. /\ Places' = Places \cup {place} /\ place \notin Places
      /\ \A q \in Places : q < place
  BY <1>2 DEF Places
<1>4. \A p \in Places : sent'[p] = sent[p]
  BY <1>2 DEF Places
<1>5. \A p \in Places : p \in Deltas' <=> p \in Deltas
  BY <1>3, <1>4 DEF Deltas
<1>6. place \in Deltas' <=> kind \in Channels
  BY <1>2, <1>3 DEF Deltas
<1>7. Keeps
  BY <1>3, <1>4, <1>5 DEF Keeps
<1>8. \A r \in Readers :
        /\ pending'[r] = IF pc[r] \in {"subscribed", "live"} THEN Append(pending[r], place)
                         ELSE pending[r]
        /\ inflight'[r] = IF pc[r] = "replayed" THEN inflight[r] \cup {place}
                          ELSE inflight[r]
  BY DEF Publish
<1>9. pending' \in [Readers -> Seq(Nat)]
  <2>1. \A r \in Readers : pending[r] \in Seq(Nat) /\ Append(pending[r], place) \in Seq(Nat)
    BY <1>2 DEF Shapes
  <2> HIDE DEF place
  <2> QED
    BY <1>8, <2>1 DEF Publish
<1>10. inflight' \in [Readers -> SUBSET Nat]
  BY <1>2 DEF Shapes, Publish
<1> HIDE DEF place
<1>11. Heard
  BY <1>3, <1>8 DEF Heard, place, Shapes
<1> QED
  BY <1>2, <1>3, <1>6, <1>7, <1>9, <1>10, <1>11 DEF place

LEMMA Silent ==
  ASSUME Shapes, UNCHANGED <<sent, pending, inflight>>
  PROVE  Keeps /\ Heard /\ Places' = Places /\ Deltas' = Deltas
BY DEF Keeps, Heard, Places, Deltas

LEMMA StaysFit ==
  ASSUME Keeps, NEW e, Fits(e)
  PROVE  Fits(e)'
<1>1. \A p \in Places : p \in Places' /\ sent'[p] = sent[p] /\ (p \in Deltas' <=> p \in Deltas)
  BY DEF Keeps
<1>2. Deltas \subseteq Places
  BY DEF Deltas
<1> QED
  BY <1>1, <1>2 DEF Fits

\* The readers have been shown the same, and may have one frame more to look at.
LEMMA SameShown ==
  ASSUME Shapes, Shapes', Keeps, Heard, UNCHANGED <<route, pc, shown, maxseq, lastid>>,
         NEW r \in Readers, Growing(r), Queued(r)
  PROVE  Growing(r)' /\ Queued(r)'
<1>1. Growing(r)'
  BY DEF Growing, Keeps
<1>2. pending[r] \in Seq(Nat) /\ Len(pending[r]) \in Nat
  BY DEF Shapes
<1>3. CASE pending'[r] = pending[r]
  <2>1. pc'[r] = pc[r] /\ route'[r] = route[r] /\ Places \subseteq Places'
    BY DEF Keeps
  <2>2. \A i \in 1..Len(pending'[r]) : pending'[r][i] \in Places'
    BY <1>3, <2>1 DEF Queued
  <2>3. \A i, j \in 1..Len(pending'[r]) : i < j => pending'[r][i] < pending'[r][j]
    BY <1>3 DEF Queued
  <2>4. /\ pc'[r] \in {"off", "replayed"} => pending'[r] = <<>>
        /\ pc'[r] = "subscribed" => route'[r] = "stream"
    BY <1>3, <2>1 DEF Queued
  <2> QED
    BY <1>1, <2>2, <2>3, <2>4 DEF Queued
<1>4. CASE /\ pc[r] \in {"subscribed", "live"} /\ Places' = Places \cup {Len(sent) + 1}
           /\ pending'[r] = Append(pending[r], Len(sent) + 1)
  <2> DEFINE old == pending[r]
             place == Len(sent) + 1
             new == pending'[r]
  <2>1. place \in Nat /\ \A q \in Places : q < place /\ q \in Nat
    BY PlacesAreNumbers DEF Places
  <2>2. /\ Len(new) = Len(old) + 1 /\ new[Len(old) + 1] = place
        /\ \A i \in 1..Len(old) : new[i] = old[i]
    BY <1>2, <1>4, <2>1
  <2>3. /\ \A i \in 1..Len(old) : old[i] \in Places
        /\ \A i, j \in 1..Len(old) : i < j => old[i] < old[j]
    BY DEF Queued
  <2>4. Places \subseteq Places' /\ place \in Places'
    BY <1>4
  <2> HIDE DEF old, new, place
  <2>5. \A i \in 1..Len(new) : i \in 1..Len(old) \/ i = Len(old) + 1
    BY <1>2, <2>2 DEF old
  <2>6. \A i \in 1..Len(new) : new[i] \in Places'
    BY <2>2, <2>3, <2>4, <2>5
  <2>7. ASSUME NEW i \in 1..Len(new), NEW j \in 1..Len(new), i < j PROVE new[i] < new[j]
    <3>1. i \in 1..Len(old)
      BY <1>2, <2>2, <2>7 DEF old
    <3> QED
      BY <2>1, <2>2, <2>3, <2>5, <2>7, <3>1
  <2>8. pc'[r] = pc[r] /\ pc[r] \notin {"off", "replayed"} /\ route'[r] = route[r]
    BY <1>4
  <2>9. pc[r] = "subscribed" => route[r] = "stream"
    BY DEF Queued
  <2>10. /\ pc'[r] \in {"off", "replayed"} => pending'[r] = <<>>
         /\ pc'[r] = "subscribed" => route'[r] = "stream"
    BY <2>8, <2>9
  <2>11. \A i, j \in 1..Len(pending'[r]) : i < j => pending'[r][i] < pending'[r][j]
    BY <2>7 DEF new
  <2> QED
    BY <1>1, <2>6, <2>10, <2>11 DEF Queued, new
<1> QED
  BY <1>1, <1>3, <1>4 DEF Heard

\* What was shown stays in order, whatever the writers do.
LEMMA ShownKept ==
  ASSUME Shown, Shapes', WindowsFit', BoundariesCount', Keeps, Heard,
         \A e \in Entries' : e \in Entries \/ Fits(e)',
         UNCHANGED <<route, pc, shown, maxseq, lastid>>
  PROVE  Shown'
<1>1. \A e \in Entries' : Fits(e)'
  BY StaysFit DEF Shown
<1>2. \A r \in Readers : Growing(r)' /\ Queued(r)'
  BY SameShown DEF Shown
<1> QED
  BY <1>1, <1>2 DEF Shown

\* Numbers given out again, and writes lost in between, stay so.
LEMMA ReusedStays ==
  ASSUME Keeps, Reused
  PROVE  Reused'
BY DEF Keeps, Reused, Deltas

LEMMA TornStays ==
  ASSUME Torn, Keeps, log \subseteq log',
         \A e \in Entries' : e \in Entries \/ (\A p \in e.of : p \in Deltas \/ p \notin Places)
  PROVE  Torn'
<1>1. PICK p \in Places \ Deltas : Gone(p) /\ \E e \in log : e.seq > sent[p].seq
  BY DEF Torn
<1>2. p \in Places' \ Deltas' /\ sent'[p] = sent[p]
  BY DEF Keeps
<1>3. \A e \in Entries' : p \notin e.of
  BY <1>1 DEF Gone
<1> QED
  BY <1>1, <1>2, <1>3 DEF Torn, Gone

\* New entries take numbers above all there are, so their members do.
LEMMA MembersBelow ==
  ASSUME Shown, Numbered, Shapes', Keeps,
         \A e \in Entries' : e \in Entries \/ (e.seq > counter /\ e.seq \in Nat /\ Fits(e)')
  PROVE  (\A e \in Entries : \A p \in e.of : \A d \in Places : d < p => sent[d].seq < e.seq)'
<1> SUFFICES ASSUME NEW e \in Entries', NEW p \in e.of, NEW d \in Places', d < p
             PROVE  sent'[d].seq < e.seq
  OBVIOUS
<1>1. Shapes /\ Positions
  BY DEF Shown, Numbered
<1>2. Fits(e)'
  BY StaysFit DEF Shown
<1>3. p \in Places' /\ Places' \subseteq Nat /\ Places \subseteq Nat
  <2>1. p \in Places'
    BY <1>2 DEF Fits, Deltas
  <2>2. Places' \subseteq Nat
    BY DEF Shapes, Places
  <2> QED
    BY <1>1, <2>1, <2>2, PlacesAreNumbers
<1>4. d \in Places
  BY <1>1, <1>3, PlacesAreNumbers DEF Keeps
<1>5. sent'[d] = sent[d] /\ sent[d].seq \in Nat /\ sent[d].seq <= counter /\ counter \in Nat
  BY <1>1, <1>4, PlacesAreNumbers DEF Keeps, Positions, Shapes
<1>6. CASE e \in Entries
  BY <1>4, <1>5, <1>6 DEF Numbered
<1>7. CASE e.seq > counter /\ e.seq \in Nat
  BY <1>5, <1>7
<1> QED
  BY <1>6, <1>7

\* What a reader has got up to its number, the writers do not change.
LEMMA ReadersKept ==
  ASSUME Shown, Shapes', Keeps, Heard, counter <= counter',
         \A p \in Places' \ Places :
           counter <= sent'[p].seq /\ (p \notin Deltas' => counter < sent'[p].seq),
         \A e \in Entries' : e \in Entries \/ (e.seq > counter /\ e.seq \in Nat),
         UNCHANGED <<route, pc, shown, maxseq, lastid, text>>,
         NEW r \in Readers, Underlined(r), Tailed(r)
  PROVE  Underlined(r)' /\ Tailed(r)'
<1>1. /\ Shapes /\ lastid[r] \in Nat /\ counter \in Nat /\ counter' \in Nat /\ maxseq[r] \in Nat
      /\ lastid[r] <= counter /\ maxseq[r] <= lastid[r]
  BY DEF Shown, Shapes, Underlined, Growing
<1>2. Got(r) \subseteq Got(r)'
  BY DEF Got, Heard
<1>3. \A p \in Places' \ Places : sent'[p].seq \in Nat
  <2>1. \A p \in 1..Len(sent') : sent'[p] \in Crumb
    BY DEF Shapes
  <2> QED
    BY <2>1 DEF Places, Crumb
<1>4. \A p \in Places' \ Deltas' : sent'[p].seq <= lastid[r] => p \in Got(r)'
  <2> SUFFICES ASSUME NEW p \in Places' \ Deltas', sent'[p].seq <= lastid[r]
               PROVE  p \in Got(r)'
    OBVIOUS
  <2>1. CASE p \in Places
    BY <1>2, <2>1 DEF Keeps, Underlined
  <2>2. CASE p \notin Places
    BY <1>1, <1>3, <2>2
  <2> QED
    BY <2>1, <2>2
<1>5. \A e \in Entries' : e.seq <= lastid[r] => e.of \subseteq Got(r)'
  BY <1>1, <1>2 DEF Underlined
<1>6. Underlined(r)'
  BY <1>1, <1>4, <1>5 DEF Underlined
<1>7. ASSUME pc[r] \in {"replayed", "live"}
      PROVE  /\ Places' \subseteq Got(r)' \cup ToSet(pending'[r])
             /\ \A p \in Deltas' : sent'[p].seq < maxseq[r] => p \in Got(r)'
  <2>1. Places \subseteq Got(r) \cup ToSet(pending[r])
    BY <1>7 DEF Tailed
  <2>2. ToSet(pending[r]) \subseteq ToSet(pending'[r])
    <3>1. CASE pending'[r] = pending[r]
      BY <3>1
    <3>2. CASE pending'[r] = Append(pending[r], Len(sent) + 1)
      <4>1. pending[r] \in Seq(Nat) /\ Len(sent) + 1 \in Nat
        BY <1>1, PlacesAreNumbers DEF Shapes
      <4>2. \A i \in DOMAIN pending[r] :
              i \in DOMAIN pending'[r] /\ pending'[r][i] = pending[r][i]
        BY <3>2, <4>1
      <4> QED
        BY <4>2 DEF ToSet
    <3> QED
      BY <3>1, <3>2 DEF Heard
  <2>3. ASSUME Places' = Places \cup {Len(sent) + 1}, Places' # Places
        PROVE  Len(sent) + 1 \in Got(r)' \cup ToSet(pending'[r])
    <3>1. CASE pending'[r] = Append(pending[r], Len(sent) + 1)
      <4>1. pending[r] \in Seq(Nat) /\ Len(sent) + 1 \in Nat
        BY <1>1, PlacesAreNumbers DEF Shapes
      <4>2. Len(pending[r]) + 1 \in DOMAIN pending'[r]
            /\ pending'[r][Len(pending[r]) + 1] = Len(sent) + 1
        BY <3>1, <4>1
      <4> QED
        BY <4>2 DEF ToSet
    <3>2. CASE inflight'[r] = inflight[r] \cup {Len(sent) + 1}
      BY <3>2 DEF Got
    <3> QED
      BY <1>7, <2>3, <3>1, <3>2 DEF Heard
  <2>4. Places' \subseteq Got(r)' \cup ToSet(pending'[r])
    BY <1>2, <1>7, <2>1, <2>2, <2>3 DEF Heard
  <2>5. \A p \in Deltas' : sent'[p].seq < maxseq[r] => p \in Got(r)'
    <3> SUFFICES ASSUME NEW p \in Deltas', sent'[p].seq < maxseq[r] PROVE p \in Got(r)'
      OBVIOUS
    <3>1. p \in Places'
      BY DEF Deltas
    <3>2. CASE p \in Places
      BY <1>2, <1>7, <3>2 DEF Keeps, Tailed
    <3>3. CASE p \notin Places
      BY <1>1, <1>3, <3>1, <3>3
    <3> QED
      BY <3>2, <3>3
  <2> QED
    BY <2>4, <2>5
<1>8. Tailed(r)'
  BY <1>7 DEF Tailed
<1> QED
  BY <1>6, <1>8

\* What every step of the writers tells the readers: each new entry is a
\* boundary crumb or deltas, and holds no boundary crumb published before.
Tells ==
  /\ Shapes' /\ WindowsFit' /\ BoundariesCount' /\ Keeps /\ Heard /\ log \subseteq log'
  /\ \A e \in Entries' :
       e \in Entries \/ (Fits(e)' /\ \A p \in e.of : p \in Deltas \/ p \notin Places)
  /\ UNCHANGED <<route, pc, shown, maxseq, lastid, text>>

\* New numbers are above the counter; a delta may carry the counter itself.
Raises ==
  /\ counter <= counter'
  /\ \A p \in Places' \ Places :
       counter <= sent'[p].seq /\ (p \notin Deltas' => counter < sent'[p].seq)
  /\ \A e \in Entries' : e \in Entries \/ (e.seq > counter /\ e.seq \in Nat)

Counts == Raises /\ Positions' /\ Ordered' /\ Apart' /\ StagesKnow'

LEMMA ShapesAreTypes == Shapes => Types
BY DEF Shapes, Types

LEMMA CounterBounds ==
  ASSUME Shapes, Ordered
  PROVE  \A e \in Entries : e.seq <= counter /\ e.seq \in Nat
<1>1. \A e \in log : e.seq <= counter /\ e.seq \in Nat
  BY DEF Shapes, Ordered, LogEntry
<1>2. ASSUME NEW s \in Streams, NEW i \in 1..Len(chain[s])
      PROVE  chain[s][i].seq <= counter /\ chain[s][i].seq \in Nat
  <2>1. \A j \in 1..Len(chain[s]) : chain[s][j] \in LogEntry
    BY DEF Shapes
  <2>2. \A j \in 1..Len(chain[s]) : chain[s][j].seq <= counter
    BY DEF Ordered, InLine
  <2> QED
    BY <2>1, <2>2 DEF LogEntry
<1> QED
  BY <1>1, <1>2 DEF Entries, Chain

\* A new entry and a new boundary crumb have numbers of their own.
LEMMA ApartStays ==
  ASSUME Shown, Positions, Ordered, Apart, Keeps, Raises,
         \A e \in Entries' \ Entries : \A p \in Places' \ Places :
           p \notin Deltas' /\ e.seq = sent'[p].seq => p \in e.of
  PROVE  Apart'
<1> SUFFICES ASSUME NEW e \in Entries', NEW p \in Places' \ Deltas', e.seq = sent'[p].seq
             PROVE  p \in e.of
  BY DEF Apart
<1>1. Shapes
  BY DEF Shown
<1>2. CASE p \in Places
  <2>1. p \in Places \ Deltas /\ sent'[p] = sent[p]
    BY <1>2 DEF Keeps
  <2>2. sent[p].seq <= counter /\ sent[p].seq \in Nat /\ counter \in Nat
    BY <1>1, <1>2, PlacesAreNumbers DEF Positions, Shapes
  <2>3. e \in Entries
    BY <2>1, <2>2 DEF Raises
  <2> QED
    BY <2>1, <2>3 DEF Apart
<1>3. CASE p \notin Places /\ e \in Entries
  <2>1. e.seq <= counter /\ e.seq \in Nat /\ counter \in Nat
    BY <1>1, <1>3, CounterBounds DEF Shapes
  <2>2. counter < sent'[p].seq
    BY <1>3 DEF Raises
  <2> QED
    BY <2>1, <2>2
<1> QED
  BY <1>2, <1>3

\* With that a step of the writers keeps all the readers rely on.
LEMMA WriterKeeps ==
  ASSUME MissInv, Tells, Numbered /\ ~Reused' => Counts
  PROVE  MissInv'
<1>1. Shown /\ Shapes /\ Shapes' /\ Keeps /\ Heard
  BY DEF MissInv, Shown, Tells
<1>2. Shown'
  BY <1>1, ShownKept DEF Tells
<1>3. ASSUME ~Reused' PROVE Numbered /\ Numbered' /\ Raises
  <2>1. ~Reused
    BY <1>1, <1>3, ReusedStays
  <2>2. Numbered /\ Counts
    BY <1>3, <2>1 DEF MissInv
  <2>3. \A e \in Entries' : e \in Entries \/ (e.seq > counter /\ e.seq \in Nat /\ Fits(e)')
    BY <2>2 DEF Counts, Raises, Tells
  <2>4. (\A e \in Entries : \A p \in e.of : \A d \in Places : d < p => sent[d].seq < e.seq)'
    BY <1>1, <2>2, <2>3, MembersBelow
  <2> QED
    BY <2>2, <2>4 DEF Counts, Numbered
<1>4. ASSUME ~Reused', ~Torn', NEW r \in Readers PROVE Underlined(r)' /\ Tailed(r)'
  <2>1. ~Reused
    BY <1>1, <1>4, ReusedStays
  <2>2. ~Torn
    BY <1>1, <1>4, TornStays DEF Tells
  <2>3. Underlined(r) /\ Tailed(r)
    BY <2>1, <2>2 DEF MissInv
  <2>4. Raises
    BY <1>3, <1>4
  <2> QED
    BY <1>1, <2>3, <2>4, ReadersKept DEF Tells, Raises
<1> QED
  BY <1>2, <1>3, <1>4 DEF MissInv

-----------------------------------------------------------------------------
(* The steps of the writers.                                               *)

\* Chaining entries adds them and nothing else.
LEMMA Enqueues ==
  ASSUME Shapes, stream \in Streams, NEW es \in Seq(LogEntry), Enqueue(stream, es),
         UNCHANGED log
  PROVE  /\ chain' \in [Streams -> Seq(LogEntry)]
         /\ \A e \in Entries' : e \in Entries \/ \E i \in 1..Len(es) : e = es[i]
<1>1. /\ chain[stream] \in Seq(LogEntry)
      /\ chain'[stream] = chain[stream] \/ chain'[stream] = chain[stream] \o es
      /\ \A s \in Streams : s # stream => chain'[s] = chain[s]
  BY DEF Shapes, Enqueue
<1>2. chain' \in [Streams -> Seq(LogEntry)]
  <2>1. chain[stream] \o es \in Seq(LogEntry)
    BY <1>1
  <2> QED
    BY <2>1 DEF Shapes, Enqueue
<1>3. ASSUME NEW s \in Streams, NEW i \in 1..Len(chain'[s])
      PROVE  chain'[s][i] \in Chain(s) \/ \E j \in 1..Len(es) : chain'[s][i] = es[j]
  <2>1. CASE chain'[s] = chain[s]
    BY <2>1 DEF Chain
  <2>2. CASE s = stream /\ chain'[s] = chain[s] \o es
    <3> DEFINE old == chain[stream]
    <3>1. old \in Seq(LogEntry) /\ Len(old) \in Nat /\ Len(es) \in Nat
      BY <1>1
    <3> HIDE DEF old
    <3>2. Len(old \o es) = Len(old) + Len(es)
      BY <3>1
    <3>3. i \in 1..(Len(old) + Len(es)) /\ chain'[s][i] = (old \o es)[i]
      BY <2>2, <3>2 DEF old
    <3>4. CASE i <= Len(old)
      <4>1. i \in 1..Len(old) /\ (old \o es)[i] = old[i]
        BY <3>1, <3>3, <3>4
      <4> QED
        BY <2>2, <3>3, <4>1 DEF Chain, old
    <3>5. CASE i > Len(old)
      <4>1. i - Len(old) \in 1..Len(es) /\ (old \o es)[i] = es[i - Len(old)]
        BY <3>1, <3>3, <3>5
      <4> QED
        BY <3>3, <4>1
    <3> QED
      BY <3>1, <3>3, <3>4, <3>5
  <2> QED
    BY <1>1, <2>1, <2>2
<1>4. ASSUME NEW e \in Entries' PROVE e \in Entries \/ \E i \in 1..Len(es) : e = es[i]
  <2>1. e \in log \/ \E s \in Streams : e \in Chain(s)'
    BY DEF Entries
  <2>2. CASE e \in log
    BY <2>2 DEF Entries
  <2>3. ASSUME NEW s \in Streams, e \in Chain(s)'
        PROVE  e \in Entries \/ \E i \in 1..Len(es) : e = es[i]
    <3>1. PICK i \in 1..Len(chain'[s]) : e = chain'[s][i]
      BY <2>3 DEF Chain
    <3>2. e \in Chain(s) => e \in Entries
      BY DEF Entries
    <3> QED
      BY <1>3, <3>1, <3>2
  <2> QED
    BY <2>1, <2>2, <2>3
<1> QED
  BY <1>2, <1>4

\* Chained with the counter's next numbers they are in line.
LEMMA InLineStill ==
  ASSUME Shapes, Ordered, stream \in Streams, NEW es \in Seq(LogEntry),
         \A i \in 1..Len(es) : es[i].seq = counter + i,
         Enqueue(stream, es), counter' = counter + Len(es), UNCHANGED <<stream, log>>
  PROVE  Ordered'
<1>1. Types /\ counter \in Nat /\ Len(es) \in Nat
  BY ShapesAreTypes DEF Types
<1>2. chain' = chain \/ chain' = [chain EXCEPT ![stream] = chain[stream] \o es]
  BY DEF Shapes, Enqueue
<1>3. CASE Len(es) > 0 /\ chain' = [chain EXCEPT ![stream] = chain[stream] \o es]
  BY <1>1, <1>3, Chains
<1>4. CASE chain' = chain
  <2>1. counter <= counter'
    BY <1>1
  <2>2. \A e \in log : e.seq <= counter'
    BY <1>1, <2>1, CounterBounds DEF Entries
  <2>3. ASSUME NEW s \in Streams PROVE InLine(chain[s], counter)'
    <3>1. \A i \in 1..Len(chain[s]) : chain[s][i].seq <= counter'
      <4>1. \A i \in 1..Len(chain[s]) : chain[s][i] \in Entries
        BY DEF Entries, Chain
      <4> QED
        BY <1>1, <2>1, <4>1, CounterBounds
    <3> QED
      BY <1>4, <3>1 DEF Ordered, InLine
  <2> QED
    BY <1>4, <2>2, <2>3 DEF Ordered
<1>5. CASE Len(es) = 0 /\ chain' = [chain EXCEPT ![stream] = chain[stream] \o es]
  <2>1. es = <<>> /\ chain[stream] \in Seq(LogEntry)
    BY <1>5 DEF Shapes
  <2>2. chain[stream] \o es = chain[stream]
    BY <2>1
  <2>3. chain' = chain
    BY <1>5, <2>2 DEF Shapes
  <2> QED
    BY <1>4, <2>3
<1> QED
  BY <1>1, <1>2, <1>3, <1>4, <1>5

\* Flushing one window chains one entry with what the window held.
LEMMA FlushesOne ==
  ASSUME Shapes, stream \in Streams, NEW ws \in Seq(Window), NEW k \in DOMAIN ws,
         Flush(ws, k), UNCHANGED <<stream, log>>
  PROVE  /\ window' \in Seq(Window) /\ chain' \in [Streams -> Seq(LogEntry)]
         /\ \A j \in 1..Len(window') : \E i \in 1..Len(ws) : window'[j] = ws[i]
         /\ \A e \in Entries' : e \in Entries \/ (e.seq = counter + 1 /\ e.of = ws[k].of)
         /\ counter' = counter + 1 /\ k \in 1..Len(ws)
         /\ Ordered => Ordered'
<1> DEFINE es == <<[seq |-> counter + 1, of |-> ws[k].of]>>
<1>1. k \in 1..Len(ws) /\ Len(ws) \in Nat /\ ws[k] \in Window /\ counter \in Nat
  BY DEF Shapes
<1>2. es \in Seq(LogEntry) /\ Len(es) = 1 /\ es[1].seq = counter + 1 /\ es[1].of = ws[k].of
  BY <1>1 DEF Window, LogEntry
<1>3. \A i \in 1..Len(es) : i = 1
  BY <1>2
<1>4. counter' = counter + 1 /\ Enqueue(stream, es) /\ window' = RemoveAt(ws, k)
  BY DEF Flush
<1> HIDE DEF es
<1>5. /\ chain' \in [Streams -> Seq(LogEntry)]
      /\ \A e \in Entries' : e \in Entries \/ \E i \in 1..Len(es) : e = es[i]
  BY <1>2, <1>4, Enqueues
<1>6. Ordered => Ordered'
  <2>1. \A i \in 1..Len(es) : es[i].seq = counter + i
    BY <1>2, <1>3
  <2>2. counter' = counter + Len(es)
    BY <1>2, <1>4
  <2> QED
    BY <1>2, <1>4, <2>1, <2>2, InLineStill
<1>7. window' \in Seq(Window) /\ \A j \in 1..Len(window') : \E i \in 1..Len(ws) : window'[j] = ws[i]
  <2>1. /\ window' \in Seq(Window) /\ Len(window') = Len(ws) - 1
        /\ \A j \in 1..(Len(ws) - 1) : window'[j] = IF j < k THEN ws[j] ELSE ws[j + 1]
    BY <1>1, <1>4, Removing
  <2>2. \A j \in 1..(Len(ws) - 1) : j \in 1..Len(ws) /\ j + 1 \in 1..Len(ws)
    BY <1>1
  <2> QED
    BY <2>1, <2>2
<1> QED
  BY <1>1, <1>2, <1>3, <1>4, <1>5, <1>6, <1>7

\* Boundary crumbs go on having positive numbers.
LEMMA CountsOn ==
  ASSUME BoundariesCount, Keeps, \A p \in Places' \ Places : p \in Deltas' \/ sent'[p].seq > 0
  PROVE  BoundariesCount'
BY DEF BoundariesCount, Keeps

LEMMA TellsOnBoundary ==
  ASSUME Shown, NEW kind \in Boundaries, Boundary(kind),
         \/ kind = "step" /\ stage' = "live"
         \/ kind = "ask" /\ stage' = "asked"
         \/ kind = "end" /\ stage' = "ending"
  PROVE  Tells /\ (Numbered => Counts)
<1> DEFINE place == Len(sent) + 1
<1>0. PICK es : es = WindowsFirst(place)
  OBVIOUS
<1>1. Shapes /\ Types /\ WindowsFit /\ BoundariesCount
  BY ShapesAreTypes DEF Shown
<1>2. stream \in Streams /\ counter \in Nat /\ Len(window) \in Nat
  BY <1>1 DEF Shapes, Boundary
<1>3. /\ es \in Seq(LogEntry) /\ Len(es) = Len(window) + 1
      /\ \A i \in 1..Len(es) : es[i].seq = counter + i
      /\ \A i \in 1..Len(window) : es[i].of = window[i].of
      /\ es[Len(window) + 1].of = {place} /\ es[Len(window) + 1].seq = OwnSeq
      /\ OwnSeq = counter + Len(es)
  BY <1>0, <1>1, Closing
<1>4. /\ Enqueue(stream, es) /\ window' = <<>> /\ counter' = OwnSeq
      /\ Publish(kind, OwnSeq)
      /\ UNCHANGED <<stream, log, route, pc, maxseq, lastid, shown, text>>
  BY <1>0 DEF Boundary
<1>5. OwnSeq \in Nat /\ OwnSeq > counter /\ OwnSeq > 0 /\ kind \in Channels \cup Boundaries
      /\ kind \notin Channels
  BY <1>2, <1>3, ChannelAssumption
<1>6. /\ Keeps /\ Heard /\ sent' \in Seq(Crumb) /\ Len(sent') = place
      /\ pending' \in [Readers -> Seq(Nat)] /\ inflight' \in [Readers -> SUBSET Nat]
      /\ Places' = Places \cup {place} /\ sent'[place].seq = OwnSeq /\ place \notin Deltas'
  BY <1>1, <1>4, <1>5, Publishing
<1>7. /\ chain' \in [Streams -> Seq(LogEntry)]
      /\ \A e \in Entries' : e \in Entries \/ \E i \in 1..Len(es) : e = es[i]
  BY <1>1, <1>2, <1>3, <1>4, Enqueues
<1>8. Shapes'
  BY <1>1, <1>2, <1>4, <1>5, <1>6, <1>7 DEF Shapes
<1>9. WindowsFit' /\ BoundariesCount'
  <2>1. WindowsFit'
    BY <1>4 DEF WindowsFit
  <2> QED
    BY <1>1, <1>5, <1>6, <2>1, CountsOn
<1>10. \A i \in 1..Len(es) : i \in 1..Len(window) \/ i = Len(window) + 1
  BY <1>2, <1>3
<1>11. ASSUME NEW i \in 1..Len(es)
       PROVE  Fits(es[i])' /\ \A p \in es[i].of : p \in Deltas \/ p \notin Places
  <2>1. CASE i \in 1..Len(window)
    <3>1. es[i].of # {} /\ es[i].of \subseteq Deltas
      BY <1>1, <1>3, <2>1 DEF WindowsFit
    <3>2. Deltas \subseteq Deltas'
      BY <1>6 DEF Keeps, Deltas
    <3> QED
      BY <3>1, <3>2 DEF Fits
  <2>2. CASE i = Len(window) + 1
    <3>1. place \notin Places /\ place \in Places' \ Deltas'
      BY <1>1, <1>6, PlacesAreNumbers DEF Places
    <3> QED
      BY <1>3, <1>6, <2>2, <3>1 DEF Fits
  <2> QED
    BY <1>10, <2>1, <2>2
<1>12. Tells
  BY <1>4, <1>6, <1>7, <1>8, <1>9, <1>11 DEF Tells
<1>13. ASSUME Numbered PROVE Counts
  <2>1. Positions /\ Ordered /\ Apart
    BY <1>13 DEF Numbered
  <2>2. Raises
    <3>1. \A i \in 1..Len(es) : es[i].seq > counter /\ es[i].seq \in Nat
      BY <1>2, <1>3
    <3> QED
      BY <1>2, <1>4, <1>5, <1>6, <1>7, <3>1 DEF Raises
  <2>3. Positions'
    <3>1. counter <= OwnSeq /\ counter' \in Nat /\ OwnSeq <= counter'
      BY <1>2, <1>4, <1>5
    <3> QED
      BY <1>1, <1>4, <1>5, <2>1, <3>1, Publishes
  <2>4. Ordered'
    BY <1>1, <1>2, <1>3, <1>4, <2>1, InLineStill
  <2>5. Apart'
    <3>1. ASSUME NEW i \in 1..Len(es), es[i].seq = OwnSeq PROVE place \in es[i].of
      <4>1. i = Len(window) + 1
        BY <1>2, <1>3, <3>1
      <4> QED
        BY <1>3, <4>1
    <3>2. \A e \in Entries' \ Entries : \A p \in Places' \ Places :
            p \notin Deltas' /\ e.seq = sent'[p].seq => p \in e.of
      BY <1>6, <1>7, <3>1
    <3> QED
      BY <1>6, <2>1, <2>2, <3>2, ApartStays
  <2>6. StagesKnow'
    <3>1. Len(sent)' \in Places' \ Deltas' /\ counter' = sent'[Len(sent')].seq
      BY <1>4, <1>6
    <3> QED
      BY <3>1 DEF StagesKnow
  <2> QED
    BY <2>2, <2>3, <2>4, <2>5, <2>6 DEF Counts
<1> QED
  BY <1>12, <1>13

\* What a delta may leave the windows holding.
LEMMA CollectsDeltas ==
  ASSUME Shapes, WindowsFit, NEW c \in Channels, NEW p \in Nat
  PROVE  /\ Collected(c, p) \in Seq(Window)
         /\ \A k \in 1..Len(Collected(c, p)) :
              /\ Collected(c, p)[k].of # {}
              /\ Collected(c, p)[k].of \subseteq Deltas \cup {p}
<1> DEFINE ws == Collected(c, p)
<1>1. Types /\ window \in Seq(Window) /\ DOMAIN window = 1..Len(window) /\ Len(window) \in Nat
  BY ShapesAreTypes DEF Shapes
<1>2. /\ ws \in Seq(Window)
      /\ \A q : (\E k \in 1..Len(ws) : q \in ws[k].of) <=> (Windowed(q) \/ q = p)
  BY <1>1, Collects
<1>3. \A q : Windowed(q) => q \in Deltas
  BY DEF Windowed, WindowsFit
<1>4. ASSUME NEW k \in 1..Len(ws) PROVE ws[k].of # {}
  <2>1. CASE \E i \in DOMAIN window : window[i].kind = c
    <3> DEFINE e(i) == IF window[i].kind = c
                       THEN [kind |-> c, of |-> window[i].of \cup {p}] ELSE window[i]
    <3>1. ws = [i \in 1..Len(window) |-> e(i)]
      BY <1>1, <2>1 DEF Collected
    <3>2. Len(ws) = Len(window)
      BY <1>1, <1>2, <3>1
    <3>3. k \in 1..Len(window) /\ ws[k] = e(k)
      BY <3>1, <3>2
    <3>4. CASE window[k].kind = c
      BY <3>3, <3>4
    <3>5. CASE window[k].kind # c
      BY <3>3, <3>5 DEF WindowsFit
    <3> QED
      BY <3>4, <3>5
  <2>2. CASE ~ \E i \in DOMAIN window : window[i].kind = c
    <3> DEFINE w == [kind |-> c, of |-> {p}]
    <3>1. ws = Append(window, w) /\ w.of # {}
      BY <2>2 DEF Collected
    <3> HIDE DEF w
    <3>2. /\ Len(ws) = Len(window) + 1 /\ ws[Len(window) + 1] = w
          /\ \A i \in 1..Len(window) : ws[i] = window[i]
      BY <1>1, <3>1
    <3>3. k \in 1..Len(window) \/ k = Len(window) + 1
      BY <1>1, <3>2
    <3> HIDE DEF ws
    <3> QED
      BY <3>1, <3>2, <3>3 DEF WindowsFit
  <2> QED
    BY <2>1, <2>2
<1> HIDE DEF ws
<1>5. \A k \in 1..Len(ws) : ws[k].of \subseteq Deltas \cup {p}
  BY <1>2, <1>3
<1> QED
  BY <1>2, <1>4, <1>5 DEF ws

LEMMA TellsOnDelta ==
  ASSUME Shown, NEW c \in Channels, Delta(c)
  PROVE  Tells /\ (Numbered => Counts)
<1> DEFINE place == Len(sent) + 1
<1>1. /\ Shapes /\ Types /\ WindowsFit /\ BoundariesCount
      /\ counter \in Nat /\ window \in Seq(Window) /\ place \in Nat
  BY ShapesAreTypes, PlacesAreNumbers DEF Shown, Shapes
<1>2. PICK ws : ws = Collected(c, place)
  OBVIOUS
<1>3. /\ stage = "live" /\ Publish(c, counter) /\ stage' = stage
      /\ \/ UNCHANGED <<window, counter, chain>>
         \/ window' = ws /\ UNCHANGED <<counter, chain>>
         \/ \E i \in DOMAIN ws : Flush(ws, i)
      /\ UNCHANGED <<stream, log, route, pc, maxseq, lastid, shown, text>>
  BY <1>2 DEF Delta
<1>4. stream \in Streams /\ c \notin Boundaries
  BY <1>1, <1>3, ChannelAssumption DEF Shapes
<1>5. /\ ws \in Seq(Window)
      /\ \A k \in 1..Len(ws) : ws[k].of # {} /\ ws[k].of \subseteq Deltas \cup {place}
  BY <1>1, <1>2, CollectsDeltas
<1>6. /\ Keeps /\ Heard /\ sent' \in Seq(Crumb) /\ Len(sent') = place
      /\ pending' \in [Readers -> Seq(Nat)] /\ inflight' \in [Readers -> SUBSET Nat]
      /\ Places' = Places \cup {place} /\ sent'[place].seq = counter /\ place \in Deltas'
  BY <1>1, <1>3, Publishing
<1>7. Deltas \cup {place} \subseteq Deltas' /\ place \notin Places
  BY <1>1, <1>6, PlacesAreNumbers DEF Keeps, Deltas, Places
<1>8. PICK of : of # {} /\ of \subseteq Deltas \cup {place} /\ counter' \in {counter, counter + 1}
        /\ window' \in Seq(Window) /\ chain' \in [Streams -> Seq(LogEntry)]
        /\ (\A j \in 1..Len(window') :
              window'[j].of # {} /\ window'[j].of \subseteq Deltas \cup {place})
        /\ (\A e \in Entries' : e \in Entries \/ (e.seq = counter + 1 /\ e.of = of))
        /\ (Ordered => Ordered')
  <2>1. CASE UNCHANGED <<window, counter, chain>> \/ (window' = ws /\ UNCHANGED <<counter, chain>>)
    <3>1. Entries' = Entries
      BY <1>3, <2>1 DEF Entries, Chain
    <3>2. Ordered => Ordered'
      BY <1>3, <2>1 DEF Ordered, InLine
    <3>3. /\ window' \in Seq(Window) /\ chain' \in [Streams -> Seq(LogEntry)]
          /\ counter' \in {counter, counter + 1}
      BY <1>1, <1>5, <2>1 DEF Shapes
    <3>4. \A j \in 1..Len(window') :
            window'[j].of # {} /\ window'[j].of \subseteq Deltas \cup {place}
      BY <1>1, <1>5, <2>1 DEF WindowsFit
    <3> WITNESS {place}
    <3> QED
      BY <3>1, <3>2, <3>3, <3>4
  <2>2. ASSUME NEW i \in DOMAIN ws, Flush(ws, i)
        PROVE  \E of : of # {} /\ of \subseteq Deltas \cup {place} /\ counter' \in {counter, counter + 1}
        /\ window' \in Seq(Window) /\ chain' \in [Streams -> Seq(LogEntry)]
        /\ (\A j \in 1..Len(window') :
              window'[j].of # {} /\ window'[j].of \subseteq Deltas \cup {place})
        /\ (\A e \in Entries' : e \in Entries \/ (e.seq = counter + 1 /\ e.of = of))
        /\ (Ordered => Ordered')
    <3>1. /\ window' \in Seq(Window) /\ chain' \in [Streams -> Seq(LogEntry)]
          /\ \A j \in 1..Len(window') : \E k \in 1..Len(ws) : window'[j] = ws[k]
          /\ \A e \in Entries' : e \in Entries \/ (e.seq = counter + 1 /\ e.of = ws[i].of)
          /\ counter' = counter + 1 /\ i \in 1..Len(ws)
          /\ Ordered => Ordered'
      BY <1>1, <1>3, <1>4, <1>5, <2>2, FlushesOne
    <3>2. \A j \in 1..Len(window') :
            window'[j].of # {} /\ window'[j].of \subseteq Deltas \cup {place}
      BY <1>5, <3>1
    <3> WITNESS ws[i].of
    <3> QED
      BY <1>5, <3>1, <3>2
  <2> QED
    BY <1>3, <2>1, <2>2
<1>9. counter' \in Nat /\ counter <= counter'
  BY <1>1, <1>8
<1>10. Shapes'
  BY <1>1, <1>3, <1>6, <1>8, <1>9 DEF Shapes
<1>11. WindowsFit' /\ BoundariesCount'
  <2>1. WindowsFit'
    BY <1>3, <1>7, <1>8 DEF WindowsFit
  <2> QED
    BY <1>1, <1>6, <2>1, CountsOn
<1>12. Tells
  <2>1. ASSUME NEW e \in Entries', e \notin Entries
        PROVE  Fits(e)' /\ \A p \in e.of : p \in Deltas \/ p \notin Places
    <3>1. e.of # {} /\ e.of \subseteq Deltas \cup {place}
      BY <1>8, <2>1
    <3> QED
      BY <1>7, <3>1 DEF Fits
  <2> QED
    BY <1>3, <1>6, <1>10, <1>11, <2>1 DEF Tells
<1>13. ASSUME Numbered PROVE Counts
  <2>1. Positions /\ Ordered /\ Apart
    BY <1>13 DEF Numbered
  <2>2. Raises
    BY <1>1, <1>6, <1>8, <1>9 DEF Raises
  <2>3. Positions'
    <3>1. counter <= counter /\ c \in Channels \cup Boundaries
      BY <1>1
    <3> QED
      BY <1>1, <1>3, <1>4, <1>9, <2>1, <3>1, Publishes
  <2>4. Apart'
    BY <1>6, <2>1, <2>2, ApartStays
  <2>5. StagesKnow'
    BY <1>3 DEF StagesKnow
  <2> QED
    BY <1>8, <2>1, <2>2, <2>3, <2>4, <2>5 DEF Counts
<1> QED
  BY <1>12, <1>13

LEMMA TellsOnTimer ==
  ASSUME Shown, NEW i \in DOMAIN window, Timer(i)
  PROVE  Tells /\ (Numbered => Counts)
<1>1. /\ Shapes /\ Types /\ WindowsFit /\ BoundariesCount
      /\ counter \in Nat /\ window \in Seq(Window)
  BY ShapesAreTypes DEF Shown, Shapes
<1>2. /\ stage = "live" /\ Flush(window, i)
      /\ UNCHANGED <<sent, stage, stream, log, route, pc, pending, maxseq, lastid, shown, text,
                     inflight>>
  BY DEF Timer, readerVars
<1>3. stream \in Streams
  BY <1>1, <1>2 DEF Shapes
<1>4. /\ window' \in Seq(Window) /\ chain' \in [Streams -> Seq(LogEntry)]
      /\ \A j \in 1..Len(window') : \E k \in 1..Len(window) : window'[j] = window[k]
      /\ \A e \in Entries' : e \in Entries \/ (e.seq = counter + 1 /\ e.of = window[i].of)
      /\ counter' = counter + 1 /\ i \in 1..Len(window)
      /\ Ordered => Ordered'
  BY <1>1, <1>2, <1>3, FlushesOne
<1>5. Keeps /\ Heard /\ Places' = Places /\ Deltas' = Deltas
  BY <1>1, <1>2, Silent
<1>6. Shapes'
  <2>1. counter' \in Nat
    BY <1>1, <1>4
  <2> QED
    BY <1>1, <1>2, <1>4, <2>1 DEF Shapes
<1>7. WindowsFit' /\ BoundariesCount'
  <2>1. WindowsFit'
    BY <1>1, <1>2, <1>4, <1>5 DEF WindowsFit
  <2> QED
    BY <1>1, <1>5, <2>1, CountsOn
<1>8. Tells
  <2>1. ASSUME NEW e \in Entries', e \notin Entries
        PROVE  Fits(e)' /\ \A p \in e.of : p \in Deltas \/ p \notin Places
    <3>1. e.of # {} /\ e.of \subseteq Deltas
      BY <1>1, <1>4, <2>1 DEF WindowsFit
    <3> QED
      BY <1>5, <3>1 DEF Fits
  <2> QED
    BY <1>2, <1>5, <1>6, <1>7, <2>1 DEF Tells
<1>9. ASSUME Numbered PROVE Counts
  <2>1. Positions /\ Ordered /\ Apart
    BY <1>9 DEF Numbered
  <2>2. counter' \in Nat /\ counter <= counter'
    BY <1>1, <1>4
  <2>3. Raises
    BY <1>1, <1>4, <1>5, <2>2 DEF Raises
  <2>4. Positions'
    BY <1>1, <1>2, <2>1, <2>2, Raised
  <2>5. Apart'
    BY <1>5, <2>1, <2>3, ApartStays
  <2>6. StagesKnow'
    BY <1>2 DEF StagesKnow
  <2> QED
    BY <1>4, <2>1, <2>3, <2>4, <2>5, <2>6 DEF Counts
<1> QED
  BY <1>8, <1>9

LEMMA TellsOnAbandon ==
  ASSUME Shown, Abandon
  PROVE  Tells /\ (Numbered => Counts)
<1>1. /\ Shapes /\ Types /\ WindowsFit /\ BoundariesCount
      /\ counter \in Nat /\ Len(window) \in Nat
  BY ShapesAreTypes DEF Shown, Shapes
<1>2. PICK es : es = FlushAll
  OBVIOUS
<1>3. /\ es \in Seq(LogEntry) /\ Len(es) = Len(window)
      /\ \A i \in 1..Len(es) : es[i].seq = counter + i /\ es[i].of = window[i].of
  BY <1>1, <1>2, FlushesAll
<1>4. /\ stage = "live" /\ stage' = "lost" /\ Enqueue(stream, es) /\ window' = <<>>
      /\ counter' = counter + Len(es)
      /\ UNCHANGED <<sent, stream, log, route, pc, pending, maxseq, lastid, shown, text,
                     inflight>>
  BY <1>2, <1>3 DEF Abandon, readerVars
<1>5. stream \in Streams
  BY <1>1, <1>4 DEF Shapes
<1>6. /\ chain' \in [Streams -> Seq(LogEntry)]
      /\ \A e \in Entries' : e \in Entries \/ \E i \in 1..Len(es) : e = es[i]
  BY <1>1, <1>3, <1>4, <1>5, Enqueues
<1>7. Keeps /\ Heard /\ Places' = Places /\ Deltas' = Deltas
  BY <1>1, <1>4, Silent
<1>8. counter' \in Nat /\ counter <= counter'
  BY <1>1, <1>3, <1>4
<1>9. Shapes' /\ WindowsFit' /\ BoundariesCount'
  <2>1. Shapes'
    BY <1>1, <1>4, <1>5, <1>6, <1>8 DEF Shapes
  <2>2. WindowsFit'
    BY <1>4 DEF WindowsFit
  <2> QED
    BY <1>1, <1>7, <2>1, <2>2, CountsOn
<1>10. Tells
  <2>1. ASSUME NEW i \in 1..Len(es)
        PROVE  Fits(es[i])' /\ \A p \in es[i].of : p \in Deltas \/ p \notin Places
    <3>1. es[i].of # {} /\ es[i].of \subseteq Deltas
      BY <1>1, <1>3 DEF WindowsFit
    <3> QED
      BY <1>7, <3>1 DEF Fits
  <2> QED
    BY <1>4, <1>6, <1>7, <1>9, <2>1 DEF Tells
<1>11. ASSUME Numbered PROVE Counts
  <2>1. Positions /\ Ordered /\ Apart
    BY <1>11 DEF Numbered
  <2>2. Raises
    <3>1. \A i \in 1..Len(es) : es[i].seq > counter /\ es[i].seq \in Nat
      BY <1>1, <1>3
    <3> QED
      BY <1>6, <1>7, <1>8, <3>1 DEF Raises
  <2>3. Positions'
    BY <1>1, <1>4, <1>8, <2>1, Raised
  <2>4. Ordered'
    BY <1>1, <1>3, <1>4, <1>5, <2>1, InLineStill
  <2>5. Apart'
    BY <1>7, <2>1, <2>2, ApartStays
  <2>6. StagesKnow'
    BY <1>4 DEF StagesKnow
  <2> QED
    BY <2>2, <2>3, <2>4, <2>5, <2>6 DEF Counts
<1> QED
  BY <1>10, <1>11

\* Writers that only take entries off their chains, or stop.
LEMMA TellsOnLess ==
  ASSUME Shown, UNCHANGED <<sent, stream, counter, readerVars>>,
         window' \in {window, <<>>}, stage' = stage \/ (stage' # "live" /\ window' = <<>>),
         stage # "idle" \/ stage' = "idle",
         stage' \in {"asked", "suspended"} => stage \in {"asked", "suspended"},
         stage' = "idle" => stage = "idle",
         chain' \in [Streams -> Seq(LogEntry)],
         log' = log \/ (\E e \in Entries : log' = log \cup {e}),
         Entries' \subseteq Entries, Ordered => Ordered'
  PROVE  Tells /\ (Numbered => Counts)
<1>1. /\ Shapes /\ Types /\ WindowsFit /\ BoundariesCount
      /\ counter \in Nat /\ window \in Seq(Window)
      /\ UNCHANGED <<route, pc, pending, maxseq, lastid, shown, text, inflight>>
  BY ShapesAreTypes DEF Shown, Shapes, readerVars
<1>2. Keeps /\ Heard /\ Places' = Places /\ Deltas' = Deltas
  BY <1>1, Silent
<1>3. \A e \in Entries : e \in LogEntry /\ e.seq \in Nat
  <2>1. \A s \in Streams : chain[s] \in Seq(LogEntry)
    BY <1>1 DEF Shapes
  <2>2. \A s \in Streams : \A i \in 1..Len(chain[s]) : chain[s][i] \in LogEntry
    BY <2>1
  <2>3. \A e \in log : e \in LogEntry
    BY <1>1 DEF Shapes
  <2> QED
    BY <2>2, <2>3 DEF Entries, Chain, LogEntry
<1>4. /\ log' \subseteq LogEntry /\ IsFiniteSet(log') /\ log \subseteq log'
      /\ log' # {} => \E d \in log' : \A e \in log' : e.seq <= d.seq
  <2>1. CASE log' = log
    BY <1>1, <2>1 DEF Shapes
  <2>2. ASSUME NEW e \in Entries, log' = log \cup {e}
        PROVE  /\ log' \subseteq LogEntry /\ IsFiniteSet(log') /\ log \subseteq log'
               /\ log' # {} => \E d \in log' : \A f \in log' : f.seq <= d.seq
    <3>1. IsFiniteSet(log \cup {e})
      BY <1>1, FS_AddElement DEF Shapes
    <3>2. CASE log = {}
      BY <1>3, <2>2, <3>1, <3>2
    <3>3. CASE log # {}
      <4>1. PICK d \in log : \A f \in log : f.seq <= d.seq
        BY <1>1, <3>3 DEF Shapes
      <4>2. \A f \in log : f \in Entries /\ f.seq \in Nat
        BY <1>3 DEF Entries
      <4>3. e.seq <= d.seq \/ \A f \in log' : f.seq <= e.seq
        BY <1>3, <2>2, <4>1, <4>2
      <4> QED
        BY <1>1, <1>3, <2>2, <3>1, <4>1, <4>3 DEF Shapes
    <3> QED
      BY <3>2, <3>3
  <2> QED
    BY <2>1, <2>2
<1>5. Shapes' /\ WindowsFit' /\ BoundariesCount'
  <2>1. window' \in Seq(Window)
    <3>1. <<>> \in Seq(Window) /\ (window' = window \/ window' = <<>>)
      OBVIOUS
    <3> QED
      BY <1>1, <3>1
  <2>2. Shapes'
    BY <1>1, <1>4, <2>1 DEF Shapes
  <2>3. WindowsFit'
    BY <1>1, <1>2 DEF WindowsFit
  <2> QED
    BY <1>1, <1>2, <2>2, <2>3, CountsOn
<1>6. Tells
  BY <1>1, <1>2, <1>4, <1>5 DEF Tells
<1>7. ASSUME Numbered PROVE Counts
  <2>1. Positions /\ Ordered /\ Apart /\ StagesKnow
    BY <1>7 DEF Numbered
  <2>2. Raises
    BY <1>1, <1>2 DEF Raises
  <2>3. Positions'
    BY <1>1, <2>1, Raised
  <2>4. Apart'
    BY <1>2, <2>1, <2>2, ApartStays
  <2>5. StagesKnow'
    BY <1>1, <1>2, <2>1 DEF StagesKnow
  <2> QED
    BY <2>1, <2>2, <2>3, <2>4, <2>5 DEF Counts
<1> QED
  BY <1>6, <1>7

LEMMA TellsOnClose ==
  ASSUME Shown, Close
  PROVE  Tells /\ (Numbered => Counts)
<1>1. /\ UNCHANGED <<sent, stream, counter, window, chain, log, readerVars>>
      /\ \/ stage = "asked" /\ stage' = "suspended"
         \/ stage = "ending" /\ stage' = "ended"
      /\ chain \in [Streams -> Seq(LogEntry)]
  BY DEF Close, Shown, Shapes
<1>2. Entries' = Entries /\ (Ordered => Ordered') /\ (WindowsFit => window = <<>>)
  BY <1>1 DEF Entries, Chain, Ordered, InLine, WindowsFit
<1> QED
  BY <1>1, <1>2, TellsOnLess DEF Shown

LEMMA TellsOnCrash ==
  ASSUME Shown, Crash
  PROVE  Tells /\ (Numbered => Counts)
<1>1. /\ UNCHANGED <<sent, stream, counter, log, readerVars>> /\ window' = <<>>
      /\ \/ stage = "live" /\ stage' = "lost"
         \/ stage = "asked" /\ stage' = "suspended"
         \/ stage = "ending" /\ stage' = "ended"
      /\ chain' = [s \in Streams |-> <<>>]
  BY DEF Crash
<1>2. \A s \in Streams : chain'[s] = <<>> /\ Len(chain'[s]) = 0
  BY <1>1
<1>3. Entries' \subseteq Entries
  BY <1>1, <1>2 DEF Entries, Chain
<1>4. Ordered => Ordered'
  BY <1>1, <1>2 DEF Ordered, InLine
<1>5. chain' \in [Streams -> Seq(LogEntry)]
  BY <1>1
<1> QED
  BY <1>1, <1>3, <1>4, <1>5, TellsOnLess

\* The first entry of a chain leaves it, for the log or not.
LEMMA Shortened ==
  ASSUME Shapes, NEW s \in Streams, chain[s] # <<>>,
         chain' = [chain EXCEPT ![s] = Tail(chain[s])],
         log' = log \/ log' = log \cup {Head(chain[s])}
  PROVE  /\ chain' \in [Streams -> Seq(LogEntry)] /\ Head(chain[s]) \in Entries
         /\ Entries' \subseteq Entries
<1>1. /\ chain[s] \in Seq(LogEntry) /\ Tail(chain[s]) \in Seq(LogEntry)
      /\ Len(chain[s]) \in Nat /\ Len(chain[s]) > 0 /\ Head(chain[s]) = chain[s][1]
      /\ Len(Tail(chain[s])) = Len(chain[s]) - 1
      /\ \A i \in 1..(Len(chain[s]) - 1) : Tail(chain[s])[i] = chain[s][i + 1]
  BY DEF Shapes
<1>2. /\ chain' \in [Streams -> Seq(LogEntry)] /\ chain'[s] = Tail(chain[s])
      /\ \A t \in Streams : t # s => chain'[t] = chain[t]
  BY <1>1 DEF Shapes
<1>3. Head(chain[s]) \in Chain(s)
  <2>1. 1 \in 1..Len(chain[s])
    BY <1>1
  <2> QED
    BY <1>1, <2>1 DEF Chain
<1>4. ASSUME NEW t \in Streams, NEW i \in 1..Len(chain'[t])
      PROVE  chain'[t][i] \in Chain(t)
  <2>1. CASE t # s
    BY <1>2, <2>1 DEF Chain
  <2>2. CASE t = s
    <3>1. i \in 1..(Len(chain[s]) - 1) /\ i + 1 \in 1..Len(chain[s])
      BY <1>1, <1>2, <2>2
    <3> QED
      BY <1>1, <1>2, <2>2, <3>1 DEF Chain
  <2> QED
    BY <2>1, <2>2
<1>5. ASSUME NEW e \in Entries' PROVE e \in Entries
  <2>1. e \in log' \/ \E t \in Streams : e \in Chain(t)'
    BY DEF Entries
  <2>2. \A t \in Streams : e \in Chain(t)' => e \in Chain(t)
    BY <1>4 DEF Chain
  <2> QED
    BY <1>3, <2>1, <2>2 DEF Entries
<1> QED
  BY <1>2, <1>3, <1>5 DEF Entries

LEMMA TellsOnWrite ==
  ASSUME Shown, NEW s \in Streams, Write(s) \/ WriteFails(s)
  PROVE  Tells /\ (Numbered => Counts)
<1>1. Shapes /\ Types
  BY ShapesAreTypes DEF Shown
<1>2. /\ chain[s] # <<>> /\ chain' = [chain EXCEPT ![s] = Tail(chain[s])]
      /\ log' = log \/ log' = log \cup {Head(chain[s])}
      /\ UNCHANGED <<sent, stage, stream, counter, window, readerVars>>
  BY DEF Write, WriteFails
<1>3. /\ chain' \in [Streams -> Seq(LogEntry)] /\ Head(chain[s]) \in Entries
      /\ Entries' \subseteq Entries
  BY <1>1, <1>2, Shortened
<1>4. Ordered => Ordered'
  BY <1>1, <1>2, Landing
<1>5. log' = log \/ \E e \in Entries : log' = log \cup {e}
  BY <1>2, <1>3
<1>6. window' \in {window, <<>>} /\ stage' = stage
  BY <1>2
<1>7. UNCHANGED <<sent, stream, counter, readerVars>>
  BY <1>2
<1>8. Entries' \subseteq Entries /\ chain' \in [Streams -> Seq(LogEntry)]
  BY <1>3
<1> QED
  BY <1>4, <1>5, <1>6, <1>7, <1>8, TellsOnLess

LEMMA LastIsGreatest ==
  ASSUME Shapes
  PROVE  /\ LastLogged \in Nat /\ \A e \in log : e.seq <= LastLogged
         /\ log # {} => \E e \in log : e.seq = LastLogged
         /\ log = {} => LastLogged = 0
<1>1. CASE log = {}
  BY <1>1 DEF LastLogged
<1>2. CASE log # {}
  <2> DEFINE IsLast(n) == \A e \in log : e.seq <= n
  <2>1. PICK d \in log : IsLast(d.seq)
    BY <1>2 DEF Shapes
  <2>2. \E n \in {e.seq : e \in log} : IsLast(n)
    BY <2>1
  <2>3. LastLogged = CHOOSE n \in {e.seq : e \in log} : IsLast(n)
    BY <1>2 DEF LastLogged
  <2>4. LastLogged \in {e.seq : e \in log} /\ IsLast(LastLogged)
    <3> HIDE DEF IsLast
    <3> QED
      BY <2>2, <2>3
  <2>5. \A e \in log : e.seq \in Nat
    BY DEF Shapes, LogEntry
  <2> QED
    BY <1>2, <2>4, <2>5
<1> QED
  BY <1>1, <1>2

\* A new stream: unless the number of its first crumb has been given out, its
\* writer goes on from the last counter and nothing is underway.
LEMMA TellsOnOpens ==
  ASSUME Shown, NEW n \in Nat, NEW failed \in BOOLEAN, Opens(n, failed),
         stage \in {"idle", "suspended", "asked"},
         (~failed /\ n = LastLogged) \/ (failed /\ n = 0)
  PROVE  Tells /\ (Numbered /\ ~Reused' => Counts)
<1> DEFINE place == Len(sent) + 1
           s == stream + 1
<1>1. /\ Shapes /\ Types /\ WindowsFit /\ BoundariesCount
      /\ counter \in Nat /\ place \in Nat
  BY ShapesAreTypes, PlacesAreNumbers DEF Shown, Shapes
<1>2. PICK own : own = [seq |-> n + 1, of |-> {place}]
  OBVIOUS
<1>3. own \in LogEntry /\ own.seq = n + 1 /\ own.of = {place}
  BY <1>1, <1>2 DEF LogEntry
<1>4. /\ s \in Streams /\ stream' = s /\ stage' = "live" /\ counter' = n + 1
      /\ chain' = IF failed THEN chain ELSE [chain EXCEPT ![s] = <<own>>]
      /\ Publish("step", n + 1)
      /\ UNCHANGED <<window, log, route, pc, maxseq, lastid, shown, text>>
  BY <1>2 DEF Opens
<1>5. n + 1 \in Nat /\ n + 1 > 0 /\ "step" \in Channels \cup Boundaries /\ "step" \notin Channels
  BY ChannelAssumption DEF Boundaries
<1>6. /\ Keeps /\ Heard /\ sent' \in Seq(Crumb) /\ Len(sent') = place
      /\ pending' \in [Readers -> Seq(Nat)] /\ inflight' \in [Readers -> SUBSET Nat]
      /\ Places' = Places \cup {place} /\ sent'[place].seq = n + 1 /\ place \notin Deltas'
  BY <1>1, <1>4, <1>5, Publishing
<1>7. place \notin Places /\ place \in Places' \ Deltas' /\ Deltas \subseteq Deltas'
  BY <1>1, <1>6, PlacesAreNumbers DEF Keeps, Deltas, Places
<1>8. chain' \in [Streams -> Seq(LogEntry)]
  <2>1. <<own>> \in Seq(LogEntry) /\ chain \in [Streams -> Seq(LogEntry)]
    BY <1>1, <1>3 DEF Shapes
  <2>2. chain' = chain \/ chain' = [chain EXCEPT ![s] = <<own>>]
    BY <1>4
  <2> QED
    BY <2>1, <2>2
<1>9. \A e \in Entries' : e \in Entries \/ (e = own /\ ~failed)
  <2>1. ASSUME NEW t \in Streams, NEW i \in 1..Len(chain'[t])
        PROVE  chain'[t][i] \in Chain(t) \/ (chain'[t][i] = own /\ ~failed)
    <3>1. CASE chain'[t] = chain[t]
      BY <3>1 DEF Chain
    <3>2. CASE ~failed /\ chain'[t] = <<own>>
      <4>1. Len(chain'[t]) = 1 /\ chain'[t][1] = own
        BY <3>2
      <4>2. i = 1
        BY <4>1
      <4> QED
        BY <3>2, <4>1, <4>2
    <3> QED
      BY <1>1, <1>4, <3>1, <3>2 DEF Shapes
  <2> SUFFICES ASSUME NEW e \in Entries' PROVE e \in Entries \/ (e = own /\ ~failed)
    OBVIOUS
  <2>2. e \in log \/ \E t \in Streams : e \in Chain(t)'
    BY <1>4 DEF Entries
  <2>3. \A t \in Streams : e \in Chain(t)' => e \in Chain(t) \/ (e = own /\ ~failed)
    BY <2>1 DEF Chain
  <2> QED
    BY <2>2, <2>3 DEF Entries
<1>10. Shapes' /\ WindowsFit' /\ BoundariesCount'
  <2>1. Shapes'
    BY <1>1, <1>4, <1>5, <1>6, <1>8 DEF Shapes
  <2>2. WindowsFit'
    BY <1>1, <1>4, <1>7 DEF WindowsFit
  <2> QED
    BY <1>1, <1>5, <1>6, <2>1, <2>2, CountsOn
<1>11. Tells
  <2>1. Fits(own)' /\ \A p \in own.of : p \in Deltas \/ p \notin Places
    BY <1>3, <1>6, <1>7 DEF Fits
  <2> QED
    BY <1>4, <1>6, <1>9, <1>10, <2>1 DEF Tells
<1>12. ASSUME Numbered, ~Reused' PROVE Counts
  <2>1. Positions /\ Ordered /\ Apart /\ StagesKnow
    BY <1>12 DEF Numbered
  <2>2. n = counter /\ (\A t \in Streams : chain[t] = <<>>)
    <3>1. CASE stage = "idle"
      <4>1. counter = 0 /\ Entries = {}
        BY <2>1, <3>1 DEF StagesKnow
      <4>2. log = {} /\ \A t \in Streams : Chain(t) = {}
        BY <4>1 DEF Entries
      <4>3. ASSUME NEW t \in Streams PROVE chain[t] = <<>>
        <5>1. chain[t] \in Seq(LogEntry) /\ Len(chain[t]) \in Nat
          BY <1>1 DEF Shapes
        <5>2. \A i \in 1..Len(chain[t]) : FALSE
          BY <4>2 DEF Chain
        <5>3. Len(chain[t]) = 0
          BY <5>1, <5>2
        <5> QED
          BY <5>1, <5>3
      <4> QED
        BY <1>1, <4>1, <4>2, <4>3, LastIsGreatest
    <3>2. CASE stage \in {"asked", "suspended"}
      <4> DEFINE last == Len(sent)
      <4>1. last \in Places \ Deltas /\ counter = sent[last].seq /\ counter > 0
        BY <1>1, <2>1, <3>2 DEF StagesKnow, BoundariesCount
      <4>2. /\ last \in Places' \ Deltas' /\ sent'[last].seq = counter /\ last < place
        BY <1>1, <1>6, <4>1, PlacesAreNumbers DEF Keeps
      <4>3. ~(n + 1 <= counter)
        BY <1>6, <1>7, <1>12, <4>2 DEF Reused
      <4>4. n >= counter /\ n > 0
        BY <1>1, <4>1, <4>3
      <4>5. ~failed /\ n = LastLogged /\ log # {}
        BY <1>1, <4>4, LastIsGreatest
      <4>6. PICK d \in log : d.seq = n
        BY <1>1, <4>5, LastIsGreatest
      <4>7. n = counter
        BY <1>1, <2>1, <4>4, <4>6 DEF Ordered
      <4>8. ASSUME NEW t \in Streams PROVE chain[t] = <<>>
        <5>1. chain[t] \in Seq(LogEntry) /\ Len(chain[t]) \in Nat
          BY <1>1 DEF Shapes
        <5>2. \A i \in 1..Len(chain[t]) : chain[t][i] \in LogEntry
          BY <5>1
        <5>3. ASSUME NEW i \in 1..Len(chain[t]) PROVE FALSE
          <6>1. chain[t][i].seq \in Nat /\ chain[t][i].seq <= counter
            BY <2>1, <5>2 DEF Ordered, InLine, LogEntry
          <6>2. d.seq < chain[t][i].seq
            BY <2>1 DEF Ordered, InLine
          <6> QED
            BY <4>6, <4>7, <6>1, <6>2
        <5>4. Len(chain[t]) = 0
          BY <5>1, <5>3
        <5> QED
          BY <5>1, <5>4
      <4> QED
        BY <4>7, <4>8
    <3> QED
      BY <3>1, <3>2
  <2>3. counter' = counter + 1 /\ counter' \in Nat /\ counter < n + 1 /\ counter <= n + 1
        /\ n + 1 <= counter'
    BY <1>1, <1>4, <2>2
  <2>4. Raises
    <3>1. own.seq > counter /\ own.seq \in Nat
      BY <1>1, <1>3, <1>5, <2>3
    <3>2. counter <= counter'
      BY <1>1, <2>3
    <3> QED
      BY <1>6, <1>9, <2>3, <3>1, <3>2 DEF Raises
  <2>5. Positions'
    BY <1>1, <1>4, <1>5, <2>1, <2>3, Publishes
  <2>6. Ordered'
    <3>1. CASE failed
      <4>1. \A t \in Streams : chain'[t] = <<>> /\ Len(chain'[t]) = 0
        BY <1>4, <2>2, <3>1
      <4>2. \A e \in log : e.seq <= counter'
        <5>1. \A e \in log : e.seq <= counter /\ e.seq \in Nat
          BY <1>1, <2>1, CounterBounds DEF Entries
        <5> QED
          BY <1>1, <2>3, <5>1
      <4> QED
        BY <1>4, <4>1, <4>2 DEF Ordered, InLine
    <3>2. CASE ~failed
      BY <1>1, <1>3, <1>4, <2>1, <2>2, <2>3, <3>2, Starts
    <3> QED
      BY <3>1, <3>2
  <2>7. Apart'
    <3>1. \A e \in Entries' \ Entries : \A p \in Places' \ Places : p \in e.of
      BY <1>3, <1>6, <1>9
    <3> QED
      BY <1>6, <2>1, <2>4, <3>1, ApartStays
  <2>8. StagesKnow'
    BY <1>4 DEF StagesKnow
  <2> QED
    BY <2>4, <2>5, <2>6, <2>7, <2>8 DEF Counts
<1> QED
  BY <1>11, <1>12

\* Every step of the writers, faults and all.
LEMMA WritersTell ==
  ASSUME Shown, Writer \/ Faulty
  PROVE  Tells /\ (Numbered /\ ~Reused' => Counts)
<1>1. CASE Step
  <2>1. Boundary("step") /\ stage' = "live"
    BY <1>1 DEF Step, Boundary
  <2> QED
    BY <2>1, TellsOnBoundary DEF Boundaries
<1>2. CASE Ask
  BY <1>2, TellsOnBoundary DEF Ask, Boundaries
<1>3. CASE End
  BY <1>3, TellsOnBoundary DEF End, Boundaries
<1>4. CASE Close
  BY <1>4, TellsOnClose
<1>5. ASSUME NEW c \in Channels, Delta(c) PROVE Tells /\ (Numbered => Counts)
  BY <1>5, TellsOnDelta
<1>6. ASSUME NEW i \in DOMAIN window, Timer(i) PROVE Tells /\ (Numbered => Counts)
  BY <1>6, TellsOnTimer
<1>7. ASSUME NEW s \in Streams, Write(s) \/ WriteFails(s)
      PROVE  Tells /\ (Numbered => Counts)
  BY <1>7, TellsOnWrite
<1>8. CASE OpenStream \/ Overtake
  <2>1. Opens(LastLogged, FALSE) /\ stage \in {"idle", "suspended", "asked"}
    BY <1>8 DEF OpenStream, Overtake, Seed
  <2>2. LastLogged \in Nat
    BY LastIsGreatest DEF Shown
  <2> QED
    BY <2>1, <2>2, TellsOnOpens
<1>9. CASE SeedFails
  <2>1. Opens(0, TRUE) /\ stage \in {"idle", "suspended", "asked"}
    BY <1>9 DEF SeedFails
  <2> QED
    BY <2>1, TellsOnOpens
<1>10. CASE Abandon
  BY <1>10, TellsOnAbandon
<1>11. CASE Crash
  BY <1>11, TellsOnCrash
<1> QED
  BY <1>1, <1>2, <1>3, <1>4, <1>5, <1>6, <1>7, <1>8, <1>9, <1>10, <1>11 DEF Writer, Faulty

-----------------------------------------------------------------------------
(* The steps of a reader: the writers and the other readers stay put.      *)

Alone(r) ==
  /\ UNCHANGED <<sent, stage, stream, counter, window, chain, log, route>>
  /\ \A q \in Readers \ {r} :
       /\ pc'[q] = pc[q] /\ pending'[q] = pending[q]
       /\ maxseq'[q] = maxseq[q] /\ lastid'[q] = lastid[q]
       /\ shown'[q] = shown[q] /\ text'[q] = text[q] /\ inflight'[q] = inflight[q]

\* Numbers mean something, and nothing is missing in the middle of the log.
Sound == Numbered /\ ~Reused /\ ~Torn

LEMMA ReaderKeeps ==
  ASSUME MissInv, NEW r \in Readers, Alone(r), Shapes', Growing(r)' /\ Queued(r)',
         Sound /\ Underlined(r) /\ Tailed(r) => Underlined(r)' /\ Tailed(r)'
  PROVE  MissInv'
<1>1. UNCHANGED <<sent, stage, stream, counter, window, chain, log, route>>
  BY DEF Alone
<1>2. Places' = Places /\ Deltas' = Deltas /\ Entries' = Entries
  BY <1>1 DEF Places, Deltas, Entries, Chain
<1>3. Reused' = Reused /\ Torn' = Torn
  BY <1>1, <1>2 DEF Reused, Torn, Gone
<1>4. Numbered => Numbered'
  BY <1>1, <1>2 DEF Numbered, Positions, Ordered, InLine, Apart, StagesKnow
<1>5. WindowsFit' /\ BoundariesCount' /\ \A e \in Entries' : Fits(e)'
  BY <1>1, <1>2 DEF MissInv, Shown, WindowsFit, BoundariesCount, Fits
<1>6. ASSUME NEW q \in Readers, q # r PROVE Growing(q)' /\ Queued(q)'
  <2>1. Growing(q) /\ Queued(q)
    BY DEF MissInv, Shown
  <2>2. /\ pc'[q] = pc[q] /\ pending'[q] = pending[q] /\ route'[q] = route[q]
        /\ maxseq'[q] = maxseq[q] /\ lastid'[q] = lastid[q] /\ shown'[q] = shown[q]
    BY <1>1, <1>6 DEF Alone
  <2>3. Growing(q)'
    BY <1>1, <1>2, <2>1, <2>2 DEF Growing
  <2>4. Queued(q)'
    BY <1>2, <2>1, <2>2 DEF Queued
  <2> QED
    BY <2>3, <2>4
<1>7. ASSUME NEW q \in Readers, q # r, Underlined(q), Tailed(q)
      PROVE  Underlined(q)' /\ Tailed(q)'
  <2>1. /\ pc'[q] = pc[q] /\ pending'[q] = pending[q]
        /\ maxseq'[q] = maxseq[q] /\ lastid'[q] = lastid[q]
    BY <1>7 DEF Alone
  <2>2. Got(q)' = Got(q)
    BY <1>7 DEF Alone, Got
  <2>3. Underlined(q)'
    BY <1>1, <1>2, <1>7, <2>1, <2>2 DEF Underlined
  <2>4. Tailed(q)'
    BY <1>1, <1>2, <1>7, <2>1, <2>2 DEF Tailed
  <2> QED
    BY <2>3, <2>4
<1>8. Shown'
  BY <1>5, <1>6 DEF Shown
<1> QED
  BY <1>3, <1>4, <1>7, <1>8 DEF MissInv, Sound

LEMMA MissOnSubscribe ==
  ASSUME MissInv, NEW r \in Readers, Subscribe(r)
  PROVE  MissInv'
<1>1. Shapes /\ Growing(r) /\ Queued(r)
  BY DEF MissInv, Shown
<1>2. /\ Alone(r) /\ pending'[r] = <<>> /\ pending' \in [Readers -> Seq(Nat)]
      /\ pc' \in [Readers -> {"off", "subscribed", "replayed", "live", "closed"}]
      /\ UNCHANGED <<maxseq, lastid, shown, text, inflight>>
      /\ \/ route[r] = "stream" /\ pc'[r] = "subscribed"
         \/ pc[r] = "replayed" /\ pc'[r] = "live"
  <2>1. /\ pending' = [pending EXCEPT ![r] = <<>>]
        /\ UNCHANGED <<sent, stage, stream, counter, window, chain, log, route, maxseq, lastid,
                       shown, text, inflight>>
        /\ \/ route[r] = "stream" /\ pc' = [pc EXCEPT ![r] = "subscribed"]
           \/ pc[r] = "replayed" /\ pc' = [pc EXCEPT ![r] = "live"]
    BY DEF Subscribe, writerVars
  <2>2. pending'[r] = <<>> /\ pending' \in [Readers -> Seq(Nat)]
    BY <1>1, <2>1 DEF Shapes
  <2>3. /\ pc' \in [Readers -> {"off", "subscribed", "replayed", "live", "closed"}]
        /\ \/ route[r] = "stream" /\ pc'[r] = "subscribed"
           \/ pc[r] = "replayed" /\ pc'[r] = "live"
    BY <1>1, <2>1 DEF Shapes
  <2>4. Alone(r)
    BY <1>1, <2>1 DEF Alone, Shapes
  <2> QED
    BY <2>1, <2>2, <2>3, <2>4
<1>3. UNCHANGED <<sent, stage, stream, counter, window, chain, log, route>>
  BY <1>2 DEF Alone
<1>4. Shapes'
  BY <1>1, <1>2, <1>3 DEF Shapes
<1>5. Places' = Places /\ Deltas' = Deltas /\ Entries' = Entries /\ Got(r)' = Got(r)
  BY <1>2, <1>3 DEF Places, Deltas, Entries, Chain, Got
<1>6. Growing(r)'
  BY <1>1, <1>2, <1>3, <1>5 DEF Growing
<1>7. Queued(r)'
  BY <1>2, <1>3 DEF Queued
<1>8. ASSUME Underlined(r), Tailed(r) PROVE Underlined(r)' /\ Tailed(r)'
  <2>1. Underlined(r)'
    BY <1>2, <1>3, <1>5, <1>8 DEF Underlined
  <2>2. pc[r] = "replayed" => pending[r] = pending'[r]
    BY <1>1, <1>2 DEF Queued
  <2>3. Tailed(r)'
    BY <1>2, <1>3, <1>5, <1>8, <2>2 DEF Tailed
  <2> QED
    BY <2>1, <2>3
<1> QED
  BY <1>2, <1>4, <1>6, <1>7, <1>8, ReaderKeeps

\* A connection that is refused or lost: the reader has what it had.
LEMMA MissOnEnd ==
  ASSUME MissInv, NEW r \in Readers, Alone(r),
         pc' \in [Readers -> {"off", "subscribed", "replayed", "live", "closed"}],
         pc'[r] \in {"off", "closed"}, pending' \in [Readers -> Seq(Nat)], pending'[r] = <<>>,
         maxseq' \in [Readers -> Nat], maxseq'[r] \in {maxseq[r], lastid[r]},
         UNCHANGED <<lastid, shown, text, inflight>>
  PROVE  MissInv'
<1>1. Shapes /\ Growing(r) /\ Queued(r)
  BY DEF MissInv, Shown
<1>2. UNCHANGED <<sent, stage, stream, counter, window, chain, log, route>>
  BY DEF Alone
<1>3. Shapes'
  BY <1>1, <1>2 DEF Shapes
<1>4. Places' = Places /\ Deltas' = Deltas /\ Entries' = Entries /\ Got(r)' = Got(r)
  BY <1>2 DEF Places, Deltas, Entries, Chain, Got
<1>5. maxseq[r] \in Nat /\ lastid[r] \in Nat /\ maxseq[r] <= maxseq'[r] /\ maxseq'[r] <= lastid[r]
  BY <1>1 DEF Shapes, Growing
<1>6. Growing(r)'
  <2>1. \A i \in 1..Len(shown[r]) : shown[r][i] \in Places /\ sent[shown[r][i]].seq \in Nat
    BY <1>1, PlacesAreNumbers DEF Growing
  <2>2. \A i \in 1..Len(shown[r]) : sent[shown[r][i]].seq <= maxseq'[r]
    BY <1>1, <1>5, <2>1 DEF Growing
  <2> QED
    BY <1>1, <1>2, <1>4, <1>5, <2>2 DEF Growing
<1>7. Queued(r)'
  BY <1>2 DEF Queued
<1>8. ASSUME Underlined(r) PROVE Underlined(r)' /\ Tailed(r)'
  <2>1. Underlined(r)'
    BY <1>2, <1>4, <1>8 DEF Underlined
  <2> QED
    BY <2>1 DEF Tailed
<1> QED
  BY <1>3, <1>6, <1>7, <1>8, ReaderKeeps

LEMMA MissOnRefuse ==
  ASSUME MissInv, NEW r \in Readers, Refuse(r)
  PROVE  MissInv'
<1>1. Shapes /\ Queued(r)
  BY DEF MissInv, Shown
<1>2. /\ Alone(r) /\ pc'[r] = "closed" /\ UNCHANGED <<pending, maxseq, lastid, shown, text, inflight>>
      /\ pc' \in [Readers -> {"off", "subscribed", "replayed", "live", "closed"}]
  BY <1>1 DEF Refuse, Alone, writerVars, Shapes
<1>3. pending[r] = <<>>
  BY <1>1 DEF Refuse, Connecting, Queued
<1> QED
  BY <1>1, <1>2, <1>3, MissOnEnd DEF Shapes

LEMMA MissOnDrop ==
  ASSUME MissInv, NEW r \in Readers, DropLive(r)
  PROVE  MissInv'
<1>1. Shapes
  BY DEF MissInv, Shown
<1>2. /\ Alone(r) /\ pc'[r] = "off" /\ pending'[r] = <<>> /\ maxseq'[r] = lastid[r]
      /\ UNCHANGED <<lastid, shown, text, inflight>>
      /\ pc' \in [Readers -> {"off", "subscribed", "replayed", "live", "closed"}]
      /\ pending' \in [Readers -> Seq(Nat)] /\ maxseq' \in [Readers -> Nat]
  BY <1>1 DEF DropLive, Loses, Alone, writerVars, Shapes
<1> QED
  BY <1>2, MissOnEnd

\* What a replay up to n adds to what the reader has.
LEMMA Replays ==
  ASSUME Shown, NEW r \in Readers, NEW n \in Nat, Replay(r, n),
         n = 0 \/ \E e \in log : e.seq = n
  PROVE  /\ shown' \in [Readers -> Seq(Nat)] /\ text' \in [Readers -> SUBSET Nat]
         /\ inflight' \in [Readers -> SUBSET Nat]
         /\ maxseq' \in [Readers -> Nat] /\ lastid' \in [Readers -> Nat]
         /\ Growing(r)'
         /\ Sound /\ Underlined(r) => Underlined(r)'
         /\ Sound /\ Underlined(r) /\ (\A e \in log : e.seq <= n) =>
              Places \subseteq Got(r)' \cup ToSet(pending[r]) /\ Deltas \subseteq Got(r)'
<1> DEFINE entries == {e \in log : e.seq > lastid[r] /\ e.seq <= n}
           own == {e \in entries : e.of \cap Deltas = {}}
<1>1. /\ Shapes /\ Growing(r) /\ lastid[r] \in Nat /\ maxseq[r] \in Nat /\ maxseq[r] <= lastid[r]
      /\ \A e \in log : Fits(e) /\ e.seq \in Nat /\ e \in Entries
      /\ shown[r] \in Seq(Nat) /\ Places \subseteq Nat /\ Deltas \subseteq Places
      /\ \A p \in Places : sent[p].seq \in Nat
      /\ \A p \in Places \ Deltas : sent[p].seq > 0
  BY PlacesAreNumbers DEF Shown, Shapes, Growing, Entries, LogEntry, BoundariesCount
<1>2. PICK s \in BySeq(own) :
        shown' = [shown EXCEPT ![r] =
                    @ \o [i \in DOMAIN s |-> CHOOSE p \in Places : s[i].of = {p}]]
  BY DEF Replay
<1>3. PICK k : k = Cardinality(own) /\ k \in Nat
  <2>1. IsFiniteSet(own)
    BY <1>1, FS_Subset DEF Shapes
  <2> QED
    BY <2>1, FS_CardinalityType
<1>4. /\ s \in [1..k -> own] /\ DOMAIN s = 1..k /\ ToSet(s) = own
      /\ \A i, j \in 1..k : i < j => s[i].seq < s[j].seq
  BY <1>2, <1>3 DEF BySeq
<1>5. PICK added : added = [i \in DOMAIN s |-> CHOOSE p \in Places : s[i].of = {p}]
  OBVIOUS
<1>6. ASSUME NEW i \in 1..k
      PROVE  /\ added[i] \in Places \ Deltas /\ s[i].of = {added[i]}
             /\ s[i].seq = sent[added[i]].seq
             /\ lastid[r] < sent[added[i]].seq /\ sent[added[i]].seq <= n
  <2>1. s[i] \in own
    BY <1>4
  <2>2. /\ s[i] \in log /\ s[i].of \cap Deltas = {} /\ s[i].seq > lastid[r] /\ s[i].seq <= n
        /\ Fits(s[i])
    BY <1>1, <2>1
  <2>3. PICK p \in Places \ Deltas : s[i].of = {p} /\ s[i].seq = sent[p].seq
    BY <2>2 DEF Fits
  <2>4. added[i] = CHOOSE q \in Places : s[i].of = {q}
    BY <1>4, <1>5
  <2>5. added[i] \in Places /\ s[i].of = {added[i]}
    BY <2>3, <2>4
  <2>6. added[i] = p
    BY <2>3, <2>5
  <2> QED
    BY <1>1, <2>2, <2>3, <2>6
<1>7. added \in Seq(Nat) /\ Len(added) = k
  <2>1. added \in [1..k -> Nat]
    BY <1>1, <1>4, <1>5, <1>6
  <2>2. added \in Seq(Nat) /\ DOMAIN added = 1..k
    BY <1>3, <2>1, SeqDef
  <2>3. Len(added) \in Nat /\ 1..Len(added) = 1..k
    BY <2>2
  <2>4. Len(added) = k
    BY <1>3, <2>3
  <2> QED
    BY <2>2, <2>4
<1>8. shown'[r] = shown[r] \o added /\ shown' \in [Readers -> Seq(Nat)]
  <2>1. shown[r] \o added \in Seq(Nat)
    BY <1>1, <1>7
  <2>2. shown' = [shown EXCEPT ![r] = shown[r] \o added]
    BY <1>2, <1>5
  <2> QED
    BY <1>1, <2>1, <2>2 DEF Shapes
<1> DEFINE m == Len(shown[r])
<1>9. /\ m \in Nat /\ Len(shown'[r]) = m + k
      /\ \A i \in 1..m : i \in DOMAIN shown'[r] /\ shown'[r][i] = shown[r][i]
      /\ \A i \in 1..k : m + i \in DOMAIN shown'[r] /\ shown'[r][m + i] = added[i]
  <2>1. shown[r] \in Seq(Nat) /\ added \in Seq(Nat) /\ m \in Nat /\ Len(added) = k
    BY <1>1, <1>7
  <2>5. PICK old : old = shown[r]
    OBVIOUS
  <2>6. old \in Seq(Nat) /\ Len(old) = m
    BY <2>1, <2>5
  <2> HIDE DEF m
  <2>2. Len(old \o added) = m + k /\ DOMAIN (old \o added) = 1..(m + k)
    <3>1. old \o added \in Seq(Nat) /\ Len(old \o added) = m + k
      BY <2>1, <2>6
    <3> QED
      BY <3>1
  <2>3. \A i \in 1..m : i \in 1..(m + k) /\ (old \o added)[i] = old[i]
    BY <1>3, <2>1, <2>6
  <2>4. \A i \in 1..k : m + i \in 1..(m + k) /\ (old \o added)[m + i] = added[i]
    <3> SUFFICES ASSUME NEW i \in 1..k
                 PROVE  m + i \in 1..(m + k) /\ (old \o added)[m + i] = added[i]
      OBVIOUS
    <3>1. /\ m + i \in 1..(m + k) /\ m + i \in 1..(Len(old) + Len(added))
          /\ ~(m + i <= Len(old)) /\ (m + i) - Len(old) = i
      BY <1>3, <2>1, <2>6
    <3>2. (old \o added)[m + i] = added[(m + i) - Len(old)]
      BY <2>1, <2>6, <3>1, ConcatProperties
    <3> QED
      BY <3>1, <3>2
  <2> QED
    BY <1>8, <2>1, <2>2, <2>3, <2>4, <2>5
<1>10. /\ text'[r] = text[r] \cup ((UNION {e.of : e \in entries}) \cap Deltas)
       /\ inflight'[r] = inflight[r] \cup Underway(r)
       /\ maxseq'[r] = (IF n > lastid[r] THEN n ELSE lastid[r])
       /\ lastid'[r] = maxseq'[r]
       /\ UNCHANGED <<sent, stage, stream, counter, window, chain, log, route>>
  BY <1>1 DEF Replay, Shapes, writerVars
<1>11. /\ text' \in [Readers -> SUBSET Nat] /\ inflight' \in [Readers -> SUBSET Nat]
       /\ maxseq' \in [Readers -> Nat] /\ lastid' \in [Readers -> Nat]
  <2>1. text' \in [Readers -> SUBSET Nat]
    <3>1. PICK x : x = (UNION {e.of : e \in entries}) \cap Deltas
      OBVIOUS
    <3>2. x \subseteq Nat
      BY <1>1, <3>1
    <3>3. text' = [text EXCEPT ![r] = text[r] \cup x]
      BY <3>1 DEF Replay
    <3>4. text[r] \cup x \in SUBSET Nat /\ text \in [Readers -> SUBSET Nat]
      BY <1>1, <3>2 DEF Shapes
    <3> QED
      BY <3>3, <3>4
  <2>2. inflight' \in [Readers -> SUBSET Nat]
    BY <1>1 DEF Replay, Shapes, Underway
  <2>3. maxseq' \in [Readers -> Nat]
    BY <1>1 DEF Replay, Shapes
  <2>4. lastid' \in [Readers -> Nat]
    BY <1>1, <1>10, <2>3 DEF Replay, Shapes
  <2> QED
    BY <2>1, <2>2, <2>3, <2>4
<1>12. Places' = Places /\ Deltas' = Deltas /\ Entries' = Entries
  BY <1>10 DEF Places, Deltas, Entries, Chain
<1>13. /\ maxseq'[r] \in Nat /\ lastid[r] <= maxseq'[r] /\ n <= maxseq'[r]
       /\ maxseq[r] <= maxseq'[r]
  BY <1>1, <1>10
<1>14. \A i \in 1..(m + k) : i \in 1..m \/ (i - m \in 1..k /\ i = m + (i - m))
  BY <1>3, <1>9
<1>15. \A i \in 1..m : /\ shown[r][i] \in Places \ Deltas /\ sent[shown[r][i]].seq \in Nat
                       /\ sent[shown[r][i]].seq <= maxseq[r]
                       /\ \A j \in 1..m : i < j => sent[shown[r][i]].seq < sent[shown[r][j]].seq
  BY <1>1 DEF Growing
<1>16. \A i \in 1..k : \A j \in 1..k : i < j => sent[added[i]].seq < sent[added[j]].seq
  BY <1>4, <1>6
<1> HIDE DEF entries, own, m
<1>17. Growing(r)'
  <2>1. ASSUME NEW i \in 1..(m + k)
        PROVE  shown'[r][i] \in Places \ Deltas /\ sent[shown'[r][i]].seq <= maxseq'[r]
    <3>1. CASE i \in 1..m
      <4>1. shown'[r][i] = shown[r][i] /\ shown[r][i] \in Places \ Deltas
        BY <1>9, <1>15, <3>1
      <4>2. sent[shown[r][i]].seq <= maxseq'[r]
        BY <1>1, <1>13, <1>15, <3>1
      <4> QED
        BY <4>1, <4>2
    <3>2. CASE i - m \in 1..k /\ i = m + (i - m)
      <4>1. PICK a \in 1..k : i = m + a
        BY <3>2
      <4>2. shown'[r][i] = added[a] /\ added[a] \in Places \ Deltas
        BY <1>6, <1>9, <4>1
      <4>3. sent[added[a]].seq <= maxseq'[r]
        <5>1. PICK v : v = sent[added[a]].seq
          OBVIOUS
        <5>2. v \in Nat /\ v <= n
          BY <1>1, <1>6, <5>1
        <5>3. v <= maxseq'[r]
          BY <1>13, <5>2
        <5> QED
          BY <5>1, <5>3
      <4> QED
        BY <4>2, <4>3
    <3> QED
      BY <1>14, <3>1, <3>2
  <2>2. ASSUME NEW i \in 1..(m + k), NEW j \in 1..(m + k), i < j
        PROVE  sent[shown'[r][i]].seq < sent[shown'[r][j]].seq
    <3>1. CASE i \in 1..m /\ j \in 1..m
      BY <1>9, <1>15, <2>2, <3>1
    <3>2. CASE i \in 1..m /\ j \notin 1..m
      <4>1. PICK b \in 1..k : j = m + b
        BY <1>14, <3>2
      <4>2. sent[shown[r][i]].seq <= maxseq[r] /\ sent[shown[r][i]].seq \in Nat
        BY <1>15, <3>2
      <4>3. lastid[r] < sent[added[b]].seq /\ sent[added[b]].seq \in Nat
        BY <1>1, <1>6
      <4>4. shown'[r][i] = shown[r][i] /\ shown'[r][j] = added[b]
        BY <1>9, <3>2, <4>1
      <4>5. sent[shown[r][i]].seq < sent[added[b]].seq
        BY <1>1, <4>2, <4>3
      <4> QED
        BY <4>4, <4>5
    <3>3. CASE i \notin 1..m
      <4>1. PICK a \in 1..k : i = m + a
        BY <1>14, <3>3
      <4>2. PICK b \in 1..k : j = m + b
        <5>1. m \in Nat BY <1>1, <1>9
        <5>2. j \notin 1..m BY <2>2, <3>3, <5>1
        <5> QED BY <1>14, <5>2
      <4>3. a < b
        BY <1>9, <2>2, <4>1, <4>2
      <4> QED
        BY <1>9, <1>16, <4>1, <4>2, <4>3
    <3> QED
      BY <3>1, <3>2, <3>3
  <2>3. maxseq'[r] <= lastid'[r]
    BY <1>10, <1>13
  <2> QED
    BY <1>9, <1>10, <1>12, <2>1, <2>2, <2>3 DEF Growing
<1>18. Got(r) \subseteq Got(r)' /\ (\A i \in 1..k : added[i] \in Got(r)') /\ Underway(r) \subseteq Got(r)'
  <2>1. ASSUME NEW x \in ToSet(shown[r]) PROVE x \in ToSet(shown'[r])
    <3>1. PICK i \in DOMAIN shown[r] : x = shown[r][i]
      BY DEF ToSet
    <3>2. i \in 1..m
      BY <1>1 DEF m
    <3> QED
      BY <1>9, <3>1, <3>2 DEF ToSet
  <2>2. \A i \in 1..k : added[i] \in ToSet(shown'[r])
    BY <1>9 DEF ToSet
  <2> QED
    BY <1>10, <2>1, <2>2 DEF Got
<1>19. ASSUME NEW e \in log, lastid[r] < e.seq, e.seq <= n PROVE e.of \subseteq Got(r)'
  <2>1. e \in entries
    BY <1>1, <1>19 DEF entries
  <2>2. CASE e.of \cap Deltas = {}
    <3>1. e \in ToSet(s)
      BY <1>4, <2>1, <2>2 DEF own
    <3>2. PICK i \in 1..k : e = s[i]
      BY <1>4, <3>1 DEF ToSet
    <3> QED
      BY <1>6, <1>18, <3>2
  <2>3. CASE e.of \cap Deltas # {}
    <3>1. e.of \subseteq Deltas
      BY <1>1, <2>3 DEF Fits
    <3>2. e.of \subseteq UNION {d.of : d \in entries}
      BY <2>1
    <3>3. ASSUME NEW p \in e.of PROVE p \in text'[r]
      <4>1. p \in Deltas /\ p \in UNION {d.of : d \in entries}
        BY <3>1, <3>2
      <4>2. text'[r] = text[r] \cup ((UNION {d.of : d \in entries}) \cap Deltas)
        BY <1>10
      <4> QED
        BY <4>1, <4>2
    <3> QED
      BY <3>3 DEF Got
  <2> QED
    BY <2>2, <2>3
<1>20. ASSUME Sound, Underlined(r)
       PROVE  /\ Underlined(r)'
              /\ (\A e \in log : e.seq <= n) =>
                   Places \subseteq Got(r)' \cup ToSet(pending[r]) /\ Deltas \subseteq Got(r)'
  <2>1. Positions /\ Ordered /\ Apart /\ ~Torn /\ counter \in Nat
    BY <1>1, <1>20 DEF Sound, Numbered, Shapes
  <2>2. ASSUME NEW e \in log, e.seq <= n PROVE e.of \subseteq Got(r)'
    BY <1>1, <1>18, <1>19, <1>20, <2>2 DEF Underlined
  <2>3. ASSUME NEW e \in Entries, e \notin log, n # 0 PROVE n < e.seq
    <3>1. PICK f \in log : f.seq = n
      BY <2>3
    <3>2. PICK t \in Streams : \E i \in 1..Len(chain[t]) : e = chain[t][i]
      BY <2>3 DEF Entries, Chain
    <3> QED
      BY <2>1, <3>1, <3>2 DEF Ordered, InLine
  <2>4. ASSUME NEW p \in Places \ Deltas, sent[p].seq <= n, p \notin Logged PROVE FALSE
    <3>1. n # 0 /\ sent[p].seq \in Nat
      BY <1>1, <2>4
    <3>2. PICK f \in log : f.seq = n
      BY <3>1
    <3>3. CASE Gone(p)
      <4>1. ~(f.seq > sent[p].seq)
        BY <2>1, <3>3 DEF Torn
      <4>2. f.seq = sent[p].seq
        BY <2>4, <3>1, <3>2, <4>1
      <4> QED
        BY <1>1, <2>1, <3>3, <4>2 DEF Apart, Gone
    <3>4. ASSUME NEW e \in Entries, p \in e.of PROVE FALSE
      <4>1. e \notin log
        BY <2>4, <3>4 DEF Logged
      <4>2. Fits(e)
        BY DEF Shown
      <4>3. e.seq = sent[p].seq
        BY <3>4, <4>2 DEF Fits
      <4>4. n < e.seq
        BY <2>3, <3>1, <4>1
      <4> QED
        BY <2>4, <3>1, <4>3, <4>4
    <3> QED
      BY <3>3, <3>4 DEF Gone
  <2>5. lastid'[r] <= counter
    <3>1. \A e \in log : e.seq <= counter
      BY <2>1 DEF Ordered
    <3>2. n <= counter
      BY <2>1, <3>1
    <3> QED
      BY <1>10, <1>20, <3>2 DEF Underlined
  <2>6. ASSUME NEW p \in Places \ Deltas, sent[p].seq <= lastid'[r] PROVE p \in Got(r)'
    <3>1. CASE sent[p].seq <= lastid[r]
      BY <1>18, <1>20, <3>1 DEF Underlined
    <3>2. CASE ~(sent[p].seq <= lastid[r])
      <4>1. sent[p].seq <= n
        BY <1>1, <1>10, <2>6, <3>2
      <4>2. PICK e \in log : p \in e.of
        BY <2>4, <4>1 DEF Logged
      <4>3. e.seq = sent[p].seq
        BY <1>1, <4>2 DEF Fits
      <4> QED
        BY <2>2, <4>1, <4>2, <4>3
    <3> QED
      BY <3>1, <3>2
  <2>7. ASSUME NEW e \in Entries, e.seq <= lastid'[r] PROVE e.of \subseteq Got(r)'
    <3>1. e.seq \in Nat
      BY <1>1, <2>1, CounterBounds
    <3>2. CASE e.seq <= lastid[r]
      BY <1>18, <1>20, <3>2 DEF Underlined
    <3>3. CASE ~(e.seq <= lastid[r])
      <4>1. e.seq <= n /\ n # 0
        BY <1>1, <1>10, <2>7, <3>1, <3>3
      <4>2. e \in log
        BY <2>3, <3>1, <4>1
      <4> QED
        BY <2>2, <4>1, <4>2
    <3> QED
      BY <3>2, <3>3
  <2>8. Underlined(r)'
    BY <1>10, <1>12, <2>5, <2>6, <2>7 DEF Underlined
  <2>9. ASSUME \A e \in log : e.seq <= n
        PROVE  Places \subseteq Got(r)' \cup ToSet(pending[r]) /\ Deltas \subseteq Got(r)'
    <3>1. Logged \subseteq Got(r)'
      BY <2>2, <2>9 DEF Logged
    <3>2. \A p \in Places \ Logged : p \in Deltas \/ p \notin ToSet(pending[r]) => p \in Got(r)'
      BY <1>18 DEF Underway
    <3> QED
      BY <1>1, <3>1, <3>2
  <2> QED
    BY <2>8, <2>9
<1> QED
  BY <1>8, <1>11, <1>17, <1>20

LEMMA MissOnReplayAll ==
  ASSUME MissInv, NEW r \in Readers, ReplayAll(r)
  PROVE  MissInv'
<1>1. Shown /\ Shapes /\ Queued(r)
  BY DEF MissInv, Shown
<1>2. PICK n : n = LastLogged
  OBVIOUS
<1>3. n \in Nat /\ (\A e \in log : e.seq <= n) /\ (n = 0 \/ \E e \in log : e.seq = n)
  BY <1>1, <1>2, LastIsGreatest
<1>4. Replay(r, n)
  BY <1>2 DEF ReplayAll
<1>5. /\ shown' \in [Readers -> Seq(Nat)] /\ text' \in [Readers -> SUBSET Nat]
      /\ inflight' \in [Readers -> SUBSET Nat]
      /\ maxseq' \in [Readers -> Nat] /\ lastid' \in [Readers -> Nat]
      /\ Growing(r)'
      /\ Sound /\ Underlined(r) => Underlined(r)'
      /\ Sound /\ Underlined(r) =>
           Places \subseteq Got(r)' \cup ToSet(pending[r]) /\ Deltas \subseteq Got(r)'
  BY <1>1, <1>3, <1>4, Replays
<1>6. /\ pc[r] = "subscribed" \/ (pc[r] = "off" /\ route[r] = "resubscribe")
      /\ UNCHANGED <<sent, stage, stream, counter, window, chain, log, route>>
  BY <1>4 DEF Replay, Connecting, writerVars
<1>7. /\ pc' \in [Readers -> {"off", "subscribed", "replayed", "live", "closed"}]
      /\ pending' \in [Readers -> Seq(Nat)]
      /\ \/ pc'[r] = "closed" /\ pending'[r] = <<>>
         \/ pc'[r] = (IF route[r] = "stream" THEN "live" ELSE "replayed") /\ pending' = pending
      /\ \A q \in Readers \ {r} : pc'[q] = pc[q] /\ pending'[q] = pending[q]
  <2> DEFINE next == IF route[r] = "stream" THEN "live" ELSE "replayed"
  <2>1. \/ pc' = [pc EXCEPT ![r] = "closed"] /\ pending' = [pending EXCEPT ![r] = <<>>]
        \/ pc' = [pc EXCEPT ![r] = next] /\ pending' = pending
    BY DEF ReplayAll
  <2>2. CASE pc' = [pc EXCEPT ![r] = "closed"] /\ pending' = [pending EXCEPT ![r] = <<>>]
    BY <1>1, <2>2 DEF Shapes
  <2>3. CASE pc' = [pc EXCEPT ![r] = next] /\ pending' = pending
    BY <1>1, <2>3 DEF Shapes
  <2> QED
    BY <2>1, <2>2, <2>3
<1>8. Alone(r)
  <2>1. \A q \in Readers \ {r} :
          /\ maxseq'[q] = maxseq[q] /\ lastid'[q] = lastid[q]
          /\ shown'[q] = shown[q] /\ text'[q] = text[q] /\ inflight'[q] = inflight[q]
    BY <1>1, <1>4 DEF Replay, Shapes
  <2> QED
    BY <1>6, <1>7, <2>1 DEF Alone
<1>9. Shapes'
  BY <1>1, <1>5, <1>6, <1>7 DEF Shapes
<1>10. Places' = Places /\ Deltas' = Deltas
  BY <1>6 DEF Places, Deltas
<1>11. Queued(r)'
  <2>1. CASE pending'[r] = <<>> /\ pc'[r] # "subscribed"
    BY <2>1 DEF Queued
  <2>2. CASE pending' = pending /\ pc'[r] = "live"
    <3>1. pc'[r] \notin {"off", "replayed", "subscribed"} /\ pending'[r] = pending[r]
      BY <2>2
    <3>2. \A i \in 1..Len(pending'[r]) : pending'[r][i] \in Places'
      BY <1>1, <1>10, <3>1 DEF Queued
    <3>3. \A i, j \in 1..Len(pending'[r]) : i < j => pending'[r][i] < pending'[r][j]
      BY <1>1, <3>1 DEF Queued
    <3>4. /\ pc'[r] \in {"off", "replayed"} => pending'[r] = <<>>
          /\ pc'[r] = "subscribed" => route'[r] = "stream"
      BY <3>1
    <3> QED
      BY <3>2, <3>3, <3>4 DEF Queued
  <2>3. CASE route[r] # "stream" /\ pc'[r] = "replayed" /\ pending' = pending
    <3>1. pc[r] = "off" /\ pending[r] = <<>>
      BY <1>1, <1>6, <2>3 DEF Queued
    <3> QED
      BY <2>1, <2>3, <3>1
  <2> QED
    BY <1>7, <2>1, <2>2, <2>3
<1>12. ASSUME Sound, Underlined(r) PROVE Underlined(r)' /\ Tailed(r)'
  <2>1. CASE pc'[r] = "closed"
    BY <1>5, <1>12, <2>1 DEF Tailed
  <2>2. CASE pending' = pending
    <3>1. /\ Places' \subseteq Got(r)' \cup ToSet(pending'[r])
          /\ \A p \in Deltas' : p \in Got(r)'
      BY <1>5, <1>10, <1>12, <2>2
    <3> QED
      BY <1>5, <1>12, <3>1 DEF Tailed
  <2> QED
    BY <1>7, <2>1, <2>2
<1> QED
  BY <1>5, <1>8, <1>9, <1>11, <1>12, ReaderKeeps

LEMMA MissOnDropInReplay ==
  ASSUME MissInv, NEW r \in Readers, DropInReplay(r)
  PROVE  MissInv'
<1>1. Shown /\ Shapes
  BY DEF MissInv, Shown
<1>2. PICK d \in log : Replay(r, d.seq) /\ Loses(r)
  BY DEF DropInReplay
<1>3. PICK n : n = d.seq
  OBVIOUS
<1>4. n \in Nat /\ Replay(r, n) /\ \E e \in log : e.seq = n
  BY <1>1, <1>2, <1>3 DEF Shapes, LogEntry
<1>5. /\ shown' \in [Readers -> Seq(Nat)] /\ text' \in [Readers -> SUBSET Nat]
      /\ inflight' \in [Readers -> SUBSET Nat]
      /\ maxseq' \in [Readers -> Nat] /\ lastid' \in [Readers -> Nat]
      /\ Growing(r)'
      /\ Sound /\ Underlined(r) => Underlined(r)'
  BY <1>1, <1>4, Replays
<1>6. /\ pc' = [pc EXCEPT ![r] = "off"] /\ pending' = [pending EXCEPT ![r] = <<>>]
      /\ UNCHANGED <<sent, stage, stream, counter, window, chain, log, route>>
  BY <1>2 DEF Replay, Loses, writerVars
<1>7. /\ pc' \in [Readers -> {"off", "subscribed", "replayed", "live", "closed"}]
      /\ pending' \in [Readers -> Seq(Nat)] /\ pc'[r] = "off" /\ pending'[r] = <<>>
  BY <1>1, <1>6 DEF Shapes
<1>8. Alone(r)
  <2>1. \A q \in Readers \ {r} :
          /\ maxseq'[q] = maxseq[q] /\ lastid'[q] = lastid[q]
          /\ shown'[q] = shown[q] /\ text'[q] = text[q] /\ inflight'[q] = inflight[q]
    BY <1>1, <1>4 DEF Replay, Shapes
  <2>2. \A q \in Readers \ {r} : pc'[q] = pc[q] /\ pending'[q] = pending[q]
    BY <1>1, <1>6 DEF Shapes
  <2> QED
    BY <1>6, <2>1, <2>2 DEF Alone
<1>9. Shapes'
  BY <1>1, <1>5, <1>6, <1>7 DEF Shapes
<1>10. Queued(r)' /\ Tailed(r)'
  BY <1>7 DEF Queued, Tailed
<1> QED
  BY <1>5, <1>8, <1>9, <1>10, ReaderKeeps

\* The next frame is skipped only if the reader has got it; and if it is taken,
\* all that its number is not below has been got.
LEMMA MissOnDeliver ==
  ASSUME MissInv, NEW r \in Readers, Deliver(r)
  PROVE  MissInv'
<1>1. /\ Shown /\ Shapes /\ Queued(r) /\ Growing(r)
      /\ Places \subseteq Nat /\ Deltas \subseteq Places
      /\ \A p \in Places : sent[p].seq \in Nat
  BY PlacesAreNumbers DEF MissInv, Shown
<1>2. PICK old : old = pending[r]
  OBVIOUS
<1>3. PICK p : p = Head(old)
  OBVIOUS
<1>4. /\ old \in Seq(Nat) /\ old # <<>> /\ Len(old) \in Nat /\ Len(old) > 0 /\ p = old[1]
      /\ Tail(old) \in Seq(Nat) /\ Len(Tail(old)) = Len(old) - 1
      /\ \A i \in 1..(Len(old) - 1) : Tail(old)[i] = old[i + 1]
  <2>1. old \in Seq(Nat) /\ old # <<>>
    BY <1>1, <1>2 DEF Shapes, Deliver
  <2> QED
    BY <1>3, <2>1
<1>5. /\ pc[r] = "live"
      /\ UNCHANGED <<sent, stage, stream, counter, window, chain, log, route, inflight>>
  BY DEF Deliver, writerVars
<1>6. /\ \A i \in 1..Len(old) : old[i] \in Places
      /\ \A i, j \in 1..Len(old) : i < j => old[i] < old[j]
  BY <1>1, <1>2 DEF Queued
<1>7. p \in Places /\ p \in Nat /\ sent[p].seq \in Nat
  <2>1. 1 \in 1..Len(old)
    BY <1>4
  <2> QED
    BY <1>1, <1>4, <1>6, <2>1
<1>8. maxseq[r] \in Nat /\ lastid[r] \in Nat /\ maxseq[r] <= lastid[r]
      /\ shown[r] \in Seq(Nat) /\ text[r] \in SUBSET Nat
  BY <1>1 DEF Shapes, Growing
\* Either the frame is skipped, or it is a delta, or a boundary crumb.
<1>9. /\ \/ /\ Skips(p, maxseq[r])
            /\ UNCHANGED <<maxseq, lastid, shown, text>>
         \/ /\ ~Skips(p, maxseq[r]) /\ p \in Deltas
            /\ lastid' = [lastid EXCEPT ![r] = sent[p].seq]
            /\ text' = [text EXCEPT ![r] = text[r] \cup {p}]
            /\ UNCHANGED <<maxseq, shown>>
         \/ /\ ~Skips(p, maxseq[r]) /\ p \notin Deltas
            /\ lastid' = [lastid EXCEPT ![r] = sent[p].seq]
            /\ maxseq' = [maxseq EXCEPT ![r] = sent[p].seq]
            /\ shown' = [shown EXCEPT ![r] = Append(shown[r], p)]
            /\ text' = text
      /\ \/ pc' = [pc EXCEPT ![r] = "closed"] /\ pending' = [pending EXCEPT ![r] = <<>>]
         \/ pc' = pc /\ pending' = [pending EXCEPT ![r] = Tail(old)]
  BY <1>2, <1>3 DEF Deliver, EventId
<1>10. /\ pc' \in [Readers -> {"off", "subscribed", "replayed", "live", "closed"}]
       /\ pending' \in [Readers -> Seq(Nat)]
       /\ \/ pc'[r] = "closed" /\ pending'[r] = <<>>
          \/ pc'[r] = "live" /\ pending'[r] = Tail(old)
       /\ \A q \in Readers \ {r} : pc'[q] = pc[q] /\ pending'[q] = pending[q]
  <2>1. CASE pc' = [pc EXCEPT ![r] = "closed"] /\ pending' = [pending EXCEPT ![r] = <<>>]
    BY <1>1, <2>1 DEF Shapes
  <2>2. CASE pc' = pc /\ pending' = [pending EXCEPT ![r] = Tail(old)]
    BY <1>1, <1>4, <1>5, <2>2 DEF Shapes
  <2> QED
    BY <1>9, <2>1, <2>2
<1>11. /\ maxseq' \in [Readers -> Nat] /\ lastid' \in [Readers -> Nat]
       /\ shown' \in [Readers -> Seq(Nat)] /\ text' \in [Readers -> SUBSET Nat]
       /\ \A q \in Readers \ {r} : /\ maxseq'[q] = maxseq[q] /\ lastid'[q] = lastid[q]
                                   /\ shown'[q] = shown[q] /\ text'[q] = text[q]
       /\ \/ /\ Skips(p, maxseq[r])
             /\ maxseq'[r] = maxseq[r] /\ lastid'[r] = lastid[r]
             /\ shown'[r] = shown[r] /\ text'[r] = text[r]
          \/ /\ ~Skips(p, maxseq[r]) /\ p \in Deltas
             /\ lastid'[r] = sent[p].seq /\ text'[r] = text[r] \cup {p}
             /\ maxseq'[r] = maxseq[r] /\ shown'[r] = shown[r]
          \/ /\ ~Skips(p, maxseq[r]) /\ p \notin Deltas
             /\ lastid'[r] = sent[p].seq /\ maxseq'[r] = sent[p].seq
             /\ shown'[r] = Append(shown[r], p) /\ text'[r] = text[r]
  <2>1. CASE Skips(p, maxseq[r]) /\ UNCHANGED <<maxseq, lastid, shown, text>>
    BY <1>1, <2>1 DEF Shapes
  <2>2. CASE /\ ~Skips(p, maxseq[r]) /\ p \in Deltas
             /\ lastid' = [lastid EXCEPT ![r] = sent[p].seq]
             /\ text' = [text EXCEPT ![r] = text[r] \cup {p}]
             /\ UNCHANGED <<maxseq, shown>>
    <3>1. text[r] \cup {p} \in SUBSET Nat
      BY <1>7, <1>8
    <3> QED
      BY <1>1, <1>7, <2>2, <3>1 DEF Shapes
  <2>3. CASE /\ ~Skips(p, maxseq[r]) /\ p \notin Deltas
             /\ lastid' = [lastid EXCEPT ![r] = sent[p].seq]
             /\ maxseq' = [maxseq EXCEPT ![r] = sent[p].seq]
             /\ shown' = [shown EXCEPT ![r] = Append(shown[r], p)]
             /\ text' = text
    <3>1. Append(shown[r], p) \in Seq(Nat)
      BY <1>7, <1>8
    <3> QED
      BY <1>1, <1>7, <2>3, <3>1 DEF Shapes
  <2> QED
    BY <1>9, <2>1, <2>2, <2>3
<1>12. Alone(r)
  BY <1>5, <1>10, <1>11 DEF Alone
<1>13. Shapes'
  BY <1>1, <1>5, <1>10, <1>11 DEF Shapes
<1>14. Places' = Places /\ Deltas' = Deltas /\ Entries' = Entries
  BY <1>5 DEF Places, Deltas, Entries, Chain
<1>15. Queued(r)'
  <2>1. CASE pc'[r] = "closed" /\ pending'[r] = <<>>
    BY <2>1 DEF Queued
  <2>2. CASE pc'[r] = "live" /\ pending'[r] = Tail(old)
    <3>1. ASSUME NEW i \in 1..(Len(old) - 1)
          PROVE  /\ Tail(old)[i] \in Places
                 /\ \A j \in 1..(Len(old) - 1) : i < j => Tail(old)[i] < Tail(old)[j]
      <4>1. i + 1 \in 1..Len(old)
        BY <1>4
      <4>2. \A j \in 1..(Len(old) - 1) : i < j => j + 1 \in 1..Len(old) /\ i + 1 < j + 1
        BY <1>4
      <4> QED
        BY <1>4, <1>6, <4>1, <4>2
    <3>2. /\ pc'[r] \in {"off", "replayed"} => pending'[r] = <<>>
          /\ pc'[r] = "subscribed" => route'[r] = "stream"
      BY <2>2
    <3>3. \A i \in 1..Len(pending'[r]) :
            /\ pending'[r][i] \in Places'
            /\ \A j \in 1..Len(pending'[r]) : i < j => pending'[r][i] < pending'[r][j]
      BY <1>4, <1>14, <2>2, <3>1
    <3> QED
      BY <3>2, <3>3 DEF Queued
  <2> QED
    BY <1>10, <2>1, <2>2
<1>16. \A i \in 1..Len(shown[r]) :
         /\ shown[r][i] \in Places \ Deltas /\ sent[shown[r][i]].seq <= maxseq[r]
         /\ \A j \in 1..Len(shown[r]) : i < j => sent[shown[r][i]].seq < sent[shown[r][j]].seq
  BY <1>1 DEF Growing
<1>17. Growing(r)'
  <2>1. CASE /\ maxseq'[r] = maxseq[r] /\ shown'[r] = shown[r]
             /\ lastid'[r] = lastid[r] \/ (lastid'[r] = sent[p].seq /\ ~(sent[p].seq < maxseq[r]))
    <3>1. maxseq'[r] <= lastid'[r]
      BY <1>7, <1>8, <2>1
    <3> QED
      BY <1>5, <1>14, <1>16, <2>1, <3>1 DEF Growing
  <2>2. CASE /\ ~(sent[p].seq <= maxseq[r]) /\ p \notin Deltas
             /\ lastid'[r] = sent[p].seq /\ maxseq'[r] = sent[p].seq
             /\ shown'[r] = Append(shown[r], p)
    <3> DEFINE m == Len(shown[r])
    <3>1. /\ m \in Nat /\ Len(shown'[r]) = m + 1 /\ shown'[r][m + 1] = p
          /\ \A i \in 1..m : shown'[r][i] = shown[r][i]
      BY <1>7, <1>8, <2>2
    <3> HIDE DEF m
    <3>2. \A i \in 1..(m + 1) : i \in 1..m \/ i = m + 1
      BY <3>1
    <3>3. ASSUME NEW i \in 1..m
          PROVE  shown[r][i] \in Places \ Deltas /\ sent[shown[r][i]].seq < sent[p].seq
      <4>1. PICK v : v = sent[shown[r][i]].seq
        OBVIOUS
      <4>2. shown[r][i] \in Places \ Deltas /\ v \in Nat /\ v <= maxseq[r]
        BY <1>1, <1>16, <4>1 DEF m
      <4>3. v < sent[p].seq
        BY <1>7, <1>8, <2>2, <4>2
      <4> QED
        BY <4>1, <4>2, <4>3
    <3>4. \A i \in 1..m : sent[shown[r][i]].seq \in Nat
      BY <1>1, <3>3
    <3>5. \A i \in 1..(m + 1) :
            shown'[r][i] \in Places \ Deltas /\ sent[shown'[r][i]].seq <= maxseq'[r]
      <4>1. \A i \in 1..m : sent[shown[r][i]].seq <= sent[p].seq
        BY <1>7, <3>3, <3>4
      <4>2. sent[p].seq <= sent[p].seq
        BY <1>7
      <4> QED
        BY <1>7, <2>2, <3>1, <3>2, <3>3, <4>1, <4>2
    <3>6. ASSUME NEW i \in 1..(m + 1), NEW j \in 1..(m + 1), i < j
          PROVE  sent[shown'[r][i]].seq < sent[shown'[r][j]].seq
      <4>1. i \in 1..m
        BY <3>1, <3>6
      <4>2. CASE j \in 1..m
        BY <1>16, <3>1, <3>6, <4>1, <4>2 DEF m
      <4>3. CASE j = m + 1
        BY <3>1, <3>3, <4>1, <4>3
      <4> QED
        BY <3>2, <4>2, <4>3
    <3>7. maxseq'[r] <= lastid'[r]
      BY <1>7, <2>2
    <3> QED
      BY <1>5, <1>14, <3>1, <3>5, <3>6, <3>7 DEF Growing
  <2> QED
    BY <1>11, <2>1, <2>2 DEF Skips
<1>18. /\ Got(r) \subseteq Got(r)' /\ (~Skips(p, maxseq[r]) => p \in Got(r)')
  <2>1. shown'[r] = Append(shown[r], p) =>
          ToSet(shown[r]) \subseteq ToSet(shown'[r]) /\ p \in ToSet(shown'[r])
    <3> SUFFICES ASSUME shown'[r] = Append(shown[r], p)
                 PROVE  ToSet(shown[r]) \subseteq ToSet(shown'[r]) /\ p \in ToSet(shown'[r])
      OBVIOUS
    <3>1. \A i \in DOMAIN shown[r] : i \in DOMAIN shown'[r] /\ shown'[r][i] = shown[r][i]
      BY <1>7, <1>8
    <3>2. Len(shown[r]) + 1 \in DOMAIN shown'[r] /\ shown'[r][Len(shown[r]) + 1] = p
      BY <1>7, <1>8
    <3> QED
      BY <3>1, <3>2 DEF ToSet
  <2> QED
    BY <1>5, <1>11, <2>1 DEF Got
<1>19. ASSUME Sound, Underlined(r), Tailed(r) PROVE Underlined(r)' /\ Tailed(r)'
  <2>1. Positions /\ counter \in Nat
    BY <1>1, <1>19 DEF Sound, Numbered, Shapes
  <2>2. Places \subseteq Got(r) \cup ToSet(old)
    BY <1>2, <1>5, <1>19 DEF Tailed
  <2>3. ASSUME NEW q \in Places, q < p PROVE q \in Got(r)
    <3>1. ASSUME NEW i \in DOMAIN old, q = old[i] PROVE FALSE
      <4>1. i \in 1..Len(old) /\ 1 \in 1..Len(old) /\ (i = 1 \/ 1 < i)
        BY <1>4
      <4>2. q = p \/ p < q
        BY <1>4, <1>6, <3>1, <4>1
      <4> QED
        BY <1>1, <1>7, <2>3, <4>2
    <3> QED
      BY <2>2, <3>1 DEF ToSet
  <2>4. ASSUME NEW q \in ToSet(old), q # p PROVE q \in ToSet(Tail(old))
    <3>1. PICK i \in DOMAIN old : q = old[i]
      BY <2>4 DEF ToSet
    <3>2. /\ i - 1 \in 1..(Len(old) - 1) /\ (i - 1) + 1 = i
          /\ DOMAIN Tail(old) = 1..(Len(old) - 1)
      BY <1>4, <2>4, <3>1
    <3>3. Tail(old)[i - 1] = q
      BY <1>4, <3>1, <3>2
    <3> QED
      BY <3>2, <3>3 DEF ToSet
  <2>5. CASE Skips(p, maxseq[r])
    <3>1. p \in Got(r)
      <4>1. CASE p \in Deltas
        BY <1>5, <1>19, <2>5, <4>1 DEF Skips, Tailed
      <4>2. CASE p \notin Deltas
        <5>1. sent[p].seq <= lastid[r]
          BY <1>7, <1>8, <2>5, <4>2 DEF Skips
        <5> QED
          BY <1>7, <1>19, <4>2, <5>1 DEF Underlined
      <4> QED
        BY <4>1, <4>2
    <3>2. maxseq'[r] = maxseq[r] /\ lastid'[r] = lastid[r]
      BY <1>11, <2>5
    <3>3. Underlined(r)'
      <4>1. lastid'[r] <= counter'
        BY <1>5, <1>19, <3>2 DEF Underlined
      <4>2. \A q \in Places' \ Deltas' : sent'[q].seq <= lastid'[r] => q \in Got(r)'
        BY <1>5, <1>14, <1>18, <1>19, <3>2 DEF Underlined
      <4>3. \A e \in Entries' : e.seq <= lastid'[r] => e.of \subseteq Got(r)'
        BY <1>14, <1>18, <1>19, <3>2 DEF Underlined
      <4> QED
        BY <4>1, <4>2, <4>3 DEF Underlined
    <3>4. ASSUME pending'[r] = Tail(old)
          PROVE  Places' \subseteq Got(r)' \cup ToSet(pending'[r])
      BY <1>14, <1>18, <2>2, <2>4, <3>1, <3>4
    <3>5. \A q \in Deltas' : sent'[q].seq < maxseq'[r] => q \in Got(r)'
      BY <1>5, <1>14, <1>18, <1>19, <3>2 DEF Tailed
    <3>6. Tailed(r)'
      BY <1>10, <3>4, <3>5 DEF Tailed
    <3> QED
      BY <3>3, <3>6
  <2>6. CASE ~Skips(p, maxseq[r])
    <3>1. p \in Got(r)' /\ lastid'[r] = sent[p].seq /\ maxseq'[r] \in {maxseq[r], sent[p].seq}
          /\ (p \in Deltas => maxseq'[r] = maxseq[r])
      BY <1>11, <1>18, <2>6
    <3>2. \A q \in Places : q < p \/ q = p \/ p < q
      BY <1>1, <1>7
    <3>3. ASSUME NEW q \in Places \ Deltas, sent[q].seq <= sent[p].seq PROVE q \in Got(r)'
      <4>1. CASE p < q
        <5>1. sent[p].seq < sent[q].seq
          BY <1>7, <2>1, <4>1 DEF Positions
        <5> QED
          BY <1>1, <1>7, <3>3, <5>1
      <4> QED
        BY <1>18, <2>3, <3>1, <3>2, <4>1
    <3>4. ASSUME NEW e \in Entries, e.seq <= sent[p].seq PROVE e.of \subseteq Got(r)'
      <4> SUFFICES ASSUME NEW q \in e.of PROVE q \in Got(r)'
        OBVIOUS
      <4>1. q \in Places
        <5>1. Fits(e)
          BY <1>1 DEF Shown
        <5> QED
          BY <1>1, <5>1 DEF Fits
      <4>2. CASE p < q
        <5>1. sent[p].seq < e.seq
          BY <1>7, <1>19, <4>2 DEF Sound, Numbered
        <5>2. e.seq \in Nat
          BY <1>1, <1>19, CounterBounds DEF Sound, Numbered
        <5> QED
          BY <1>7, <3>4, <5>1, <5>2
      <4> QED
        BY <1>18, <2>3, <3>1, <3>2, <4>1, <4>2
    <3>5. Underlined(r)'
      <4>1. lastid'[r] <= counter'
        BY <1>5, <1>7, <2>1, <3>1 DEF Positions
      <4>2. \A q \in Places' \ Deltas' : sent'[q].seq <= lastid'[r] => q \in Got(r)'
        BY <1>5, <1>14, <3>1, <3>3
      <4>3. \A e \in Entries' : e.seq <= lastid'[r] => e.of \subseteq Got(r)'
        BY <1>14, <3>1, <3>4
      <4> QED
        BY <4>1, <4>2, <4>3 DEF Underlined
    <3>6. ASSUME pending'[r] = Tail(old)
          PROVE  Places' \subseteq Got(r)' \cup ToSet(pending'[r])
      BY <1>14, <1>18, <2>2, <2>4, <3>1, <3>6
    <3>7. ASSUME NEW q \in Deltas, sent[q].seq < maxseq'[r] PROVE q \in Got(r)'
      <4>1. CASE maxseq'[r] = maxseq[r]
        BY <1>5, <1>18, <1>19, <3>7, <4>1 DEF Tailed
      <4>2. CASE maxseq'[r] = sent[p].seq
        <5>1. q \in Places /\ sent[q].seq \in Nat
          BY <1>1
        <5>2. CASE p < q
          <6>1. sent[p].seq <= sent[q].seq
            BY <1>7, <2>1, <5>1, <5>2 DEF Positions
          <6> QED
            BY <1>7, <3>7, <4>2, <5>1, <6>1
        <5> QED
          BY <1>18, <2>3, <3>1, <3>2, <5>1, <5>2
      <4> QED
        BY <3>1, <4>1, <4>2
    <3>8. Tailed(r)'
      BY <1>5, <1>10, <1>14, <3>6, <3>7 DEF Tailed
    <3> QED
      BY <3>5, <3>8
  <2> QED
    BY <2>5, <2>6
<1> QED
  BY <1>12, <1>13, <1>15, <1>17, <1>19, ReaderKeeps

-----------------------------------------------------------------------------

LEMMA InitiallyMiss == Init => MissInv
<1> SUFFICES ASSUME Init PROVE MissInv
  OBVIOUS
<1>1. Places = {} /\ Deltas = {}
  BY DEF Init, Places, Deltas
<1>2. \A s \in Streams : chain[s] = <<>> /\ Len(chain[s]) = 0
  BY DEF Init
<1>3. Entries = {}
  BY <1>2 DEF Init, Entries, Chain
<1>4. Shapes
  <2>1. /\ sent \in Seq(Crumb) /\ stream \in Nat /\ counter \in Nat
        /\ window \in Seq(Window) /\ chain \in [Streams -> Seq(LogEntry)]
    BY DEF Init
  <2>2. log = {} /\ IsFiniteSet(log) /\ stage = "idle"
    BY FS_EmptySet DEF Init
  <2>3. /\ pc \in [Readers -> {"off", "subscribed", "replayed", "live", "closed"}]
        /\ pending \in [Readers -> Seq(Nat)] /\ shown \in [Readers -> Seq(Nat)]
        /\ maxseq \in [Readers -> Nat] /\ lastid \in [Readers -> Nat]
        /\ text \in [Readers -> SUBSET Nat] /\ inflight \in [Readers -> SUBSET Nat]
    BY DEF Init
  <2> QED
    BY <2>1, <2>2, <2>3 DEF Shapes
<1>5. \A r \in Readers : Growing(r) /\ Queued(r) /\ Underlined(r) /\ Tailed(r)
  BY <1>1, <1>3 DEF Init, Growing, Queued, Underlined, Tailed
<1>6. WindowsFit /\ BoundariesCount
  BY <1>1 DEF Init, WindowsFit, BoundariesCount
<1>7. Numbered
  BY <1>1, <1>2, <1>3 DEF Init, Numbered, Positions, Ordered, InLine, Apart, StagesKnow
<1> QED
  BY <1>3, <1>4, <1>5, <1>6, <1>7 DEF MissInv, Shown

LEMMA MissSteps == MissInv /\ [Next]_vars => MissInv'
<1> SUFFICES ASSUME MissInv, [Next]_vars PROVE MissInv'
  OBVIOUS
<1>1. CASE Writer \/ Faulty
  BY <1>1, WritersTell, WriterKeeps DEF MissInv
<1>2. ASSUME NEW r \in Readers, Reader(r) \/ DropInReplay(r) \/ DropLive(r) PROVE MissInv'
  <2>1. CASE Subscribe(r)
    BY <2>1, MissOnSubscribe
  <2>2. CASE Refuse(r)
    BY <2>2, MissOnRefuse
  <2>3. CASE ReplayAll(r)
    BY <2>3, MissOnReplayAll
  <2>4. CASE Deliver(r)
    BY <2>4, MissOnDeliver
  <2>5. CASE DropInReplay(r)
    BY <2>5, MissOnDropInReplay
  <2>6. CASE DropLive(r)
    BY <2>6, MissOnDrop
  <2> QED
    BY <1>2, <2>1, <2>2, <2>3, <2>4, <2>5, <2>6 DEF Reader
<1>3. CASE UNCHANGED vars
  <2>1. /\ UNCHANGED <<sent, stage, stream, counter, window, chain, log, route>>
        /\ UNCHANGED <<pc, pending, maxseq, lastid, shown, text, inflight>>
    BY <1>3 DEF vars, writerVars, readerVars
  <2>2. Places' = Places /\ Deltas' = Deltas /\ Entries' = Entries
    BY <2>1 DEF Places, Deltas, Entries, Chain
  <2>3. Reused' = Reused /\ Torn' = Torn
    BY <2>1, <2>2 DEF Reused, Torn, Gone
  <2>4. Numbered => Numbered'
    BY <2>1, <2>2 DEF Numbered, Positions, Ordered, InLine, Apart, StagesKnow
  <2>5. Shapes' /\ WindowsFit' /\ BoundariesCount' /\ \A e \in Entries' : Fits(e)'
    BY <2>1, <2>2 DEF MissInv, Shown, Shapes, WindowsFit, BoundariesCount, Fits
  <2>6. ASSUME NEW r \in Readers
        PROVE  /\ Growing(r)' /\ Queued(r)'
               /\ Underlined(r) /\ Tailed(r) => Underlined(r)' /\ Tailed(r)'
    <3>1. Growing(r) /\ Queued(r)
      BY DEF MissInv, Shown
    <3>2. Got(r)' = Got(r)
      BY <2>1 DEF Got
    <3>3. Growing(r)'
      BY <2>1, <2>2, <3>1 DEF Growing
    <3>4. Queued(r)'
      BY <2>1, <2>2, <3>1 DEF Queued
    <3>5. Underlined(r) => Underlined(r)'
      BY <2>1, <2>2, <3>2 DEF Underlined
    <3>6. Tailed(r) => Tailed(r)'
      BY <2>1, <2>2, <3>2 DEF Tailed
    <3> QED
      BY <3>3, <3>4, <3>5, <3>6
  <2> QED
    BY <2>3, <2>4, <2>5, <2>6 DEF MissInv, Shown
<1> QED
  BY <1>1, <1>2, <1>3 DEF Next

\* Over all its connections, whatever the routes and whatever goes wrong, a
\* reader is sent no boundary crumb twice, and none after a later one unless a
\* number was given out again.
\* (http-chunked/src/transport.ts:273-299; a2a-server/src/v1/tasks.ts:79-121;
\* docs/transports.md:58-61.)
THEOREM InOrderAlways == Spec => []InOrder
<1>1. MissInv => InOrder
  <2> SUFFICES ASSUME MissInv, NEW r \in Readers,
                      NEW i \in DOMAIN shown[r], NEW j \in DOMAIN shown[r], i < j
               PROVE  IF Reused THEN shown[r][i] # shown[r][j] ELSE shown[r][i] < shown[r][j]
    BY DEF InOrder
  <2>1. Shapes /\ Growing(r) /\ shown[r] \in Seq(Nat)
    BY DEF MissInv, Shown, Shapes
  <2>2. DOMAIN shown[r] = 1..Len(shown[r])
    BY <2>1
  <2> DEFINE a == shown[r][i]
             b == shown[r][j]
  <2>3. a \in Places \ Deltas /\ b \in Places \ Deltas /\ sent[a].seq < sent[b].seq
    BY <2>1, <2>2 DEF Growing
  <2>4. /\ sent[a].seq \in Nat /\ sent[b].seq \in Nat /\ a \in Nat /\ b \in Nat
    BY <2>1, <2>3, PlacesAreNumbers
  <2> HIDE DEF a, b
  <2>5. a # b
    BY <2>3, <2>4
  <2>6. ~Reused => ~(b < a)
    BY <2>3, <2>4 DEF Reused
  <2> QED
    BY <2>4, <2>5, <2>6 DEF a, b
<1> QED
  BY <1>1, InitiallyMiss, MissSteps, PTL DEF Spec

\* A live reader that has looked at every frame has all crumbs but those that
\* were on their way to the log when it read it, as long as no number was given
\* out again and no write failed in front of one that landed.
\* (http-chunked/src/transport.ts:262-299; crumb-log.ts:97-108, 171-219.)
THEOREM MissedInFlightOnly == Spec => []MissesOnlyInFlight
<1>1. MissInv => MissesOnlyInFlight
  <2> SUFFICES ASSUME MissInv, NEW r \in Readers, AtRest(r), ~Reused, ~Hole
               PROVE  Places \subseteq Sent(r) \cup inflight[r]
    BY DEF MissesOnlyInFlight
  <2>1. ~Torn
    <3> SUFFICES ASSUME NEW p \in Places \ Deltas, Gone(p), NEW e \in log, e.seq > sent[p].seq
                 PROVE  FALSE
      BY DEF Torn
    <3>1. p \notin Logged
      BY DEF Gone, Logged, Entries
    <3> QED
      BY <3>1 DEF Hole
  <2>2. Tailed(r)
    BY <2>1 DEF MissInv
  <2>3. ToSet(pending[r]) = {}
    BY DEF AtRest, ToSet
  <2> QED
    BY <2>2, <2>3 DEF AtRest, Tailed, Got, Sent
<1> QED
  BY <1>1, InitiallyMiss, MissSteps, PTL DEF Spec

-----------------------------------------------------------------------------
(* Stores: a checkpoint is handed out once.                                *)

\* What the proofs need to know of the shape of a store.
MemShaped(m) == {"checkpoints", "claimed"} \subseteq DOMAIN m
ClaimRow == [id : Checkpoints, claimed : BOOLEAN, session : Sessions, exec : Executions]
SqlShaped(db) == "checkpoints" \in DOMAIN db /\ db.checkpoints \subseteq ClaimRow

\* A row of this checkpoint that a caller may still be given.
MemFree(m, c) == Has(m.checkpoints, c) /\ c \notin m.claimed
SqlFree(db, c) == \E r \in db.checkpoints : r.id = c /\ ~r.claimed

TInv ==
  /\ MemShaped(mem) /\ SqlShaped(lite) /\ SqlShaped(pg)
  /\ taken \in [Kinds -> [Checkpoints -> {0, 1}]]
  /\ \A c \in Checkpoints :
       /\ MemFree(mem, c) => taken["memory"][c] = 0
       /\ SqlFree(lite, c) => taken["sqlite"][c] = 0
       /\ SqlFree(pg, c) => taken["postgres"][c] = 0

\* What a call may do to the rows of checkpoints: one that was not free
\* becomes free only by being inserted, and one that is taken was free and is
\* not any more.
MemFair(m, call, takes) ==
  /\ MemShaped(call.db)
  /\ \A c \in Checkpoints :
       /\ MemFree(call.db, c) => MemFree(m, c) \/ ~Has(m.checkpoints, c)
       /\ c = takes /\ call.reply # None => MemFree(m, c) /\ ~MemFree(call.db, c)
SqlFair(db, call, takes) ==
  /\ SqlShaped(call.db)
  /\ \A c \in Checkpoints :
       /\ SqlFree(call.db, c) => SqlFree(db, c) \/ Key(db.checkpoints, c) = {}
       /\ c = takes /\ call.reply # None => SqlFree(db, c) /\ ~SqlFree(call.db, c)

LEMMA FairCall ==
  ASSUME TInv, NEW where, NEW m, NEW l, NEW p, NEW stray, NEW takes,
         Call(where, m, l, p, stray, takes),
         MemFair(mem, m, takes), SqlFair(lite, l, takes), SqlFair(pg, p, takes)
  PROVE  TInv'
<1>1. mem' = m.db /\ lite' = l.db /\ pg' = p.db BY DEF Call
<1>2. taken' = [k \in Kinds |-> [c \in Checkpoints |->
        CountTaken(c, Holds(c, mem, lite, pg), Holds(c, mem', lite', pg'),
          [memory |-> m.reply, sqlite |-> l.reply, postgres |-> p.reply], c = takes)[k]]]
  BY <1>1 DEF Call
<1>3. ASSUME NEW c \in Checkpoints
      PROVE  /\ taken'["memory"][c] =
                  IF ~Has(mem.checkpoints, c) /\ Has(mem'.checkpoints, c) THEN 0
                  ELSE taken["memory"][c] + (IF c = takes /\ m.reply # None THEN 1 ELSE 0)
             /\ taken'["sqlite"][c] =
                  IF ~(Key(lite.checkpoints, c) # {}) /\ Key(lite'.checkpoints, c) # {} THEN 0
                  ELSE taken["sqlite"][c] + (IF c = takes /\ l.reply # None THEN 1 ELSE 0)
             /\ taken'["postgres"][c] =
                  IF ~(Key(pg.checkpoints, c) # {}) /\ Key(pg'.checkpoints, c) # {} THEN 0
                  ELSE taken["postgres"][c] + (IF c = takes /\ p.reply # None THEN 1 ELSE 0)
  BY <1>2 DEF CountTaken, Holds, Kinds
<1>4. ASSUME NEW c \in Checkpoints
      PROVE  taken'["memory"][c] \in {0, 1} /\ (MemFree(mem', c) => taken'["memory"][c] = 0)
  <2> DEFINE there == Has(mem.checkpoints, c)
             after == Has(mem'.checkpoints, c)
             free == MemFree(mem, c)
             freed == MemFree(mem', c)
             takesIt == c = takes /\ m.reply # None
  <2>1. taken["memory"][c] \in {0, 1} /\ (free => taken["memory"][c] = 0) BY DEF TInv, Kinds
  <2>2. there \in BOOLEAN /\ after \in BOOLEAN /\ free \in BOOLEAN /\ freed \in BOOLEAN
        /\ takesIt \in BOOLEAN
    BY DEF Has, MemFree
  <2>3. (free => there) /\ (freed => after) BY DEF MemFree
  <2>4. (freed => free \/ ~there) /\ (takesIt => free /\ ~freed) BY <1>1 DEF MemFair
  <2>5. taken'["memory"][c] =
          IF ~there /\ after THEN 0 ELSE taken["memory"][c] + (IF takesIt THEN 1 ELSE 0)
    BY <1>3
  <2> HIDE DEF there, after, free, freed, takesIt
  <2>6. taken'["memory"][c] \in {0, 1} /\ (freed => taken'["memory"][c] = 0)
    BY <2>1, <2>2, <2>3, <2>4, <2>5
  <2> QED BY <2>6 DEF freed
<1>5. ASSUME NEW c \in Checkpoints
      PROVE  taken'["sqlite"][c] \in {0, 1} /\ (SqlFree(lite', c) => taken'["sqlite"][c] = 0)
  <2> DEFINE there == Key(lite.checkpoints, c) # {}
             after == Key(lite'.checkpoints, c) # {}
             free == SqlFree(lite, c)
             freed == SqlFree(lite', c)
             takesIt == c = takes /\ l.reply # None
  <2>1. taken["sqlite"][c] \in {0, 1} /\ (free => taken["sqlite"][c] = 0) BY DEF TInv, Kinds
  <2>2. there \in BOOLEAN /\ after \in BOOLEAN /\ free \in BOOLEAN /\ freed \in BOOLEAN
        /\ takesIt \in BOOLEAN
    BY DEF SqlFree
  <2>3. (free => there) /\ (freed => after) BY DEF SqlFree, Key
  <2>4. (freed => free \/ ~there) /\ (takesIt => free /\ ~freed) BY <1>1 DEF SqlFair
  <2>5. taken'["sqlite"][c] =
          IF ~there /\ after THEN 0 ELSE taken["sqlite"][c] + (IF takesIt THEN 1 ELSE 0)
    BY <1>3
  <2> HIDE DEF there, after, free, freed, takesIt
  <2>6. taken'["sqlite"][c] \in {0, 1} /\ (freed => taken'["sqlite"][c] = 0)
    BY <2>1, <2>2, <2>3, <2>4, <2>5
  <2> QED BY <2>6 DEF freed
<1>6. ASSUME NEW c \in Checkpoints
      PROVE  taken'["postgres"][c] \in {0, 1} /\ (SqlFree(pg', c) => taken'["postgres"][c] = 0)
  <2> DEFINE there == Key(pg.checkpoints, c) # {}
             after == Key(pg'.checkpoints, c) # {}
             free == SqlFree(pg, c)
             freed == SqlFree(pg', c)
             takesIt == c = takes /\ p.reply # None
  <2>1. taken["postgres"][c] \in {0, 1} /\ (free => taken["postgres"][c] = 0) BY DEF TInv, Kinds
  <2>2. there \in BOOLEAN /\ after \in BOOLEAN /\ free \in BOOLEAN /\ freed \in BOOLEAN
        /\ takesIt \in BOOLEAN
    BY DEF SqlFree
  <2>3. (free => there) /\ (freed => after) BY DEF SqlFree, Key
  <2>4. (freed => free \/ ~there) /\ (takesIt => free /\ ~freed) BY <1>1 DEF SqlFair
  <2>5. taken'["postgres"][c] =
          IF ~there /\ after THEN 0 ELSE taken["postgres"][c] + (IF takesIt THEN 1 ELSE 0)
    BY <1>3
  <2> HIDE DEF there, after, free, freed, takesIt
  <2>6. taken'["postgres"][c] \in {0, 1} /\ (freed => taken'["postgres"][c] = 0)
    BY <2>1, <2>2, <2>3, <2>4, <2>5
  <2> QED BY <2>6 DEF freed
<1>7. taken' \in [Kinds -> [Checkpoints -> {0, 1}]]
  <2>1. taken' = [k \in Kinds |-> taken'[k]] /\ DOMAIN taken' = Kinds BY <1>2
  <2>2. \A k \in Kinds : taken'[k] \in [Checkpoints -> {0, 1}]
    <3>1. \A k \in Kinds : DOMAIN taken'[k] = Checkpoints
                           /\ taken'[k] = [c \in Checkpoints |-> taken'[k][c]]
      BY <1>2
    <3>2. \A k \in Kinds : \A c \in Checkpoints : taken'[k][c] \in {0, 1}
      BY <1>4, <1>5, <1>6 DEF Kinds
    <3> QED BY <3>1, <3>2
  <2> QED BY <2>1, <2>2
<1>8. MemShaped(mem') /\ SqlShaped(lite') /\ SqlShaped(pg')
  BY <1>1 DEF MemFair, SqlFair
<1> QED
  <2>1. \A c \in Checkpoints :
          /\ MemFree(mem', c) => taken'["memory"][c] = 0
          /\ SqlFree(lite', c) => taken'["sqlite"][c] = 0
          /\ SqlFree(pg', c) => taken'["postgres"][c] = 0
    BY <1>4, <1>5, <1>6
  <2> QED BY <1>7, <1>8, <2>1 DEF TInv, MemShaped, SqlShaped, MemFree, SqlFree, ClaimRow

-----------------------------------------------------------------------------
(* The calls that leave the rows of checkpoints alone or only remove some. *)

LEMMA MemKeeps ==
  ASSUME NEW m, NEW call, NEW takes, takes \notin Checkpoints \/ call.reply = None,
         MemShaped(call.db), call.db.claimed = m.claimed,
         call.db.checkpoints = m.checkpoints
  PROVE  MemFair(m, call, takes)
BY DEF MemFair, MemFree

LEMMA SqlShrinks ==
  ASSUME NEW db, NEW call, NEW takes, takes \notin Checkpoints \/ call.reply = None,
         SqlShaped(db), "checkpoints" \in DOMAIN call.db,
         call.db.checkpoints \subseteq db.checkpoints
  PROVE  SqlFair(db, call, takes)
BY DEF SqlFair, SqlFree, SqlShaped

\* The cascade of the memory store removes the rows of a session with their
\* claims.
LEMMA MemCascades ==
  ASSUME NEW m, MemShaped(m), NEW ids, NEW reply, NEW takes, takes \notin Checkpoints
  PROVE  MemFair(m, Same(RemoveSessions(m, ids), reply), takes)
<1> DEFINE new == RemoveSessions(m, ids)
           gone == CheckpointsOf(m, ids)
<1>1. MemShaped(new) BY DEF RemoveSessions, MemShaped
<1>2. new.checkpoints = Drop(m.checkpoints, gone) /\ new.claimed = m.claimed \ gone
  BY DEF RemoveSessions, MemShaped
<1> HIDE DEF new, gone
<1>3. ASSUME NEW c \in Checkpoints, MemFree(new, c) PROVE MemFree(m, c)
  BY <1>2, <1>3 DEF MemFree, Has, Drop
<1>4. Same(new, reply).db = new BY DEF Same
<1> QED BY <1>1, <1>3, <1>4 DEF MemFair, new

\* Deleting sessions in SQL takes their checkpoints along.
LEMMA SqlCascades ==
  ASSUME NEW db, SqlShaped(db), NEW rows, NEW reply, NEW takes, takes \notin Checkpoints
  PROVE  SqlFair(db, Same(DeleteSessions(db, rows), reply), takes)
<1>1. Same(DeleteSessions(db, rows), reply).db = DeleteSessions(db, rows) BY DEF Same
<1>2. "checkpoints" \in DOMAIN DeleteSessions(db, rows)
      /\ DeleteSessions(db, rows).checkpoints \subseteq db.checkpoints
  BY DEF DeleteSessions, SqlShaped
<1> QED BY <1>1, <1>2, SqlShrinks

\* A transaction keeps the checkpoints of one of the two states.
LEMMA CommitKeeps ==
  ASSUME NEW db, SqlShaped(db), NEW new, NEW reply, NEW takes, takes \notin Checkpoints,
         "checkpoints" \in DOMAIN new, new.checkpoints = db.checkpoints
  PROVE  SqlFair(db, Commit(db, new, reply), takes)
<1>1. Commit(db, new, reply).db \in {db, new} BY DEF Commit, Same
<1>2. Commit(db, new, reply).db.checkpoints \subseteq db.checkpoints
      /\ "checkpoints" \in DOMAIN Commit(db, new, reply).db
  BY <1>1 DEF SqlShaped
<1> QED BY <1>2, SqlShrinks

-----------------------------------------------------------------------------
(* The calls on a checkpoint.                                              *)

LEMMA MemSaves ==
  ASSUME NEW m, MemShaped(m), NEW c, NEW row, NEW takes, takes \notin Checkpoints
  PROVE  MemFair(m, MemSaveCheckpoint(m, c, row), takes)
<1> DEFINE new == [m EXCEPT !.checkpoints = Put(@, c, row)]
<1>1. MemSaveCheckpoint(m, c, row).db = new BY DEF MemSaveCheckpoint, Same
<1>2. MemShaped(new) /\ new.claimed = m.claimed
      /\ new.checkpoints = Put(m.checkpoints, c, row)
  BY DEF MemShaped
<1> HIDE DEF new
<1>3. ASSUME NEW d \in Checkpoints, MemFree(new, d)
      PROVE  MemFree(m, d) \/ ~Has(m.checkpoints, d)
  BY <1>2, <1>3 DEF MemFree, Has
<1> QED BY <1>1, <1>2, <1>3 DEF MemFair

LEMMA MemClaims ==
  ASSUME NEW m, MemShaped(m), NEW c \in Checkpoints
  PROVE  MemFair(m, MemClaimCheckpoint(m, c), c)
<1>1. CASE ~Has(m.checkpoints, c) \/ c \in m.claimed
  BY <1>1, MemKeeps DEF MemClaimCheckpoint, Same
<1>2. CASE MemFree(m, c)
  <2> DEFINE new == [m EXCEPT !.claimed = @ \cup {c}]
  <2>1. MemClaimCheckpoint(m, c).db = new
    BY <1>2 DEF MemClaimCheckpoint, Same, MemFree
  <2>2. MemShaped(new) /\ new.claimed = m.claimed \cup {c}
        /\ new.checkpoints = m.checkpoints
    BY DEF MemShaped
  <2> HIDE DEF new
  <2> QED BY <1>2, <2>1, <2>2 DEF MemFair, MemFree
<1> QED BY <1>1, <1>2 DEF MemFree

LEMMA MemDeletes ==
  ASSUME NEW m, MemShaped(m), NEW c \in Checkpoints, None \notin Checkpoints,
         NEW only \in BOOLEAN
  PROVE  MemFair(m, MemDeleteCheckpoint(m, c, only), IF only THEN c ELSE None)
<1>1. CASE only /\ c \in m.claimed
  BY <1>1, MemKeeps DEF MemDeleteCheckpoint, Same
<1>2. CASE ~(only /\ c \in m.claimed)
  <2> DEFINE new == [m EXCEPT !.checkpoints = Drop(@, {c}), !.claimed = @ \ {c}]
             call == MemDeleteCheckpoint(m, c, only)
  <2>1. call.db = new /\ call.reply = At(m.checkpoints, c, None)
    BY <1>2 DEF MemDeleteCheckpoint, Same
  <2>2. MemShaped(new) /\ new.claimed = m.claimed \ {c}
        /\ new.checkpoints = Drop(m.checkpoints, {c})
    BY DEF MemShaped
  <2> HIDE DEF new, call
  <2>3. ASSUME NEW d \in Checkpoints, MemFree(new, d) PROVE MemFree(m, d) /\ d # c
    BY <2>2, <2>3 DEF MemFree, Has, Drop
  <2>4. ASSUME only, call.reply # None PROVE MemFree(m, c)
    BY <1>2, <2>1, <2>4 DEF MemFree, At
  <2>5. \A d \in Checkpoints : d = (IF only THEN c ELSE None) => only /\ d = c
    OBVIOUS
  <2> QED BY <2>1, <2>2, <2>3, <2>4, <2>5 DEF MemFair, call
<1> QED BY <1>1, <1>2

LEMMA UpsertFair ==
  ASSUME NEW db, SqlShaped(db), NEW c \in Checkpoints, NEW row \in CheckpointRows
  PROVE  LET new == Upsert(db, c, row) IN
         /\ SqlShaped(new)
         /\ \A d \in Checkpoints : SqlFree(new, d) => SqlFree(db, d) \/ Key(db.checkpoints, d) = {}
<1> DEFINE new == Upsert(db, c, row)
           was == \E r \in Key(db.checkpoints, c) : r.claimed
           line == [id |-> c, claimed |-> was, session |-> row.session, exec |-> row.exec]
<1>1. "checkpoints" \in DOMAIN new
      /\ new.checkpoints = (db.checkpoints \ Key(db.checkpoints, c)) \cup {line}
  BY DEF Upsert, SqlShaped
<1>2. line \in ClaimRow /\ line.id = c /\ line.claimed = was
  BY DEF ClaimRow, CheckpointRows
<1> HIDE DEF new, line
<1>3. SqlShaped(new) BY <1>1, <1>2 DEF SqlShaped
<1>4. ASSUME NEW d \in Checkpoints, SqlFree(new, d)
      PROVE  SqlFree(db, d) \/ Key(db.checkpoints, d) = {}
  <2>1. PICK r \in new.checkpoints : r.id = d /\ ~r.claimed BY <1>4 DEF SqlFree
  <2>2. CASE r \in db.checkpoints BY <2>1, <2>2 DEF SqlFree
  <2>3. CASE r = line
    <3>1. d = c /\ ~was BY <1>2, <2>1, <2>3
    <3> QED BY <3>1 DEF SqlFree, Key
  <2> QED BY <1>1, <2>1, <2>2, <2>3
<1> QED BY <1>3, <1>4 DEF new

LEMMA SqlSaves ==
  ASSUME NEW db, SqlShaped(db), NEW base, SqlShaped(base),
         base.checkpoints = db.checkpoints, NEW c \in Checkpoints,
         NEW row \in CheckpointRows, NEW takes, takes \notin Checkpoints
  PROVE  SqlFair(db, Commit(db, Upsert(base, c, row), Ok), takes)
<1>1. Commit(db, Upsert(base, c, row), Ok).db \in {db, Upsert(base, c, row)}
  BY DEF Commit, Same
<1>2. /\ SqlShaped(Upsert(base, c, row))
      /\ \A d \in Checkpoints :
           SqlFree(Upsert(base, c, row), d) => SqlFree(base, d) \/ Key(base.checkpoints, d) = {}
  BY UpsertFair
<1>3. \A d \in Checkpoints : SqlFree(base, d) => SqlFree(db, d) BY DEF SqlFree
<1> QED BY <1>1, <1>2, <1>3 DEF SqlFair

LEMMA SqlClaims ==
  ASSUME NEW db, SqlShaped(db), NEW c \in Checkpoints
  PROVE  SqlFair(db, SqlClaimCheckpoint(db, c), c)
<1> DEFINE hit == {r \in Key(db.checkpoints, c) : ~r.claimed}
           new == [db EXCEPT !.checkpoints = (@ \ hit) \cup {[r EXCEPT !.claimed = TRUE] : r \in hit}]
           call == SqlClaimCheckpoint(db, c)
<1>1. call.db = new /\ call.reply = Returning(hit) BY DEF SqlClaimCheckpoint, Same
<1>2. "checkpoints" \in DOMAIN new
      /\ new.checkpoints = (db.checkpoints \ hit) \cup {[r EXCEPT !.claimed = TRUE] : r \in hit}
  BY DEF SqlShaped
<1>3. \A r \in hit : r \in ClaimRow /\ r.id = c BY DEF Key, SqlShaped
<1>4. \A r \in ClaimRow : [r EXCEPT !.claimed = TRUE] \in ClaimRow
        /\ [r EXCEPT !.claimed = TRUE].claimed = TRUE
  BY DEF ClaimRow
<1> HIDE DEF new, call
<1>5. SqlShaped(new)
  <2>1. new.checkpoints \subseteq ClaimRow BY <1>2, <1>3, <1>4 DEF SqlShaped
  <2> QED BY <1>2, <2>1 DEF SqlShaped
<1>6. ASSUME NEW d \in Checkpoints, SqlFree(new, d) PROVE SqlFree(db, d) /\ d # c
  <2>1. PICK r \in new.checkpoints : r.id = d /\ ~r.claimed BY <1>6 DEF SqlFree
  <2>2. r \in db.checkpoints \ hit BY <1>2, <1>3, <1>4, <2>1
  <2> QED BY <2>1, <2>2 DEF SqlFree, Key
<1>7. ASSUME call.reply # None PROVE SqlFree(db, c)
  <2>1. hit # {} BY <1>1, <1>7 DEF Returning
  <2> QED BY <2>1 DEF SqlFree, Key
<1> QED BY <1>1, <1>5, <1>6, <1>7 DEF SqlFair, call

LEMMA SqlDeletes ==
  ASSUME NEW db, SqlShaped(db), NEW c \in Checkpoints, None \notin Checkpoints,
         NEW only \in BOOLEAN
  PROVE  SqlFair(db, SqlDeleteCheckpoint(db, c, only), IF only THEN c ELSE None)
<1> DEFINE hit == {r \in Key(db.checkpoints, c) : only => ~r.claimed}
           new == [db EXCEPT !.checkpoints = @ \ hit]
           call == SqlDeleteCheckpoint(db, c, only)
<1>1. call.db = new /\ call.reply = Returning(hit) BY DEF SqlDeleteCheckpoint, Same
<1>2. "checkpoints" \in DOMAIN new /\ new.checkpoints = db.checkpoints \ hit
  BY DEF SqlShaped
<1> HIDE DEF new, call
<1>3. SqlShaped(new) BY <1>2 DEF SqlShaped
<1>4. \A d \in Checkpoints : SqlFree(new, d) => SqlFree(db, d) BY <1>2 DEF SqlFree
<1>5. ASSUME only, call.reply # None PROVE SqlFree(db, c) /\ ~SqlFree(new, c)
  <2>1. hit # {} BY <1>1, <1>5 DEF Returning
  <2>2. SqlFree(db, c) BY <1>5, <2>1 DEF SqlFree, Key
  <2>3. ~SqlFree(new, c) BY <1>2, <1>5 DEF SqlFree, Key
  <2> QED BY <2>2, <2>3
<1>6. \A d \in Checkpoints : d = (IF only THEN c ELSE None) => only /\ d = c
  OBVIOUS
<1> QED BY <1>1, <1>3, <1>4, <1>5, <1>6 DEF SqlFair, call

-----------------------------------------------------------------------------
(* Every call is fair, so a step keeps TInv.                               *)

LEMMA InitCounts == StoresInit => TInv
<1> SUFFICES ASSUME StoresInit PROVE TInv OBVIOUS
<1>1. MemShaped(mem) /\ SqlShaped(lite) /\ SqlShaped(pg)
  BY DEF StoresInit, MemShaped, SqlShaped, MemEmpty, SqlEmpty
<1>2. taken \in [Kinds -> [Checkpoints -> {0, 1}]] BY DEF StoresInit
<1>3. \A k \in Kinds, c \in Checkpoints : taken[k][c] = 0 BY DEF StoresInit
<1> QED BY <1>1, <1>2, <1>3 DEF TInv, Kinds

LEMMA SessionCalls ==
  ASSUME TInv, NEW s \in Sessions,
         \/ \E o \in Owners \cup {None}, t \in Tags : CreateSession(s, o, t)
         \/ \E o \in Owners : ClaimSessionPrincipal(s, o) \/ DeleteSessionForPrincipal(s, o)
         \/ DeleteSession(s)
         \/ \E t \in Stamps : AddMessage(s, t)
  PROVE  TInv'
<1>0. None \notin Checkpoints BY NoneAssumption
<1>s. MemShaped(mem) /\ SqlShaped(lite) /\ SqlShaped(pg) BY DEF TInv
<1>1. ASSUME NEW o, NEW t, CreateSession(s, o, t) PROVE TInv'
  <2>1. MemFair(mem, MemCreateSession(mem, s, o, t, now), None)
    <3>1. LET new == MemCreateSession(mem, s, o, t, now).db IN
          MemShaped(new) /\ new.checkpoints = mem.checkpoints /\ new.claimed = mem.claimed
      BY <1>s DEF MemCreateSession, Same, MemShaped
    <3> QED BY <1>0, <3>1, MemKeeps
  <2>2. ASSUME NEW db, SqlShaped(db) PROVE SqlFair(db, SqlCreateSession(db, s, o, t, now), None)
    <3>1. LET new == SqlCreateSession(db, s, o, t, now).db IN
          "checkpoints" \in DOMAIN new /\ new.checkpoints \subseteq db.checkpoints
      BY <2>2 DEF SqlCreateSession, Same, SqlShaped
    <3> QED BY <1>0, <2>2, <3>1, SqlShrinks
  <2> QED BY <1>1, <1>s, <2>1, <2>2, FairCall DEF CreateSession
<1>2. ASSUME NEW o, ClaimSessionPrincipal(s, o) PROVE TInv'
  <2>1. MemFair(mem, MemClaimPrincipal(mem, s, o), None)
    <3>1. LET new == MemClaimPrincipal(mem, s, o).db IN
          MemShaped(new) /\ new.checkpoints = mem.checkpoints /\ new.claimed = mem.claimed
      BY <1>s DEF MemClaimPrincipal, Same, MemShaped
    <3> QED BY <1>0, <3>1, MemKeeps
  <2>2. ASSUME NEW db, SqlShaped(db) PROVE SqlFair(db, SqlClaimPrincipal(db, s, o), None)
    <3>1. LET new == SqlClaimPrincipal(db, s, o).db IN
          "checkpoints" \in DOMAIN new /\ new.checkpoints \subseteq db.checkpoints
      BY <2>2 DEF SqlClaimPrincipal, Same, SqlShaped
    <3> QED BY <1>0, <2>2, <3>1, SqlShrinks
  <2> QED BY <1>2, <1>s, <2>1, <2>2, FairCall DEF ClaimSessionPrincipal
<1>3. ASSUME NEW o, DeleteSessionForPrincipal(s, o) PROVE TInv'
  <2>1. MemFair(mem, MemDeleteForPrincipal(mem, s, o), None)
    <3>1. MemFair(mem, Same(RemoveSessions(mem, {s}), TRUE), None) BY <1>0, <1>s, MemCascades
    <3>2. MemFair(mem, Same(mem, FALSE), None) BY <1>0, <1>s, MemKeeps DEF Same
    <3> QED BY <3>1, <3>2 DEF MemDeleteForPrincipal
  <2>2. ASSUME NEW db, SqlShaped(db) PROVE SqlFair(db, SqlDeleteForPrincipal(db, s, o), None)
    BY <1>0, <2>2, SqlCascades DEF SqlDeleteForPrincipal
  <2> QED BY <1>3, <1>s, <2>1, <2>2, FairCall DEF DeleteSessionForPrincipal
<1>4. ASSUME DeleteSession(s) PROVE TInv'
  <2>1. MemFair(mem, MemDeleteSession(mem, s), None)
    BY <1>0, <1>s, MemCascades DEF MemDeleteSession
  <2>2. ASSUME NEW db, SqlShaped(db) PROVE SqlFair(db, SqlDeleteSession(db, s), None)
    BY <1>0, <2>2, SqlCascades DEF SqlDeleteSession
  <2> QED BY <1>4, <1>s, <2>1, <2>2, FairCall DEF DeleteSession
<1>5. ASSUME NEW t, AddMessage(s, t) PROVE TInv'
  <2> DEFINE msg == [id |-> minted + 1, stamp |-> t]
  <2>0. PICK stray : Call({"rows"}, MemAddMessage(mem, s, msg, now), SqlAddMessage(lite, s, msg),
                          SqlAddMessage(pg, s, msg), stray, None)
    BY <1>5 DEF AddMessage
  <2> HIDE DEF msg
  <2>1. MemFair(mem, MemAddMessage(mem, s, msg, now), None)
    <3>1. LET new == MemAddMessage(mem, s, msg, now).db IN
          MemShaped(new) /\ new.checkpoints = mem.checkpoints /\ new.claimed = mem.claimed
      BY <1>s DEF MemAddMessage, MemAdd, Same, MemShaped
    <3> QED BY <1>0, <3>1, MemKeeps
  <2>2. ASSUME NEW db, SqlShaped(db) PROVE SqlFair(db, SqlAddMessage(db, s, msg), None)
    <3>1. LET new == Touch(InsertMessage(db, s, msg), s, msg.stamp) IN
          "checkpoints" \in DOMAIN new /\ new.checkpoints = db.checkpoints
      BY <2>2 DEF Touch, InsertMessage, SqlShaped
    <3> QED BY <1>0, <2>2, <3>1, CommitKeeps DEF SqlAddMessage
  <2> QED BY <1>s, <2>0, <2>1, <2>2, FairCall
<1> QED BY <1>1, <1>2, <1>3, <1>4, <1>5

LEMMA CleanupCalls ==
  ASSUME TInv, NEW age, NEW o, NEW t, CleanupSessions(age, o, t)
  PROVE  TInv'
<1>0. None \notin Checkpoints BY NoneAssumption
<1>s. MemShaped(mem) /\ SqlShaped(lite) /\ SqlShaped(pg) BY DEF TInv
<1>1. MemFair(mem, MemCleanup(mem, age, o, t, now), None)
  BY <1>0, <1>s, MemCascades DEF MemCleanup
<1>2. SqlFair(lite, LiteCleanup(lite, age, o, t, now), None)
  BY <1>0, <1>s, SqlCascades DEF LiteCleanup
<1>3. SqlFair(pg, PgCleanup(pg, age, o, t, now), None)
  <2>1. CASE age = 0
    <3>1. SqlFair(pg, Same(pg, {}), None) BY <1>0, <1>s, SqlShrinks DEF Same, SqlShaped
    <3> QED BY <2>1, <3>1 DEF PgCleanup
  <2>2. CASE age # 0 BY <1>0, <1>s, <2>2, SqlCascades DEF PgCleanup
  <2> QED BY <2>1, <2>2
<1> QED BY <1>1, <1>2, <1>3, FairCall DEF CleanupSessions

LEMMA CheckpointCalls ==
  ASSUME TInv, NEW c \in Checkpoints,
         \/ \E row \in CheckpointRows : SaveCheckpoint(c, row)
         \/ ClaimCheckpoint(c)
         \/ \E only \in BOOLEAN : DeleteCheckpoint(c, only)
         \/ \E s \in Sessions, t \in Stamps, x \in Executions :
              SuspendRun(s, t, c, [session |-> s, exec |-> x])
  PROVE  TInv'
<1>0. None \notin Checkpoints BY NoneAssumption
<1>s. MemShaped(mem) /\ SqlShaped(lite) /\ SqlShaped(pg) BY DEF TInv
<1>1. ASSUME NEW row \in CheckpointRows, SaveCheckpoint(c, row) PROVE TInv'
  <2>1. MemFair(mem, MemSaveCheckpoint(mem, c, row), None) BY <1>0, <1>s, MemSaves
  <2>2. ASSUME NEW db, SqlShaped(db) PROVE SqlFair(db, SqlSaveCheckpoint(db, c, row), None)
    BY <1>0, <2>2, SqlSaves DEF SqlSaveCheckpoint
  <2> QED BY <1>1, <1>s, <2>1, <2>2, FairCall DEF SaveCheckpoint
<1>2. ASSUME ClaimCheckpoint(c) PROVE TInv'
  BY <1>2, <1>s, MemClaims, SqlClaims, FairCall DEF ClaimCheckpoint
<1>3. ASSUME NEW only \in BOOLEAN, DeleteCheckpoint(c, only) PROVE TInv'
  <2> DEFINE takes == IF only THEN c ELSE None
  <2>0. Call({"rows"}, MemDeleteCheckpoint(mem, c, only), SqlDeleteCheckpoint(lite, c, only),
             SqlDeleteCheckpoint(pg, c, only), FALSE, takes)
    BY <1>3 DEF DeleteCheckpoint
  <2>1. MemFair(mem, MemDeleteCheckpoint(mem, c, only), takes) BY <1>0, <1>s, MemDeletes
  <2>2. SqlFair(lite, SqlDeleteCheckpoint(lite, c, only), takes) BY <1>0, <1>s, SqlDeletes
  <2>3. SqlFair(pg, SqlDeleteCheckpoint(pg, c, only), takes) BY <1>0, <1>s, SqlDeletes
  <2> HIDE DEF takes
  <2> QED BY <2>0, <2>1, <2>2, <2>3, FairCall
<1>4. ASSUME NEW s \in Sessions, NEW t, NEW x \in Executions,
             SuspendRun(s, t, c, [session |-> s, exec |-> x])
      PROVE  TInv'
  <2> DEFINE msg == [id |-> minted + 1, stamp |-> t]
             row == [session |-> s, exec |-> x]
  <2>0. PICK stray : Call({"rows"}, MemSuspendRun(mem, s, msg, c, row, now),
                          SqlSuspendRun(lite, s, msg, c, row),
                          SqlSuspendRun(pg, s, msg, c, row), stray, None)
    BY <1>4 DEF SuspendRun
  <2>r. row \in CheckpointRows BY DEF CheckpointRows
  <2> HIDE DEF msg, row
  <2>1. MemFair(mem, MemSuspendRun(mem, s, msg, c, row, now), None)
    <3>1. CASE ~Has(mem.sessions, s)
      BY <1>0, <1>s, <3>1, MemKeeps DEF MemSuspendRun, Same
    <3>2. CASE Has(mem.sessions, s)
      <4> DEFINE base == MemAdd(mem, s, msg, now)
      <4>1. MemShaped(base) /\ base.checkpoints = mem.checkpoints /\ base.claimed = mem.claimed
        BY <1>s DEF MemAdd, MemShaped
      <4>2. MemSuspendRun(mem, s, msg, c, row, now) = MemSaveCheckpoint(base, c, row)
        BY <3>2 DEF MemSuspendRun
      <4> HIDE DEF base
      <4>3. MemFair(base, MemSaveCheckpoint(base, c, row), None) BY <1>0, <4>1, MemSaves
      <4> QED BY <4>1, <4>2, <4>3 DEF MemFair, MemFree
    <3> QED BY <3>1, <3>2
  <2>2. ASSUME NEW db, SqlShaped(db) PROVE SqlFair(db, SqlSuspendRun(db, s, msg, c, row), None)
    <3> DEFINE base == Touch(InsertMessage(db, s, msg), s, msg.stamp)
    <3>1. SqlShaped(base) /\ base.checkpoints = db.checkpoints
      BY <2>2 DEF Touch, InsertMessage, SqlShaped
    <3>2. SqlSuspendRun(db, s, msg, c, row) = Commit(db, Upsert(base, c, row), Ok)
      BY DEF SqlSuspendRun
    <3> HIDE DEF base
    <3> QED BY <1>0, <2>2, <2>r, <3>1, <3>2, SqlSaves
  <2> QED BY <1>s, <2>0, <2>1, <2>2, FairCall
<1> QED BY <1>1, <1>2, <1>3, <1>4

LEMMA LogCalls ==
  ASSUME TInv, NEW r, NEW q, NEW s, AppendCrumbs(r, q, s)
  PROVE  TInv'
<1>0. None \notin Checkpoints BY NoneAssumption
<1>s. MemShaped(mem) /\ SqlShaped(lite) /\ SqlShaped(pg) BY DEF TInv
<1> DEFINE entry == [seq |-> q, session |-> s]
<1>1. PICK stray : Call({"log"}, MemAppendCrumb(mem, r, entry), SqlAppendCrumb(lite, r, entry),
                        SqlAppendCrumb(pg, r, entry), stray, None)
  BY DEF AppendCrumbs
<1> HIDE DEF entry
<1>2. MemFair(mem, MemAppendCrumb(mem, r, entry), None)
  <2>1. LET new == MemAppendCrumb(mem, r, entry).db IN
        MemShaped(new) /\ new.checkpoints = mem.checkpoints /\ new.claimed = mem.claimed
    BY <1>s DEF MemAppendCrumb, Same, MemShaped
  <2> QED BY <1>0, <2>1, MemKeeps
<1>3. ASSUME NEW db, SqlShaped(db) PROVE SqlFair(db, SqlAppendCrumb(db, r, entry), None)
  <2>1. SqlFair(db, Same(db, Error), None) BY <1>0, <1>3, SqlShrinks DEF Same, SqlShaped
  <2>2. SqlFair(db, Commit(db, [db EXCEPT !.crumbs = @ \cup {[run |-> r] @@ entry}], Ok), None)
    <3> DEFINE new == [db EXCEPT !.crumbs = @ \cup {[run |-> r] @@ entry}]
    <3>1. "checkpoints" \in DOMAIN new /\ new.checkpoints = db.checkpoints
      BY <1>3 DEF SqlShaped
    <3> HIDE DEF new
    <3>2. SqlFair(db, Commit(db, new, Ok), None) BY <1>0, <1>3, <3>1, CommitKeeps
    <3> QED BY <3>2 DEF new
  <2> QED BY <2>1, <2>2 DEF SqlAppendCrumb
<1> QED BY <1>s, <1>1, <1>2, <1>3, FairCall

-----------------------------------------------------------------------------
(* The other areas of the store never touch a checkpoint.                  *)

LEMMA ElsewhereFair ==
  ASSUME TInv, NEW where, NEW m, NEW l, NEW p, NEW stray,
         Call(where, m, l, p, stray, None),
         {"checkpoints", "claimed"} \subseteq DOMAIN m.db,
         m.db.checkpoints = mem.checkpoints, m.db.claimed = mem.claimed,
         "checkpoints" \in DOMAIN l.db, l.db.checkpoints = lite.checkpoints,
         "checkpoints" \in DOMAIN p.db, p.db.checkpoints = pg.checkpoints
  PROVE  TInv'
<1>0. None \notin Checkpoints BY NoneAssumption
<1>s. MemShaped(mem) /\ SqlShaped(lite) /\ SqlShaped(pg) BY DEF TInv
<1>1. MemFair(mem, m, None) BY <1>0, MemKeeps DEF MemShaped
<1>2. SqlFair(lite, l, None) /\ SqlFair(pg, p, None) BY <1>0, <1>s, SqlShrinks
<1> QED BY <1>1, <1>2, FairCall

LEMMA CreateLoopKeeps ==
  ASSUME TInv, NEW l, NEW agent, CreateLoop(l, agent)
  PROVE  TInv'
<1>s. MemShaped(mem) /\ SqlShaped(lite) /\ SqlShaped(pg) BY DEF TInv
<1> DEFINE row == [agent |-> agent, status |-> "running", iterations |-> 0, result |-> None,
                      lastOutput |-> None]
<1>1. PICK stray : Call({"loops"}, MemCreateLoop(mem, l, row), SqlCreateLoop(lite, l, row),
                        SqlCreateLoop(pg, l, row), stray, None)
  BY DEF CreateLoop
<1> HIDE DEF row
<1>2. LET new == MemCreateLoop(mem, l, row).db IN
      {"checkpoints", "claimed"} \subseteq DOMAIN new
      /\ new.checkpoints = mem.checkpoints /\ new.claimed = mem.claimed
  BY <1>s DEF MemCreateLoop, Same, MemShaped
<1>3. ASSUME NEW db, SqlShaped(db)
      PROVE  LET new == SqlCreateLoop(db, l, row).db IN
             "checkpoints" \in DOMAIN new /\ new.checkpoints = db.checkpoints
  BY <1>3 DEF SqlCreateLoop, Same, SqlShaped
<1> QED BY <1>s, <1>1, <1>2, <1>3, ElsewhereFair

LEMMA AddLoopIterationKeeps ==
  ASSUME TInv, NEW l, AddLoopIteration(l)
  PROVE  TInv'
<1>s. MemShaped(mem) /\ SqlShaped(lite) /\ SqlShaped(pg) BY DEF TInv
<1> DEFINE index == Len(At(mem.iterations, l, <<>>)) + 1
<1>1. PICK stray : Call({"loops"}, MemAddIteration(mem, l, index), SqlAddIteration(lite, l, index),
                        SqlAddIteration(pg, l, index), stray, None)
  BY DEF AddLoopIteration
<1> HIDE DEF index
<1>2. LET new == MemAddIteration(mem, l, index).db IN
      {"checkpoints", "claimed"} \subseteq DOMAIN new
      /\ new.checkpoints = mem.checkpoints /\ new.claimed = mem.claimed
  BY <1>s DEF MemAddIteration, Same, MemShaped
<1>3. ASSUME NEW db, SqlShaped(db)
      PROVE  LET new == SqlAddIteration(db, l, index).db IN
             "checkpoints" \in DOMAIN new /\ new.checkpoints = db.checkpoints
  BY <1>3 DEF SqlAddIteration, Same, SqlShaped, Commit
<1> QED BY <1>s, <1>1, <1>2, <1>3, ElsewhereFair

LEMMA UpdateLoopKeeps ==
  ASSUME TInv, NEW l, NEW patch, UpdateLoop(l, patch)
  PROVE  TInv'
<1>s. MemShaped(mem) /\ SqlShaped(lite) /\ SqlShaped(pg) BY DEF TInv
<1>1. PICK stray : Call({"loops"}, MemUpdateLoop(mem, l, patch), SqlUpdateLoop(lite, l, patch),
                        SqlUpdateLoop(pg, l, patch), stray, None)
  BY DEF UpdateLoop
<1>2. LET new == MemUpdateLoop(mem, l, patch).db IN
      {"checkpoints", "claimed"} \subseteq DOMAIN new
      /\ new.checkpoints = mem.checkpoints /\ new.claimed = mem.claimed
  BY <1>s DEF MemUpdateLoop, Same, MemShaped
<1>3. ASSUME NEW db, SqlShaped(db)
      PROVE  LET new == SqlUpdateLoop(db, l, patch).db IN
             "checkpoints" \in DOMAIN new /\ new.checkpoints = db.checkpoints
  BY <1>3 DEF SqlUpdateLoop, Same, SqlShaped
<1> QED BY <1>s, <1>1, <1>2, <1>3, ElsewhereFair

LEMMA CreateTaskRunKeeps ==
  ASSUME TInv, NEW t, NEW agent, CreateTaskRun(t, agent)
  PROVE  TInv'
<1>s. MemShaped(mem) /\ SqlShaped(lite) /\ SqlShaped(pg) BY DEF TInv
<1> DEFINE row == [agent |-> agent, status |-> "running", output |-> None, error |-> None,
                      created |-> now]
<1>1. PICK stray : Call({"tasks"}, MemCreateTaskRun(mem, t, row), SqlCreateTaskRun(lite, t, row),
                        SqlCreateTaskRun(pg, t, row), stray, None)
  BY DEF CreateTaskRun
<1> HIDE DEF row
<1>2. LET new == MemCreateTaskRun(mem, t, row).db IN
      {"checkpoints", "claimed"} \subseteq DOMAIN new
      /\ new.checkpoints = mem.checkpoints /\ new.claimed = mem.claimed
  BY <1>s DEF MemCreateTaskRun, Same, MemShaped
<1>3. ASSUME NEW db, SqlShaped(db)
      PROVE  LET new == SqlCreateTaskRun(db, t, row).db IN
             "checkpoints" \in DOMAIN new /\ new.checkpoints = db.checkpoints
  BY <1>3 DEF SqlCreateTaskRun, Same, SqlShaped
<1> QED BY <1>s, <1>1, <1>2, <1>3, ElsewhereFair

LEMMA FinishTaskRunKeeps ==
  ASSUME TInv, NEW t, NEW patch, FinishTaskRun(t, patch)
  PROVE  TInv'
<1>s. MemShaped(mem) /\ SqlShaped(lite) /\ SqlShaped(pg) BY DEF TInv
<1>1. PICK stray : Call({"tasks"}, MemFinishTaskRun(mem, t, patch), SqlFinishTaskRun(lite, t, patch),
                        SqlFinishTaskRun(pg, t, patch), stray, None)
  BY DEF FinishTaskRun
<1>2. LET new == MemFinishTaskRun(mem, t, patch).db IN
      {"checkpoints", "claimed"} \subseteq DOMAIN new
      /\ new.checkpoints = mem.checkpoints /\ new.claimed = mem.claimed
  BY <1>s DEF MemFinishTaskRun, Same, MemShaped
<1>3. ASSUME NEW db, SqlShaped(db)
      PROVE  LET new == SqlFinishTaskRun(db, t, patch).db IN
             "checkpoints" \in DOMAIN new /\ new.checkpoints = db.checkpoints
  BY <1>3 DEF SqlFinishTaskRun, Same, SqlShaped
<1> QED BY <1>s, <1>1, <1>2, <1>3, ElsewhereFair

LEMMA AddKnowledgeNodeKeeps ==
  ASSUME TInv, NEW n, NEW agent, NEW session, NEW label, AddKnowledgeNode(n, agent, session, label)
  PROVE  TInv'
<1>s. MemShaped(mem) /\ SqlShaped(lite) /\ SqlShaped(pg) BY DEF TInv
<1> DEFINE row == [agent |-> agent, session |-> session, label |-> label, created |-> now]
<1>1. PICK stray : Call({"graph"}, MemAddNode(mem, n, row), SqlAddNode(lite, n, row),
                        SqlAddNode(pg, n, row), stray, None)
  BY DEF AddKnowledgeNode
<1> HIDE DEF row
<1>2. LET new == MemAddNode(mem, n, row).db IN
      {"checkpoints", "claimed"} \subseteq DOMAIN new
      /\ new.checkpoints = mem.checkpoints /\ new.claimed = mem.claimed
  BY <1>s DEF MemAddNode, Same, MemShaped
<1>3. ASSUME NEW db, SqlShaped(db)
      PROVE  LET new == SqlAddNode(db, n, row).db IN
             "checkpoints" \in DOMAIN new /\ new.checkpoints = db.checkpoints
  BY <1>3 DEF SqlAddNode, Same, SqlShaped
<1> QED BY <1>s, <1>1, <1>2, <1>3, ElsewhereFair

LEMMA AddKnowledgeEdgeKeeps ==
  ASSUME TInv, NEW from, NEW to, AddKnowledgeEdge(from, to)
  PROVE  TInv'
<1>s. MemShaped(mem) /\ SqlShaped(lite) /\ SqlShaped(pg) BY DEF TInv
<1>1. PICK stray : Call({"graph"}, MemAddEdge(mem, from, to), SqlAddEdge(lite, from, to),
                        SqlAddEdge(pg, from, to), stray, None)
  BY DEF AddKnowledgeEdge
<1>2. LET new == MemAddEdge(mem, from, to).db IN
      {"checkpoints", "claimed"} \subseteq DOMAIN new
      /\ new.checkpoints = mem.checkpoints /\ new.claimed = mem.claimed
  BY <1>s DEF MemAddEdge, Same, MemShaped
<1>3. ASSUME NEW db, SqlShaped(db)
      PROVE  LET new == SqlAddEdge(db, from, to).db IN
             "checkpoints" \in DOMAIN new /\ new.checkpoints = db.checkpoints
  BY <1>3 DEF SqlAddEdge, Same, SqlShaped, Commit
<1> QED BY <1>s, <1>1, <1>2, <1>3, ElsewhereFair

LEMMA ForgetKnowledgeKeeps ==
  ASSUME TInv, NEW n, ForgetKnowledge(n)
  PROVE  TInv'
<1>s. MemShaped(mem) /\ SqlShaped(lite) /\ SqlShaped(pg) BY DEF TInv
<1>1. PICK stray : Call({"graph"}, MemForget(mem, n), SqlForget(lite, n),
                        SqlForget(pg, n), stray, None)
  BY DEF ForgetKnowledge
<1>2. LET new == MemForget(mem, n).db IN
      {"checkpoints", "claimed"} \subseteq DOMAIN new
      /\ new.checkpoints = mem.checkpoints /\ new.claimed = mem.claimed
  BY <1>s DEF MemForget, Same, MemShaped
<1>3. ASSUME NEW db, SqlShaped(db)
      PROVE  LET new == SqlForget(db, n).db IN
             "checkpoints" \in DOMAIN new /\ new.checkpoints = db.checkpoints
  BY <1>3 DEF SqlForget, Same, SqlShaped
<1> QED BY <1>s, <1>1, <1>2, <1>3, ElsewhereFair

LEMMA IngestDocumentKeeps ==
  ASSUME TInv, NEW d, NEW agent, NEW word, IngestDocument(d, agent, word)
  PROVE  TInv'
<1>s. MemShaped(mem) /\ SqlShaped(lite) /\ SqlShaped(pg) BY DEF TInv
<1> DEFINE row == [agent |-> agent, word |-> word]
<1>1. PICK stray : Call({"docs"}, MemIngest(mem, d, row), SqlIngest(lite, d, row),
                        SqlIngest(pg, d, row), stray, None)
  BY DEF IngestDocument
<1> HIDE DEF row
<1>2. LET new == MemIngest(mem, d, row).db IN
      {"checkpoints", "claimed"} \subseteq DOMAIN new
      /\ new.checkpoints = mem.checkpoints /\ new.claimed = mem.claimed
  BY <1>s DEF MemIngest, Same, MemShaped
<1>3. ASSUME NEW db, SqlShaped(db)
      PROVE  LET new == SqlIngest(db, d, row).db IN
             "checkpoints" \in DOMAIN new /\ new.checkpoints = db.checkpoints
  BY <1>3 DEF SqlIngest, Same, SqlShaped
<1> QED BY <1>s, <1>1, <1>2, <1>3, ElsewhereFair

-----------------------------------------------------------------------------
(* The invariant, and the property.                                        *)

LEMMA StepCounts == TInv /\ [StoresNext]_storeVars => TInv'
<1> SUFFICES ASSUME TInv, [StoresNext]_storeVars PROVE TInv' OBVIOUS
<1>1. CASE Tick
  BY <1>1 DEF Tick, TInv, MemShaped, SqlShaped, MemFree, SqlFree
<1>2. CASE UNCHANGED storeVars
  BY <1>2 DEF storeVars, TInv, MemShaped, SqlShaped, MemFree, SqlFree
<1>3. ASSUME NEW s \in Sessions,
             \/ \E o \in Owners \cup {None}, t \in Tags : CreateSession(s, o, t)
             \/ \E o \in Owners : ClaimSessionPrincipal(s, o) \/ DeleteSessionForPrincipal(s, o)
             \/ DeleteSession(s)
             \/ \E t \in Stamps : AddMessage(s, t)
      PROVE  TInv'
  BY <1>3, SessionCalls
<1>4. ASSUME NEW c \in Checkpoints,
             \/ \E row \in CheckpointRows : SaveCheckpoint(c, row)
             \/ ClaimCheckpoint(c)
             \/ \E only \in BOOLEAN : DeleteCheckpoint(c, only)
             \/ \E s \in Sessions, t \in Stamps, x \in Executions :
                  SuspendRun(s, t, c, [session |-> s, exec |-> x])
      PROVE  TInv'
  BY <1>4, CheckpointCalls
<1>5. ASSUME NEW age, NEW o, NEW t, CleanupSessions(age, o, t) PROVE TInv'
  BY <1>5, CleanupCalls
<1>6. ASSUME NEW r, NEW q, NEW s, AppendCrumbs(r, q, s) PROVE TInv' BY <1>6, LogCalls
<1>7. ASSUME NEW l, \/ \E agent : CreateLoop(l, agent)
                    \/ AddLoopIteration(l)
                    \/ \E patch : UpdateLoop(l, patch)
      PROVE  TInv'
  BY <1>7, CreateLoopKeeps, AddLoopIterationKeeps, UpdateLoopKeeps
<1>8. ASSUME NEW t, \/ \E agent : CreateTaskRun(t, agent)
                    \/ \E patch : FinishTaskRun(t, patch)
      PROVE  TInv'
  BY <1>8, CreateTaskRunKeeps, FinishTaskRunKeeps
<1>9. ASSUME NEW n, \/ \E agent, s, w : AddKnowledgeNode(n, agent, s, w)
                    \/ ForgetKnowledge(n)
                    \/ \E to : AddKnowledgeEdge(n, to)
      PROVE  TInv'
  BY <1>9, AddKnowledgeNodeKeeps, ForgetKnowledgeKeeps, AddKnowledgeEdgeKeeps
<1>10. ASSUME NEW d, NEW agent, NEW w, IngestDocument(d, agent, w) PROVE TInv'
  BY <1>10, IngestDocumentKeeps
<1> QED BY <1>1, <1>2, <1>3, <1>4, <1>5, <1>6, <1>7, <1>8, <1>9, <1>10 DEF StoresNext

\* Whatever the calls, between its insertion and its removal a checkpoint row
\* is handed to one caller of claimCheckpoint or of deleteCheckpoint with
\* unclaimedOnly, in the memory store, in SQLite and in PostgreSQL, for any
\* sessions, checkpoints and bounds.
THEOREM HandedOutOnce == StoresSpec => []TakenOnce
<1>1. StoresInit => TInv BY InitCounts
<1>2. TInv /\ [StoresNext]_storeVars => TInv' BY StepCounts
<1>3. TInv => TakenOnce
  <2> SUFFICES ASSUME TInv, NEW k \in Kinds, NEW c \in Checkpoints PROVE taken[k][c] <= 1
    BY DEF TakenOnce
  <2>1. taken[k][c] \in {0, 1} BY DEF TInv
  <2> QED BY <2>1
<1> QED BY <1>1, <1>2, <1>3, PTL DEF StoresSpec

=============================================================================

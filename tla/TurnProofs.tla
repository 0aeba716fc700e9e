----------------------------- MODULE TurnProofs -----------------------------
(***************************************************************************)
(* Proofs about the turns of Turn: what the clients were told of a call is *)
(* what the model is given, whatever its tools, hooks and provider do, and *)
(* a history with an open call is never streamed while a step makes at     *)
(* most one call that only a person can settle.                            *)
(*                                                                         *)
(* The invariant follows a call from the stream to the store.  While its   *)
(* attempt is read, what was yielded for it and what is still buffered say *)
(* together what its state says; a step does not end before its tools, so  *)
(* when the turn is stored every call of it is settled or waits for a      *)
(* person; and a stored call is no longer the stream's.                    *)
(***************************************************************************)
EXTENDS Turn, SequenceTheorems, FiniteSetTheorems, TLAPS

Finals == {"end", "error", "abort"}
Parts == [p : {"call", "settled"} \cup Finals, c : 0..MaxCalls]
CallRecords ==
  [kind : ToolKinds, current : BOOLEAN, step : Nat, st : CallStates, tries : Nat]

\* What the parts below need to know of the values of the variables.
Shapes ==
  /\ phase \in Phases /\ sdk \in {"thinking", "waiting", "closed"} /\ step \in Nat
  /\ made \in 0..MaxCalls /\ pending \in 0..made /\ checkpoint \in 0..made
  /\ calls \in [Calls -> CallRecords] /\ parts \in Seq(Parts)
  /\ buffer \in [Calls -> Seq(Crumbs)] /\ out \in [Calls -> Seq(Crumbs)]
  /\ rows \subseteq 1..made /\ results \in [Calls -> Nat]

\* An id that has not been used.
Unused ==
  \A i \in Calls : i > made =>
    calls[i] = NoCall /\ buffer[i] = <<>> /\ out[i] = <<>> /\ results[i] = 0

\* The attempt whose parts are read, or whose turn is to be stored.
Reading == phase \in {"streaming", "closing"}
Current(i) == i \in 1..made /\ calls[i].current

\* The stream is live while it is read; its last part closes it.
StreamShape ==
  /\ sdk # "closed" => phase = "streaming"
  /\ \A j \in DOMAIN parts : parts[j].p \in Finals => sdk = "closed" /\ j = Len(parts)
  /\ phase = "streaming" => \A j \in DOMAIN parts : parts[j].p = "call" =>
       Current(parts[j].c) /\ (calls[parts[j].c].kind \in Asks => calls[parts[j].c].st = "held")

\* The calls of the steps before this one are settled, and all of them when
\* the stream has come to its end.
StepsSettle ==
  /\ sdk # "closed" => \A i \in Calls : Current(i) =>
       calls[i].step <= step /\ (calls[i].step # step => calls[i].st \notin Underway)
  /\ phase = "closing" \/ (phase = "streaming" /\ \E j \in DOMAIN parts : parts[j].p = "end")
       => \A i \in Calls : Current(i) => calls[i].st \notin Underway

\* What a call in this state has been announced with, on its way or yielded.
Said(st) ==
  CASE st \in {"short", "running"} -> <<"call">>
    [] st \in {"fired", "ok"} -> <<"call", "result">>
    [] st = "error" -> <<"call", "error">>
    [] OTHER -> <<>>
Told == Reading => \A i \in Calls : Current(i) =>
  calls[i].st # "none" /\ (calls[i].st = "spoilt" \/ out[i] \o buffer[i] = Said(calls[i].st))

\* A stored call is settled or waits for a person, has been announced, and is
\* not stored again.
Stored == \A i \in rows :
  /\ calls[i].st \notin Underway \cup {"none"} /\ buffer[i] = <<>>
  /\ calls[i].st = "spoilt" \/ out[i] = Said(calls[i].st)
  /\ results[i] <= 1 /\ (results[i] > 0 => calls[i].st # "held")
  /\ Reading => ~calls[i].current
Unstored == \A i \in Calls : i \notin rows => results[i] = 0

\* The call that was read last waits for a person, as does the one the run
\* has suspended on.
Awaited ==
  /\ Reading /\ pending # 0 => Current(pending) /\ calls[pending].st = "held"
  /\ phase \in {"suspending", "suspended"} =>
       checkpoint \in rows /\ calls[checkpoint].st = "held" /\ results[checkpoint] = 0

TInv ==
  /\ Shapes /\ Unused /\ StreamShape /\ StepsSettle
  /\ Told /\ Stored /\ Unstored /\ Awaited

\* One call of an attempt waits for a person, made in its last step, and its
\* part is on the way or was read.
Holds(i) == Current(i) /\ calls[i].st = "held"
OnePerson ==
  /\ Reading => \A i, j \in Calls : Holds(i) /\ Holds(j) => i = j /\ calls[i].kind \in Asks
  /\ sdk # "closed" => \A i \in Calls : Holds(i) => calls[i].step = step
  /\ phase = "streaming" => \A i \in Calls : Holds(i) =>
       pending = i \/ \E j \in DOMAIN parts : parts[j] = [p |-> "call", c |-> i]
  /\ phase = "closing" => \A i \in Calls : Holds(i) => pending = i
\* Until a hook or an approved tool throws, only the call a run is suspended
\* on has no result.
Excused == happened \cap {"approved", "onSuspend"} # {}
Answered ==
  ~Excused =>
    /\ prompt = {}
    /\ \A i \in rows : results[i] = 0 =>
         phase \in {"suspending", "suspended"} /\ i = checkpoint

PInv == TInv /\ OnePerson /\ Answered

-----------------------------------------------------------------------------
(* What the operators of the model do to one call.                         *)

\* A call survives the start of an attempt, or of a run, unchanged but for no
\* longer being the stream's, or it is forgotten with all it said.
LEMMA Keeping ==
  ASSUME Shapes, NEW running \in BOOLEAN
  PROVE  /\ Kept(Left(running)) \in [Calls -> CallRecords]
         /\ Heard(Left(running)) \in [Calls -> Seq(Crumbs)]
         /\ \A i \in Calls :
              /\ ~Kept(Left(running))[i].current
              /\ i \in rows => /\ Kept(Left(running))[i].st = calls[i].st
                               /\ Kept(Left(running))[i].kind = calls[i].kind
                               /\ Heard(Left(running))[i] = out[i]
              /\ i > made => Kept(Left(running))[i] = NoCall /\ Heard(Left(running))[i] = <<>>
<1>1. NoCall \in CallRecords /\ ~NoCall.current
  BY DEF NoCall, CallRecords, ToolKinds, CallStates, Underway
<1>2. \A i \in Calls : calls[i] \in CallRecords /\ out[i] \in Seq(Crumbs)
  BY DEF Shapes
<1>3. \A i \in Calls : LET c == [calls[i] EXCEPT !.current = FALSE] IN
        c \in CallRecords /\ ~c.current /\ c.st = calls[i].st /\ c.kind = calls[i].kind
  BY <1>2 DEF CallRecords
<1>4. <<>> \in Seq(Crumbs)
  OBVIOUS
<1>5. \A i \in rows : i \in Left(running) /\ i \in Calls
  BY SizeAssumption DEF Shapes, Left, Calls
<1>6. \A i \in Calls : i > made => i \notin Left(running)
  BY SizeAssumption DEF Shapes, Left, Calls
<1>7. \A i \in Calls :
        /\ Kept(Left(running))[i] = IF i \in Left(running)
                                    THEN [calls[i] EXCEPT !.current = FALSE] ELSE NoCall
        /\ Heard(Left(running))[i] = IF i \in Left(running) THEN out[i] ELSE <<>>
  BY DEF Kept, Heard
<1>8. Kept(Left(running)) \in [Calls -> CallRecords]
  BY <1>1, <1>3 DEF Kept
<1>9. Heard(Left(running)) \in [Calls -> Seq(Crumbs)]
  BY <1>2, <1>4 DEF Heard
<1>10. ASSUME NEW i \in Calls PROVE ~Kept(Left(running))[i].current
  BY <1>1, <1>3, <1>7
<1>11. ASSUME NEW i \in Calls, i \in rows
       PROVE  /\ Kept(Left(running))[i].st = calls[i].st
              /\ Kept(Left(running))[i].kind = calls[i].kind
              /\ Heard(Left(running))[i] = out[i]
  BY <1>3, <1>5, <1>7, <1>11
<1> QED
  BY <1>6, <1>7, <1>8, <1>9, <1>10, <1>11

\* A flush yields what is buffered, call by call.
LEMMA Flushing ==
  ASSUME Shapes, Flush
  PROVE  /\ out' \in [Calls -> Seq(Crumbs)] /\ buffer' \in [Calls -> Seq(Crumbs)]
         /\ \A i \in Calls : /\ buffer'[i] = <<>>
                             /\ out'[i] = out[i] \o buffer[i]
                             /\ out'[i] \o buffer'[i] = out[i] \o buffer[i]
                             /\ buffer[i] = <<>> => out'[i] = out[i]
<1>1. \A i \in Calls : out[i] \in Seq(Crumbs) /\ buffer[i] \in Seq(Crumbs)
  BY DEF Shapes
<1>2. \A i \in Calls : out[i] \o buffer[i] \in Seq(Crumbs)
  BY <1>1
<1>3. \A s \in Seq(Crumbs) : s \o <<>> = s
  BY ConcatEmptySeq
<1>4. \A i \in Calls : buffer'[i] = <<>> /\ out'[i] = out[i] \o buffer[i]
  BY DEF Flush
<1>5. out' \in [Calls -> Seq(Crumbs)] /\ buffer' \in [Calls -> Seq(Crumbs)]
  BY <1>2 DEF Flush
<1>6. ASSUME NEW i \in Calls
      PROVE  out'[i] \o buffer'[i] = out[i] \o buffer[i] /\ (buffer[i] = <<>> => out'[i] = out[i])
  BY <1>1, <1>2, <1>3, <1>4
<1> QED
  BY <1>4, <1>5, <1>6

\* A part is put behind the others.
LEMMA Appending ==
  ASSUME NEW s \in Seq(Parts), NEW e \in Parts
  PROVE  /\ Append(s, e) \in Seq(Parts) /\ Len(s) \in Nat
         /\ Len(Append(s, e)) = Len(s) + 1
         /\ DOMAIN s = 1..Len(s) /\ DOMAIN Append(s, e) = 1..(Len(s) + 1)
         /\ \A j \in 1..Len(s) : Append(s, e)[j] = s[j]
         /\ Append(s, e)[Len(s) + 1] = e
OBVIOUS

\* The first part is taken.
LEMMA Taking ==
  ASSUME NEW s \in Seq(Parts), s # <<>>
  PROVE  /\ Head(s) \in Parts /\ Tail(s) \in Seq(Parts) /\ Len(s) \in Nat /\ Len(s) > 0
         /\ Head(s) = s[1] /\ Len(Tail(s)) = Len(s) - 1
         /\ DOMAIN s = 1..Len(s) /\ DOMAIN Tail(s) = 1..(Len(s) - 1)
         /\ \A j \in 1..(Len(s) - 1) : Tail(s)[j] = s[j + 1]
BY HeadTailProperties

-----------------------------------------------------------------------------
(* The invariant holds at first and is kept by every step.                 *)

LEMMA TInvInit == Init => TInv
<1> SUFFICES ASSUME Init PROVE TInv
  OBVIOUS
<1>1. NoCall \in CallRecords /\ ~NoCall.current /\ NoCall.st = "none"
  BY DEF NoCall, CallRecords, ToolKinds, CallStates, Underway
<1>2. Shapes
  BY <1>1, SizeAssumption DEF Init, Shapes, Phases, Over
<1>3. Unused /\ Unstored
  BY DEF Init, Unused, Unstored
<1>4. StreamShape /\ StepsSettle /\ Told /\ Stored /\ Awaited
  BY DEF Init, StreamShape, StepsSettle, Told, Stored, Awaited, Reading
<1> QED
  BY <1>2, <1>3, <1>4 DEF TInv

\* A step that neither streams nor stores: the run moves on outside of its
\* stream, and what was yielded for a call with an empty buffer stays.
LEMMA Quiet ==
  ASSUME TInv, ~Reading, phase' \in Phases \ {"streaming", "closing", "suspending"},
         phase' = "suspended" => phase = "suspending",
         UNCHANGED <<pending, sdkVars, rows, results, checkpoint>>,
         out' \in [Calls -> Seq(Crumbs)], buffer' \in [Calls -> Seq(Crumbs)],
         \A i \in Calls : buffer[i] = <<>> => buffer'[i] = <<>> /\ out'[i] = out[i]
  PROVE  TInv'
<1> USE DEF TInv, sdkVars
<1>1. Shapes'
  BY DEF Shapes
<1>2. Unused'
  BY DEF Unused
<1>3. StreamShape'
  BY DEF StreamShape, Reading
<1>4. StepsSettle'
  BY DEF StreamShape, StepsSettle, Reading, Current
<1>5. Told'
  BY DEF Told, Reading
<1>6. Stored'
  BY SizeAssumption DEF Stored, Shapes, Reading, Calls
<1>7. Unstored'
  BY DEF Unstored
<1>8. Awaited'
  BY DEF Awaited, Reading
<1> QED
  BY <1>1, <1>2, <1>3, <1>4, <1>5, <1>6, <1>7, <1>8

LEMMA Streams ==
  ASSUME TInv, phase \in {"resolving", "backoff"}, StreamModel,
         UNCHANGED <<made, buffer, rows, results, checkpoint>>
  PROVE  TInv'
<1> USE DEF TInv
<1>1. calls' = Kept(Left(TRUE)) /\ out' = Heard(Left(TRUE)) /\ phase' = "streaming" /\ pending' = 0
      /\ step' = 1
  BY DEF StreamModel
<1>2. calls' \in [Calls -> CallRecords] /\ out' \in [Calls -> Seq(Crumbs)]
  BY <1>1, Keeping
<1>3. \A i \in Calls :
        /\ ~calls'[i].current
        /\ i \in rows => calls'[i].st = calls[i].st /\ out'[i] = out[i]
        /\ i > made => calls'[i] = NoCall /\ out'[i] = <<>>
  BY <1>1, Keeping
<1>4. /\ parts' \in Seq(Parts)
      /\ sdk' \in {"thinking", "closed"}
      /\ sdk' # "closed" => parts' = <<>>
      /\ \A j \in DOMAIN parts' : j = 1 /\ Len(parts') = 1 /\ parts'[j].p = "abort"
  <2>1. CASE aborted
    <3>1. [p |-> "abort", c |-> 0] \in Parts
      BY SizeAssumption DEF Parts, Finals
    <3>2. sdk' = "closed" /\ parts' = <<[p |-> "abort", c |-> 0]>>
      BY <2>1 DEF StreamModel
    <3> QED
      BY <3>1, <3>2
  <2>2. CASE ~aborted
    BY <2>2 DEF StreamModel
  <2> QED
    BY <2>1, <2>2
<1>5. \A i : ~Current(i)'
  BY <1>3, SizeAssumption DEF Current, Calls, Shapes
<1>6. Shapes'
  <2>1. phase' \in Phases /\ sdk' \in {"thinking", "waiting", "closed"} /\ step' \in Nat
    BY <1>1, <1>4 DEF Phases
  <2>2. made \in Nat /\ pending' \in 0..made'
    BY <1>1, SizeAssumption DEF Shapes
  <2> QED
    BY <1>2, <1>4, <2>1, <2>2 DEF Shapes
<1>7. Unused'
  BY <1>3 DEF Unused
<1>8. StreamShape'
  <2>1. \A j \in DOMAIN parts' : parts'[j].p # "call" /\ sdk' = "closed" /\ j = Len(parts')
    BY <1>4
  <2> QED
    BY <1>1, <2>1 DEF StreamShape
<1>9. StepsSettle' /\ Told' /\ Awaited'
  BY <1>1, <1>5 DEF StepsSettle, Told, Awaited, Reading
<1>10. Stored'
  <2>1. ASSUME NEW i \in rows
        PROVE  /\ calls'[i].st = calls[i].st /\ out'[i] = out[i] /\ ~calls'[i].current
               /\ buffer'[i] = buffer[i] /\ results'[i] = results[i]
    BY <1>3, SizeAssumption DEF Calls, Shapes
  <2> QED
    BY <2>1 DEF Stored
<1>11. Unstored'
  BY DEF Unstored
<1> QED
  BY <1>6, <1>7, <1>8, <1>9, <1>10, <1>11

-----------------------------------------------------------------------------
(* The model and the SDK.                                                  *)

\* What a part appended to a live stream leaves of its shape: nothing before
\* it is final.
LEMMA Appends ==
  ASSUME TInv, sdk # "closed", NEW e \in Parts, parts' = Append(parts, e)
  PROVE  /\ parts' \in Seq(Parts)
         /\ \A j \in DOMAIN parts' :
              \/ j = Len(parts') /\ parts'[j] = e
              \/ j \in DOMAIN parts /\ parts'[j] = parts[j] /\ parts'[j].p \notin Finals
<1>1. parts \in Seq(Parts)
  BY DEF TInv, Shapes
<1>2. \A j \in DOMAIN parts : parts[j].p \notin Finals
  BY DEF TInv, StreamShape
<1> QED
  BY <1>1, <1>2, Appending

LEMMA ModelCallsKeeps == \A k \in Kinds : TInv /\ ModelCalls(k) => TInv'
<1> SUFFICES ASSUME TInv, NEW k \in Kinds, ModelCalls(k) PROVE TInv'
  OBVIOUS
<1> PICK n : n = made + 1
  OBVIOUS
<1> DEFINE c == [kind |-> k, current |-> TRUE, step |-> step,
                 st |-> IF k \in Asks THEN "held" ELSE "made", tries |-> 1]
           e == [p |-> "call", c |-> n]
<1>1. /\ sdk = "thinking" /\ made < MaxCalls /\ made' = n
      /\ calls' = [calls EXCEPT ![n] = c] /\ parts' = Append(parts, e)
      /\ UNCHANGED <<sdk, step, phase, pending, buffer, out, rows, results, checkpoint>>
  BY DEF ModelCalls, runVars, crumbVars, storeVars
<1>2. /\ Shapes /\ phase = "streaming" /\ n \in Calls /\ n \notin rows /\ made \in Nat
      /\ k \in ToolKinds
  BY <1>1, SizeAssumption, KindAssumption DEF TInv, Shapes, StreamShape, Calls
<1>3. c \in CallRecords /\ e \in Parts /\ c.st \notin {"none", "spoilt"} /\ Said(c.st) = <<>>
      /\ c.current /\ c.step = step /\ c.kind = k /\ (k \in Asks => c.st = "held")
      /\ e.p = "call" /\ e.c = n
  BY <1>1, <1>2, SizeAssumption DEF Shapes, CallRecords, Parts, CallStates, Underway, Said, Calls
<1>4. calls' \in [Calls -> CallRecords]
      /\ \A i \in Calls : calls'[i] = IF i = n THEN c ELSE calls[i]
  BY <1>1, <1>2, <1>3 DEF Shapes
<1>5. buffer[n] = <<>> /\ out[n] = <<>> /\ calls[n] = NoCall
  BY <1>2, SizeAssumption DEF TInv, Unused
<1> HIDE DEF c, e
<1>6. \A i \in Calls : Current(i)' <=> i = n \/ (Current(i) /\ i # n)
  BY <1>1, <1>2, <1>3, <1>4 DEF Current, Calls
<1>7. /\ parts' \in Seq(Parts)
      /\ \A j \in DOMAIN parts' :
           \/ parts'[j] = e
           \/ j \in DOMAIN parts /\ parts'[j] = parts[j] /\ parts'[j].p \notin Finals
  BY <1>1, <1>3, Appends
<1>8. Shapes'
  BY <1>1, <1>2, <1>4, <1>7, SizeAssumption DEF Shapes
<1>9. Unused'
  <2>1. \A i \in Calls : i > made' => i > made /\ i # n
    BY <1>1, <1>2, SizeAssumption DEF Calls
  <2> QED
    BY <1>1, <1>4, <2>1 DEF TInv, Unused
<1>10. StreamShape'
  <2>1. \A j \in DOMAIN parts' : parts'[j].p \notin Finals
    BY <1>3, <1>7 DEF Finals
  <2>2. ASSUME NEW j \in DOMAIN parts', parts'[j].p = "call"
        PROVE  \E i \in Calls : /\ i = parts'[j].c /\ Current(i)'
                                /\ calls'[i].kind \in Asks => calls'[i].st = "held"
    <3>1. CASE parts'[j] = e
      BY <1>2, <1>3, <1>4, <1>6, <3>1
    <3>2. CASE parts'[j] # e
      <4>1. j \in DOMAIN parts /\ parts'[j] = parts[j]
        BY <1>7, <3>2
      <4>2. /\ Current(parts[j].c)
            /\ calls[parts[j].c].kind \in Asks => calls[parts[j].c].st = "held"
        BY <1>2, <2>2, <4>1 DEF TInv, StreamShape
      <4>3. parts[j].c \in Calls /\ parts[j].c # n
        BY <1>1, <1>2, <4>2, SizeAssumption DEF Current, Calls
      <4>4. PICK i \in Calls : i = parts[j].c
        BY <4>3
      <4> QED
        BY <1>4, <1>6, <4>1, <4>2, <4>3, <4>4
    <3> QED
      BY <3>1, <3>2
  <2>3. ASSUME NEW j \in DOMAIN parts', parts'[j].p = "call"
        PROVE  (/\ Current(parts[j].c)
                /\ calls[parts[j].c].kind \in Asks => calls[parts[j].c].st = "held")'
    BY <2>2, <2>3 DEF Current
  <2> QED
    BY <1>1, <1>2, <2>1, <2>3 DEF StreamShape
<1>11. StepsSettle'
  <2>1. \A j \in DOMAIN parts' : parts'[j].p # "end"
    BY <1>3, <1>7 DEF Finals
  <2>2. ASSUME NEW i \in Calls, Current(i)'
        PROVE  calls'[i].step <= step /\ (calls'[i].step # step => calls'[i].st \notin Underway)
    <3>1. CASE i = n
      BY <1>2, <1>3, <1>4, <3>1 DEF Shapes
    <3>2. CASE i # n
      BY <1>1, <1>4, <1>6, <2>2, <3>2 DEF TInv, StepsSettle
    <3> QED
      BY <3>1, <3>2
  <2> QED
    BY <1>1, <1>2, <2>1, <2>2 DEF StepsSettle
<1>12. Told'
  <2> SUFFICES ASSUME NEW i \in Calls, Current(i)'
               PROVE  /\ calls'[i].st # "none"
                      /\ \/ calls'[i].st = "spoilt"
                         \/ out[i] \o buffer[i] = Said(calls'[i].st)
    BY <1>1 DEF Told
  <2>1. CASE i = n
    <3>1. out[i] \o buffer[i] = <<>>
      BY <1>5, <2>1
    <3> QED
      BY <1>3, <1>4, <2>1, <3>1
  <2>2. CASE i # n
    BY <1>2, <1>4, <1>6, <2>2 DEF TInv, Told, Reading
  <2> QED
    BY <2>1, <2>2
<1>13. Stored' /\ Unstored'
  <2>1. \A i \in rows : i \in Calls /\ i # n
    BY <1>2, SizeAssumption DEF Shapes, Calls
  <2> QED
    BY <1>1, <1>4, <2>1 DEF TInv, Stored, Unstored, Reading
<1>14. Awaited'
  <2>1. Current(pending) => pending \in Calls /\ pending # n
    BY <1>1, <1>2, SizeAssumption DEF Current, Calls
  <2> QED
    BY <1>1, <1>2, <1>4, <1>6, <2>1 DEF TInv, Awaited, Reading
<1> QED
  BY <1>8, <1>9, <1>10, <1>11, <1>12, <1>13, <1>14 DEF TInv

\* A step that leaves the calls alone and, if it touches the stream, ends it
\* with a final part once no tool of it is underway, or goes on to a step
\* after the settled ones.
LEMMA Turning ==
  ASSUME TInv, sdk # "closed",
         sdk' \in {"thinking", "waiting", "closed"}, step' \in Nat,
         \/ sdk' # "closed" /\ parts' = parts
         \/ \E e \in Parts : sdk' = "closed" /\ e.p \in Finals /\ parts' = Append(parts, e)
              /\ (e.p = "end" => \A i \in Calls : Current(i) => calls[i].st \notin Underway),
         \/ step' = step
         \/ step' = step + 1 /\ \A i \in Calls : Current(i) => calls[i].st \notin Underway,
         UNCHANGED <<phase, pending, calls, made, crumbVars, rows, results, checkpoint>>
  PROVE  TInv'
<1> USE DEF crumbVars
<1>1. /\ Shapes /\ phase = "streaming" /\ \A i : Current(i)' <=> Current(i)
  BY DEF TInv, StreamShape, Current
<1>2. /\ parts' \in Seq(Parts)
      /\ \A j \in DOMAIN parts' :
           \/ /\ j \in DOMAIN parts /\ parts'[j] = parts[j] /\ parts'[j].p \notin Finals
           \/ /\ sdk' = "closed" /\ j = Len(parts') /\ parts'[j].p \in Finals
              /\ (parts'[j].p = "end" => \A i \in Calls : Current(i) => calls[i].st \notin Underway)
  <2>1. CASE parts' = parts
    BY <2>1 DEF TInv, Shapes, StreamShape
  <2>2. CASE parts' # parts
    <3>1. PICK e \in Parts :
            /\ sdk' = "closed" /\ e.p \in Finals /\ parts' = Append(parts, e)
            /\ (e.p = "end" => \A i \in Calls : Current(i) => calls[i].st \notin Underway)
      BY <2>2
    <3> QED
      BY <3>1, Appends
  <2> QED
    BY <2>1, <2>2
<1>3. Shapes'
  BY <1>1, <1>2 DEF Shapes
<1>4. Unused' /\ Unstored' /\ Stored' /\ Told' /\ Awaited'
  BY <1>1 DEF TInv, Unused, Unstored, Stored, Told, Awaited, Reading
<1>5. StreamShape'
  BY <1>1, <1>2 DEF TInv, StreamShape, Finals
<1>6. StepsSettle'
  <2>1. ASSUME NEW i \in Calls, Current(i), sdk' # "closed"
        PROVE  calls[i].step <= step' /\ (calls[i].step # step' => calls[i].st \notin Underway)
    <3>1. /\ calls[i].step <= step /\ (calls[i].step # step => calls[i].st \notin Underway)
          /\ calls[i].step \in Nat /\ step \in Nat
      BY <2>1 DEF TInv, StepsSettle, Shapes, CallRecords
    <3> QED
      BY <2>1, <3>1
  <2>2. ASSUME NEW j \in DOMAIN parts', parts'[j].p = "end", NEW i \in Calls, Current(i)
        PROVE  calls[i].st \notin Underway
    BY <1>2, <2>2 DEF Finals
  <2> QED
    BY <1>1, <2>1, <2>2 DEF StepsSettle
<1> QED
  BY <1>3, <1>4, <1>5, <1>6 DEF TInv

LEMMA ModelStopsKeeps == TInv /\ ModelStops => TInv'
<1> SUFFICES ASSUME TInv, ModelStops PROVE TInv'
  OBVIOUS
<1>1. /\ sdk = "thinking" /\ sdk' = "waiting" /\ step \in Nat
      /\ UNCHANGED <<step, parts, phase, pending, calls, made, crumbVars, rows, results, checkpoint>>
  BY DEF ModelStops, runVars, storeVars, TInv, Shapes
<1> QED
  BY <1>1, Turning

LEMMA NextStepKeeps == TInv /\ NextStep => TInv'
<1> SUFFICES ASSUME TInv, NextStep PROVE TInv'
  OBVIOUS
<1>1. /\ sdk = "waiting" /\ step \in Nat
      /\ UNCHANGED <<phase, pending, calls, made, crumbVars, rows, results, checkpoint>>
  BY DEF NextStep, runVars, storeVars, TInv, Shapes
<1>2. \A i \in Calls : Current(i) => calls[i].st \notin Underway
  <2> SUFFICES ASSUME NEW i \in Calls, Current(i) PROVE calls[i].st \notin Underway
    OBVIOUS
  <2>1. CASE calls[i].step = step
    BY <2>1 DEF NextStep, ThisStep, Current
  <2>2. CASE calls[i].step # step
    BY <1>1, <2>2 DEF TInv, StepsSettle
  <2> QED
    BY <2>1, <2>2
<1>3. [p |-> "end", c |-> 0] \in Parts
  BY SizeAssumption DEF Parts, Finals
<1>4. CASE StopsHere
  BY <1>1, <1>2, <1>3, <1>4, Turning DEF NextStep, Finals
<1>5. CASE ~StopsHere
  BY <1>1, <1>2, <1>5, Turning DEF NextStep
<1> QED
  BY <1>4, <1>5

LEMMA ProviderFailsKeeps == TInv /\ ProviderFails => TInv'
<1> SUFFICES ASSUME TInv, ProviderFails PROVE TInv'
  OBVIOUS
<1>1. /\ sdk = "thinking" /\ sdk' = "closed" /\ step \in Nat
      /\ parts' = Append(parts, [p |-> "error", c |-> 0])
      /\ UNCHANGED <<step, phase, pending, calls, made, crumbVars, rows, results, checkpoint>>
  BY DEF ProviderFails, runVars, storeVars, TInv, Shapes
<1>2. [p |-> "error", c |-> 0] \in Parts
  BY SizeAssumption DEF Parts, Finals
<1> QED
  BY <1>1, <1>2, Turning DEF Finals

\* A step that changes nothing the invariant speaks of.
LEMMA Stutters ==
  TInv /\ UNCHANGED <<phase, pending, sdkVars, crumbVars, rows, results, checkpoint>> => TInv'
<1> SUFFICES ASSUME TInv,
                    UNCHANGED <<phase, pending, sdkVars, crumbVars, rows, results, checkpoint>>
             PROVE  TInv'
  OBVIOUS
<1> USE DEF sdkVars, crumbVars, TInv
<1>1. Shapes' /\ Unused' /\ Unstored'
  BY DEF Shapes, Unused, Unstored
<1>2. StreamShape'
  BY DEF StreamShape, Current
<1>3. StepsSettle'
  BY DEF StepsSettle, Current
<1>4. Told' /\ Stored' /\ Awaited'
  BY DEF Told, Stored, Awaited, Reading, Current
<1> QED
  BY <1>1, <1>2, <1>3, <1>4

LEMMA AbortKeeps == TInv /\ Abort => TInv'
<1> SUFFICES ASSUME TInv, Abort PROVE TInv'
  OBVIOUS
<1>1. UNCHANGED <<phase, pending, step, calls, made, crumbVars, rows, results, checkpoint>>
      /\ step \in Nat
  BY DEF Abort, storeVars, TInv, Shapes
<1>2. CASE sdk = "closed"
  BY <1>1, <1>2, Stutters DEF Abort, sdkVars
<1>3. CASE sdk # "closed"
  <2>1. sdk' = "closed" /\ parts' = Append(parts, [p |-> "abort", c |-> 0])
    BY <1>3 DEF Abort
  <2>2. [p |-> "abort", c |-> 0] \in Parts
    BY SizeAssumption DEF Parts, Finals
  <2> QED
    BY <1>1, <1>3, <2>1, <2>2, Turning DEF Finals
<1> QED
  BY <1>2, <1>3

-----------------------------------------------------------------------------
(* The tools.                                                              *)

\* A step of a call that is underway: what it pushes is what its new state
\* says more than its old one.
LEMMA ToolMoves ==
  ASSUME TInv, NEW i \in Calls, Live(i),
         NEW st \in CallStates \ {"none", "held"}, NEW crumbs \in Seq(Crumbs),
         NEW settles \in BOOLEAN, ToolSteps(i, st, crumbs, settles),
         st = "spoilt" \/ Said(calls[i].st) \o crumbs = Said(st)
  PROVE  TInv'
<1>1. /\ Shapes /\ phase' = phase /\ pending' = pending
      /\ UNCHANGED <<sdk, step, made, out, rows, results, checkpoint>>
      /\ calls[i].st \in Underway
  BY DEF TInv, ToolSteps, runVars, storeVars, Live
<1>2. i \notin rows /\ ~(i > made) /\ calls[i].st \notin {"none", "held", "spoilt"}
  BY <1>1 DEF TInv, Stored, Unused, NoCall, Underway
<1>3. /\ calls' \in [Calls -> CallRecords]
      /\ calls'[i].st = st /\ calls'[i].current = calls[i].current
      /\ calls'[i].step = calls[i].step /\ calls'[i].kind = calls[i].kind
      /\ \A j \in Calls : j # i => calls'[j] = calls[j]
  <2>1. calls[i] \in CallRecords /\ calls' = [calls EXCEPT ![i] = [calls[i] EXCEPT !.st = st]]
    BY <1>1 DEF ToolSteps, Shapes
  <2> QED
    BY <1>1, <2>1 DEF Shapes, CallRecords
<1>4. /\ buffer' \in [Calls -> Seq(Crumbs)] /\ buffer'[i] = buffer[i] \o crumbs
      /\ \A j \in Calls : j # i => buffer'[j] = buffer[j]
  <2>1. buffer[i] \o crumbs \in Seq(Crumbs)
    BY <1>1 DEF Shapes
  <2>2. buffer' = [buffer EXCEPT ![i] = buffer[i] \o crumbs]
    BY DEF ToolSteps, Push
  <2> QED
    BY <1>1, <2>1, <2>2 DEF Shapes
<1>5. \A j : Current(j)' <=> Current(j)
  <2>1. \A j \in 1..made : j \in Calls
    BY <1>1, SizeAssumption DEF Shapes, Calls
  <2> QED
    BY <1>1, <1>3, <2>1 DEF Current
<1>6. \/ parts' = parts
      \/ \E e \in Parts : parts' = Append(parts, e) /\ sdk # "closed" /\ e.p = "settled"
  <2>1. [p |-> "settled", c |-> i] \in Parts
    BY SizeAssumption DEF Parts, Calls
  <2>2. parts' = parts \/ (parts' = Append(parts, [p |-> "settled", c |-> i]) /\ sdk # "closed")
    BY DEF ToolSteps, Reports
  <2> QED
    BY <2>1, <2>2
<1>7. /\ parts' \in Seq(Parts)
      /\ \/ parts' = parts
         \/ /\ sdk # "closed"
            /\ \A j \in DOMAIN parts' :
                 \/ parts'[j].p = "settled"
                 \/ j \in DOMAIN parts /\ parts'[j] = parts[j] /\ parts'[j].p \notin Finals
  <2>1. CASE parts' = parts
    BY <1>1, <2>1 DEF Shapes
  <2>2. CASE parts' # parts
    <3>1. PICK e \in Parts : parts' = Append(parts, e) /\ sdk # "closed" /\ e.p = "settled"
      BY <1>6, <2>2
    <3> QED
      BY <3>1, Appends
  <2> QED
    BY <2>1, <2>2
<1>8. Shapes'
  BY <1>1, <1>3, <1>4, <1>7 DEF Shapes
<1>9. Unused'
  BY <1>1, <1>2, <1>3, <1>4 DEF TInv, Unused
<1>10. StreamShape'
  <2>1. \A j \in DOMAIN parts' : parts'[j].p \in Finals => sdk = "closed" /\ j = Len(parts')
    BY <1>7 DEF TInv, StreamShape, Finals
  <2>2. ASSUME phase = "streaming", NEW j \in DOMAIN parts', parts'[j].p = "call"
        PROVE  \E n \in Calls : /\ n = parts'[j].c /\ Current(n)
                                /\ calls'[n].kind \in Asks => calls'[n].st = "held"
    <3>1. j \in DOMAIN parts /\ parts'[j] = parts[j]
      BY <1>7, <2>2
    <3>2. /\ Current(parts[j].c)
          /\ calls[parts[j].c].kind \in Asks => calls[parts[j].c].st = "held"
      BY <2>2, <3>1 DEF TInv, StreamShape
    <3>3. parts[j].c \in Calls
      <4>1. \A n \in 1..made : n \in Calls
        BY <1>1, SizeAssumption DEF Shapes, Calls
      <4> QED
        BY <3>2, <4>1 DEF Current
    <3>4. PICK n \in Calls : n = parts[j].c
      BY <3>3
    <3> QED
      BY <1>2, <1>3, <3>1, <3>2, <3>4
  <2>3. ASSUME phase = "streaming", NEW j \in DOMAIN parts', parts'[j].p = "call"
        PROVE  (/\ Current(parts[j].c)
                /\ calls[parts[j].c].kind \in Asks => calls[parts[j].c].st = "held")'
    BY <1>5, <2>2, <2>3 DEF Current
  <2> QED
    BY <1>1, <2>1, <2>3 DEF TInv, StreamShape
<1>11. StepsSettle'
  <2>1. ASSUME NEW j \in DOMAIN parts', parts'[j].p = "end"
        PROVE  \E k \in DOMAIN parts : parts[k].p = "end"
    BY <1>7, <2>1
  <2>2. phase = "closing" \/ (phase = "streaming" /\ \E j \in DOMAIN parts' : parts'[j].p = "end")
          => \A j \in Calls : Current(j) => calls[j].st \notin Underway
    BY <2>1 DEF TInv, StepsSettle
  <2>3. sdk # "closed" => \A j \in Calls : Current(j) =>
          calls[j].step <= step /\ (calls[j].step # step => calls[j].st \notin Underway)
    BY DEF TInv, StepsSettle
  <2>4. sdk' # "closed" => \A j \in Calls : Current(j)' =>
          calls'[j].step <= step' /\ (calls'[j].step # step' => calls'[j].st \notin Underway)
    BY <1>1, <1>3, <1>5, <2>3
  <2>5. phase' = "closing" \/ (phase' = "streaming" /\ \E j \in DOMAIN parts' : parts'[j].p = "end")
          => \A j \in Calls : Current(j)' => calls'[j].st \notin Underway
    BY <1>1, <1>3, <1>5, <2>2
  <2> QED
    BY <2>4, <2>5 DEF StepsSettle
<1>12. Told'
  <2> SUFFICES ASSUME Reading, NEW j \in Calls, Current(j)
               PROVE  /\ calls'[j].st # "none"
                      /\ calls'[j].st = "spoilt" \/ out[j] \o buffer'[j] = Said(calls'[j].st)
    BY <1>1, <1>5 DEF Told, Reading
  <2>1. calls[j].st # "none" /\ (calls[j].st = "spoilt" \/ out[j] \o buffer[j] = Said(calls[j].st))
    BY DEF TInv, Told
  <2>2. CASE j = i /\ st # "spoilt"
    <3>1. out[i] \in Seq(Crumbs) /\ buffer[i] \in Seq(Crumbs)
      BY <1>1 DEF Shapes
    <3>2. out[i] \o (buffer[i] \o crumbs) = (out[i] \o buffer[i]) \o crumbs
      <4>1. \A a, b, c \in Seq(Crumbs) : (a \o b) \o c = a \o (b \o c)
        BY ConcatAssociative
      <4> QED
        BY <3>1, <4>1
    <3> QED
      BY <1>2, <1>3, <1>4, <2>1, <2>2, <3>2
  <2>3. CASE j # i \/ st = "spoilt"
    BY <1>3, <1>4, <2>1, <2>3
  <2> QED
    BY <2>2, <2>3
<1>13. Stored' /\ Unstored'
  <2>1. \A j \in rows : j \in Calls /\ j # i
    BY <1>1, <1>2, SizeAssumption DEF Shapes, Calls
  <2> QED
    BY <1>1, <1>3, <1>4, <2>1 DEF TInv, Stored, Unstored, Reading
<1>14. Awaited'
  <2>1. Current(pending) => pending \in Calls
    BY <1>1, SizeAssumption DEF Current, Calls, Shapes
  <2>2. \A j \in rows : j \in Calls /\ j # i
    BY <1>1, <1>2, SizeAssumption DEF Shapes, Calls
  <2> QED
    BY <1>1, <1>2, <1>3, <1>5, <2>1, <2>2 DEF TInv, Awaited, Reading
<1> QED
  BY <1>8, <1>9, <1>10, <1>11, <1>12, <1>13, <1>14 DEF TInv

\* Two crumbs make a sequence of two.
LEMMA Pairing == \A a, b \in Crumbs : <<a>> \o <<b>> = <<a, b>>
<1> SUFFICES ASSUME NEW a \in Crumbs, NEW b \in Crumbs PROVE <<a>> \o <<b>> = <<a, b>>
  OBVIOUS
<1> DEFINE s == <<a>> \o <<b>>
           t == <<a, b>>
<1>1. s \in Seq(Crumbs) /\ Len(s) = 2 /\ s[1] = a /\ s[2] = b
  OBVIOUS
<1>2. t \in Seq(Crumbs) /\ Len(t) = 2 /\ t[1] = a /\ t[2] = b
  OBVIOUS
<1> HIDE DEF s, t
<1>3. \A i \in 1..Len(s) : s[i] = t[i]
  BY <1>1, <1>2
<1>4. s = t
  BY <1>1, <1>2, <1>3, SeqEqual
<1> QED
  BY <1>4 DEF s, t

\* What a call says grows as it goes on.
LEMMA Saying ==
  /\ Said("made") \o <<"call">> = Said("running") /\ Said("made") \o <<"call">> = Said("short")
  /\ Said("made") \o <<>> = Said("silent")
  /\ Said("short") \o <<"result">> = Said("ok") /\ Said("running") \o <<"result">> = Said("fired")
  /\ Said("running") \o <<"error">> = Said("error") /\ Said("fired") \o <<>> = Said("ok")
<1>1. /\ <<"call">> \o <<"result">> = <<"call", "result">>
      /\ <<"call">> \o <<"error">> = <<"call", "error">>
  BY Pairing DEF Crumbs
<1>2. /\ <<>> \o <<"call">> = <<"call">> /\ <<>> \o <<>> = <<>>
      /\ <<"call", "result">> \o <<>> = <<"call", "result">>
  OBVIOUS
<1> QED
  BY <1>1, <1>2 DEF Said

LEMMA ToolKeeps == \A i \in Calls : TInv /\ ToolAct(i) => TInv'
<1> SUFFICES ASSUME TInv, NEW i \in Calls, ToolAct(i) PROVE TInv'
  OBVIOUS
<1>1. <<>> \in Seq(Crumbs) /\ \A c \in Crumbs : <<c>> \in Seq(Crumbs)
  OBVIOUS
<1>2. Crumbs = {"call", "result", "error"}
      /\ {"running", "short", "fired", "ok", "error", "silent", "spoilt"} \subseteq CallStates
  BY DEF Crumbs, CallStates, Underway
<1>3. CASE BeforeRun(i)
  <2>1. CASE \E next \in {"running", "short"} : ToolSteps(i, next, <<"call">>, FALSE)
    <3>1. PICK next \in {"running", "short"} : ToolSteps(i, next, <<"call">>, FALSE)
      BY <2>1
    <3>2. Said("made") \o <<"call">> = Said(next)
      BY Saying
    <3> QED
      BY <1>1, <1>2, <1>3, <3>1, <3>2, ToolMoves DEF BeforeRun
  <2>2. CASE ToolSteps(i, "silent", <<>>, TRUE)
    BY <1>1, <1>2, <1>3, <2>2, Saying, ToolMoves DEF BeforeRun
  <2> QED
    BY <1>3, <2>1, <2>2 DEF BeforeRun
<1>4. CASE ShortCircuit(i)
  BY <1>1, <1>2, <1>4, Saying, ToolMoves DEF ShortCircuit
<1>5. CASE Executes(i)
  BY <1>1, <1>2, <1>5, Saying, ToolMoves DEF Executes
<1>6. CASE Throws(i)
  <2>1. CASE ToolSteps(i, "error", <<"error">>, TRUE)
    BY <1>1, <1>2, <1>6, <2>1, Saying, ToolMoves DEF Throws
  <2>2. CASE ~ToolSteps(i, "error", <<"error">>, TRUE)
    <3>1. /\ calls' = [calls EXCEPT ![i].tries = @ + 1]
          /\ UNCHANGED <<phase, pending, sdk, step, parts, made, buffer, out, rows, results,
                         checkpoint>>
      BY <1>6, <2>2 DEF Throws, crumbVars, runVars, storeVars
    <3>2. /\ calls' \in [Calls -> CallRecords]
          /\ \A j \in Calls : /\ calls'[j].st = calls[j].st /\ calls'[j].kind = calls[j].kind
                              /\ calls'[j].current = calls[j].current
                              /\ calls'[j].step = calls[j].step
                              /\ j > made => calls'[j] = calls[j]
      <4>1. calls[i] \in CallRecords /\ ~(i > made)
            /\ calls' = [calls EXCEPT ![i] = [calls[i] EXCEPT !.tries = @ + 1]]
        BY <1>6, <3>1 DEF TInv, Shapes, Throws, Unused, NoCall
      <4>2. [calls[i] EXCEPT !.tries = @ + 1] \in CallRecords
        BY <4>1 DEF CallRecords
      <4>3. calls' \in [Calls -> CallRecords]
        BY <4>1, <4>2 DEF TInv, Shapes
      <4>4. \A j \in Calls : j # i => calls'[j] = calls[j]
        BY <4>1 DEF TInv, Shapes
      <4>5. /\ calls'[i].st = calls[i].st /\ calls'[i].kind = calls[i].kind
            /\ calls'[i].current = calls[i].current /\ calls'[i].step = calls[i].step
        BY <4>1 DEF TInv, Shapes, CallRecords
      <4> QED
        BY <4>1, <4>3, <4>4, <4>5
    <3>3. \A j \in 1..made : j \in Calls
      BY SizeAssumption DEF TInv, Shapes, Calls
    <3>4. \A j : Current(j)' <=> Current(j)
      BY <3>1, <3>2, <3>3 DEF Current
    <3>5. Shapes' /\ Unused' /\ Unstored'
      BY <3>1, <3>2 DEF TInv, Shapes, Unused, Unstored
    <3>6. StreamShape'
      <4>1. ASSUME phase = "streaming", NEW j \in DOMAIN parts, parts[j].p = "call"
            PROVE  (/\ Current(parts[j].c)
                    /\ calls[parts[j].c].kind \in Asks => calls[parts[j].c].st = "held")'
        <5>1. /\ Current(parts[j].c)
              /\ calls[parts[j].c].kind \in Asks => calls[parts[j].c].st = "held"
          BY <4>1 DEF TInv, StreamShape
        <5> QED
          BY <3>1, <3>2, <3>3, <5>1 DEF Current
      <4> QED
        BY <3>1, <4>1 DEF TInv, StreamShape
    <3>7. StepsSettle'
      BY <3>1, <3>2, <3>4 DEF TInv, StepsSettle
    <3>8. Told'
      BY <3>1, <3>2, <3>4 DEF TInv, Told, Reading
    <3>9. Stored'
      <4>1. \A j \in rows : j \in Calls
        BY <3>3 DEF TInv, Shapes
      <4> QED
        BY <3>1, <3>2, <4>1 DEF TInv, Stored, Reading
    <3>10. Awaited'
      <4>1. Current(pending) => pending \in Calls
        BY <3>3 DEF Current
      <4>2. \A j \in rows : j \in Calls
        BY <3>3 DEF TInv, Shapes
      <4> QED
        BY <3>1, <3>2, <3>4, <4>1, <4>2 DEF TInv, Awaited, Reading
    <3> QED
      BY <3>5, <3>6, <3>7, <3>8, <3>9, <3>10 DEF TInv
  <2> QED
    BY <2>1, <2>2
<1>7. CASE AfterRun(i)
  <2>1. CASE ToolSteps(i, "ok", <<>>, TRUE)
    BY <1>1, <1>2, <1>7, <2>1, Saying, ToolMoves DEF AfterRun
  <2>2. CASE ~ToolSteps(i, "ok", <<>>, TRUE)
    <3>1. PICK crumbs \in Seq(Crumbs) : ToolSteps(i, "spoilt", crumbs, TRUE)
      BY <1>1, <1>2, <1>7, <2>2 DEF AfterRun
    <3> QED
      BY <1>2, <1>7, <3>1, ToolMoves DEF AfterRun
  <2> QED
    BY <2>1, <2>2
<1> QED
  BY <1>3, <1>4, <1>5, <1>6, <1>7 DEF ToolAct

-----------------------------------------------------------------------------
(* continueRun.                                                            *)

LEMMA ReadPartKeeps == TInv /\ ReadPart => TInv'
<1> SUFFICES ASSUME TInv, ReadPart PROVE TInv'
  OBVIOUS
<1> DEFINE part == Head(parts)
<1>1. /\ Shapes /\ phase = "streaming" /\ Flush /\ parts # <<>> /\ parts' = Tail(parts)
      /\ UNCHANGED <<sdk, step, calls, made, rows, results, checkpoint>>
      /\ pending' = IF part.p = "call" /\ calls[part.c].kind \in Asks THEN part.c ELSE pending
      /\ phase' \in {"streaming", "closing", "failing"}
      /\ part.p \in {"error", "abort"} => phase' = "failing"
      /\ part.p = "end" <=> phase' = "closing"
      /\ part.p \notin Finals => phase' = "streaming"
  BY DEF TInv, ReadPart, storeVars, Finals
<1>2. /\ part \in Parts /\ parts' \in Seq(Parts) /\ Len(parts) \in Nat /\ Len(parts) > 0
      /\ part = parts[1] /\ Len(parts') = Len(parts) - 1 /\ 1 \in DOMAIN parts
      /\ DOMAIN parts = 1..Len(parts) /\ DOMAIN parts' = 1..(Len(parts) - 1)
      /\ \A j \in 1..(Len(parts) - 1) : parts'[j] = parts[j + 1]
  BY <1>1, Taking DEF Shapes
<1> HIDE DEF part
<1>3. /\ out' \in [Calls -> Seq(Crumbs)] /\ buffer' \in [Calls -> Seq(Crumbs)]
      /\ \A i \in Calls : /\ buffer'[i] = <<>>
                          /\ out'[i] \o buffer'[i] = out[i] \o buffer[i]
                          /\ buffer[i] = <<>> => out'[i] = out[i]
  BY <1>1, Flushing
<1>4. \A i : Current(i)' <=> Current(i)
  BY <1>1 DEF Current
<1>5. part.p = "call" => /\ Current(part.c) /\ part.c \in 1..made
                         /\ calls[part.c].kind \in Asks => calls[part.c].st = "held"
  BY <1>1, <1>2 DEF TInv, StreamShape, Current
<1>6. part.p \in Finals => sdk = "closed" /\ Len(parts) = 1
  BY <1>2 DEF TInv, StreamShape
<1>7. Shapes'
  <2>1. phase' \in Phases
    BY <1>1 DEF Phases
  <2>2. pending' \in 0..made
    BY <1>1, <1>5, SizeAssumption DEF Shapes
  <2> QED
    BY <1>1, <1>2, <1>3, <2>1, <2>2 DEF Shapes
<1>8. Unused'
  BY <1>1, <1>3 DEF TInv, Unused
<1>9. StreamShape'
  <2>1. phase' = "streaming" => part.p \notin Finals
    BY <1>1 DEF Finals
  <2>2. sdk # "closed" => phase' = "streaming"
    BY <1>1, <1>6
  <2>3. ASSUME NEW j \in DOMAIN parts'
        PROVE  /\ parts'[j].p \in Finals => sdk = "closed" /\ j = Len(parts')
               /\ parts'[j].p = "call" =>
                    /\ Current(parts[j + 1].c)
                    /\ calls[parts[j + 1].c].kind \in Asks => calls[parts[j + 1].c].st = "held"
    <3>1. j + 1 \in DOMAIN parts /\ parts'[j] = parts[j + 1] /\ j \in Nat
      BY <1>2
    <3>2. /\ parts[j + 1].p \in Finals => sdk = "closed" /\ j + 1 = Len(parts)
          /\ parts[j + 1].p = "call" =>
               /\ Current(parts[j + 1].c)
               /\ calls[parts[j + 1].c].kind \in Asks => calls[parts[j + 1].c].st = "held"
      BY <1>1, <3>1 DEF TInv, StreamShape
    <3> QED
      BY <1>2, <3>1, <3>2
  <2>4. ASSUME NEW j \in DOMAIN parts', parts'[j].p = "call"
        PROVE  (/\ Current(parts[j].c)
                /\ calls[parts[j].c].kind \in Asks => calls[parts[j].c].st = "held")'
    <3>1. parts'[j] = parts[j + 1]
      BY <1>2
    <3> QED
      BY <1>1, <2>3, <2>4, <3>1 DEF Current
  <2> QED
    BY <1>1, <2>2, <2>3, <2>4 DEF StreamShape
<1>10. StepsSettle'
  <2>1. ASSUME phase' = "closing" \/ (phase' = "streaming" /\ \E j \in DOMAIN parts' : parts'[j].p = "end")
        PROVE  \E j \in DOMAIN parts : parts[j].p = "end"
    <3>1. CASE phase' = "closing"
      BY <1>1, <1>2, <3>1
    <3>2. CASE phase' # "closing"
      <4>1. PICK j \in DOMAIN parts' : parts'[j].p = "end"
        BY <2>1, <3>2
      <4>2. j + 1 \in DOMAIN parts /\ parts'[j] = parts[j + 1]
        BY <1>2
      <4> QED
        BY <4>1, <4>2
    <3> QED
      BY <3>1, <3>2
  <2> QED
    BY <1>1, <1>4, <2>1 DEF TInv, StepsSettle
<1>11. Told'
  BY <1>1, <1>3, <1>4 DEF TInv, Told, Reading
<1>12. Stored' /\ Unstored'
  <2>1. \A i \in rows : i \in Calls
    BY <1>1, SizeAssumption DEF Shapes, Calls
  <2> QED
    BY <1>1, <1>3, <2>1 DEF TInv, Stored, Unstored, Reading
<1>13. Awaited'
  BY <1>1, <1>4, <1>5 DEF TInv, Awaited, Reading
<1> QED
  BY <1>7, <1>8, <1>9, <1>10, <1>11, <1>12, <1>13 DEF TInv

LEMMA CloseTurnKeeps == TInv /\ CloseTurn => TInv'
<1> SUFFICES ASSUME TInv, CloseTurn PROVE TInv'
  OBVIOUS
<1>1. /\ Shapes /\ phase = "closing" /\ Flush
      /\ UNCHANGED <<pending, sdk, step, parts, calls, made>>
      /\ rows' = rows \cup Attempted
      /\ results' = [i \in Calls |-> IF i \in Settled THEN results[i] + 1 ELSE results[i]]
      /\ \/ pending # 0 /\ checkpoint' = pending /\ phase' = "suspending"
         \/ checkpoint' = checkpoint /\ phase' = "ending"
  BY DEF TInv, CloseTurn, PersistTurn, sdkVars
<1>2. /\ out' \in [Calls -> Seq(Crumbs)] /\ buffer' \in [Calls -> Seq(Crumbs)]
      /\ \A i \in Calls : /\ buffer'[i] = <<>> /\ out'[i] = out[i] \o buffer[i]
                          /\ buffer[i] = <<>> => out'[i] = out[i]
  BY <1>1, Flushing
<1>3. \A i \in 1..made : i \in Calls
  BY <1>1, SizeAssumption DEF Shapes, Calls
<1>4. \A i \in Calls : results'[i] = IF i \in Settled THEN results[i] + 1 ELSE results[i]
  BY <1>1
<1>5. \A i : i \in Attempted <=> Current(i)
  BY DEF Attempted, Current
<1>6. \A i \in rows : i \in Calls /\ i \notin Attempted
  BY <1>1, <1>3 DEF TInv, Stored, Reading, Attempted, Shapes
<1>7. \A i : i \in Settled <=> i \in Attempted /\ calls[i].st \in {"ok", "error", "silent", "spoilt"}
  BY DEF Settled
<1>8. ASSUME NEW i \in Attempted
      PROVE  /\ i \in Calls /\ i \notin rows /\ results[i] = 0
             /\ calls[i].st \notin Underway \cup {"none"}
             /\ calls[i].st = "spoilt" \/ out'[i] = Said(calls[i].st)
  <2>1. i \in Calls /\ i \notin rows /\ Current(i)
    BY <1>3, <1>5, <1>6 DEF Current
  <2> QED
    BY <1>1, <1>2, <2>1 DEF TInv, Unstored, StepsSettle, Told, Reading
<1>9. Shapes'
  <2>1. results' \in [Calls -> Nat]
    <3>1. \A i \in Calls : results[i] \in Nat
      BY <1>1 DEF Shapes
    <3>2. \A i \in Calls : (IF i \in Settled THEN results[i] + 1 ELSE results[i]) \in Nat
      BY <3>1
    <3> QED
      BY <1>1, <3>2
  <2>2. rows' \subseteq 1..made /\ phase' \in Phases /\ checkpoint' \in 0..made
    BY <1>1 DEF Shapes, Phases, Attempted
  <2> QED
    BY <1>1, <1>2, <2>1, <2>2 DEF Shapes
<1>10. Unused'
  <2>1. \A i \in Calls : i > made => i \notin Settled
    BY <1>1, SizeAssumption DEF Settled, Attempted, Shapes, Calls
  <2> QED
    BY <1>1, <1>2, <1>4, <2>1 DEF TInv, Unused
<1>11. StreamShape' /\ StepsSettle' /\ Told'
  BY <1>1 DEF TInv, StreamShape, StepsSettle, Told, Reading
<1>12. Stored'
  <2> SUFFICES ASSUME NEW i \in rows'
               PROVE  /\ calls[i].st \notin Underway \cup {"none"} /\ buffer'[i] = <<>>
                      /\ calls[i].st = "spoilt" \/ out'[i] = Said(calls[i].st)
                      /\ results'[i] <= 1 /\ (results'[i] > 0 => calls[i].st # "held")
    BY <1>1 DEF Stored, Reading
  <2>1. CASE i \in Attempted
    <3>1. i \in Calls /\ results[i] = 0 /\ calls[i].st \notin Underway \cup {"none"}
          /\ (calls[i].st = "spoilt" \/ out'[i] = Said(calls[i].st))
      BY <1>8, <2>1
    <3>2. results'[i] \in {0, 1} /\ (results'[i] = 1 => calls[i].st # "held")
      BY <1>4, <1>7, <3>1
    <3>3. results'[i] <= 1 /\ (results'[i] > 0 => calls[i].st # "held")
      BY <3>2
    <3>4. buffer'[i] = <<>>
      BY <1>2, <3>1
    <3> QED
      BY <3>1, <3>3, <3>4
  <2>2. CASE i \in rows
    BY <1>2, <1>4, <1>6, <1>7, <2>2 DEF TInv, Stored
  <2> QED
    BY <1>1, <2>1, <2>2
<1>13. Unstored'
  BY <1>1, <1>4, <1>7 DEF TInv, Unstored
<1>14. Awaited'
  <2>1. CASE pending # 0
    <3>1. pending \in Attempted /\ calls[pending].st = "held"
      BY <1>1, <1>5, <2>1 DEF TInv, Awaited, Reading
    <3> QED
      BY <1>1, <1>4, <1>7, <1>8, <3>1 DEF Awaited, Reading
  <2>2. CASE pending = 0
    BY <1>1, <2>2 DEF Awaited, Reading
  <2> QED
    BY <2>1, <2>2
<1> QED
  BY <1>9, <1>10, <1>11, <1>12, <1>13, <1>14 DEF TInv

LEMMA ResolveModelKeeps == TInv /\ ResolveModel => TInv'
<1> SUFFICES ASSUME TInv, ResolveModel PROVE TInv'
  OBVIOUS
<1>1. phase = "resolving" /\ UNCHANGED <<made, buffer, rows, results, checkpoint>>
  BY DEF ResolveModel
<1>2. CASE StreamModel
  BY <1>1, <1>2, Streams
<1>3. CASE ~StreamModel
  <2>1. phase' = "failing" /\ UNCHANGED <<pending, sdk, step, parts, calls, out>>
    BY <1>3 DEF ResolveModel
  <2> QED
    BY <1>1, <2>1, Quiet DEF sdkVars, Phases, Reading, TInv, Shapes
<1> QED
  BY <1>2, <1>3

LEMMA BackoffKeeps == TInv /\ Backoff => TInv'
<1> SUFFICES ASSUME TInv, Backoff PROVE TInv'
  OBVIOUS
<1>1. phase = "backoff" /\ UNCHANGED <<made, buffer, rows, results, checkpoint>>
  BY DEF Backoff, storeVars
<1>2. CASE StreamModel
  BY <1>1, <1>2, Streams
<1>3. CASE ~StreamModel
  <2>1. phase' \in {"cancelled", "resolving"} /\ UNCHANGED <<pending, sdk, step, parts, calls, out>>
    BY <1>3 DEF Backoff
  <2> QED
    BY <1>1, <2>1, Quiet DEF sdkVars, Phases, Over, Reading, TInv, Shapes
<1> QED
  BY <1>2, <1>3

\* The ends of a run and its failures.
Leaves ==
  \/ Suspended \/ EndRun \/ Cancelled \/ Recovers \/ OnErrorThrows
  \/ \E d \in Decisions : GivesUp(d) \/ Retries(d)
LEMMA LeavesKeeps == TInv /\ Leaves => TInv'
<1> SUFFICES ASSUME TInv, Leaves PROVE TInv'
  OBVIOUS
<1>1. UNCHANGED <<pending, sdkVars, rows, results, checkpoint>>
  BY DEF Leaves, Suspended, EndRun, Cancelled, Recovers, OnErrorThrows, GivesUp, Retries, storeVars
<1>2. /\ phase \in {"suspending", "ending", "failing"}
      /\ phase' \in {"suspended", "ended", "failing", "cancelled", "failed", "backoff"}
      /\ phase' = "suspended" => phase = "suspending"
  BY DEF Leaves, Suspended, EndRun, Cancelled, Recovers, OnErrorThrows, GivesUp, Retries
<1>3. \/ UNCHANGED <<buffer, out>> \/ Flush
      \/ buffer' = [i \in Calls |-> <<>>] /\ UNCHANGED out
  BY DEF Leaves, Suspended, EndRun, Cancelled, Recovers, OnErrorThrows, GivesUp, Retries, crumbVars
<1>4. /\ out' \in [Calls -> Seq(Crumbs)] /\ buffer' \in [Calls -> Seq(Crumbs)]
      /\ \A i \in Calls : buffer[i] = <<>> => buffer'[i] = <<>> /\ out'[i] = out[i]
  <2>1. CASE UNCHANGED <<buffer, out>>
    BY <2>1 DEF TInv, Shapes
  <2>2. CASE Flush
    BY <2>2, Flushing DEF TInv
  <2>3. CASE buffer' = [i \in Calls |-> <<>>] /\ UNCHANGED out
    <3>1. <<>> \in Seq(Crumbs)
      OBVIOUS
    <3> QED
      BY <2>3, <3>1 DEF TInv, Shapes
  <2> QED
    BY <1>3, <2>1, <2>2, <2>3
<1> QED
  BY <1>1, <1>2, <1>4, Quiet DEF Phases, Over, Reading

-----------------------------------------------------------------------------
(* The session.                                                            *)

\* What runs and resumes begin with: a stored call keeps its state and what
\* was yielded for it; the call a, if it is one, gets the outcome st.
Settles(a, st) ==
  /\ calls' \in [Calls -> CallRecords] /\ out' \in [Calls -> Seq(Crumbs)]
  /\ \A i \in Calls : IF i = a THEN calls'[i].st = st /\ ~calls'[i].current
                               ELSE calls'[i] = Kept(Left(FALSE))[i]
  /\ \A i \in Calls : out'[i] = IF i = a THEN Said(st) ELSE Heard(Left(FALSE))[i]
  /\ a # 0 => a \in rows
Restarts(a) ==
  /\ ~Reading /\ phase' \in {"resolving", "failed"}
  /\ results' \in [Calls -> Nat] /\ \A i \in Calls : i # a => results'[i] = results[i]
  /\ a # 0 => results'[a] <= 1
  /\ buffer' \in [Calls -> Seq(Crumbs)]
  /\ \A i \in Calls : buffer[i] = <<>> => buffer'[i] = <<>>
  /\ pending' \in {0, pending} /\ checkpoint' \in {0, checkpoint}
  /\ UNCHANGED <<sdk, step, parts, made, rows>>

LEMMA Session ==
  ASSUME TInv, NEW a \in 0..MaxCalls, NEW st \in {"silent", "ok", "error"},
         Settles(a, st), Restarts(a)
  PROVE  TInv'
<1> USE DEF Settles, Restarts
<1> DEFINE kept == Kept(Left(FALSE))
           heard == Heard(Left(FALSE))
<1>1. Shapes /\ sdk = "closed"
  BY DEF TInv, StreamShape, Reading
<1>2. \A i \in rows : i \in Calls /\ i \in 1..made
  BY <1>1, SizeAssumption DEF Shapes, Calls
<1>3. \A i \in Calls :
        /\ ~kept[i].current
        /\ i \in rows => kept[i].st = calls[i].st /\ heard[i] = out[i]
        /\ i > made => kept[i] = NoCall /\ heard[i] = <<>>
  BY <1>1, Keeping
<1>4. a # 0 => ~(a > made)
  BY <1>1, <1>2, SizeAssumption DEF Shapes
<1> HIDE DEF kept, heard
<1>5. \A i \in Calls : /\ i # a => calls'[i] = kept[i]
                       /\ i = a => calls'[i].st = st /\ ~calls'[i].current
  BY DEF kept
<1>6. \A i \in Calls : out'[i] = IF i = a THEN Said(st) ELSE heard[i]
  BY DEF heard
<1>7. \A i \in Calls : ~calls'[i].current
  BY <1>3, <1>5
<1>8. \A i : ~Current(i)'
  <2>1. \A i \in 1..made : i \in Calls
    BY <1>1, SizeAssumption DEF Shapes, Calls
  <2> QED
    BY <1>7, <2>1 DEF Current
<1>9. Shapes'
  <2>1. phase' \in Phases /\ pending' \in 0..made' /\ checkpoint' \in 0..made'
    BY <1>1, SizeAssumption DEF Shapes, Phases, Over
  <2> QED
    BY <1>1, <2>1 DEF Shapes
<1>10. Unused'
  <2> SUFFICES ASSUME NEW i \in Calls, i > made
               PROVE  calls'[i] = NoCall /\ buffer'[i] = <<>> /\ out'[i] = <<>> /\ results'[i] = 0
    BY DEF Unused
  <2>1. i # a
    BY <1>4, SizeAssumption DEF Calls
  <2> QED
    BY <1>3, <1>5, <1>6, <2>1 DEF TInv, Unused
<1>11. StreamShape' /\ StepsSettle' /\ Told' /\ Awaited'
  <2>1. ~Reading' /\ phase' \notin {"streaming", "closing", "suspending", "suspended"}
    BY DEF Reading
  <2>2. \A j \in DOMAIN parts : parts[j].p \in Finals => j = Len(parts)
    BY DEF TInv, StreamShape
  <2> QED
    BY <1>1, <2>1, <2>2 DEF StreamShape, StepsSettle, Told, Awaited
<1>12. Stored'
  <2> SUFFICES ASSUME NEW i \in rows
               PROVE  /\ calls'[i].st \notin Underway \cup {"none"} /\ buffer'[i] = <<>>
                      /\ calls'[i].st = "spoilt" \/ out'[i] = Said(calls'[i].st)
                      /\ results'[i] <= 1 /\ (results'[i] > 0 => calls'[i].st # "held")
    BY DEF Stored, Reading
  <2>1. buffer'[i] = <<>> /\ i \in Calls
    BY <1>2 DEF TInv, Stored
  <2>2. CASE i = a
    <3>1. calls'[i].st = st /\ out'[i] = Said(st) /\ results'[i] <= 1
      BY <1>5, <1>6, <2>1, <2>2, SizeAssumption DEF Calls
    <3>2. st \notin Underway \cup {"none"} /\ st # "held"
      BY DEF Underway
    <3> QED
      BY <2>1, <3>1, <3>2
  <2>3. CASE i # a
    <3>1. calls'[i].st = calls[i].st /\ out'[i] = out[i] /\ results'[i] = results[i]
      BY <1>3, <1>5, <1>6, <2>1, <2>3
    <3> QED
      BY <2>1, <3>1 DEF TInv, Stored
  <2> QED
    BY <2>2, <2>3
<1>13. Unstored'
  <2>1. \A i \in Calls : i \notin rows => i # a
    BY SizeAssumption DEF Calls
  <2> QED
    BY <2>1 DEF TInv, Unstored
<1> QED
  BY <1>9, <1>10, <1>11, <1>12, <1>13 DEF TInv

\* The call a person answers, and the others.
LEMMA Answering ==
  ASSUME TInv, phase = "suspended",
         NEW st \in {"silent", "ok", "error"}, NEW crumbs \in Seq(Crumbs), crumbs = Said(st),
         Answer(crumbs, st)
  PROVE  /\ checkpoint \in rows /\ checkpoint \in Calls /\ results[checkpoint] = 0
         /\ Settles(checkpoint, st)
<1> DEFINE kept == Kept(Left(FALSE))
           heard == Heard(Left(FALSE))
<1>1. /\ checkpoint \in rows /\ checkpoint \in Calls /\ results[checkpoint] = 0
      /\ calls[checkpoint].st = "held"
  BY SizeAssumption DEF TInv, Awaited, Shapes, Calls
<1>2. /\ kept \in [Calls -> CallRecords] /\ heard \in [Calls -> Seq(Crumbs)]
      /\ ~kept[checkpoint].current /\ heard[checkpoint] = out[checkpoint]
  BY <1>1, Keeping DEF TInv
<1>3. out[checkpoint] = <<>>
  BY <1>1 DEF TInv, Stored, Said
<1>4. /\ calls' = [kept EXCEPT ![checkpoint] = [kept[checkpoint] EXCEPT !.st = st]]
      /\ out' = [heard EXCEPT ![checkpoint] = heard[checkpoint] \o crumbs]
  BY DEF Answer
<1> HIDE DEF kept, heard
<1>5. LET c == [kept[checkpoint] EXCEPT !.st = st] IN
        c \in CallRecords /\ c.st = st /\ ~c.current
  <2>1. kept[checkpoint] \in CallRecords /\ st \in CallStates
    BY <1>1, <1>2 DEF CallStates
  <2> QED
    BY <1>2, <2>1 DEF CallRecords
<1>6. heard[checkpoint] \o crumbs = Said(st)
  <2>1. \A s \in Seq(Crumbs) : <<>> \o s = s
    BY ConcatEmptySeq
  <2> QED
    BY <1>2, <1>3, <2>1
<1>7. /\ calls' \in [Calls -> CallRecords]
      /\ \A i \in Calls : IF i = checkpoint THEN calls'[i].st = st /\ ~calls'[i].current
                                            ELSE calls'[i] = kept[i]
  BY <1>1, <1>2, <1>4, <1>5
<1>8. /\ out' \in [Calls -> Seq(Crumbs)]
      /\ \A i \in Calls : out'[i] = IF i = checkpoint THEN Said(st) ELSE heard[i]
  BY <1>1, <1>2, <1>4, <1>6
<1> QED
  BY <1>1, <1>7, <1>8 DEF kept, heard, Settles

\* What the start of a run does to the crumbs.
LEMMA Clearing ==
  ASSUME TInv, buffer' = buffer \/ buffer' = [i \in Calls |-> <<>>]
  PROVE  buffer' \in [Calls -> Seq(Crumbs)] /\ \A i \in Calls : buffer[i] = <<>> => buffer'[i] = <<>>
<1>1. <<>> \in Seq(Crumbs)
  OBVIOUS
<1> QED
  BY <1>1 DEF TInv, Shapes

\* What a call is settled with outside of a stream.
LEMMA Outcomes ==
  /\ <<>> \in Seq(Crumbs) /\ <<"call", "result">> \in Seq(Crumbs)
  /\ <<"call", "error">> \in Seq(Crumbs)
  /\ Said("silent") = <<>> /\ Said("ok") = <<"call", "result">>
  /\ Said("error") = <<"call", "error">>
BY DEF Crumbs, Said

LEMMA StartRunKeeps == TInv /\ StartRun => TInv'
<1> SUFFICES ASSUME TInv, StartRun PROVE TInv'
  OBVIOUS
<1>1. /\ ~Reading /\ phase' = "resolving" /\ pending' = 0
      /\ buffer' = [i \in Calls |-> <<>>]
      /\ calls' = Kept(Left(FALSE)) /\ out' = Heard(Left(FALSE))
      /\ UNCHANGED <<sdk, step, parts, made, rows, results, checkpoint>>
  BY DEF StartRun, Begins, Reading, Over
<1>2. 0 \in 0..MaxCalls /\ results \in [Calls -> Nat] /\ \A i \in Calls : i # 0
  BY SizeAssumption DEF TInv, Shapes, Calls
<1>3. /\ buffer' \in [Calls -> Seq(Crumbs)]
      /\ \A i \in Calls : buffer[i] = <<>> => buffer'[i] = <<>>
  BY <1>1, Clearing
<1>4. calls' \in [Calls -> CallRecords] /\ out' \in [Calls -> Seq(Crumbs)]
  BY <1>1, Keeping DEF TInv
<1>5. Settles(0, "ok")
  BY <1>1, <1>2, <1>4 DEF Settles
<1>6. Restarts(0)
  BY <1>1, <1>2, <1>3 DEF Restarts
<1> QED
  BY <1>2, <1>5, <1>6, Session

\* The steps of a session that answer a call.
LEMMA Answers ==
  ASSUME TInv, phase = "suspended", phase' \in {"resolving", "failed"},
         NEW st \in {"silent", "ok", "error"}, Answer(Said(st), st),
         results' = results \/ results' = [results EXCEPT ![checkpoint] = @ + 1],
         buffer' = buffer \/ buffer' = [i \in Calls |-> <<>>], pending' \in {0, pending},
         UNCHANGED <<sdk, step, parts, made, rows>>
  PROVE  TInv'
<1>1. Said(st) \in Seq(Crumbs)
  BY Outcomes
<1>2. /\ checkpoint \in rows /\ checkpoint \in Calls /\ results[checkpoint] = 0
      /\ Settles(checkpoint, st)
  BY <1>1, Answering
<1>3. /\ results' \in [Calls -> Nat] /\ results'[checkpoint] <= 1
      /\ \A i \in Calls : i # checkpoint => results'[i] = results[i]
  BY <1>2 DEF TInv, Shapes
<1>4. /\ buffer' \in [Calls -> Seq(Crumbs)]
      /\ \A i \in Calls : buffer[i] = <<>> => buffer'[i] = <<>>
  BY Clearing
<1>5. ~Reading /\ checkpoint \in 0..MaxCalls /\ checkpoint' = 0
  BY <1>2, SizeAssumption DEF Reading, Answer, Calls
<1>6. Restarts(checkpoint)
  BY <1>3, <1>4, <1>5 DEF Restarts
<1> QED
  BY <1>2, <1>5, <1>6, Session

LEMMA ResumeKeeps == TInv /\ Resume => TInv'
<1> SUFFICES ASSUME TInv, Resume PROVE TInv'
  OBVIOUS
<1>1. /\ phase = "suspended" /\ phase' = "resolving" /\ pending' = 0
      /\ buffer' = [i \in Calls |-> <<>>]
      /\ results' = [results EXCEPT ![checkpoint] = @ + 1]
      /\ UNCHANGED <<sdk, step, parts, made, rows>>
      /\ Answer(<<>>, "silent") \/ Answer(<<"call", "result">>, "ok")
  BY DEF Resume, Begins
<1>2. PICK st \in {"silent", "ok", "error"} : Answer(Said(st), st)
  BY <1>1, Outcomes
<1> QED
  BY <1>1, <1>2, Answers

LEMMA ApprovedToolThrowsKeeps == TInv /\ ApprovedToolThrows => TInv'
<1> SUFFICES ASSUME TInv, ApprovedToolThrows PROVE TInv'
  OBVIOUS
<1>1. /\ phase = "suspended" /\ phase' = "failed" /\ Answer(<<"call", "error">>, "error")
      /\ UNCHANGED <<pending, buffer, sdk, step, parts, made, rows, results>>
  BY DEF ApprovedToolThrows
<1>2. PICK st \in {"silent", "ok", "error"} : Answer(Said(st), st)
  BY <1>1, Outcomes
<1> QED
  BY <1>1, <1>2, Answers

-----------------------------------------------------------------------------
LEMMA TInvNext == TInv /\ [Next]_vars => TInv'
<1>1. TInv /\ UNCHANGED vars => TInv'
  BY Stutters DEF vars, runVars, storeVars
<1>2. TInv /\ Next => TInv'
  BY ToolKeeps, ModelCallsKeeps, ModelStopsKeeps, NextStepKeeps, ProviderFailsKeeps, AbortKeeps,
     ReadPartKeeps, CloseTurnKeeps, ResolveModelKeeps, BackoffKeeps, LeavesKeeps,
     StartRunKeeps, ResumeKeeps, ApprovedToolThrowsKeeps
     DEF Next, SdkAct, RunAct, SessionAct, Leaves
<1> QED
  BY <1>1, <1>2

LEMMA TurnInductive == Spec => []TInv
BY TInvInit, TInvNext, PTL DEF Spec

\* A call whose result is in the history was announced by tool:call and by one
\* outcome, the one the model sees, in every run and every attempt.
THEOREM ClientsAreTold == Spec => []ClientsSeeWhatTheModelSees
<1>1. TInv => ClientsSeeWhatTheModelSees
  <2> SUFFICES ASSUME TInv, NEW i \in rows, results[i] > 0
               PROVE  \/ calls[i].st = "ok" /\ out[i] = <<"call", "result">>
                      \/ calls[i].st = "error" /\ out[i] = <<"call", "error">>
                      \/ calls[i].st = "silent" /\ out[i] = <<>>
                      \/ calls[i].st = "spoilt"
    BY DEF ClientsSeeWhatTheModelSees
  <2>1. i \in Calls
    BY SizeAssumption DEF TInv, Shapes, Calls
  <2>2. calls[i].st \in {"ok", "error", "silent", "spoilt"}
    BY <2>1 DEF TInv, Stored, Shapes, CallRecords, CallStates
  <2> QED
    BY <2>2 DEF TInv, Stored, Said
<1> QED
  BY <1>1, TurnInductive, PTL

-----------------------------------------------------------------------------
(* The history is complete while a step makes at most one call that only a *)
(* person can settle.                                                      *)

\* Outside of the stream nothing is held.
LEMMA NobodyHolds ==
  ASSUME TInv, TInv', \/ ~Reading'
                      \/ \A i \in Calls : ~calls'[i].current
  PROVE  OnePerson'
<1>1. CASE ~Reading'
  BY <1>1 DEF TInv, StreamShape, OnePerson, Reading
<1>2. CASE \A i \in Calls : ~calls'[i].current
  BY <1>2 DEF OnePerson, Holds, Current
<1> QED
  BY <1>1, <1>2

\* The stream goes on and the same calls wait for a person.
LEMMA SameHolds ==
  ASSUME TInv, OnePerson, phase' = phase, pending' = pending,
         \A i \in Calls : /\ Holds(i)' <=> Holds(i)
                          /\ Holds(i) => calls'[i].step = calls[i].step /\ calls'[i].kind = calls[i].kind,
         sdk' # "closed" => sdk # "closed",
         step' = step \/ \A i \in Calls : ~Holds(i),
         parts' = parts \/ \E e \in Parts : parts' = Append(parts, e)
  PROVE  OnePerson'
<1>1. ASSUME NEW x \in Parts, \E j \in DOMAIN parts : parts[j] = x
      PROVE  \E j \in DOMAIN parts' : parts'[j] = x
  <2>1. parts \in Seq(Parts)
    BY DEF TInv, Shapes
  <2>2. CASE parts' = parts
    BY <1>1, <2>2
  <2>3. CASE parts' # parts
    <3>1. PICK e \in Parts : parts' = Append(parts, e)
      BY <2>3
    <3> QED
      BY <1>1, <2>1, <3>1, Appending
  <2> QED
    BY <2>2, <2>3
<1>2. \A i \in Calls : [p |-> "call", c |-> i] \in Parts
  BY SizeAssumption DEF Parts, Calls
<1>3. (Reading => \A i, j \in Calls : Holds(i) /\ Holds(j) => i = j /\ calls[i].kind \in Asks)'
  BY DEF OnePerson, Reading
<1>4. (sdk # "closed" => \A i \in Calls : Holds(i) => calls[i].step = step)'
  BY DEF OnePerson
<1>5. (phase = "streaming" => \A i \in Calls : Holds(i) =>
         pending = i \/ \E j \in DOMAIN parts : parts[j] = [p |-> "call", c |-> i])'
  BY <1>1, <1>2 DEF OnePerson
<1>6. (phase = "closing" => \A i \in Calls : Holds(i) => pending = i)'
  BY DEF OnePerson
<1> QED
  BY <1>3, <1>4, <1>5, <1>6 DEF OnePerson

LEMMA ModelCallsPerson ==
  ASSUME MaxAsks <= 1, TInv, OnePerson, NEW k \in Kinds, ModelCalls(k)
  PROVE  OnePerson'
<1> PICK n : n = made + 1
  OBVIOUS
<1> DEFINE c == [kind |-> k, current |-> TRUE, step |-> step,
                 st |-> IF k \in Asks THEN "held" ELSE "made", tries |-> 1]
           e == [p |-> "call", c |-> n]
           asks == {i \in ThisStep : calls[i].kind \in Asks}
<1>1. /\ sdk = "thinking" /\ made < MaxCalls /\ made' = n /\ made \in Nat
      /\ calls' = [calls EXCEPT ![n] = c] /\ parts' = Append(parts, e)
      /\ UNCHANGED <<sdk, step, phase, pending>>
  BY SizeAssumption DEF ModelCalls, runVars, TInv, Shapes
<1>2. phase = "streaming" /\ n \in Calls
  BY <1>1, SizeAssumption DEF TInv, StreamShape, Calls
<1>3. c.st = "held" => k \in Asks
  OBVIOUS
<1>4. c.current /\ c.kind = k /\ c.step = step
  OBVIOUS
<1>5. \A i \in Calls : calls'[i] = IF i = n THEN c ELSE calls[i]
  BY <1>1 DEF TInv, Shapes
<1> HIDE DEF c
<1>6. \A i \in Calls : i # n => (Holds(i)' <=> Holds(i))
  BY <1>1, <1>2, <1>5, SizeAssumption DEF Holds, Current, Calls
<1>7. k \in Asks => \A i \in Calls : ~Holds(i)
  <2> SUFFICES ASSUME k \in Asks PROVE \A i \in Calls : ~Holds(i)
    OBVIOUS
  <2>1. Cardinality(asks) < MaxAsks
    BY DEF ModelCalls
  <2>2. IsFiniteSet(1..made) /\ asks \subseteq 1..made
    BY <1>1, FS_Interval DEF ThisStep
  <2>3. IsFiniteSet(asks) /\ Cardinality(asks) \in Nat
    BY <2>2, FS_Subset, FS_CardinalityType
  <2>4. asks = {}
    BY <2>1, <2>3, FS_EmptySet, SizeAssumption
  <2>5. \A i \in Calls : Holds(i) => i \in asks
    BY <1>1, <1>2 DEF OnePerson, Holds, Current, ThisStep, Reading
  <2> QED
    BY <2>4, <2>5
<1>8. Holds(n)' => k \in Asks
  <2>1. calls'[n].st = "held" => k \in Asks
    BY <1>2, <1>3, <1>5
  <2> QED
    BY <2>1 DEF Holds
<1>9. ASSUME NEW i \in Calls, Holds(i)'
      PROVE  /\ i = n \/ (Holds(i) /\ k \notin Asks)
             /\ calls'[i].kind \in Asks /\ calls'[i].step = step
  <2>1. CASE i = n
    BY <1>4, <1>5, <1>8, <1>9, <2>1
  <2>2. CASE i # n
    BY <1>1, <1>2, <1>5, <1>6, <1>7, <1>9, <2>2 DEF OnePerson, Reading
  <2> QED
    BY <2>1, <2>2
<1>10. \A i, j \in Calls : Holds(i)' /\ Holds(j)' => i = j
  BY <1>2, <1>8, <1>9 DEF OnePerson, Reading
<1>11. e \in Parts /\ parts \in Seq(Parts)
  BY <1>2, SizeAssumption DEF Parts, Calls, TInv, Shapes
<1>12. ASSUME NEW i \in Calls, Holds(i)'
       PROVE  pending = i \/ \E j \in DOMAIN parts' : parts'[j] = [p |-> "call", c |-> i]
  <2>1. CASE i = n
    BY <1>1, <1>11, <2>1, Appending
  <2>2. CASE i # n
    <3>1. pending = i \/ \E j \in DOMAIN parts : parts[j] = [p |-> "call", c |-> i]
      BY <1>2, <1>9, <1>12, <2>2 DEF OnePerson
    <3> QED
      BY <1>1, <1>11, <3>1, Appending
  <2> QED
    BY <2>1, <2>2
<1> QED
  BY <1>1, <1>2, <1>9, <1>10, <1>12 DEF OnePerson, Reading

LEMMA ReadPartPerson == ASSUME TInv, OnePerson, ReadPart PROVE OnePerson'
<1> DEFINE part == Head(parts)
<1>1. /\ phase = "streaming" /\ parts # <<>> /\ parts' = Tail(parts)
      /\ UNCHANGED <<sdk, step, calls, made>>
      /\ pending' = IF part.p = "call" /\ calls[part.c].kind \in Asks THEN part.c ELSE pending
      /\ phase' = "closing" => part.p = "end"
      /\ phase' = "streaming" \/ phase' = "closing" \/ ~Reading'
  BY DEF ReadPart, Reading
<1>2. /\ part \in Parts /\ Len(parts) \in Nat /\ Len(parts) > 0
      /\ part = parts[1] /\ 1 \in DOMAIN parts
      /\ DOMAIN parts = 1..Len(parts) /\ DOMAIN parts' = 1..(Len(parts) - 1)
      /\ \A j \in 1..(Len(parts) - 1) : parts'[j] = parts[j + 1]
  BY <1>1, Taking DEF TInv, Shapes
<1> HIDE DEF part
<1>3. \A i : Holds(i)' <=> Holds(i)
  BY <1>1 DEF Holds, Current
<1>4. part.p = "call" => /\ Current(part.c) /\ part.c \in Calls
                         /\ calls[part.c].kind \in Asks => calls[part.c].st = "held"
  <2>1. \A i \in 1..made : i \in Calls
    BY SizeAssumption DEF TInv, Shapes, Calls
  <2> QED
    BY <1>1, <1>2, <2>1 DEF TInv, StreamShape, Current
<1>5. ASSUME NEW i \in Calls, Holds(i)
      PROVE  pending' = i \/ \E j \in DOMAIN parts' : parts'[j] = [p |-> "call", c |-> i]
  <2>1. CASE part.p = "call" /\ calls[part.c].kind \in Asks
    BY <1>1, <1>4, <1>5, <2>1 DEF OnePerson, Holds, Reading
  <2>2. CASE ~(part.p = "call" /\ calls[part.c].kind \in Asks)
    <3>1. calls[i].kind \in Asks /\ pending' = pending
      BY <1>1, <1>5, <2>2 DEF OnePerson, Reading
    <3>2. CASE pending = i
      BY <3>1, <3>2
    <3>3. CASE pending # i
      <4>1. PICK j \in DOMAIN parts : parts[j] = [p |-> "call", c |-> i]
        BY <1>1, <1>5, <3>3 DEF OnePerson
      <4>2. j # 1
        BY <1>2, <2>2, <3>1, <4>1
      <4>3. j - 1 \in DOMAIN parts' /\ parts'[j - 1] = parts[j]
        BY <1>2, <4>2
      <4> QED
        BY <4>1, <4>3
    <3> QED
      BY <3>2, <3>3
  <2> QED
    BY <2>1, <2>2
<1>6. phase' = "closing" => parts' = <<>> /\ \A j \in DOMAIN parts' : FALSE
  BY <1>1, <1>2 DEF TInv, StreamShape, Finals
<1>7. sdk # "closed" => \A i \in Calls : Holds(i) => calls[i].step = step
  BY DEF OnePerson
<1>8. \A i, j \in Calls : Holds(i) /\ Holds(j) => i = j /\ calls[i].kind \in Asks
  BY <1>1 DEF OnePerson, Reading
<1> QED
  BY <1>1, <1>3, <1>5, <1>6, <1>7, <1>8 DEF OnePerson

LEMMA ToolPerson == ASSUME TInv, OnePerson, NEW i \in Calls, ToolAct(i) PROVE OnePerson'
<1>1. /\ calls[i].st \in Underway /\ calls[i].st # "held"
      /\ UNCHANGED <<phase, pending, sdk, step, made>>
  BY DEF ToolAct, BeforeRun, ShortCircuit, Executes, Throws, AfterRun, Live, ToolSteps, runVars,
         Underway
<1>2. parts' = parts \/ parts' = Append(parts, [p |-> "settled", c |-> i])
  BY DEF ToolAct, BeforeRun, ShortCircuit, Executes, Throws, AfterRun, ToolSteps, Reports
<1>3. \/ calls' = [calls EXCEPT ![i].tries = @ + 1]
      \/ \E st \in {"running", "short", "silent", "ok", "spoilt", "fired", "error"} :
           calls' = [calls EXCEPT ![i].st = st]
  BY DEF ToolAct, BeforeRun, ShortCircuit, Executes, Throws, AfterRun, ToolSteps
<1>4. calls[i] \in CallRecords /\ calls \in [Calls -> CallRecords]
  BY DEF TInv, Shapes
<1>5. calls'[i].st # "held" /\ \A j \in Calls : j # i => calls'[j] = calls[j]
  <2>1. CASE calls' = [calls EXCEPT ![i].tries = @ + 1]
    BY <1>1, <1>4, <2>1 DEF CallRecords
  <2>2. CASE \E st \in {"running", "short", "silent", "ok", "spoilt", "fired", "error"} :
               calls' = [calls EXCEPT ![i].st = st]
    BY <1>4, <2>2 DEF CallRecords
  <2> QED
    BY <1>3, <2>1, <2>2
<1>6. \A j \in Calls : /\ Holds(j)' <=> Holds(j)
                       /\ Holds(j) => calls'[j].step = calls[j].step /\ calls'[j].kind = calls[j].kind
  BY <1>1, <1>5 DEF Holds, Current
<1>7. [p |-> "settled", c |-> i] \in Parts
  BY SizeAssumption DEF Parts, Calls
<1> QED
  BY <1>1, <1>2, <1>6, <1>7, SameHolds

LEMMA SdkPerson ==
  ASSUME TInv, OnePerson, ModelStops \/ NextStep \/ ProviderFails \/ Abort
  PROVE  OnePerson'
<1>1. UNCHANGED <<phase, pending, calls, made>>
  BY DEF ModelStops, NextStep, ProviderFails, Abort, runVars
<1>2. \A i \in Calls : /\ Holds(i)' <=> Holds(i)
                       /\ Holds(i) => calls'[i].step = calls[i].step /\ calls'[i].kind = calls[i].kind
  BY <1>1 DEF Holds, Current
<1>3. sdk' # "closed" => sdk # "closed"
  BY DEF ModelStops, NextStep, ProviderFails, Abort
<1>4. parts' = parts \/ \E e \in Parts : parts' = Append(parts, e)
  <2>1. \A p \in Finals : [p |-> p, c |-> 0] \in Parts
    BY SizeAssumption DEF Parts
  <2> QED
    BY <2>1 DEF ModelStops, NextStep, ProviderFails, Abort, Finals
<1>5. step' = step \/ \A i \in Calls : ~Holds(i)
  <2>1. CASE NextStep /\ step' # step
    <3>1. ~StopsHere /\ sdk = "waiting"
      BY <2>1 DEF NextStep
    <3>2. Reading
      BY <3>1 DEF TInv, StreamShape, Reading
    <3>3. ASSUME NEW i \in Calls, Holds(i) PROVE i \in ThisStep /\ calls[i].kind \in Asks
      BY <3>1, <3>2, <3>3 DEF OnePerson, Holds, Current, ThisStep
    <3> QED
      BY <3>1, <3>3 DEF StopsHere
  <2>2. CASE ~(NextStep /\ step' # step)
    BY <2>2 DEF ModelStops, NextStep, ProviderFails, Abort
  <2> QED
    BY <2>1, <2>2
<1> QED
  BY <1>1, <1>2, <1>3, <1>4, <1>5, SameHolds

\* Steps that store nothing and leave the checkpoint of a suspended run alone.
LEMMA SameAnswered ==
  ASSUME Answered, UNCHANGED <<rows, results, checkpoint>>, prompt' \in {prompt, {}},
         happened \subseteq happened',
         phase \in {"suspending", "suspended"} => phase' \in {"suspending", "suspended"} \/ Excused'
  PROVE  Answered'
<1>1. Excused => Excused'
  BY DEF Excused
<1> QED
  BY <1>1 DEF Answered

LEMMA CloseTurnAnswered == ASSUME TInv, OnePerson, Answered, CloseTurn PROVE Answered'
<1>1. /\ phase = "closing" /\ rows' = rows \cup Attempted /\ prompt' = prompt /\ happened' = happened
      /\ results' = [i \in Calls |-> IF i \in Settled THEN results[i] + 1 ELSE results[i]]
      /\ pending # 0 => checkpoint' = pending /\ phase' = "suspending"
  BY DEF CloseTurn, PersistTurn, bookVars
<1>2. \A i \in Calls : i \in Attempted <=> Current(i)
  BY DEF Attempted, Current
<1>3. \A i \in rows : i \in Calls
  BY SizeAssumption DEF TInv, Shapes, Calls
<1>4. ASSUME NEW i \in rows', results'[i] = 0, ~Excused
      PROVE  i \in Calls /\ Holds(i)
  <2>1. i \in Calls
    BY <1>1, <1>3, SizeAssumption DEF TInv, Shapes, Calls, Attempted
  <2>2. results[i] \in Nat /\ i \notin Settled /\ results[i] = 0
    BY <1>1, <1>4, <2>1 DEF TInv, Shapes
  <2>3. i \in Attempted
    BY <1>1, <1>4, <2>2 DEF Answered
  <2>4. calls[i].st \in CallStates /\ calls[i].st \notin Underway /\ calls[i].st # "none"
    BY <1>1, <1>2, <2>1, <2>3 DEF TInv, StepsSettle, Told, Reading, Shapes, CallRecords
  <2>5. calls[i].st = "held"
    BY <2>2, <2>3, <2>4 DEF Settled, CallStates
  <2> QED
    BY <1>2, <2>1, <2>3, <2>5 DEF Holds
<1>5. \A i \in Calls : Holds(i) => pending = i /\ pending # 0
  BY <1>1, SizeAssumption DEF OnePerson, Calls
<1>6. Excused' <=> Excused
  BY <1>1 DEF Excused
<1> QED
  BY <1>1, <1>4, <1>5, <1>6 DEF Answered

LEMMA PInvNext == ASSUME MaxAsks <= 1, PInv, [Next]_vars PROVE PInv'
<1>1. TInv /\ OnePerson /\ Answered
  BY DEF PInv
<1>2. TInv'
  BY <1>1, TInvNext
<1>3. CASE UNCHANGED vars
  <2>1. OnePerson'
    BY <1>1, <1>3 DEF vars, runVars, sdkVars, OnePerson, Reading, Holds, Current
  <2>2. Answered'
    BY <1>1, <1>3, SameAnswered DEF vars, runVars, storeVars, bookVars
  <2> QED
    BY <1>2, <2>1, <2>2 DEF PInv
<1>4. CASE \E k \in Kinds : ModelCalls(k)
  <2>1. UNCHANGED <<phase, rows, results, checkpoint, prompt, happened>>
    BY <1>4 DEF ModelCalls, runVars, storeVars, bookVars
  <2> QED
    BY <1>1, <1>2, <1>4, <2>1, ModelCallsPerson, SameAnswered DEF PInv
<1>5. CASE ModelStops \/ NextStep \/ ProviderFails \/ Abort
  <2>1. UNCHANGED <<phase, rows, results, checkpoint, prompt>> /\ happened \subseteq happened'
    BY <1>5 DEF ModelStops, NextStep, ProviderFails, Abort, Strikes, runVars, storeVars, bookVars
  <2> QED
    BY <1>1, <1>2, <1>5, <2>1, SdkPerson, SameAnswered DEF PInv
<1>6. CASE \E i \in Calls : ToolAct(i)
  <2>1. PICK i \in Calls : ToolAct(i)
    BY <1>6
  <2>2. UNCHANGED <<phase, rows, results, checkpoint, prompt>> /\ happened \subseteq happened'
    BY <2>1 DEF ToolAct, BeforeRun, ShortCircuit, Executes, Throws, AfterRun, ToolSteps, Strikes,
                runVars, storeVars
  <2> QED
    BY <1>1, <1>2, <2>1, <2>2, ToolPerson, SameAnswered DEF PInv
<1>7. CASE ReadPart
  <2>1. UNCHANGED <<rows, results, checkpoint, prompt, happened>> /\ phase = "streaming"
    BY <1>7 DEF ReadPart, storeVars, bookVars
  <2> QED
    BY <1>1, <1>2, <1>7, <2>1, ReadPartPerson, SameAnswered DEF PInv
<1>8. CASE CloseTurn
  <2>1. ~Reading'
    BY <1>8 DEF CloseTurn, Reading
  <2> QED
    BY <1>1, <1>2, <1>8, <2>1, NobodyHolds, CloseTurnAnswered DEF PInv
<1>9. CASE ResolveModel
  <2>1. UNCHANGED <<rows, results, checkpoint, happened>> /\ phase = "resolving"
    BY <1>9 DEF ResolveModel, bookVars
  <2>2. prompt' = prompt \/ prompt' = Dangling
    BY <1>9 DEF ResolveModel
  <2>3. ~Excused => prompt' = {}
    BY <1>1, <2>1, <2>2 DEF Answered, Dangling
  <2>4. Answered'
    BY <1>1, <2>1, <2>3 DEF Answered, Excused
  <2>5. ~Reading' \/ calls' = Kept(Left(TRUE))
    BY <1>9 DEF ResolveModel, StreamModel, Reading
  <2>6. OnePerson'
    BY <1>1, <1>2, <2>5, Keeping, NobodyHolds DEF TInv
  <2> QED
    BY <1>2, <2>4, <2>6 DEF PInv
<1>10. CASE Backoff
  <2>1. UNCHANGED <<rows, results, checkpoint, happened, prompt>> /\ phase = "backoff"
    BY <1>10 DEF Backoff, storeVars, bookVars
  <2>2. ~Reading' \/ calls' = Kept(Left(TRUE))
    BY <1>10 DEF Backoff, StreamModel, Reading
  <2>3. OnePerson'
    BY <1>1, <1>2, <2>2, Keeping, NobodyHolds DEF TInv
  <2> QED
    BY <1>1, <1>2, <2>1, <2>3, SameAnswered DEF PInv
<1>11. CASE Leaves
  <2>1. UNCHANGED <<rows, results, checkpoint, prompt>> /\ happened \subseteq happened' /\ ~Reading'
    BY <1>11 DEF Leaves, Suspended, EndRun, Cancelled, Recovers, OnErrorThrows, GivesUp, Retries,
                 storeVars, bookVars, Strikes, Reading
  <2>2. phase \in {"suspending", "suspended"} => phase' \in {"suspending", "suspended"} \/ Excused'
    BY <1>11 DEF Leaves, Suspended, EndRun, Cancelled, Recovers, OnErrorThrows, GivesUp, Retries,
                 Strikes, Excused
  <2> QED
    BY <1>1, <1>2, <2>1, <2>2, NobodyHolds, SameAnswered DEF PInv
<1>12. CASE StartRun
  <2>1. /\ UNCHANGED <<rows, results, checkpoint, happened>> /\ prompt' = {} /\ ~Reading'
        /\ phase \notin {"suspending", "suspended"}
    BY <1>12 DEF StartRun, Begins, Reading, Over
  <2> QED
    BY <1>1, <1>2, <2>1, NobodyHolds, SameAnswered DEF PInv
<1>13. CASE Resume
  <2>1. /\ UNCHANGED <<rows, happened>> /\ prompt' = {} /\ ~Reading' /\ phase = "suspended"
        /\ results' = [results EXCEPT ![checkpoint] = @ + 1]
    BY <1>13 DEF Resume, Begins, Reading
  <2>2. \A i \in rows : results'[i] = 0 => i # checkpoint /\ results[i] = 0
    <3>1. \A i \in rows : i \in Calls /\ results[i] \in Nat
      BY <1>1, SizeAssumption DEF TInv, Shapes, Calls
    <3> QED
      BY <1>1, <2>1, <3>1 DEF TInv, Shapes
  <2>3. Answered'
    BY <1>1, <2>1, <2>2 DEF Answered, Excused
  <2> QED
    BY <1>1, <1>2, <2>1, <2>3, NobodyHolds DEF PInv
<1>14. CASE ApprovedToolThrows
  <2>1. ~Reading' /\ Excused'
    BY <1>14 DEF ApprovedToolThrows, Strikes, Reading, Excused
  <2> QED
    BY <1>1, <1>2, <2>1, NobodyHolds DEF PInv, Answered
<1> QED
  BY <1>3, <1>4, <1>5, <1>6, <1>7, <1>8, <1>9, <1>10, <1>11, <1>12, <1>13, <1>14
     DEF Next, SdkAct, RunAct, SessionAct, Leaves

\* While a step makes at most one call that only a person can settle, the model
\* is never given a history with a call that has no result, unless an approved
\* tool or an onSuspend hook threw, nor one with two results.
THEOREM HistoriesComplete == MaxAsks <= 1 => (Spec => []HistoryComplete)
<1> SUFFICES ASSUME MaxAsks <= 1 PROVE Spec => []HistoryComplete
  OBVIOUS
<1>1. Init => PInv
  <2> SUFFICES ASSUME Init PROVE PInv
    OBVIOUS
  <2>1. TInv
    BY TInvInit
  <2>2. OnePerson /\ Answered
    BY DEF Init, OnePerson, Answered, Reading
  <2> QED
    BY <2>1, <2>2 DEF PInv
<1>2. PInv => HistoryComplete
  <2> SUFFICES ASSUME PInv PROVE HistoryComplete
    OBVIOUS
  <2>1. phase = "streaming" /\ happened \cap {"approved", "onSuspend"} = {} => prompt = {}
    BY DEF PInv, Answered, Excused
  <2>2. \A i \in Calls : results[i] <= 1
    BY DEF PInv, TInv, Stored, Unstored
  <2> QED
    BY <2>1, <2>2 DEF HistoryComplete
<1> QED
  BY <1>1, <1>2, PInvNext, PTL DEF Spec

-----------------------------------------------------------------------------
(* The types, and with them the retry policy: state.attempt stays within   *)
(* the attempts that are configured, or within two.                        *)

Policy ==
  /\ model \in BOOLEAN /\ usedRetry \in BOOLEAN /\ aborted \in BOOLEAN
  /\ retries \in 1..(IF RetryConfigured THEN RetryAttempts ELSE 2)
  /\ phase = "backoff" /\ RetryConfigured => retries < RetryAttempts
  /\ phase = "backoff" /\ ~RetryConfigured => retries = 1 /\ usedRetry
  /\ ~RetryConfigured /\ ~usedRetry => retries = 1
Budget == step \in 0..MaxSteps /\ \A i \in Calls : calls[i].step \in 0..MaxSteps
Issued == \A j \in DOMAIN parts : parts[j].c \in 0..made
Booked == prompt \subseteq 1..made /\ happened \subseteq Faults /\ runs \in 0..MaxRuns

Typed == TInv /\ Policy /\ Budget /\ Issued /\ Booked

LEMMA TypedIsTypeOK == Typed => TypeOK
<1> SUFFICES ASSUME Typed PROVE TypeOK
  OBVIOUS
<1> DEFINE Record == [kind : ToolKinds, current : BOOLEAN, step : 0..MaxSteps,
                      st : CallStates, tries : Nat]
           Part == [p : {"call", "settled", "end", "error", "abort"}, c : 0..made]
<1>1. Shapes
  BY DEF Typed, TInv
<1>2. calls \in [Calls -> Record]
  <2>1. \A i \in Calls : calls[i] \in Record
    BY <1>1 DEF Typed, Budget, Shapes, CallRecords
  <2> HIDE DEF Record
  <2> QED
    BY <1>1, <2>1 DEF Shapes
<1>3. parts \in Seq(Part)
  <2>1. \A j \in DOMAIN parts : parts[j] \in Part
    <3> SUFFICES ASSUME NEW j \in DOMAIN parts PROVE parts[j] \in Part
      OBVIOUS
    <3>1. parts[j] \in Parts /\ parts[j].c \in 0..made
      BY <1>1 DEF Typed, Issued, Shapes
    <3> QED
      BY <3>1 DEF Parts, Finals
  <2>2. parts \in Seq(Parts)
    BY <1>1 DEF Shapes
  <2> HIDE DEF Part
  <2> QED
    BY <2>1, <2>2
<1> QED
  BY <1>1, <1>2, <1>3 DEF Typed, Policy, Budget, Booked, Shapes, TypeOK

\* Who counts attempts: a run at its start, a failure and the end of a wait.
LEMMA PolicyNext == ASSUME Policy, [Next]_vars PROVE Policy'
<1>1. RetryAttempts \in Nat
  BY SizeAssumption
<1>2. CASE UNCHANGED <<model, retries, usedRetry>> /\ aborted' \in BOOLEAN /\ phase' # "backoff"
  BY <1>2 DEF Policy, RetryConfigured
<1>3. CASE UNCHANGED <<model, retries, usedRetry>> /\ aborted' \in BOOLEAN /\ phase' = phase
  BY <1>3 DEF Policy, RetryConfigured
<1>4. CASE /\ retries' = 1 /\ usedRetry' = FALSE /\ model' \in BOOLEAN /\ aborted' \in BOOLEAN
           /\ phase' # "backoff"
  <2>1. 1 \in 1..(IF RetryConfigured THEN RetryAttempts ELSE 2)
    BY <1>1 DEF RetryConfigured
  <2> QED
    BY <1>4, <2>1, Zenon DEF Policy, RetryConfigured
<1>5. ASSUME NEW d \in Decisions, Retries(d) PROVE Policy'
  <2>1. /\ UNCHANGED <<model, retries, aborted>> /\ ShouldRetry(d) /\ Spent(d)
    BY <1>5 DEF Retries
  <2>2. CASE RetryConfigured
    <3>1. retries < RetryAttempts /\ usedRetry' = usedRetry
      BY <2>1, <2>2 DEF ShouldRetry, Spent, Policy
    <3> QED
      BY <2>1, <2>2, <3>1 DEF Policy, RetryConfigured
  <2>3. CASE ~RetryConfigured
    <3>1. ~usedRetry /\ usedRetry' = TRUE
      BY <2>1, <2>3 DEF ShouldRetry, Spent
    <3> QED
      BY <2>1, <2>3, <3>1 DEF Policy, RetryConfigured
  <2> QED
    BY <2>2, <2>3
<1>6. CASE Backoff /\ phase' # "cancelled"
  <2>1. /\ phase = "backoff" /\ retries' = retries + 1 /\ phase' # "backoff"
        /\ UNCHANGED <<model, usedRetry, aborted>>
    BY <1>6 DEF Backoff, Counted, StreamModel
  <2> QED
    BY <1>1, <2>1 DEF Policy, RetryConfigured
<1>7. CASE UNCHANGED vars
  BY <1>3, <1>7 DEF vars, runVars, Policy
<1>8. CASE \E i \in Calls : ToolAct(i)
  BY <1>3, <1>8 DEF ToolAct, BeforeRun, ShortCircuit, Executes, Throws, AfterRun, ToolSteps, runVars,
                    Policy
<1>9. CASE SdkAct \/ ProviderFails \/ Abort
  BY <1>3, <1>9 DEF SdkAct, ModelCalls, ModelStops, NextStep, ProviderFails, Abort, runVars, Policy
<1>10. CASE ReadPart \/ CloseTurn
  BY <1>2, <1>10 DEF ReadPart, CloseTurn, Policy
<1>11. CASE Suspended \/ EndRun \/ Cancelled \/ Recovers \/ OnErrorThrows \/ \E d \in Decisions : GivesUp(d)
  BY <1>2, <1>11 DEF Suspended, EndRun, Cancelled, Recovers, OnErrorThrows, GivesUp, Policy
<1>12. CASE ResolveModel
  BY <1>2, <1>4, <1>12 DEF ResolveModel, StreamModel, Policy
<1>13. CASE Backoff /\ phase' = "cancelled"
  BY <1>2, <1>13 DEF Backoff, Counted, StreamModel, Policy
<1>14. CASE StartRun \/ Resume
  BY <1>4, <1>14 DEF StartRun, Resume, Begins
<1>15. CASE ApprovedToolThrows
  BY <1>2, <1>15 DEF ApprovedToolThrows, Policy
<1> QED
  BY <1>5, <1>6, <1>7, <1>8, <1>9, <1>10, <1>11, <1>12, <1>13, <1>14, <1>15
     DEF Next, RunAct, SessionAct

\* No step of an attempt is beyond the step budget.
LEMMA BudgetNext == ASSUME MaxSteps > 0, TInv, Budget, [Next]_vars PROVE Budget'
<1>1. /\ MaxSteps \in Nat /\ step \in 0..MaxSteps /\ \A i \in Calls : calls[i].step \in 0..MaxSteps
      /\ calls \in [Calls -> CallRecords]
  BY SizeAssumption DEF Budget, TInv, Shapes
<1>2. CASE UNCHANGED <<step, calls>>
  BY <1>1, <1>2 DEF Budget
<1>3. CASE NextStep
  <2>1. CASE StopsHere
    BY <1>2, <1>3, <2>1 DEF NextStep
  <2>2. CASE ~StopsHere
    BY <1>1, <1>3, <2>2 DEF NextStep, StopsHere, Budget
  <2> QED
    BY <2>1, <2>2
<1>4. ASSUME NEW k \in Kinds, ModelCalls(k) PROVE Budget'
  <2>1. /\ step' = step
        /\ calls' = [calls EXCEPT ![made + 1] =
             [kind |-> k, current |-> TRUE, step |-> step,
              st |-> IF k \in Asks THEN "held" ELSE "made", tries |-> 1]]
    BY <1>4 DEF ModelCalls
  <2> QED
    BY <1>1, <2>1 DEF Budget
<1>5. ASSUME NEW i \in Calls, ToolAct(i) PROVE Budget'
  <2>1. /\ step' = step
        /\ \/ calls' = [calls EXCEPT ![i] = [calls[i] EXCEPT !.tries = @ + 1]]
           \/ \E st : calls' = [calls EXCEPT ![i] = [calls[i] EXCEPT !.st = st]]
    BY <1>5 DEF ToolAct, BeforeRun, ShortCircuit, Executes, Throws, AfterRun, ToolSteps
  <2>2. calls[i] \in CallRecords
    BY <1>1
  <2>3. calls'[i].step = calls[i].step
    BY <1>1, <2>1, <2>2 DEF CallRecords
  <2>4. \A j \in Calls : j # i => calls'[j] = calls[j]
    BY <1>1, <2>1
  <2> QED
    BY <1>1, <2>1, <2>3, <2>4 DEF Budget
<1>6. \A running \in BOOLEAN : \A i \in Calls : Kept(Left(running))[i].step \in 0..MaxSteps
  BY <1>1 DEF Kept, NoCall, CallRecords
<1>7. CASE StreamModel
  <2>1. calls' = Kept(Left(TRUE)) /\ step' = 1
    BY <1>7 DEF StreamModel
  <2>2. 1 \in 0..MaxSteps
    BY <1>1
  <2> QED
    BY <1>6, <2>1, <2>2 DEF Budget
<1>8. CASE step' = step /\ calls' = Kept(Left(FALSE))
  BY <1>1, <1>6, <1>8 DEF Budget
<1>9. ASSUME NEW crumbs, NEW st, step' = step, Answer(crumbs, st) PROVE Budget'
  <2> DEFINE kept == Kept(Left(FALSE))
  <2>1. /\ kept \in [Calls -> CallRecords]
        /\ calls' = [kept EXCEPT ![checkpoint] = [kept[checkpoint] EXCEPT !.st = st]]
    BY <1>9, Keeping DEF TInv, Answer
  <2>2. \A i \in Calls : kept[i].step \in 0..MaxSteps
    BY <1>6
  <2> HIDE DEF kept
  <2>3. \A i \in Calls : calls'[i].step = kept[i].step
    <3> SUFFICES ASSUME NEW i \in Calls PROVE calls'[i].step = kept[i].step
      OBVIOUS
    <3>1. kept[i] \in CallRecords
      BY <2>1
    <3> QED
      BY <2>1, <3>1 DEF CallRecords
  <2> QED
    BY <1>1, <1>9, <2>2, <2>3 DEF Budget
<1>10. CASE UNCHANGED vars
  BY <1>2, <1>10 DEF vars, sdkVars
<1>11. CASE ModelStops \/ ProviderFails \/ Abort \/ Leaves \/ ReadPart \/ CloseTurn
  BY <1>2, <1>11 DEF ModelStops, ProviderFails, Abort, Leaves, Suspended, EndRun, Cancelled, Recovers,
                     OnErrorThrows, GivesUp, Retries, ReadPart, CloseTurn, sdkVars
<1>12. CASE ResolveModel \/ Backoff
  BY <1>2, <1>7, <1>12 DEF ResolveModel, Backoff
<1>13. CASE StartRun
  BY <1>8, <1>13 DEF StartRun
<1>14. CASE Resume \/ ApprovedToolThrows
  BY <1>9, <1>14 DEF Resume, ApprovedToolThrows
<1> QED
  BY <1>3, <1>4, <1>5, <1>10, <1>11, <1>12, <1>13, <1>14 DEF Next, SdkAct, RunAct, SessionAct, Leaves

\* A part names a call that was made.
LEMMA IssuedNext == ASSUME TInv, Issued, [Next]_vars PROVE Issued'
<1>1. parts \in Seq(Parts) /\ made \in Nat
  BY SizeAssumption DEF TInv, Shapes
<1>2. ASSUME NEW e \in Parts, parts' = Append(parts, e), made' = made \/ made' = made + 1,
             e.c \in 0..made'
      PROVE  Issued'
  <2>1. ASSUME NEW j \in DOMAIN parts' PROVE parts'[j].c \in 0..made'
    <3>1. parts'[j] = e \/ (j \in DOMAIN parts /\ parts'[j] = parts[j])
      BY <1>1, <1>2, Appending
    <3> QED
      BY <1>1, <1>2, <3>1 DEF Issued
  <2> QED
    BY <2>1 DEF Issued
<1>3. CASE UNCHANGED <<parts, made>>
  BY <1>3 DEF Issued
<1>4. ASSUME NEW k \in Kinds, ModelCalls(k) PROVE Issued'
  <2>1. /\ parts' = Append(parts, [p |-> "call", c |-> made + 1]) /\ made' = made + 1
        /\ made < MaxCalls
    BY <1>4 DEF ModelCalls
  <2>2. [p |-> "call", c |-> made + 1] \in Parts
    BY <1>1, <2>1, SizeAssumption DEF Parts
  <2> QED
    BY <1>1, <1>2, <2>1, <2>2
<1>5. CASE NextStep \/ ProviderFails \/ Abort
  <2>1. \A p \in Finals : [p |-> p, c |-> 0] \in Parts
    BY SizeAssumption DEF Parts
  <2>2. made' = made /\ (parts' = parts \/ \E p \in Finals : parts' = Append(parts, [p |-> p, c |-> 0]))
    BY <1>5 DEF NextStep, ProviderFails, Abort, Finals
  <2>3. CASE parts' # parts
    <3>1. PICK p \in Finals : parts' = Append(parts, [p |-> p, c |-> 0])
      BY <2>2, <2>3
    <3>2. [p |-> p, c |-> 0].c \in 0..made'
      BY <1>1, <2>2
    <3> QED
      BY <1>2, <2>1, <2>2, <3>1, <3>2
  <2> QED
    BY <1>3, <2>2, <2>3
<1>6. ASSUME NEW i \in Calls, ToolAct(i) PROVE Issued'
  <2>1. /\ made' = made /\ calls[i].st \in Underway
        /\ parts' = parts \/ parts' = Append(parts, [p |-> "settled", c |-> i])
    BY <1>6 DEF ToolAct, BeforeRun, ShortCircuit, Executes, Throws, AfterRun, Live, ToolSteps, Reports,
                crumbVars
  <2>2. i \in 0..made
    BY <1>1, <2>1, SizeAssumption DEF TInv, Unused, NoCall, Underway, Calls
  <2>3. [p |-> "settled", c |-> i] \in Parts
    BY SizeAssumption DEF Parts, Calls
  <2> QED
    BY <1>2, <1>3, <2>1, <2>2, <2>3
<1>7. CASE StreamModel /\ made' = made
  <2>1. \A j \in DOMAIN parts' : parts'[j].c = 0
    BY <1>7 DEF StreamModel
  <2> QED
    BY <1>1, <1>7, <2>1 DEF Issued
<1>8. CASE ReadPart
  <2>1. parts # <<>> /\ parts' = Tail(parts) /\ made' = made
    BY <1>8 DEF ReadPart
  <2>2. \A j \in DOMAIN parts' : j + 1 \in DOMAIN parts /\ parts'[j] = parts[j + 1]
    BY <1>1, <2>1, Taking
  <2> QED
    BY <2>1, <2>2 DEF Issued
<1>9. CASE UNCHANGED vars \/ ModelStops \/ Leaves \/ CloseTurn \/ StartRun \/ Resume \/ ApprovedToolThrows
  BY <1>3, <1>9 DEF vars, ModelStops, Leaves, Suspended, EndRun, Cancelled, Recovers, OnErrorThrows,
                    GivesUp, Retries, CloseTurn, StartRun, Resume, ApprovedToolThrows, sdkVars
<1>10. CASE ResolveModel \/ Backoff
  BY <1>3, <1>7, <1>10 DEF ResolveModel, Backoff
<1> QED
  BY <1>4, <1>5, <1>6, <1>8, <1>9, <1>10 DEF Next, SdkAct, RunAct, SessionAct, Leaves

LEMMA BookedNext == ASSUME TInv, Booked, [Next]_vars PROVE Booked'
<1>1. made \in Nat /\ rows \subseteq 1..made /\ MaxRuns \in Nat
  BY SizeAssumption DEF TInv, Shapes
<1>2. made' = made \/ made' = made + 1
  BY DEF Next, ToolAct, BeforeRun, ShortCircuit, Executes, Throws, AfterRun, ToolSteps, SdkAct,
         ModelCalls, ModelStops, NextStep, ProviderFails, Abort, RunAct, ResolveModel, ReadPart,
         CloseTurn, Suspended, EndRun, Cancelled, Recovers, Backoff, OnErrorThrows, GivesUp, Retries,
         SessionAct, StartRun, Resume, ApprovedToolThrows, vars, sdkVars
<1>3. prompt' = prompt \/ prompt' = {} \/ prompt' = Dangling
  BY DEF Next, ToolAct, BeforeRun, ShortCircuit, Executes, Throws, AfterRun, ToolSteps, SdkAct,
         ModelCalls, ModelStops, NextStep, ProviderFails, Abort, RunAct, ResolveModel, ReadPart,
         CloseTurn, Suspended, EndRun, Cancelled, Recovers, Backoff, OnErrorThrows, GivesUp, Retries,
         SessionAct, StartRun, Begins, Resume, ApprovedToolThrows, vars, storeVars
<1>4. happened' = happened \/ \E f \in Faults : happened' = happened \cup {f}
  BY DEF Next, ToolAct, BeforeRun, ShortCircuit, Executes, Throws, AfterRun, ToolSteps, SdkAct,
         ModelCalls, ModelStops, NextStep, ProviderFails, Abort, RunAct, ResolveModel, ReadPart,
         CloseTurn, Suspended, EndRun, Cancelled, Recovers, Backoff, OnErrorThrows, GivesUp, Retries,
         SessionAct, StartRun, Resume, ApprovedToolThrows, vars, bookVars, Strikes
<1>5. runs' = runs \/ (runs < MaxRuns /\ runs' = runs + 1)
  BY DEF Next, ToolAct, BeforeRun, ShortCircuit, Executes, Throws, AfterRun, ToolSteps, SdkAct,
         ModelCalls, ModelStops, NextStep, ProviderFails, Abort, RunAct, ResolveModel, ReadPart,
         CloseTurn, Suspended, EndRun, Cancelled, Recovers, Backoff, OnErrorThrows, GivesUp, Retries,
         SessionAct, StartRun, Begins, Resume, ApprovedToolThrows, vars, bookVars
<1>6. prompt' \subseteq 1..made'
  <2>1. \A i \in 1..made : i \in 1..made'
    BY <1>1, <1>2
  <2>2. Dangling \subseteq 1..made /\ prompt \subseteq 1..made
    BY <1>1 DEF Booked, Dangling
  <2> QED
    BY <1>3, <2>1, <2>2
<1> QED
  BY <1>1, <1>4, <1>5, <1>6 DEF Booked

\* The variables keep their types when the step budget is not zero; a run never
\* makes more attempts than its retry policy allows.
THEOREM TurnTypes == MaxSteps > 0 => (Spec => []TypeOK)
<1> SUFFICES ASSUME MaxSteps > 0 PROVE Spec => []TypeOK
  OBVIOUS
<1>1. Init => Typed
  <2> SUFFICES ASSUME Init PROVE Typed
    OBVIOUS
  <2>1. TInv
    BY TInvInit
  <2>2. Policy
    <3>1. 1 \in 1..(IF RetryConfigured THEN RetryAttempts ELSE 2)
      BY SizeAssumption DEF RetryConfigured
    <3> QED
      BY <3>1 DEF Init, Policy
  <2>3. Budget /\ Issued /\ Booked
    BY SizeAssumption DEF Init, Budget, Issued, Booked, NoCall
  <2> QED
    BY <2>1, <2>2, <2>3 DEF Typed
<1>2. Typed /\ [Next]_vars => Typed'
  BY TInvNext, PolicyNext, BudgetNext, IssuedNext, BookedNext DEF Typed
<1> QED
  BY <1>1, <1>2, TypedIsTypeOK, PTL DEF Spec
=============================================================================

--------------------------- MODULE ParallelProofs ---------------------------
(***************************************************************************)
(* Proofs about Parallel, for any branches, labels, clients and bounds,    *)
(* crashes and repeated asks included.  The invariant says that a frame's  *)
(* slots are those of branches that have ended and that none of them       *)
(* settled on another label than the frame's, wherever a frame is: in the  *)
(* store, in a resume() under way, in the live step, or handed on.         *)
(***************************************************************************)
EXTENDS Parallel, TLAPS

----------------------------------------------------------------------------
(* The parts of the inductive invariant.                                   *)

\* The slots have settled, and on no other label.
Fits(slots, label) ==
  \A b \in slots : status[b] = "ended" /\ decided[b] \in {Incoming, label}

StoredFit == \A id \in Asks : Fits(frame[id].settled, frame[id].label)
HeldFit == \A p \in Clients : Fits(call[p].frame.settled, call[p].frame.label)
SharedFit == \A p \in Clients : call[p].pc = "sharing" =>
  call[p].id[1] \in call[p].frame.settled
PassedFit == \A i \in DOMAIN passed : Fits(passed[i].slots, passed[i].label)

FramesFit == StoredFit /\ HeldFit /\ SharedFit /\ PassedFit

\* What the live step has collected, until a conflict.
LiveFits ==
  /\ got.conflict => got.failed
  /\ ~got.conflict => Fits(got.outputs, got.label)
  /\ step = "filling" => ~got.failed /\ \A b \in Branches : status[b] # "running"

\* A stored question is the last one of a suspended branch and unanswered; a
\* branch that has been resumed has one driver.
OneDriver ==
  /\ \A id \in rows : status[id[1]] = "suspended" /\ id[2] = asked[id[1]]
  /\ \A id \in Asks : id \in rows \/ id[2] > asked[id[1]] => execs[id] = 0
  /\ \A p \in Clients : call[p].pc # "idle" => call[p].id \in Asks
  /\ \A p \in Clients : call[p].pc = "driving" => status[call[p].id[1]] = "resumed"
  /\ \A p, q \in Clients :
       call[p].pc = "driving" /\ call[q].pc = "driving" /\ call[p].id[1] = call[q].id[1]
         => p = q
  /\ ActsOnce

\* Until the sibling data is written no frame has any.
NoDataYet ==
  step \in {"running", "failed", "dropped"} =>
    /\ \A id \in Asks : frame[id].pending = <<>>
    /\ \A p \in Clients : call[p].frame.pending = <<>>
    /\ passed = <<>>

IInv == TypeOK /\ FramesFit /\ LiveFits /\ OneDriver /\ NoDataYet

----------------------------------------------------------------------------
(* Types.                                                                  *)

\* Frames, as they are created, filled by the live step and by a resume.
LEMMA FrameTypes ==
  /\ NewFrame \in Frame
  /\ TypeOK => SiblingData \in Frame
  /\ \A f \in Frame, b \in Branches, l \in Slot : WithSlot(f, b, l) \in Frame
<1>1. NewFrame \in Frame
  BY DEF NewFrame, Frame, Slot
<1>2. TypeOK => SiblingData \in Frame
  BY DEF TypeOK, StepTypes, SiblingData, Frame
<1>3. ASSUME NEW f \in Frame, NEW b \in Branches, NEW l \in Slot
      PROVE  WithSlot(f, b, l) \in Frame
  <2>1. JoinSlotLabel(f.label, l) \in Slot
    BY DEF JoinSlotLabel, Frame
  <2>2. f.settled \cup {b} \in SUBSET Branches
    BY DEF Frame
  <2> QED
    BY <2>1, <2>2 DEF WithSlot, Frame
<1> QED
  BY <1>1, <1>2, <1>3

\* What the steps make of a call of resume().
LEMMA CallUpdates ==
  ASSUME NEW c \in Call
  PROVE  /\ \A id \in Asks, f \in Frame :
              [c EXCEPT !.pc = "claiming", !.id = id, !.frame = f] \in Call
         /\ [c EXCEPT !.pc = "driving"] \in Call
         /\ \A f \in Frame, s \in Seq(Asks) :
              [c EXCEPT !.pc = "sharing", !.frame = f, !.toshare = s] \in Call
         /\ c.toshare # <<>> => [c EXCEPT !.toshare = Tail(c.toshare)] \in Call
<1>1. c.toshare # <<>> => Tail(c.toshare) \in Seq(Asks)
  BY DEF Call
<1> QED
  BY <1>1 DEF Call

\* Counting up once more.
LEMMA CountUp ==
  ASSUME NEW S, NEW f \in [S -> Nat], NEW x
  PROVE  [f EXCEPT ![x] = @ + 1] \in [S -> Nat]
<1>1. ASSUME NEW y \in S PROVE [f EXCEPT ![x] = @ + 1][y] \in Nat
  BY y = x \/ y # x
<1> QED
  BY <1>1

\* A call that is over.
LEMMA IdleCall == Idle \in Call
BY FrameTypes DEF Idle, Call

\* The initial state is well typed.
LEMMA TypeInit == Init => TypeOK
BY FrameTypes, IdleCall, BoundAssumption
  DEF Init, TypeOK, StoreTypes, StepTypes, BranchTypes, CountTypes, Slot, Asks

\* suspendRun keeps the types of what it writes.
LEMMA StoreAskTypes ==
  ASSUME TypeOK, NEW b \in Branches, NEW f \in Frame, StoreAsk(b, f)
  PROVE  /\ <<b, asked[b] + 1>> \in Asks
         /\ rows' \subseteq Asks
         /\ frame' \in [Asks -> Frame]
         /\ asked' \in [Branches -> 0..MaxAsk]
         /\ status' = [status EXCEPT ![b] = "suspended"]
         /\ asked'[b] = asked[b] + 1
<1>1. asked[b] + 1 \in 1..MaxAsk
  BY BoundAssumption DEF StoreAsk, TypeOK, BranchTypes
<1>2. <<b, asked[b] + 1>> \in Asks
  BY <1>1 DEF Asks
<1> QED
  BY <1>1, <1>2 DEF StoreAsk, TypeOK, StoreTypes, BranchTypes

\* The store: an ask, a fill, a claim and a merge write it.
LEMMA StoreTypesStep == TypeOK /\ OneDriver /\ [Next]_vars => StoreTypes'
<1> SUFFICES ASSUME TypeOK /\ OneDriver, [Next]_vars PROVE StoreTypes'
  OBVIOUS
<1>1. ASSUME NEW b \in Branches, Suspend(b)
      PROVE  StoreTypes'
  <2>1. NewFrame \in Frame /\ StoreAsk(b, NewFrame)
    BY <1>1, FrameTypes DEF Suspend
  <2> QED
    BY <2>1, StoreAskTypes DEF StoreTypes
<1>2. CASE Fill
  BY <1>2, FrameTypes DEF Fill, TypeOK, StepTypes, TypeOK, StoreTypes
<1>3. ASSUME NEW p \in Clients, Claim(p)
      PROVE  StoreTypes'
  BY <1>3 DEF Claim, TypeOK, WinsClaim, TypeOK, StoreTypes
<1>4. ASSUME NEW p \in Clients, NEW b \in Branches, SuspendAgain(p, b)
      PROVE  StoreTypes'
  <2>1. call[p].frame \in Frame /\ StoreAsk(b, call[p].frame)
    BY <1>4 DEF SuspendAgain, TypeOK, Call
  <2> QED
    BY <2>1, StoreAskTypes DEF StoreTypes
<1>5. ASSUME NEW p \in Clients, Share(p)
      PROVE  StoreTypes'
  <2>1. call[p] \in Call /\ call[p].pc # "idle"
    BY <1>5 DEF Share, TypeOK
  <2>2. call[p].id[1] \in Branches /\ call[p].frame.label \in Slot
    BY <2>1 DEF Call, Asks, Frame, OneDriver
  <2>3. \A id \in Asks :
          WithSlot(frame[id], call[p].id[1], call[p].frame.label) \in Frame
    BY <2>2, FrameTypes DEF TypeOK, StoreTypes
  <2> QED
    BY <1>5, <2>3 DEF Share, TypeOK, StoreTypes
<1>6. ASSUME NEW b \in Branches,
             Fail(b)
      PROVE  StoreTypes'
  BY <1>6 DEF Fail, countVars, stepVars, TypeOK, StoreTypes
<1>7. ASSUME NEW b \in Branches, NEW l \in CanDecide(b),
             End(b, l)
      PROVE  StoreTypes'
  BY <1>7 DEF End, countVars, stepVars, TypeOK, StoreTypes
<1>8. CASE Throw \/ Return \/ StartFilling \/ Surface \/ Drop \/ Crash
  BY <1>8 DEF Throw, Return, StartFilling, Surface, Drop, Crash, countVars,
     stepVars, TypeOK, StoreTypes
<1>9. ASSUME NEW p \in Clients,
             LoseClaim(p) \/ Shared(p)
      PROVE  StoreTypes'
  BY <1>9 DEF LoseClaim, Shared, countVars, stepVars, TypeOK, StoreTypes
<1>10. ASSUME NEW p \in Clients, NEW b \in Branches,
             FailAgain(p, b)
      PROVE  StoreTypes'
  BY <1>10 DEF FailAgain, countVars, stepVars, TypeOK, StoreTypes
<1>11. ASSUME NEW p \in Clients, NEW b \in Branches, NEW l \in CanDecide(b),
             EndConflicting(p, b, l) \/ EndWithoutState(p, b, l) \/
             EndEarly(p, b, l) \/ EndLast(p, b, l)
      PROVE  StoreTypes'
  BY <1>11 DEF EndConflicting, EndWithoutState, EndEarly, EndLast, Ends,
     countVars, stepVars, TypeOK, StoreTypes
<1>12. ASSUME NEW p \in Clients, NEW id \in Asks,
             Resume(p, id)
      PROVE  StoreTypes'
  BY <1>12 DEF Resume, countVars, stepVars, TypeOK, StoreTypes
<1>13. CASE UNCHANGED vars
  BY <1>13 DEF vars, stepVars, countVars, TypeOK, StoreTypes
<1> QED
  BY <1>1, <1>2, <1>3, <1>4, <1>5, <1>6, <1>7, <1>8, <1>9, <1>10, <1>11,
     <1>12, <1>13 DEF Next, BranchStep, StepStep, ClientStep, RunStep, EndStep

\* The live step.
LEMMA StepTypesStep == TypeOK /\ [Next]_vars => StepTypes'
<1> SUFFICES ASSUME TypeOK, [Next]_vars PROVE StepTypes'
  OBVIOUS
<1>1. ASSUME NEW b \in Branches, Suspend(b)
      PROVE  StepTypes'
  <2>1. <<b, asked'[b]>> \in Asks
    BY <1>1, FrameTypes, StoreAskTypes DEF Suspend
  <2>2. Append(got.suspended, <<b, asked'[b]>>) \in Seq(Asks)
    BY <2>1 DEF TypeOK, StepTypes
  <2> QED
    BY <1>1, <2>2 DEF Suspend, TypeOK, StepTypes
<1>2. ASSUME NEW b \in Branches, Fail(b)
      PROVE  StepTypes'
  BY <1>2 DEF Fail, TypeOK, StepTypes, stepVars
<1>3. ASSUME NEW b \in Branches, NEW l \in CanDecide(b), End(b, l)
      PROVE  StepTypes'
  <2>1. l \in Slot /\ JoinSlotLabel(got.label, l) \in Slot
    BY <1>3 DEF CanDecide, Slot, JoinSlotLabel, TypeOK, StepTypes
  <2>2. got.outputs \cup {b} \in SUBSET Branches
    BY DEF TypeOK, StepTypes
  <2> QED
    BY <1>3, <2>1, <2>2 DEF End, Adopt, TypeOK, StepTypes
<1>4. CASE StartFilling
  BY <1>4 DEF StartFilling, TypeOK, StepTypes, stepVars
<1>5. CASE Fill
  BY <1>5 DEF Fill, TypeOK, StepTypes, stepVars
<1>6. CASE Crash
  BY <1>6 DEF Crash, TypeOK, StepTypes, stepVars
<1>7. CASE Throw \/ Return \/ Surface \/ Drop
  BY <1>7 DEF Throw, Return, Surface, Drop, countVars, stepVars, TypeOK,
     StepTypes
<1>8. ASSUME NEW p \in Clients,
             Claim(p) \/ LoseClaim(p) \/ Share(p) \/ Shared(p)
      PROVE  StepTypes'
  BY <1>8 DEF Claim, LoseClaim, Share, Shared, countVars, stepVars, TypeOK,
     StepTypes
<1>9. ASSUME NEW p \in Clients, NEW b \in Branches,
             SuspendAgain(p, b) \/ FailAgain(p, b)
      PROVE  StepTypes'
  BY <1>9 DEF SuspendAgain, FailAgain, StoreAsk, countVars, stepVars, TypeOK,
     StepTypes
<1>10. ASSUME NEW p \in Clients, NEW b \in Branches, NEW l \in CanDecide(b),
             EndConflicting(p, b, l) \/ EndWithoutState(p, b, l) \/
             EndEarly(p, b, l) \/ EndLast(p, b, l)
      PROVE  StepTypes'
  BY <1>10 DEF EndConflicting, EndWithoutState, EndEarly, EndLast, Ends,
     countVars, stepVars, TypeOK, StepTypes
<1>11. ASSUME NEW p \in Clients, NEW id \in Asks,
             Resume(p, id)
      PROVE  StepTypes'
  BY <1>11 DEF Resume, countVars, stepVars, TypeOK, StepTypes
<1>12. CASE UNCHANGED vars
  BY <1>12 DEF vars, stepVars, countVars, TypeOK, StepTypes, stepVars
<1> QED
  BY <1>1, <1>2, <1>3, <1>4, <1>5, <1>6, <1>7, <1>8, <1>9, <1>10, <1>11, <1>12
     DEF Next, BranchStep, StepStep, ClientStep, RunStep, EndStep

\* The branches.
LEMMA BranchTypesStep == TypeOK /\ OneDriver /\ [Next]_vars => BranchTypes'
<1> SUFFICES ASSUME TypeOK /\ OneDriver, [Next]_vars PROVE BranchTypes'
  OBVIOUS
<1>1. ASSUME NEW b \in Branches, Suspend(b)
      PROVE  BranchTypes'
  <2>1. NewFrame \in Frame /\ StoreAsk(b, NewFrame)
    BY <1>1, FrameTypes DEF Suspend
  <2> QED
    BY <1>1, <2>1, StoreAskTypes DEF Suspend, TypeOK, BranchTypes
<1>2. ASSUME NEW b \in Branches, NEW l \in CanDecide(b), End(b, l)
      PROVE  BranchTypes'
  BY <1>2 DEF End, CanDecide, Slot, TypeOK, BranchTypes
<1>3. ASSUME NEW p \in Clients, Claim(p)
      PROVE  BranchTypes'
  BY <1>3 DEF Claim, OneDriver, Asks, TypeOK, BranchTypes
<1>4. ASSUME NEW p \in Clients, NEW b \in Branches, SuspendAgain(p, b)
      PROVE  BranchTypes'
  <2>1. call[p].frame \in Frame /\ StoreAsk(b, call[p].frame)
    BY <1>4 DEF SuspendAgain, TypeOK, Call
  <2> QED
    BY <1>4, <2>1, StoreAskTypes DEF SuspendAgain, TypeOK, BranchTypes
<1>5. ASSUME NEW p \in Clients, NEW b \in Branches, NEW l \in CanDecide(b),
             EndConflicting(p, b, l)
      PROVE  BranchTypes'
  BY <1>5 DEF EndConflicting, Ends, CanDecide, Slot, TypeOK, BranchTypes
<1>6. ASSUME NEW p \in Clients, NEW b \in Branches, NEW l \in CanDecide(b),
             EndWithoutState(p, b, l)
      PROVE  BranchTypes'
  BY <1>6 DEF EndWithoutState, Ends, CanDecide, Slot, TypeOK, BranchTypes
<1>7. ASSUME NEW p \in Clients, NEW b \in Branches, NEW l \in CanDecide(b),
             EndEarly(p, b, l)
      PROVE  BranchTypes'
  BY <1>7 DEF EndEarly, Ends, CanDecide, Slot, TypeOK, BranchTypes
<1>8. ASSUME NEW p \in Clients, NEW b \in Branches, NEW l \in CanDecide(b),
             EndLast(p, b, l)
      PROVE  BranchTypes'
  BY <1>8 DEF EndLast, Ends, CanDecide, Slot, TypeOK, BranchTypes
<1>9. CASE Crash
  BY <1>9 DEF Crash, TypeOK, BranchTypes
<1>10. ASSUME NEW b \in Branches,
             Fail(b)
      PROVE  BranchTypes'
  BY <1>10 DEF Fail, countVars, stepVars, TypeOK, BranchTypes
<1>11. CASE Throw \/ Return \/ StartFilling \/ Fill \/ Surface \/ Drop
  BY <1>11 DEF Throw, Return, StartFilling, Fill, Surface, Drop, countVars,
     stepVars, TypeOK, BranchTypes
<1>12. ASSUME NEW p \in Clients,
             LoseClaim(p) \/ Share(p) \/ Shared(p)
      PROVE  BranchTypes'
  BY <1>12 DEF LoseClaim, Share, Shared, countVars, stepVars, TypeOK,
     BranchTypes
<1>13. ASSUME NEW p \in Clients, NEW b \in Branches,
             FailAgain(p, b)
      PROVE  BranchTypes'
  BY <1>13 DEF FailAgain, countVars, stepVars, TypeOK, BranchTypes
<1>14. ASSUME NEW p \in Clients, NEW id \in Asks,
             Resume(p, id)
      PROVE  BranchTypes'
  BY <1>14 DEF Resume, countVars, stepVars, TypeOK, BranchTypes
<1>15. CASE UNCHANGED vars
  BY <1>15 DEF vars, stepVars, countVars, TypeOK, BranchTypes
<1> QED
  BY <1>1, <1>2, <1>3, <1>4, <1>5, <1>6, <1>7, <1>8, <1>9, <1>10, <1>11,
     <1>12, <1>13, <1>14, <1>15 DEF Next, BranchStep, StepStep, ClientStep,
     RunStep, EndStep

\* The calls of resume().
LEMMA CallTypesStep == TypeOK /\ [Next]_vars => call' \in [Clients -> Call]
<1> SUFFICES ASSUME TypeOK, [Next]_vars PROVE call' \in [Clients -> Call]
  OBVIOUS
<1>1. ASSUME NEW p \in Clients, Claim(p)
      PROVE  call' \in [Clients -> Call]
  <2>1. [call[p] EXCEPT !.pc = "driving"] \in Call
    BY <1>1, CallUpdates DEF TypeOK
  <2>2. call' = [call EXCEPT ![p] = [call[p] EXCEPT !.pc = "driving"]]
    BY <1>1 DEF Claim, TypeOK
  <2> QED
    BY <2>1, <2>2 DEF TypeOK
<1>2. ASSUME NEW p \in Clients, LoseClaim(p)
      PROVE  call' \in [Clients -> Call]
  BY <1>2, IdleCall DEF LoseClaim, Leave, TypeOK
<1>3. ASSUME NEW p \in Clients, NEW b \in Branches, SuspendAgain(p, b)
      PROVE  call' \in [Clients -> Call]
  BY <1>3, IdleCall DEF SuspendAgain, StoreAsk, Leave, TypeOK
<1>4. ASSUME NEW p \in Clients, NEW b \in Branches, FailAgain(p, b)
      PROVE  call' \in [Clients -> Call]
  BY <1>4, IdleCall DEF FailAgain, Leave, TypeOK
<1>5. ASSUME NEW p \in Clients, NEW b \in Branches, NEW l \in CanDecide(b),
             EndConflicting(p, b, l)
      PROVE  call' \in [Clients -> Call]
  BY <1>5, IdleCall DEF EndConflicting, Ends, Leave, TypeOK
<1>6. ASSUME NEW p \in Clients, NEW b \in Branches, NEW l \in CanDecide(b),
             EndWithoutState(p, b, l)
      PROVE  call' \in [Clients -> Call]
  BY <1>6, IdleCall DEF EndWithoutState, Ends, Leave, TypeOK
<1>7. ASSUME NEW p \in Clients, NEW b \in Branches, NEW l \in CanDecide(b),
             EndEarly(p, b, l)
      PROVE  call' \in [Clients -> Call]
  <2>1. call[p].frame \in Frame /\ call[p] \in Call /\ l \in Slot
    BY <1>7 DEF TypeOK, Call, CanDecide, Slot
  <2>2. WithSlot(call[p].frame, b, l) \in Frame /\ call[p].frame.pending \in Seq(Asks)
    BY <2>1, FrameTypes DEF Frame
  <2>3. [call[p] EXCEPT !.pc = "sharing", !.frame = WithSlot(call[p].frame, b, l),
                        !.toshare = call[p].frame.pending] \in Call
    BY <2>1, <2>2, CallUpdates
  <2>4. call' = [call EXCEPT ![p] =
                  [call[p] EXCEPT !.pc = "sharing", !.frame = WithSlot(call[p].frame, b, l),
                                  !.toshare = call[p].frame.pending]]
    BY <1>7 DEF EndEarly
  <2> QED
    BY <2>3, <2>4 DEF TypeOK
<1>8. ASSUME NEW p \in Clients, NEW b \in Branches, NEW l \in CanDecide(b),
             EndLast(p, b, l)
      PROVE  call' \in [Clients -> Call]
  BY <1>8, IdleCall DEF EndLast, Ends, Leave, TypeOK
<1>9. ASSUME NEW p \in Clients, Share(p)
      PROVE  call' \in [Clients -> Call]
  <2>1. [call[p] EXCEPT !.toshare = Tail(call[p].toshare)] \in Call
    BY <1>9, CallUpdates DEF Share, TypeOK
  <2>2. call' = [call EXCEPT ![p] = [call[p] EXCEPT !.toshare = Tail(call[p].toshare)]]
    BY <1>9 DEF Share, TypeOK
  <2> QED
    BY <2>1, <2>2 DEF TypeOK
<1>10. ASSUME NEW p \in Clients, Shared(p)
      PROVE  call' \in [Clients -> Call]
  BY <1>10, IdleCall DEF Shared, Leave, TypeOK
<1>11. ASSUME NEW p \in Clients, NEW id \in Asks, Resume(p, id)
      PROVE  call' \in [Clients -> Call]
  <2>1. frame[id] \in Frame
    BY <1>11 DEF TypeOK, StoreTypes
  <2>2. [call[p] EXCEPT !.pc = "claiming", !.id = id, !.frame = frame[id]] \in Call
    BY <1>11, <2>1, CallUpdates DEF TypeOK
  <2> QED
    BY <1>11, <2>2 DEF Resume, TypeOK
<1>12. CASE Crash
  BY <1>12, IdleCall DEF Crash, Leave, TypeOK
<1>13. ASSUME NEW b \in Branches,
             Suspend(b) \/ Fail(b)
      PROVE  call' \in [Clients -> Call]
  BY <1>13 DEF Suspend, Fail, StoreAsk, countVars, stepVars, TypeOK
<1>14. ASSUME NEW b \in Branches, NEW l \in CanDecide(b),
             End(b, l)
      PROVE  call' \in [Clients -> Call]
  BY <1>14 DEF End, countVars, stepVars, TypeOK
<1>15. CASE Throw \/ Return \/ StartFilling \/ Fill \/ Surface \/ Drop
  BY <1>15 DEF Throw, Return, StartFilling, Fill, Surface, Drop, countVars,
     stepVars, TypeOK
<1>16. CASE UNCHANGED vars
  BY <1>16 DEF vars, stepVars, countVars, TypeOK
<1> QED
  BY <1>1, <1>2, <1>3, <1>4, <1>5, <1>6, <1>7, <1>8, <1>9, <1>10, <1>11,
     <1>12, <1>13, <1>14, <1>15, <1>16 DEF Next, BranchStep, StepStep,
     ClientStep, RunStep, EndStep

\* What is handed on and counted.
LEMMA CountTypesStep == TypeOK /\ [Next]_vars => CountTypes'
<1> SUFFICES ASSUME TypeOK, [Next]_vars PROVE CountTypes'
  OBVIOUS
<1>1. ASSUME NEW b \in Branches, Fail(b)
      PROVE  CountTypes'
  BY <1>1, BoundAssumption DEF Fail, MayFault, TypeOK, CountTypes, countVars
<1>2. CASE Return
  <2>1. [slots |-> got.outputs, label |-> got.label]
          \in [slots : SUBSET Branches, label : Slot]
    BY DEF TypeOK, StepTypes
  <2> QED
    BY <1>2, <2>1 DEF Return, TypeOK, CountTypes, countVars
<1>3. ASSUME NEW p \in Clients, Claim(p)
      PROVE  CountTypes'
  BY <1>3, CountUp DEF Claim, TypeOK, CountTypes, countVars
<1>4. ASSUME NEW p \in Clients, NEW b \in Branches, FailAgain(p, b)
      PROVE  CountTypes'
  BY <1>4, BoundAssumption DEF FailAgain, MayFault, TypeOK, CountTypes,
     countVars
<1>5. ASSUME NEW p \in Clients, NEW b \in Branches, NEW l \in CanDecide(b),
             EndLast(p, b, l)
      PROVE  CountTypes'
  <2>1. call[p].frame \in Frame /\ l \in Slot
    BY <1>5 DEF TypeOK, Call, CanDecide, Slot
  <2>2. WithSlot(call[p].frame, b, l) \in Frame
    BY <2>1, FrameTypes
  <2>3. [slots |-> WithSlot(call[p].frame, b, l).settled,
         label |-> WithSlot(call[p].frame, b, l).label]
          \in [slots : SUBSET Branches, label : Slot]
    BY <2>2 DEF Frame
  <2> QED
    BY <1>5, <2>3 DEF EndLast, Ends, TypeOK, CountTypes, countVars
<1>6. CASE Drop
  BY <1>6, BoundAssumption DEF Drop, MayFault, TypeOK, CountTypes, countVars
<1>7. CASE Crash
  BY <1>7, BoundAssumption DEF Crash, MayFault, TypeOK, CountTypes, countVars
<1>8. ASSUME NEW b \in Branches,
             Suspend(b)
      PROVE  CountTypes'
  BY <1>8 DEF Suspend, StoreAsk, countVars, stepVars, TypeOK, CountTypes
<1>9. ASSUME NEW b \in Branches, NEW l \in CanDecide(b),
             End(b, l)
      PROVE  CountTypes'
  BY <1>9 DEF End, countVars, stepVars, TypeOK, CountTypes
<1>10. CASE Throw \/ StartFilling \/ Fill \/ Surface
  BY <1>10 DEF Throw, StartFilling, Fill, Surface, countVars, stepVars,
     TypeOK, CountTypes
<1>11. ASSUME NEW p \in Clients,
             LoseClaim(p) \/ Share(p) \/ Shared(p)
      PROVE  CountTypes'
  BY <1>11 DEF LoseClaim, Share, Shared, countVars, stepVars, TypeOK,
     CountTypes
<1>12. ASSUME NEW p \in Clients, NEW b \in Branches,
             SuspendAgain(p, b)
      PROVE  CountTypes'
  BY <1>12 DEF SuspendAgain, StoreAsk, countVars, stepVars, TypeOK, CountTypes
<1>13. ASSUME NEW p \in Clients, NEW b \in Branches, NEW l \in CanDecide(b),
             EndConflicting(p, b, l) \/ EndWithoutState(p, b, l) \/
             EndEarly(p, b, l)
      PROVE  CountTypes'
  BY <1>13 DEF EndConflicting, EndWithoutState, EndEarly, Ends, countVars,
     stepVars, TypeOK, CountTypes
<1>14. ASSUME NEW p \in Clients, NEW id \in Asks,
             Resume(p, id)
      PROVE  CountTypes'
  BY <1>14 DEF Resume, countVars, stepVars, TypeOK, CountTypes
<1>15. CASE UNCHANGED vars
  BY <1>15 DEF vars, stepVars, countVars, TypeOK, CountTypes, countVars
<1> QED
  BY <1>1, <1>2, <1>3, <1>4, <1>5, <1>6, <1>7, <1>8, <1>9, <1>10, <1>11,
     <1>12, <1>13, <1>14, <1>15 DEF Next, BranchStep, StepStep, ClientStep,
     RunStep, EndStep

\* Every step keeps the types.
LEMMA TypeStep == TypeOK /\ OneDriver /\ [Next]_vars => TypeOK'
BY StoreTypesStep, StepTypesStep, BranchTypesStep, CallTypesStep, CountTypesStep
  DEF TypeOK

----------------------------------------------------------------------------
(* Steps keep the other parts.                                             *)

\* An ask makes a new question, a claim takes it for one driver.
LEMMA OneDriverStep == TypeOK /\ OneDriver /\ [Next]_vars => OneDriver'
<1> SUFFICES ASSUME TypeOK /\ OneDriver, [Next]_vars PROVE OneDriver'
  OBVIOUS
<1>1. ASSUME NEW b \in Branches, Suspend(b)
      PROVE  OneDriver'
  BY <1>1 DEF Suspend, StoreAsk, StoreAsk, TypeOK, StoreTypes, BranchTypes,
     CountTypes, Asks, OneDriver, ActsOnce, stepVars, countVars
<1>2. ASSUME NEW b \in Branches, Fail(b)
      PROVE  OneDriver'
  BY <1>2 DEF Fail, TypeOK, BranchTypes, OneDriver, ActsOnce, stepVars,
     countVars
<1>3. ASSUME NEW b \in Branches, NEW l \in CanDecide(b), End(b, l)
      PROVE  OneDriver'
  BY <1>3 DEF End, TypeOK, BranchTypes, OneDriver, ActsOnce, stepVars,
     countVars
<1>4. ASSUME NEW p \in Clients, Claim(p)
      PROVE  OneDriver'
  <2> DEFINE id == call[p].id
  <2>1. id \in Asks /\ id \in rows /\ id[1] \in Branches
    BY <1>4 DEF Claim, WinsClaim, OneDriver, Asks
  <2>2. execs[id] = 0 /\ status[id[1]] = "suspended" /\ id[2] = asked[id[1]]
    BY <2>1 DEF OneDriver
  <2>3. /\ rows' = rows \ {id} /\ asked' = asked
        /\ execs' = [execs EXCEPT ![id] = 1]
        /\ status' = [status EXCEPT ![id[1]] = "resumed"]
        /\ call' = [call EXCEPT ![p] = [call[p] EXCEPT !.pc = "driving"]]
    BY <1>4, <2>1, <2>2 DEF Claim, TypeOK, CountTypes
  <2>4. \A a \in rows' : status'[a[1]] = "suspended" /\ a[2] = asked'[a[1]]
    <3>1. \A a \in rows : a \in Asks /\ a[1] = id[1] => a = id
      BY <2>1, <2>2 DEF OneDriver, TypeOK, StoreTypes, Asks
    <3> QED
      BY <2>1, <2>3, <3>1 DEF OneDriver, TypeOK, StoreTypes, BranchTypes, Asks
  <2>5. \A a \in Asks : a \in rows' \/ a[2] > asked'[a[1]] => execs'[a] = 0
    <3>1. asked[id[1]] \in Nat
      BY <2>1, BoundAssumption DEF TypeOK, BranchTypes
    <3>2. ~(id[2] > asked[id[1]])
      BY <2>2, <3>1
    <3> QED
      BY <2>1, <2>3, <3>2 DEF OneDriver, TypeOK, CountTypes
  <2>6. \A q \in Clients : call'[q].pc # "idle" => call'[q].id \in Asks
    BY <2>1, <2>3 DEF OneDriver, TypeOK, Call
  <2>7. \A q \in Clients : call'[q].pc = "driving" => status'[call'[q].id[1]] = "resumed"
    BY <2>1, <2>2, <2>3 DEF OneDriver, TypeOK, Call, BranchTypes, Asks
  <2>8. \A q, r \in Clients :
          call'[q].pc = "driving" /\ call'[r].pc = "driving"
            /\ call'[q].id[1] = call'[r].id[1] => q = r
    BY <2>1, <2>2, <2>3 DEF OneDriver, TypeOK, Call
  <2>9. ActsOnce'
    BY <2>1, <2>2, <2>3 DEF OneDriver, ActsOnce, TypeOK, CountTypes
  <2> QED
    BY <2>4, <2>5, <2>6, <2>7, <2>8, <2>9 DEF OneDriver
<1>5. ASSUME NEW p \in Clients, LoseClaim(p)
      PROVE  OneDriver'
  BY <1>5 DEF LoseClaim, Leave, Idle, TypeOK, OneDriver, ActsOnce, stepVars,
     countVars
<1>6. ASSUME NEW p \in Clients, NEW b \in Branches, SuspendAgain(p, b)
      PROVE  OneDriver'
  <2> DEFINE id == <<b, asked[b] + 1>>
  <2>1. /\ call[p].pc = "driving" /\ call[p].id[1] = b /\ asked[b] < MaxAsk
        /\ rows' = rows \cup {id} /\ execs' = execs
        /\ asked' = [asked EXCEPT ![b] = asked[b] + 1]
        /\ status' = [status EXCEPT ![b] = "suspended"]
        /\ call' = [call EXCEPT ![p] = Idle]
    BY <1>6 DEF SuspendAgain, StoreAsk, Drives, Leave, countVars
  <2>2. status[b] = "resumed" /\ asked[b] \in Nat /\ MaxAsk \in Nat
    BY <2>1, BoundAssumption DEF OneDriver, TypeOK, BranchTypes
  <2>3. id \in Asks /\ id[1] = b /\ id[2] = asked[b] + 1
    BY <2>1, <2>2 DEF Asks
  <2>4. \A c \in Branches : /\ c # b => asked'[c] = asked[c] /\ status'[c] = status[c]
                            /\ asked'[b] = asked[b] + 1 /\ status'[b] = "suspended"
    BY <2>1 DEF TypeOK, BranchTypes
  <2>5. \A a \in rows : a \in Asks /\ a[1] \in Branches /\ a[1] # b
    BY <2>2 DEF OneDriver, TypeOK, StoreTypes, Asks
  <2>6. \A a \in rows' : status'[a[1]] = "suspended" /\ a[2] = asked'[a[1]]
    BY <2>1, <2>3, <2>4, <2>5 DEF OneDriver
  <2>7. \A a \in Asks : a \in rows' \/ a[2] > asked'[a[1]] => execs'[a] = 0
    <3> SUFFICES ASSUME NEW a \in Asks, a \in rows' \/ a[2] > asked'[a[1]]
                 PROVE  execs[a] = 0
      BY <2>1
    <3>1. a[1] \in Branches /\ a[2] \in Nat
      BY DEF Asks
    <3>2. CASE a \in rows
      BY <3>2 DEF OneDriver
    <3>3. CASE a = id
      BY <2>2, <2>3, <3>3 DEF OneDriver
    <3>4. CASE a[2] > asked'[a[1]]
      <4>1. a[2] > asked[a[1]]
        BY <2>2, <2>4, <3>1, <3>4
      <4> QED
        BY <4>1 DEF OneDriver
    <3> QED
      BY <2>1, <3>2, <3>3, <3>4
  <2>8. \A q \in Clients : IF q = p THEN call'[q] = Idle ELSE call'[q] = call[q]
    BY <2>1 DEF TypeOK
  <2>9. \A q \in Clients : call'[q].pc # "idle" => call'[q].id \in Asks
    BY <2>8 DEF OneDriver, Idle
  <2>10. \A q \in Clients : call'[q].pc = "driving" => status'[call'[q].id[1]] = "resumed"
    <3> SUFFICES ASSUME NEW q \in Clients, call'[q].pc = "driving"
                 PROVE  status'[call'[q].id[1]] = "resumed"
      OBVIOUS
    <3>1. q # p /\ call'[q] = call[q]
      BY <2>8 DEF Idle
    <3>2. call[q].id \in Asks /\ status[call[q].id[1]] = "resumed" /\ call[q].id[1] # b
      BY <2>1, <3>1 DEF OneDriver
    <3>3. call[q].id[1] \in Branches
      BY <3>2 DEF Asks
    <3> QED
      BY <2>4, <3>1, <3>2, <3>3
  <2>11. \A q, r \in Clients :
           call'[q].pc = "driving" /\ call'[r].pc = "driving"
             /\ call'[q].id[1] = call'[r].id[1] => q = r
    BY <2>8 DEF OneDriver, Idle
  <2>12. ActsOnce'
    BY <2>1 DEF OneDriver, ActsOnce
  <2> QED
    BY <2>6, <2>7, <2>9, <2>10, <2>11, <2>12 DEF OneDriver
<1>7. ASSUME NEW p \in Clients, NEW b \in Branches, FailAgain(p, b)
      PROVE  OneDriver'
  BY <1>7 DEF FailAgain, Drives, Leave, Idle, TypeOK, BranchTypes, OneDriver,
     ActsOnce, stepVars, countVars
<1>8. ASSUME NEW p \in Clients, NEW b \in Branches, NEW l \in CanDecide(b),
             EndConflicting(p, b, l)
      PROVE  OneDriver'
  BY <1>8 DEF EndConflicting, Ends, Drives, Leave, Idle, TypeOK, BranchTypes,
     OneDriver, ActsOnce, stepVars, countVars
<1>9. ASSUME NEW p \in Clients, NEW b \in Branches, NEW l \in CanDecide(b),
             EndWithoutState(p, b, l)
      PROVE  OneDriver'
  BY <1>9 DEF EndWithoutState, Ends, Drives, Leave, Idle, TypeOK, BranchTypes,
     OneDriver, ActsOnce, stepVars, countVars
<1>10. ASSUME NEW p \in Clients, NEW b \in Branches, NEW l \in CanDecide(b),
             EndEarly(p, b, l)
      PROVE  OneDriver'
  BY <1>10 DEF EndEarly, Ends, Drives, TypeOK, BranchTypes, OneDriver,
     ActsOnce, stepVars, countVars
<1>11. ASSUME NEW p \in Clients, NEW b \in Branches, NEW l \in CanDecide(b),
             EndLast(p, b, l)
      PROVE  OneDriver'
  BY <1>11 DEF EndLast, Ends, Drives, Leave, Idle, TypeOK, BranchTypes,
     OneDriver, ActsOnce, stepVars, countVars
<1>12. ASSUME NEW p \in Clients, Share(p)
      PROVE  OneDriver'
  BY <1>12 DEF Share, TypeOK, OneDriver, ActsOnce, stepVars, countVars
<1>13. ASSUME NEW p \in Clients, Shared(p)
      PROVE  OneDriver'
  BY <1>13 DEF Shared, Leave, Idle, TypeOK, OneDriver, ActsOnce, stepVars,
     countVars
<1>14. ASSUME NEW p \in Clients, NEW id \in Asks, Resume(p, id)
      PROVE  OneDriver'
  BY <1>14 DEF Resume, Idle, TypeOK, OneDriver, ActsOnce, stepVars, countVars
<1>15. CASE Crash
  <2>1. \A q \in Clients : call'[q].pc = "idle"
    BY <1>15 DEF Crash, Idle
  <2>2. rows' = rows /\ asked' = asked /\ execs' = execs
    BY <1>15 DEF Crash
  <2>3. \A a \in rows : status'[a[1]] = "suspended" /\ a[1] \in Branches
    BY <1>15 DEF Crash, OneDriver, TypeOK, StoreTypes, Asks
  <2> QED
    BY <2>1, <2>2, <2>3 DEF OneDriver, ActsOnce
<1>16. CASE Throw \/ Return \/ StartFilling \/ Fill \/ Surface \/ Drop
  BY <1>16 DEF Throw, Return, StartFilling, Fill, Surface, Drop, countVars,
     stepVars, OneDriver, ActsOnce
<1>17. CASE UNCHANGED vars
  BY <1>17 DEF vars, stepVars, countVars, OneDriver, ActsOnce, stepVars,
     countVars
<1> QED
  BY <1>1, <1>2, <1>3, <1>4, <1>5, <1>6, <1>7, <1>8, <1>9, <1>10, <1>11,
     <1>12, <1>13, <1>14, <1>15, <1>16, <1>17 DEF Next, BranchStep, StepStep,
     ClientStep, RunStep, EndStep

Stays(c) ==
  status[c] = "ended" => status'[c] = "ended" /\ decided'[c] = decided[c]
\* A branch that has ended stays so, with its label.
LEMMA EndedStays ==
  TypeOK /\ OneDriver /\ [Next]_vars => \A c \in Branches : Stays(c)
<1> SUFFICES ASSUME TypeOK /\ OneDriver, [Next]_vars
             PROVE  \A c \in Branches : Stays(c)
  OBVIOUS
<1>1. ASSUME NEW b \in Branches, Suspend(b)
      PROVE  \A c \in Branches : Stays(c)
  BY <1>1 DEF Stays, Suspend, StoreAsk, StoreAsk, TypeOK, BranchTypes, stepVars,
     countVars
<1>2. ASSUME NEW b \in Branches, Fail(b)
      PROVE  \A c \in Branches : Stays(c)
  BY <1>2 DEF Stays, Fail, TypeOK, BranchTypes, stepVars, countVars
<1>3. ASSUME NEW b \in Branches, NEW l \in CanDecide(b), End(b, l)
      PROVE  \A c \in Branches : Stays(c)
  BY <1>3 DEF Stays, End, TypeOK, BranchTypes, stepVars, countVars
<1>4. ASSUME NEW p \in Clients, Claim(p)
      PROVE  \A c \in Branches : Stays(c)
  BY <1>4 DEF Stays, Claim, WinsClaim, OneDriver, Asks, TypeOK, BranchTypes,
     stepVars, countVars
<1>5. ASSUME NEW p \in Clients, NEW b \in Branches, SuspendAgain(p, b)
      PROVE  \A c \in Branches : Stays(c)
  BY <1>5 DEF Stays, SuspendAgain, StoreAsk, Drives, StoreAsk, OneDriver, TypeOK,
     BranchTypes, stepVars, countVars
<1>6. ASSUME NEW p \in Clients, NEW b \in Branches, FailAgain(p, b)
      PROVE  \A c \in Branches : Stays(c)
  BY <1>6 DEF Stays, FailAgain, Drives, OneDriver, TypeOK, BranchTypes, stepVars,
     countVars
<1>7. ASSUME NEW p \in Clients, NEW b \in Branches, NEW l \in CanDecide(b),
             EndConflicting(p, b, l)
      PROVE  \A c \in Branches : Stays(c)
  BY <1>7 DEF Stays, EndConflicting, Ends, Drives, OneDriver, TypeOK, BranchTypes,
     stepVars, countVars
<1>8. ASSUME NEW p \in Clients, NEW b \in Branches, NEW l \in CanDecide(b),
             EndWithoutState(p, b, l)
      PROVE  \A c \in Branches : Stays(c)
  BY <1>8 DEF Stays, EndWithoutState, Ends, Drives, OneDriver, TypeOK, BranchTypes,
     stepVars, countVars
<1>9. ASSUME NEW p \in Clients, NEW b \in Branches, NEW l \in CanDecide(b),
             EndEarly(p, b, l)
      PROVE  \A c \in Branches : Stays(c)
  BY <1>9 DEF Stays, EndEarly, Ends, Drives, OneDriver, TypeOK, BranchTypes,
     stepVars, countVars
<1>10. ASSUME NEW p \in Clients, NEW b \in Branches, NEW l \in CanDecide(b),
             EndLast(p, b, l)
      PROVE  \A c \in Branches : Stays(c)
  BY <1>10 DEF Stays, EndLast, Ends, Drives, OneDriver, TypeOK, BranchTypes,
     stepVars, countVars
<1>11. CASE Crash
  BY <1>11 DEF Stays, Crash, TypeOK, BranchTypes, stepVars, countVars
<1>12. CASE Throw \/ Return \/ StartFilling \/ Fill \/ Surface \/ Drop
  BY <1>12 DEF Stays, Throw, Return, StartFilling, Fill, Surface, Drop, countVars,
     stepVars, TypeOK, BranchTypes
<1>13. ASSUME NEW p \in Clients,
             LoseClaim(p) \/ Share(p) \/ Shared(p)
      PROVE  \A c \in Branches : Stays(c)
  BY <1>13 DEF Stays, LoseClaim, Share, Shared, countVars, stepVars, TypeOK,
     BranchTypes
<1>14. ASSUME NEW p \in Clients, NEW id \in Asks,
             Resume(p, id)
      PROVE  \A c \in Branches : Stays(c)
  BY <1>14 DEF Stays, Resume, countVars, stepVars, TypeOK, BranchTypes
<1>15. CASE UNCHANGED vars
  BY <1>15 DEF Stays, vars, stepVars, countVars, TypeOK, BranchTypes, stepVars,
     countVars
<1> QED
  BY <1>1, <1>2, <1>3, <1>4, <1>5, <1>6, <1>7, <1>8, <1>9, <1>10, <1>11,
     <1>12, <1>13, <1>14, <1>15 DEF Next, BranchStep, StepStep, ClientStep,
     RunStep, EndStep

\* Fits, after the step.
FitsNext(slots, label) ==
  \A b \in slots : status'[b] = "ended" /\ decided'[b] \in {Incoming, label}

\* Slots that fit a label still do after the step.
LEMMA FrameStays ==
  ASSUME TypeOK, OneDriver, [Next]_vars, NEW s \in SUBSET Branches, NEW l, Fits(s, l)
  PROVE  FitsNext(s, l)
BY EndedStays DEF Fits, FitsNext, Stays

\* Filling a slot with the label it settled on keeps a frame fitting.
LEMMA FillFits ==
  ASSUME NEW f \in Frame, NEW b \in Branches, NEW l \in Slot,
         ~Conflicts(f.label, l), FitsNext(f.settled, f.label),
         status'[b] = "ended", decided'[b] \in {Incoming, l}
  PROVE  FitsNext(WithSlot(f, b, l).settled, WithSlot(f, b, l).label)
<1>1. /\ WithSlot(f, b, l).settled = f.settled \cup {b}
      /\ WithSlot(f, b, l).label = JoinSlotLabel(f.label, l)
  BY DEF WithSlot, Frame
<1> QED
  BY <1>1 DEF FitsNext, Conflicts, JoinSlotLabel

\* Stored frames.
LEMMA StoredFitStep ==
  TypeOK /\ OneDriver /\ FramesFit /\ LiveFits /\ [Next]_vars => StoredFit'
<1> SUFFICES ASSUME TypeOK /\ OneDriver /\ FramesFit /\ LiveFits, [Next]_vars
             PROVE  StoredFit'
  OBVIOUS
<1>a. \A id \in Asks : FitsNext(frame[id].settled, frame[id].label)
  BY FrameStays DEF FramesFit, StoredFit, TypeOK, StoreTypes, Frame
<1>1. ASSUME NEW b \in Branches, Suspend(b)
      PROVE  StoredFit'
  <2>a. FitsNext(NewFrame.settled, NewFrame.label)
    BY DEF FitsNext, NewFrame
  <2>1. frame' = [frame EXCEPT ![<<b, asked[b] + 1>>] = NewFrame]
    BY <1>1 DEF Suspend, StoreAsk
  <2> QED
    BY <1>a, <2>a, <2>1 DEF StoredFit, Fits, FitsNext, TypeOK, StoreTypes
<1>2. CASE Fill
  <2>1. frame' = [frame EXCEPT ![Head(tofill)] = SiblingData]
    BY <1>2 DEF Fill
  <2>2. FitsNext(got.outputs, got.label)
    BY <1>2, FrameStays DEF Fill, LiveFits, TypeOK, StepTypes
  <2>3. FitsNext(SiblingData.settled, SiblingData.label)
    BY <2>2 DEF SiblingData
  <2> QED
    BY <1>a, <2>1, <2>3 DEF StoredFit, Fits, FitsNext, TypeOK, StoreTypes
<1>3. ASSUME NEW p \in Clients, NEW b \in Branches, SuspendAgain(p, b)
      PROVE  StoredFit'
  <2>1. frame' = [frame EXCEPT ![<<b, asked[b] + 1>>] = call[p].frame]
    BY <1>3 DEF SuspendAgain, StoreAsk
  <2>2. FitsNext(call[p].frame.settled, call[p].frame.label)
    BY <1>3, FrameStays DEF FramesFit, HeldFit, TypeOK, Call, Frame
  <2> QED
    BY <1>a, <2>1, <2>2 DEF StoredFit, Fits, FitsNext, TypeOK, StoreTypes
<1>4. ASSUME NEW p \in Clients, Share(p)
      PROVE  StoredFit'
  <2> DEFINE id == Head(call[p].toshare)
             w == WithSlot(frame[id], call[p].id[1], call[p].frame.label)
  <2>1. CASE ~(id \in rows)
    BY <1>4, <1>a, <2>1 DEF Share, StoredFit, Fits, FitsNext
  <2>2. CASE id \in rows
    <3>1. id \in Asks /\ frame[id] \in Frame /\ frame' = [frame EXCEPT ![id] = w]
      BY <1>4, <2>2 DEF Share, TypeOK, StoreTypes
    <3>2. call[p].id[1] \in Branches /\ call[p].frame.label \in Slot
      BY <1>4 DEF Share, TypeOK, Call, OneDriver, Asks, Frame
    <3>3. ~Conflicts(frame[id].label, call[p].frame.label)
      BY <1>4, <2>2 DEF Share, Throws
    <3>4. FitsNext(call[p].frame.settled, call[p].frame.label)
      BY <1>4, FrameStays DEF FramesFit, HeldFit, TypeOK, Call, Frame
    <3>5. call[p].id[1] \in call[p].frame.settled
      BY <1>4 DEF Share, FramesFit, SharedFit
    <3>6. FitsNext(w.settled, w.label)
      BY <1>a, <3>1, <3>2, <3>3, <3>4, <3>5, FillFits DEF FitsNext
    <3> QED
      BY <1>a, <3>1, <3>6 DEF StoredFit, Fits, FitsNext, TypeOK, StoreTypes
  <2> QED
    BY <2>1, <2>2
<1>5. ASSUME NEW b \in Branches,
             Fail(b)
      PROVE  StoredFit'
  BY <1>5, <1>a DEF Fail, countVars, stepVars, StoredFit, Fits, FitsNext,
     TypeOK, StoreTypes
<1>6. ASSUME NEW b \in Branches, NEW l \in CanDecide(b),
             End(b, l)
      PROVE  StoredFit'
  BY <1>6, <1>a DEF End, countVars, stepVars, StoredFit, Fits, FitsNext,
     TypeOK, StoreTypes
<1>7. CASE Throw \/ Return \/ StartFilling \/ Surface \/ Drop \/ Crash
  BY <1>7, <1>a DEF Throw, Return, StartFilling, Surface, Drop, Crash,
     countVars, stepVars, StoredFit, Fits, FitsNext, TypeOK, StoreTypes
<1>8. ASSUME NEW p \in Clients,
             Claim(p) \/ LoseClaim(p) \/ Shared(p)
      PROVE  StoredFit'
  BY <1>8, <1>a DEF Claim, LoseClaim, Shared, countVars, stepVars, StoredFit,
     Fits, FitsNext, TypeOK, StoreTypes
<1>9. ASSUME NEW p \in Clients, NEW b \in Branches,
             FailAgain(p, b)
      PROVE  StoredFit'
  BY <1>9, <1>a DEF FailAgain, countVars, stepVars, StoredFit, Fits, FitsNext,
     TypeOK, StoreTypes
<1>10. ASSUME NEW p \in Clients, NEW b \in Branches, NEW l \in CanDecide(b),
             EndConflicting(p, b, l) \/ EndWithoutState(p, b, l) \/
             EndEarly(p, b, l) \/ EndLast(p, b, l)
      PROVE  StoredFit'
  BY <1>10, <1>a DEF EndConflicting, EndWithoutState, EndEarly, EndLast, Ends,
     countVars, stepVars, StoredFit, Fits, FitsNext, TypeOK, StoreTypes
<1>11. ASSUME NEW p \in Clients, NEW id \in Asks,
             Resume(p, id)
      PROVE  StoredFit'
  BY <1>11, <1>a DEF Resume, countVars, stepVars, StoredFit, Fits, FitsNext,
     TypeOK, StoreTypes
<1>12. CASE UNCHANGED vars
  BY <1>12, <1>a DEF vars, stepVars, countVars, StoredFit, Fits, FitsNext,
     TypeOK, StoreTypes
<1> QED
  BY <1>1, <1>2, <1>3, <1>4, <1>5, <1>6, <1>7, <1>8, <1>9, <1>10, <1>11, <1>12
     DEF Next, BranchStep, StepStep, ClientStep, RunStep, EndStep

\* Frames that a resume holds.
LEMMA HeldFitStep ==
  TypeOK /\ OneDriver /\ FramesFit /\ LiveFits /\ [Next]_vars => HeldFit'
<1> SUFFICES ASSUME TypeOK /\ OneDriver /\ FramesFit /\ LiveFits, [Next]_vars
             PROVE  HeldFit'
  OBVIOUS
<1>a. \A p \in Clients : FitsNext(call[p].frame.settled, call[p].frame.label)
  BY FrameStays DEF FramesFit, HeldFit, TypeOK, Call, Frame
<1>b. FitsNext(Idle.frame.settled, Idle.frame.label)
  BY DEF FitsNext, NewFrame, Idle
<1>1. ASSUME NEW p \in Clients, Claim(p)
      PROVE  HeldFit'
  <2>1. \A q \in Clients : call'[q].frame = call[q].frame
    BY <1>1 DEF Claim, TypeOK, Call
  <2> QED
    BY <1>a, <2>1 DEF HeldFit, Fits, FitsNext
<1>2. ASSUME NEW p \in Clients, LoseClaim(p)
      PROVE  HeldFit'
  BY <1>2, <1>a, <1>b DEF LoseClaim, Leave, HeldFit, Fits, FitsNext, TypeOK
<1>3. ASSUME NEW p \in Clients, NEW b \in Branches, SuspendAgain(p, b)
      PROVE  HeldFit'
  BY <1>3, <1>a, <1>b DEF SuspendAgain, StoreAsk, Leave, HeldFit, Fits,
     FitsNext, TypeOK
<1>4. ASSUME NEW p \in Clients, NEW b \in Branches, FailAgain(p, b)
      PROVE  HeldFit'
  BY <1>4, <1>a, <1>b DEF FailAgain, Leave, HeldFit, Fits, FitsNext, TypeOK
<1>5. ASSUME NEW p \in Clients, NEW b \in Branches, NEW l \in CanDecide(b),
             EndConflicting(p, b, l)
      PROVE  HeldFit'
  BY <1>5, <1>a, <1>b DEF EndConflicting, Ends, Leave, HeldFit, Fits,
     FitsNext, TypeOK
<1>6. ASSUME NEW p \in Clients, NEW b \in Branches, NEW l \in CanDecide(b),
             EndWithoutState(p, b, l)
      PROVE  HeldFit'
  BY <1>6, <1>a, <1>b DEF EndWithoutState, Ends, Leave, HeldFit, Fits,
     FitsNext, TypeOK
<1>7. ASSUME NEW p \in Clients, NEW b \in Branches, NEW l \in CanDecide(b),
             EndEarly(p, b, l)
      PROVE  HeldFit'
  <2> DEFINE w == WithSlot(call[p].frame, b, l)
  <2>1. call[p].frame \in Frame /\ l \in Slot /\ ~Conflicts(call[p].frame.label, l)
    BY <1>7 DEF EndEarly, TypeOK, Call, CanDecide, Slot
  <2>2. status'[b] = "ended" /\ decided'[b] = l
    BY <1>7 DEF EndEarly, Ends, TypeOK, BranchTypes
  <2>3. FitsNext(w.settled, w.label)
    BY <1>a, <2>1, <2>2, FillFits
  <2>4. /\ \A q \in Clients \ {p} : call'[q] = call[q]
        /\ call'[p].frame = w
    BY <1>7 DEF EndEarly, TypeOK, Call
  <2> QED
    BY <1>a, <2>3, <2>4 DEF HeldFit, Fits, FitsNext
<1>8. ASSUME NEW p \in Clients, NEW b \in Branches, NEW l \in CanDecide(b),
             EndLast(p, b, l)
      PROVE  HeldFit'
  BY <1>8, <1>a, <1>b DEF EndLast, Ends, Leave, HeldFit, Fits, FitsNext,
     TypeOK
<1>9. ASSUME NEW p \in Clients, Share(p)
      PROVE  HeldFit'
  <2>1. \A q \in Clients : call'[q].frame = call[q].frame
    BY <1>9 DEF Share, TypeOK, Call
  <2> QED
    BY <1>a, <2>1 DEF HeldFit, Fits, FitsNext
<1>10. ASSUME NEW p \in Clients, Shared(p)
      PROVE  HeldFit'
  BY <1>10, <1>a, <1>b DEF Shared, Leave, HeldFit, Fits, FitsNext, TypeOK
<1>11. ASSUME NEW p \in Clients, NEW id \in Asks, Resume(p, id)
      PROVE  HeldFit'
  <2>1. FitsNext(frame[id].settled, frame[id].label)
    BY FrameStays DEF FramesFit, StoredFit, TypeOK, StoreTypes, Frame
  <2>2. /\ \A q \in Clients \ {p} : call'[q] = call[q]
        /\ call'[p].frame = frame[id]
    BY <1>11 DEF Resume, TypeOK, Call
  <2> QED
    BY <1>a, <2>1, <2>2 DEF HeldFit, Fits, FitsNext
<1>12. CASE Crash
  BY <1>12, <1>a, <1>b DEF Crash, Leave, HeldFit, Fits, FitsNext, TypeOK
<1>13. ASSUME NEW b \in Branches,
             Suspend(b) \/ Fail(b)
      PROVE  HeldFit'
  BY <1>13, <1>a DEF Suspend, Fail, StoreAsk, countVars, stepVars, HeldFit,
     Fits, FitsNext, TypeOK
<1>14. ASSUME NEW b \in Branches, NEW l \in CanDecide(b),
             End(b, l)
      PROVE  HeldFit'
  BY <1>14, <1>a DEF End, countVars, stepVars, HeldFit, Fits, FitsNext, TypeOK
<1>15. CASE Throw \/ Return \/ StartFilling \/ Fill \/ Surface \/ Drop
  BY <1>15, <1>a DEF Throw, Return, StartFilling, Fill, Surface, Drop,
     countVars, stepVars, HeldFit, Fits, FitsNext, TypeOK
<1>16. CASE UNCHANGED vars
  BY <1>16, <1>a DEF vars, stepVars, countVars, HeldFit, Fits, FitsNext,
     TypeOK
<1> QED
  BY <1>1, <1>2, <1>3, <1>4, <1>5, <1>6, <1>7, <1>8, <1>9, <1>10, <1>11,
     <1>12, <1>13, <1>14, <1>15, <1>16 DEF Next, BranchStep, StepStep,
     ClientStep, RunStep, EndStep

\* A resume that writes to siblings has filled its own slot.
LEMMA SharedFitStep ==
  TypeOK /\ OneDriver /\ FramesFit /\ LiveFits /\ [Next]_vars => SharedFit'
<1> SUFFICES ASSUME TypeOK /\ OneDriver /\ FramesFit /\ LiveFits, [Next]_vars
             PROVE  SharedFit'
  OBVIOUS
<1>1. ASSUME NEW p \in Clients, Claim(p)
      PROVE  SharedFit'
  BY <1>1 DEF Claim, Call, SharedFit, FramesFit, TypeOK
<1>2. ASSUME NEW p \in Clients, LoseClaim(p)
      PROVE  SharedFit'
  BY <1>2 DEF LoseClaim, Leave, Idle, Call, SharedFit, FramesFit, TypeOK
<1>3. ASSUME NEW p \in Clients, NEW b \in Branches, SuspendAgain(p, b)
      PROVE  SharedFit'
  BY <1>3 DEF SuspendAgain, StoreAsk, Leave, Idle, Call, SharedFit, FramesFit,
     TypeOK
<1>4. ASSUME NEW p \in Clients, NEW b \in Branches, FailAgain(p, b)
      PROVE  SharedFit'
  BY <1>4 DEF FailAgain, Leave, Idle, Call, SharedFit, FramesFit, TypeOK
<1>5. ASSUME NEW p \in Clients, NEW b \in Branches, NEW l \in CanDecide(b),
             EndConflicting(p, b, l)
      PROVE  SharedFit'
  BY <1>5 DEF EndConflicting, Ends, Leave, Idle, Call, SharedFit, FramesFit,
     TypeOK
<1>6. ASSUME NEW p \in Clients, NEW b \in Branches, NEW l \in CanDecide(b),
             EndWithoutState(p, b, l)
      PROVE  SharedFit'
  BY <1>6 DEF EndWithoutState, Ends, Leave, Idle, Call, SharedFit, FramesFit,
     TypeOK
<1>7. ASSUME NEW p \in Clients, NEW b \in Branches, NEW l \in CanDecide(b),
             EndEarly(p, b, l)
      PROVE  SharedFit'
  <2>1. /\ \A q \in Clients \ {p} : call'[q] = call[q]
        /\ call'[p].frame = WithSlot(call[p].frame, b, l)
        /\ call'[p].id = call[p].id
    BY <1>7 DEF EndEarly, TypeOK, Call
  <2>2. b = call[p].id[1] /\ b \in WithSlot(call[p].frame, b, l).settled
    BY <1>7 DEF EndEarly, Ends, Drives, WithSlot, TypeOK, Call, Frame
  <2> QED
    BY <2>1, <2>2 DEF SharedFit, FramesFit
<1>8. ASSUME NEW p \in Clients, NEW b \in Branches, NEW l \in CanDecide(b),
             EndLast(p, b, l)
      PROVE  SharedFit'
  BY <1>8 DEF EndLast, Ends, Leave, Idle, Call, SharedFit, FramesFit, TypeOK
<1>9. ASSUME NEW p \in Clients, Share(p)
      PROVE  SharedFit'
  BY <1>9 DEF Share, Call, SharedFit, FramesFit, TypeOK
<1>10. ASSUME NEW p \in Clients, Shared(p)
      PROVE  SharedFit'
  BY <1>10 DEF Shared, Leave, Idle, Call, SharedFit, FramesFit, TypeOK
<1>11. ASSUME NEW p \in Clients, NEW id \in Asks, Resume(p, id)
      PROVE  SharedFit'
  BY <1>11 DEF Resume, Call, SharedFit, FramesFit, TypeOK
<1>12. CASE Crash
  BY <1>12 DEF Crash, Leave, Idle, Call, SharedFit, FramesFit, TypeOK
<1>13. ASSUME NEW b \in Branches,
             Suspend(b) \/ Fail(b)
      PROVE  SharedFit'
  BY <1>13 DEF Suspend, Fail, StoreAsk, countVars, stepVars, SharedFit,
     FramesFit, TypeOK
<1>14. ASSUME NEW b \in Branches, NEW l \in CanDecide(b),
             End(b, l)
      PROVE  SharedFit'
  BY <1>14 DEF End, countVars, stepVars, SharedFit, FramesFit, TypeOK
<1>15. CASE Throw \/ Return \/ StartFilling \/ Fill \/ Surface \/ Drop
  BY <1>15 DEF Throw, Return, StartFilling, Fill, Surface, Drop, countVars,
     stepVars, SharedFit, FramesFit, TypeOK
<1>16. CASE UNCHANGED vars
  BY <1>16 DEF vars, stepVars, countVars, SharedFit, FramesFit, TypeOK
<1> QED
  BY <1>1, <1>2, <1>3, <1>4, <1>5, <1>6, <1>7, <1>8, <1>9, <1>10, <1>11,
     <1>12, <1>13, <1>14, <1>15, <1>16 DEF Next, BranchStep, StepStep,
     ClientStep, RunStep, EndStep

\* What is handed on.
LEMMA PassedFitStep ==
  TypeOK /\ OneDriver /\ FramesFit /\ LiveFits /\ [Next]_vars => PassedFit'
<1> SUFFICES ASSUME TypeOK /\ OneDriver /\ FramesFit /\ LiveFits, [Next]_vars
             PROVE  PassedFit'
  OBVIOUS
<1>a. ASSUME NEW i \in DOMAIN passed
      PROVE  FitsNext(passed[i].slots, passed[i].label)
  <2> DEFINE Merge == [slots : SUBSET Branches, label : Slot]
  <2>1. passed \in Seq(Merge)
    BY DEF TypeOK, CountTypes
  <2> HIDE DEF Merge
  <2>2. passed[i] \in Merge
    BY <2>1
  <2>3. passed[i].slots \in SUBSET Branches
    BY <2>2 DEF Merge
  <2> QED
    BY <2>3, FrameStays DEF FramesFit, PassedFit
<1>1. CASE Return
  <2>1. FitsNext(got.outputs, got.label)
    BY <1>1, FrameStays DEF Return, LiveFits, TypeOK, StepTypes
  <2> QED
    BY <1>1, <1>a, <2>1 DEF Return, PassedFit, Fits, FitsNext, TypeOK, CountTypes
<1>2. ASSUME NEW p \in Clients, NEW b \in Branches, NEW l \in CanDecide(b),
             EndLast(p, b, l)
      PROVE  PassedFit'
  <2> DEFINE w == WithSlot(call[p].frame, b, l)
  <2>0. FitsNext(call[p].frame.settled, call[p].frame.label)
    BY FrameStays DEF FramesFit, HeldFit, TypeOK, Call, Frame
  <2>1. call[p].frame \in Frame /\ l \in Slot /\ ~Conflicts(call[p].frame.label, l)
    BY <1>2 DEF EndLast, TypeOK, Call, CanDecide, Slot
  <2>2. status'[b] = "ended" /\ decided'[b] = l
    BY <1>2 DEF EndLast, Ends, TypeOK, BranchTypes
  <2>3. FitsNext(w.settled, w.label)
    BY <2>0, <2>1, <2>2, FillFits
  <2>4. passed' = Append(passed, [slots |-> w.settled, label |-> w.label])
    BY <1>2 DEF EndLast
  <2> QED
    BY <1>a, <2>3, <2>4 DEF PassedFit, Fits, FitsNext, TypeOK, CountTypes
<1>3. ASSUME NEW b \in Branches,
             Suspend(b) \/ Fail(b)
      PROVE  PassedFit'
  BY <1>3, <1>a DEF Suspend, Fail, StoreAsk, countVars, stepVars, PassedFit,
     Fits, FitsNext, TypeOK
<1>4. ASSUME NEW b \in Branches, NEW l \in CanDecide(b),
             End(b, l)
      PROVE  PassedFit'
  BY <1>4, <1>a DEF End, countVars, stepVars, PassedFit, Fits, FitsNext,
     TypeOK
<1>5. CASE Throw \/ StartFilling \/ Fill \/ Surface \/ Drop \/ Crash
  BY <1>5, <1>a DEF Throw, StartFilling, Fill, Surface, Drop, Crash,
     countVars, stepVars, PassedFit, Fits, FitsNext, TypeOK
<1>6. ASSUME NEW p \in Clients,
             Claim(p) \/ LoseClaim(p) \/ Share(p) \/ Shared(p)
      PROVE  PassedFit'
  BY <1>6, <1>a DEF Claim, LoseClaim, Share, Shared, countVars, stepVars,
     PassedFit, Fits, FitsNext, TypeOK
<1>7. ASSUME NEW p \in Clients, NEW b \in Branches,
             SuspendAgain(p, b) \/ FailAgain(p, b)
      PROVE  PassedFit'
  BY <1>7, <1>a DEF SuspendAgain, FailAgain, StoreAsk, countVars, stepVars,
     PassedFit, Fits, FitsNext, TypeOK
<1>8. ASSUME NEW p \in Clients, NEW b \in Branches, NEW l \in CanDecide(b),
             EndConflicting(p, b, l) \/ EndWithoutState(p, b, l) \/
             EndEarly(p, b, l)
      PROVE  PassedFit'
  BY <1>8, <1>a DEF EndConflicting, EndWithoutState, EndEarly, Ends,
     countVars, stepVars, PassedFit, Fits, FitsNext, TypeOK
<1>9. ASSUME NEW p \in Clients, NEW id \in Asks,
             Resume(p, id)
      PROVE  PassedFit'
  BY <1>9, <1>a DEF Resume, countVars, stepVars, PassedFit, Fits, FitsNext,
     TypeOK
<1>10. CASE UNCHANGED vars
  BY <1>10, <1>a DEF vars, stepVars, countVars, PassedFit, Fits, FitsNext,
     TypeOK
<1> QED
  BY <1>1, <1>2, <1>3, <1>4, <1>5, <1>6, <1>7, <1>8, <1>9, <1>10 DEF Next,
     BranchStep, StepStep, ClientStep, RunStep, EndStep

\* The live step's outputs and label.
LEMMA LiveFitsStep ==
  TypeOK /\ OneDriver /\ FramesFit /\ LiveFits /\ [Next]_vars => LiveFits'
<1> SUFFICES ASSUME TypeOK /\ OneDriver /\ FramesFit /\ LiveFits, [Next]_vars
             PROVE  LiveFits'
  OBVIOUS
<1>a. ~got.conflict => FitsNext(got.outputs, got.label)
  BY FrameStays DEF LiveFits, TypeOK, StepTypes
<1>1. ASSUME NEW b \in Branches, Suspend(b)
      PROVE  LiveFits'
  BY <1>1, <1>a DEF Suspend, StoreAsk, StoreAsk, BranchTypes, StepTypes,
     LiveFits, Fits, FitsNext, TypeOK, stepVars
<1>2. ASSUME NEW b \in Branches, Fail(b)
      PROVE  LiveFits'
  BY <1>2, <1>a DEF Fail, BranchTypes, StepTypes, LiveFits, Fits, FitsNext,
     TypeOK, stepVars
<1>3. ASSUME NEW b \in Branches, NEW l \in CanDecide(b), End(b, l)
      PROVE  LiveFits'
  <2>1. ~got'.conflict => FitsNext(got'.outputs, got'.label)
    <3> SUFFICES ASSUME ~got'.conflict PROVE FitsNext(got'.outputs, got'.label)
      OBVIOUS
    <3>1. ~got.conflict /\ ~Conflicts(got.label, l)
      BY <1>3 DEF End, Adopt, TypeOK, StepTypes
    <3>2. got'.outputs = got.outputs \cup {b} /\ got'.label = JoinSlotLabel(got.label, l)
      BY <1>3, <3>1 DEF End, Adopt, TypeOK, StepTypes
    <3>3. status'[b] = "ended" /\ decided'[b] = l
      BY <1>3 DEF End, TypeOK, BranchTypes
    <3> QED
      BY <1>a, <3>1, <3>2, <3>3 DEF FitsNext, Conflicts, JoinSlotLabel
  <2>2. got'.conflict => got'.failed
    BY <1>3 DEF End, Adopt, LiveFits, TypeOK, StepTypes
  <2>3. step' # "filling"
    BY <1>3 DEF End, LiveFits
  <2> QED
    BY <2>1, <2>2, <2>3 DEF LiveFits, Fits, FitsNext
<1>4. CASE StartFilling
  BY <1>4, <1>a DEF StartFilling, Settled, LiveFits, Fits, FitsNext, TypeOK,
     stepVars
<1>5. ASSUME NEW p \in Clients, Claim(p)
      PROVE  LiveFits'
  BY <1>5, <1>a DEF Claim, BranchTypes, LiveFits, Fits, FitsNext, TypeOK,
     stepVars
<1>6. ASSUME NEW p \in Clients, NEW b \in Branches, SuspendAgain(p, b)
      PROVE  LiveFits'
  BY <1>6, <1>a DEF SuspendAgain, StoreAsk, StoreAsk, BranchTypes, LiveFits,
     Fits, FitsNext, TypeOK, stepVars
<1>7. ASSUME NEW p \in Clients, NEW b \in Branches, FailAgain(p, b)
      PROVE  LiveFits'
  BY <1>7, <1>a DEF FailAgain, BranchTypes, LiveFits, Fits, FitsNext, TypeOK,
     stepVars
<1>8. ASSUME NEW p \in Clients, NEW b \in Branches, NEW l \in CanDecide(b),
             EndConflicting(p, b, l)
      PROVE  LiveFits'
  BY <1>8, <1>a DEF EndConflicting, Ends, BranchTypes, LiveFits, Fits,
     FitsNext, TypeOK, stepVars
<1>9. ASSUME NEW p \in Clients, NEW b \in Branches, NEW l \in CanDecide(b),
             EndWithoutState(p, b, l)
      PROVE  LiveFits'
  BY <1>9, <1>a DEF EndWithoutState, Ends, BranchTypes, LiveFits, Fits,
     FitsNext, TypeOK, stepVars
<1>10. ASSUME NEW p \in Clients, NEW b \in Branches, NEW l \in CanDecide(b),
             EndEarly(p, b, l)
      PROVE  LiveFits'
  BY <1>10, <1>a DEF EndEarly, Ends, BranchTypes, LiveFits, Fits, FitsNext,
     TypeOK, stepVars
<1>11. ASSUME NEW p \in Clients, NEW b \in Branches, NEW l \in CanDecide(b),
             EndLast(p, b, l)
      PROVE  LiveFits'
  BY <1>11, <1>a DEF EndLast, Ends, BranchTypes, LiveFits, Fits, FitsNext,
     TypeOK, stepVars
<1>12. CASE Crash
  BY <1>12, <1>a DEF Crash, BranchTypes, LiveFits, Fits, FitsNext, TypeOK,
     stepVars
<1>13. CASE Throw \/ Return \/ Fill \/ Surface \/ Drop
  BY <1>13, <1>a DEF Throw, Return, Fill, Surface, Drop, countVars, stepVars,
     LiveFits, Fits, FitsNext, TypeOK
<1>14. ASSUME NEW p \in Clients,
             LoseClaim(p) \/ Share(p) \/ Shared(p)
      PROVE  LiveFits'
  BY <1>14, <1>a DEF LoseClaim, Share, Shared, countVars, stepVars, LiveFits,
     Fits, FitsNext, TypeOK
<1>15. ASSUME NEW p \in Clients, NEW id \in Asks,
             Resume(p, id)
      PROVE  LiveFits'
  BY <1>15, <1>a DEF Resume, countVars, stepVars, LiveFits, Fits, FitsNext,
     TypeOK
<1>16. CASE UNCHANGED vars
  BY <1>16, <1>a DEF vars, stepVars, countVars, LiveFits, Fits, FitsNext,
     TypeOK, stepVars
<1> QED
  BY <1>1, <1>2, <1>3, <1>4, <1>5, <1>6, <1>7, <1>8, <1>9, <1>10, <1>11,
     <1>12, <1>13, <1>14, <1>15, <1>16 DEF Next, BranchStep, StepStep,
     ClientStep, RunStep, EndStep

\* Sibling data is first written by a fill.
LEMMA NoDataYetStep ==
  TypeOK /\ OneDriver /\ NoDataYet /\ [Next]_vars => NoDataYet'
<1> SUFFICES ASSUME TypeOK /\ OneDriver /\ NoDataYet, [Next]_vars PROVE NoDataYet'
  OBVIOUS
<1>1. ASSUME NEW b \in Branches, Suspend(b)
      PROVE  NoDataYet'
  BY <1>1 DEF Suspend, StoreAsk, StoreAsk, NewFrame, StoreTypes, NoDataYet,
     TypeOK
<1>2. CASE Throw
  BY <1>2 DEF Throw, Settled, stepVars, NoDataYet, TypeOK
<1>3. CASE Return
  BY <1>3 DEF Return, Settled, stepVars, NoDataYet, TypeOK
<1>4. CASE StartFilling
  BY <1>4 DEF StartFilling, Settled, stepVars, NoDataYet, TypeOK
<1>5. CASE Fill
  BY <1>5 DEF Fill, Settled, stepVars, NoDataYet, TypeOK
<1>6. CASE Surface
  BY <1>6 DEF Surface, Settled, stepVars, NoDataYet, TypeOK
<1>7. ASSUME NEW p \in Clients, Claim(p)
      PROVE  NoDataYet'
  BY <1>7 DEF Claim, stepVars, Call, NoDataYet, TypeOK
<1>8. ASSUME NEW p \in Clients, LoseClaim(p)
      PROVE  NoDataYet'
  BY <1>8 DEF LoseClaim, Leave, Idle, NewFrame, stepVars, NoDataYet, TypeOK
<1>9. ASSUME NEW p \in Clients, NEW b \in Branches, SuspendAgain(p, b)
      PROVE  NoDataYet'
  BY <1>9 DEF SuspendAgain, StoreAsk, StoreAsk, StoreTypes, Leave, Idle,
     NewFrame, stepVars, NoDataYet, TypeOK
<1>10. ASSUME NEW p \in Clients, NEW b \in Branches, FailAgain(p, b)
      PROVE  NoDataYet'
  BY <1>10 DEF FailAgain, Leave, Idle, NewFrame, stepVars, NoDataYet, TypeOK
<1>11. ASSUME NEW p \in Clients, NEW b \in Branches, NEW l \in CanDecide(b),
             EndConflicting(p, b, l)
      PROVE  NoDataYet'
  BY <1>11 DEF EndConflicting, Ends, Leave, Idle, NewFrame, stepVars,
     NoDataYet, TypeOK
<1>12. ASSUME NEW p \in Clients, NEW b \in Branches, NEW l \in CanDecide(b),
             EndWithoutState(p, b, l)
      PROVE  NoDataYet'
  BY <1>12 DEF EndWithoutState, Ends, Leave, Idle, NewFrame, stepVars,
     NoDataYet, TypeOK
<1>13. ASSUME NEW p \in Clients, NEW b \in Branches, NEW l \in CanDecide(b),
             EndEarly(p, b, l)
      PROVE  NoDataYet'
  BY <1>13 DEF EndEarly, Ends, LosesState, Ends, stepVars, NoDataYet, TypeOK
<1>14. ASSUME NEW p \in Clients, NEW b \in Branches, NEW l \in CanDecide(b),
             EndLast(p, b, l)
      PROVE  NoDataYet'
  BY <1>14 DEF EndLast, Ends, LosesState, Ends, stepVars, NoDataYet, TypeOK
<1>15. ASSUME NEW p \in Clients, Share(p)
      PROVE  NoDataYet'
  <2>1. step \in {"running", "failed", "dropped"} =>
          \A q \in Clients : call'[q].frame = call[q].frame
    BY <1>15 DEF Share, TypeOK, Call
  <2>2. \A id \in Asks : frame'[id].pending = frame[id].pending
    BY <1>15 DEF Share, WithSlot, TypeOK, StoreTypes, Frame
  <2> QED
    BY <1>15, <2>1, <2>2 DEF Share, NoDataYet, stepVars
<1>16. ASSUME NEW p \in Clients, Shared(p)
      PROVE  NoDataYet'
  BY <1>16 DEF Shared, Leave, Idle, NewFrame, stepVars, NoDataYet, TypeOK
<1>17. ASSUME NEW p \in Clients, NEW id \in Asks, Resume(p, id)
      PROVE  NoDataYet'
  BY <1>17 DEF Resume, stepVars, StoreTypes, Call, NoDataYet, TypeOK
<1>18. CASE Drop
  BY <1>18 DEF Drop, Settled, stepVars, NoDataYet, TypeOK
<1>19. CASE Crash
  BY <1>19 DEF Crash, Idle, NewFrame, StepTypes, NoDataYet, TypeOK
<1>20. ASSUME NEW b \in Branches,
             Fail(b)
      PROVE  NoDataYet'
  BY <1>20 DEF Fail, countVars, stepVars, NoDataYet, TypeOK
<1>21. ASSUME NEW b \in Branches, NEW l \in CanDecide(b),
             End(b, l)
      PROVE  NoDataYet'
  BY <1>21 DEF End, countVars, stepVars, NoDataYet, TypeOK
<1>22. CASE UNCHANGED vars
  BY <1>22 DEF vars, stepVars, countVars, NoDataYet, TypeOK
<1> QED
  BY <1>1, <1>2, <1>3, <1>4, <1>5, <1>6, <1>7, <1>8, <1>9, <1>10, <1>11,
     <1>12, <1>13, <1>14, <1>15, <1>16, <1>17, <1>18, <1>19, <1>20, <1>21,
     <1>22 DEF Next, BranchStep, StepStep, ClientStep, RunStep, EndStep

----------------------------------------------------------------------------
(* The invariant, and what follows from it.                                *)

\* The invariant holds at first,
LEMMA InvariantInit == Init => IInv
<1> SUFFICES ASSUME Init PROVE IInv
  OBVIOUS
<1>1. TypeOK
  BY TypeInit
<1>2. FramesFit /\ LiveFits
  BY DEF Init, FramesFit, StoredFit, HeldFit, SharedFit, PassedFit, LiveFits, Fits,
     NewFrame, Idle
<1>3. OneDriver
  BY DEF Init, OneDriver, ActsOnce, Idle
<1>4. NoDataYet
  BY DEF Init, NoDataYet, Idle, NewFrame
<1> QED
  BY <1>1, <1>2, <1>3, <1>4 DEF IInv

\* is kept by every step,
LEMMA InvariantStep == IInv /\ [Next]_vars => IInv'
BY TypeStep, OneDriverStep, StoredFitStep, HeldFitStep, SharedFitStep, PassedFitStep,
   LiveFitsStep, NoDataYetStep DEF IInv, FramesFit

\* and so holds always.
LEMMA Invariance == Spec => []IInv
BY InvariantInit, InvariantStep, PTL DEF Spec

\* Every variable keeps its type, whatever the branches do.
THEOREM ParallelTypes == Spec => []TypeOK
<1>1. IInv => TypeOK
  BY DEF IInv
<1> QED
  BY <1>1, Invariance, PTL

\* However often an answer is sent and whatever crashes, the claim of
\* resumeRun lets a checkpoint be acted on once (runner-resume.ts:164-173).
THEOREM OneResumeActs == Spec => []ActsOnce
<1>1. IInv => ActsOnce
  BY DEF IInv, OneDriver
<1> QED
  BY <1>1, Invariance, PTL

\* A step that threw or was dropped is never continued: the frames it left
\* behind have no sibling data (pipeline.ts:594-608).
THEOREM PartialStateStops == Spec => []NeverFromPartialState
<1>1. IInv => NeverFromPartialState
  BY DEF IInv, NoDataYet, NeverFromPartialState
<1> QED
  BY <1>1, Invariance, PTL

\* The label handed to the remaining steps fits every slot handed with it,
\* for any number of branches and labels (pipeline.ts:348-382).
THEOREM LabelFitsSlots == Spec => []LabelIsOfSlots
<1>1. IInv => LabelIsOfSlots
  BY DEF IInv, FramesFit, PassedFit, Fits, LabelIsOfSlots
<1> QED
  BY <1>1, Invariance, PTL

----------------------------------------------------------------------------
(* JoinsOnce: what a run of the step keeps true as long as nothing has       *)
(* disturbed it, next to the invariant above.                               *)

\* x is listed in the sequence s.
Listed(x, s) == \E i \in DOMAIN s : s[i] = x

\* A branch has a label once it has ended; a label in a frame is somebody's.
Undecided == \A b \in Branches : decided[b] # Incoming => status[b] = "ended"
Somebodys(l) == l # Incoming => \E b \in Branches : decided[b] = l
LabelsDecided ==
  /\ Somebodys(got.label)
  /\ \A id \in Asks : Somebodys(frame[id].label)
  /\ \A p \in Clients : Somebodys(call[p].frame.label)

\* One question is being answered at a time.
OneAnswer ==
  /\ \A p \in Clients : call[p].pc = "idle" => call[p].id = NoAsk
  /\ \A p, q \in Clients :
       call[p].pc # "idle" /\ call[q].pc # "idle" => call[p].id = call[q].id

Always == Undecided /\ LabelsDecided /\ OneAnswer

\* While nothing has gone wrong, the live step has every branch that ended
\* among its outputs and lists every branch that asked.
Live ==
  /\ ~got.failed /\ step \in {"running", "filling", "suspended", "done"}
  /\ step = "running" => passed = <<>>
  /\ step \in {"running", "filling"} =>
       /\ \A b \in Branches : status[b] = "ended" => b \in got.outputs
       /\ \A p \in Clients : call[p].pc = "idle"
  /\ step # "running" => \A b \in Branches : status[b] # "running"
  /\ step \in {"filling", "suspended"} => got.suspended # <<>>
  /\ step = "done" => \A b \in Branches : status[b] = "ended"
\* A branch that has not ended runs, waits for an answer or is being resumed.
Accounted ==
  /\ \A b \in Branches :
       /\ status[b] \in {"running", "suspended", "resumed", "ended"}
       /\ asked[b] > 0 => asked[b] = 1
       /\ status[b] = "running" => asked[b] = 0
       /\ status[b] = "suspended" => asked[b] = 1 /\ <<b, 1>> \in rows
       /\ status[b] = "resumed" => asked[b] = 1 /\ \E p \in Clients : Drives(p, b)
  /\ \A id \in rows : Listed(id, got.suspended)
  /\ \A i \in DOMAIN got.suspended : got.suspended[i] \in Asks
\* A checkpoint that has its sibling data lists everybody and has the slot of
\* every branch that has ended, or of all but the one that is writing it.
Shares(p, id, b) ==
  call[p].pc = "sharing" /\ call[p].id[1] = b /\ Listed(id, call[p].toshare)
Filled ==
  \A id \in rows :
    /\ step = "suspended" \/ (step = "filling" /\ ~Listed(id, tofill)) =>
         frame[id].pending = got.suspended
    /\ step = "filling" /\ ~Listed(id, tofill) => frame[id].settled = got.outputs
    /\ step = "suspended" => \A b \in Branches : status[b] = "ended" =>
         b \in frame[id].settled \/ \E p \in Clients : Shares(p, id, b)
\* What a resume has read is still so.
Held ==
  \A p \in Clients :
    \/ call[p].pc = "claiming" /\ call[p].id \in rows
    \/ call[p].pc = "driving"
    => /\ call[p].frame.pending = got.suspended
       /\ \A b \in Branches : status[b] = "ended" => b \in call[p].frame.settled
\* What is handed on is handed on at the end.
PassedOn ==
  /\ passed # <<>> => \A b \in Branches : status[b] = "ended"
  /\ Len(passed) <= 1 /\ \A i \in DOMAIN passed : passed[i].slots = Branches

Undisturbed == Live /\ Accounted /\ Filled /\ Held /\ PassedOn
JInv == Always /\ (~Disturbed => Undisturbed)

----------------------------------------------------------------------------
(* What holds whatever happens.                                            *)

\* Whatever happens to it, a sequence lists what it listed, and what is added.
LEMMA AppendListed ==
  ASSUME NEW S, NEW s \in Seq(S), NEW e \in S, NEW x
  PROVE  Listed(x, Append(s, e)) <=> Listed(x, s) \/ x = e
PROOF
<1>1. DOMAIN Append(s, e) = 1..(Len(s) + 1) /\ DOMAIN s = 1..Len(s)
  OBVIOUS
<1>2. Append(s, e)[Len(s) + 1] = e /\ \A i \in 1..Len(s) : Append(s, e)[i] = s[i]
  OBVIOUS
<1>3. Len(s) + 1 \in 1..(Len(s) + 1)
  OBVIOUS
<1>4. \A i \in 1..(Len(s) + 1) : i \in 1..Len(s) \/ i = Len(s) + 1
  OBVIOUS
<1>5. \A i \in 1..Len(s) : i \in 1..(Len(s) + 1)
  OBVIOUS
<1> QED BY <1>1, <1>2, <1>3, <1>4, <1>5 DEF Listed

LEMMA TailListed ==
  ASSUME NEW S, NEW s \in Seq(S), s # <<>>, NEW x
  PROVE  Listed(x, s) <=> x = Head(s) \/ Listed(x, Tail(s))
PROOF
<1>1. Len(s) \in Nat /\ Len(s) > 0 /\ DOMAIN s = 1..Len(s)
  OBVIOUS
<1>2. Tail(s) \in Seq(S) /\ Len(Tail(s)) = Len(s) - 1
  OBVIOUS
<1>3. DOMAIN Tail(s) = 1..(Len(s) - 1)
  BY <1>1, <1>2
<1>4. \A i \in 1..(Len(s) - 1) : Tail(s)[i] = s[i + 1]
  OBVIOUS
<1>5. Head(s) = s[1]
  OBVIOUS
<1>6. ASSUME Listed(x, s) PROVE x = Head(s) \/ Listed(x, Tail(s))
  <2>1. PICK i \in 1..Len(s) : s[i] = x
    BY <1>1, <1>6 DEF Listed
  <2>2. CASE i = 1
    BY <2>1, <2>2, <1>5
  <2>3. CASE i # 1
    <3>1. i - 1 \in 1..(Len(s) - 1) /\ (i - 1) + 1 = i
      BY <1>1, <2>3
    <3>2. Tail(s)[i - 1] = x
      BY <3>1, <2>1, <1>4
    <3> QED BY <3>1, <3>2, <1>3 DEF Listed
  <2> QED BY <2>2, <2>3
<1>7. ASSUME Listed(x, Tail(s)) PROVE Listed(x, s)
  <2>1. PICK i \in 1..(Len(s) - 1) : Tail(s)[i] = x
    BY <1>3, <1>7 DEF Listed
  <2>2. i + 1 \in 1..Len(s) /\ s[i + 1] = x
    BY <2>1, <1>1, <1>4
  <2> QED BY <2>2, <1>1 DEF Listed
<1>8. Listed(Head(s), s)
  BY <1>1, <1>5 DEF Listed
<1> QED BY <1>6, <1>7, <1>8

\* A branch decides when it ends.
LEMMA DecidesAtEnd ==
  ASSUME IInv, [Next]_vars
  PROVE  \A c \in Branches : decided'[c] = decided[c] \/ status'[c] = "ended"
PROOF
<1>1. ASSUME NEW b \in Branches, NEW l, End(b, l)
      PROVE  \A c \in Branches : decided'[c] = decided[c] \/ status'[c] = "ended"
  BY <1>1 DEF End, IInv, TypeOK, BranchTypes
<1>2. ASSUME NEW p \in Clients, NEW b \in Branches, NEW l, Ends(p, b, l)
      PROVE  \A c \in Branches : decided'[c] = decided[c] \/ status'[c] = "ended"
  BY <1>2 DEF Ends, IInv, TypeOK, BranchTypes
<1>3. CASE UNCHANGED decided
  BY <1>3
<1>4. \/ UNCHANGED decided
      \/ \E b \in Branches, l \in Slot : End(b, l)
      \/ \E p \in Clients, b \in Branches, l \in Slot : Ends(p, b, l)
  <2>1. ASSUME NEW b \in Branches, BranchStep(b)
        PROVE  UNCHANGED decided \/ \E l \in Slot : End(b, l)
    BY <2>1 DEF BranchStep, Suspend, Fail, CanDecide, Slot
  <2>2. ASSUME NEW p \in Clients, NEW b \in Branches, RunStep(p, b)
        PROVE  UNCHANGED decided \/ \E l \in Slot : Ends(p, b, l)
    BY <2>2 DEF RunStep, SuspendAgain, FailAgain, EndStep, EndConflicting,
       EndWithoutState, EndEarly, EndLast, CanDecide, Slot
  <2>3. ASSUME NEW p \in Clients, Claim(p) \/ LoseClaim(p) \/ Share(p) \/ Shared(p)
        PROVE  UNCHANGED decided
    BY <2>3 DEF Claim, LoseClaim, Share, Shared
  <2>4. StepStep \/ Drop \/ Crash \/ (\E p \in Clients, id \in Asks : Resume(p, id))
          => UNCHANGED decided
    BY DEF StepStep, Throw, Return, StartFilling, Fill, Surface, Drop, Crash, Resume
  <2>5. CASE UNCHANGED vars
    BY <2>5 DEF vars
  <2> QED BY <2>1, <2>2, <2>3, <2>4, <2>5 DEF Next, ClientStep
<1> QED BY <1>1, <1>2, <1>3, <1>4

LEMMA UndecidedStep ==
  ASSUME IInv, Always, [Next]_vars PROVE Undecided'
PROOF
  BY EndedStays, DecidesAtEnd DEF IInv, Always, Undecided, Stays

\* A label that somebody settled on remains so.
LEMMA LabelStays ==
  ASSUME IInv, Always, [Next]_vars, NEW l, Somebodys(l)
  PROVE  l # Incoming => \E b \in Branches : decided'[b] = l
PROOF
  BY EndedStays DEF IInv, Always, Undecided, Stays, Somebodys

\* What goes wrong remains wrong.
LEMMA DisturbedStays ==
  ASSUME IInv, Always, [Next]_vars, Disturbed PROVE Disturbed'
PROOF
<1>1. CASE Disagree
  <2>1. PICK b \in Branches, c \in Branches :
          decided[b] # Incoming /\ Conflicts(decided[b], decided[c])
    BY <1>1 DEF Disagree
  <2>2. decided[c] # Incoming
    BY <2>1 DEF Conflicts
  <2>3. decided'[b] = decided[b] /\ decided'[c] = decided[c]
    BY <2>1, <2>2, EndedStays DEF IInv, Always, Undecided, Stays
  <2> QED BY <2>1, <2>3 DEF Disturbed, Disagree, Conflicts
<1>2. crashes' = crashes \/ crashes' = crashes + 1
  <2>1. ASSUME NEW b \in Branches, BranchStep(b) PROVE crashes' = crashes
    BY <2>1 DEF BranchStep, Suspend, Fail, End, countVars
  <2>2. ASSUME NEW p \in Clients, NEW b \in Branches, RunStep(p, b) PROVE crashes' = crashes
    BY <2>2 DEF RunStep, SuspendAgain, FailAgain, EndStep, EndConflicting,
       EndWithoutState, EndEarly, EndLast, Ends, countVars
  <2>3. ASSUME NEW p \in Clients, Claim(p) \/ LoseClaim(p) \/ Share(p) \/ Shared(p)
        PROVE  crashes' = crashes
    BY <2>3 DEF Claim, LoseClaim, Share, Shared, countVars
  <2>4. StepStep \/ Drop \/ Crash \/ (\E p \in Clients, id \in Asks : Resume(p, id))
          => crashes' = crashes \/ crashes' = crashes + 1
    BY DEF StepStep, Throw, Return, StartFilling, Fill, Surface, Drop, Crash, Resume, countVars
  <2>5. CASE UNCHANGED vars
    BY <2>5 DEF vars, countVars
  <2> QED BY <2>1, <2>2, <2>3, <2>4, <2>5 DEF Next, ClientStep
<1>3. ASSUME NEW b \in Branches, status[b] \in {"failed", "lost"} \/ asked[b] > 1
      PROVE  status'[b] \in {"failed", "lost"} \/ asked'[b] > 1
  <2>1. ASSUME NEW c \in Branches, NEW f, StoreAsk(c, f), status[c] \in {"running", "resumed"}
        PROVE  status'[b] \in {"failed", "lost"} \/ asked'[b] > 1
    BY <1>3, <2>1, BoundAssumption DEF StoreAsk, IInv, TypeOK, BranchTypes
  <2>2. ASSUME NEW p \in Clients, Claim(p)
        PROVE  status'[b] \in {"failed", "lost"} \/ asked'[b] > 1
    <3>1. call[p].id \in rows /\ (call[p].id[1] # b \/ asked[b] > 1)
      BY <1>3, <2>2 DEF Claim, WinsClaim, IInv, OneDriver
    <3> QED BY <1>3, <2>2, <3>1 DEF Claim, IInv, TypeOK, BranchTypes
  <2>3. ASSUME asked' = asked, \A c \in Branches : status'[c] # status[c] => status[c] \notin {"failed", "lost"}
        PROVE  status'[b] \in {"failed", "lost"} \/ asked'[b] > 1
    BY <1>3, <2>3
  <2>4. ASSUME NEW c \in Branches, BranchStep(c)
        PROVE  status'[b] \in {"failed", "lost"} \/ asked'[b] > 1
    BY <2>1, <2>3, <2>4 DEF BranchStep, Suspend, Fail, End, IInv, TypeOK, BranchTypes
  <2>5. ASSUME NEW p \in Clients, NEW c \in Branches, RunStep(p, c)
        PROVE  status'[b] \in {"failed", "lost"} \/ asked'[b] > 1
    <3>1. status[c] = "resumed"
      BY <2>5 DEF RunStep, SuspendAgain, FailAgain, EndStep, EndConflicting,
         EndWithoutState, EndEarly, EndLast, Ends, Drives, IInv, OneDriver
    <3>2. CASE SuspendAgain(p, c)
      BY <2>1, <3>1, <3>2 DEF SuspendAgain
    <3>3. CASE ~SuspendAgain(p, c)
      BY <2>3, <2>5, <3>1, <3>3 DEF RunStep, FailAgain, EndStep, EndConflicting,
         EndWithoutState, EndEarly, EndLast, Ends, IInv, TypeOK, BranchTypes
    <3> QED BY <3>2, <3>3
  <2>6. ASSUME NEW p \in Clients, LoseClaim(p) \/ Share(p) \/ Shared(p)
        PROVE  status'[b] \in {"failed", "lost"} \/ asked'[b] > 1
    BY <1>3, <2>6 DEF LoseClaim, Share, Shared
  <2>7. CASE StepStep \/ Drop \/ Crash \/ (\E p \in Clients, id \in Asks : Resume(p, id))
    BY <1>3, <2>7 DEF StepStep, Throw, Return, StartFilling, Fill, Surface, Drop, Crash,
       Resume
  <2>8. CASE UNCHANGED vars
    BY <1>3, <2>8 DEF vars
  <2> QED BY <2>2, <2>4, <2>5, <2>6, <2>7, <2>8 DEF Next, ClientStep
<1>4. crashes \in Nat
  BY BoundAssumption DEF IInv, TypeOK, CountTypes
<1> QED BY <1>1, <1>2, <1>3, <1>4 DEF Disturbed

LEMMA OneAnswerStep ==
  ASSUME IInv, Always, [Next]_vars PROVE OneAnswer'
PROOF
<1>1. ASSUME NEW p \in Clients, call' = [call EXCEPT ![p] = Idle] PROVE OneAnswer'
  BY <1>1 DEF Always, OneAnswer, Idle, IInv, TypeOK
<1>2. ASSUME call' = call PROVE OneAnswer'
  BY <1>2 DEF Always, OneAnswer
<1>3. ASSUME NEW p \in Clients, call[p].pc # "idle", call'[p].pc # "idle",
             call'[p].id = call[p].id, \A q \in Clients \ {p} : call'[q] = call[q]
      PROVE  OneAnswer'
  BY <1>3 DEF Always, OneAnswer
<1>4. ASSUME NEW p \in Clients, NEW id \in Asks, Resume(p, id) PROVE OneAnswer'
  <2>1. /\ call'[p].pc = "claiming" /\ call'[p].id = id
        /\ \A q \in Clients \ {p} : call'[q] = call[q]
        /\ \A q \in Clients : call[q].id \in {id, NoAsk}
    BY <1>4 DEF Resume, Idle, IInv, TypeOK
  <2>2. \A q \in Clients : call[q].pc # "idle" => call[q].id = id
    BY <2>1, NullAssumption DEF IInv, OneDriver
  <2> QED BY <2>1, <2>2 DEF Always, OneAnswer
<1>5. ASSUME NEW b \in Branches, BranchStep(b) PROVE OneAnswer'
  BY <1>2, <1>5 DEF BranchStep, Suspend, Fail, End
<1>6. CASE StepStep \/ Drop
  BY <1>2, <1>6 DEF StepStep, Throw, Return, StartFilling, Fill, Surface, Drop
<1>7. ASSUME NEW p \in Clients, NEW b \in Branches, RunStep(p, b) PROVE OneAnswer'
  <2>1. CASE \E l \in CanDecide(b) : EndEarly(p, b, l)
    BY <1>3, <2>1 DEF EndEarly, Ends, Drives, IInv, TypeOK
  <2>2. CASE ~\E l \in CanDecide(b) : EndEarly(p, b, l)
    BY <1>1, <1>7, <2>2 DEF RunStep, SuspendAgain, FailAgain, EndStep, EndConflicting,
       EndWithoutState, EndLast, Leave
  <2> QED BY <2>1, <2>2
<1>8. ASSUME NEW p \in Clients, Claim(p) \/ Share(p) PROVE OneAnswer'
  BY <1>3, <1>8 DEF Claim, Share, IInv, TypeOK, Call
<1>9. ASSUME NEW p \in Clients, LoseClaim(p) \/ Shared(p) PROVE OneAnswer'
  BY <1>1, <1>9 DEF LoseClaim, Shared, Leave
<1>10. CASE Crash
  BY <1>10 DEF Crash, OneAnswer, Idle
<1>11. CASE UNCHANGED vars
  BY <1>2, <1>11 DEF vars
<1> QED BY <1>4, <1>5, <1>6, <1>7, <1>8, <1>9, <1>10, <1>11 DEF Next, ClientStep

\* A slot's label is adopted from the slot or was there before.
LEMMA JoinedLabel ==
  ASSUME NEW current, NEW slot
  PROVE  JoinSlotLabel(current, slot) \in {current, slot}
PROOF
  BY DEF JoinSlotLabel

LEMMA LabelsDecidedStep ==
  ASSUME IInv, Always, [Next]_vars PROVE LabelsDecided'
PROOF
<1> DEFINE After(l) == l # Incoming => \E b \in Branches : decided'[b] = l
<1>a. \A l : Somebodys(l) => After(l)
  BY LabelStays
<1>b. After(Incoming) /\ NewFrame.label = Incoming /\ Idle.frame = NewFrame
  BY DEF NewFrame, Idle
<1>c. /\ After(got.label) /\ \A id \in Asks : After(frame[id].label)
      /\ \A p \in Clients : After(call[p].frame.label)
  BY <1>a DEF Always, LabelsDecided
<1> SUFFICES /\ After(got'.label) /\ \A id \in Asks : After(frame'[id].label)
             /\ \A p \in Clients : After(call'[p].frame.label)
  BY DEF LabelsDecided, Somebodys
<1> HIDE DEF After
<1>1. ASSUME NEW b \in Branches, NEW f, StoreAsk(b, f), After(f.label)
      PROVE  \A id \in Asks : After(frame'[id].label)
  BY <1>1, <1>c DEF StoreAsk, IInv, TypeOK, StoreTypes
<1>2. ASSUME NEW p \in Clients, call' = [call EXCEPT ![p] = Idle]
      PROVE  \A q \in Clients : After(call'[q].frame.label)
  BY <1>2, <1>b, <1>c DEF IInv, TypeOK
<1>3. ASSUME NEW b \in Branches, Suspend(b) PROVE After(got'.label)
  BY <1>3, <1>c DEF Suspend, IInv, TypeOK, StepTypes
<1>4. ASSUME NEW b \in Branches, BranchStep(b)
      PROVE  After(got'.label) /\ (\A id \in Asks : After(frame'[id].label)) /\ call' = call
  <2>1. CASE Suspend(b)
    BY <2>1, <1>1, <1>3, <1>b DEF Suspend
  <2>2. CASE Fail(b)
    BY <2>2, <1>c DEF Fail, IInv, TypeOK, StepTypes
  <2>3. ASSUME NEW l \in CanDecide(b), End(b, l)
        PROVE  After(got'.label) /\ frame' = frame /\ call' = call
    <3>1. frame' = frame /\ call' = call /\ decided'[b] = l
      BY <2>3 DEF End, IInv, TypeOK, BranchTypes
    <3>2. After(l)
      BY <3>1 DEF After
    <3>3. got'.label \in {got.label, l}
      BY <2>3, JoinedLabel DEF End, Adopt, IInv, TypeOK, StepTypes
    <3> QED BY <3>1, <3>2, <3>3, <1>c
  <2> QED BY <1>4, <1>c, <2>1, <2>2, <2>3 DEF BranchStep
<1>5. CASE StepStep \/ Drop
  <2>1. got' = got /\ call' = call
    BY <1>5 DEF StepStep, Throw, Return, StartFilling, Fill, Surface, Drop
  <2>2. frame' = frame \/ \E id \in Asks : frame' = [frame EXCEPT ![id] = SiblingData]
    <3>1. tofill # <<>> => Head(tofill) \in Asks
      BY DEF IInv, TypeOK, StepTypes
    <3> QED BY <1>5, <3>1 DEF StepStep, Throw, Return, StartFilling, Fill, Surface, Drop
  <2>3. SiblingData.label = got.label
    BY DEF SiblingData
  <2> QED BY <2>1, <2>2, <2>3, <1>c DEF IInv, TypeOK, StoreTypes
<1>6. ASSUME NEW p \in Clients, NEW b \in Branches, RunStep(p, b)
      PROVE  /\ got' = got /\ \A id \in Asks : After(frame'[id].label)
             /\ \A q \in Clients : After(call'[q].frame.label)
  <2>1. CASE SuspendAgain(p, b)
    BY <2>1, <1>1, <1>2, <1>c DEF SuspendAgain, Leave, stepVars
  <2>2. CASE FailAgain(p, b)
    BY <2>2, <1>2, <1>c DEF FailAgain, Leave, stepVars
  <2>3. ASSUME NEW l \in CanDecide(b), EndStep(p, b, l), ~EndEarly(p, b, l)
        PROVE  /\ got' = got /\ frame' = frame
               /\ \A q \in Clients : After(call'[q].frame.label)
    BY <2>3, <1>2 DEF EndStep, EndConflicting, EndWithoutState, EndLast, Ends, Leave, stepVars
  <2>4. ASSUME NEW l \in CanDecide(b), EndEarly(p, b, l)
        PROVE  /\ got' = got /\ frame' = frame
               /\ \A q \in Clients : After(call'[q].frame.label)
    <3>1. After(l)
      BY <2>4 DEF EndEarly, Ends, After, IInv, TypeOK, BranchTypes
    <3>2. call[p].frame \in Frame
      BY DEF IInv, TypeOK, Call
    <3>3. WithSlot(call[p].frame, b, l).label \in {call[p].frame.label, l}
      BY <3>2, JoinedLabel DEF WithSlot, Frame
    <3>4. call'[p].frame.label \in {call[p].frame.label, l}
      BY <2>4, <3>3 DEF EndEarly, IInv, TypeOK, Call
    <3> QED BY <2>4, <3>1, <3>4, <1>c DEF EndEarly, Ends, stepVars, IInv, TypeOK
  <2> QED BY <1>6, <1>c, <2>1, <2>2, <2>3, <2>4 DEF RunStep
<1>7. ASSUME NEW p \in Clients, Claim(p) \/ LoseClaim(p) \/ Shared(p)
      PROVE  /\ got' = got /\ frame' = frame
             /\ \A q \in Clients : After(call'[q].frame.label)
  <2>1. got' = got /\ frame' = frame
    BY <1>7 DEF Claim, LoseClaim, Shared, stepVars
  <2>2. CASE Claim(p)
    BY <2>1, <2>2, <1>c DEF Claim, IInv, TypeOK, Call
  <2>3. CASE LoseClaim(p) \/ Shared(p)
    BY <2>1, <2>3, <1>2 DEF LoseClaim, Shared, Leave
  <2> QED BY <1>7, <2>1, <2>2, <2>3
<1>8. ASSUME NEW p \in Clients, Share(p)
      PROVE  /\ got' = got /\ \A id \in Asks : After(frame'[id].label)
             /\ \A q \in Clients : After(call'[q].frame.label)
  <2> DEFINE id == Head(call[p].toshare)
  <2>1. got' = got /\ \A q \in Clients : call'[q].frame = call[q].frame
    BY <1>8 DEF Share, stepVars, IInv, TypeOK, Call
  <2>2. frame' = frame \/ /\ id \in Asks
                          /\ frame' = [frame EXCEPT ![id] =
                               WithSlot(frame[id], call[p].id[1], call[p].frame.label)]
    BY <1>8 DEF Share, IInv, TypeOK, StoreTypes
  <2>3. ASSUME id \in Asks
        PROVE  WithSlot(frame[id], call[p].id[1], call[p].frame.label).label
                 \in {frame[id].label, call[p].frame.label}
    <3>1. frame[id] \in Frame
      BY <2>3 DEF IInv, TypeOK, StoreTypes
    <3> QED BY <3>1, JoinedLabel DEF WithSlot, Frame
  <2> QED BY <2>1, <2>2, <2>3, <1>c DEF IInv, TypeOK, StoreTypes
<1>9. ASSUME NEW p \in Clients, NEW id \in Asks, Resume(p, id)
      PROVE  /\ got' = got /\ frame' = frame
             /\ \A q \in Clients : After(call'[q].frame.label)
  <2>1. got' = got /\ frame' = frame
    BY <1>9 DEF Resume, stepVars
  <2>2. \A q \in Clients : call'[q].frame = IF q = p THEN frame[id] ELSE call[q].frame
    BY <1>9 DEF Resume, IInv, TypeOK, Call
  <2> QED BY <2>1, <2>2, <1>c
<1>10. CASE Crash
  BY <1>10, <1>b, <1>c DEF Crash
<1>11. CASE UNCHANGED vars
  BY <1>11, <1>c DEF vars, stepVars
<1> QED BY <1>c, <1>4, <1>5, <1>6, <1>7, <1>8, <1>9, <1>10, <1>11 DEF Next, ClientStep

LEMMA AlwaysStep == ASSUME IInv, Always, [Next]_vars PROVE Always'
PROOF
  BY UndecidedStep, OneAnswerStep, LabelsDecidedStep DEF Always

----------------------------------------------------------------------------
(* What the steps make of a run of the parallel step in which nothing goes  *)
(* wrong.                                                                  *)

Calm == IInv /\ Always /\ Undisturbed

\* The live step is over before anybody resumes a branch of it.
LEMMA LiveOrResumed ==
  ASSUME Calm
  PROVE  /\ \A p \in Clients : call[p].pc # "idle" =>
              step \in {"suspended", "done"} /\ call[p].id \in Asks
         /\ \A p \in Clients : call[p].pc = "driving" =>
              /\ status[call[p].id[1]] = "resumed" /\ call[p].id \notin rows
              /\ step = "suspended" /\ passed = <<>> /\ call[p].id[1] \in Branches
         /\ \A p \in Clients : call[p].pc = "sharing" =>
              /\ status[call[p].id[1]] = "ended" /\ call[p].id \notin rows
         /\ \A b \in Branches : status[b] = "running" => step = "running" /\ asked[b] = 0
         /\ \A b \in Branches : status[b] = "ended" => \A id \in rows : id[1] # b
         /\ \A b \in Branches : status[b] = "suspended" =>
              passed = <<>> /\ step # "done" /\ asked[b] = 1 /\ <<b, 1>> \in rows
         /\ \A id \in rows : id \in Asks /\ id[1] \in Branches /\ id[2] = 1
              /\ status[id[1]] = "suspended" /\ Listed(id, got.suspended)
         /\ got.suspended \in Seq(Asks)
PROOF
<1> USE DEF Calm
<1>1. ASSUME NEW p \in Clients, call[p].pc # "idle"
      PROVE  step \in {"suspended", "done"} /\ call[p].id \in Asks
  BY <1>1 DEF Undisturbed, Live, IInv, OneDriver
<1>2. ASSUME NEW p \in Clients, call[p].pc = "driving"
      PROVE  /\ status[call[p].id[1]] = "resumed" /\ call[p].id \notin rows
             /\ step = "suspended" /\ passed = <<>> /\ call[p].id[1] \in Branches
  <2>1. status[call[p].id[1]] = "resumed" /\ call[p].id[1] \in Branches /\ call[p].id \notin rows
    BY <1>1, <1>2 DEF IInv, OneDriver, Asks
  <2> QED BY <2>1, <1>1, <1>2 DEF Undisturbed, Live, PassedOn
<1>3. ASSUME NEW p \in Clients, call[p].pc = "sharing"
      PROVE  status[call[p].id[1]] = "ended" /\ call[p].id \notin rows
  BY <1>3 DEF IInv, FramesFit, SharedFit, HeldFit, Fits, OneDriver
<1>4. \A b \in Branches : status[b] = "running" => step = "running" /\ asked[b] = 0
  BY DEF Undisturbed, Live, Accounted
<1>5. \A b \in Branches : status[b] = "ended" => \A id \in rows : id[1] # b
  BY DEF IInv, OneDriver
<1>6. \A b \in Branches : status[b] = "suspended" =>
        passed = <<>> /\ step # "done" /\ asked[b] = 1 /\ <<b, 1>> \in rows
  BY DEF Undisturbed, Accounted, PassedOn, Live
<1>7. ASSUME NEW id \in rows
      PROVE  id \in Asks /\ id[1] \in Branches /\ id[2] = 1 /\ status[id[1]] = "suspended"
               /\ Listed(id, got.suspended)
  <2>1. id \in Asks /\ id[1] \in Branches /\ id[2] = asked[id[1]] /\ status[id[1]] = "suspended"
    BY DEF IInv, TypeOK, StoreTypes, OneDriver, Asks
  <2> QED BY <2>1, <1>6 DEF Undisturbed, Accounted
<1> QED BY <1>1, <1>2, <1>3, <1>4, <1>5, <1>6, <1>7 DEF IInv, TypeOK, StepTypes

\* The branches run, side by side.
LEMMA CalmSuspend ==
  ASSUME Calm, NEW b \in Branches, Suspend(b) PROVE Undisturbed'
PROOF
<1> DEFINE ask == <<b, 1>>
<1>1. /\ status[b] = "running" /\ step = "running" /\ asked[b] = 0 /\ ask \in Asks
      /\ rows' = rows \cup {ask} /\ status' = [status EXCEPT ![b] = "suspended"]
      /\ asked' = [asked EXCEPT ![b] = 1]
      /\ got' = [got EXCEPT !.suspended = Append(got.suspended, ask)]
      /\ UNCHANGED <<step, tofill, call, passed>>
  <2>1. status[b] = "running" /\ step = "running" /\ asked[b] = 0
    BY LiveOrResumed DEF Suspend
  <2>2. asked'[b] = 1 /\ ask \in Asks
    BY <2>1, BoundAssumption DEF Suspend, StoreAsk, Asks, Calm, IInv, TypeOK, BranchTypes
  <2>3. asked[b] + 1 = 1
    BY <2>1
  <2>4. /\ rows' = rows \cup {<<b, asked[b] + 1>>}
        /\ status' = [status EXCEPT ![b] = "suspended"]
        /\ asked' = [asked EXCEPT ![b] = asked[b] + 1]
        /\ got' = [got EXCEPT !.suspended = Append(got.suspended, <<b, asked'[b]>>)]
        /\ UNCHANGED <<step, tofill, call, passed>>
    BY DEF Suspend, StoreAsk
  <2> QED BY <2>1, <2>2, <2>3, <2>4
<1>2. /\ \A c \in Branches : status'[c] = IF c = b THEN "suspended" ELSE status[c]
      /\ \A c \in Branches : asked'[c] = IF c = b THEN 1 ELSE asked[c]
      /\ got'.failed = got.failed /\ got'.outputs = got.outputs
      /\ got'.suspended = Append(got.suspended, ask) /\ got.suspended \in Seq(Asks)
  BY <1>1 DEF Calm, IInv, TypeOK, BranchTypes, StepTypes
<1>3. Live'
  BY <1>1, <1>2 DEF Calm, Undisturbed, Live
<1>4. Accounted'
  <2>1. \A id : Listed(id, got'.suspended) <=> Listed(id, got.suspended) \/ id = ask
    BY <1>1, <1>2, AppendListed
  <2>2. \A id \in rows' : Listed(id, got'.suspended)
    BY <1>1, <2>1 DEF Calm, Undisturbed, Accounted
  <2>3. \A i \in DOMAIN got'.suspended : got'.suspended[i] \in Asks
    BY <1>1, <1>2
  <2>4. ASSUME NEW c \in Branches
        PROVE  /\ status'[c] \in {"running", "suspended", "resumed", "ended"}
               /\ asked'[c] > 0 => asked'[c] = 1
               /\ status'[c] = "running" => asked'[c] = 0
               /\ status'[c] = "suspended" => asked'[c] = 1 /\ <<c, 1>> \in rows'
               /\ status'[c] = "resumed" => asked'[c] = 1 /\ \E p \in Clients : (Drives(p, c))'
    <3>1. CASE c = b
      <4>1. <<c, 1>> \in rows'
        BY <1>1, <3>1
      <4> QED BY <1>2, <3>1, <4>1
    <3>2. CASE c # b
      <4>1. status'[c] = status[c] /\ asked'[c] = asked[c] /\ rows \subseteq rows'
            /\ call' = call
        BY <1>1, <1>2, <3>2
      <4> QED BY <4>1 DEF Calm, Undisturbed, Accounted, Drives
    <3> QED BY <3>1, <3>2
  <2> QED BY <2>2, <2>3, <2>4 DEF Accounted
<1>5. Filled'
  BY <1>1 DEF Filled
<1>6. Held'
  BY <1>1 DEF Calm, Undisturbed, Live, Held
<1>7. PassedOn'
  BY <1>1 DEF Calm, Undisturbed, Live, PassedOn
<1> QED BY <1>3, <1>4, <1>5, <1>6, <1>7 DEF Undisturbed

LEMMA CalmEnd ==
  ASSUME Calm, NEW b \in Branches, NEW l \in CanDecide(b), End(b, l), ~Disturbed'
  PROVE  Undisturbed'
PROOF
<1>1. /\ status[b] = "running" /\ step = "running"
      /\ \A c \in Branches : status'[c] = IF c = b THEN "ended" ELSE status[c]
      /\ decided'[b] = l
      /\ UNCHANGED <<rows, frame, step, tofill, asked, call, passed>>
  BY LiveOrResumed DEF End, Calm, IInv, TypeOK, BranchTypes
<1>2. got'.outputs = got.outputs \cup {b} /\ got'.suspended = got.suspended
  BY DEF End, Adopt, Calm, IInv, TypeOK, StepTypes
<1>3. ~Conflicts(got.label, l)
  <2> SUFFICES ASSUME Conflicts(got.label, l) PROVE FALSE
    OBVIOUS
  <2>1. got.label # Incoming
    BY DEF Conflicts
  <2>2. PICK c \in Branches : decided[c] = got.label
    BY <2>1 DEF Calm, Always, LabelsDecided, Somebodys
  <2>3. c # b
    BY <1>1, <2>1, <2>2 DEF Calm, Always, Undecided
  <2>4. decided'[c] = got.label
    BY <2>2, <2>3 DEF End, Calm, IInv, TypeOK, BranchTypes
  <2> QED BY <1>1, <2>1, <2>4 DEF Disturbed, Disagree
<1>4. got'.failed = got.failed
  <2>1. ~got.conflict
    BY DEF Calm, IInv, LiveFits, Undisturbed, Live
  <2> QED BY <1>3, <2>1 DEF End, Adopt, Calm, IInv, TypeOK, StepTypes
<1>5. Live'
  BY <1>1, <1>2, <1>4 DEF Calm, Undisturbed, Live
<1>6. Accounted'
  BY <1>1, <1>2 DEF Calm, Undisturbed, Accounted, Drives
<1>7. Filled' /\ Held' /\ PassedOn'
  BY <1>1 DEF Calm, Undisturbed, Live, Filled, Held, PassedOn
<1> QED BY <1>5, <1>6, <1>7 DEF Undisturbed

\* The live step closes: it returns, or writes the sibling data and surfaces.
LEMMA CalmReturn ==
  ASSUME Calm, Return PROVE Undisturbed'
PROOF
<1>1. /\ step = "running" /\ step' = "done" /\ passed = <<>>
      /\ \A b \in Branches : status[b] # "running"
      /\ got.suspended = <<>>
      /\ passed' = Append(passed, [slots |-> got.outputs, label |-> got.label])
      /\ UNCHANGED <<rows, frame, got, tofill, status, asked, call>>
  BY DEF Return, Settled, Calm, Undisturbed, Live
<1>2. rows = {}
  BY <1>1, LiveOrResumed DEF Listed
<1>3. \A p \in Clients : call[p].pc = "idle"
  BY <1>1 DEF Calm, Undisturbed, Live
<1>4. \A b \in Branches : status[b] = "ended"
  BY <1>1, <1>2, <1>3 DEF Calm, Undisturbed, Accounted, Drives
<1>5. got.outputs = Branches
  <2>1. got.outputs \subseteq Branches
    BY DEF Calm, IInv, TypeOK, StepTypes
  <2> QED BY <1>1, <1>4, <2>1 DEF Calm, Undisturbed, Live
<1>6. Len(passed') = 1 /\ DOMAIN passed' = 1..1
      /\ passed'[1] = [slots |-> got.outputs, label |-> got.label]
  BY <1>1
<1>7. \A i \in 1..1 : i = 1
  OBVIOUS
<1>8. PassedOn'
  BY <1>1, <1>4, <1>5, <1>6, <1>7 DEF PassedOn
<1>9. Live'
  BY <1>1, <1>3, <1>4 DEF Calm, Undisturbed, Live
<1>10. Accounted'
  BY <1>1 DEF Calm, Undisturbed, Accounted, Drives
<1>11. Filled' /\ Held'
  BY <1>1, <1>2, <1>3 DEF Filled, Held
<1> QED BY <1>8, <1>9, <1>10, <1>11 DEF Undisturbed

LEMMA CalmFill ==
  ASSUME Calm, StartFilling \/ Fill \/ Surface PROVE Undisturbed'
PROOF
<1>1. /\ step \in {"running", "filling"} /\ step' \in {"filling", "suspended"}
      /\ \A b \in Branches : status[b] # "running"
      /\ got.suspended # <<>>
      /\ UNCHANGED <<rows, got, status, asked, call, passed>>
  BY DEF StartFilling, Fill, Surface, Settled, Calm, Undisturbed, Live
<1>2. \A p \in Clients : call[p].pc = "idle"
  BY <1>1 DEF Calm, Undisturbed, Live
<1>3. Live' /\ Held' /\ PassedOn'
  BY <1>1, <1>2 DEF Calm, Undisturbed, Live, Held, PassedOn
<1>4. Accounted'
  BY <1>1 DEF Calm, Undisturbed, Accounted, Drives
<1>5. Filled'
  <2>1. CASE StartFilling
    <3>1. step' = "filling" /\ tofill' = got.suspended
      BY <2>1 DEF StartFilling
    <3> QED BY <1>1, <3>1, LiveOrResumed DEF Filled
  <2>2. CASE Fill
    <3>1. /\ step = "filling" /\ tofill # <<>> /\ tofill' = Tail(tofill) /\ step' = step
          /\ frame' = [frame EXCEPT ![Head(tofill)] = SiblingData]
          /\ tofill \in Seq(Asks)
      BY <2>2 DEF Fill, Calm, IInv, TypeOK, StepTypes
    <3>2. SiblingData.pending = got.suspended /\ SiblingData.settled = got.outputs
      BY DEF SiblingData
    <3>3. ASSUME NEW id \in rows, ~Listed(id, tofill')
          PROVE  frame'[id].pending = got.suspended /\ frame'[id].settled = got.outputs
      <4>1. Listed(id, tofill) <=> id = Head(tofill) \/ Listed(id, tofill')
        BY <3>1, TailListed
      <4>2. id \in Asks
        BY LiveOrResumed
      <4>3. CASE id = Head(tofill)
        BY <3>1, <3>2, <4>2, <4>3 DEF Calm, IInv, TypeOK, StoreTypes
      <4>4. CASE id # Head(tofill)
        <5>1. frame'[id] = frame[id]
          BY <3>1, <4>2, <4>4 DEF Calm, IInv, TypeOK, StoreTypes
        <5> QED BY <3>1, <3>3, <4>1, <4>4, <5>1 DEF Calm, Undisturbed, Filled
      <4> QED BY <4>3, <4>4
    <3> QED BY <1>1, <3>1, <3>3 DEF Filled
  <2>3. CASE Surface
    <3>1. step = "filling" /\ tofill = <<>> /\ step' = "suspended" /\ frame' = frame
      BY <2>3 DEF Surface
    <3>2. \A id : ~Listed(id, tofill)
      BY <3>1 DEF Listed
    <3>3. \A id \in rows : frame[id].pending = got.suspended /\ frame[id].settled = got.outputs
      BY <3>1, <3>2 DEF Calm, Undisturbed, Filled
    <3>4. \A b \in Branches : status[b] = "ended" => b \in got.outputs
      BY <1>1 DEF Calm, Undisturbed, Live
    <3> QED BY <1>1, <3>1, <3>3, <3>4 DEF Filled
  <2> QED BY <2>1, <2>2, <2>3
<1> QED BY <1>3, <1>4, <1>5 DEF Undisturbed

\* These steps are faults, or come of one.
LEMMA CalmNever ==
  ASSUME Calm, ~Disturbed', [Next]_vars
  PROVE  /\ ~Throw /\ ~Drop /\ ~Crash
         /\ \A b \in Branches : ~Fail(b)
         /\ \A p \in Clients, b \in Branches :
              /\ ~SuspendAgain(p, b) /\ ~FailAgain(p, b)
              /\ \A l \in CanDecide(b) : ~EndConflicting(p, b, l) /\ ~EndWithoutState(p, b, l)
PROOF
<1>1. ~Throw
  BY DEF Calm, Undisturbed, Live, Throw
<1>2. ~Drop /\ ~Crash
  BY BoundAssumption DEF Drop, Crash, Disturbed, Calm, IInv, TypeOK, CountTypes
<1>3. ASSUME NEW b \in Branches, Fail(b) PROVE FALSE
  BY <1>3 DEF Fail, Disturbed, Calm, IInv, TypeOK, BranchTypes
<1>4. ASSUME NEW p \in Clients, NEW b \in Branches, SuspendAgain(p, b) PROVE FALSE
  <2>1. asked[b] = 1
    BY <1>4, LiveOrResumed DEF SuspendAgain, Drives, Calm, Undisturbed, Accounted
  <2>2. asked'[b] = asked[b] + 1
    BY <1>4 DEF SuspendAgain, StoreAsk, Calm, IInv, TypeOK, BranchTypes
  <2> QED BY <2>1, <2>2 DEF Disturbed
<1>5. ASSUME NEW p \in Clients, NEW b \in Branches, FailAgain(p, b) PROVE FALSE
  BY <1>5 DEF FailAgain, Disturbed, Calm, IInv, TypeOK, BranchTypes
<1>6. ASSUME NEW p \in Clients, NEW b \in Branches, NEW l \in CanDecide(b),
             EndConflicting(p, b, l)
      PROVE  FALSE
  <2>1. Conflicts(call[p].frame.label, l) /\ call[p].frame.label # Incoming
    BY <1>6 DEF EndConflicting, Conflicts
  <2>2. PICK c \in Branches : decided[c] = call[p].frame.label
    BY <2>1 DEF Calm, Always, LabelsDecided, Somebodys
  <2>3. status[c] = "ended" /\ decided'[b] = l
    BY <1>6, <2>1, <2>2 DEF EndConflicting, Ends, Calm, Always, Undecided, IInv, TypeOK, BranchTypes
  <2>4. decided'[c] = decided[c]
    BY <2>3, EndedStays DEF Calm, IInv, Stays
  <2> QED BY <2>1, <2>2, <2>3, <2>4 DEF Disturbed, Disagree
<1>7. ASSUME NEW p \in Clients, NEW b \in Branches, NEW l \in CanDecide(b),
             EndWithoutState(p, b, l)
      PROVE  FALSE
  <2>1. call[p].pc = "driving" /\ call[p].frame.pending = <<>>
    BY <1>7 DEF EndWithoutState, Ends, Drives, LosesState
  <2>2. got.suspended # <<>>
    BY <2>1, LiveOrResumed DEF Calm, Undisturbed, Live
  <2> QED BY <2>1, <2>2 DEF Calm, Undisturbed, Held
<1> QED BY <1>1, <1>2, <1>3, <1>4, <1>5, <1>6, <1>7

\* People answer, one question after another.
LEMMA CalmResume ==
  ASSUME Calm, NEW p \in Clients, NEW id \in Asks, Resume(p, id) PROVE Undisturbed'
PROOF
<1>1. /\ id \in rows /\ id \in Asks /\ call[p].pc = "idle"
      /\ step \in {"suspended", "failed", "dropped", "lost"}
      /\ \A q \in Clients : call[q].pc # "idle" => call[q].id = id
      /\ UNCHANGED <<rows, frame, step, got, tofill, status, asked, passed>>
  BY NullAssumption
  DEF Resume, Known, Idle, stepVars, Calm, Always, OneAnswer, IInv, OneDriver
<1>2. /\ call'[p].pc = "claiming" /\ call'[p].id = id /\ call'[p].frame = frame[id]
      /\ \A q \in Clients : q # p => call'[q] = call[q]
  BY <1>1 DEF Resume, Calm, IInv, TypeOK, Call
<1>3. step = "suspended"
  BY <1>1 DEF Calm, Undisturbed, Live
<1>4. \A q \in Clients : call[q].pc \notin {"driving", "sharing"}
  BY <1>1, LiveOrResumed
<1>5. \A q \in Clients : call'[q].pc \notin {"driving", "sharing"}
  BY <1>2, <1>4
<1>6. Live'
  BY <1>1, <1>3 DEF Calm, Undisturbed, Live
<1>7. Accounted'
  BY <1>1, <1>4 DEF Calm, Undisturbed, Accounted, Drives
<1>8. \A a \in rows : /\ frame[a].pending = got.suspended
                      /\ \A b \in Branches : status[b] = "ended" => b \in frame[a].settled
  BY <1>3, <1>4 DEF Calm, Undisturbed, Filled, Shares
<1>9. Filled'
  BY <1>1, <1>3, <1>8 DEF Filled
<1>10. Held'
  BY <1>1, <1>2, <1>5, <1>8 DEF Calm, Undisturbed, Held
<1>11. PassedOn'
  BY <1>1 DEF Calm, Undisturbed, PassedOn
<1> QED BY <1>6, <1>7, <1>9, <1>10, <1>11 DEF Undisturbed

LEMMA CalmClaim ==
  ASSUME Calm, NEW p \in Clients, Claim(p) PROVE Undisturbed'
PROOF
<1> DEFINE id == call[p].id
           b == id[1]
<1>1. /\ call[p].pc = "claiming" /\ id \in rows /\ id \in Asks /\ b \in Branches
      /\ id[2] = 1 /\ status[b] = "suspended" /\ step = "suspended" /\ asked[b] = 1
  BY LiveOrResumed DEF Claim, WinsClaim
<1>2. /\ rows' = rows \ {id}
      /\ \A c \in Branches : status'[c] = IF c = b THEN "resumed" ELSE status[c]
      /\ UNCHANGED <<frame, step, got, tofill, asked, passed>>
  BY <1>1 DEF Claim, stepVars, Calm, IInv, TypeOK, BranchTypes
<1>3. /\ call'[p].pc = "driving" /\ call'[p].id = id /\ call'[p].frame = call[p].frame
      /\ \A q \in Clients : q # p => call'[q] = call[q]
  BY DEF Claim, Calm, IInv, TypeOK, Call
<1>4. \A q \in Clients : call[q].pc \in {"idle", "claiming"}
  <2>1. \A q \in Clients : call[q].pc # "idle" => call[q].id = id
    BY <1>1 DEF Calm, Always, OneAnswer
  <2>2. \A q \in Clients : call[q].pc \in {"idle", "claiming", "driving", "sharing"}
    BY DEF Calm, IInv, TypeOK, Call
  <2> QED BY <1>1, <2>1, <2>2, LiveOrResumed
<1>5. Live'
  BY <1>1, <1>2 DEF Calm, Undisturbed, Live
<1>6. Accounted'
  <2>1. ASSUME NEW c \in Branches
        PROVE  /\ status'[c] \in {"running", "suspended", "resumed", "ended"}
               /\ asked'[c] > 0 => asked'[c] = 1
               /\ status'[c] = "running" => asked'[c] = 0
               /\ status'[c] = "suspended" => asked'[c] = 1 /\ <<c, 1>> \in rows'
               /\ status'[c] = "resumed" =>
                    asked'[c] = 1 /\ \E q \in Clients : (Drives(q, c))'
    <3>1. CASE c = b
      BY <1>1, <1>2, <1>3, <3>1 DEF Drives
    <3>2. CASE c # b
      <4>1. status[c] # "resumed"
        BY <1>4 DEF Calm, Undisturbed, Accounted, Drives
      <4>2. <<c, 1>> # id
        BY <3>2
      <4> QED BY <1>2, <3>2, <4>1, <4>2 DEF Calm, Undisturbed, Accounted
    <3> QED BY <3>1, <3>2
  <2>2. (\A a \in rows' : Listed(a, got'.suspended))
        /\ \A i \in DOMAIN got'.suspended : got'.suspended[i] \in Asks
    BY <1>2 DEF Calm, Undisturbed, Accounted
  <2> QED BY <2>1, <2>2 DEF Accounted
<1>7. \A a \in rows : /\ frame[a].pending = got.suspended
                      /\ \A c \in Branches : status[c] = "ended" => c \in frame[a].settled
  BY <1>1, <1>4 DEF Calm, Undisturbed, Filled, Shares
<1>8. Filled'
  BY <1>1, <1>2, <1>7 DEF Filled
<1>9. Held'
  <2>1. /\ call[p].frame.pending = got.suspended
        /\ \A c \in Branches : status[c] = "ended" => c \in call[p].frame.settled
    BY <1>1 DEF Calm, Undisturbed, Held
  <2>2. \A q \in Clients : q # p => call'[q].pc # "driving"
    BY <1>3, <1>4
  <2>3. \A c \in Branches : status'[c] = "ended" => status[c] = "ended"
    BY <1>2
  <2>4. ASSUME NEW q \in Clients, q # p, call'[q].pc = "claiming", call'[q].id \in rows'
        PROVE  FALSE
    BY <1>1, <1>2, <1>3, <2>4 DEF Calm, Always, OneAnswer
  <2> QED BY <1>2, <1>3, <2>1, <2>2, <2>3, <2>4 DEF Held
<1>10. PassedOn'
  BY <1>1, <1>2, LiveOrResumed DEF Calm, Undisturbed, PassedOn
<1> QED BY <1>5, <1>6, <1>8, <1>9, <1>10 DEF Undisturbed

LEMMA CalmLoseClaim ==
  ASSUME Calm, NEW p \in Clients, LoseClaim(p) PROVE Undisturbed'
PROOF
<1>1. /\ call[p].pc = "claiming" /\ call'[p].pc = "idle"
      /\ \A q \in Clients : q # p => call'[q] = call[q]
      /\ UNCHANGED <<rows, frame, step, got, tofill, status, asked, passed>>
  BY DEF LoseClaim, Leave, Idle, stepVars, Calm, IInv, TypeOK
<1>2. Live' /\ PassedOn'
  BY <1>1 DEF Calm, Undisturbed, Live, PassedOn
<1>3. \A q \in Clients, b \in Branches : Drives(q, b) => (Drives(q, b))'
  BY <1>1 DEF Drives
<1>4. Accounted'
  BY <1>1, <1>3 DEF Calm, Undisturbed, Accounted
<1>5. \A q \in Clients, a \in rows, b \in Branches : Shares(q, a, b) => (Shares(q, a, b))'
  BY <1>1 DEF Shares
<1>6. Filled'
  BY <1>1, <1>5 DEF Calm, Undisturbed, Filled
<1>7. Held'
  BY <1>1 DEF Calm, Undisturbed, Held
<1> QED BY <1>2, <1>4, <1>6, <1>7 DEF Undisturbed

\* A branch ends: its slot is handed on, or written into the siblings.
LEMMA CalmBranchEnds ==
  ASSUME Calm, NEW p \in Clients, NEW b \in Branches, NEW l \in CanDecide(b), Ends(p, b, l)
  PROVE  /\ call[p].pc = "driving" /\ b = call[p].id[1] /\ status[b] = "resumed"
         /\ call[p].id \in Asks /\ call[p].id \notin rows
         /\ call[p].frame \in Frame /\ call[p].frame.pending = got.suspended
         /\ \A c \in Branches : status[c] = "ended" => c \in call[p].frame.settled
         /\ step = "suspended" /\ passed = <<>> /\ asked[b] = 1
         /\ \A c \in Branches : status'[c] = IF c = b THEN "ended" ELSE status[c]
         /\ \A c \in Branches : status[c] = "resumed" => c = b
         /\ \A q \in Clients : q # p => call[q].pc \in {"idle", "claiming"}
         /\ \A q \in Clients : call[q].pc # "idle" => call[q].id = call[p].id
         /\ UNCHANGED <<rows, frame, step, got, tofill, asked>>
PROOF
<1>1. call[p].pc = "driving" /\ b = call[p].id[1]
  BY DEF Ends, Drives
<1>2. \A q \in Clients : call[q].pc # "idle" => call[q].id = call[p].id
  BY <1>1 DEF Calm, Always, OneAnswer
<1>3. ASSUME NEW q \in Clients, q # p PROVE call[q].pc \in {"idle", "claiming"}
  <2>1. call[q].pc \in {"idle", "claiming", "driving", "sharing"}
    BY DEF Calm, IInv, TypeOK, Call
  <2>2. call[q].pc # "driving"
    BY <1>1, <1>2, <1>3 DEF Calm, IInv, OneDriver
  <2>3. call[q].pc # "sharing"
    BY <1>1, <1>2, LiveOrResumed
  <2> QED BY <2>1, <2>2, <2>3
<1>4. \A c \in Branches : status[c] = "resumed" => c = b
  BY <1>1, <1>3 DEF Calm, Undisturbed, Accounted, Drives
<1>5. /\ \A c \in Branches : status'[c] = IF c = b THEN "ended" ELSE status[c]
      /\ UNCHANGED <<rows, frame, step, got, tofill, asked>>
  BY DEF Ends, stepVars, Calm, IInv, TypeOK, BranchTypes
<1>6. call[p].frame \in Frame
  BY DEF Calm, IInv, TypeOK, Call
<1>7. /\ call[p].frame.pending = got.suspended
      /\ \A c \in Branches : status[c] = "ended" => c \in call[p].frame.settled
  BY <1>1 DEF Calm, Undisturbed, Held
<1>8. asked[b] = 1
  BY <1>1, LiveOrResumed DEF Calm, Undisturbed, Accounted
<1> QED BY <1>1, <1>2, <1>3, <1>4, <1>5, <1>6, <1>7, <1>8, LiveOrResumed

\* Its end leaves the other branches where they are.
LEMMA CalmEnded ==
  ASSUME Calm, NEW p \in Clients, NEW b \in Branches, NEW l \in CanDecide(b), Ends(p, b, l),
         \A q \in Clients : q # p => call'[q] = call[q],
         call'[p].pc \in {"idle", "sharing"}
  PROVE  Live' /\ Accounted' /\ Held'
PROOF
<1>1. Live'
  BY CalmBranchEnds DEF Calm, Undisturbed, Live
<1>2. ASSUME NEW c \in Branches
      PROVE  /\ status'[c] \in {"running", "suspended", "resumed", "ended"}
             /\ asked'[c] > 0 => asked'[c] = 1
             /\ status'[c] = "running" => asked'[c] = 0
             /\ status'[c] = "suspended" => asked'[c] = 1 /\ <<c, 1>> \in rows'
             /\ status'[c] # "resumed"
  BY CalmBranchEnds DEF Calm, Undisturbed, Accounted
<1>3. (\A a \in rows' : Listed(a, got'.suspended))
      /\ \A i \in DOMAIN got'.suspended : got'.suspended[i] \in Asks
  BY CalmBranchEnds DEF Calm, Undisturbed, Accounted
<1>4. Accounted'
  BY <1>2, <1>3 DEF Accounted
<1>5. \A q \in Clients : call'[q].pc # "driving" /\ (call'[q].pc = "claiming" => call'[q].id \notin rows')
  BY CalmBranchEnds
<1>6. Held'
  BY <1>5 DEF Held
<1> QED BY <1>1, <1>4, <1>6

LEMMA CalmEndEarly ==
  ASSUME Calm, NEW p \in Clients, NEW b \in Branches, NEW l \in CanDecide(b), EndEarly(p, b, l)
  PROVE  Undisturbed'
PROOF
<1>1. Ends(p, b, l) /\ passed' = passed
  BY DEF EndEarly
<1>2. /\ call'[p].pc = "sharing" /\ call'[p].id = call[p].id
      /\ call'[p].toshare = call[p].frame.pending
      /\ \A q \in Clients : q # p => call'[q] = call[q]
  BY DEF EndEarly, Calm, IInv, TypeOK, Call
<1>3. Live' /\ Accounted' /\ Held'
  BY <1>1, <1>2, CalmEnded
<1>4. PassedOn'
  BY <1>1, CalmBranchEnds DEF Calm, Undisturbed, PassedOn
<1>5. Filled'
  <2>1. \A a \in rows : (Shares(p, a, b))'
    BY <1>1, <1>2, CalmBranchEnds, LiveOrResumed DEF Shares
  <2>2. \A a \in rows, c \in Branches, q \in Clients : ~Shares(q, a, c)
    BY <1>1, CalmBranchEnds DEF Shares
  <2>3. \A a \in rows : /\ frame[a].pending = got.suspended
                        /\ \A c \in Branches : status[c] = "ended" => c \in frame[a].settled
    BY <1>1, <2>2, CalmBranchEnds DEF Calm, Undisturbed, Filled
  <2> QED BY <1>1, <2>1, <2>3, CalmBranchEnds DEF Filled
<1> QED BY <1>3, <1>4, <1>5 DEF Undisturbed

LEMMA CalmEndLast ==
  ASSUME Calm, NEW p \in Clients, NEW b \in Branches, NEW l \in CanDecide(b), EndLast(p, b, l)
  PROVE  Undisturbed'
PROOF
<1>1. Ends(p, b, l) /\ ~StillPending(call[p].frame)
  BY DEF EndLast
<1>2. /\ call'[p].pc = "idle" /\ \A q \in Clients : q # p => call'[q] = call[q]
  BY DEF EndLast, Leave, Idle, Calm, IInv, TypeOK
<1>3. Live' /\ Accounted' /\ Held'
  BY <1>1, <1>2, CalmEnded
<1>4. rows = {}
  BY <1>1, CalmBranchEnds, LiveOrResumed DEF StillPending, Listed
<1>5. \A c \in Branches : c # b => status[c] = "ended"
  BY <1>1, <1>4, CalmBranchEnds, LiveOrResumed DEF Calm, Undisturbed, Accounted
<1>6. WithSlot(call[p].frame, b, l).settled = Branches
  <2>1. call[p].frame.settled \subseteq Branches
    BY <1>1, CalmBranchEnds DEF Frame
  <2>2. WithSlot(call[p].frame, b, l).settled = call[p].frame.settled \cup {b}
    BY <1>1, CalmBranchEnds DEF WithSlot, Frame
  <2>3. \A c \in Branches : c # b => c \in call[p].frame.settled
    BY <1>1, <1>5, CalmBranchEnds
  <2> QED BY <2>1, <2>2, <2>3
<1>7. PassedOn'
  <2>1. passed' = Append(passed, [slots |-> Branches,
                                  label |-> WithSlot(call[p].frame, b, l).label])
    BY <1>6 DEF EndLast
  <2>2. passed = <<>>
    BY <1>1, CalmBranchEnds
  <2>3. Len(passed') = 1 /\ DOMAIN passed' = 1..1 /\ passed'[1].slots = Branches
    BY <2>1, <2>2
  <2>4. \A c \in Branches : status'[c] = "ended"
    BY <1>1, <1>5, CalmBranchEnds
  <2>5. \A i \in 1..1 : i = 1
    OBVIOUS
  <2> QED BY <2>3, <2>4, <2>5 DEF PassedOn
<1>8. Filled'
  BY <1>1, <1>4, CalmBranchEnds DEF Filled
<1> QED BY <1>3, <1>7, <1>8 DEF Undisturbed

\* The slot reaches one listed checkpoint after the other.
LEMMA CalmShare ==
  ASSUME Calm, NEW p \in Clients, Share(p) PROVE Undisturbed'
PROOF
<1> DEFINE id == Head(call[p].toshare)
           b == call[p].id[1]
           s == WithSlot(frame[id], b, call[p].frame.label)
<1>1. /\ call[p].pc = "sharing" /\ call[p].toshare # <<>> /\ call[p].toshare \in Seq(Asks)
      /\ step \in {"suspended", "done"} /\ call[p].id \in Asks
      /\ call'[p].pc = "sharing" /\ call'[p].id = call[p].id
      /\ call'[p].toshare = Tail(call[p].toshare)
      /\ \A q \in Clients : q # p => call'[q] = call[q]
      /\ UNCHANGED <<rows, step, got, tofill, status, asked, passed>>
  BY LiveOrResumed DEF Share, stepVars, Calm, IInv, TypeOK, Call
<1>2. /\ \A a \in rows : a # id => frame'[a] = frame[a]
      /\ id \in rows => frame'[id] = s
  BY LiveOrResumed DEF Share, Calm, IInv, TypeOK, StoreTypes
<1>3. id \in rows => s.pending = frame[id].pending /\ s.settled = frame[id].settled \cup {b}
  <2>1. id \in rows => frame[id] \in Frame
    BY LiveOrResumed DEF Calm, IInv, TypeOK, StoreTypes
  <2> QED BY <2>1 DEF WithSlot, Frame
<1>4. Live' /\ PassedOn'
  BY <1>1 DEF Calm, Undisturbed, Live, PassedOn
<1>5. \A q \in Clients, c \in Branches : Drives(q, c) => (Drives(q, c))'
  BY <1>1 DEF Drives
<1>6. Accounted'
  BY <1>1, <1>5 DEF Calm, Undisturbed, Accounted
<1>7. Held'
  <2>1. \A q \in Clients : call'[q].pc \in {"claiming", "driving"} => q # p
    BY <1>1
  <2> QED BY <1>1, <2>1 DEF Calm, Undisturbed, Held
<1>8. Filled'
  <2>1. ASSUME NEW a \in rows PROVE frame'[a].pending = frame[a].pending
                                 /\ frame[a].settled \subseteq frame'[a].settled
    BY <1>2, <1>3
  <2>2. ASSUME NEW a \in rows, NEW c \in Branches, status[c] = "ended", step = "suspended"
        PROVE  c \in frame'[a].settled \/ \E q \in Clients : (Shares(q, a, c))'
    <3>1. CASE c \in frame[a].settled
      BY <2>1, <3>1
    <3>2. CASE \E q \in Clients : Shares(q, a, c)
      <4>1. PICK q \in Clients : Shares(q, a, c)
        BY <3>2
      <4>2. CASE q # p
        BY <1>1, <4>1, <4>2 DEF Shares
      <4>3. CASE q = p
        <5>1. Listed(a, call[p].toshare) <=> a = id \/ Listed(a, Tail(call[p].toshare))
          BY <1>1, TailListed
        <5>2. c = b /\ Listed(a, call[p].toshare)
          BY <4>1, <4>3 DEF Shares
        <5>3. a = id => c \in frame'[a].settled
          BY <1>2, <1>3, <5>2
        <5> QED BY <1>1, <5>1, <5>2, <5>3 DEF Shares
      <4> QED BY <4>2, <4>3
    <3> QED BY <2>2, <3>1, <3>2 DEF Calm, Undisturbed, Filled
  <2> QED BY <1>1, <2>1, <2>2 DEF Calm, Undisturbed, Filled
<1> QED BY <1>4, <1>6, <1>7, <1>8 DEF Undisturbed

LEMMA CalmShared ==
  ASSUME Calm, ~Disturbed, NEW p \in Clients, Shared(p) PROVE Undisturbed'
PROOF
<1>1. /\ call[p].pc = "sharing" /\ call'[p].pc = "idle"
      /\ \A q \in Clients : q # p => call'[q] = call[q]
      /\ UNCHANGED <<rows, frame, step, got, tofill, status, asked, passed>>
  BY DEF Shared, Leave, Idle, stepVars, Calm, IInv, TypeOK
<1>2. call[p].toshare = <<>>
  <2> SUFFICES ASSUME Throws(p) PROVE FALSE
    BY DEF Shared
  <2> DEFINE id == Head(call[p].toshare)
  <2>1. id \in Asks /\ Conflicts(frame[id].label, call[p].frame.label)
    BY LiveOrResumed DEF Throws
  <2>2. PICK b \in Branches : decided[b] = frame[id].label
    BY <2>1 DEF Conflicts, Calm, Always, LabelsDecided, Somebodys
  <2>3. PICK c \in Branches : decided[c] = call[p].frame.label
    BY <2>1 DEF Conflicts, Calm, Always, LabelsDecided, Somebodys
  <2> QED BY <2>1, <2>2, <2>3 DEF Conflicts, Disturbed, Disagree
<1>3. Live' /\ PassedOn'
  BY <1>1 DEF Calm, Undisturbed, Live, PassedOn
<1>4. \A q \in Clients, b \in Branches : Drives(q, b) => (Drives(q, b))'
  BY <1>1 DEF Drives
<1>5. Accounted'
  BY <1>1, <1>4 DEF Calm, Undisturbed, Accounted
<1>6. \A q \in Clients, a \in rows, b \in Branches : Shares(q, a, b) => (Shares(q, a, b))'
  BY <1>1, <1>2 DEF Shares, Listed
<1>7. Filled'
  BY <1>1, <1>6 DEF Calm, Undisturbed, Filled
<1>8. Held'
  BY <1>1 DEF Calm, Undisturbed, Held
<1> QED BY <1>3, <1>5, <1>7, <1>8 DEF Undisturbed

\* While nothing goes wrong, the parts stay as they are.
LEMMA UndisturbedStep ==
  ASSUME IInv, JInv, [Next]_vars, ~Disturbed' PROVE Undisturbed'
PROOF
<1>1. Calm /\ ~Disturbed
  BY DisturbedStays DEF JInv, Calm
<1>2. ASSUME NEW b \in Branches, BranchStep(b) PROVE Undisturbed'
  BY <1>1, <1>2, CalmSuspend, CalmEnd, CalmNever DEF BranchStep
<1>3. CASE StepStep \/ Drop \/ Crash
  BY <1>1, <1>3, CalmReturn, CalmFill, CalmNever DEF StepStep
<1>4. ASSUME NEW p \in Clients, NEW b \in Branches, RunStep(p, b) PROVE Undisturbed'
  BY <1>1, <1>4, CalmEndEarly, CalmEndLast, CalmNever DEF RunStep, EndStep
<1>5. ASSUME NEW p \in Clients, Claim(p) \/ LoseClaim(p) \/ Share(p) \/ Shared(p)
      PROVE  Undisturbed'
  BY <1>1, <1>5, CalmClaim, CalmLoseClaim, CalmShare, CalmShared
<1>6. ASSUME NEW p \in Clients, NEW id \in Asks, Resume(p, id) PROVE Undisturbed'
  BY <1>1, <1>6, CalmResume
<1>7. CASE UNCHANGED vars
  BY <1>1, <1>7
  DEF vars, stepVars, Calm, Undisturbed, Live, Accounted, Drives, Filled, Shares, Held,
      PassedOn
<1> QED BY <1>2, <1>3, <1>4, <1>5, <1>6, <1>7 DEF Next, ClientStep

LEMMA JInvInit == Init => JInv
PROOF
<1> SUFFICES ASSUME Init PROVE JInv
  OBVIOUS
<1>1. \A p \in Clients : call[p] = Idle
  BY DEF Init
<1>2. Always
  BY <1>1 DEF Init, Always, Undecided, LabelsDecided, Somebodys, OneAnswer, Idle, NewFrame
<1>3. Live /\ Accounted /\ Filled /\ Held /\ PassedOn
  BY <1>1 DEF Init, Live, Accounted, Filled, Held, PassedOn, Idle
<1> QED BY <1>2, <1>3 DEF JInv, Undisturbed

LEMMA JoinInvariance == Spec => []JInv
PROOF
<1>1. IInv /\ JInv /\ [Next]_vars => JInv'
  BY AlwaysStep, UndisturbedStep DEF JInv
<1> QED BY Invariance, JInvInit, <1>1, PTL DEF Spec

\* When every branch settles, the remaining steps run once and get every slot,
\* in whatever order people answer and however often the same answer is sent:
\* the merge of continuePipelineParent (pipeline.ts:589-591).
THEOREM JoinsOneTime == Spec => []JoinsOnce
PROOF
<1>1. JInv => JoinsOnce
  BY DEF JInv, Undisturbed, PassedOn, JoinsOnce
<1> QED BY <1>1, JoinInvariance, PTL

=============================================================================

-------------------------- MODULE DelegationProofs --------------------------
(***************************************************************************)
(* Proofs about Delegation, for every tree of runs, every number of        *)
(* streams and every bound.  The invariant says which supervisor's turn    *)
(* has a question in custody until its checkpoint is linked, and that a    *)
(* claim can then be won once.  Clients act on what they have been told by *)
(* a stream, not by the onHumanRequired callback (Early = FALSE).          *)
(***************************************************************************)
EXTENDS Delegation, TLAPS

----------------------------------------------------------------------------
(* The parts of the inductive invariant.                                   *)

\* A resume that holds, or is about to take, the claim on its target.
Claiming(p) == pc[p] \in {"claiming", "acting", "answering"}
Claimed(p) == pc[p] \in {"acting", "answering"}

\* Nothing is known of a question before its run asks it.
AskedFirst ==
  \A a \in Asks : a[2] > asked[a[1]] =>
    a \notin rows /\ a \notin known /\ \A s \in Runs : a \notin crumbs[s]

\* Only questions that clients have been told are answered.
ToldFirst ==
  /\ \A a \in Asks : a \notin known => execs[a] = 0 /\ results[a] = 0
  /\ \A p \in Clients : Claiming(p) => target[p] \in known

\* A stored question is unanswered, and a taken one has one owner.
OneClaim ==
  /\ \A a \in rows : execs[a] = 0 /\ results[a] = 0
  /\ \A p \in Clients : Claimed(p) =>
       /\ target[p] \notin rows /\ results[target[p]] = 0
       /\ pc[p] = "acting" => execs[target[p]] = 0
  /\ \A p, q \in Clients :
       Claimed(p) /\ Claimed(q) /\ target[p] = target[q] => p = q

\* What the linking of a turn's delegations works on.
LinkingTurn ==
  /\ \A s \in Runs : status[s] = "linking" => host[s] \in Delegated
  /\ \A s \in Runs : \A c \in tolink[s] : Super[c] = s /\ held[c] # NoAsk
  /\ \A s \in Runs : reading[s] # NoRun => reading[s] \in tolink[s] /\ host[s] \in Delegated

\* A stream carries a run, and goes on to a parent when the run has one.
StreamCarries ==
  \A p \in Clients :
    /\ pc[p] # "idle" => run[p] \in Runs
    /\ pc[p] \in {"cascading", "delivering", "settling"} => carry[p] # NoLink

\* No run carries the callback.
NoCallback == \A r \in Runs : hook[r] = FALSE

\* A question in custody leaves the store only with its session, and a run
\* that has asked does not start again.
Withdrawn ==
  /\ \A s \in Runs : \A a \in crumbs[s] : a \in rows \/ a[1] \notin sess
  /\ \A r \in Runs : status[r] = "idle" => asked[r] = 0

IInv ==
  /\ TypeOK
  /\ AskedFirst
  /\ ToldFirst
  /\ OneClaim
  /\ AnsweredOnce
  /\ Custody
  /\ LinkingTurn
  /\ StreamCarries
  /\ NoCallback
  /\ Withdrawn

----------------------------------------------------------------------------
(* Type correctness.                                                       *)

USE DEF Delegated, Asks, Links, Calls, Active

\* Adding one to an entry of a table of counters leaves a table of counters.
LEMMA CountUp ==
  ASSUME NEW S, NEW f \in [S -> Nat], NEW x
  PROVE  [f EXCEPT ![x] = f[x] + 1] \in [S -> Nat]
PROOF
<1>1. ASSUME NEW y \in S PROVE [f EXCEPT ![x] = f[x] + 1][y] \in Nat
  <2>1. CASE y = x  BY <2>1
  <2>2. CASE y # x  BY <2>2
  <2> QED BY <2>1, <2>2
<1> QED BY <1>1

LEMMA TypeInit == Init => TypeOK
PROOF
  BY TreeAssumption, BoundAssumption
  DEF Init, TypeOK, StoreTypes, RunTypes, StreamTypes, CountTypes

\* Every action keeps the types, given that a turn that links has a host and a
\* stream that cascades a parent.
LEMMA TypeStep == TypeOK /\ LinkingTurn /\ StreamCarries /\ [Next]_vars => TypeOK'
PROOF
<1> SUFFICES ASSUME TypeOK, LinkingTurn, StreamCarries, [Next]_vars PROVE TypeOK'
  OBVIOUS
<1> USE TreeAssumption, BoundAssumption, ModeAssumption, NullAssumption
<1> USE DEF TypeOK
<1>ST. ASSUME UNCHANGED storeVars PROVE StoreTypes'
  BY <1>ST DEF StoreTypes, storeVars
<1>RT. ASSUME UNCHANGED runVars PROVE RunTypes'
  BY <1>RT DEF RunTypes, runVars
<1>PT. ASSUME UNCHANGED streamVars PROVE StreamTypes'
  BY <1>PT DEF StreamTypes, streamVars
<1>CT. ASSUME UNCHANGED countVars PROVE CountTypes'
  BY <1>CT DEF CountTypes, countVars
<1>1. ASSUME NEW p \in Clients, Start(p) PROVE TypeOK'
  <2>1. StoreTypes'
    BY <1>1 DEF StoreTypes, Start, storeVars
  <2>2. RunTypes'
    BY <1>1 DEF RunTypes, Start, runVars
  <2>3. StreamTypes'
    BY <1>1 DEF StreamTypes, Start, streamVars
  <2>4. CountTypes'
    BY <1>1, <1>CT DEF Start
  <2> QED BY <2>1, <2>2, <2>3, <2>4
<1>2. ASSUME NEW s \in Runs, NEW c \in Delegated, Call(s, c) PROVE TypeOK'
  <2>1. StoreTypes'
    BY <1>2 DEF StoreTypes, Call, storeVars
  <2>2. RunTypes'
    BY <1>2 DEF RunTypes, Call, runVars
  <2>3. StreamTypes'
    BY <1>2, <1>PT DEF Call
  <2>4. CountTypes'
    BY <1>2, <1>CT DEF Call
  <2> QED BY <2>1, <2>2, <2>3, <2>4
<1>3. ASSUME NEW r \in Delegated, AskInTurn(r) PROVE TypeOK'
  <2>1. StoreTypes'
    BY <1>3 DEF StoreTypes, RunTypes, AskInTurn, SuspendRun, LeavesTurn, storeVars
  <2>2. RunTypes'
    BY <1>3 DEF RunTypes, AskInTurn, SuspendRun, LeavesTurn, runVars
  <2>3. StreamTypes'
    BY <1>3, <1>PT DEF AskInTurn
  <2>4. CountTypes'
    BY <1>3 DEF CountTypes, RunTypes, StoreTypes, AskInTurn, SuspendRun, LeavesTurn, countVars
  <2> QED BY <2>1, <2>2, <2>3, <2>4
<1>4. ASSUME NEW r \in Delegated, EndInTurn(r) PROVE TypeOK'
  <2>1. StoreTypes'
    BY <1>4 DEF StoreTypes, EndInTurn, LeavesTurn, AppendResult, storeVars
  <2>2. RunTypes'
    BY <1>4 DEF RunTypes, EndInTurn, LeavesTurn, AppendResult, runVars
  <2>3. StreamTypes'
    BY <1>4, <1>PT DEF EndInTurn
  <2>4. CountTypes'
    BY <1>4, <1>CT DEF EndInTurn
  <2> QED BY <2>1, <2>2, <2>3, <2>4
<1>5. ASSUME NEW p \in Clients, Ask(p) PROVE TypeOK'
  <2>1. StoreTypes'
    BY <1>5
    DEF StoreTypes, RunTypes, StreamTypes, Ask, SuspendRun, KeptLink, StreamCloses,
        storeVars
  <2>2. RunTypes'
    BY <1>5 DEF RunTypes, StoreTypes, Ask, SuspendRun, KeptLink, StreamCloses, runVars
  <2>3. StreamTypes'
    BY <1>5 DEF StreamTypes, Ask, SuspendRun, KeptLink, StreamCloses, streamVars
  <2>4. CountTypes'
    BY <1>5
    DEF CountTypes, RunTypes, StreamTypes, StoreTypes, Ask, SuspendRun, KeptLink,
        StreamCloses, countVars
  <2> QED BY <2>1, <2>2, <2>3, <2>4
<1>6. ASSUME NEW p \in Clients, End(p) PROVE TypeOK'
  <2>1. StoreTypes'
    BY <1>6, <1>ST DEF End
  <2>2. RunTypes'
    BY <1>6 DEF RunTypes, End, StreamCloses, runVars
  <2>3. StreamTypes'
    BY <1>6 DEF StreamTypes, End, StreamCloses, streamVars
  <2>4. CountTypes'
    BY <1>6, <1>CT DEF End
  <2> QED BY <2>1, <2>2, <2>3, <2>4
<1>7. ASSUME NEW s \in Runs, TurnSettles(s) PROVE TypeOK'
  <2>1. StoreTypes'
    BY <1>7, <1>ST DEF TurnSettles
  <2>2. RunTypes'
    BY <1>7 DEF RunTypes, TurnSettles, runVars
  <2>3. StreamTypes'
    BY <1>7, <1>PT DEF TurnSettles
  <2>4. CountTypes'
    BY <1>7, <1>CT DEF TurnSettles
  <2> QED BY <2>1, <2>2, <2>3, <2>4
<1>8. ASSUME NEW s \in Runs, LinkWrite(s) PROVE TypeOK'
  <2>1. StoreTypes'
    BY <1>8 DEF StoreTypes, RunTypes, LinkWrite, LinkingTurn, storeVars
  <2>2. RunTypes'
    BY <1>8 DEF RunTypes, LinkWrite, LinkingTurn, runVars
  <2>3. StreamTypes'
    BY <1>8, <1>PT DEF LinkWrite
  <2>4. CountTypes'
    BY <1>8, <1>CT DEF LinkWrite
  <2> QED BY <2>1, <2>2, <2>3, <2>4
<1>9. ASSUME NEW s \in Runs, LinkRefused(s) PROVE TypeOK'
  <2>1. StoreTypes'
    <3>1. CASE InTurn(s)
      BY <1>9, <3>1, CountUp DEF StoreTypes, LinkRefused, AppendResult, InTurn
    <3>2. CASE ~InTurn(s)
      BY <1>9, <3>2 DEF StoreTypes, LinkRefused
    <3> QED BY <3>1, <3>2
  <2>2. RunTypes'
    BY <1>9
    DEF RunTypes, LinkRefused, DropTurn, DropCrumbs, LeavesTurn, AppendResult, Drives,
        runVars
  <2>3. StreamTypes'
    BY <1>9
    DEF StreamTypes, LinkRefused, DropTurn, DropCrumbs, LeavesTurn, AppendResult, Drives,
        streamVars
  <2>4. CountTypes'
    BY <1>9, <1>CT DEF LinkRefused
  <2> QED BY <2>1, <2>2, <2>3, <2>4
<1>10. ASSUME NEW s \in Runs, NEW k \in Delegated, NEW link \in Links \cup {NoLink},
              ChainSuspend(s, k, link)
       PROVE TypeOK'
  <2>1. StoreTypes'
    BY <1>10 DEF StoreTypes, ChainSuspend, PendingList, HeldBy, storeVars
  <2>2. RunTypes'
    BY <1>10 DEF RunTypes, ChainSuspend, PendingList, HeldBy, runVars
  <2>3. StreamTypes'
    BY <1>10, <1>PT DEF ChainSuspend
  <2>4. CountTypes'
    BY <1>10, <1>CT DEF ChainSuspend
  <2> QED BY <2>1, <2>2, <2>3, <2>4
<1>11. ASSUME NEW s \in Runs, NEW c \in Delegated, LinkRead(s, c) PROVE TypeOK'
  <2>1. StoreTypes'
    BY <1>11, <1>ST DEF LinkRead
  <2>2. RunTypes'
    BY <1>11 DEF RunTypes, LinkRead, runVars
  <2>3. StreamTypes'
    BY <1>11, <1>PT DEF LinkRead
  <2>4. CountTypes'
    BY <1>11, <1>CT DEF LinkRead
  <2> QED BY <2>1, <2>2, <2>3, <2>4
<1>12. ASSUME NEW s \in Delegated, NEW last \in Asks, SurfaceInTurn(s, last) PROVE TypeOK'
  <2>1. StoreTypes'
    BY <1>12, <1>ST DEF SurfaceInTurn
  <2>2. RunTypes'
    BY <1>12 DEF RunTypes, SurfaceInTurn, LeavesTurn, runVars
  <2>3. StreamTypes'
    BY <1>12, <1>PT DEF SurfaceInTurn
  <2>4. CountTypes'
    BY <1>12, <1>CT DEF SurfaceInTurn
  <2> QED BY <2>1, <2>2, <2>3, <2>4
<1>13. ASSUME NEW p \in Clients, Surface(p) PROVE TypeOK'
  <2>1. StoreTypes'
    BY <1>13, <1>ST DEF Surface
  <2>2. RunTypes'
    BY <1>13 DEF RunTypes, Surface, StreamCloses, DropTurn, DropCrumbs, runVars
  <2>3. StreamTypes'
    BY <1>13 DEF StreamTypes, Surface, StreamCloses, DropTurn, DropCrumbs, streamVars
  <2>4. CountTypes'
    BY <1>13 DEF CountTypes, StreamCarries, RunTypes, Surface, countVars
  <2> QED BY <2>1, <2>2, <2>3, <2>4
<1>14. ASSUME NEW p \in Clients, NEW a \in Asks, ReadCheckpoint(p, a) PROVE TypeOK'
  <2>1. StoreTypes'
    BY <1>14, <1>ST DEF ReadCheckpoint
  <2>2. RunTypes'
    BY <1>14, <1>RT DEF ReadCheckpoint
  <2>3. StreamTypes'
    BY <1>14 DEF StreamTypes, StoreTypes, ReadCheckpoint, streamVars
  <2>4. CountTypes'
    BY <1>14, <1>CT DEF ReadCheckpoint
  <2> QED BY <2>1, <2>2, <2>3, <2>4
<1>15. ASSUME NEW p \in Clients, Claim(p) PROVE TypeOK'
  <2>1. StoreTypes'
    BY <1>15 DEF StoreTypes, Claim, storeVars
  <2>2. RunTypes'
    BY <1>15 DEF RunTypes, Claim, runVars
  <2>3. StreamTypes'
    BY <1>15 DEF StreamTypes, Claim, streamVars
  <2>4. CountTypes'
    BY <1>15, <1>CT DEF Claim
  <2> QED BY <2>1, <2>2, <2>3, <2>4
<1>16. ASSUME NEW p \in Clients, LoseClaim(p) PROVE TypeOK'
  <2>1. StoreTypes'
    BY <1>16, <1>ST DEF LoseClaim
  <2>2. RunTypes'
    BY <1>16, <1>RT DEF LoseClaim
  <2>3. StreamTypes'
    BY <1>16 DEF StreamTypes, LoseClaim, Idle, streamVars
  <2>4. CountTypes'
    BY <1>16, <1>CT DEF LoseClaim
  <2> QED BY <2>1, <2>2, <2>3, <2>4
<1>17. ASSUME NEW p \in Clients, Act(p) PROVE TypeOK'
  <2>1. StoreTypes'
    BY <1>17, <1>ST DEF Act
  <2>2. RunTypes'
    BY <1>17, <1>RT DEF Act
  <2>3. StreamTypes'
    BY <1>17 DEF StreamTypes, Act, streamVars
  <2>4. CountTypes'
    BY <1>17, CountUp DEF CountTypes, StreamTypes, Act, countVars
  <2> QED BY <2>1, <2>2, <2>3, <2>4
<1>18. ASSUME NEW p \in Clients, AppendAnswer(p) PROVE TypeOK'
  <2>1. StoreTypes'
    BY <1>18, CountUp DEF StoreTypes, StreamTypes, AppendAnswer, AppendResult, storeVars
  <2>2. RunTypes'
    BY <1>18 DEF RunTypes, AppendAnswer, AppendResult, runVars
  <2>3. StreamTypes'
    BY <1>18 DEF StreamTypes, AppendAnswer, AppendResult, streamVars
  <2>4. CountTypes'
    BY <1>18, <1>CT DEF AppendAnswer
  <2> QED BY <2>1, <2>2, <2>3, <2>4
<1>19. ASSUME NEW p \in Clients, AnswerRefused(p) PROVE TypeOK'
  <2>1. StoreTypes'
    BY <1>19, <1>ST DEF AnswerRefused
  <2>2. RunTypes'
    BY <1>19 DEF RunTypes, AnswerRefused, Idle, runVars
  <2>3. StreamTypes'
    BY <1>19 DEF StreamTypes, AnswerRefused, Idle, streamVars
  <2>4. CountTypes'
    BY <1>19, <1>CT DEF AnswerRefused
  <2> QED BY <2>1, <2>2, <2>3, <2>4
<1>20. ASSUME NEW p \in Clients, ReadSupervisor(p) PROVE TypeOK'
  <2>1. StoreTypes'
    BY <1>20, <1>ST DEF ReadSupervisor
  <2>2. RunTypes'
    BY <1>20, <1>RT DEF ReadSupervisor
  <2>3. StreamTypes'
    <3>1. CASE carry[p][1] \in hosts
      BY <1>20, <3>1 DEF StreamTypes, StoreTypes, ReadSupervisor
    <3>2. CASE carry[p][1] \notin hosts
      BY <1>20, <3>2 DEF StreamTypes, ReadSupervisor, Idle
    <3> QED BY <3>1, <3>2
  <2>4. CountTypes'
    BY <1>20, <1>CT DEF ReadSupervisor
  <2> QED BY <2>1, <2>2, <2>3, <2>4
<1>21. ASSUME NEW p \in Clients, Deliver(p) PROVE TypeOK'
  <2>1. StoreTypes'
    BY <1>21 DEF StoreTypes, Deliver, AppendResult, Idle, storeVars
  <2>2. RunTypes'
    BY <1>21, <1>RT DEF Deliver
  <2>3. StreamTypes'
    BY <1>21 DEF StreamTypes, Deliver, AppendResult, Idle, streamVars
  <2>4. CountTypes'
    BY <1>21, <1>CT DEF Deliver
  <2> QED BY <2>1, <2>2, <2>3, <2>4
<1>22. ASSUME NEW p \in Clients, Settle(p) PROVE TypeOK'
  <2>1. StoreTypes'
    BY <1>22 DEF StoreTypes, StreamTypes, Settle, StreamCarries, Remaining, Idle, storeVars
  <2>2. RunTypes'
    BY <1>22, <1>RT DEF Settle
  <2>3. StreamTypes'
    BY <1>22 DEF StreamTypes, Settle, StreamCarries, Remaining, Idle, streamVars
  <2>4. CountTypes'
    BY <1>22, <1>CT DEF Settle
  <2> QED BY <2>1, <2>2, <2>3, <2>4
<1>23. ASSUME NEW p \in Clients, ClaimSupervisor(p) PROVE TypeOK'
  <2>1. StoreTypes'
    BY <1>23 DEF StoreTypes, ClaimSupervisor, StreamCarries, storeVars
  <2>2. RunTypes'
    BY <1>23 DEF RunTypes, ClaimSupervisor, StreamCarries, runVars
  <2>3. StreamTypes'
    BY <1>23 DEF StreamTypes, StoreTypes, ClaimSupervisor, StreamCarries, streamVars
  <2>4. CountTypes'
    BY <1>23, <1>CT DEF ClaimSupervisor
  <2> QED BY <2>1, <2>2, <2>3, <2>4
<1>24. ASSUME NEW p \in Clients, LoseSupervisor(p) PROVE TypeOK'
  <2>1. StoreTypes'
    BY <1>24, <1>ST DEF LoseSupervisor
  <2>2. RunTypes'
    BY <1>24, <1>RT DEF LoseSupervisor
  <2>3. StreamTypes'
    BY <1>24 DEF StreamTypes, LoseSupervisor, Idle, streamVars
  <2>4. CountTypes'
    BY <1>24, <1>CT DEF LoseSupervisor
  <2> QED BY <2>1, <2>2, <2>3, <2>4
<1>25. ASSUME NEW r \in Delegated, FailInTurn(r) PROVE TypeOK'
  <2>1. StoreTypes'
    BY <1>25
    DEF StoreTypes, FailInTurn, TurnFails, DropTurn, DropCrumbs, LeavesTurn, AppendResult,
        storeVars
  <2>2. RunTypes'
    BY <1>25
    DEF RunTypes, FailInTurn, TurnFails, DropTurn, DropCrumbs, LeavesTurn, AppendResult,
        runVars
  <2>3. StreamTypes'
    BY <1>25, <1>PT DEF FailInTurn
  <2>4. CountTypes'
    BY <1>25
    DEF CountTypes, FailInTurn, TurnFails, DropTurn, DropCrumbs, LeavesTurn, AppendResult,
        countVars
  <2> QED BY <2>1, <2>2, <2>3, <2>4
<1>26. ASSUME NEW r \in Runs, Retry(r) PROVE TypeOK'
  <2>1. StoreTypes'
    BY <1>26, <1>ST DEF Retry
  <2>2. RunTypes'
    BY <1>26 DEF RunTypes, Retry, DropTurn, DropCrumbs, runVars
  <2>3. StreamTypes'
    BY <1>26, <1>PT DEF Retry
  <2>4. CountTypes'
    BY <1>26 DEF CountTypes, Retry, DropTurn, DropCrumbs, countVars
  <2> QED BY <2>1, <2>2, <2>3, <2>4
<1>27. ASSUME NEW p \in Clients, Fail(p) PROVE TypeOK'
  <2>1. StoreTypes'
    BY <1>27, <1>ST DEF Fail
  <2>2. RunTypes'
    BY <1>27 DEF RunTypes, Fail, TurnFails, DropTurn, DropCrumbs, Idle, runVars
  <2>3. StreamTypes'
    BY <1>27 DEF StreamTypes, Fail, TurnFails, DropTurn, DropCrumbs, Idle, streamVars
  <2>4. CountTypes'
    BY <1>27 DEF CountTypes, Fail, TurnFails, DropTurn, DropCrumbs, Idle, countVars
  <2> QED BY <2>1, <2>2, <2>3, <2>4
<1>28. ASSUME NEW p \in Clients, ActThrows(p) PROVE TypeOK'
  <2>1. StoreTypes'
    BY <1>28 DEF StoreTypes, ActThrows, RowsAfterThrow, Idle, storeVars
  <2>2. RunTypes'
    BY <1>28 DEF RunTypes, ActThrows, RowsAfterThrow, Idle, runVars
  <2>3. StreamTypes'
    BY <1>28 DEF StreamTypes, ActThrows, RowsAfterThrow, Idle, streamVars
  <2>4. CountTypes'
    BY <1>28, CountUp DEF CountTypes, StreamTypes, ActThrows, RowsAfterThrow, Idle, countVars
  <2> QED BY <2>1, <2>2, <2>3, <2>4
<1>29. ASSUME Crash PROVE TypeOK'
  <2>1. StoreTypes'
    BY <1>29, <1>ST DEF Crash
  <2>2. RunTypes'
    BY <1>29 DEF RunTypes, Crash, runVars
  <2>3. StreamTypes'
    BY <1>29 DEF StreamTypes, Crash, streamVars
  <2>4. CountTypes'
    BY <1>29 DEF CountTypes, Crash, countVars
  <2> QED BY <2>1, <2>2, <2>3, <2>4
<1>30. ASSUME NEW r \in Runs, DeleteSession(r) PROVE TypeOK'
  <2>1. StoreTypes'
    BY <1>30 DEF StoreTypes, DeleteSession, storeVars
  <2>2. RunTypes'
    BY <1>30, <1>RT DEF DeleteSession
  <2>3. StreamTypes'
    BY <1>30, <1>PT DEF DeleteSession
  <2>4. CountTypes'
    BY <1>30, <1>CT DEF DeleteSession
  <2> QED BY <2>1, <2>2, <2>3, <2>4
<1>31. ASSUME UNCHANGED vars PROVE TypeOK'
  BY <1>31, <1>ST, <1>RT, <1>PT, <1>CT DEF vars
<1> QED
  BY <1>1, <1>2, <1>3, <1>4, <1>5, <1>6, <1>7, <1>8, <1>9, <1>10, <1>11, <1>12, <1>13,
     <1>14, <1>15, <1>16, <1>17, <1>18, <1>19, <1>20, <1>21, <1>22, <1>23, <1>24, <1>25,
     <1>26, <1>27, <1>28, <1>29, <1>30, <1>31
  DEF Next, Turn, Linkage, Resume, Faulty, Answering, Starting

----------------------------------------------------------------------------
(* The parts of the invariant, one lemma each.                             *)

\* The checkpoint of a run's next question.
LEMMA NextAsk ==
  ASSUME TypeOK, NEW r \in Runs, asked[r] < MaxAsk
  PROVE  /\ <<r, asked[r] + 1>> \in Asks
         /\ <<r, asked[r] + 1>> # NoAsk
PROOF
  BY BoundAssumption, NullAssumption DEF TypeOK, RunTypes

\* No step gives a run the callback.
LEMMA NoCallbackStep ==
  Early = FALSE /\ TypeOK /\ NoCallback /\ [Next]_vars => NoCallback'
PROOF
<1> SUFFICES ASSUME Early = FALSE, TypeOK, NoCallback, [Next]_vars PROVE NoCallback'
  OBVIOUS
<1>q. ASSUME UNCHANGED <<hook>> PROVE NoCallback'
  BY <1>q DEF NoCallback
<1>1. ASSUME NEW p \in Clients, Start(p) PROVE NoCallback'
  BY <1>1 DEF NoCallback, TypeOK, RunTypes, Start
<1>2. ASSUME NEW s \in Runs, NEW c \in Delegated, Call(s, c) PROVE NoCallback'
  BY <1>2 DEF NoCallback, TypeOK, RunTypes, Call
<1>3. ASSUME NEW r \in Delegated, AskInTurn(r) PROVE NoCallback'
  BY <1>3, <1>q DEF AskInTurn
<1>4. ASSUME NEW r \in Delegated, EndInTurn(r) PROVE NoCallback'
  BY <1>4, <1>q DEF EndInTurn
<1>5. ASSUME NEW p \in Clients, Ask(p) PROVE NoCallback'
  BY <1>5, <1>q DEF Ask
<1>6. ASSUME NEW p \in Clients, End(p) PROVE NoCallback'
  BY <1>6, <1>q DEF End
<1>7. ASSUME NEW s \in Runs, TurnSettles(s) PROVE NoCallback'
  BY <1>7, <1>q DEF TurnSettles
<1>8. ASSUME NEW s \in Runs, LinkWrite(s) PROVE NoCallback'
  BY <1>8, <1>q DEF LinkWrite
<1>9. ASSUME NEW s \in Runs, LinkRefused(s) PROVE NoCallback'
  BY <1>9, <1>q DEF LinkRefused
<1>10. ASSUME NEW s \in Runs, NEW k \in Delegated, NEW link \in Links \cup {NoLink},
              ChainSuspend(s, k, link)
       PROVE NoCallback'
  BY <1>10, <1>q DEF ChainSuspend
<1>11. ASSUME NEW s \in Runs, NEW c \in Delegated, LinkRead(s, c) PROVE NoCallback'
  BY <1>11, <1>q DEF LinkRead
<1>12. ASSUME NEW s \in Delegated, NEW last \in Asks, SurfaceInTurn(s, last) PROVE NoCallback'
  BY <1>12, <1>q DEF SurfaceInTurn
<1>13. ASSUME NEW p \in Clients, Surface(p) PROVE NoCallback'
  BY <1>13, <1>q DEF Surface
<1>14. ASSUME NEW p \in Clients, NEW a \in Asks, ReadCheckpoint(p, a) PROVE NoCallback'
  BY <1>14, <1>q DEF ReadCheckpoint, runVars
<1>15. ASSUME NEW p \in Clients, Claim(p) PROVE NoCallback'
  BY <1>15 DEF NoCallback, TypeOK, RunTypes, Claim
<1>16. ASSUME NEW p \in Clients, LoseClaim(p) PROVE NoCallback'
  BY <1>16, <1>q DEF LoseClaim, runVars
<1>17. ASSUME NEW p \in Clients, Act(p) PROVE NoCallback'
  BY <1>17, <1>q DEF Act, runVars
<1>18. ASSUME NEW p \in Clients, AppendAnswer(p) PROVE NoCallback'
  BY <1>18, <1>q DEF AppendAnswer
<1>19. ASSUME NEW p \in Clients, AnswerRefused(p) PROVE NoCallback'
  BY <1>19, <1>q DEF AnswerRefused
<1>20. ASSUME NEW p \in Clients, ReadSupervisor(p) PROVE NoCallback'
  BY <1>20, <1>q DEF ReadSupervisor, runVars
<1>21. ASSUME NEW p \in Clients, Deliver(p) PROVE NoCallback'
  BY <1>21, <1>q DEF Deliver, runVars
<1>22. ASSUME NEW p \in Clients, Settle(p) PROVE NoCallback'
  BY <1>22, <1>q DEF Settle, runVars
<1>23. ASSUME NEW p \in Clients, ClaimSupervisor(p) PROVE NoCallback'
  BY <1>23 DEF NoCallback, TypeOK, RunTypes, ClaimSupervisor
<1>24. ASSUME NEW p \in Clients, LoseSupervisor(p) PROVE NoCallback'
  BY <1>24, <1>q DEF LoseSupervisor, runVars
<1>25. ASSUME NEW r \in Delegated, FailInTurn(r) PROVE NoCallback'
  BY <1>25, <1>q DEF FailInTurn
<1>26. ASSUME NEW r \in Runs, Retry(r) PROVE NoCallback'
  BY <1>26, <1>q DEF Retry
<1>27. ASSUME NEW p \in Clients, Fail(p) PROVE NoCallback'
  BY <1>27, <1>q DEF Fail
<1>28. ASSUME NEW p \in Clients, ActThrows(p) PROVE NoCallback'
  BY <1>28, <1>q DEF ActThrows
<1>29. ASSUME Crash PROVE NoCallback'
  BY <1>29, <1>q DEF Crash
<1>30. ASSUME NEW r \in Runs, DeleteSession(r) PROVE NoCallback'
  BY <1>30, <1>q DEF DeleteSession, runVars
<1>31. ASSUME UNCHANGED vars PROVE NoCallback'
  BY <1>31, <1>q DEF vars, runVars
<1> QED
  BY <1>1, <1>2, <1>3, <1>4, <1>5, <1>6, <1>7, <1>8, <1>9, <1>10, <1>11, <1>12, <1>13,
     <1>14, <1>15, <1>16, <1>17, <1>18, <1>19, <1>20, <1>21, <1>22, <1>23, <1>24, <1>25,
     <1>26, <1>27, <1>28, <1>29, <1>30, <1>31
  DEF Next, Turn, Linkage, Resume, Faulty, Answering, Starting

\* A stream always carries a run.
LEMMA StreamStep ==
  TypeOK /\ StreamCarries /\ [Next]_vars => StreamCarries'
PROOF
<1> SUFFICES ASSUME TypeOK, StreamCarries, [Next]_vars PROVE StreamCarries'
  OBVIOUS
<1>q. ASSUME UNCHANGED <<pc, run, carry>> PROVE StreamCarries'
  BY <1>q DEF StreamCarries
<1>1. ASSUME NEW p \in Clients, Start(p) PROVE StreamCarries'
  BY <1>1, TreeAssumption DEF StreamCarries, TypeOK, StreamTypes, Start
<1>2. ASSUME NEW s \in Runs, NEW c \in Delegated, Call(s, c) PROVE StreamCarries'
  BY <1>2, <1>q DEF Call, streamVars
<1>3. ASSUME NEW r \in Delegated, AskInTurn(r) PROVE StreamCarries'
  BY <1>3, <1>q DEF AskInTurn, streamVars
<1>4. ASSUME NEW r \in Delegated, EndInTurn(r) PROVE StreamCarries'
  BY <1>4, <1>q DEF EndInTurn, streamVars
<1>5. ASSUME NEW p \in Clients, Ask(p) PROVE StreamCarries'
  BY <1>5 DEF StreamCarries, TypeOK, StreamTypes, StoreTypes, Ask, StreamCloses
<1>6. ASSUME NEW p \in Clients, End(p) PROVE StreamCarries'
  BY <1>6 DEF StreamCarries, TypeOK, StreamTypes, StoreTypes, End, StreamCloses
<1>7. ASSUME NEW s \in Runs, TurnSettles(s) PROVE StreamCarries'
  BY <1>7, <1>q DEF TurnSettles, streamVars
<1>8. ASSUME NEW s \in Runs, LinkWrite(s) PROVE StreamCarries'
  BY <1>8, <1>q DEF LinkWrite, streamVars
<1>9. ASSUME NEW s \in Runs, LinkRefused(s) PROVE StreamCarries'
  BY <1>9 DEF StreamCarries, TypeOK, StreamTypes, StoreTypes, LinkRefused
<1>10. ASSUME NEW s \in Runs, NEW k \in Delegated, NEW link \in Links \cup {NoLink},
              ChainSuspend(s, k, link)
       PROVE StreamCarries'
  BY <1>10, <1>q DEF ChainSuspend, streamVars
<1>11. ASSUME NEW s \in Runs, NEW c \in Delegated, LinkRead(s, c) PROVE StreamCarries'
  BY <1>11, <1>q DEF LinkRead, streamVars
<1>12. ASSUME NEW s \in Delegated, NEW last \in Asks, SurfaceInTurn(s, last)
       PROVE StreamCarries'
  BY <1>12, <1>q DEF SurfaceInTurn, streamVars
<1>13. ASSUME NEW p \in Clients, Surface(p) PROVE StreamCarries'
  BY <1>13 DEF StreamCarries, TypeOK, StreamTypes, StoreTypes, Surface, StreamCloses
<1>14. ASSUME NEW p \in Clients, NEW a \in Asks, ReadCheckpoint(p, a) PROVE StreamCarries'
  BY <1>14 DEF StreamCarries, TypeOK, StreamTypes, StoreTypes, ReadCheckpoint
<1>15. ASSUME NEW p \in Clients, Claim(p) PROVE StreamCarries'
  BY <1>15 DEF StreamCarries, TypeOK, StreamTypes, StoreTypes, Claim
<1>16. ASSUME NEW p \in Clients, LoseClaim(p) PROVE StreamCarries'
  BY <1>16 DEF StreamCarries, TypeOK, StreamTypes, StoreTypes, LoseClaim, Idle
<1>17. ASSUME NEW p \in Clients, Act(p) PROVE StreamCarries'
  BY <1>17 DEF StreamCarries, TypeOK, StreamTypes, StoreTypes, Act
<1>18. ASSUME NEW p \in Clients, AppendAnswer(p) PROVE StreamCarries'
  BY <1>18 DEF StreamCarries, TypeOK, StreamTypes, StoreTypes, AppendAnswer
<1>19. ASSUME NEW p \in Clients, AnswerRefused(p) PROVE StreamCarries'
  BY <1>19 DEF StreamCarries, TypeOK, StreamTypes, StoreTypes, AnswerRefused, Idle
<1>20. ASSUME NEW p \in Clients, ReadSupervisor(p) PROVE StreamCarries'
  BY <1>20 DEF StreamCarries, TypeOK, StreamTypes, StoreTypes, ReadSupervisor, Idle
<1>21. ASSUME NEW p \in Clients, Deliver(p) PROVE StreamCarries'
  BY <1>21 DEF StreamCarries, TypeOK, StreamTypes, StoreTypes, Deliver, Idle
<1>22. ASSUME NEW p \in Clients, Settle(p) PROVE StreamCarries'
  BY <1>22 DEF StreamCarries, TypeOK, StreamTypes, StoreTypes, Settle, Idle
<1>23. ASSUME NEW p \in Clients, ClaimSupervisor(p) PROVE StreamCarries'
  BY <1>23, TreeAssumption DEF StreamCarries, TypeOK, StreamTypes, StoreTypes, ClaimSupervisor
<1>24. ASSUME NEW p \in Clients, LoseSupervisor(p) PROVE StreamCarries'
  BY <1>24 DEF StreamCarries, TypeOK, StreamTypes, StoreTypes, LoseSupervisor, Idle
<1>25. ASSUME NEW r \in Delegated, FailInTurn(r) PROVE StreamCarries'
  BY <1>25, <1>q DEF FailInTurn, streamVars
<1>26. ASSUME NEW r \in Runs, Retry(r) PROVE StreamCarries'
  BY <1>26, <1>q DEF Retry, streamVars
<1>27. ASSUME NEW p \in Clients, Fail(p) PROVE StreamCarries'
  BY <1>27 DEF StreamCarries, TypeOK, StreamTypes, StoreTypes, Fail, Idle
<1>28. ASSUME NEW p \in Clients, ActThrows(p) PROVE StreamCarries'
  BY <1>28 DEF StreamCarries, TypeOK, StreamTypes, StoreTypes, ActThrows, Idle
<1>29. ASSUME Crash PROVE StreamCarries'
  BY <1>29 DEF StreamCarries, TypeOK, StreamTypes, StoreTypes, Crash
<1>30. ASSUME NEW r \in Runs, DeleteSession(r) PROVE StreamCarries'
  BY <1>30, <1>q DEF DeleteSession, streamVars
<1>31. ASSUME UNCHANGED vars PROVE StreamCarries'
  BY <1>31, <1>q DEF vars, streamVars
<1> QED
  BY <1>1, <1>2, <1>3, <1>4, <1>5, <1>6, <1>7, <1>8, <1>9, <1>10, <1>11, <1>12, <1>13,
     <1>14, <1>15, <1>16, <1>17, <1>18, <1>19, <1>20, <1>21, <1>22, <1>23, <1>24, <1>25,
     <1>26, <1>27, <1>28, <1>29, <1>30, <1>31
  DEF Next, Turn, Linkage, Resume, Faulty, Answering, Starting

\* The linking of a turn keeps its delegations and its host.
LEMMA LinkingStep ==
  TypeOK /\ LinkingTurn /\ [Next]_vars => LinkingTurn'
PROOF
<1> SUFFICES ASSUME TypeOK, LinkingTurn, [Next]_vars PROVE LinkingTurn'
  OBVIOUS
<1>q. ASSUME UNCHANGED <<status, host, tolink, held, reading>> PROVE LinkingTurn'
  BY <1>q DEF LinkingTurn
<1>1. ASSUME NEW p \in Clients, Start(p) PROVE LinkingTurn'
  BY <1>1 DEF LinkingTurn, TypeOK, RunTypes, Start
<1>2. ASSUME NEW s \in Runs, NEW c \in Delegated, Call(s, c) PROVE LinkingTurn'
  BY <1>2 DEF LinkingTurn, TypeOK, RunTypes, Call
<1>3. ASSUME NEW r \in Delegated, AskInTurn(r) PROVE LinkingTurn'
  <2>1. <<r, asked[r] + 1>> # NoAsk
    BY <1>3, NextAsk DEF AskInTurn
  <2> QED
    BY <1>3, <2>1 DEF LinkingTurn, TypeOK, RunTypes, AskInTurn
<1>4. ASSUME NEW r \in Delegated, EndInTurn(r) PROVE LinkingTurn'
  BY <1>4 DEF LinkingTurn, TypeOK, RunTypes, EndInTurn
<1>5. ASSUME NEW p \in Clients, Ask(p) PROVE LinkingTurn'
  BY <1>5 DEF LinkingTurn, TypeOK, RunTypes, Ask
<1>6. ASSUME NEW p \in Clients, End(p) PROVE LinkingTurn'
  BY <1>6 DEF LinkingTurn, TypeOK, RunTypes, End
<1>7. ASSUME NEW s \in Runs, TurnSettles(s) PROVE LinkingTurn'
  BY <1>7 DEF LinkingTurn, TypeOK, RunTypes, TurnSettles
<1>8. ASSUME NEW s \in Runs, LinkWrite(s) PROVE LinkingTurn'
  BY <1>8, NullAssumption, TreeAssumption DEF LinkingTurn, TypeOK, RunTypes, LinkWrite
<1>9. ASSUME NEW s \in Runs, LinkRefused(s) PROVE LinkingTurn'
  BY <1>9, NullAssumption, TreeAssumption
  DEF LinkingTurn, TypeOK, RunTypes, LinkRefused, DropTurn
<1>10. ASSUME NEW s \in Runs, NEW k \in Delegated, NEW link \in Links \cup {NoLink},
              ChainSuspend(s, k, link)
       PROVE LinkingTurn'
  BY <1>10, NullAssumption, TreeAssumption
  DEF LinkingTurn, TypeOK, RunTypes, ChainSuspend, HeldBy
<1>11. ASSUME NEW s \in Runs, NEW c \in Delegated, LinkRead(s, c) PROVE LinkingTurn'
  <2>1. CASE held[c] \in rows
    BY <1>11, <2>1, NullAssumption DEF LinkingTurn, TypeOK, RunTypes, LinkRead
  <2>2. CASE held[c] \notin rows
    BY <1>11, <2>2, NullAssumption DEF LinkingTurn, TypeOK, RunTypes, LinkRead
  <2> QED BY <2>1, <2>2
<1>12. ASSUME NEW s \in Delegated, NEW last \in Asks, SurfaceInTurn(s, last) PROVE LinkingTurn'
  BY <1>12, NullAssumption, TreeAssumption DEF LinkingTurn, TypeOK, RunTypes, SurfaceInTurn
<1>13. ASSUME NEW p \in Clients, Surface(p) PROVE LinkingTurn'
  BY <1>13, NullAssumption, TreeAssumption DEF LinkingTurn, TypeOK, RunTypes, Surface, DropTurn
<1>14. ASSUME NEW p \in Clients, NEW a \in Asks, ReadCheckpoint(p, a) PROVE LinkingTurn'
  BY <1>14, <1>q DEF ReadCheckpoint, runVars
<1>15. ASSUME NEW p \in Clients, Claim(p) PROVE LinkingTurn'
  BY <1>15 DEF LinkingTurn, TypeOK, RunTypes, Claim
<1>16. ASSUME NEW p \in Clients, LoseClaim(p) PROVE LinkingTurn'
  BY <1>16, <1>q DEF LoseClaim, runVars
<1>17. ASSUME NEW p \in Clients, Act(p) PROVE LinkingTurn'
  BY <1>17, <1>q DEF Act, runVars
<1>18. ASSUME NEW p \in Clients, AppendAnswer(p) PROVE LinkingTurn'
  BY <1>18 DEF LinkingTurn, TypeOK, RunTypes, AppendAnswer
<1>19. ASSUME NEW p \in Clients, AnswerRefused(p) PROVE LinkingTurn'
  BY <1>19 DEF LinkingTurn, TypeOK, RunTypes, AnswerRefused
<1>20. ASSUME NEW p \in Clients, ReadSupervisor(p) PROVE LinkingTurn'
  BY <1>20, <1>q DEF ReadSupervisor, runVars
<1>21. ASSUME NEW p \in Clients, Deliver(p) PROVE LinkingTurn'
  BY <1>21, <1>q DEF Deliver, runVars
<1>22. ASSUME NEW p \in Clients, Settle(p) PROVE LinkingTurn'
  BY <1>22, <1>q DEF Settle, runVars
<1>23. ASSUME NEW p \in Clients, ClaimSupervisor(p) PROVE LinkingTurn'
  BY <1>23 DEF LinkingTurn, TypeOK, RunTypes, ClaimSupervisor
<1>24. ASSUME NEW p \in Clients, LoseSupervisor(p) PROVE LinkingTurn'
  BY <1>24, <1>q DEF LoseSupervisor, runVars
<1>25. ASSUME NEW r \in Delegated, FailInTurn(r) PROVE LinkingTurn'
  BY <1>25, NullAssumption, TreeAssumption
  DEF LinkingTurn, TypeOK, RunTypes, FailInTurn, TurnFails, DropTurn
<1>26. ASSUME NEW r \in Runs, Retry(r) PROVE LinkingTurn'
  BY <1>26, NullAssumption, TreeAssumption DEF LinkingTurn, TypeOK, RunTypes, Retry, DropTurn
<1>27. ASSUME NEW p \in Clients, Fail(p) PROVE LinkingTurn'
  BY <1>27, NullAssumption, TreeAssumption
  DEF LinkingTurn, TypeOK, RunTypes, Fail, TurnFails, DropTurn
<1>28. ASSUME NEW p \in Clients, ActThrows(p) PROVE LinkingTurn'
  BY <1>28 DEF LinkingTurn, TypeOK, RunTypes, ActThrows
<1>29. ASSUME Crash PROVE LinkingTurn'
  BY <1>29 DEF LinkingTurn, TypeOK, RunTypes, Crash
<1>30. ASSUME NEW r \in Runs, DeleteSession(r) PROVE LinkingTurn'
  BY <1>30, <1>q DEF DeleteSession, runVars
<1>31. ASSUME UNCHANGED vars PROVE LinkingTurn'
  BY <1>31, <1>q DEF vars, runVars
<1> QED
  BY <1>1, <1>2, <1>3, <1>4, <1>5, <1>6, <1>7, <1>8, <1>9, <1>10, <1>11, <1>12, <1>13,
     <1>14, <1>15, <1>16, <1>17, <1>18, <1>19, <1>20, <1>21, <1>22, <1>23, <1>24, <1>25,
     <1>26, <1>27, <1>28, <1>29, <1>30, <1>31
  DEF Next, Turn, Linkage, Resume, Faulty, Answering, Starting

\* It is not asked, told, or in anybody's custody yet.
LEMMA NextAskFresh ==
  ASSUME TypeOK, AskedFirst, NEW r \in Runs, asked[r] < MaxAsk
  PROVE  /\ <<r, asked[r] + 1>> \notin rows
         /\ <<r, asked[r] + 1>> \notin known
         /\ \A s \in Runs : <<r, asked[r] + 1>> \notin crumbs[s]
PROOF
<1> DEFINE a == <<r, asked[r] + 1>>
<1>1. a \in Asks /\ a[1] = r /\ a[2] > asked[r]
  BY NextAsk DEF TypeOK, RunTypes
<1> QED BY <1>1 DEF AskedFirst

\* What linkDelegatedChild has read is in the custody of that turn.
LEMMA ReadInCustody ==
  ASSUME TypeOK, LinkingTurn, Custody, NEW s \in Runs, reading[s] # NoRun
  PROVE  /\ held[reading[s]] \in crumbs[s]
         /\ held[reading[s]] \in Asks
         /\ held[reading[s]] \notin known
PROOF
<1> DEFINE c == reading[s]
<1>1. c \in Delegated /\ Super[c] = s /\ held[c] # NoAsk
  BY DEF LinkingTurn, TypeOK, RunTypes
<1>2. held[c] \in crumbs[s]
  BY <1>1 DEF Custody
<1> QED BY <1>2 DEF Custody, TypeOK, RunTypes

\* The result of a delegate call is not the answer to a question.
LEMMA DelegateResult ==
  ASSUME TypeOK, NEW c \in Delegated, AppendResult(c)
  PROVE  \A a \in Asks : results'[a] = results[a]
PROOF
  BY CallAssumption DEF AppendResult, TypeOK, StoreTypes

\* Nothing is known of a question before it is asked.
LEMMA AskedStep ==
  TypeOK /\ StreamCarries /\ AskedFirst /\ Custody /\ LinkingTurn /\ [Next]_vars => AskedFirst'
PROOF
<1> SUFFICES ASSUME TypeOK, StreamCarries, AskedFirst, Custody, LinkingTurn, [Next]_vars
             PROVE AskedFirst'
  OBVIOUS
<1>q. ASSUME UNCHANGED <<asked, rows, known, crumbs>> PROVE AskedFirst'
  BY <1>q DEF AskedFirst
<1>1. ASSUME NEW p \in Clients, Start(p) PROVE AskedFirst'
  BY <1>1, <1>q DEF Start, countVars
<1>2. ASSUME NEW s \in Runs, NEW c \in Delegated, Call(s, c) PROVE AskedFirst'
  BY <1>2, <1>q DEF Call, countVars
<1>3. ASSUME NEW r \in Delegated, AskInTurn(r) PROVE AskedFirst'
  BY <1>3, BoundAssumption DEF AskedFirst, TypeOK, RunTypes, AskInTurn, SuspendRun
<1>4. ASSUME NEW r \in Delegated, EndInTurn(r) PROVE AskedFirst'
  BY <1>4, <1>q DEF EndInTurn, countVars
<1>5. ASSUME NEW p \in Clients, Ask(p) PROVE AskedFirst'
  BY <1>5, BoundAssumption DEF AskedFirst, TypeOK, RunTypes, Ask, SuspendRun
<1>6. ASSUME NEW p \in Clients, End(p) PROVE AskedFirst'
  BY <1>6, <1>q DEF End, storeVars, countVars
<1>7. ASSUME NEW s \in Runs, TurnSettles(s) PROVE AskedFirst'
  BY <1>7, <1>q DEF TurnSettles, storeVars, countVars
<1>8. ASSUME NEW s \in Runs, LinkWrite(s) PROVE AskedFirst'
  <2>1. held[reading[s]] \in crumbs[s]
    BY <1>8, ReadInCustody DEF LinkWrite
  <2> QED
    BY <1>8, <2>1 DEF AskedFirst, LinkWrite, countVars
<1>9. ASSUME NEW s \in Runs, LinkRefused(s) PROVE AskedFirst'
  BY <1>9 DEF AskedFirst, TypeOK, RunTypes, LinkRefused, DropCrumbs, countVars
<1>10. ASSUME NEW s \in Runs, NEW k \in Delegated, NEW link \in Links \cup {NoLink},
              ChainSuspend(s, k, link)
       PROVE AskedFirst'
  BY <1>10, <1>q DEF ChainSuspend, countVars
<1>11. ASSUME NEW s \in Runs, NEW c \in Delegated, LinkRead(s, c) PROVE AskedFirst'
  BY <1>11, <1>q DEF LinkRead, storeVars, countVars
<1>12. ASSUME NEW s \in Delegated, NEW last \in Asks, SurfaceInTurn(s, last) PROVE AskedFirst'
  BY <1>12 DEF AskedFirst, TypeOK, RunTypes, SurfaceInTurn, storeVars, countVars
<1>13. ASSUME NEW p \in Clients, Surface(p) PROVE AskedFirst'
  BY <1>13 DEF AskedFirst, TypeOK, RunTypes, Surface, DropCrumbs, storeVars, StreamCarries
<1>14. ASSUME NEW p \in Clients, NEW a \in Asks, ReadCheckpoint(p, a) PROVE AskedFirst'
  BY <1>14, <1>q DEF ReadCheckpoint, storeVars, runVars, countVars
<1>15. ASSUME NEW p \in Clients, Claim(p) PROVE AskedFirst'
  BY <1>15 DEF AskedFirst, TypeOK, RunTypes, Claim, WinsClaim, countVars
<1>16. ASSUME NEW p \in Clients, LoseClaim(p) PROVE AskedFirst'
  BY <1>16 DEF AskedFirst, TypeOK, RunTypes, LoseClaim, WinsClaim, storeVars, runVars, countVars
<1>17. ASSUME NEW p \in Clients, Act(p) PROVE AskedFirst'
  BY <1>17, <1>q DEF Act, storeVars, runVars
<1>18. ASSUME NEW p \in Clients, AppendAnswer(p) PROVE AskedFirst'
  BY <1>18, <1>q DEF AppendAnswer, countVars
<1>19. ASSUME NEW p \in Clients, AnswerRefused(p) PROVE AskedFirst'
  BY <1>19, <1>q DEF AnswerRefused, storeVars, countVars
<1>20. ASSUME NEW p \in Clients, ReadSupervisor(p) PROVE AskedFirst'
  BY <1>20, <1>q DEF ReadSupervisor, storeVars, runVars, countVars
<1>21. ASSUME NEW p \in Clients, Deliver(p) PROVE AskedFirst'
  BY <1>21, <1>q DEF Deliver, runVars, countVars
<1>22. ASSUME NEW p \in Clients, Settle(p) PROVE AskedFirst'
  BY <1>22, <1>q DEF Settle, runVars, countVars
<1>23. ASSUME NEW p \in Clients, ClaimSupervisor(p) PROVE AskedFirst'
  BY <1>23, <1>q DEF ClaimSupervisor, countVars
<1>24. ASSUME NEW p \in Clients, LoseSupervisor(p) PROVE AskedFirst'
  BY <1>24, <1>q DEF LoseSupervisor, storeVars, runVars, countVars
<1>25. ASSUME NEW r \in Delegated, FailInTurn(r) PROVE AskedFirst'
  BY <1>25 DEF AskedFirst, TypeOK, RunTypes, FailInTurn, TurnFails, DropCrumbs
<1>26. ASSUME NEW r \in Runs, Retry(r) PROVE AskedFirst'
  BY <1>26 DEF AskedFirst, TypeOK, RunTypes, Retry, DropCrumbs, storeVars
<1>27. ASSUME NEW p \in Clients, Fail(p) PROVE AskedFirst'
  BY <1>27 DEF AskedFirst, TypeOK, RunTypes, Fail, TurnFails, DropCrumbs, storeVars
<1>28. ASSUME NEW p \in Clients, ActThrows(p) PROVE AskedFirst'
  BY <1>28 DEF AskedFirst, TypeOK, RunTypes, ActThrows, RowsAfterThrow
<1>29. ASSUME Crash PROVE AskedFirst'
  BY <1>29 DEF AskedFirst, TypeOK, RunTypes, Crash, storeVars
<1>30. ASSUME NEW r \in Runs, DeleteSession(r) PROVE AskedFirst'
  BY <1>30 DEF AskedFirst, TypeOK, RunTypes, DeleteSession, runVars, countVars
<1>31. ASSUME UNCHANGED vars PROVE AskedFirst'
  BY <1>31, <1>q DEF vars, countVars, runVars, storeVars
<1> QED
  BY <1>1, <1>2, <1>3, <1>4, <1>5, <1>6, <1>7, <1>8, <1>9, <1>10, <1>11, <1>12, <1>13,
     <1>14, <1>15, <1>16, <1>17, <1>18, <1>19, <1>20, <1>21, <1>22, <1>23, <1>24, <1>25,
     <1>26, <1>27, <1>28, <1>29, <1>30, <1>31
  DEF Next, Turn, Linkage, Resume, Faulty, Answering, Starting

\* Only questions clients know of are answered.
LEMMA ToldStep ==
  TypeOK /\ StreamCarries /\ ToldFirst /\ [Next]_vars => ToldFirst'
PROOF
<1> SUFFICES ASSUME TypeOK, StreamCarries, ToldFirst, [Next]_vars PROVE ToldFirst'
  OBVIOUS
<1>q. ASSUME UNCHANGED <<known, execs, results, pc, target>> PROVE ToldFirst'
  BY <1>q DEF ToldFirst, Claiming
<1>1. ASSUME NEW p \in Clients, Start(p) PROVE ToldFirst'
  BY <1>1 DEF ToldFirst, TypeOK, StoreTypes, CountTypes, StreamTypes, Claiming, Start, countVars
<1>2. ASSUME NEW s \in Runs, NEW c \in Delegated, Call(s, c) PROVE ToldFirst'
  BY <1>2, <1>q DEF Call, streamVars, countVars
<1>3. ASSUME NEW r \in Delegated, AskInTurn(r) PROVE ToldFirst'
  BY <1>3
  DEF ToldFirst, TypeOK, StoreTypes, CountTypes, StreamTypes, Claiming, AskInTurn,
      streamVars
<1>4. ASSUME NEW r \in Delegated, EndInTurn(r) PROVE ToldFirst'
  BY <1>4, CallAssumption
  DEF ToldFirst, TypeOK, StoreTypes, CountTypes, StreamTypes, Claiming, EndInTurn,
      AppendResult, streamVars, countVars
<1>5. ASSUME NEW p \in Clients, Ask(p) PROVE ToldFirst'
  BY <1>5
  DEF ToldFirst, TypeOK, StoreTypes, CountTypes, StreamTypes, Claiming, Ask, StreamCloses
<1>6. ASSUME NEW p \in Clients, End(p) PROVE ToldFirst'
  BY <1>6
  DEF ToldFirst, TypeOK, StoreTypes, CountTypes, StreamTypes, Claiming, End, StreamCloses,
      storeVars, countVars
<1>7. ASSUME NEW s \in Runs, TurnSettles(s) PROVE ToldFirst'
  BY <1>7, <1>q DEF TurnSettles, storeVars, streamVars, countVars
<1>8. ASSUME NEW s \in Runs, LinkWrite(s) PROVE ToldFirst'
  BY <1>8, <1>q DEF LinkWrite, streamVars, countVars
<1>9. ASSUME NEW s \in Runs, LinkRefused(s) PROVE ToldFirst'
  <2>1. \A a \in Asks : results'[a] = results[a]
    BY <1>9, DelegateResult DEF LinkRefused, InTurn
  <2>2. UNCHANGED <<known, execs, target>>
    BY <1>9 DEF LinkRefused, countVars
  <2>3. \A p \in Clients : Claiming(p)' => Claiming(p)
    BY <1>9 DEF LinkRefused, Claiming, TypeOK, StreamTypes
  <2> QED
    BY <2>1, <2>2, <2>3 DEF ToldFirst
<1>10. ASSUME NEW s \in Runs, NEW k \in Delegated, NEW link \in Links \cup {NoLink},
              ChainSuspend(s, k, link)
       PROVE ToldFirst'
  BY <1>10, <1>q DEF ChainSuspend, streamVars, countVars
<1>11. ASSUME NEW s \in Runs, NEW c \in Delegated, LinkRead(s, c) PROVE ToldFirst'
  BY <1>11, <1>q DEF LinkRead, storeVars, streamVars, countVars
<1>12. ASSUME NEW s \in Delegated, NEW last \in Asks, SurfaceInTurn(s, last) PROVE ToldFirst'
  BY <1>12, <1>q DEF SurfaceInTurn, storeVars, streamVars, countVars
<1>13. ASSUME NEW p \in Clients, Surface(p) PROVE ToldFirst'
  BY <1>13
  DEF ToldFirst, TypeOK, StoreTypes, CountTypes, StreamTypes, Claiming, Surface,
      StreamCloses, storeVars
<1>14. ASSUME NEW p \in Clients, NEW a \in Asks, ReadCheckpoint(p, a) PROVE ToldFirst'
  BY <1>14
  DEF ToldFirst, TypeOK, StoreTypes, CountTypes, StreamTypes, Claiming, ReadCheckpoint,
      storeVars, countVars
<1>15. ASSUME NEW p \in Clients, Claim(p) PROVE ToldFirst'
  BY <1>15
  DEF ToldFirst, TypeOK, StoreTypes, CountTypes, StreamTypes, Claiming, Claim, countVars
<1>16. ASSUME NEW p \in Clients, LoseClaim(p) PROVE ToldFirst'
  BY <1>16
  DEF ToldFirst, TypeOK, StoreTypes, CountTypes, StreamTypes, Claiming, LoseClaim, Idle,
      storeVars, countVars
<1>17. ASSUME NEW p \in Clients, Act(p) PROVE ToldFirst'
  BY <1>17 DEF ToldFirst, TypeOK, StoreTypes, CountTypes, StreamTypes, Claiming, Act, storeVars
<1>18. ASSUME NEW p \in Clients, AppendAnswer(p) PROVE ToldFirst'
  BY <1>18
  DEF ToldFirst, TypeOK, StoreTypes, CountTypes, StreamTypes, Claiming, AppendAnswer,
      AppendResult, countVars
<1>19. ASSUME NEW p \in Clients, AnswerRefused(p) PROVE ToldFirst'
  BY <1>19
  DEF ToldFirst, TypeOK, StoreTypes, CountTypes, StreamTypes, Claiming, AnswerRefused, Idle,
      storeVars, countVars
<1>20. ASSUME NEW p \in Clients, ReadSupervisor(p) PROVE ToldFirst'
  BY <1>20
  DEF ToldFirst, TypeOK, StoreTypes, CountTypes, StreamTypes, Claiming, ReadSupervisor,
      Idle, storeVars, countVars
<1>21. ASSUME NEW p \in Clients, Deliver(p) PROVE ToldFirst'
  BY <1>21, CallAssumption
  DEF ToldFirst, TypeOK, StoreTypes, CountTypes, StreamTypes, Claiming, Deliver, Idle,
      AppendResult, countVars, StreamCarries
<1>22. ASSUME NEW p \in Clients, Settle(p) PROVE ToldFirst'
  BY <1>22
  DEF ToldFirst, TypeOK, StoreTypes, CountTypes, StreamTypes, Claiming, Settle, Idle,
      countVars
<1>23. ASSUME NEW p \in Clients, ClaimSupervisor(p) PROVE ToldFirst'
  BY <1>23
  DEF ToldFirst, TypeOK, StoreTypes, CountTypes, StreamTypes, Claiming, ClaimSupervisor,
      countVars
<1>24. ASSUME NEW p \in Clients, LoseSupervisor(p) PROVE ToldFirst'
  BY <1>24
  DEF ToldFirst, TypeOK, StoreTypes, CountTypes, StreamTypes, Claiming, LoseSupervisor,
      Idle, storeVars, countVars
<1>25. ASSUME NEW r \in Delegated, FailInTurn(r) PROVE ToldFirst'
  BY <1>25, CallAssumption
  DEF ToldFirst, TypeOK, StoreTypes, CountTypes, StreamTypes, Claiming, FailInTurn,
      AppendResult, streamVars
<1>26. ASSUME NEW r \in Runs, Retry(r) PROVE ToldFirst'
  BY <1>26, <1>q DEF Retry, storeVars, streamVars
<1>27. ASSUME NEW p \in Clients, Fail(p) PROVE ToldFirst'
  BY <1>27
  DEF ToldFirst, TypeOK, StoreTypes, CountTypes, StreamTypes, Claiming, Fail, Idle,
      storeVars
<1>28. ASSUME NEW p \in Clients, ActThrows(p) PROVE ToldFirst'
  BY <1>28 DEF ToldFirst, TypeOK, StoreTypes, CountTypes, StreamTypes, Claiming, ActThrows, Idle
<1>29. ASSUME Crash PROVE ToldFirst'
  BY <1>29
  DEF ToldFirst, TypeOK, StoreTypes, CountTypes, StreamTypes, Claiming, Crash, storeVars
<1>30. ASSUME NEW r \in Runs, DeleteSession(r) PROVE ToldFirst'
  BY <1>30, <1>q DEF DeleteSession, streamVars, countVars
<1>31. ASSUME UNCHANGED vars PROVE ToldFirst'
  BY <1>31, <1>q DEF vars, countVars, storeVars, streamVars
<1> QED
  BY <1>1, <1>2, <1>3, <1>4, <1>5, <1>6, <1>7, <1>8, <1>9, <1>10, <1>11, <1>12, <1>13,
     <1>14, <1>15, <1>16, <1>17, <1>18, <1>19, <1>20, <1>21, <1>22, <1>23, <1>24, <1>25,
     <1>26, <1>27, <1>28, <1>29, <1>30, <1>31
  DEF Next, Turn, Linkage, Resume, Faulty, Answering, Starting

\* Custody passes up, and ends when the clients are told.
LEMMA CustodyStep ==
  TypeOK /\ StreamCarries /\ NoCallback /\ AskedFirst /\ Custody /\ LinkingTurn /\ [Next]_vars
    => Custody'
PROOF
<1> SUFFICES ASSUME TypeOK, StreamCarries, NoCallback, AskedFirst, Custody, LinkingTurn,
                    [Next]_vars
             PROVE Custody'
  OBVIOUS
<1>q. ASSUME UNCHANGED <<crumbs, known, held>> PROVE Custody'
  BY <1>q DEF Custody
<1>1. ASSUME NEW p \in Clients, Start(p) PROVE Custody'
  BY <1>1, <1>q DEF Start, countVars
<1>2. ASSUME NEW s \in Runs, NEW c \in Delegated, Call(s, c) PROVE Custody'
  BY <1>2, <1>q DEF Call, countVars
<1>3. ASSUME NEW r \in Delegated, AskInTurn(r) PROVE Custody'
  <2> DEFINE a == <<r, asked[r] + 1>>
  <2>1. r \in Runs /\ asked[r] < MaxAsk
    BY <1>3 DEF AskInTurn
  <2>2. a \in Asks /\ a # NoAsk /\ a \notin rows /\ a \notin known
    BY <2>1, NextAsk, NextAskFresh
  <2>3. \A s \in Runs : a \notin crumbs[s]
    BY <2>1, NextAskFresh
  <2>4. known' = known
    BY <1>3 DEF AskInTurn, NoCallback
  <2>5. crumbs' = [crumbs EXCEPT ![Super[r]] = crumbs[Super[r]] \cup {a}] /\ held' = [held EXCEPT ![r] = a]
    BY <1>3 DEF AskInTurn
  <2>6. /\ Super[r] \in Runs
        /\ crumbs'[Super[r]] = crumbs[Super[r]] \cup {a}
        /\ \A s \in Runs \ {Super[r]} : crumbs'[s] = crumbs[s]
    BY <2>5, TreeAssumption DEF TypeOK, RunTypes
  <2>7. \A c \in Delegated : held'[c] = IF c = r THEN a ELSE held[c]
    BY <2>5 DEF TypeOK, RunTypes
  <2>8. \A s \in Runs : crumbs'[s] \cap known' = {}
    BY <2>2, <2>4, <2>6 DEF Custody
  <2>9. \A s, u \in Runs : s # u => crumbs'[s] \cap crumbs'[u] = {}
    BY <2>3, <2>6 DEF Custody
  <2>10. \A c \in Delegated : held'[c] # NoAsk => held'[c] \in crumbs'[Super[c]]
    BY <2>6, <2>7, TreeAssumption DEF Custody
  <2> QED
    BY <2>8, <2>9, <2>10 DEF Custody
<1>4. ASSUME NEW r \in Delegated, EndInTurn(r) PROVE Custody'
  BY <1>4, <1>q DEF EndInTurn, countVars
<1>5. ASSUME NEW p \in Clients, Ask(p) PROVE Custody'
  <2> DEFINE a == <<run[p], asked[run[p]] + 1>>
  <2>1. run[p] \in Runs /\ asked[run[p]] < MaxAsk
    BY <1>5 DEF Ask, StreamCarries
  <2>2. a \in Asks /\ a # NoAsk /\ a \notin rows /\ a \notin known
    BY <2>1, NextAsk, NextAskFresh
  <2>3. \A s \in Runs : a \notin crumbs[s]
    BY <2>1, NextAskFresh
  <2>4. known' = known \cup {a} /\ crumbs' = crumbs /\ held' = held
    BY <1>5 DEF Ask
  <2> QED
    BY <2>3, <2>4 DEF Custody
<1>6. ASSUME NEW p \in Clients, End(p) PROVE Custody'
  BY <1>6, <1>q DEF End, countVars
<1>7. ASSUME NEW s \in Runs, TurnSettles(s) PROVE Custody'
  BY <1>7, <1>q DEF TurnSettles, countVars
<1>8. ASSUME NEW s \in Runs, LinkWrite(s) PROVE Custody'
  BY <1>8, <1>q DEF LinkWrite, countVars
<1>9. ASSUME NEW s \in Runs, LinkRefused(s) PROVE Custody'
  BY <1>9, TreeAssumption
  DEF Custody, TypeOK, RunTypes, LinkRefused, DropTurn, DropCrumbs, countVars
<1>10. ASSUME NEW s \in Runs, NEW k \in Delegated, NEW link \in Links \cup {NoLink},
              ChainSuspend(s, k, link)
       PROVE Custody'
  BY <1>10, <1>q DEF ChainSuspend, countVars
<1>11. ASSUME NEW s \in Runs, NEW c \in Delegated, LinkRead(s, c) PROVE Custody'
  BY <1>11, <1>q DEF LinkRead, countVars
<1>12. ASSUME NEW s \in Delegated, NEW last \in Asks, SurfaceInTurn(s, last) PROVE Custody'
  <2>1. s \in Runs /\ Super[s] \in Runs /\ Super[s] # s
    BY TreeAssumption
  <2>2. crumbs'[s] = {} /\ crumbs'[Super[s]] = crumbs[Super[s]] \cup crumbs[s]
    BY <1>12, <2>1 DEF SurfaceInTurn, TypeOK, RunTypes
  <2>3. \A t \in Runs \ {s, Super[s]} : crumbs'[t] = crumbs[t]
    BY <1>12, <2>1 DEF SurfaceInTurn, TypeOK, RunTypes
  <2>4. known' = known /\ last \in crumbs[s]
    BY <1>12 DEF SurfaceInTurn, countVars
  <2>5. \A c \in Delegated : held'[c] = IF c = s THEN last
                                       ELSE IF Super[c] = s THEN NoAsk ELSE held[c]
    BY <1>12 DEF SurfaceInTurn
  <2>6. \A t \in Runs : crumbs'[t] \cap known' = {}
    BY <2>1, <2>2, <2>3, <2>4 DEF Custody
  <2>7. \A t, u \in Runs : t # u => crumbs'[t] \cap crumbs'[u] = {}
    BY <2>1, <2>2, <2>3 DEF Custody
  <2>8. \A c \in Delegated : held'[c] # NoAsk => held'[c] \in crumbs'[Super[c]]
    BY <2>1, <2>2, <2>3, <2>4, <2>5, TreeAssumption DEF Custody
  <2> QED
    BY <2>6, <2>7, <2>8 DEF Custody
<1>13. ASSUME NEW p \in Clients, Surface(p) PROVE Custody'
  <2>1. run[p] \in Runs
    BY <1>13 DEF Surface, StreamCarries
  <2>2. known' = known \cup crumbs[run[p]] /\ crumbs' = [crumbs EXCEPT ![run[p]] = {}]
    BY <1>13 DEF Surface, DropCrumbs
  <2>3. \A c \in Delegated : held'[c] = IF Super[c] = run[p] THEN NoAsk ELSE held[c]
    BY <1>13 DEF Surface, DropTurn
  <2> QED
    BY <2>1, <2>2, <2>3, TreeAssumption DEF Custody, TypeOK, RunTypes
<1>14. ASSUME NEW p \in Clients, NEW a \in Asks, ReadCheckpoint(p, a) PROVE Custody'
  BY <1>14, <1>q DEF ReadCheckpoint, runVars, countVars
<1>15. ASSUME NEW p \in Clients, Claim(p) PROVE Custody'
  BY <1>15, <1>q DEF Claim, countVars
<1>16. ASSUME NEW p \in Clients, LoseClaim(p) PROVE Custody'
  BY <1>16, <1>q DEF LoseClaim, runVars, countVars
<1>17. ASSUME NEW p \in Clients, Act(p) PROVE Custody'
  BY <1>17, <1>q DEF Act, runVars
<1>18. ASSUME NEW p \in Clients, AppendAnswer(p) PROVE Custody'
  BY <1>18, <1>q DEF AppendAnswer, countVars
<1>19. ASSUME NEW p \in Clients, AnswerRefused(p) PROVE Custody'
  BY <1>19, <1>q DEF AnswerRefused, countVars
<1>20. ASSUME NEW p \in Clients, ReadSupervisor(p) PROVE Custody'
  BY <1>20, <1>q DEF ReadSupervisor, runVars, countVars
<1>21. ASSUME NEW p \in Clients, Deliver(p) PROVE Custody'
  BY <1>21, <1>q DEF Deliver, runVars, countVars
<1>22. ASSUME NEW p \in Clients, Settle(p) PROVE Custody'
  BY <1>22, <1>q DEF Settle, runVars, countVars
<1>23. ASSUME NEW p \in Clients, ClaimSupervisor(p) PROVE Custody'
  BY <1>23, <1>q DEF ClaimSupervisor, countVars
<1>24. ASSUME NEW p \in Clients, LoseSupervisor(p) PROVE Custody'
  BY <1>24, <1>q DEF LoseSupervisor, runVars, countVars
<1>25. ASSUME NEW r \in Delegated, FailInTurn(r) PROVE Custody'
  BY <1>25, TreeAssumption
  DEF Custody, TypeOK, RunTypes, FailInTurn, TurnFails, DropTurn, DropCrumbs
<1>26. ASSUME NEW r \in Runs, Retry(r) PROVE Custody'
  BY <1>26, TreeAssumption DEF Custody, TypeOK, RunTypes, Retry, DropTurn, DropCrumbs
<1>27. ASSUME NEW p \in Clients, Fail(p) PROVE Custody'
  BY <1>27, TreeAssumption DEF Custody, TypeOK, RunTypes, Fail, TurnFails, DropTurn, DropCrumbs
<1>28. ASSUME NEW p \in Clients, ActThrows(p) PROVE Custody'
  BY <1>28, <1>q DEF ActThrows
<1>29. ASSUME Crash PROVE Custody'
  BY <1>29 DEF Custody, TypeOK, RunTypes, Crash
<1>30. ASSUME NEW r \in Runs, DeleteSession(r) PROVE Custody'
  BY <1>30, <1>q DEF DeleteSession, runVars, countVars
<1>31. ASSUME UNCHANGED vars PROVE Custody'
  BY <1>31, <1>q DEF vars, countVars, runVars
<1> QED
  BY <1>1, <1>2, <1>3, <1>4, <1>5, <1>6, <1>7, <1>8, <1>9, <1>10, <1>11, <1>12, <1>13,
     <1>14, <1>15, <1>16, <1>17, <1>18, <1>19, <1>20, <1>21, <1>22, <1>23, <1>24, <1>25,
     <1>26, <1>27, <1>28, <1>29, <1>30, <1>31
  DEF Next, Turn, Linkage, Resume, Faulty, Answering, Starting

\* A question in custody is in the store as long as its session is.
LEMMA WithdrawnStep ==
  TypeOK /\ ToldFirst /\ AskedFirst /\ Custody /\ Withdrawn /\ [Next]_vars => Withdrawn'
PROOF
<1> SUFFICES ASSUME TypeOK, ToldFirst, AskedFirst, Custody, Withdrawn, [Next]_vars
             PROVE Withdrawn'
  OBVIOUS
<1>q. ASSUME UNCHANGED <<crumbs, rows, sess, status, asked>> PROVE Withdrawn'
  BY <1>q DEF Withdrawn
<1>1. ASSUME NEW p \in Clients, Start(p) PROVE Withdrawn'
  <2>1. \A s \in Runs : \A a \in crumbs[s] : a \in Asks /\ a[1] # Root
    BY <1>1, TreeAssumption, BoundAssumption
    DEF Start, AskedFirst, Withdrawn, TypeOK, RunTypes
  <2> QED
    BY <1>1, <2>1, TreeAssumption DEF Withdrawn, TypeOK, RunTypes, Start
<1>2. ASSUME NEW s \in Runs, NEW c \in Delegated, Call(s, c) PROVE Withdrawn'
  <2>1. \A t \in Runs : \A a \in crumbs[t] : a \in Asks /\ a[1] # c
    BY <1>2, BoundAssumption DEF Call, AskedFirst, Withdrawn, TypeOK, RunTypes
  <2> QED
    BY <1>2, <2>1 DEF Withdrawn, TypeOK, RunTypes, Call
<1>3. ASSUME NEW r \in Delegated, AskInTurn(r) PROVE Withdrawn'
  BY <1>3 DEF Withdrawn, TypeOK, RunTypes, StoreTypes, AskInTurn, SuspendRun
<1>4. ASSUME NEW r \in Delegated, EndInTurn(r) PROVE Withdrawn'
  BY <1>4 DEF Withdrawn, TypeOK, RunTypes, StoreTypes, EndInTurn
<1>5. ASSUME NEW p \in Clients, Ask(p) PROVE Withdrawn'
  BY <1>5 DEF Withdrawn, TypeOK, RunTypes, StoreTypes, Ask, SuspendRun
<1>6. ASSUME NEW p \in Clients, End(p) PROVE Withdrawn'
  BY <1>6 DEF Withdrawn, TypeOK, RunTypes, StoreTypes, End, storeVars
<1>7. ASSUME NEW s \in Runs, TurnSettles(s) PROVE Withdrawn'
  BY <1>7 DEF Withdrawn, TypeOK, RunTypes, StoreTypes, TurnSettles, storeVars
<1>8. ASSUME NEW s \in Runs, LinkWrite(s) PROVE Withdrawn'
  BY <1>8 DEF Withdrawn, TypeOK, RunTypes, StoreTypes, LinkWrite
<1>9. ASSUME NEW s \in Runs, LinkRefused(s) PROVE Withdrawn'
  BY <1>9 DEF Withdrawn, TypeOK, RunTypes, StoreTypes, LinkRefused, DropCrumbs
<1>10. ASSUME NEW s \in Runs, NEW k \in Delegated, NEW link \in Links \cup {NoLink},
              ChainSuspend(s, k, link)
       PROVE Withdrawn'
  BY <1>10 DEF Withdrawn, TypeOK, RunTypes, StoreTypes, ChainSuspend
<1>11. ASSUME NEW s \in Runs, NEW c \in Delegated, LinkRead(s, c) PROVE Withdrawn'
  BY <1>11, <1>q DEF LinkRead, storeVars
<1>12. ASSUME NEW s \in Delegated, NEW last \in Asks, SurfaceInTurn(s, last) PROVE Withdrawn'
  BY <1>12 DEF Withdrawn, TypeOK, RunTypes, StoreTypes, SurfaceInTurn, storeVars
<1>13. ASSUME NEW p \in Clients, Surface(p) PROVE Withdrawn'
  BY <1>13 DEF Withdrawn, TypeOK, RunTypes, StoreTypes, Surface, DropCrumbs, storeVars
<1>14. ASSUME NEW p \in Clients, NEW a \in Asks, ReadCheckpoint(p, a) PROVE Withdrawn'
  BY <1>14, <1>q DEF ReadCheckpoint, storeVars, runVars
<1>15. ASSUME NEW p \in Clients, Claim(p) PROVE Withdrawn'
  <2>1. \A s \in Runs : target[p] \notin crumbs[s]
    BY <1>15 DEF Claim, ToldFirst, Claiming, Custody
  <2> QED
    BY <1>15, <2>1 DEF Withdrawn, TypeOK, RunTypes, Claim
<1>16. ASSUME NEW p \in Clients, LoseClaim(p) PROVE Withdrawn'
  BY <1>16 DEF Withdrawn, TypeOK, RunTypes, StoreTypes, LoseClaim, WinsClaim, storeVars, runVars
<1>17. ASSUME NEW p \in Clients, Act(p) PROVE Withdrawn'
  BY <1>17, <1>q DEF Act, storeVars, runVars
<1>18. ASSUME NEW p \in Clients, AppendAnswer(p) PROVE Withdrawn'
  BY <1>18 DEF Withdrawn, TypeOK, RunTypes, StoreTypes, AppendAnswer
<1>19. ASSUME NEW p \in Clients, AnswerRefused(p) PROVE Withdrawn'
  BY <1>19 DEF Withdrawn, TypeOK, RunTypes, StoreTypes, AnswerRefused, storeVars
<1>20. ASSUME NEW p \in Clients, ReadSupervisor(p) PROVE Withdrawn'
  BY <1>20, <1>q DEF ReadSupervisor, storeVars, runVars
<1>21. ASSUME NEW p \in Clients, Deliver(p) PROVE Withdrawn'
  BY <1>21, <1>q DEF Deliver, runVars
<1>22. ASSUME NEW p \in Clients, Settle(p) PROVE Withdrawn'
  BY <1>22, <1>q DEF Settle, runVars
<1>23. ASSUME NEW p \in Clients, ClaimSupervisor(p) PROVE Withdrawn'
  BY <1>23 DEF Withdrawn, TypeOK, RunTypes, StoreTypes, ClaimSupervisor
<1>24. ASSUME NEW p \in Clients, LoseSupervisor(p) PROVE Withdrawn'
  BY <1>24, <1>q DEF LoseSupervisor, storeVars, runVars
<1>25. ASSUME NEW r \in Delegated, FailInTurn(r) PROVE Withdrawn'
  BY <1>25 DEF Withdrawn, TypeOK, RunTypes, StoreTypes, FailInTurn, TurnFails, DropCrumbs
<1>26. ASSUME NEW r \in Runs, Retry(r) PROVE Withdrawn'
  BY <1>26 DEF Withdrawn, TypeOK, RunTypes, StoreTypes, Retry, DropCrumbs, storeVars
<1>27. ASSUME NEW p \in Clients, Fail(p) PROVE Withdrawn'
  BY <1>27 DEF Withdrawn, TypeOK, RunTypes, StoreTypes, Fail, TurnFails, DropCrumbs, storeVars
<1>28. ASSUME NEW p \in Clients, ActThrows(p) PROVE Withdrawn'
  BY <1>28 DEF Withdrawn, TypeOK, RunTypes, StoreTypes, ActThrows, RowsAfterThrow
<1>29. ASSUME Crash PROVE Withdrawn'
  BY <1>29 DEF Withdrawn, TypeOK, RunTypes, StoreTypes, Crash, storeVars
<1>30. ASSUME NEW r \in Runs, DeleteSession(r) PROVE Withdrawn'
  BY <1>30 DEF Withdrawn, TypeOK, RunTypes, StoreTypes, DeleteSession, runVars
<1>31. ASSUME UNCHANGED vars PROVE Withdrawn'
  BY <1>31, <1>q DEF vars, runVars, storeVars
<1> QED
  BY <1>1, <1>2, <1>3, <1>4, <1>5, <1>6, <1>7, <1>8, <1>9, <1>10, <1>11, <1>12, <1>13,
     <1>14, <1>15, <1>16, <1>17, <1>18, <1>19, <1>20, <1>21, <1>22, <1>23, <1>24, <1>25,
     <1>26, <1>27, <1>28, <1>29, <1>30, <1>31
  DEF Next, Turn, Linkage, Resume, Faulty, Answering, Starting

\* A claim is won by one resume, which then answers once.
LEMMA ClaimStep ==
  TypeOK /\ StreamCarries /\ AskedFirst /\ ToldFirst /\ OneClaim /\ AnsweredOnce /\ Custody /\ LinkingTurn /\ [Next]_vars
    => OneClaim' /\ AnsweredOnce'
PROOF
<1> SUFFICES ASSUME TypeOK, StreamCarries, AskedFirst, ToldFirst, OneClaim, AnsweredOnce,
                    Custody, LinkingTurn, [Next]_vars
             PROVE OneClaim' /\ AnsweredOnce'
  OBVIOUS
<1>q. ASSUME UNCHANGED <<rows, execs, results, pc, target>> PROVE OneClaim' /\ AnsweredOnce'
  BY <1>q DEF OneClaim, AnsweredOnce, Claimed
<1>d. ASSUME UNCHANGED <<rows, execs, target>>, \A a \in Asks : results'[a] = results[a],
             \A q \in Clients : Claimed(q)' => Claimed(q) /\ pc'[q] = pc[q]
      PROVE  OneClaim' /\ AnsweredOnce'
  <2>1. rows \subseteq Asks /\ \A p \in Clients : Claimed(p) => target[p] \in Asks
    BY DEF ToldFirst, Claiming, Claimed, TypeOK, StoreTypes, CountTypes
  <2> QED
    BY <1>d, <2>1 DEF OneClaim, AnsweredOnce
<1>1. ASSUME NEW p \in Clients, Start(p) PROVE OneClaim' /\ AnsweredOnce'
  BY <1>1
  DEF OneClaim, AnsweredOnce, Claimed, TypeOK, StoreTypes, CountTypes, StreamTypes, Start,
      countVars
<1>2. ASSUME NEW s \in Runs, NEW c \in Delegated, Call(s, c) PROVE OneClaim' /\ AnsweredOnce'
  BY <1>2, <1>q DEF Call, streamVars, countVars
<1>3. ASSUME NEW r \in Delegated, AskInTurn(r) PROVE OneClaim' /\ AnsweredOnce'
  <2> DEFINE a == <<r, asked[r] + 1>>
  <2>1. r \in Runs /\ asked[r] < MaxAsk
    BY <1>3 DEF AskInTurn
  <2>2. a \in Asks /\ a # NoAsk /\ a \notin rows /\ a \notin known
    BY <2>1, NextAsk, NextAskFresh
  <2>3. \A s \in Runs : a \notin crumbs[s]
    BY <2>1, NextAskFresh
  <2>4. execs[a] = 0 /\ results[a] = 0 /\ \A p \in Clients : Claimed(p) => target[p] # a
    BY <2>2 DEF ToldFirst, Claiming, Claimed
  <2>5. rows' = rows \cup {a} /\ UNCHANGED <<execs, results, pc, target>>
    BY <1>3 DEF AskInTurn, SuspendRun, streamVars
  <2> QED
    BY <2>4, <2>5 DEF OneClaim, AnsweredOnce, Claimed
<1>4. ASSUME NEW r \in Delegated, EndInTurn(r) PROVE OneClaim' /\ AnsweredOnce'
  <2>1. \A a \in Asks : results'[a] = results[a]
    BY <1>4, DelegateResult DEF EndInTurn
  <2>2. UNCHANGED <<rows, execs, target>>
    BY <1>4 DEF EndInTurn, streamVars, countVars
  <2>3. \A q \in Clients : Claimed(q)' => Claimed(q) /\ pc'[q] = pc[q]
    BY <1>4 DEF EndInTurn, streamVars, Claimed
  <2> QED
    BY <2>1, <2>2, <2>3, <1>d
<1>5. ASSUME NEW p \in Clients, Ask(p) PROVE OneClaim' /\ AnsweredOnce'
  <2> DEFINE a == <<run[p], asked[run[p]] + 1>>
  <2>1. run[p] \in Runs /\ asked[run[p]] < MaxAsk
    BY <1>5 DEF Ask, StreamCarries
  <2>2. a \in Asks /\ a # NoAsk /\ a \notin rows /\ a \notin known
    BY <2>1, NextAsk, NextAskFresh
  <2>3. \A s \in Runs : a \notin crumbs[s]
    BY <2>1, NextAskFresh
  <2>4. execs[a] = 0 /\ results[a] = 0 /\ \A q \in Clients : Claimed(q) => target[q] # a
    BY <2>2 DEF ToldFirst, Claiming, Claimed
  <2>5. rows' = rows \cup {a} /\ UNCHANGED <<execs, results, target>>
    BY <1>5 DEF Ask, SuspendRun
  <2>6. \A q \in Clients : Claimed(q)' => Claimed(q) /\ pc'[q] = pc[q]
    BY <1>5 DEF Ask, StreamCloses, Claimed, TypeOK, StreamTypes
  <2> QED
    BY <2>4, <2>5, <2>6 DEF OneClaim, AnsweredOnce, Claimed
<1>6. ASSUME NEW p \in Clients, End(p) PROVE OneClaim' /\ AnsweredOnce'
  BY <1>6
  DEF OneClaim, AnsweredOnce, Claimed, TypeOK, StoreTypes, CountTypes, StreamTypes, End,
      StreamCloses, storeVars, countVars
<1>7. ASSUME NEW s \in Runs, TurnSettles(s) PROVE OneClaim' /\ AnsweredOnce'
  BY <1>7, <1>q DEF TurnSettles, storeVars, streamVars, countVars
<1>8. ASSUME NEW s \in Runs, LinkWrite(s) PROVE OneClaim' /\ AnsweredOnce'
  <2> DEFINE a == held[reading[s]]
  <2>1. a \in Asks /\ a \notin known
    BY <1>8, ReadInCustody DEF LinkWrite
  <2>2. execs[a] = 0 /\ results[a] = 0 /\ \A p \in Clients : Claimed(p) => target[p] # a
    BY <2>1 DEF ToldFirst, Claiming, Claimed
  <2>3. rows' = rows \cup {a} /\ UNCHANGED <<execs, results, pc, target>>
    BY <1>8 DEF LinkWrite, streamVars, countVars
  <2> QED
    BY <2>2, <2>3 DEF OneClaim, AnsweredOnce, Claimed
<1>9. ASSUME NEW s \in Runs, LinkRefused(s) PROVE OneClaim' /\ AnsweredOnce'
  <2>1. \A a \in Asks : results'[a] = results[a]
    BY <1>9, DelegateResult DEF LinkRefused, InTurn
  <2>2. UNCHANGED <<rows, execs, target>>
    BY <1>9 DEF LinkRefused, countVars
  <2>3. \A q \in Clients : Claimed(q)' => Claimed(q) /\ pc'[q] = pc[q]
    BY <1>9 DEF LinkRefused, Claimed, TypeOK, StreamTypes
  <2> QED
    BY <2>1, <2>2, <2>3, <1>d
<1>10. ASSUME NEW s \in Runs, NEW k \in Delegated, NEW link \in Links \cup {NoLink},
              ChainSuspend(s, k, link)
       PROVE OneClaim' /\ AnsweredOnce'
  BY <1>10, <1>q DEF ChainSuspend, streamVars, countVars
<1>11. ASSUME NEW s \in Runs, NEW c \in Delegated, LinkRead(s, c)
       PROVE OneClaim' /\ AnsweredOnce'
  BY <1>11, <1>q DEF LinkRead, storeVars, streamVars, countVars
<1>12. ASSUME NEW s \in Delegated, NEW last \in Asks, SurfaceInTurn(s, last)
       PROVE OneClaim' /\ AnsweredOnce'
  BY <1>12, <1>q DEF SurfaceInTurn, storeVars, streamVars, countVars
<1>13. ASSUME NEW p \in Clients, Surface(p) PROVE OneClaim' /\ AnsweredOnce'
  BY <1>13
  DEF OneClaim, AnsweredOnce, Claimed, TypeOK, StoreTypes, CountTypes, StreamTypes, Surface,
      StreamCloses, storeVars
<1>14. ASSUME NEW p \in Clients, NEW a \in Asks, ReadCheckpoint(p, a)
       PROVE OneClaim' /\ AnsweredOnce'
  BY <1>14
  DEF OneClaim, AnsweredOnce, Claimed, TypeOK, StoreTypes, CountTypes, StreamTypes,
      ReadCheckpoint, storeVars, countVars
<1>15. ASSUME NEW p \in Clients, Claim(p) PROVE OneClaim' /\ AnsweredOnce'
  <2>1. target[p] \in rows /\ rows' = rows \ {target[p]} /\ pc' = [pc EXCEPT ![p] = "acting"]
    BY <1>15 DEF Claim, WinsClaim
  <2>2. UNCHANGED <<execs, results, target>>
    BY <1>15 DEF Claim, countVars
  <2>3. \A q \in Clients \ {p} : pc'[q] = pc[q] /\ (Claimed(q) => target[q] # target[p])
    BY <2>1 DEF OneClaim, TypeOK, StreamTypes
  <2>4. pc'[p] = "acting" /\ execs[target[p]] = 0 /\ results[target[p]] = 0
    BY <2>1 DEF OneClaim, TypeOK, StreamTypes
  <2> QED
    BY <2>1, <2>2, <2>3, <2>4 DEF OneClaim, AnsweredOnce, Claimed
<1>16. ASSUME NEW p \in Clients, LoseClaim(p) PROVE OneClaim' /\ AnsweredOnce'
  BY <1>16
  DEF OneClaim, AnsweredOnce, Claimed, TypeOK, StoreTypes, CountTypes, StreamTypes,
      LoseClaim, Idle, WinsClaim, storeVars, countVars
<1>17. ASSUME NEW p \in Clients, Act(p) PROVE OneClaim' /\ AnsweredOnce'
  BY <1>17
  DEF OneClaim, AnsweredOnce, Claimed, TypeOK, StoreTypes, CountTypes, StreamTypes, Act,
      storeVars
<1>18. ASSUME NEW p \in Clients, AppendAnswer(p) PROVE OneClaim' /\ AnsweredOnce'
  BY <1>18
  DEF OneClaim, AnsweredOnce, Claimed, TypeOK, StoreTypes, CountTypes, StreamTypes,
      AppendAnswer, AppendResult, countVars
<1>19. ASSUME NEW p \in Clients, AnswerRefused(p) PROVE OneClaim' /\ AnsweredOnce'
  BY <1>19
  DEF OneClaim, AnsweredOnce, Claimed, TypeOK, StoreTypes, CountTypes, StreamTypes,
      AnswerRefused, Idle, storeVars, countVars
<1>20. ASSUME NEW p \in Clients, ReadSupervisor(p) PROVE OneClaim' /\ AnsweredOnce'
  BY <1>20
  DEF OneClaim, AnsweredOnce, Claimed, TypeOK, StoreTypes, CountTypes, StreamTypes,
      ReadSupervisor, Idle, storeVars, countVars
<1>21. ASSUME NEW p \in Clients, Deliver(p) PROVE OneClaim' /\ AnsweredOnce'
  <2>1. \A a \in Asks : results'[a] = results[a]
    BY <1>21, DelegateResult DEF Deliver, StreamCarries, TypeOK, StreamTypes
  <2>2. UNCHANGED <<rows, execs, target>>
    BY <1>21 DEF Deliver, countVars
  <2>3. \A q \in Clients : Claimed(q)' => Claimed(q) /\ pc'[q] = pc[q]
    BY <1>21 DEF Deliver, Idle, Claimed, TypeOK, StreamTypes
  <2> QED
    BY <2>1, <2>2, <2>3, <1>d
<1>22. ASSUME NEW p \in Clients, Settle(p) PROVE OneClaim' /\ AnsweredOnce'
  BY <1>22
  DEF OneClaim, AnsweredOnce, Claimed, TypeOK, StoreTypes, CountTypes, StreamTypes, Settle,
      Idle, countVars
<1>23. ASSUME NEW p \in Clients, ClaimSupervisor(p) PROVE OneClaim' /\ AnsweredOnce'
  BY <1>23
  DEF OneClaim, AnsweredOnce, Claimed, TypeOK, StoreTypes, CountTypes, StreamTypes,
      ClaimSupervisor, countVars
<1>24. ASSUME NEW p \in Clients, LoseSupervisor(p) PROVE OneClaim' /\ AnsweredOnce'
  BY <1>24
  DEF OneClaim, AnsweredOnce, Claimed, TypeOK, StoreTypes, CountTypes, StreamTypes,
      LoseSupervisor, Idle, storeVars, countVars
<1>25. ASSUME NEW r \in Delegated, FailInTurn(r) PROVE OneClaim' /\ AnsweredOnce'
  <2>1. \A a \in Asks : results'[a] = results[a]
    BY <1>25, DelegateResult DEF FailInTurn
  <2>2. UNCHANGED <<rows, execs, target>>
    BY <1>25 DEF FailInTurn, streamVars
  <2>3. \A q \in Clients : Claimed(q)' => Claimed(q) /\ pc'[q] = pc[q]
    BY <1>25 DEF FailInTurn, streamVars, Claimed
  <2> QED
    BY <2>1, <2>2, <2>3, <1>d
<1>26. ASSUME NEW r \in Runs, Retry(r) PROVE OneClaim' /\ AnsweredOnce'
  BY <1>26, <1>q DEF Retry, storeVars, streamVars
<1>27. ASSUME NEW p \in Clients, Fail(p) PROVE OneClaim' /\ AnsweredOnce'
  BY <1>27
  DEF OneClaim, AnsweredOnce, Claimed, TypeOK, StoreTypes, CountTypes, StreamTypes, Fail,
      Idle, storeVars
<1>28. ASSUME NEW p \in Clients, ActThrows(p) PROVE OneClaim' /\ AnsweredOnce'
  BY <1>28
  DEF OneClaim, AnsweredOnce, Claimed, TypeOK, StoreTypes, CountTypes, StreamTypes,
      ActThrows, Idle, RowsAfterThrow
<1>29. ASSUME Crash PROVE OneClaim' /\ AnsweredOnce'
  BY <1>29
  DEF OneClaim, AnsweredOnce, Claimed, TypeOK, StoreTypes, CountTypes, StreamTypes, Crash,
      storeVars
<1>30. ASSUME NEW r \in Runs, DeleteSession(r) PROVE OneClaim' /\ AnsweredOnce'
  BY <1>30
  DEF OneClaim, AnsweredOnce, Claimed, TypeOK, StoreTypes, CountTypes, StreamTypes,
      DeleteSession, streamVars, countVars
<1>31. ASSUME UNCHANGED vars PROVE OneClaim' /\ AnsweredOnce'
  BY <1>31, <1>q DEF vars, countVars, storeVars, streamVars
<1> QED
  BY <1>1, <1>2, <1>3, <1>4, <1>5, <1>6, <1>7, <1>8, <1>9, <1>10, <1>11, <1>12, <1>13,
     <1>14, <1>15, <1>16, <1>17, <1>18, <1>19, <1>20, <1>21, <1>22, <1>23, <1>24, <1>25,
     <1>26, <1>27, <1>28, <1>29, <1>30, <1>31
  DEF Next, Turn, Linkage, Resume, Faulty, Answering, Starting

----------------------------------------------------------------------------
(* The theorems.                                                           *)

LEMMA InvariantInit == Early = FALSE => (Init => IInv)
PROOF
<1> SUFFICES ASSUME Init PROVE IInv
  OBVIOUS
<1>1. TypeOK
  BY TypeInit
<1>2. AskedFirst /\ ToldFirst /\ OneClaim /\ AnsweredOnce
  BY BoundAssumption
  DEF Init, AskedFirst, ToldFirst, OneClaim, AnsweredOnce, Claiming, Claimed
<1>3. Custody /\ LinkingTurn /\ StreamCarries /\ NoCallback /\ Withdrawn
  BY DEF Init, Custody, LinkingTurn, StreamCarries, NoCallback, Withdrawn
<1> QED BY <1>1, <1>2, <1>3 DEF IInv

LEMMA InvariantStep == Early = FALSE => (IInv /\ [Next]_vars => IInv')
PROOF
<1> SUFFICES ASSUME Early = FALSE, IInv, [Next]_vars PROVE IInv'
  OBVIOUS
<1>1. TypeOK' /\ LinkingTurn' /\ StreamCarries'
  BY TypeStep, LinkingStep, StreamStep DEF IInv
<1>2. AskedFirst' /\ ToldFirst'
  BY AskedStep, ToldStep DEF IInv
<1>3. Custody' /\ NoCallback' /\ Withdrawn'
  BY CustodyStep, NoCallbackStep, WithdrawnStep DEF IInv
<1>4. OneClaim' /\ AnsweredOnce'
  BY ClaimStep DEF IInv
<1> QED BY <1>1, <1>2, <1>3, <1>4 DEF IInv

\* Every variable keeps its type, in every mode of the model: whichever turn,
\* resume, crash or deletion comes next, continueRun and resumeRun work on
\* values of the shape they expect.
THEOREM TypeCorrect == Spec => []TypeOK
PROOF
<1> DEFINE Inv == TypeOK /\ LinkingTurn /\ StreamCarries
<1>1. Init => Inv
  BY TypeInit DEF Init, LinkingTurn, StreamCarries
<1>2. Inv /\ [Next]_vars => Inv'
  BY TypeStep, LinkingStep, StreamStep
<1> QED BY <1>1, <1>2, PTL DEF Spec

LEMMA Invariance ==
  ASSUME Early = FALSE
  PROVE  Spec => []IInv
PROOF
<1>1. Init => IInv
  BY InvariantInit
<1>2. IInv /\ [Next]_vars => IInv'
  BY InvariantStep
<1> QED BY <1>1, <1>2, PTL DEF Spec

\* However many clients resume at once, and wherever the process crashes, one
\* checkpoint is acted on at most once: deleteCheckpoint is the claim, and
\* linkDelegatedChild re-creates no checkpoint that somebody could have taken.
THEOREM OneResumeWins ==
  ASSUME Early = FALSE
  PROVE  Spec => []AnsweredOnce
PROOF
<1>1. IInv => AnsweredOnce
  BY DEF IInv
<1> QED BY <1>1, Invariance, PTL

\* The human:required crumb of a delegated run is with one supervisor's turn,
\* and no client knows of it, until that turn has linked the checkpoint.
THEOREM CustodyKept ==
  ASSUME Early = FALSE
  PROVE  Spec => []Custody
PROOF
<1>1. IInv => Custody
  BY DEF IInv
<1> QED BY <1>1, Invariance, PTL

----------------------------------------------------------------------------
(* The checkpoints implement HumanAnswers.                                 *)

AskedSet == {a \in Asks : a[2] <= asked[a[1]]}
AnsweredSet == {a \in Asks : results[a] > 0}

\* Which abstract step a change of the asks, the rows and the answers is.
LEMMA AbstractStutter ==
  ASSUME UNCHANGED <<asked, rows>>, \A a \in Asks : results'[a] = results[a]
  PROVE  UNCHANGED Answers!vars
PROOF
  BY DEF Answers!vars

LEMMA AbstractAsk ==
  ASSUME TypeOK, TypeOK', NEW r \in Runs, asked[r] < MaxAsk,
         asked' = [asked EXCEPT ![r] = asked[r] + 1],
         rows' = rows \cup {<<r, asked[r] + 1>>}, UNCHANGED results
  PROVE  Answers!Next
PROOF
<1>0. PICK a \in Asks : a = <<r, asked[r] + 1>>
  BY NextAsk
<1>1. a[1] = r /\ a[2] = asked[r] + 1 /\ asked[r] \in Nat
  BY <1>0 DEF TypeOK, RunTypes
<1>2. a \notin AskedSet
  BY <1>1 DEF AskedSet
<1>3. AskedSet' = AskedSet \cup {a}
  <2>1. ASSUME NEW b \in Asks PROVE b \in AskedSet' <=> b \in AskedSet \cup {a}
    <3>1. b[1] \in Runs /\ b[2] \in 1..MaxAsk /\ b = <<b[1], b[2]>> /\ asked[b[1]] \in Nat
      BY DEF TypeOK, RunTypes
    <3>2. CASE b[1] # r
      BY <3>1, <3>2, <1>1 DEF AskedSet, TypeOK, RunTypes
    <3>3. CASE b[1] = r
      <4>1. asked'[b[1]] = asked[r] + 1
        BY <3>3, <3>1 DEF TypeOK, RunTypes
      <4>2. b = a <=> b[2] = asked[r] + 1
        BY <3>1, <3>3, <1>0
      <4> QED
        BY <4>1, <4>2, <3>1, <3>3, <1>1, BoundAssumption DEF AskedSet
    <3> QED BY <3>2, <3>3
  <2> QED BY <2>1, <1>1 DEF AskedSet
<1>4. AnsweredSet' = AnsweredSet
  BY DEF AnsweredSet
<1>5. Answers!Ask(a)
  BY <1>0, <1>2, <1>3, <1>4 DEF Answers!Ask, AskedSet, AnsweredSet
<1> QED BY <1>5 DEF Answers!Next

LEMMA AbstractClose ==
  ASSUME UNCHANGED <<asked, results>>, rows' \subseteq rows
  PROVE  Answers!Next \/ UNCHANGED Answers!vars
PROOF
<1>1. CASE rows' = rows
  BY <1>1 DEF Answers!vars
<1>2. CASE rows' # rows
  <2>1. rows \ rows' \in SUBSET rows /\ rows \ rows' # {} /\ rows' = rows \ (rows \ rows')
    BY <1>2
  <2>2. Answers!Close(rows \ rows')
    BY <2>1 DEF Answers!Close
  <2> QED BY <2>1, <2>2 DEF Answers!Next
<1> QED BY <1>1, <1>2

LEMMA AbstractAnswer ==
  ASSUME TypeOK, AskedFirst, NEW a \in Asks, a \in known, a \notin rows, results[a] = 0,
         UNCHANGED <<asked, rows>>, AppendResult(a)
  PROVE  Answers!Next
PROOF
<1>1. a \in AskedSet
  BY BoundAssumption DEF AskedFirst, AskedSet, TypeOK, RunTypes
<1>2. a \notin AnsweredSet
  BY DEF AnsweredSet
<1>3. AnsweredSet' = AnsweredSet \cup {a}
  BY DEF AnsweredSet, AppendResult, TypeOK, StoreTypes
<1>4. Answers!Answer(a)
  BY <1>1, <1>2, <1>3 DEF Answers!Answer, AskedSet, AnsweredSet
<1> QED BY <1>4 DEF Answers!Next

\* Every step is an abstract step, or changes nothing HumanAnswers sees.
LEMMA RefinementStep ==
  ASSUME ForeignKeys = TRUE, IInv, IInv', [Next]_vars
  PROVE  Answers!Next \/ UNCHANGED Answers!vars
PROOF
<1> USE DEF IInv
<1>q. ASSUME UNCHANGED <<asked, rows, results>> PROVE UNCHANGED Answers!vars
  BY <1>q, AbstractStutter
<1>1. ASSUME NEW p \in Clients, Start(p) PROVE Answers!Next \/ UNCHANGED Answers!vars
  BY <1>1, <1>q DEF Start
<1>2. ASSUME NEW s \in Runs, NEW c \in Delegated, Call(s, c)
      PROVE Answers!Next \/ UNCHANGED Answers!vars
  BY <1>2, <1>q DEF Call
<1>3. ASSUME NEW r \in Delegated, AskInTurn(r) PROVE Answers!Next \/ UNCHANGED Answers!vars
  BY <1>3, AbstractAsk DEF AskInTurn, SuspendRun
<1>4. ASSUME NEW r \in Delegated, EndInTurn(r) PROVE Answers!Next \/ UNCHANGED Answers!vars
  <2>1. \A a \in Asks : results'[a] = results[a]
    BY <1>4, DelegateResult DEF EndInTurn
  <2>2. UNCHANGED <<asked, rows>>
    BY <1>4 DEF EndInTurn
  <2> QED
    BY <2>1, <2>2, AbstractStutter
<1>5. ASSUME NEW p \in Clients, Ask(p) PROVE Answers!Next \/ UNCHANGED Answers!vars
  <2>1. run[p] \in Runs
    BY <1>5 DEF Ask, StreamCarries
  <2> QED
    BY <1>5, <2>1, AbstractAsk DEF Ask, SuspendRun
<1>6. ASSUME NEW p \in Clients, End(p) PROVE Answers!Next \/ UNCHANGED Answers!vars
  BY <1>6, <1>q DEF End, storeVars
<1>7. ASSUME NEW s \in Runs, TurnSettles(s) PROVE Answers!Next \/ UNCHANGED Answers!vars
  BY <1>7, <1>q DEF TurnSettles, storeVars
<1>8. ASSUME NEW s \in Runs, LinkWrite(s) PROVE Answers!Next \/ UNCHANGED Answers!vars
  <2>1. held[reading[s]] \in crumbs[s] /\ held[reading[s]][1] \in sess
    BY <1>8, ReadInCustody DEF LinkWrite
  <2>2. held[reading[s]] \in rows
    BY <2>1 DEF Withdrawn
  <2> QED
    BY <1>8, <2>2, <1>q DEF LinkWrite
<1>9. ASSUME NEW s \in Runs, LinkRefused(s) PROVE Answers!Next \/ UNCHANGED Answers!vars
  <2>1. \A a \in Asks : results'[a] = results[a]
    BY <1>9, DelegateResult DEF LinkRefused, InTurn
  <2>2. UNCHANGED <<asked, rows>>
    BY <1>9 DEF LinkRefused
  <2> QED
    BY <2>1, <2>2, AbstractStutter
<1>10. ASSUME NEW s \in Runs, NEW k \in Delegated, NEW link \in Links \cup {NoLink},
              ChainSuspend(s, k, link)
       PROVE Answers!Next \/ UNCHANGED Answers!vars
  BY <1>10, <1>q DEF ChainSuspend
<1>11. ASSUME NEW s \in Runs, NEW c \in Delegated, LinkRead(s, c)
       PROVE Answers!Next \/ UNCHANGED Answers!vars
  BY <1>11, <1>q DEF LinkRead, storeVars
<1>12. ASSUME NEW s \in Delegated, NEW last \in Asks, SurfaceInTurn(s, last)
       PROVE Answers!Next \/ UNCHANGED Answers!vars
  BY <1>12, <1>q DEF SurfaceInTurn, storeVars
<1>13. ASSUME NEW p \in Clients, Surface(p) PROVE Answers!Next \/ UNCHANGED Answers!vars
  BY <1>13, <1>q DEF Surface, storeVars
<1>14. ASSUME NEW p \in Clients, NEW a \in Asks, ReadCheckpoint(p, a)
       PROVE Answers!Next \/ UNCHANGED Answers!vars
  BY <1>14, <1>q DEF ReadCheckpoint, storeVars, runVars
<1>15. ASSUME NEW p \in Clients, Claim(p) PROVE Answers!Next \/ UNCHANGED Answers!vars
  BY <1>15, AbstractClose DEF Claim, runVars
<1>16. ASSUME NEW p \in Clients, LoseClaim(p) PROVE Answers!Next \/ UNCHANGED Answers!vars
  BY <1>16, <1>q DEF LoseClaim, storeVars, runVars
<1>17. ASSUME NEW p \in Clients, Act(p) PROVE Answers!Next \/ UNCHANGED Answers!vars
  BY <1>17, <1>q DEF Act, storeVars, runVars
<1>18. ASSUME NEW p \in Clients, AppendAnswer(p) PROVE Answers!Next \/ UNCHANGED Answers!vars
  <2>1. Claimed(p) /\ Claiming(p)
    BY <1>18 DEF AppendAnswer, Claimed, Claiming
  <2>2. target[p] \in known /\ target[p] \in Asks
    BY <2>1 DEF ToldFirst, TypeOK, CountTypes
  <2>3. target[p] \notin rows /\ results[target[p]] = 0
    BY <2>1 DEF OneClaim
  <2> QED
    BY <1>18, <2>2, <2>3, AbstractAnswer DEF AppendAnswer
<1>19. ASSUME NEW p \in Clients, AnswerRefused(p) PROVE Answers!Next \/ UNCHANGED Answers!vars
  BY <1>19, <1>q DEF AnswerRefused, storeVars
<1>20. ASSUME NEW p \in Clients, ReadSupervisor(p) PROVE Answers!Next \/ UNCHANGED Answers!vars
  BY <1>20, <1>q DEF ReadSupervisor, storeVars, runVars
<1>21. ASSUME NEW p \in Clients, Deliver(p) PROVE Answers!Next \/ UNCHANGED Answers!vars
  <2>1. \A a \in Asks : results'[a] = results[a]
    BY <1>21, DelegateResult DEF Deliver, StreamCarries, TypeOK, StreamTypes
  <2>2. UNCHANGED <<asked, rows>>
    BY <1>21 DEF Deliver, runVars
  <2> QED
    BY <2>1, <2>2, AbstractStutter
<1>22. ASSUME NEW p \in Clients, Settle(p) PROVE Answers!Next \/ UNCHANGED Answers!vars
  BY <1>22, <1>q DEF Settle, runVars
<1>23. ASSUME NEW p \in Clients, ClaimSupervisor(p) PROVE Answers!Next \/ UNCHANGED Answers!vars
  BY <1>23, <1>q DEF ClaimSupervisor
<1>24. ASSUME NEW p \in Clients, LoseSupervisor(p) PROVE Answers!Next \/ UNCHANGED Answers!vars
  BY <1>24, <1>q DEF LoseSupervisor, storeVars, runVars
<1>25. ASSUME NEW r \in Delegated, FailInTurn(r) PROVE Answers!Next \/ UNCHANGED Answers!vars
  <2>1. \A a \in Asks : results'[a] = results[a]
    BY <1>25, DelegateResult DEF FailInTurn
  <2>2. UNCHANGED <<asked, rows>>
    BY <1>25 DEF FailInTurn
  <2> QED
    BY <2>1, <2>2, AbstractStutter
<1>26. ASSUME NEW r \in Runs, Retry(r) PROVE Answers!Next \/ UNCHANGED Answers!vars
  BY <1>26, <1>q DEF Retry, storeVars
<1>27. ASSUME NEW p \in Clients, Fail(p) PROVE Answers!Next \/ UNCHANGED Answers!vars
  BY <1>27, <1>q DEF Fail, storeVars
<1>28. ASSUME NEW p \in Clients, ActThrows(p) PROVE Answers!Next \/ UNCHANGED Answers!vars
  BY <1>28, <1>q DEF ActThrows, RowsAfterThrow
<1>29. ASSUME Crash PROVE Answers!Next \/ UNCHANGED Answers!vars
  BY <1>29, <1>q DEF Crash, storeVars
<1>30. ASSUME NEW r \in Runs, DeleteSession(r) PROVE Answers!Next \/ UNCHANGED Answers!vars
  <2>1. rows' \subseteq rows /\ UNCHANGED <<asked, results>>
    BY <1>30 DEF DeleteSession, runVars
  <2> QED
    BY <2>1, AbstractClose
<1>31. ASSUME UNCHANGED vars PROVE Answers!Next \/ UNCHANGED Answers!vars
  BY <1>31, <1>q DEF vars, storeVars, runVars
<1> QED
  BY <1>1, <1>2, <1>3, <1>4, <1>5, <1>6, <1>7, <1>8, <1>9, <1>10, <1>11, <1>12, <1>13,
     <1>14, <1>15, <1>16, <1>17, <1>18, <1>19, <1>20, <1>21, <1>22, <1>23, <1>24, <1>25,
     <1>26, <1>27, <1>28, <1>29, <1>30, <1>31
  DEF Next, Turn, Linkage, Resume, Faulty, Answering, Starting

\* The store's checkpoints keep what HumanAnswers promises: a question is asked
\* once, is never open again after it was taken or withdrawn, and is answered
\* once.  The store must refuse a checkpoint of a deleted session, as the SQL
\* stores do.
THEOREM CheckpointsAreAnswers ==
  ASSUME Early = FALSE, ForeignKeys = TRUE
  PROVE  Spec => RefinesAnswers
PROOF
<1>1. Init => Answers!Init
  BY BoundAssumption DEF Init, Answers!Init
<1>2. IInv /\ IInv' /\ [Next]_vars => [Answers!Next]_(Answers!vars)
  BY RefinementStep
<1> QED
  BY <1>1, <1>2, Invariance, PTL DEF Spec, RefinesAnswers, Answers!Spec

----------------------------------------------------------------------------
(***************************************************************************)
(* What Delegation delivers: a delegate call gets one result, and no run   *)
(* is replayed from a history with a hole.  The claim on the right to      *)
(* deliver is a link: a checkpoint holds it, or the stream that resumes    *)
(* one, and at most one of them holds it for a call at any time.  With one *)
(* stream at a time and nothing going wrong, somebody always does.         *)
(***************************************************************************)

(* Links, and who holds them.                                              *)

\* A stream is at work on the supervisor checkpoint it read.
OnHost(p) == pc[p] \in {"delivering", "settling"}

\* A stream carries a link, unless its run is just handing it to a supervisor
\* checkpoint.
Bears(p) ==
  /\ carry[p] # NoLink
  /\ \/ Claimed(p) \/ OnHost(p) \/ pc[p] = "cascading"
     \/ pc[p] = "driving" /\ status[run[p]] # "linking"

\* A supervisor checkpoint is in the store, or may be saved again by a stream
\* that has read it.
Kept(k) == k \in hosts \/ \E p \in Clients : OnHost(p) /\ carry[p][1] = k

RowLink(a) == a \in rows /\ parent[a] # NoLink
HostLink(k) == Kept(k) /\ parent[k] # NoLink

\* A delegation that suspended in a turn and is not linked yet.
Waits(c) == held[c] # NoAsk /\ (status[Super[c]] = "delegating" \/ c \in tolink[Super[c]])

\* A delegation of s that has suspended and is held by its turn.
Waiting(c, s) == c \in Delegated /\ Super[c] = s /\ held[c] # NoAsk

\* No link is for the call c, none leads to the checkpoint k.
Unborne(c) ==
  /\ \A a \in Asks : RowLink(a) => parent[a][2] # c
  /\ \A k \in Delegated : HostLink(k) => parent[k][2] # c
  /\ \A p \in Clients : Bears(p) => carry[p][2] # c
Unused(k) ==
  /\ \A a \in Asks : RowLink(a) => parent[a][1] # k
  /\ \A h \in Delegated : HostLink(h) => parent[h][1] # k
  /\ \A p \in Clients : Bears(p) => carry[p][1] # k

\* A persisted tool call without its result.
Dangling(x) == x \in called /\ results[x] = 0

----------------------------------------------------------------------------
(* The parts of the inductive invariant.                                   *)

\* The delegations of a turn stream while it delegates, and what suspended is
\* held until the turn has linked it.
TurnDelegates == \A s \in Runs : turn[s] # {} => status[s] = "delegating"
TurnLinks ==
  \A s \in Runs :
    /\ tolink[s] # {} => status[s] = "linking"
    /\ \A c \in tolink[s] : c \in called
TurnMembers ==
  \A s \in Runs : \A c \in turn[s] :
    /\ Super[c] = s /\ held[c] = NoAsk
    /\ status[c] \in {"thinking", "delegating", "linking"}
TurnHolds ==
  \A c \in Delegated : held[c] # NoAsk =>
    status[Super[c]] \in {"delegating", "linking"} /\ status[c] # "idle"
TurnHost ==
  \A s \in Runs : status[s] = "linking" =>
    Super[host[s]] = s /\ status[host[s]] # "idle"

TurnShape == TurnDelegates /\ TurnLinks /\ TurnMembers /\ TurnHolds /\ TurnHost

\* A run at work is driven by its supervisor's turn or by one stream, which
\* is about the last question of its run while it resumes it.
DriverAtWork ==
  \A p \in Clients : pc[p] = "driving" =>
    status[run[p]] \in {"thinking", "delegating", "linking"} /\ ~InTurn(run[p])
ResumeTarget ==
  \A p \in Clients :
    /\ Claiming(p) => run[p] = target[p][1]
    /\ Claimed(p) => status[run[p]] = "resuming" /\ target[p][2] = asked[run[p]]
OneDriving ==
  \A p, q \in Clients :
    pc[p] = "driving" /\ pc[q] = "driving" /\ run[p] = run[q] => p = q
OneResuming ==
  \A p, q \in Clients : Claimed(p) /\ Claimed(q) /\ run[p] = run[q] => p = q

OneDriver == DriverAtWork /\ ResumeTarget /\ OneDriving /\ OneResuming

\* The link a resume has read is still that of the checkpoint, if it is there.
ReadLink ==
  \A p \in Clients :
    pc[p] = "claiming" /\ target[p] \in rows => carry[p] = parent[target[p]]

\* A question is the last of a suspended run, which waits for nothing else;
\* once it is answered or lost, no history with a hole is under way.
OpenLast ==
  \A a \in Asks : a \in rows \/ (\E s \in Runs : a \in crumbs[s]) =>
    /\ status[a[1]] = "suspended" /\ a[2] = asked[a[1]]
    /\ \A c \in Delegated : Super[c] = a[1] => ~Dangling(c)
    /\ \A k \in Delegated : Kept(k) => Super[k] # a[1]
HoleLast ==
  \A a \in Asks : Dangling(a) =>
    /\ a[2] = asked[a[1]]
    /\ status[a[1]] \notin {"idle", "thinking", "delegating", "linking"}
    /\ \A k \in Delegated : Kept(k) => Super[k] # a[1]
HoleParks ==
  \A c \in Delegated : Dangling(c) =>
    status[Super[c]] \notin {"idle", "thinking", "delegating", "resuming"}

Questions == OpenLast /\ HoleLast /\ HoleParks

\* A supervisor is parked on one checkpoint at most.
ParkedThere ==
  \A k \in Delegated : Kept(k) =>
    /\ status[Super[k]] \notin {"idle", "thinking", "delegating", "resuming"}
    /\ status[Super[k]] = "linking" => k = host[Super[k]]
ParkedOnce ==
  \A h, k \in Delegated : Kept(h) /\ Kept(k) /\ Super[h] = Super[k] => h = k

Parked == ParkedThere /\ ParkedOnce

\* While a turn links its delegations, nobody else has a link to its checkpoint.
PrivateRows ==
  \A s \in Runs, a \in Asks :
    status[s] = "linking" /\ RowLink(a) /\ parent[a][1] = host[s] => a \in crumbs[s]
PrivateHosts ==
  \A s \in Runs, h \in Delegated :
    status[s] = "linking" /\ HostLink(h) => parent[h][1] # host[s]
PrivateStreams ==
  \A s \in Runs, p \in Clients :
    status[s] = "linking" /\ Bears(p) => carry[p][1] # host[s]

Private == PrivateRows /\ PrivateHosts /\ PrivateStreams

\* A link is for a call of the supervisor it leads to, and that call has no
\* result until the link is used.
LinkedRows ==
  \A a \in Asks : RowLink(a) =>
    Super[parent[a][1]] = Super[parent[a][2]] /\ Dangling(parent[a][2])
LinkedHosts ==
  \A k \in Delegated : HostLink(k) =>
    Super[parent[k][1]] = Super[parent[k][2]] /\ Dangling(parent[k][2])
LinkedStreams ==
  \A p \in Clients : Bears(p) =>
    /\ Super[carry[p][1]] = Super[carry[p][2]]
    /\ pc[p] # "settling" => Dangling(carry[p][2])
    /\ pc[p] = "settling" => results[carry[p][2]] = 1

Linked == LinkedRows /\ LinkedHosts /\ LinkedStreams

\* One link at most is for a call.
RowsApart ==
  \A a, b \in Asks : RowLink(a) /\ RowLink(b) /\ parent[a][2] = parent[b][2] => a = b
HostsApart ==
  \A h, k \in Delegated :
    HostLink(h) /\ HostLink(k) /\ parent[h][2] = parent[k][2] => h = k
StreamsApart ==
  \A p, q \in Clients : Bears(p) /\ Bears(q) /\ carry[p][2] = carry[q][2] => p = q
RowsFromHosts ==
  \A a \in Asks, k \in Delegated :
    RowLink(a) /\ HostLink(k) => parent[a][2] # parent[k][2]
RowsFromStreams ==
  \A a \in Asks, p \in Clients : RowLink(a) /\ Bears(p) => parent[a][2] # carry[p][2]
HostsFromStreams ==
  \A k \in Delegated, p \in Clients :
    HostLink(k) /\ Bears(p) => parent[k][2] # carry[p][2]

OneBearer ==
  /\ RowsApart /\ HostsApart /\ StreamsApart
  /\ RowsFromHosts /\ RowsFromStreams /\ HostsFromStreams

\* What a turn has not linked yet is nobody else's.
Unlinked ==
  \A c \in Delegated : status[c] = "idle" \/ c \in turn[Super[c]] \/ Waits(c) =>
    results[c] = 0 /\ Unborne(c)
Uncalled ==
  \A c \in Delegated : status[c] = "idle" \/ c \in turn[Super[c]] => c \notin called
Unhosted ==
  \A k \in Delegated :
    \/ status[k] = "idle" \/ k \in turn[Super[k]]
    \/ held[k] # NoAsk /\ status[Super[k]] = "delegating"
    => Unused(k) /\ ~Kept(k)

NotYet == Unlinked /\ Uncalled /\ Unhosted

\* A supervisor checkpoint, and every copy of its list that a stream has read,
\* lists each call whose result is missing or not struck off yet.
OwedStored ==
  \A k \in hosts, c \in Delegated : Super[c] = Super[k] /\ Dangling(c) => c \in pending[k]
OwedRead ==
  \A p \in Clients, c \in Delegated :
    OnHost(p) /\ Super[c] = Super[carry[p][1]] /\ Dangling(c) => c \in snap[p]
StrikingStored ==
  \A k \in hosts, q \in Clients :
    pc[q] = "settling" /\ carry[q][1] = k => carry[q][2] \in pending[k]
StrikingRead ==
  \A p, q \in Clients :
    OnHost(p) /\ pc[q] = "settling" /\ carry[q][1] = carry[p][1] => carry[q][2] \in snap[p]

Owed == OwedStored /\ OwedRead /\ StrikingStored /\ StrikingRead

\* No link is made or handed over by a step.
LinksShrink ==
  /\ \A a \in Asks : RowLink(a)' => RowLink(a) /\ parent'[a] = parent[a]
  /\ \A k \in Delegated : HostLink(k)' => HostLink(k) /\ parent'[k] = parent[k]
  /\ \A p \in Clients : Bears(p)' => Bears(p) /\ carry'[p] = carry[p]

LInv ==
  /\ TurnShape /\ OneDriver /\ ReadLink /\ Questions /\ Parked
  /\ Private /\ Linked /\ OneBearer /\ NotYet /\ Owed
  /\ DeliveredOnce

----------------------------------------------------------------------------
(* What each action does, entry by entry.                                  *)

LEMMA StartEffect ==
  ASSUME IInv, NEW u \in Clients, Start(u)
  PROVE  /\ pc[u] = "idle" /\ status[Root] = "idle" /\ Root \in Runs
         /\ \A i \in Runs : status'[i] = IF i = Root THEN "thinking" ELSE status[i]
         /\ \A o \in Clients : pc'[o] = IF o = u THEN "driving" ELSE pc[o]
         /\ \A o \in Clients : run'[o] = IF o = u THEN Root ELSE run[o]
         /\ \A o \in Clients : carry'[o] = IF o = u THEN NoLink ELSE carry[o]
         /\ UNCHANGED <<rows, hosts, parent, pending, called, results, asked, turn,
                        held, crumbs, tolink, host, target, snap, known>>
PROOF
  BY TreeAssumption DEF IInv, TypeOK, RunTypes, StreamTypes, Start, countVars

LEMMA CallEffect ==
  ASSUME IInv, NEW v \in Runs, NEW w \in Delegated, Call(v, w)
  PROVE  /\ status[v] \in {"thinking", "delegating"} /\ Super[w] = v
         /\ status[w] = "idle" /\ v # w
         /\ \A i \in Runs : status'[i] =
              IF i = w THEN "thinking" ELSE IF i = v THEN "delegating" ELSE status[i]
         /\ \A i \in Runs : \A y :
           y \in turn'[i] <=> (y \in turn[i] \/ (i = v /\ y = w))
         /\ UNCHANGED <<rows, hosts, parent, pending, called, results, asked, held,
                        crumbs, tolink, host, pc, target, run, carry, snap, known>>
PROOF
  BY TreeAssumption DEF IInv, TypeOK, RunTypes, Call, streamVars, countVars

LEMMA AskInTurnEffect ==
  ASSUME IInv, NEW v \in Delegated, AskInTurn(v)
  PROVE  \E g \in Asks :
         /\ g \in Asks /\ g[1] = v /\ g[2] = asked[v] + 1 /\ status[v] = "thinking"
         /\ v \in turn[Super[v]] /\ Super[v] \in Runs /\ Super[v] # v
         /\ rows' = rows \cup {g}
         /\ \A j \in Calls : parent'[j] = IF j = g THEN NoLink ELSE parent[j]
         /\ called' = called \cup {g}
         /\ \A i \in Runs : status'[i] = IF i = v THEN "suspended" ELSE status[i]
         /\ \A i \in Runs : asked'[i] = IF i = v THEN asked[v] + 1 ELSE asked[i]
         /\ \A i \in Runs : \A y :
           y \in turn'[i] <=> (y \in turn[i] /\ ~(i = Super[v] /\ y = v))
         /\ \A e \in Delegated : held'[e] = IF e = v THEN g ELSE held[e]
         /\ \A i \in Runs : \A y :
           y \in crumbs'[i] <=> (y \in crumbs[i] \/ (i = Super[v] /\ y = g))
         /\ UNCHANGED <<hosts, pending, results, tolink, host, pc, target, run,
                        carry, snap, known>>
PROOF
<1> DEFINE g == <<v, asked[v] + 1>>
<1>1. g \in Asks /\ g[1] = v /\ g[2] = asked[v] + 1 /\ status[v] = "thinking"
  BY TreeAssumption, NextAsk
  DEF IInv, TypeOK, StoreTypes, RunTypes, NoCallback, AskInTurn, SuspendRun,
      LeavesTurn, InTurn, streamVars
<1>2. v \in turn[Super[v]] /\ Super[v] \in Runs /\ Super[v] # v
  BY TreeAssumption, NextAsk
  DEF IInv, TypeOK, StoreTypes, RunTypes, NoCallback, AskInTurn, SuspendRun,
      LeavesTurn, InTurn, streamVars
<1>3. rows' = rows \cup {g}
  BY TreeAssumption, NextAsk
  DEF IInv, TypeOK, StoreTypes, RunTypes, NoCallback, AskInTurn, SuspendRun,
      LeavesTurn, InTurn, streamVars
<1>4. \A j \in Calls : parent'[j] = IF j = g THEN NoLink ELSE parent[j]
  BY TreeAssumption, NextAsk
  DEF IInv, TypeOK, StoreTypes, RunTypes, NoCallback, AskInTurn, SuspendRun,
      LeavesTurn, InTurn, streamVars
<1>5. called' = called \cup {g}
  BY TreeAssumption, NextAsk
  DEF IInv, TypeOK, StoreTypes, RunTypes, NoCallback, AskInTurn, SuspendRun,
      LeavesTurn, InTurn, streamVars
<1>6. \A i \in Runs : status'[i] = IF i = v THEN "suspended" ELSE status[i]
  BY TreeAssumption, NextAsk
  DEF IInv, TypeOK, StoreTypes, RunTypes, NoCallback, AskInTurn, SuspendRun,
      LeavesTurn, InTurn, streamVars
<1>7. \A i \in Runs : asked'[i] = IF i = v THEN asked[v] + 1 ELSE asked[i]
  BY TreeAssumption, NextAsk
  DEF IInv, TypeOK, StoreTypes, RunTypes, NoCallback, AskInTurn, SuspendRun,
      LeavesTurn, InTurn, streamVars
<1>8. \A i \in Runs : \A y :
      y \in turn'[i] <=> (y \in turn[i] /\ ~(i = Super[v] /\ y = v))
  BY TreeAssumption, NextAsk
  DEF IInv, TypeOK, StoreTypes, RunTypes, NoCallback, AskInTurn, SuspendRun,
      LeavesTurn, InTurn, streamVars
<1>9. \A e \in Delegated : held'[e] = IF e = v THEN g ELSE held[e]
  BY TreeAssumption, NextAsk
  DEF IInv, TypeOK, StoreTypes, RunTypes, NoCallback, AskInTurn, SuspendRun,
      LeavesTurn, InTurn, streamVars
<1>10. \A i \in Runs : \A y :
      y \in crumbs'[i] <=> (y \in crumbs[i] \/ (i = Super[v] /\ y = g))
  BY TreeAssumption, NextAsk
  DEF IInv, TypeOK, StoreTypes, RunTypes, NoCallback, AskInTurn, SuspendRun,
      LeavesTurn, InTurn, streamVars
<1>11. UNCHANGED <<hosts, pending, results, tolink, host, pc, target, run,
                   carry, snap, known>>
  BY TreeAssumption, NextAsk
  DEF IInv, TypeOK, StoreTypes, RunTypes, NoCallback, AskInTurn, SuspendRun,
      LeavesTurn, InTurn, streamVars
<1> HIDE DEF g
<1> QED
  BY <1>1, <1>2, <1>3, <1>4, <1>5, <1>6, <1>7, <1>8, <1>9, <1>10, <1>11

LEMMA EndInTurnEffect ==
  ASSUME IInv, NEW v \in Delegated, EndInTurn(v)
  PROVE  /\ status[v] = "thinking" /\ v \in turn[Super[v]] /\ Super[v] \in Runs
         /\ Super[v] # v
         /\ called' = called \cup {v}
         /\ \A j \in Calls : results'[j] = IF j = v THEN results[v] + 1 ELSE results[j]
         /\ \A i \in Runs : status'[i] = IF i = v THEN "ended" ELSE status[i]
         /\ \A i \in Runs : \A y :
           y \in turn'[i] <=> (y \in turn[i] /\ ~(i = Super[v] /\ y = v))
         /\ UNCHANGED <<rows, hosts, parent, pending, asked, held, crumbs, tolink,
                        host, pc, target, run, carry, snap, known>>
PROOF
  BY TreeAssumption
  DEF IInv, TypeOK, StoreTypes, RunTypes, EndInTurn, LeavesTurn, InTurn,
      AppendResult, streamVars, countVars

LEMMA AskEffect ==
  ASSUME IInv, NEW u \in Clients, Ask(u)
  PROVE  \E g \in Asks :
         /\ g \in Asks /\ g[1] = run[u] /\ g[2] = asked[run[u]] + 1
         /\ pc[u] = "driving" /\ run[u] \in Runs /\ status[run[u]] = "thinking"
         /\ rows' = rows \cup {g}
         /\ \A j \in Calls : parent'[j] = IF j = g THEN carry[u] ELSE parent[j]
         /\ called' = called \cup {g}
         /\ \A i \in Runs : status'[i] = IF i = run[u] THEN "suspended" ELSE status[i]
         /\ \A i \in Runs : asked'[i] =
              IF i = run[u] THEN asked[run[u]] + 1 ELSE asked[i]
         /\ \A o \in Clients : pc'[o] = IF o = u THEN "idle" ELSE pc[o]
         /\ known' = known \cup {g}
         /\ UNCHANGED <<hosts, pending, results, turn, held, crumbs, tolink, host,
                        target, run, carry, snap>>
PROOF
<1> DEFINE g == <<run[u], asked[run[u]] + 1>>
<1>1. g \in Asks /\ g[1] = run[u] /\ g[2] = asked[run[u]] + 1
  BY NextAsk
  DEF IInv, TypeOK, StoreTypes, RunTypes, StreamTypes, StreamCarries, Ask,
      SuspendRun, KeptLink, StreamCloses
<1>2. pc[u] = "driving" /\ run[u] \in Runs /\ status[run[u]] = "thinking"
  BY NextAsk
  DEF IInv, TypeOK, StoreTypes, RunTypes, StreamTypes, StreamCarries, Ask,
      SuspendRun, KeptLink, StreamCloses
<1>3. rows' = rows \cup {g}
  BY NextAsk
  DEF IInv, TypeOK, StoreTypes, RunTypes, StreamTypes, StreamCarries, Ask,
      SuspendRun, KeptLink, StreamCloses
<1>4. \A j \in Calls : parent'[j] = IF j = g THEN carry[u] ELSE parent[j]
  BY NextAsk
  DEF IInv, TypeOK, StoreTypes, RunTypes, StreamTypes, StreamCarries, Ask,
      SuspendRun, KeptLink, StreamCloses
<1>5. called' = called \cup {g}
  BY NextAsk
  DEF IInv, TypeOK, StoreTypes, RunTypes, StreamTypes, StreamCarries, Ask,
      SuspendRun, KeptLink, StreamCloses
<1>6. \A i \in Runs : status'[i] = IF i = run[u] THEN "suspended" ELSE status[i]
  BY NextAsk
  DEF IInv, TypeOK, StoreTypes, RunTypes, StreamTypes, StreamCarries, Ask,
      SuspendRun, KeptLink, StreamCloses
<1>7. \A i \in Runs : asked'[i] =
         IF i = run[u] THEN asked[run[u]] + 1 ELSE asked[i]
  BY NextAsk
  DEF IInv, TypeOK, StoreTypes, RunTypes, StreamTypes, StreamCarries, Ask,
      SuspendRun, KeptLink, StreamCloses
<1>8. \A o \in Clients : pc'[o] = IF o = u THEN "idle" ELSE pc[o]
  BY NextAsk
  DEF IInv, TypeOK, StoreTypes, RunTypes, StreamTypes, StreamCarries, Ask,
      SuspendRun, KeptLink, StreamCloses
<1>9. known' = known \cup {g}
  BY NextAsk
  DEF IInv, TypeOK, StoreTypes, RunTypes, StreamTypes, StreamCarries, Ask,
      SuspendRun, KeptLink, StreamCloses
<1>10. UNCHANGED <<hosts, pending, results, turn, held, crumbs, tolink, host,
                   target, run, carry, snap>>
  BY NextAsk
  DEF IInv, TypeOK, StoreTypes, RunTypes, StreamTypes, StreamCarries, Ask,
      SuspendRun, KeptLink, StreamCloses
<1> HIDE DEF g
<1> QED
  BY <1>1, <1>2, <1>3, <1>4, <1>5, <1>6, <1>7, <1>8, <1>9, <1>10

LEMMA EndEffect ==
  ASSUME IInv, NEW u \in Clients, End(u)
  PROVE  /\ pc[u] = "driving" /\ run[u] \in Runs /\ status[run[u]] = "thinking"
         /\ \A i \in Runs : status'[i] = IF i = run[u] THEN "ended" ELSE status[i]
         /\ \A o \in Clients : pc'[o] =
              IF o = u THEN IF carry[u] # NoLink THEN "cascading" ELSE "idle" ELSE pc[o]
         /\ UNCHANGED <<rows, hosts, parent, pending, called, results, asked, turn,
                        held, crumbs, tolink, host, target, run, carry, snap, known>>
PROOF
  BY TreeAssumption
  DEF IInv, TypeOK, RunTypes, StreamTypes, StreamCarries, End, StreamCloses,
      storeVars, countVars

LEMMA TurnSettlesEffect ==
  ASSUME IInv, NEW v \in Runs, TurnSettles(v)
  PROVE  /\ status[v] = "delegating" /\ turn[v] = {}
         /\ \A e \in Delegated : Super[e] = v => held[e] = NoAsk
         /\ \A i \in Runs : status'[i] = IF i = v THEN "thinking" ELSE status[i]
         /\ UNCHANGED <<rows, hosts, parent, pending, called, results, asked, turn,
                        held, crumbs, tolink, host, pc, target, run, carry, snap,
                        known>>
PROOF
  BY TreeAssumption
  DEF IInv, TypeOK, RunTypes, TurnSettles, HeldBy, storeVars, streamVars, countVars

LEMMA LinkWriteEffect ==
  ASSUME IInv, NEW v \in Runs, LinkWrite(v)
  PROVE  \E f \in Delegated, g \in Asks :
         /\ status[v] = "linking" /\ f \in tolink[v] /\ f \in Delegated
         /\ Super[f] = v /\ g = held[f] /\ g \in Asks /\ g \in crumbs[v]
         /\ g \notin known /\ host[v] \in Delegated /\ parent'[g] # NoLink
         /\ parent'[g][1] = host[v] /\ parent'[g][2] = f
         /\ rows' = rows \cup {g}
         /\ \A j \in Calls \ {g} : parent'[j] = parent[j]
         /\ \A i \in Runs : \A y :
           y \in tolink'[i] <=> (y \in tolink[i] /\ ~(i = v /\ y = f))
         /\ UNCHANGED <<hosts, pending, called, results, status, asked, turn, held,
                        crumbs, host, pc, target, run, carry, snap, known>>
PROOF
<1> DEFINE f == reading[v]
<1> DEFINE g == held[reading[v]]
<1>1. status[v] = "linking" /\ f \in tolink[v] /\ f \in Delegated
  BY ReadInCustody, NullAssumption
  DEF IInv, TypeOK, StoreTypes, RunTypes, LinkingTurn, LinkWrite, streamVars,
      countVars
<1>2. Super[f] = v /\ g = held[f] /\ g \in Asks /\ g \in crumbs[v]
  BY ReadInCustody, NullAssumption
  DEF IInv, TypeOK, StoreTypes, RunTypes, LinkingTurn, LinkWrite, streamVars,
      countVars
<1>3. g \notin known /\ host[v] \in Delegated /\ parent'[g] # NoLink
  BY ReadInCustody, NullAssumption
  DEF IInv, TypeOK, StoreTypes, RunTypes, LinkingTurn, LinkWrite, streamVars,
      countVars
<1>4. parent'[g][1] = host[v] /\ parent'[g][2] = f
  BY ReadInCustody, NullAssumption
  DEF IInv, TypeOK, StoreTypes, RunTypes, LinkingTurn, LinkWrite, streamVars,
      countVars
<1>5. rows' = rows \cup {g}
  BY ReadInCustody, NullAssumption
  DEF IInv, TypeOK, StoreTypes, RunTypes, LinkingTurn, LinkWrite, streamVars,
      countVars
<1>6. \A j \in Calls \ {g} : parent'[j] = parent[j]
  BY ReadInCustody, NullAssumption
  DEF IInv, TypeOK, StoreTypes, RunTypes, LinkingTurn, LinkWrite, streamVars,
      countVars
<1>7. \A i \in Runs : \A y :
      y \in tolink'[i] <=> (y \in tolink[i] /\ ~(i = v /\ y = f))
  BY ReadInCustody, NullAssumption
  DEF IInv, TypeOK, StoreTypes, RunTypes, LinkingTurn, LinkWrite, streamVars,
      countVars
<1>8. UNCHANGED <<hosts, pending, called, results, status, asked, turn, held,
                   crumbs, host, pc, target, run, carry, snap, known>>
  BY ReadInCustody, NullAssumption
  DEF IInv, TypeOK, StoreTypes, RunTypes, LinkingTurn, LinkWrite, streamVars,
      countVars
<1> HIDE DEF f, g
<1> QED
  BY <1>1, <1>2, <1>3, <1>4, <1>5, <1>6, <1>7, <1>8

LEMMA LinkRefusedEffect ==
  ASSUME IInv, NEW v \in Runs, LinkRefused(v)
  PROVE  /\ status[v] = "linking"
         /\ \A y : y \in called' <=> (y \in called \/ (InTurn(v) /\ y = v))
         /\ \A j \in Calls : results'[j] =
              IF InTurn(v) /\ j = v THEN results[j] + 1 ELSE results[j]
         /\ \A i \in Runs : status'[i] = IF i = v THEN "failed" ELSE status[i]
         /\ \A i \in Runs : \A y :
           y \in turn'[i] <=> (y \in turn[i] /\ ~(InTurn(v) /\ i = Super[v] /\ y = v))
         /\ \A e \in Delegated : held'[e] = IF Super[e] = v THEN NoAsk ELSE held[e]
         /\ \A i \in Runs : \A y : y \in crumbs'[i] <=> (y \in crumbs[i] /\ i # v)
         /\ \A i \in Runs : \A y : y \in tolink'[i] <=> (y \in tolink[i] /\ i # v)
         /\ \A i \in Runs : host'[i] = IF i = v THEN NoRun ELSE host[i]
         /\ \A o \in Clients : pc'[o] =
              IF ~InTurn(v) /\ Drives(o, v) THEN "idle" ELSE pc[o]
         /\ UNCHANGED <<rows, hosts, parent, pending, asked, target, run, carry,
                        snap, known>>
PROOF
<1>1. status[v] = "linking"
  BY TreeAssumption
  DEF IInv, TypeOK, StoreTypes, RunTypes, StreamTypes, LinkRefused, DropTurn,
      DropCrumbs, LeavesTurn, AppendResult, countVars
<1>2. \A y : y \in called' <=> (y \in called \/ (InTurn(v) /\ y = v))
  BY TreeAssumption
  DEF IInv, TypeOK, StoreTypes, RunTypes, StreamTypes, LinkRefused, DropTurn,
      DropCrumbs, LeavesTurn, AppendResult, countVars
<1>3. \A j \in Calls : results'[j] =
         IF InTurn(v) /\ j = v THEN results[j] + 1 ELSE results[j]
  BY TreeAssumption
  DEF IInv, TypeOK, StoreTypes, RunTypes, StreamTypes, LinkRefused, DropTurn,
      DropCrumbs, LeavesTurn, AppendResult, countVars
<1>4. \A i \in Runs : status'[i] = IF i = v THEN "failed" ELSE status[i]
  BY TreeAssumption
  DEF IInv, TypeOK, StoreTypes, RunTypes, StreamTypes, LinkRefused, DropTurn,
      DropCrumbs, LeavesTurn, AppendResult, countVars
<1>5. \A i \in Runs : \A y :
      y \in turn'[i] <=> (y \in turn[i] /\ ~(InTurn(v) /\ i = Super[v] /\ y = v))
  <2>1. CASE InTurn(v)
    <3>1. turn' = [turn EXCEPT ![Super[v]] = turn[Super[v]] \ {v}]
      BY <2>1 DEF LinkRefused, LeavesTurn, DropTurn, DropCrumbs, AppendResult
    <3> QED BY <2>1, <3>1 DEF IInv, TypeOK, RunTypes
  <2>2. CASE ~InTurn(v)
    <3>1. turn' = turn
      BY <2>2 DEF LinkRefused, LeavesTurn, DropTurn, DropCrumbs, AppendResult
    <3> QED BY <2>2, <3>1
  <2> QED BY <2>1, <2>2
<1>6. \A e \in Delegated : held'[e] = IF Super[e] = v THEN NoAsk ELSE held[e]
  BY TreeAssumption
  DEF IInv, TypeOK, StoreTypes, RunTypes, StreamTypes, LinkRefused, DropTurn,
      DropCrumbs, LeavesTurn, AppendResult, countVars
<1>7. \A i \in Runs : \A y : y \in crumbs'[i] <=> (y \in crumbs[i] /\ i # v)
  BY TreeAssumption
  DEF IInv, TypeOK, StoreTypes, RunTypes, StreamTypes, LinkRefused, DropTurn,
      DropCrumbs, LeavesTurn, AppendResult, countVars
<1>8. \A i \in Runs : \A y : y \in tolink'[i] <=> (y \in tolink[i] /\ i # v)
  BY TreeAssumption
  DEF IInv, TypeOK, StoreTypes, RunTypes, StreamTypes, LinkRefused, DropTurn,
      DropCrumbs, LeavesTurn, AppendResult, countVars
<1>9. \A i \in Runs : host'[i] = IF i = v THEN NoRun ELSE host[i]
  BY TreeAssumption
  DEF IInv, TypeOK, StoreTypes, RunTypes, StreamTypes, LinkRefused, DropTurn,
      DropCrumbs, LeavesTurn, AppendResult, countVars
<1>10. \A o \in Clients : pc'[o] =
         IF ~InTurn(v) /\ Drives(o, v) THEN "idle" ELSE pc[o]
  BY TreeAssumption
  DEF IInv, TypeOK, StoreTypes, RunTypes, StreamTypes, LinkRefused, DropTurn,
      DropCrumbs, LeavesTurn, AppendResult, countVars
<1>11. UNCHANGED <<rows, hosts, parent, pending, asked, target, run, carry,
                   snap, known>>
  BY TreeAssumption
  DEF IInv, TypeOK, StoreTypes, RunTypes, StreamTypes, LinkRefused, DropTurn,
      DropCrumbs, LeavesTurn, AppendResult, countVars
<1> QED
  BY <1>1, <1>2, <1>3, <1>4, <1>5, <1>6, <1>7, <1>8, <1>9, <1>10, <1>11

LEMMA ChainSuspendEffect ==
  ASSUME IInv, NEW v \in Runs, NEW w \in Delegated, NEW lk \in Links \cup {NoLink},
         ChainSuspend(v, w, lk)
  PROVE  /\ status[v] = "delegating" /\ turn[v] = {} /\ Super[w] = v
         /\ held[w] # NoAsk /\ ParentOption(v, lk)
         /\ hosts' = hosts \cup {w}
         /\ \A j \in Calls : parent'[j] = IF j = w THEN lk ELSE parent[j]
         /\ \A e \in Delegated : \A y :
           y \in pending'[e] <=> (IF e = w THEN Waiting(y, v) ELSE y \in pending[e])
         /\ \A y : y \in called' <=> (y \in called \/ Waiting(y, v))
         /\ \A i \in Runs : status'[i] = IF i = v THEN "linking" ELSE status[i]
         /\ \A i \in Runs : \A y :
           y \in tolink'[i] <=> (IF i = v THEN Waiting(y, v) ELSE y \in tolink[i])
         /\ \A i \in Runs : host'[i] = IF i = v THEN w ELSE host[i]
         /\ UNCHANGED <<rows, results, asked, turn, held, crumbs, pc, target, run,
                        carry, snap, known>>
PROOF
  BY TreeAssumption
  DEF IInv, TypeOK, StoreTypes, RunTypes, ChainSuspend, PendingList, HeldBy,
      streamVars, countVars, Waiting

LEMMA LinkReadEffect ==
  ASSUME IInv, NEW v \in Runs, NEW w \in Delegated, LinkRead(v, w)
  PROVE  /\ status[v] = "linking" /\ w \in tolink[v]
         /\ \A i \in Runs : \A y :
           y \in tolink'[i] <=> (y \in tolink[i] /\ ~(i = v /\ y = w /\ held[w] \notin rows))
         /\ UNCHANGED <<rows, hosts, parent, pending, called, results, status,
                        asked, turn, held, crumbs, host, pc, target, run, carry,
                        snap, known>>
PROOF
<1>1. status[v] = "linking" /\ w \in tolink[v]
  BY TreeAssumption
  DEF IInv, TypeOK, RunTypes, LinkRead, storeVars, streamVars, countVars
<1>2. \A i \in Runs : \A y :
      y \in tolink'[i] <=> (y \in tolink[i] /\ ~(i = v /\ y = w /\ held[w] \notin rows))
  <2>1. CASE held[w] \in rows
    BY <2>1 DEF LinkRead
  <2>2. CASE held[w] \notin rows
    BY <2>2 DEF IInv, TypeOK, RunTypes, LinkRead
  <2> QED BY <2>1, <2>2
<1>3. UNCHANGED <<rows, hosts, parent, pending, called, results, status,
                   asked, turn, held, crumbs, host, pc, target, run, carry,
                   snap, known>>
  BY TreeAssumption
  DEF IInv, TypeOK, RunTypes, LinkRead, storeVars, streamVars, countVars
<1> QED
  BY <1>1, <1>2, <1>3

LEMMA SurfaceInTurnEffect ==
  ASSUME IInv, NEW v \in Delegated, NEW la \in Asks, SurfaceInTurn(v, la)
  PROVE  /\ status[v] = "linking" /\ tolink[v] = {} /\ v \in turn[Super[v]]
         /\ la \in crumbs[v] /\ Super[v] \in Runs /\ Super[v] # v /\ la # NoAsk
         /\ \A i \in Runs : status'[i] = IF i = v THEN "suspended" ELSE status[i]
         /\ \A i \in Runs : \A y :
           y \in turn'[i] <=> (y \in turn[i] /\ ~(i = Super[v] /\ y = v))
         /\ \A e \in Delegated : held'[e] =
              IF e = v THEN la ELSE IF Super[e] = v THEN NoAsk ELSE held[e]
         /\ \A i \in Runs : \A y : y \in crumbs'[i] <=>
           \/ y \in crumbs[i] /\ i # v
           \/ i = Super[v] /\ y \in crumbs[v]
         /\ \A i \in Runs : host'[i] = IF i = v THEN NoRun ELSE host[i]
         /\ UNCHANGED <<rows, hosts, parent, pending, called, results, asked,
                        tolink, pc, target, run, carry, snap, known>>
PROOF
  BY TreeAssumption, NullAssumption
  DEF IInv, TypeOK, RunTypes, StoreTypes, SurfaceInTurn, LeavesTurn, InTurn,
      storeVars, streamVars, countVars

LEMMA SurfaceEffect ==
  ASSUME IInv, NEW u \in Clients, Surface(u)
  PROVE  /\ pc[u] = "driving" /\ run[u] \in Runs /\ status[run[u]] = "linking"
         /\ tolink[run[u]] = {}
         /\ \A i \in Runs : status'[i] = IF i = run[u] THEN "suspended" ELSE status[i]
         /\ \A e \in Delegated : held'[e] = IF Super[e] = run[u] THEN NoAsk ELSE held[e]
         /\ \A i \in Runs : \A y : y \in crumbs'[i] <=> (y \in crumbs[i] /\ i # run[u])
         /\ \A i \in Runs : \A y : y \in tolink'[i] <=> (y \in tolink[i] /\ i # run[u])
         /\ \A i \in Runs : host'[i] = IF i = run[u] THEN NoRun ELSE host[i]
         /\ \A o \in Clients : pc'[o] = IF o = u THEN "idle" ELSE pc[o]
         /\ \A y : y \in known' <=> y \in known \/ y \in crumbs[run[u]]
         /\ UNCHANGED <<rows, hosts, parent, pending, called, results, asked, turn,
                        target, run, carry, snap>>
PROOF
  BY TreeAssumption
  DEF IInv, TypeOK, RunTypes, StreamTypes, StreamCarries, Surface, DropTurn,
      DropCrumbs, StreamCloses, storeVars

LEMMA ReadCheckpointEffect ==
  ASSUME IInv, NEW u \in Clients, NEW w \in Asks, ReadCheckpoint(u, w)
  PROVE  /\ pc[u] = "idle" /\ w \in known /\ w \in rows
         /\ \A o \in Clients : pc'[o] = IF o = u THEN "claiming" ELSE pc[o]
         /\ \A o \in Clients : target'[o] = IF o = u THEN w ELSE target[o]
         /\ \A o \in Clients : run'[o] = IF o = u THEN w[1] ELSE run[o]
         /\ \A o \in Clients : carry'[o] = IF o = u THEN parent[w] ELSE carry[o]
         /\ UNCHANGED <<rows, hosts, parent, pending, called, results, status,
                        asked, turn, held, crumbs, tolink, host, snap, known>>
PROOF
  BY TreeAssumption
  DEF IInv, TypeOK, StreamTypes, ReadCheckpoint, storeVars, runVars, countVars

LEMMA ClaimEffect ==
  ASSUME IInv, NEW u \in Clients, Claim(u)
  PROVE  /\ pc[u] = "claiming" /\ target[u] \in rows /\ target[u] \in known
         /\ run[u] \in Runs
         /\ \A y : y \in rows' <=> (y \in rows /\ y # target[u])
         /\ \A i \in Runs : status'[i] = IF i = run[u] THEN "resuming" ELSE status[i]
         /\ \A o \in Clients : pc'[o] = IF o = u THEN "acting" ELSE pc[o]
         /\ UNCHANGED <<hosts, parent, pending, called, results, asked, turn, held,
                        crumbs, tolink, host, target, run, carry, snap, known>>
PROOF
  BY TreeAssumption
  DEF IInv, TypeOK, RunTypes, StreamTypes, StreamCarries, ToldFirst, Claiming,
      Claim, WinsClaim, countVars

LEMMA LoseClaimEffect ==
  ASSUME IInv, NEW u \in Clients, LoseClaim(u)
  PROVE  /\ pc[u] = "claiming"
         /\ \A o \in Clients : pc'[o] = IF o = u THEN "idle" ELSE pc[o]
         /\ UNCHANGED <<rows, hosts, parent, pending, called, results, status,
                        asked, turn, held, crumbs, tolink, host, target, run, carry,
                        snap, known>>
PROOF
  BY TreeAssumption
  DEF IInv, TypeOK, StreamTypes, LoseClaim, WinsClaim, Idle, storeVars, runVars,
      countVars

LEMMA ActEffect ==
  ASSUME IInv, NEW u \in Clients, Act(u)
  PROVE  /\ pc[u] = "acting"
         /\ \A o \in Clients : pc'[o] = IF o = u THEN "answering" ELSE pc[o]
         /\ UNCHANGED <<rows, hosts, parent, pending, called, results, status,
                        asked, turn, held, crumbs, tolink, host, target, run, carry,
                        snap, known>>
PROOF
  BY TreeAssumption DEF IInv, TypeOK, StreamTypes, Act, storeVars, runVars

LEMMA AppendAnswerEffect ==
  ASSUME IInv, NEW u \in Clients, AppendAnswer(u)
  PROVE  /\ pc[u] = "answering" /\ target[u] \in Asks /\ run[u] \in Runs
         /\ \A j \in Calls : results'[j] =
              IF j = target[u] THEN results[target[u]] + 1 ELSE results[j]
         /\ \A i \in Runs : status'[i] = IF i = run[u] THEN "thinking" ELSE status[i]
         /\ \A o \in Clients : pc'[o] = IF o = u THEN "driving" ELSE pc[o]
         /\ UNCHANGED <<rows, hosts, parent, pending, called, asked, turn, held,
                        crumbs, tolink, host, target, run, carry, snap, known>>
PROOF
<1>1. pc[u] = "answering" /\ target[u] \in Asks /\ run[u] \in Runs
  BY DEF IInv, TypeOK, StreamTypes, CountTypes, StreamCarries, ToldFirst, Claiming, AppendAnswer
<1>2. \A j \in Calls : results'[j] =
         IF j = target[u] THEN results[target[u]] + 1 ELSE results[j]
  BY TreeAssumption
  DEF IInv, TypeOK, StoreTypes, RunTypes, StreamTypes, StreamCarries, ToldFirst,
      Claiming, AppendAnswer, AppendResult, countVars
<1>3. \A i \in Runs : status'[i] = IF i = run[u] THEN "thinking" ELSE status[i]
  BY TreeAssumption
  DEF IInv, TypeOK, StoreTypes, RunTypes, StreamTypes, StreamCarries, ToldFirst,
      Claiming, AppendAnswer, AppendResult, countVars
<1>4. \A o \in Clients : pc'[o] = IF o = u THEN "driving" ELSE pc[o]
  BY TreeAssumption
  DEF IInv, TypeOK, StoreTypes, RunTypes, StreamTypes, StreamCarries, ToldFirst,
      Claiming, AppendAnswer, AppendResult, countVars
<1>5. UNCHANGED <<rows, hosts, parent, pending, called, asked, turn, held,
                   crumbs, tolink, host, target, run, carry, snap, known>>
  BY TreeAssumption
  DEF IInv, TypeOK, StoreTypes, RunTypes, StreamTypes, StreamCarries, ToldFirst,
      Claiming, AppendAnswer, AppendResult, countVars
<1> QED
  BY <1>1, <1>2, <1>3, <1>4, <1>5

LEMMA AnswerRefusedEffect ==
  ASSUME IInv, NEW u \in Clients, AnswerRefused(u)
  PROVE  /\ pc[u] = "answering" /\ run[u] \in Runs
         /\ \A i \in Runs : status'[i] = IF i = run[u] THEN "failed" ELSE status[i]
         /\ \A o \in Clients : pc'[o] = IF o = u THEN "idle" ELSE pc[o]
         /\ UNCHANGED <<rows, hosts, parent, pending, called, results, asked, turn,
                        held, crumbs, tolink, host, target, run, carry, snap, known>>
PROOF
  BY TreeAssumption
  DEF IInv, TypeOK, RunTypes, StreamTypes, StreamCarries, AnswerRefused, Idle,
      storeVars, countVars

LEMMA ReadSupervisorEffect ==
  ASSUME IInv, NEW u \in Clients, ReadSupervisor(u)
  PROVE  /\ pc[u] = "cascading" /\ carry[u] \in Links
         /\ pc'[u] = "delivering" => carry[u][1] \in hosts /\ snap'[u] = pending[carry[u][1]]
         /\ pc'[u] \in {"delivering", "idle"}
         /\ \A o \in Clients \ {u} : pc'[o] = pc[o]
         /\ \A o \in Clients \ {u} : snap'[o] = snap[o]
         /\ UNCHANGED <<rows, hosts, parent, pending, called, results, status,
                        asked, turn, held, crumbs, tolink, host, target, run, carry,
                        known>>
PROOF
  BY TreeAssumption
  DEF IInv, TypeOK, StreamTypes, StreamCarries, StoreTypes, ReadSupervisor, Idle,
      storeVars, runVars, countVars

LEMMA DeliverEffect ==
  ASSUME IInv, NEW u \in Clients, Deliver(u)
  PROVE  /\ pc[u] = "delivering" /\ carry[u] \in Links
         /\ \/ /\ pc'[u] = "settling"
               /\ \A j \in Calls : results'[j] = IF j = carry[u][2] THEN results[j] + 1 ELSE results[j]
            \/ pc'[u] = "idle" /\ results' = results
         /\ \A o \in Clients \ {u} : pc'[o] = pc[o]
         /\ UNCHANGED <<rows, hosts, parent, pending, called, status, asked, turn,
                        held, crumbs, tolink, host, target, run, carry, snap, known>>
PROOF
  BY TreeAssumption
  DEF IInv, TypeOK, StoreTypes, StreamTypes, StreamCarries, Deliver, Idle,
      AppendResult, runVars, countVars

LEMMA SettleEffect ==
  ASSUME IInv, NEW u \in Clients, Settle(u)
  PROVE  /\ pc[u] = "settling" /\ carry[u] \in Links
         /\ \/ hosts' = hosts /\ pending' = pending
            \/ /\ \A y : y \in hosts' <=> y \in hosts \/ y = carry[u][1]
               /\ \A e \in Delegated : \A y :
                    y \in pending'[e] <=>
                    IF e = carry[u][1] THEN y \in snap[u] /\ y # carry[u][2] ELSE y \in pending[e]
         /\ \A o \in Clients : pc'[o] = IF o = u THEN "idle" ELSE pc[o]
         /\ UNCHANGED <<rows, parent, called, results, status, asked, turn, held,
                        crumbs, tolink, host, target, run, carry, snap, known>>
PROOF
  BY TreeAssumption
  DEF IInv, TypeOK, StoreTypes, StreamTypes, StreamCarries, Settle, Idle, Remaining,
      runVars, countVars

LEMMA ClaimSupervisorEffect ==
  ASSUME IInv, NEW u \in Clients, ClaimSupervisor(u)
  PROVE  /\ pc[u] = "settling" /\ carry[u] \in Links /\ Super[carry[u][1]] \in Runs
         /\ \A y \in snap[u] : y = carry[u][2]
         /\ carry[u][1] \in hosts
         /\ \A y : y \in hosts' <=> (y \in hosts /\ y # carry[u][1])
         /\ \A i \in Runs : status'[i] =
              IF i = Super[carry[u][1]] THEN "thinking" ELSE status[i]
         /\ \A o \in Clients : pc'[o] = IF o = u THEN "driving" ELSE pc[o]
         /\ \A o \in Clients : run'[o] = IF o = u THEN Super[carry[u][1]] ELSE run[o]
         /\ \A o \in Clients : carry'[o] =
              IF o = u THEN parent[carry[u][1]] ELSE carry[o]
         /\ UNCHANGED <<rows, parent, pending, called, results, asked, turn, held,
                        crumbs, tolink, host, target, snap, known>>
PROOF
  BY TreeAssumption
  DEF IInv, TypeOK, RunTypes, StreamTypes, StreamCarries, ClaimSupervisor,
      Remaining, countVars

LEMMA LoseSupervisorEffect ==
  ASSUME IInv, NEW u \in Clients, LoseSupervisor(u)
  PROVE  /\ pc[u] = "settling"
         /\ \A o \in Clients : pc'[o] = IF o = u THEN "idle" ELSE pc[o]
         /\ UNCHANGED <<rows, hosts, parent, pending, called, results, status,
                        asked, turn, held, crumbs, tolink, host, target, run, carry,
                        snap, known>>
PROOF
  BY TreeAssumption
  DEF IInv, TypeOK, StreamTypes, LoseSupervisor, Idle, Remaining, storeVars,
      runVars, countVars

LEMMA FailInTurnEffect ==
  ASSUME IInv, NEW v \in Delegated, FailInTurn(v)
  PROVE  /\ status[v] = "thinking" \/ (status[v] = "delegating" /\ turn[v] = {})
         /\ v \in turn[Super[v]] /\ Super[v] \in Runs /\ Super[v] # v
         /\ called' = called \cup {v}
         /\ \A j \in Calls : results'[j] = IF j = v THEN results[v] + 1 ELSE results[j]
         /\ \A i \in Runs : status'[i] = IF i = v THEN "failed" ELSE status[i]
         /\ \A i \in Runs : \A y :
           y \in turn'[i] <=> (y \in turn[i] /\ ~(i = Super[v] /\ y = v))
         /\ \A e \in Delegated : held'[e] = IF Super[e] = v THEN NoAsk ELSE held[e]
         /\ \A i \in Runs : \A y : y \in crumbs'[i] <=> (y \in crumbs[i] /\ i # v)
         /\ \A i \in Runs : \A y : y \in tolink'[i] <=> (y \in tolink[i] /\ i # v)
         /\ \A i \in Runs : host'[i] = IF i = v THEN NoRun ELSE host[i]
         /\ UNCHANGED <<rows, hosts, parent, pending, asked, pc, target, run, carry,
                        snap, known>>
PROOF
<1>1. status[v] = "thinking" \/ (status[v] = "delegating" /\ turn[v] = {})
  <2>1. TurnFails(v)
    BY DEF FailInTurn
  <2> QED BY <2>1 DEF TurnFails
<1>2. v \in turn[Super[v]] /\ Super[v] \in Runs /\ Super[v] # v
  BY TreeAssumption
  DEF IInv, TypeOK, StoreTypes, RunTypes, FailInTurn, TurnFails, DropTurn,
      DropCrumbs, LeavesTurn, InTurn, AppendResult, streamVars
<1>3. called' = called \cup {v}
  BY TreeAssumption
  DEF IInv, TypeOK, StoreTypes, RunTypes, FailInTurn, TurnFails, DropTurn,
      DropCrumbs, LeavesTurn, InTurn, AppendResult, streamVars
<1>4. \A j \in Calls : results'[j] = IF j = v THEN results[v] + 1 ELSE results[j]
  BY TreeAssumption
  DEF IInv, TypeOK, StoreTypes, RunTypes, FailInTurn, TurnFails, DropTurn,
      DropCrumbs, LeavesTurn, InTurn, AppendResult, streamVars
<1>5. \A i \in Runs : status'[i] = IF i = v THEN "failed" ELSE status[i]
  BY TreeAssumption
  DEF IInv, TypeOK, StoreTypes, RunTypes, FailInTurn, TurnFails, DropTurn,
      DropCrumbs, LeavesTurn, InTurn, AppendResult, streamVars
<1>6. \A i \in Runs : \A y :
      y \in turn'[i] <=> (y \in turn[i] /\ ~(i = Super[v] /\ y = v))
  BY TreeAssumption
  DEF IInv, TypeOK, StoreTypes, RunTypes, FailInTurn, TurnFails, DropTurn,
      DropCrumbs, LeavesTurn, InTurn, AppendResult, streamVars
<1>7. \A e \in Delegated : held'[e] = IF Super[e] = v THEN NoAsk ELSE held[e]
  BY TreeAssumption
  DEF IInv, TypeOK, StoreTypes, RunTypes, FailInTurn, TurnFails, DropTurn,
      DropCrumbs, LeavesTurn, InTurn, AppendResult, streamVars
<1>8. \A i \in Runs : \A y : y \in crumbs'[i] <=> (y \in crumbs[i] /\ i # v)
  BY TreeAssumption
  DEF IInv, TypeOK, StoreTypes, RunTypes, FailInTurn, TurnFails, DropTurn,
      DropCrumbs, LeavesTurn, InTurn, AppendResult, streamVars
<1>9. \A i \in Runs : \A y : y \in tolink'[i] <=> (y \in tolink[i] /\ i # v)
  BY TreeAssumption
  DEF IInv, TypeOK, StoreTypes, RunTypes, FailInTurn, TurnFails, DropTurn,
      DropCrumbs, LeavesTurn, InTurn, AppendResult, streamVars
<1>10. \A i \in Runs : host'[i] = IF i = v THEN NoRun ELSE host[i]
  BY TreeAssumption
  DEF IInv, TypeOK, StoreTypes, RunTypes, FailInTurn, TurnFails, DropTurn,
      DropCrumbs, LeavesTurn, InTurn, AppendResult, streamVars
<1>11. UNCHANGED <<rows, hosts, parent, pending, asked, pc, target, run, carry,
                   snap, known>>
  BY TreeAssumption
  DEF IInv, TypeOK, StoreTypes, RunTypes, FailInTurn, TurnFails, DropTurn,
      DropCrumbs, LeavesTurn, InTurn, AppendResult, streamVars
<1> QED
  BY <1>1, <1>2, <1>3, <1>4, <1>5, <1>6, <1>7, <1>8, <1>9, <1>10, <1>11

LEMMA RetryEffect ==
  ASSUME IInv, NEW v \in Runs, Retry(v)
  PROVE  /\ status[v] = "delegating" /\ turn[v] = {}
         /\ \A i \in Runs : status'[i] = IF i = v THEN "thinking" ELSE status[i]
         /\ \A e \in Delegated : held'[e] = IF Super[e] = v THEN NoAsk ELSE held[e]
         /\ \A i \in Runs : \A y : y \in crumbs'[i] <=> (y \in crumbs[i] /\ i # v)
         /\ \A i \in Runs : \A y : y \in tolink'[i] <=> (y \in tolink[i] /\ i # v)
         /\ \A i \in Runs : host'[i] = IF i = v THEN NoRun ELSE host[i]
         /\ UNCHANGED <<rows, hosts, parent, pending, called, results, asked, turn,
                        pc, target, run, carry, snap, known>>
PROOF
  BY TreeAssumption
  DEF IInv, TypeOK, RunTypes, Retry, DropTurn, DropCrumbs, storeVars, streamVars

LEMMA FailEffect ==
  ASSUME IInv, NEW u \in Clients, Fail(u)
  PROVE  /\ pc[u] = "driving" /\ run[u] \in Runs
         /\ status[run[u]] = "thinking" \/ (status[run[u]] = "delegating" /\ turn[run[u]] = {})
         /\ \A i \in Runs : status'[i] = IF i = run[u] THEN "failed" ELSE status[i]
         /\ \A e \in Delegated : held'[e] = IF Super[e] = run[u] THEN NoAsk ELSE held[e]
         /\ \A i \in Runs : \A y : y \in crumbs'[i] <=> (y \in crumbs[i] /\ i # run[u])
         /\ \A i \in Runs : \A y : y \in tolink'[i] <=> (y \in tolink[i] /\ i # run[u])
         /\ \A i \in Runs : host'[i] = IF i = run[u] THEN NoRun ELSE host[i]
         /\ \A o \in Clients : pc'[o] = IF o = u THEN "idle" ELSE pc[o]
         /\ UNCHANGED <<rows, hosts, parent, pending, called, results, asked, turn,
                        target, run, carry, snap, known>>
PROOF
<1>1. pc[u] = "driving" /\ run[u] \in Runs
  BY TreeAssumption
  DEF IInv, TypeOK, RunTypes, StreamTypes, StreamCarries, Fail, TurnFails, DropTurn,
      DropCrumbs, Idle, storeVars
<1>2. status[run[u]] = "thinking" \/ (status[run[u]] = "delegating" /\ turn[run[u]] = {})
  <2>1. TurnFails(run[u])
    BY DEF Fail
  <2> QED BY <2>1 DEF TurnFails
<1>3. \A i \in Runs : status'[i] = IF i = run[u] THEN "failed" ELSE status[i]
  BY TreeAssumption
  DEF IInv, TypeOK, RunTypes, StreamTypes, StreamCarries, Fail, TurnFails, DropTurn,
      DropCrumbs, Idle, storeVars
<1>4. \A e \in Delegated : held'[e] = IF Super[e] = run[u] THEN NoAsk ELSE held[e]
  BY TreeAssumption
  DEF IInv, TypeOK, RunTypes, StreamTypes, StreamCarries, Fail, TurnFails, DropTurn,
      DropCrumbs, Idle, storeVars
<1>5. \A i \in Runs : \A y : y \in crumbs'[i] <=> (y \in crumbs[i] /\ i # run[u])
  BY TreeAssumption
  DEF IInv, TypeOK, RunTypes, StreamTypes, StreamCarries, Fail, TurnFails, DropTurn,
      DropCrumbs, Idle, storeVars
<1>6. \A i \in Runs : \A y : y \in tolink'[i] <=> (y \in tolink[i] /\ i # run[u])
  BY TreeAssumption
  DEF IInv, TypeOK, RunTypes, StreamTypes, StreamCarries, Fail, TurnFails, DropTurn,
      DropCrumbs, Idle, storeVars
<1>7. \A i \in Runs : host'[i] = IF i = run[u] THEN NoRun ELSE host[i]
  BY TreeAssumption
  DEF IInv, TypeOK, RunTypes, StreamTypes, StreamCarries, Fail, TurnFails, DropTurn,
      DropCrumbs, Idle, storeVars
<1>8. \A o \in Clients : pc'[o] = IF o = u THEN "idle" ELSE pc[o]
  BY TreeAssumption
  DEF IInv, TypeOK, RunTypes, StreamTypes, StreamCarries, Fail, TurnFails, DropTurn,
      DropCrumbs, Idle, storeVars
<1>9. UNCHANGED <<rows, hosts, parent, pending, called, results, asked, turn,
                   target, run, carry, snap, known>>
  BY TreeAssumption
  DEF IInv, TypeOK, RunTypes, StreamTypes, StreamCarries, Fail, TurnFails, DropTurn,
      DropCrumbs, Idle, storeVars
<1> QED
  BY <1>1, <1>2, <1>3, <1>4, <1>5, <1>6, <1>7, <1>8, <1>9

LEMMA ActThrowsEffect ==
  ASSUME IInv, NEW u \in Clients, ActThrows(u)
  PROVE  /\ pc[u] = "acting" /\ run[u] \in Runs
         /\ \A i \in Runs : status'[i] = IF i = run[u] THEN "failed" ELSE status[i]
         /\ \A o \in Clients : pc'[o] = IF o = u THEN "idle" ELSE pc[o]
         /\ UNCHANGED <<rows, hosts, parent, pending, called, results, asked, turn,
                        held, crumbs, tolink, host, target, run, carry, snap, known>>
PROOF
  BY TreeAssumption
  DEF IInv, TypeOK, RunTypes, StreamTypes, StreamCarries, ActThrows, RowsAfterThrow,
      Idle

LEMMA CrashEffect ==
  ASSUME IInv, Crash
  PROVE  /\ \A i \in Runs : status'[i] =
              IF status[i] \in Active THEN "lost" ELSE status[i]
         /\ \A i \in Runs : turn'[i] = {}
         /\ \A e \in Delegated : held'[e] = NoAsk
         /\ \A i \in Runs : crumbs'[i] = {}
         /\ \A i \in Runs : tolink'[i] = {}
         /\ \A i \in Runs : host'[i] = NoRun
         /\ \A o \in Clients : pc'[o] = "idle"
         /\ UNCHANGED <<rows, hosts, parent, pending, called, results, asked,
                        target, run, carry, snap, known>>
PROOF
  BY TreeAssumption DEF IInv, TypeOK, RunTypes, StreamTypes, Crash, storeVars

LEMMA DeleteSessionEffect ==
  ASSUME IInv, NEW v \in Runs, DeleteSession(v)
  PROVE  /\ \A y : y \in rows' <=> (y \in rows /\ y[1] # v)
         /\ \A y : y \in hosts' <=> (y \in hosts /\ Super[y] # v)
         /\ UNCHANGED <<parent, pending, called, results, status, asked, turn, held,
                        crumbs, tolink, host, pc, target, run, carry, snap, known>>
PROOF
  BY TreeAssumption DEF IInv, TypeOK, DeleteSession, runVars, streamVars, countVars

----------------------------------------------------------------------------
(* What the tables hold, and what a claim finds.                            *)

LEMMA TurnTables ==
  ASSUME IInv
  PROVE  /\ \A w \in Delegated : Super[w] \in Runs /\ Super[w] # w /\ w \in Runs
         /\ \A v \in Runs : turn[v] \subseteq Delegated /\ tolink[v] \subseteq Delegated
         /\ \A v \in Runs : status[v] = "linking" => host[v] \in Delegated
         /\ \A w \in Delegated : held[w] \in Asks \cup {NoAsk}
         /\ \A v \in Runs : \A w \in tolink[v] : Super[w] = v /\ held[w] # NoAsk
         /\ NoAsk \notin Asks
PROOF
  BY TreeAssumption, NullAssumption DEF IInv, TypeOK, RunTypes, LinkingTurn

LEMMA StoreTables ==
  ASSUME IInv
  PROVE  /\ rows \subseteq Asks /\ hosts \subseteq Delegated /\ called \subseteq Calls
         /\ \A j \in Calls : parent[j] \in Links \cup {NoLink} /\ results[j] \in Nat
         /\ \A e \in Delegated : pending[e] \subseteq Delegated
         /\ \A w \in Asks : w[1] \in Runs
         /\ NoLink \notin Links /\ Delegated \cap Asks = {}
PROOF
  BY CallAssumption, NullAssumption DEF IInv, TypeOK, StoreTypes

LEMMA StreamTables ==
  ASSUME IInv
  PROVE  /\ \A u \in Clients : carry[u] \in Links \cup {NoLink}
         /\ \A u \in Clients : pc[u] # "idle" => run[u] \in Runs
         /\ \A u \in Clients :
              pc[u] \in {"cascading", "delivering", "settling"} => carry[u] \in Links
         /\ \A u \in Clients : Claiming(u) => target[u] \in Asks /\ target[u] \in known
         /\ \A u \in Clients : Claimed(u) => target[u] \notin rows /\ results[target[u]] = 0
         /\ \A u \in Clients : snap[u] \subseteq Delegated
         /\ NoLink \notin Links
PROOF
  BY NullAssumption
  DEF IInv, TypeOK, CountTypes, StreamTypes, StreamCarries, ToldFirst, OneClaim,
      Claiming, Claimed

LEMMA CrumbTables ==
  ASSUME IInv
  PROVE  /\ \A v \in Runs : crumbs[v] \subseteq Asks /\ crumbs[v] \cap known = {}
         /\ \A v, w \in Runs : v # w => crumbs[v] \cap crumbs[w] = {}
         /\ \A w \in Delegated : held[w] # NoAsk => held[w] \in crumbs[Super[w]]
         /\ \A w \in Asks : w[2] > asked[w[1]] =>
              w \notin rows /\ w \notin known /\ \A v \in Runs : w \notin crumbs[v]
         /\ \A w \in rows : results[w] = 0
         /\ \A v \in Runs : asked[v] \in Nat
PROOF
  BY BoundAssumption DEF IInv, TypeOK, RunTypes, Custody, AskedFirst, OneClaim

LEMMA ClaimFinds ==
  ASSUME IInv, LInv, NEW u \in Clients, Claim(u)
  PROVE  /\ status[run[u]] = "suspended" /\ run[u] = target[u][1]
         /\ target[u] \in Asks /\ target[u][2] = asked[run[u]]
         /\ carry[u] = parent[target[u]] /\ \A v \in Runs : target[u] \notin crumbs[v]
         /\ \A e \in Delegated : Super[e] = run[u] => ~Dangling(e) /\ ~Kept(e)
PROOF
<1>1. target[u] \in Asks /\ target[u] \in rows /\ run[u] = target[u][1] /\ pc[u] = "claiming"
  BY ClaimEffect, StreamTables DEF LInv, OneDriver, ResumeTarget, Claiming
<1>2. carry[u] = parent[target[u]]
  BY <1>1 DEF LInv, ReadLink
<1>3. \A v \in Runs : target[u] \notin crumbs[v]
  BY ClaimEffect, CrumbTables
<1> QED
  BY <1>1, <1>2, <1>3 DEF LInv, Questions, OpenLast

LEMMA SupervisorFinds ==
  ASSUME IInv, LInv, NEW u \in Clients, ClaimSupervisor(u)
  PROVE  /\ carry[u] \in Links /\ carry[u][1] \in Delegated /\ carry[u][2] \in Delegated
         /\ carry[u][1] \in hosts /\ Kept(carry[u][1])
         /\ status[Super[carry[u][1]]] \notin
              {"idle", "thinking", "delegating", "linking", "resuming"}
         /\ results[carry[u][2]] = 1
         /\ \A e \in Delegated : Super[e] = Super[carry[u][1]] =>
              ~Dangling(e) /\ (Kept(e) => e = carry[u][1])
         /\ \A o \in Clients : OnHost(o) /\ carry[o][1] = carry[u][1] => o = u
PROOF
<1> DEFINE k == carry[u][1]
<1>1. carry[u] \in Links /\ k \in Delegated /\ carry[u][2] \in Delegated /\ k \in hosts
      /\ pc[u] = "settling" /\ carry[u] # NoLink /\ \A y \in snap[u] : y = carry[u][2]
  BY ClaimSupervisorEffect, NullAssumption
<1>2. Kept(k) /\ Bears(u) /\ OnHost(u)
  BY <1>1 DEF Kept, Bears, OnHost
<1>3. Super[k] = Super[carry[u][2]] /\ results[carry[u][2]] = 1
  BY <1>1, <1>2 DEF LInv, Linked, LinkedStreams
<1>4. k \in Delegated /\ Super[k] \in Runs
  BY <1>1, TurnTables
<1>5. status[Super[k]] \notin {"idle", "thinking", "delegating", "linking", "resuming"}
  <2>1. status[Super[k]] = "linking" => carry[u][1] # host[Super[k]]
    BY <1>2, <1>4 DEF LInv, Private, PrivateStreams
  <2> QED
    BY <1>2, <1>4, <2>1 DEF LInv, Parked, ParkedThere
<1>6. \A e \in Delegated : Super[e] = Super[k] => ~Dangling(e)
  BY <1>1, <1>2, <1>3 DEF LInv, Owed, OwedRead, Dangling
<1>7. \A e \in Delegated : Super[e] = Super[k] => (Kept(e) => e = k)
  BY <1>2, <1>4 DEF LInv, Parked, ParkedOnce
<1>8. ASSUME NEW o \in Clients, OnHost(o), carry[o][1] = k PROVE o = u
  <2>1. carry[o] \in Links /\ carry[o] # NoLink
    BY <1>8, StreamTables DEF OnHost
  <2>2. Bears(o)
    BY <1>8, <2>1 DEF Bears
  <2>3. carry[o][2] \in Delegated /\ Super[carry[o][2]] = Super[k]
    BY <1>8, <2>1, <2>2 DEF LInv, Linked, LinkedStreams
  <2>4. pc[o] = "settling"
    BY <1>8, <2>2, <2>3, <1>6 DEF LInv, Linked, LinkedStreams, OnHost
  <2>5. carry[o][2] = carry[u][2]
    BY <1>1, <1>2, <1>8, <2>4 DEF LInv, Owed, StrikingRead
  <2> QED BY <1>2, <2>2, <2>5 DEF LInv, OneBearer, StreamsApart
<1> QED BY <1>1, <1>2, <1>3, <1>5, <1>6, <1>7, <1>8

LEMMA RefusedBearers ==
  ASSUME IInv, LInv, NEW v \in Runs, LinkRefused(v)
  PROVE  /\ \A o \in Clients : Bears(o)' => Bears(o) /\ pc'[o] = pc[o]
         /\ InTurn(v) => /\ v \in Delegated /\ v \in turn[Super[v]] /\ v # Super[v]
                         /\ v \in Runs /\ Super[v] \in Runs
                         /\ \A o \in Clients : Drives(o, v) => pc'[o] = pc[o]
PROOF
<1>1. InTurn(v) => v \in Delegated /\ v \in turn[Super[v]] /\ v # Super[v]
                   /\ Super[v] \in Runs /\ v \in Runs
  BY TurnTables DEF InTurn
<1>2. ASSUME NEW o \in Clients, Bears(o)' PROVE Bears(o) /\ pc'[o] = pc[o]
  <2>1. pc'[o] = pc[o] /\ run'[o] = run[o] /\ carry'[o] = carry[o] /\ pc[o] # "idle"
    BY <1>2, LinkRefusedEffect DEF Bears, Claimed, OnHost
  <2>2. CASE pc[o] # "driving"
    BY <1>2, <2>1, <2>2 DEF Bears, Claimed, OnHost
  <2>3. CASE pc[o] = "driving" /\ run[o] = v
    <3>1. InTurn(v)
      BY <2>1, <2>3, LinkRefusedEffect DEF Drives
    <3> QED BY <2>3, <3>1 DEF LInv, OneDriver, DriverAtWork
  <2>4. CASE pc[o] = "driving" /\ run[o] # v
    <3>1. run[o] \in Runs
      BY <2>4, StreamTables
    <3>2. status'[run[o]] = status[run[o]]
      BY <2>4, <3>1, LinkRefusedEffect
    <3> QED BY <1>2, <2>1, <2>4, <3>2 DEF Bears, Claimed, OnHost
  <2> QED BY <2>2, <2>3, <2>4
<1>3. ASSUME NEW o \in Clients, Drives(o, v), InTurn(v) PROVE pc'[o] = pc[o]
  BY <1>3, LinkRefusedEffect
<1> QED BY <1>1, <1>2, <1>3

LEMMA SuspendedLink ==
  ASSUME IInv, LInv, NEW v \in Runs, NEW w \in Delegated, NEW lk \in Links \cup {NoLink},
         ChainSuspend(v, w, lk)
  PROVE  /\ Unused(w) /\ ~Kept(w)
         /\ \A o \in Clients : Bears(o)' => Bears(o)
         /\ lk = NoLink \/ \E u \in Clients :
              pc[u] = "driving" /\ Bears(u) /\ carry[u] = lk /\ ~Bears(u)'
         /\ \A e \in Delegated \ {w} : HostLink(e)' => HostLink(e) /\ parent'[e] = parent[e]
         /\ parent'[w] = lk
PROOF
<1>1. Unused(w) /\ ~Kept(w)
  BY ChainSuspendEffect DEF LInv, NotYet, Unhosted
<1>2. ASSUME NEW o \in Clients, Bears(o)' PROVE Bears(o)
  BY <1>2, ChainSuspendEffect, StreamTables DEF Bears, Claimed, OnHost
<1>3. ASSUME lk # NoLink PROVE \E u \in Clients :
              pc[u] = "driving" /\ Bears(u) /\ carry[u] = lk /\ ~Bears(u)'
  <2>1. PICK u \in Clients : Drives(u, v) /\ lk = carry[u]
    BY <1>3, ChainSuspendEffect DEF ParentOption
  <2>2. Bears(u)
    BY <1>3, <2>1, ChainSuspendEffect DEF Bears, Drives
  <2>3. pc'[u] = "driving" /\ status'[run'[u]] = "linking"
    BY <2>1, ChainSuspendEffect DEF Drives
  <2>4. ~Bears(u)'
    BY <2>3 DEF Bears, Claimed, OnHost
  <2> QED BY <2>1, <2>2, <2>4 DEF Drives
<1>4. \A e \in Delegated \ {w} : HostLink(e)' => HostLink(e) /\ parent'[e] = parent[e]
  BY ChainSuspendEffect DEF HostLink, Kept, OnHost
<1>5. parent'[w] = lk
  BY ChainSuspendEffect
<1> QED BY <1>1, <1>2, <1>3, <1>4, <1>5

\* A turn that is refused a link leaves the others' drivers at work.
LEMMA RefusedDrivers ==
  ASSUME IInv, LInv, NEW v \in Runs, LinkRefused(v) PROVE DriverAtWork'
PROOF
<1> SUFFICES ASSUME NEW p \in Clients, pc'[p] = "driving"
             PROVE  (status[run[p]] \in {"thinking", "delegating", "linking"} /\ ~InTurn(run[p]))'
  BY DEF DriverAtWork
<1>1. pc[p] = "driving" /\ run'[p] = run[p] /\ run[p] \in Runs /\ run[p] # v
  <2>1. pc[p] = "driving" /\ run'[p] = run[p]
    BY LinkRefusedEffect
  <2>2. run[p] = v => InTurn(v)
    BY <2>1, LinkRefusedEffect DEF Drives
  <2>3. ~InTurn(run[p])
    BY <2>1 DEF LInv, OneDriver, DriverAtWork
  <2> QED BY <2>1, <2>2, <2>3, StreamTables
<1>2. status[run[p]] \in {"thinking", "delegating", "linking"} /\ ~InTurn(run[p])
  BY <1>1 DEF LInv, OneDriver, DriverAtWork
<1> QED BY <1>1, <1>2, LinkRefusedEffect, TurnTables DEF InTurn

\* A chain-suspension puts the link its driver carries into its checkpoint.
LEMMA SuspensionLinks ==
  ASSUME IInv, LInv, NEW v \in Runs, NEW w \in Delegated, NEW lk \in Links \cup {NoLink},
         ChainSuspend(v, w, lk)
  PROVE  PrivateHosts' /\ LinkedHosts' /\ HostsApart' /\ RowsFromHosts' /\ HostsFromStreams'
PROOF
<1>1. ASSUME NEW h \in Delegated, HostLink(h)'
      PROVE  \/ HostLink(h) /\ parent'[h] = parent[h] /\ h # w
             \/ \E u \in Clients :
                  /\ pc[u] = "driving" /\ Bears(u) /\ ~Bears(u)'
                  /\ carry[u] = lk /\ parent'[h] = lk /\ h = w
  BY <1>1, SuspendedLink DEF HostLink
<1>2. PrivateHosts'
  <2> SUFFICES ASSUME NEW r \in Runs, NEW h \in Delegated, status'[r] = "linking", HostLink(h)'
               PROVE  parent'[h][1] # host'[r]
    BY DEF PrivateHosts
  <2>1. status'[r] = IF r = v THEN "linking" ELSE status[r]
    BY ChainSuspendEffect
  <2>2. host'[r] = IF r = v THEN w ELSE host[r]
    BY ChainSuspendEffect
  <2>3. Unused(w)
    BY SuspendedLink
  <2> QED
    BY <1>1, <2>1, <2>2, <2>3 DEF LInv, Private, PrivateHosts, PrivateStreams, Unused
<1>3. LinkedHosts'
  <2> SUFFICES ASSUME NEW h \in Delegated, HostLink(h)'
               PROVE  /\ Super[parent'[h][1]] = Super[parent'[h][2]]
                      /\ parent'[h][2] \in called' /\ results'[parent'[h][2]] = 0
    BY DEF LinkedHosts, Dangling
  <2>1. Super[parent'[h][1]] = Super[parent'[h][2]] /\ Dangling(parent'[h][2])
    BY <1>1 DEF LInv, Linked, LinkedHosts, LinkedStreams
  <2> QED BY <2>1, ChainSuspendEffect DEF Dangling
<1>4. HostsApart'
  <2> SUFFICES ASSUME NEW h \in Delegated, HostLink(h)', NEW g \in Delegated, HostLink(g)',
                      parent'[h][2] = parent'[g][2]
               PROVE  h = g
    BY DEF HostsApart
  <2> QED BY <1>1 DEF LInv, OneBearer, HostsApart, HostsFromStreams
<1>5. RowsFromHosts'
  <2> SUFFICES ASSUME NEW h \in Delegated, HostLink(h)', NEW a \in Asks, RowLink(a)'
               PROVE  parent'[h][2] # parent'[a][2]
    BY DEF RowsFromHosts
  <2>1. RowLink(a) /\ parent'[a] = parent[a]
    BY ChainSuspendEffect, StoreTables DEF RowLink
  <2> QED BY <1>1, <2>1 DEF LInv, OneBearer, RowsFromHosts, RowsFromStreams
<1>6. HostsFromStreams'
  <2> SUFFICES ASSUME NEW h \in Delegated, HostLink(h)', NEW p \in Clients, Bears(p)'
               PROVE  parent'[h][2] # carry'[p][2]
    BY DEF HostsFromStreams
  <2>1. Bears(p) /\ carry' = carry
    BY SuspendedLink, ChainSuspendEffect
  <2> QED BY <1>1, <2>1 DEF LInv, OneBearer, HostsFromStreams, StreamsApart
<1> QED BY <1>2, <1>3, <1>4, <1>5, <1>6

\* Linking a child uses up the one call it is for, and a host of the turn's own.
LEMMA LinkWriteNotYet ==
  ASSUME IInv, LInv, NEW v \in Runs, LinkWrite(v) PROVE Unlinked' /\ Unhosted'
PROOF
<1>1. PICK f \in Delegated, g \in Asks :
         /\ status[v] = "linking" /\ f \in tolink[v] /\ f \in Delegated
         /\ Super[f] = v /\ g = held[f] /\ g \in Asks /\ g \in crumbs[v]
         /\ g \notin known /\ host[v] \in Delegated /\ parent'[g] # NoLink
         /\ parent'[g][1] = host[v] /\ parent'[g][2] = f
         /\ rows' = rows \cup {g}
         /\ \A j \in Calls \ {g} : parent'[j] = parent[j]
         /\ \A i \in Runs : \A y :
              y \in tolink'[i] <=> (y \in tolink[i] /\ ~(i = v /\ y = f))
         /\ UNCHANGED <<hosts, pending, called, results, status, asked, turn, held,
                        crumbs, host, pc, target, run, carry, snap, known>>
  BY LinkWriteEffect
<1>2. ASSUME NEW h \in Asks, RowLink(h)'
      PROVE  h = g \/ (RowLink(h) /\ parent'[h] = parent[h])
  BY <1>1, <1>2 DEF RowLink
<1>3. ASSUME NEW h \in Delegated PROVE HostLink(h)' => HostLink(h) /\ parent'[h] = parent[h]
  BY <1>1, <1>3, StoreTables DEF HostLink, Kept, OnHost
<1>4. ASSUME NEW p \in Clients PROVE Bears(p)' => Bears(p) /\ carry'[p] = carry[p]
  BY <1>1, <1>4 DEF Bears, Claimed, OnHost
<1>5. ASSUME NEW c \in Delegated, c # f, Unborne(c) PROVE Unborne(c)'
  BY <1>1, <1>2, <1>3, <1>4, <1>5 DEF Unborne
<1>6. ASSUME NEW k \in Delegated, k # host[v], Unused(k) PROVE Unused(k)'
  BY <1>1, <1>2, <1>3, <1>4, <1>6 DEF Unused
<1>7. status[f] # "idle" /\ f \notin turn[v] /\ turn[v] = {}
  BY <1>1, TurnTables DEF LInv, TurnShape, TurnHolds, TurnDelegates
<1>8. Super[host[v]] = v /\ status[host[v]] # "idle"
  BY <1>1 DEF LInv, TurnShape, TurnHost
<1>9. Unlinked'
  <2> SUFFICES ASSUME NEW c \in Delegated,
                      (status[c] = "idle" \/ c \in turn[Super[c]] \/ Waits(c))'
               PROVE  (results[c] = 0 /\ Unborne(c))'
    BY DEF Unlinked
  <2>1. c # f /\ (status[c] = "idle" \/ c \in turn[Super[c]] \/ Waits(c))
    BY <1>1, <1>7, TurnTables DEF Waits
  <2> QED
    BY <2>1, <1>1, <1>5, <1>7 DEF LInv, NotYet, Unlinked, Waits
<1>10. Unhosted'
  BY <1>1, <1>6, <1>7, <1>8 DEF LInv, NotYet, Unhosted, Kept, OnHost
<1> QED BY <1>9, <1>10
\* A resume that wins the claim takes over the link of the checkpoint it claims.
LEMMA ClaimedLink ==
  ASSUME IInv, LInv, NEW u \in Clients, Claim(u)
  PROVE  /\ \A a \in Asks : RowLink(a)' =>
              RowLink(a) /\ parent'[a] = parent[a] /\ a # target[u]
         /\ \A k \in Delegated : HostLink(k)' => HostLink(k) /\ parent'[k] = parent[k]
         /\ \A o \in Clients : Bears(o)' =>
              /\ carry'[o] = carry[o]
              /\ \/ o # u /\ Bears(o)
                 \/ o = u /\ RowLink(target[u]) /\ carry[o] = parent[target[u]]
         /\ target[u] \in Asks /\ pc'[u] = "acting"
PROOF
<1>1. \A a \in Asks : RowLink(a)' => RowLink(a) /\ parent'[a] = parent[a] /\ a # target[u]
  BY ClaimEffect DEF RowLink
<1>2. \A k \in Delegated : HostLink(k)' => HostLink(k) /\ parent'[k] = parent[k]
  BY ClaimEffect, StoreTables DEF HostLink, Kept, OnHost
<1>3. ASSUME NEW o \in Clients, Bears(o)', o # u PROVE Bears(o) /\ carry'[o] = carry[o]
  <2>1. carry'[o] = carry[o] /\ pc'[o] = pc[o] /\ run'[o] = run[o]
    BY <1>3, ClaimEffect
  <2>2. run[o] \in Runs /\ status[run[o]] = "linking" => status'[run[o]] = "linking"
    BY ClaimEffect, ClaimFinds
  <2>3. pc[o] # "idle" => run[o] \in Runs
    BY StreamTables
  <2> QED BY <1>3, <2>1, <2>2, <2>3 DEF Bears, Claimed, OnHost
<1>4. Bears(u)' => RowLink(target[u]) /\ carry[u] = parent[target[u]] /\ carry'[u] = carry[u]
  BY ClaimEffect, ClaimFinds DEF Bears, RowLink
<1> QED BY <1>1, <1>2, <1>3, <1>4, ClaimFinds, ClaimEffect

\* A stream that wins the claim on a supervisor checkpoint drives the supervisor
\* on and takes over the link of that checkpoint.
LEMMA SupervisorLink ==
  ASSUME IInv, LInv, NEW u \in Clients, ClaimSupervisor(u)
  PROVE  /\ \A a \in Asks : RowLink(a)' => RowLink(a) /\ parent'[a] = parent[a]
         /\ \A k \in Delegated : HostLink(k)' =>
              HostLink(k) /\ parent'[k] = parent[k] /\ k # carry[u][1]
         /\ \A o \in Clients : Bears(o)' =>
              \/ o # u /\ Bears(o) /\ carry'[o] = carry[o]
              \/ o = u /\ HostLink(carry[u][1]) /\ carry'[o] = parent[carry[u][1]]
         /\ carry[u][1] \in Delegated /\ pc'[u] = "driving"
         /\ \A o \in Clients : o # u => pc'[o] = pc[o]
PROOF
<1>1. \A a \in Asks : RowLink(a)' => RowLink(a) /\ parent'[a] = parent[a]
  BY ClaimSupervisorEffect DEF RowLink
<1>2. ASSUME NEW k \in Delegated, Kept(k)' PROVE Kept(k) /\ k # carry[u][1]
  <2>1. CASE k \in hosts'
    BY <2>1, ClaimSupervisorEffect DEF Kept
  <2>2. CASE \E o \in Clients : (OnHost(o) /\ carry[o][1] = k)'
    <3>1. PICK o \in Clients : (OnHost(o) /\ carry[o][1] = k)'
      BY <2>2
    <3>2. o # u /\ OnHost(o) /\ carry[o][1] = k
      BY <3>1, ClaimSupervisorEffect DEF OnHost
    <3> QED BY <3>2, SupervisorFinds DEF Kept
  <2> QED BY <1>2, <2>1, <2>2 DEF Kept
<1>3. \A k \in Delegated : HostLink(k)' =>
        HostLink(k) /\ parent'[k] = parent[k] /\ k # carry[u][1]
  BY <1>2, ClaimSupervisorEffect DEF HostLink
<1>4. ASSUME NEW o \in Clients, Bears(o)', o # u PROVE Bears(o) /\ carry'[o] = carry[o]
  <2>1. carry'[o] = carry[o] /\ pc'[o] = pc[o] /\ run'[o] = run[o]
    BY <1>4, ClaimSupervisorEffect
  <2>2. CASE pc[o] # "driving"
    BY <1>4, <2>1, <2>2 DEF Bears, Claimed, OnHost
  <2>3. CASE pc[o] = "driving"
    <3>1. status[run[o]] \in {"thinking", "delegating", "linking"} /\ run[o] \in Runs
      BY <2>3, StreamTables DEF LInv, OneDriver, DriverAtWork
    <3>2. run[o] # Super[carry[u][1]]
      BY <3>1, SupervisorFinds
    <3> QED BY <1>4, <2>1, <2>3, <3>1, <3>2, ClaimSupervisorEffect DEF Bears, Claimed, OnHost
  <2> QED BY <2>2, <2>3
<1>5. Bears(u)' => HostLink(carry[u][1]) /\ carry'[u] = parent[carry[u][1]]
  BY ClaimSupervisorEffect, SupervisorFinds DEF Bears, HostLink
<1>6. /\ carry[u][1] \in Delegated /\ pc'[u] = "driving"
      /\ \A o \in Clients : o # u => pc'[o] = pc[o]
  BY SupervisorFinds, ClaimSupervisorEffect
<1> QED BY <1>1, <1>3, <1>4, <1>5, <1>6

\* Those two claims keep the links apart.
LEMMA ClaimedApart ==
  ASSUME IInv, LInv, NEW u \in Clients, Claim(u) PROVE LinkedStreams' /\ OneBearer'
PROOF
<1>1. LinkedStreams'
  <2> SUFFICES ASSUME NEW o \in Clients, Bears(o)'
               PROVE  /\ Super[carry'[o][1]] = Super[carry'[o][2]]
                      /\ (pc[o] # "settling" => Dangling(carry[o][2]))'
                      /\ (pc[o] = "settling" => results[carry[o][2]] = 1)'
    BY DEF LinkedStreams
  <2>1. UNCHANGED <<called, results, carry>> /\ (o # u => pc'[o] = pc[o])
    BY ClaimEffect
  <2>2. CASE o # u
    BY <2>1, <2>2, ClaimedLink DEF LInv, Linked, LinkedStreams, Dangling
  <2>3. CASE o = u
    BY <2>1, <2>3, ClaimedLink DEF LInv, Linked, LinkedRows, Dangling
  <2> QED BY <2>2, <2>3
<1>2. RowsApart' /\ HostsApart' /\ RowsFromHosts'
  BY ClaimedLink DEF LInv, OneBearer, RowsApart, HostsApart, RowsFromHosts
<1>3. StreamsApart'
  BY ClaimedLink DEF LInv, OneBearer, StreamsApart, RowsFromStreams
<1>4. RowsFromStreams'
  BY ClaimedLink DEF LInv, OneBearer, RowsApart, RowsFromStreams
<1>5. HostsFromStreams'
  BY ClaimedLink DEF LInv, OneBearer, RowsFromHosts, HostsFromStreams
<1> QED BY <1>1, <1>2, <1>3, <1>4, <1>5 DEF OneBearer

LEMMA SupervisorApart ==
  ASSUME IInv, LInv, NEW u \in Clients, ClaimSupervisor(u)
  PROVE  PrivateHosts' /\ LinkedStreams' /\ OneBearer'
PROOF
<1>1. PrivateHosts'
  <2> SUFFICES ASSUME NEW v \in Runs, NEW h \in Delegated, status'[v] = "linking", HostLink(h)'
               PROVE  parent'[h][1] # host'[v]
    BY DEF PrivateHosts
  <2>1. status[v] = "linking" /\ host' = host
    BY ClaimSupervisorEffect
  <2> QED BY <2>1, SupervisorLink DEF LInv, Private, PrivateHosts
<1>2. LinkedStreams'
  <2> SUFFICES ASSUME NEW o \in Clients, Bears(o)'
               PROVE  /\ Super[carry'[o][1]] = Super[carry'[o][2]]
                      /\ (pc[o] # "settling" => Dangling(carry[o][2]))'
                      /\ (pc[o] = "settling" => results[carry[o][2]] = 1)'
    BY DEF LinkedStreams
  <2>1. UNCHANGED <<called, results>>
    BY ClaimSupervisorEffect
  <2>2. CASE o # u
    BY <2>1, <2>2, SupervisorLink DEF LInv, Linked, LinkedStreams, Dangling
  <2>3. CASE o = u
    BY <2>1, <2>3, SupervisorLink DEF LInv, Linked, LinkedHosts, Dangling
  <2> QED BY <2>2, <2>3
<1>3. RowsApart' /\ HostsApart' /\ RowsFromHosts'
  BY SupervisorLink DEF LInv, OneBearer, RowsApart, HostsApart, RowsFromHosts
<1>4. StreamsApart'
  BY SupervisorLink DEF LInv, OneBearer, StreamsApart, HostsFromStreams
<1>5. RowsFromStreams'
  BY SupervisorLink DEF LInv, OneBearer, RowsFromHosts, RowsFromStreams
<1>6. HostsFromStreams'
  BY SupervisorLink DEF LInv, OneBearer, HostsApart, HostsFromStreams
<1> QED BY <1>1, <1>2, <1>3, <1>4, <1>5, <1>6 DEF OneBearer

\* A chain-suspension parks its supervisor on a checkpoint nobody knew.
LEMMA SuspensionKeeps ==
  ASSUME IInv, LInv, NEW v \in Runs, NEW w \in Delegated, NEW lk \in Links \cup {NoLink},
         ChainSuspend(v, w, lk)
  PROVE  /\ TurnHost' /\ PrivateRows' /\ PrivateStreams' /\ RowsApart'
         /\ OwedRead' /\ StrikingStored'
PROOF
<1>1. \A a \in Asks : RowLink(a)' => RowLink(a) /\ parent'[a] = parent[a]
  BY ChainSuspendEffect, StoreTables DEF RowLink
<1>2. \A o \in Clients : Bears(o)' => Bears(o) /\ carry'[o] = carry[o]
  BY SuspendedLink, ChainSuspendEffect
<1>3. /\ \A i \in Runs : status'[i] = "linking" /\ i # v => status[i] = "linking"
      /\ \A i \in Runs : host'[i] = IF i = v THEN w ELSE host[i]
      /\ crumbs' = crumbs
  BY ChainSuspendEffect
<1>4. /\ \A i \in Runs : status'[i] = "idle" => status[i] = "idle"
      /\ Super[w] = v /\ status[w] # "idle"
  <2>1. status[w] # "idle" /\ Super[w] = v
    BY ChainSuspendEffect DEF LInv, TurnShape, TurnHolds
  <2> QED BY <2>1, ChainSuspendEffect
<1>5. TurnHost'
  <2> SUFFICES ASSUME NEW i \in Runs, status'[i] = "linking"
               PROVE  Super[host'[i]] = i /\ status'[host'[i]] # "idle"
    BY DEF TurnHost
  <2>1. CASE i = v
    BY <1>3, <1>4, <2>1, TurnTables
  <2>2. CASE i # v
    <3>1. Super[host[i]] = i /\ status[host[i]] # "idle" /\ host[i] \in Delegated
      BY <1>3, <2>2, TurnTables DEF LInv, TurnShape, TurnHost
    <3> QED BY <1>3, <1>4, <2>2, <3>1, TurnTables
  <2> QED BY <2>1, <2>2
<1>6. PrivateRows'
  BY <1>1, <1>3, SuspendedLink DEF LInv, Private, PrivateRows, Unused
<1>7. PrivateStreams'
  BY <1>2, <1>3, SuspendedLink DEF LInv, Private, PrivateStreams, Unused
<1>8. RowsApart'
  BY <1>1 DEF LInv, OneBearer, RowsApart
<1>9. OwedRead'
  <2> SUFFICES ASSUME NEW o \in Clients, NEW c \in Delegated, OnHost(o),
                      Super[c] = Super[carry[o][1]], Dangling(c)'
               PROVE  c \in snap'[o]
    BY ChainSuspendEffect DEF OwedRead, OnHost
  <2>1. Super[c] # v
    <3>1. Super[carry[o][1]] # v
      <4>1. carry[o] \in Links
        BY StreamTables DEF OnHost
      <4>2. carry[o][1] \in Delegated /\ Kept(carry[o][1])
        BY <4>1 DEF Kept
      <4> QED BY <4>2, ChainSuspendEffect DEF LInv, Parked, ParkedThere
    <3> QED BY <3>1
  <2>2. Dangling(c)
    BY <2>1, ChainSuspendEffect DEF Dangling, Waiting
  <2> QED BY <2>2, ChainSuspendEffect DEF LInv, Owed, OwedRead
<1>10. StrikingStored'
  <2> SUFFICES ASSUME NEW e \in hosts', NEW q \in Clients, pc[q] = "settling", carry[q][1] = e
               PROVE  carry[q][2] \in pending'[e]
    BY ChainSuspendEffect DEF StrikingStored
  <2>1. carry[q] \in Links /\ carry[q] # NoLink
    BY StreamTables
  <2>2. e # w
    BY <2>1, SuspendedLink DEF Unused, Bears, OnHost
  <2>3. e \in hosts /\ carry[q][2] \in pending[e]
    BY <2>2, ChainSuspendEffect DEF LInv, Owed, StrikingStored
  <2> QED BY <2>1, <2>2, <2>3, ChainSuspendEffect
<1> QED BY <1>5, <1>6, <1>7, <1>8, <1>9, <1>10

\* A refused link leaves the other links alone.
LEMMA RefusedLinks ==
  ASSUME IInv, LInv, NEW v \in Runs, LinkRefused(v) PROVE PrivateHosts' /\ LinkedStreams'
PROOF
<1>1. PrivateHosts'
  <2>1. \A k \in Delegated : HostLink(k)' => HostLink(k) /\ parent'[k] = parent[k]
    BY LinkRefusedEffect DEF HostLink, Kept, OnHost
  <2>2. \A i \in Runs : status'[i] = "linking" => status[i] = "linking" /\ host'[i] = host[i]
    BY LinkRefusedEffect
  <2> QED BY <2>1, <2>2 DEF LInv, Private, PrivateHosts
<1>2. LinkedStreams'
  <2> SUFFICES ASSUME NEW o \in Clients, Bears(o)'
               PROVE  /\ Super[carry'[o][1]] = Super[carry'[o][2]]
                      /\ (pc[o] # "settling" => Dangling(carry[o][2]))'
                      /\ (pc[o] = "settling" => results[carry[o][2]] = 1)'
    BY DEF LinkedStreams
  <2>1. Bears(o) /\ pc'[o] = pc[o] /\ carry' = carry
    BY RefusedBearers, LinkRefusedEffect
  <2>2. carry[o] \in Links /\ carry[o][2] \in Delegated
    BY <2>1, StreamTables DEF Bears
  <2>3. ~(InTurn(v) /\ carry[o][2] = v)
    BY <2>1, <2>2, RefusedBearers DEF LInv, NotYet, Unlinked, Unborne
  <2>4. /\ results'[carry[o][2]] = results[carry[o][2]]
        /\ carry[o][2] \in called' <=> carry[o][2] \in called
    BY <2>2, <2>3, LinkRefusedEffect
  <2> QED BY <2>1, <2>4 DEF LInv, Linked, LinkedStreams, Dangling
<1> QED BY <1>1, <1>2

\* A question of a resumed run is stored with the link its stream carried.
LEMMA AskedApart ==
  ASSUME IInv, LInv, NEW u \in Clients, Ask(u) PROVE HostsApart'
PROOF
<1>1. \A k \in Delegated : HostLink(k)' => HostLink(k) /\ parent'[k] = parent[k]
  BY AskEffect, StoreTables DEF HostLink, Kept, OnHost
<1> QED BY <1>1 DEF LInv, OneBearer, HostsApart

\* Who strikes a call off keeps the other strikes listed.
LEMMA SettledStrikes ==
  ASSUME IInv, LInv, NEW u \in Clients, Settle(u) PROVE StrikingStored'
PROOF
<1> SUFFICES ASSUME NEW e \in hosts', NEW q \in Clients, pc'[q] = "settling", carry[q][1] = e
             PROVE  carry[q][2] \in pending'[e]
  BY SettleEffect DEF StrikingStored
<1>1. q # u /\ pc[q] = "settling" /\ pc[u] = "settling"
  BY SettleEffect
<1>2. carry[q] \in Links /\ carry[u] \in Links /\ carry[q] # NoLink /\ carry[u] # NoLink
  BY <1>1, StreamTables
<1>3. carry[q][2] # carry[u][2]
  BY <1>1, <1>2 DEF LInv, OneBearer, StreamsApart, Bears, OnHost
<1>4. e = carry[u][1] => carry[q][2] \in snap[u]
  BY <1>1 DEF LInv, Owed, StrikingRead, OnHost
<1>5. e \in Delegated /\ (e \in hosts => carry[q][2] \in pending[e])
  BY <1>1, <1>2 DEF LInv, Owed, StrikingStored
<1>6. e \in hosts \/ e = carry[u][1]
  BY SettleEffect
<1> QED BY <1>3, <1>4, <1>5, <1>6, SettleEffect


----------------------------------------------------------------------------
(* Each part of the invariant is kept by every step.                        *)

\* A turn keeps its shape.
LEMMA TurnShapeStep ==
  ASSUME IInv, LInv, [Next]_vars PROVE TurnShape'
PROOF
<1>1. ASSUME NEW p \in Clients, Start(p) PROVE TurnShape'
  BY <1>1, StartEffect, TurnTables, StoreTables
  DEF LInv, TurnShape, TurnDelegates, TurnLinks, TurnMembers, TurnHolds, TurnHost
<1>2. ASSUME NEW s \in Runs, NEW c \in Delegated, Call(s, c) PROVE TurnShape'
  BY <1>2, CallEffect, TurnTables, StoreTables, StreamTables, CrumbTables
  DEF LInv, TurnShape, TurnDelegates, TurnLinks, TurnMembers, TurnHolds, TurnHost,
      OneDriver, DriverAtWork, InTurn, ResumeTarget, Claiming, Claimed, OneDriving,
      OneResuming
<1>3. ASSUME NEW r \in Delegated, AskInTurn(r) PROVE TurnShape'
  <2>1. TurnDelegates'
    BY <1>3, AskInTurnEffect, TurnTables, StoreTables
    DEF LInv, TurnShape, TurnDelegates
  <2>2. TurnLinks'
    BY <1>3, AskInTurnEffect, TurnTables, StoreTables DEF LInv, TurnShape, TurnLinks
  <2>3. TurnMembers'
    BY <1>3, AskInTurnEffect, TurnTables, StoreTables
    DEF LInv, TurnShape, TurnMembers
  <2>4. TurnHolds'
    BY <1>3, AskInTurnEffect, TurnTables, StoreTables, StreamTables, CrumbTables
    DEF LInv, TurnShape, TurnHolds, TurnDelegates, TurnLinks, TurnMembers, TurnHost,
        OneDriver, DriverAtWork, InTurn, ResumeTarget, Claiming, Claimed,
        OneDriving, OneResuming
  <2>5. TurnHost'
    BY <1>3, AskInTurnEffect, TurnTables, StoreTables DEF LInv, TurnShape, TurnHost
  <2> QED BY <2>1, <2>2, <2>3, <2>4, <2>5 DEF TurnShape
<1>4. ASSUME NEW r \in Delegated, EndInTurn(r) PROVE TurnShape'
  BY <1>4, EndInTurnEffect, TurnTables, StoreTables
  DEF LInv, TurnShape, TurnDelegates, TurnLinks, TurnMembers, TurnHolds, TurnHost
<1>5. ASSUME NEW p \in Clients, Ask(p) PROVE TurnShape'
  BY <1>5, AskEffect, TurnTables, StoreTables, StreamTables, CrumbTables
  DEF LInv, TurnShape, TurnDelegates, TurnLinks, TurnMembers, TurnHolds, TurnHost,
      OneDriver, DriverAtWork, InTurn, ResumeTarget, Claiming, Claimed, OneDriving,
      OneResuming
<1>6. ASSUME NEW p \in Clients, End(p) PROVE TurnShape'
  BY <1>6, EndEffect, TurnTables, StoreTables, StreamTables, CrumbTables
  DEF LInv, TurnShape, TurnDelegates, TurnLinks, TurnMembers, TurnHolds, TurnHost,
      OneDriver, DriverAtWork, InTurn, ResumeTarget, Claiming, Claimed, OneDriving,
      OneResuming
<1>7. ASSUME NEW s \in Runs, TurnSettles(s) PROVE TurnShape'
  BY <1>7, TurnSettlesEffect, TurnTables, StoreTables
  DEF LInv, TurnShape, TurnDelegates, TurnLinks, TurnMembers, TurnHolds, TurnHost
<1>8. ASSUME NEW s \in Runs, LinkWrite(s) PROVE TurnShape'
  BY <1>8, LinkWriteEffect, TurnTables, StoreTables
  DEF LInv, TurnShape, TurnDelegates, TurnLinks, TurnMembers, TurnHolds, TurnHost
<1>9. ASSUME NEW s \in Runs, LinkRefused(s) PROVE TurnShape'
  <2>1. TurnDelegates'
    BY <1>9, LinkRefusedEffect, TurnTables, StoreTables, RefusedBearers
    DEF LInv, TurnShape, TurnDelegates
  <2>2. TurnLinks'
    BY <1>9, LinkRefusedEffect, TurnTables, StoreTables, RefusedBearers
    DEF LInv, TurnShape, TurnLinks
  <2>3. TurnMembers'
    BY <1>9, LinkRefusedEffect, TurnTables, StoreTables, StreamTables, CrumbTables,
       RefusedBearers
    DEF LInv, TurnShape, TurnMembers, TurnDelegates, TurnLinks, TurnHolds, TurnHost,
        OneDriver, DriverAtWork, InTurn, ResumeTarget, Claiming, Claimed,
        OneDriving, OneResuming
  <2>4. TurnHolds'
    BY <1>9, LinkRefusedEffect, TurnTables, StoreTables, RefusedBearers
    DEF LInv, TurnShape, TurnHolds
  <2>5. TurnHost'
    BY <1>9, LinkRefusedEffect, TurnTables, StoreTables, RefusedBearers
    DEF LInv, TurnShape, TurnHost
  <2> QED BY <2>1, <2>2, <2>3, <2>4, <2>5 DEF TurnShape
<1>10. ASSUME NEW s \in Runs, NEW k \in Delegated, NEW link \in Links \cup {NoLink}, ChainSuspend(s, k, link)
       PROVE TurnShape'
  <2>1. TurnDelegates'
    BY <1>10, ChainSuspendEffect, TurnTables, StoreTables, SuspendedLink
    DEF LInv, TurnShape, TurnDelegates, Waiting
  <2>2. TurnLinks'
    BY <1>10, ChainSuspendEffect, TurnTables, StoreTables, SuspendedLink
    DEF LInv, TurnShape, TurnLinks, Waiting
  <2>3. TurnMembers'
    BY <1>10, ChainSuspendEffect, TurnTables, StoreTables, SuspendedLink
    DEF LInv, TurnShape, TurnMembers, Waiting
  <2>4. TurnHolds'
    BY <1>10, ChainSuspendEffect, TurnTables, StoreTables, SuspendedLink
    DEF LInv, TurnShape, TurnHolds, Waiting
  <2>5. TurnHost'
    BY <1>10, SuspensionKeeps
  <2> QED BY <2>1, <2>2, <2>3, <2>4, <2>5 DEF TurnShape
<1>11. ASSUME NEW s \in Runs, NEW c \in Delegated, LinkRead(s, c) PROVE TurnShape'
  BY <1>11, LinkReadEffect, TurnTables, StoreTables
  DEF LInv, TurnShape, TurnDelegates, TurnLinks, TurnMembers, TurnHolds, TurnHost
<1>12. ASSUME NEW s \in Delegated, NEW last \in Asks, SurfaceInTurn(s, last)
       PROVE TurnShape'
  <2>1. TurnDelegates'
    BY <1>12, SurfaceInTurnEffect, TurnTables, StoreTables
    DEF LInv, TurnShape, TurnDelegates
  <2>2. TurnLinks'
    BY <1>12, SurfaceInTurnEffect, TurnTables, StoreTables
    DEF LInv, TurnShape, TurnLinks
  <2>3. TurnMembers'
    BY <1>12, SurfaceInTurnEffect, TurnTables, StoreTables
    DEF LInv, TurnShape, TurnMembers
  <2>4. TurnHolds'
    BY <1>12, SurfaceInTurnEffect, TurnTables, StoreTables, StreamTables,
       CrumbTables
    DEF LInv, TurnShape, TurnHolds, TurnDelegates, TurnLinks, TurnMembers, TurnHost,
        OneDriver, DriverAtWork, InTurn, ResumeTarget, Claiming, Claimed,
        OneDriving, OneResuming
  <2>5. TurnHost'
    BY <1>12, SurfaceInTurnEffect, TurnTables, StoreTables
    DEF LInv, TurnShape, TurnHost
  <2> QED BY <2>1, <2>2, <2>3, <2>4, <2>5 DEF TurnShape
<1>13. ASSUME NEW p \in Clients, Surface(p) PROVE TurnShape'
  <2>1. TurnDelegates'
    BY <1>13, SurfaceEffect, TurnTables, StoreTables
    DEF LInv, TurnShape, TurnDelegates
  <2>2. TurnLinks'
    BY <1>13, SurfaceEffect, TurnTables, StoreTables DEF LInv, TurnShape, TurnLinks
  <2>3. TurnMembers'
    BY <1>13, SurfaceEffect, TurnTables, StoreTables, StreamTables, CrumbTables
    DEF LInv, TurnShape, TurnMembers, TurnDelegates, TurnLinks, TurnHolds, TurnHost,
        OneDriver, DriverAtWork, InTurn, ResumeTarget, Claiming, Claimed,
        OneDriving, OneResuming
  <2>4. TurnHolds'
    BY <1>13, SurfaceEffect, TurnTables, StoreTables DEF LInv, TurnShape, TurnHolds
  <2>5. TurnHost'
    BY <1>13, SurfaceEffect, TurnTables, StoreTables DEF LInv, TurnShape, TurnHost
  <2> QED BY <2>1, <2>2, <2>3, <2>4, <2>5 DEF TurnShape
<1>14. ASSUME NEW p \in Clients, NEW a \in Asks, ReadCheckpoint(p, a) PROVE TurnShape'
  BY <1>14, ReadCheckpointEffect, TurnTables, StoreTables
  DEF LInv, TurnShape, TurnDelegates, TurnLinks, TurnMembers, TurnHolds, TurnHost
<1>15. ASSUME NEW p \in Clients, Claim(p) PROVE TurnShape'
  <2>1. TurnDelegates'
    BY <1>15, ClaimEffect, TurnTables, StoreTables, ClaimFinds
    DEF LInv, TurnShape, TurnDelegates
  <2>2. TurnLinks'
    BY <1>15, ClaimEffect, TurnTables, StoreTables, ClaimFinds
    DEF LInv, TurnShape, TurnLinks
  <2>3. TurnMembers'
    BY <1>15, ClaimEffect, TurnTables, StoreTables, ClaimFinds
    DEF LInv, TurnShape, TurnMembers
  <2>4. TurnHolds'
    BY <1>15, ClaimEffect, TurnTables, StoreTables, ClaimFinds
    DEF LInv, TurnShape, TurnHolds
  <2>5. TurnHost'
    BY <1>15, ClaimEffect, TurnTables, StoreTables, ClaimFinds
    DEF LInv, TurnShape, TurnHost
  <2> QED BY <2>1, <2>2, <2>3, <2>4, <2>5 DEF TurnShape
<1>16. ASSUME NEW p \in Clients, LoseClaim(p) PROVE TurnShape'
  BY <1>16, LoseClaimEffect, TurnTables, StoreTables
  DEF LInv, TurnShape, TurnDelegates, TurnLinks, TurnMembers, TurnHolds, TurnHost
<1>17. ASSUME NEW p \in Clients, Act(p) PROVE TurnShape'
  BY <1>17, ActEffect, TurnTables, StoreTables
  DEF LInv, TurnShape, TurnDelegates, TurnLinks, TurnMembers, TurnHolds, TurnHost
<1>18. ASSUME NEW p \in Clients, AppendAnswer(p) PROVE TurnShape'
  <2>1. TurnDelegates'
    BY <1>18, AppendAnswerEffect, TurnTables, StoreTables, StreamTables, CrumbTables
    DEF LInv, TurnShape, TurnDelegates, TurnLinks, TurnMembers, TurnHolds, TurnHost,
        OneDriver, DriverAtWork, InTurn, ResumeTarget, Claiming, Claimed,
        OneDriving, OneResuming
  <2>2. TurnLinks'
    BY <1>18, AppendAnswerEffect, TurnTables, StoreTables, StreamTables, CrumbTables
    DEF LInv, TurnShape, TurnLinks, TurnDelegates, TurnMembers, TurnHolds, TurnHost,
        OneDriver, DriverAtWork, InTurn, ResumeTarget, Claiming, Claimed,
        OneDriving, OneResuming
  <2>3. TurnMembers'
    BY <1>18, AppendAnswerEffect, TurnTables, StoreTables
    DEF LInv, TurnShape, TurnMembers
  <2>4. TurnHolds'
    BY <1>18, AppendAnswerEffect, TurnTables, StoreTables, StreamTables, CrumbTables
    DEF LInv, TurnShape, TurnHolds, TurnDelegates, TurnLinks, TurnMembers, TurnHost,
        OneDriver, DriverAtWork, InTurn, ResumeTarget, Claiming, Claimed,
        OneDriving, OneResuming
  <2>5. TurnHost'
    BY <1>18, AppendAnswerEffect, TurnTables, StoreTables
    DEF LInv, TurnShape, TurnHost
  <2> QED BY <2>1, <2>2, <2>3, <2>4, <2>5 DEF TurnShape
<1>19. ASSUME NEW p \in Clients, AnswerRefused(p) PROVE TurnShape'
  BY <1>19, AnswerRefusedEffect, TurnTables, StoreTables, StreamTables, CrumbTables
  DEF LInv, TurnShape, TurnDelegates, TurnLinks, TurnMembers, TurnHolds, TurnHost,
      OneDriver, DriverAtWork, InTurn, ResumeTarget, Claiming, Claimed, OneDriving,
      OneResuming
<1>20. ASSUME NEW p \in Clients, ReadSupervisor(p) PROVE TurnShape'
  BY <1>20, ReadSupervisorEffect, TurnTables, StoreTables
  DEF LInv, TurnShape, TurnDelegates, TurnLinks, TurnMembers, TurnHolds, TurnHost
<1>21. ASSUME NEW p \in Clients, Deliver(p) PROVE TurnShape'
  BY <1>21, DeliverEffect, TurnTables, StoreTables
  DEF LInv, TurnShape, TurnDelegates, TurnLinks, TurnMembers, TurnHolds, TurnHost
<1>22. ASSUME NEW p \in Clients, Settle(p) PROVE TurnShape'
  BY <1>22, SettleEffect, TurnTables, StoreTables
  DEF LInv, TurnShape, TurnDelegates, TurnLinks, TurnMembers, TurnHolds, TurnHost
<1>23. ASSUME NEW p \in Clients, ClaimSupervisor(p) PROVE TurnShape'
  <2>1. TurnDelegates'
    BY <1>23, ClaimSupervisorEffect, TurnTables, StoreTables, SupervisorFinds
    DEF LInv, TurnShape, TurnDelegates
  <2>2. TurnLinks'
    BY <1>23, ClaimSupervisorEffect, TurnTables, StoreTables, SupervisorFinds
    DEF LInv, TurnShape, TurnLinks
  <2>3. TurnMembers'
    BY <1>23, ClaimSupervisorEffect, TurnTables, StoreTables, SupervisorFinds
    DEF LInv, TurnShape, TurnMembers
  <2>4. TurnHolds'
    BY <1>23, ClaimSupervisorEffect, TurnTables, StoreTables, SupervisorFinds
    DEF LInv, TurnShape, TurnHolds
  <2>5. TurnHost'
    BY <1>23, ClaimSupervisorEffect, TurnTables, StoreTables, SupervisorFinds
    DEF LInv, TurnShape, TurnHost
  <2> QED BY <2>1, <2>2, <2>3, <2>4, <2>5 DEF TurnShape
<1>24. ASSUME NEW p \in Clients, LoseSupervisor(p) PROVE TurnShape'
  BY <1>24, LoseSupervisorEffect, TurnTables, StoreTables
  DEF LInv, TurnShape, TurnDelegates, TurnLinks, TurnMembers, TurnHolds, TurnHost
<1>25. ASSUME NEW r \in Delegated, FailInTurn(r) PROVE TurnShape'
  <2>1. TurnDelegates'
    BY <1>25, FailInTurnEffect, TurnTables, StoreTables
    DEF LInv, TurnShape, TurnDelegates
  <2>2. TurnLinks'
    BY <1>25, FailInTurnEffect, TurnTables, StoreTables
    DEF LInv, TurnShape, TurnLinks
  <2>3. TurnMembers'
    BY <1>25, FailInTurnEffect, TurnTables, StoreTables
    DEF LInv, TurnShape, TurnMembers
  <2>4. TurnHolds'
    BY <1>25, FailInTurnEffect, TurnTables, StoreTables
    DEF LInv, TurnShape, TurnHolds
  <2>5. TurnHost'
    BY <1>25, FailInTurnEffect, TurnTables, StoreTables
    DEF LInv, TurnShape, TurnHost
  <2> QED BY <2>1, <2>2, <2>3, <2>4, <2>5 DEF TurnShape
<1>26. ASSUME NEW r \in Runs, Retry(r) PROVE TurnShape'
  BY <1>26, RetryEffect, TurnTables, StoreTables
  DEF LInv, TurnShape, TurnDelegates, TurnLinks, TurnMembers, TurnHolds, TurnHost
<1>27. ASSUME NEW p \in Clients, Fail(p) PROVE TurnShape'
  <2>1. TurnDelegates'
    BY <1>27, FailEffect, TurnTables, StoreTables DEF LInv, TurnShape, TurnDelegates
  <2>2. TurnLinks'
    BY <1>27, FailEffect, TurnTables, StoreTables DEF LInv, TurnShape, TurnLinks
  <2>3. TurnMembers'
    BY <1>27, FailEffect, TurnTables, StoreTables, StreamTables, CrumbTables
    DEF LInv, TurnShape, TurnMembers, TurnDelegates, TurnLinks, TurnHolds, TurnHost,
        OneDriver, DriverAtWork, InTurn, ResumeTarget, Claiming, Claimed,
        OneDriving, OneResuming
  <2>4. TurnHolds'
    BY <1>27, FailEffect, TurnTables, StoreTables DEF LInv, TurnShape, TurnHolds
  <2>5. TurnHost'
    BY <1>27, FailEffect, TurnTables, StoreTables DEF LInv, TurnShape, TurnHost
  <2> QED BY <2>1, <2>2, <2>3, <2>4, <2>5 DEF TurnShape
<1>28. ASSUME NEW p \in Clients, ActThrows(p) PROVE TurnShape'
  <2>1. TurnDelegates'
    BY <1>28, ActThrowsEffect, TurnTables, StoreTables, StreamTables, CrumbTables
    DEF LInv, TurnShape, TurnDelegates, TurnLinks, TurnMembers, TurnHolds, TurnHost,
        OneDriver, DriverAtWork, InTurn, ResumeTarget, Claiming, Claimed,
        OneDriving, OneResuming
  <2>2. TurnLinks'
    BY <1>28, ActThrowsEffect, TurnTables, StoreTables, StreamTables, CrumbTables
    DEF LInv, TurnShape, TurnLinks, TurnDelegates, TurnMembers, TurnHolds, TurnHost,
        OneDriver, DriverAtWork, InTurn, ResumeTarget, Claiming, Claimed,
        OneDriving, OneResuming
  <2>3. TurnMembers'
    BY <1>28, ActThrowsEffect, TurnTables, StoreTables, StreamTables, CrumbTables
    DEF LInv, TurnShape, TurnMembers, TurnDelegates, TurnLinks, TurnHolds, TurnHost,
        OneDriver, DriverAtWork, InTurn, ResumeTarget, Claiming, Claimed,
        OneDriving, OneResuming
  <2>4. TurnHolds'
    BY <1>28, ActThrowsEffect, TurnTables, StoreTables, StreamTables, CrumbTables
    DEF LInv, TurnShape, TurnHolds, TurnDelegates, TurnLinks, TurnMembers, TurnHost,
        OneDriver, DriverAtWork, InTurn, ResumeTarget, Claiming, Claimed,
        OneDriving, OneResuming
  <2>5. TurnHost'
    BY <1>28, ActThrowsEffect, TurnTables, StoreTables DEF LInv, TurnShape, TurnHost
  <2> QED BY <2>1, <2>2, <2>3, <2>4, <2>5 DEF TurnShape
<1>29. ASSUME Crash PROVE TurnShape'
  BY <1>29, CrashEffect, TurnTables, StoreTables
  DEF LInv, TurnShape, TurnDelegates, TurnLinks, TurnMembers, TurnHolds, TurnHost
<1>30. ASSUME NEW r \in Runs, DeleteSession(r) PROVE TurnShape'
  BY <1>30, DeleteSessionEffect, TurnTables, StoreTables
  DEF LInv, TurnShape, TurnDelegates, TurnLinks, TurnMembers, TurnHolds, TurnHost
<1>31. ASSUME UNCHANGED vars PROVE TurnShape'
  BY <1>31
  DEF vars, storeVars, runVars, streamVars, countVars, LInv, TurnShape,
      TurnDelegates, TurnLinks, TurnMembers, TurnHolds, TurnHost
<1> QED
  BY <1>1, <1>2, <1>3, <1>4, <1>5, <1>6, <1>7, <1>8, <1>9, <1>10, <1>11, <1>12,
     <1>13, <1>14, <1>15, <1>16, <1>17, <1>18, <1>19, <1>20, <1>21, <1>22, <1>23,
     <1>24, <1>25, <1>26, <1>27, <1>28, <1>29, <1>30, <1>31
  DEF Next, Turn, Linkage, Resume, Faulty, Answering, Starting

\* A run keeps one driver.
LEMMA OneDriverStep ==
  ASSUME IInv, LInv, [Next]_vars PROVE OneDriver'
PROOF
<1>1. ASSUME NEW p \in Clients, Start(p) PROVE OneDriver'
  BY <1>1, StartEffect, TurnTables, StoreTables, StreamTables, CrumbTables
  DEF LInv, OneDriver, DriverAtWork, InTurn, ResumeTarget, Claiming, Claimed,
      OneDriving, OneResuming
<1>2. ASSUME NEW s \in Runs, NEW c \in Delegated, Call(s, c) PROVE OneDriver'
  BY <1>2, CallEffect, TurnTables, StoreTables, StreamTables, CrumbTables
  DEF LInv, OneDriver, DriverAtWork, InTurn, ResumeTarget, Claiming, Claimed,
      OneDriving, OneResuming
<1>3. ASSUME NEW r \in Delegated, AskInTurn(r) PROVE OneDriver'
  BY <1>3, AskInTurnEffect, TurnTables, StoreTables, StreamTables, CrumbTables
  DEF LInv, OneDriver, DriverAtWork, InTurn, ResumeTarget, Claiming, Claimed,
      OneDriving, OneResuming
<1>4. ASSUME NEW r \in Delegated, EndInTurn(r) PROVE OneDriver'
  BY <1>4, EndInTurnEffect, TurnTables, StoreTables, StreamTables, CrumbTables
  DEF LInv, OneDriver, DriverAtWork, InTurn, ResumeTarget, Claiming, Claimed,
      OneDriving, OneResuming
<1>5. ASSUME NEW p \in Clients, Ask(p) PROVE OneDriver'
  <2>1. DriverAtWork'
    BY <1>5, AskEffect, TurnTables, StoreTables, StreamTables, CrumbTables
    DEF LInv, OneDriver, DriverAtWork, InTurn, TurnShape, TurnDelegates, TurnLinks,
        TurnMembers, TurnHolds, TurnHost, ResumeTarget, Claiming, Claimed,
        OneDriving, OneResuming
  <2>2. ResumeTarget'
    BY <1>5, AskEffect, TurnTables, StoreTables, StreamTables, CrumbTables
    DEF LInv, OneDriver, ResumeTarget, Claiming, Claimed
  <2>3. OneDriving'
    BY <1>5, AskEffect, TurnTables, StoreTables DEF LInv, OneDriver, OneDriving
  <2>4. OneResuming'
    BY <1>5, AskEffect, TurnTables, StoreTables
    DEF LInv, OneDriver, OneResuming, Claimed
  <2> QED BY <2>1, <2>2, <2>3, <2>4 DEF OneDriver
<1>6. ASSUME NEW p \in Clients, End(p) PROVE OneDriver'
  <2>1. DriverAtWork'
    BY <1>6, EndEffect, TurnTables, StoreTables, StreamTables, CrumbTables
    DEF LInv, OneDriver, DriverAtWork, InTurn, TurnShape, TurnDelegates, TurnLinks,
        TurnMembers, TurnHolds, TurnHost, ResumeTarget, Claiming, Claimed,
        OneDriving, OneResuming
  <2>2. ResumeTarget'
    BY <1>6, EndEffect, TurnTables, StoreTables, StreamTables, CrumbTables
    DEF LInv, OneDriver, ResumeTarget, Claiming, Claimed
  <2>3. OneDriving'
    BY <1>6, EndEffect, TurnTables, StoreTables DEF LInv, OneDriver, OneDriving
  <2>4. OneResuming'
    BY <1>6, EndEffect, TurnTables, StoreTables
    DEF LInv, OneDriver, OneResuming, Claimed
  <2> QED BY <2>1, <2>2, <2>3, <2>4 DEF OneDriver
<1>7. ASSUME NEW s \in Runs, TurnSettles(s) PROVE OneDriver'
  BY <1>7, TurnSettlesEffect, TurnTables, StoreTables, StreamTables, CrumbTables
  DEF LInv, OneDriver, DriverAtWork, InTurn, ResumeTarget, Claiming, Claimed,
      OneDriving, OneResuming
<1>8. ASSUME NEW s \in Runs, LinkWrite(s) PROVE OneDriver'
  BY <1>8, LinkWriteEffect, TurnTables, StoreTables
  DEF LInv, OneDriver, DriverAtWork, InTurn, ResumeTarget, Claiming, Claimed,
      OneDriving, OneResuming
<1>9. ASSUME NEW s \in Runs, LinkRefused(s) PROVE OneDriver'
  <2>1. DriverAtWork'
    BY <1>9, RefusedDrivers
  <2>2. ResumeTarget'
    BY <1>9, LinkRefusedEffect, TurnTables, StoreTables, StreamTables, CrumbTables,
       RefusedBearers
    DEF LInv, OneDriver, ResumeTarget, Claiming, Claimed
  <2>3. OneDriving'
    BY <1>9, LinkRefusedEffect, TurnTables, StoreTables, RefusedBearers
    DEF LInv, OneDriver, OneDriving
  <2>4. OneResuming'
    BY <1>9, LinkRefusedEffect, TurnTables, StoreTables, RefusedBearers
    DEF LInv, OneDriver, OneResuming, Claimed
  <2> QED BY <2>1, <2>2, <2>3, <2>4 DEF OneDriver
<1>10. ASSUME NEW s \in Runs, NEW k \in Delegated, NEW link \in Links \cup {NoLink}, ChainSuspend(s, k, link)
       PROVE OneDriver'
  <2>1. DriverAtWork'
    BY <1>10, ChainSuspendEffect, TurnTables, StoreTables, StreamTables,
       CrumbTables, SuspendedLink
    DEF LInv, OneDriver, DriverAtWork, InTurn, Waiting
  <2>2. ResumeTarget'
    BY <1>10, ChainSuspendEffect, TurnTables, StoreTables, StreamTables,
       CrumbTables, SuspendedLink
    DEF LInv, OneDriver, ResumeTarget, Claiming, Claimed, Waiting
  <2>3. OneDriving'
    BY <1>10, ChainSuspendEffect, TurnTables, StoreTables, SuspendedLink
    DEF LInv, OneDriver, OneDriving, Waiting
  <2>4. OneResuming'
    BY <1>10, ChainSuspendEffect, TurnTables, StoreTables, SuspendedLink
    DEF LInv, OneDriver, OneResuming, Claimed, Waiting
  <2> QED BY <2>1, <2>2, <2>3, <2>4 DEF OneDriver
<1>11. ASSUME NEW s \in Runs, NEW c \in Delegated, LinkRead(s, c) PROVE OneDriver'
  BY <1>11, LinkReadEffect, TurnTables, StoreTables
  DEF LInv, OneDriver, DriverAtWork, InTurn, ResumeTarget, Claiming, Claimed,
      OneDriving, OneResuming
<1>12. ASSUME NEW s \in Delegated, NEW last \in Asks, SurfaceInTurn(s, last)
       PROVE OneDriver'
  BY <1>12, SurfaceInTurnEffect, TurnTables, StoreTables, StreamTables, CrumbTables
  DEF LInv, OneDriver, DriverAtWork, InTurn, ResumeTarget, Claiming, Claimed,
      OneDriving, OneResuming
<1>13. ASSUME NEW p \in Clients, Surface(p) PROVE OneDriver'
  <2>1. DriverAtWork'
    BY <1>13, SurfaceEffect, TurnTables, StoreTables, StreamTables, CrumbTables
    DEF LInv, OneDriver, DriverAtWork, InTurn, TurnShape, TurnDelegates, TurnLinks,
        TurnMembers, TurnHolds, TurnHost, ResumeTarget, Claiming, Claimed,
        OneDriving, OneResuming
  <2>2. ResumeTarget'
    BY <1>13, SurfaceEffect, TurnTables, StoreTables, StreamTables, CrumbTables
    DEF LInv, OneDriver, ResumeTarget, Claiming, Claimed
  <2>3. OneDriving'
    BY <1>13, SurfaceEffect, TurnTables, StoreTables DEF LInv, OneDriver, OneDriving
  <2>4. OneResuming'
    BY <1>13, SurfaceEffect, TurnTables, StoreTables
    DEF LInv, OneDriver, OneResuming, Claimed
  <2> QED BY <2>1, <2>2, <2>3, <2>4 DEF OneDriver
<1>14. ASSUME NEW p \in Clients, NEW a \in Asks, ReadCheckpoint(p, a) PROVE OneDriver'
  BY <1>14, ReadCheckpointEffect, TurnTables, StoreTables
  DEF LInv, OneDriver, DriverAtWork, InTurn, ResumeTarget, Claiming, Claimed,
      OneDriving, OneResuming
<1>15. ASSUME NEW p \in Clients, Claim(p) PROVE OneDriver'
  BY <1>15, ClaimEffect, TurnTables, StoreTables, StreamTables, CrumbTables,
     ClaimFinds
  DEF LInv, OneDriver, DriverAtWork, InTurn, ResumeTarget, Claiming, Claimed,
      OneDriving, OneResuming
<1>16. ASSUME NEW p \in Clients, LoseClaim(p) PROVE OneDriver'
  BY <1>16, LoseClaimEffect, TurnTables, StoreTables
  DEF LInv, OneDriver, DriverAtWork, InTurn, ResumeTarget, Claiming, Claimed,
      OneDriving, OneResuming
<1>17. ASSUME NEW p \in Clients, Act(p) PROVE OneDriver'
  BY <1>17, ActEffect, TurnTables, StoreTables
  DEF LInv, OneDriver, DriverAtWork, InTurn, ResumeTarget, Claiming, Claimed,
      OneDriving, OneResuming
<1>18. ASSUME NEW p \in Clients, AppendAnswer(p) PROVE OneDriver'
  <2>1. DriverAtWork'
    BY <1>18, AppendAnswerEffect, TurnTables, StoreTables, StreamTables, CrumbTables
    DEF LInv, OneDriver, DriverAtWork, InTurn, TurnShape, TurnDelegates, TurnLinks,
        TurnMembers, TurnHolds, TurnHost, ResumeTarget, Claiming, Claimed,
        OneDriving, OneResuming
  <2>2. ResumeTarget'
    BY <1>18, AppendAnswerEffect, TurnTables, StoreTables, StreamTables, CrumbTables
    DEF LInv, OneDriver, ResumeTarget, Claiming, Claimed, DriverAtWork, InTurn,
        OneDriving, OneResuming, Questions, OpenLast, Dangling, Kept, OnHost
  <2>3. OneDriving'
    BY <1>18, AppendAnswerEffect, TurnTables, StoreTables, StreamTables, CrumbTables
    DEF LInv, OneDriver, OneDriving, DriverAtWork, InTurn, ResumeTarget, Claiming,
        Claimed, OneResuming
  <2>4. OneResuming'
    BY <1>18, AppendAnswerEffect, TurnTables, StoreTables
    DEF LInv, OneDriver, OneResuming, Claimed
  <2> QED BY <2>1, <2>2, <2>3, <2>4 DEF OneDriver
<1>19. ASSUME NEW p \in Clients, AnswerRefused(p) PROVE OneDriver'
  <2>1. DriverAtWork'
    BY <1>19, AnswerRefusedEffect, TurnTables, StoreTables, StreamTables,
       CrumbTables
    DEF LInv, OneDriver, DriverAtWork, InTurn, TurnShape, TurnDelegates, TurnLinks,
        TurnMembers, TurnHolds, TurnHost, ResumeTarget, Claiming, Claimed,
        OneDriving, OneResuming
  <2>2. ResumeTarget'
    BY <1>19, AnswerRefusedEffect, TurnTables, StoreTables, StreamTables,
       CrumbTables
    DEF LInv, OneDriver, ResumeTarget, Claiming, Claimed, DriverAtWork, InTurn,
        OneDriving, OneResuming, Questions, OpenLast, Dangling, Kept, OnHost
  <2>3. OneDriving'
    BY <1>19, AnswerRefusedEffect, TurnTables, StoreTables
    DEF LInv, OneDriver, OneDriving
  <2>4. OneResuming'
    BY <1>19, AnswerRefusedEffect, TurnTables, StoreTables
    DEF LInv, OneDriver, OneResuming, Claimed
  <2> QED BY <2>1, <2>2, <2>3, <2>4 DEF OneDriver
<1>20. ASSUME NEW p \in Clients, ReadSupervisor(p) PROVE OneDriver'
  BY <1>20, ReadSupervisorEffect, TurnTables, StoreTables
  DEF LInv, OneDriver, DriverAtWork, InTurn, ResumeTarget, Claiming, Claimed,
      OneDriving, OneResuming
<1>21. ASSUME NEW p \in Clients, Deliver(p) PROVE OneDriver'
  BY <1>21, DeliverEffect, TurnTables, StoreTables
  DEF LInv, OneDriver, DriverAtWork, InTurn, ResumeTarget, Claiming, Claimed,
      OneDriving, OneResuming
<1>22. ASSUME NEW p \in Clients, Settle(p) PROVE OneDriver'
  BY <1>22, SettleEffect, TurnTables, StoreTables
  DEF LInv, OneDriver, DriverAtWork, InTurn, ResumeTarget, Claiming, Claimed,
      OneDriving, OneResuming
<1>23. ASSUME NEW p \in Clients, ClaimSupervisor(p) PROVE OneDriver'
  <2>1. DriverAtWork'
    BY <1>23, ClaimSupervisorEffect, TurnTables, StoreTables, StreamTables,
       CrumbTables, SupervisorFinds
    DEF LInv, OneDriver, DriverAtWork, InTurn, TurnShape, TurnDelegates, TurnLinks,
        TurnMembers, TurnHolds, TurnHost, ResumeTarget, Claiming, Claimed,
        OneDriving, OneResuming
  <2>2. ResumeTarget'
    BY <1>23, ClaimSupervisorEffect, TurnTables, StoreTables, StreamTables,
       CrumbTables, SupervisorFinds
    DEF LInv, OneDriver, ResumeTarget, Claiming, Claimed
  <2>3. OneDriving'
    BY <1>23, ClaimSupervisorEffect, TurnTables, StoreTables, StreamTables,
       CrumbTables, SupervisorFinds
    DEF LInv, OneDriver, OneDriving, DriverAtWork, InTurn, ResumeTarget, Claiming,
        Claimed, OneResuming
  <2>4. OneResuming'
    BY <1>23, ClaimSupervisorEffect, TurnTables, StoreTables, SupervisorFinds
    DEF LInv, OneDriver, OneResuming, Claimed
  <2> QED BY <2>1, <2>2, <2>3, <2>4 DEF OneDriver
<1>24. ASSUME NEW p \in Clients, LoseSupervisor(p) PROVE OneDriver'
  BY <1>24, LoseSupervisorEffect, TurnTables, StoreTables
  DEF LInv, OneDriver, DriverAtWork, InTurn, ResumeTarget, Claiming, Claimed,
      OneDriving, OneResuming
<1>25. ASSUME NEW r \in Delegated, FailInTurn(r) PROVE OneDriver'
  BY <1>25, FailInTurnEffect, TurnTables, StoreTables, StreamTables, CrumbTables
  DEF LInv, OneDriver, DriverAtWork, InTurn, ResumeTarget, Claiming, Claimed,
      OneDriving, OneResuming
<1>26. ASSUME NEW r \in Runs, Retry(r) PROVE OneDriver'
  BY <1>26, RetryEffect, TurnTables, StoreTables, StreamTables, CrumbTables
  DEF LInv, OneDriver, DriverAtWork, InTurn, ResumeTarget, Claiming, Claimed,
      OneDriving, OneResuming
<1>27. ASSUME NEW p \in Clients, Fail(p) PROVE OneDriver'
  <2>1. DriverAtWork'
    BY <1>27, FailEffect, TurnTables, StoreTables, StreamTables, CrumbTables
    DEF LInv, OneDriver, DriverAtWork, InTurn, TurnShape, TurnDelegates, TurnLinks,
        TurnMembers, TurnHolds, TurnHost, ResumeTarget, Claiming, Claimed,
        OneDriving, OneResuming
  <2>2. ResumeTarget'
    BY <1>27, FailEffect, TurnTables, StoreTables, StreamTables, CrumbTables
    DEF LInv, OneDriver, ResumeTarget, Claiming, Claimed
  <2>3. OneDriving'
    BY <1>27, FailEffect, TurnTables, StoreTables DEF LInv, OneDriver, OneDriving
  <2>4. OneResuming'
    BY <1>27, FailEffect, TurnTables, StoreTables
    DEF LInv, OneDriver, OneResuming, Claimed
  <2> QED BY <2>1, <2>2, <2>3, <2>4 DEF OneDriver
<1>28. ASSUME NEW p \in Clients, ActThrows(p) PROVE OneDriver'
  BY <1>28, ActThrowsEffect, TurnTables, StoreTables, StreamTables, CrumbTables
  DEF LInv, OneDriver, DriverAtWork, InTurn, TurnShape, TurnDelegates, TurnLinks,
      TurnMembers, TurnHolds, TurnHost, ResumeTarget, Claiming, Claimed, OneDriving,
      OneResuming, Questions, OpenLast, Dangling, Kept, OnHost
<1>29. ASSUME Crash PROVE OneDriver'
  BY <1>29, CrashEffect, TurnTables, StoreTables
  DEF LInv, OneDriver, DriverAtWork, InTurn, ResumeTarget, Claiming, Claimed,
      OneDriving, OneResuming
<1>30. ASSUME NEW r \in Runs, DeleteSession(r) PROVE OneDriver'
  BY <1>30, DeleteSessionEffect, TurnTables, StoreTables
  DEF LInv, OneDriver, DriverAtWork, InTurn, ResumeTarget, Claiming, Claimed,
      OneDriving, OneResuming
<1>31. ASSUME UNCHANGED vars PROVE OneDriver'
  BY <1>31
  DEF vars, storeVars, runVars, streamVars, countVars, LInv, OneDriver,
      DriverAtWork, InTurn, ResumeTarget, Claiming, Claimed, OneDriving, OneResuming
<1> QED
  BY <1>1, <1>2, <1>3, <1>4, <1>5, <1>6, <1>7, <1>8, <1>9, <1>10, <1>11, <1>12,
     <1>13, <1>14, <1>15, <1>16, <1>17, <1>18, <1>19, <1>20, <1>21, <1>22, <1>23,
     <1>24, <1>25, <1>26, <1>27, <1>28, <1>29, <1>30, <1>31
  DEF Next, Turn, Linkage, Resume, Faulty, Answering, Starting

\* The link that was read stays that of the stored checkpoint.
LEMMA ReadLinkStep ==
  ASSUME IInv, LInv, [Next]_vars PROVE ReadLink'
PROOF
<1>1. ASSUME NEW p \in Clients, Start(p) PROVE ReadLink'
  BY <1>1, StartEffect, TurnTables, StoreTables DEF LInv, ReadLink
<1>2. ASSUME NEW s \in Runs, NEW c \in Delegated, Call(s, c) PROVE ReadLink'
  BY <1>2, CallEffect, TurnTables, StoreTables DEF LInv, ReadLink
<1>3. ASSUME NEW r \in Delegated, AskInTurn(r) PROVE ReadLink'
  BY <1>3, AskInTurnEffect, TurnTables, StoreTables, StreamTables, CrumbTables
  DEF LInv, ReadLink, OneDriver, ResumeTarget, Claiming, Claimed, Questions,
      OpenLast, Dangling, Kept, OnHost
<1>4. ASSUME NEW r \in Delegated, EndInTurn(r) PROVE ReadLink'
  BY <1>4, EndInTurnEffect, TurnTables, StoreTables DEF LInv, ReadLink
<1>5. ASSUME NEW p \in Clients, Ask(p) PROVE ReadLink'
  BY <1>5, AskEffect, TurnTables, StoreTables, StreamTables, CrumbTables
  DEF LInv, ReadLink, OneDriver, ResumeTarget, Claiming, Claimed, Questions,
      OpenLast, Dangling, Kept, OnHost
<1>6. ASSUME NEW p \in Clients, End(p) PROVE ReadLink'
  BY <1>6, EndEffect, TurnTables, StoreTables DEF LInv, ReadLink
<1>7. ASSUME NEW s \in Runs, TurnSettles(s) PROVE ReadLink'
  BY <1>7, TurnSettlesEffect, TurnTables, StoreTables DEF LInv, ReadLink
<1>8. ASSUME NEW s \in Runs, LinkWrite(s) PROVE ReadLink'
  BY <1>8, LinkWriteEffect, TurnTables, StoreTables, StreamTables, CrumbTables
  DEF LInv, ReadLink, OneDriver, ResumeTarget, Claiming, Claimed, Questions,
      OpenLast, Dangling, Kept, OnHost
<1>9. ASSUME NEW s \in Runs, LinkRefused(s) PROVE ReadLink'
  BY <1>9, LinkRefusedEffect, TurnTables, StoreTables, RefusedBearers
  DEF LInv, ReadLink
<1>10. ASSUME NEW s \in Runs, NEW k \in Delegated, NEW link \in Links \cup {NoLink}, ChainSuspend(s, k, link)
       PROVE ReadLink'
  BY <1>10, ChainSuspendEffect, TurnTables, StoreTables, SuspendedLink
  DEF LInv, ReadLink, Waiting
<1>11. ASSUME NEW s \in Runs, NEW c \in Delegated, LinkRead(s, c) PROVE ReadLink'
  BY <1>11, LinkReadEffect, TurnTables, StoreTables DEF LInv, ReadLink
<1>12. ASSUME NEW s \in Delegated, NEW last \in Asks, SurfaceInTurn(s, last)
       PROVE ReadLink'
  BY <1>12, SurfaceInTurnEffect, TurnTables, StoreTables DEF LInv, ReadLink
<1>13. ASSUME NEW p \in Clients, Surface(p) PROVE ReadLink'
  BY <1>13, SurfaceEffect, TurnTables, StoreTables DEF LInv, ReadLink
<1>14. ASSUME NEW p \in Clients, NEW a \in Asks, ReadCheckpoint(p, a) PROVE ReadLink'
  BY <1>14, ReadCheckpointEffect, TurnTables, StoreTables DEF LInv, ReadLink
<1>15. ASSUME NEW p \in Clients, Claim(p) PROVE ReadLink'
  BY <1>15, ClaimEffect, TurnTables, StoreTables, ClaimFinds DEF LInv, ReadLink
<1>16. ASSUME NEW p \in Clients, LoseClaim(p) PROVE ReadLink'
  BY <1>16, LoseClaimEffect, TurnTables, StoreTables DEF LInv, ReadLink
<1>17. ASSUME NEW p \in Clients, Act(p) PROVE ReadLink'
  BY <1>17, ActEffect, TurnTables, StoreTables DEF LInv, ReadLink
<1>18. ASSUME NEW p \in Clients, AppendAnswer(p) PROVE ReadLink'
  BY <1>18, AppendAnswerEffect, TurnTables, StoreTables DEF LInv, ReadLink
<1>19. ASSUME NEW p \in Clients, AnswerRefused(p) PROVE ReadLink'
  BY <1>19, AnswerRefusedEffect, TurnTables, StoreTables DEF LInv, ReadLink
<1>20. ASSUME NEW p \in Clients, ReadSupervisor(p) PROVE ReadLink'
  BY <1>20, ReadSupervisorEffect, TurnTables, StoreTables DEF LInv, ReadLink
<1>21. ASSUME NEW p \in Clients, Deliver(p) PROVE ReadLink'
  BY <1>21, DeliverEffect, TurnTables, StoreTables DEF LInv, ReadLink
<1>22. ASSUME NEW p \in Clients, Settle(p) PROVE ReadLink'
  BY <1>22, SettleEffect, TurnTables, StoreTables DEF LInv, ReadLink
<1>23. ASSUME NEW p \in Clients, ClaimSupervisor(p) PROVE ReadLink'
  BY <1>23, ClaimSupervisorEffect, TurnTables, StoreTables, SupervisorFinds
  DEF LInv, ReadLink
<1>24. ASSUME NEW p \in Clients, LoseSupervisor(p) PROVE ReadLink'
  BY <1>24, LoseSupervisorEffect, TurnTables, StoreTables DEF LInv, ReadLink
<1>25. ASSUME NEW r \in Delegated, FailInTurn(r) PROVE ReadLink'
  BY <1>25, FailInTurnEffect, TurnTables, StoreTables DEF LInv, ReadLink
<1>26. ASSUME NEW r \in Runs, Retry(r) PROVE ReadLink'
  BY <1>26, RetryEffect, TurnTables, StoreTables DEF LInv, ReadLink
<1>27. ASSUME NEW p \in Clients, Fail(p) PROVE ReadLink'
  BY <1>27, FailEffect, TurnTables, StoreTables DEF LInv, ReadLink
<1>28. ASSUME NEW p \in Clients, ActThrows(p) PROVE ReadLink'
  BY <1>28, ActThrowsEffect, TurnTables, StoreTables DEF LInv, ReadLink
<1>29. ASSUME Crash PROVE ReadLink'
  BY <1>29, CrashEffect, TurnTables, StoreTables DEF LInv, ReadLink
<1>30. ASSUME NEW r \in Runs, DeleteSession(r) PROVE ReadLink'
  BY <1>30, DeleteSessionEffect, TurnTables, StoreTables DEF LInv, ReadLink
<1>31. ASSUME UNCHANGED vars PROVE ReadLink'
  BY <1>31 DEF vars, storeVars, runVars, streamVars, countVars, LInv, ReadLink
<1> QED
  BY <1>1, <1>2, <1>3, <1>4, <1>5, <1>6, <1>7, <1>8, <1>9, <1>10, <1>11, <1>12,
     <1>13, <1>14, <1>15, <1>16, <1>17, <1>18, <1>19, <1>20, <1>21, <1>22, <1>23,
     <1>24, <1>25, <1>26, <1>27, <1>28, <1>29, <1>30, <1>31
  DEF Next, Turn, Linkage, Resume, Faulty, Answering, Starting

\* A question stays the last of its run.
LEMMA QuestionsStep ==
  ASSUME IInv, LInv, [Next]_vars PROVE Questions'
PROOF
<1>1. ASSUME NEW p \in Clients, Start(p) PROVE Questions'
  BY <1>1, StartEffect, TurnTables, StoreTables
  DEF LInv, Questions, OpenLast, Dangling, Kept, OnHost, HoleLast, HoleParks
<1>2. ASSUME NEW s \in Runs, NEW c \in Delegated, Call(s, c) PROVE Questions'
  BY <1>2, CallEffect, TurnTables, StoreTables
  DEF LInv, Questions, OpenLast, Dangling, Kept, OnHost, HoleLast, HoleParks
<1>3. ASSUME NEW r \in Delegated, AskInTurn(r) PROVE Questions'
  BY <1>3, AskInTurnEffect, TurnTables, StoreTables, StreamTables, CrumbTables
  DEF LInv, Questions, OpenLast, Dangling, Kept, OnHost, HoleLast, HoleParks,
      Parked, ParkedThere, OneDriver, DriverAtWork, InTurn, ResumeTarget, Claiming,
      Claimed, TurnShape, TurnMembers
<1>4. ASSUME NEW r \in Delegated, EndInTurn(r) PROVE Questions'
  BY <1>4, EndInTurnEffect, TurnTables, StoreTables
  DEF LInv, Questions, OpenLast, Dangling, Kept, OnHost, HoleLast, HoleParks
<1>5. ASSUME NEW p \in Clients, Ask(p) PROVE Questions'
  <2>1. OpenLast'
    BY <1>5, AskEffect, TurnTables, StoreTables, StreamTables, CrumbTables
    DEF LInv, Questions, OpenLast, Dangling, Kept, OnHost, HoleLast, HoleParks,
        Parked, ParkedThere, OneDriver, DriverAtWork, InTurn, ResumeTarget,
        Claiming, Claimed, TurnShape, TurnMembers
  <2>2. HoleLast'
    BY <1>5, AskEffect, TurnTables, StoreTables, StreamTables, CrumbTables
    DEF LInv, Questions, HoleLast, Dangling, Kept, OnHost, OpenLast, Parked,
        ParkedThere, OneDriver, DriverAtWork, InTurn, ResumeTarget, Claiming,
        Claimed, TurnShape, TurnMembers
  <2>3. HoleParks'
    BY <1>5, AskEffect, TurnTables, StoreTables
    DEF LInv, Questions, HoleParks, Dangling
  <2> QED BY <2>1, <2>2, <2>3 DEF Questions
<1>6. ASSUME NEW p \in Clients, End(p) PROVE Questions'
  BY <1>6, EndEffect, TurnTables, StoreTables
  DEF LInv, Questions, OpenLast, Dangling, Kept, OnHost, HoleLast, HoleParks
<1>7. ASSUME NEW s \in Runs, TurnSettles(s) PROVE Questions'
  BY <1>7, TurnSettlesEffect, TurnTables, StoreTables
  DEF LInv, Questions, OpenLast, Dangling, Kept, OnHost, HoleLast, HoleParks
<1>8. ASSUME NEW s \in Runs, LinkWrite(s) PROVE Questions'
  BY <1>8, LinkWriteEffect, TurnTables, StoreTables
  DEF LInv, Questions, OpenLast, Dangling, Kept, OnHost, HoleLast, HoleParks
<1>9. ASSUME NEW s \in Runs, LinkRefused(s) PROVE Questions'
  BY <1>9, LinkRefusedEffect, TurnTables, StoreTables, RefusedBearers
  DEF LInv, Questions, OpenLast, Dangling, Kept, OnHost, HoleLast, HoleParks
<1>10. ASSUME NEW s \in Runs, NEW k \in Delegated, NEW link \in Links \cup {NoLink}, ChainSuspend(s, k, link)
       PROVE Questions'
  <2>1. OpenLast'
    BY <1>10, ChainSuspendEffect, TurnTables, StoreTables, SuspendedLink
    DEF LInv, Questions, OpenLast, Dangling, Kept, OnHost, Waiting
  <2>2. HoleLast'
    BY <1>10, ChainSuspendEffect, TurnTables, StoreTables, SuspendedLink
    DEF LInv, Questions, HoleLast, Dangling, Kept, OnHost, Waiting
  <2>3. HoleParks'
    BY <1>10, ChainSuspendEffect, TurnTables, StoreTables, SuspendedLink
    DEF LInv, Questions, HoleParks, Dangling, Waiting
  <2> QED BY <2>1, <2>2, <2>3 DEF Questions
<1>11. ASSUME NEW s \in Runs, NEW c \in Delegated, LinkRead(s, c) PROVE Questions'
  BY <1>11, LinkReadEffect, TurnTables, StoreTables
  DEF LInv, Questions, OpenLast, Dangling, Kept, OnHost, HoleLast, HoleParks
<1>12. ASSUME NEW s \in Delegated, NEW last \in Asks, SurfaceInTurn(s, last)
       PROVE Questions'
  BY <1>12, SurfaceInTurnEffect, TurnTables, StoreTables
  DEF LInv, Questions, OpenLast, Dangling, Kept, OnHost, HoleLast, HoleParks
<1>13. ASSUME NEW p \in Clients, Surface(p) PROVE Questions'
  BY <1>13, SurfaceEffect, TurnTables, StoreTables
  DEF LInv, Questions, OpenLast, Dangling, Kept, OnHost, HoleLast, HoleParks
<1>14. ASSUME NEW p \in Clients, NEW a \in Asks, ReadCheckpoint(p, a) PROVE Questions'
  BY <1>14, ReadCheckpointEffect, TurnTables, StoreTables
  DEF LInv, Questions, OpenLast, Dangling, Kept, OnHost, HoleLast, HoleParks
<1>15. ASSUME NEW p \in Clients, Claim(p) PROVE Questions'
  BY <1>15, ClaimEffect, TurnTables, StoreTables, ClaimFinds
  DEF LInv, Questions, OpenLast, Dangling, Kept, OnHost, HoleLast, HoleParks
<1>16. ASSUME NEW p \in Clients, LoseClaim(p) PROVE Questions'
  BY <1>16, LoseClaimEffect, TurnTables, StoreTables
  DEF LInv, Questions, OpenLast, Dangling, Kept, OnHost, HoleLast, HoleParks
<1>17. ASSUME NEW p \in Clients, Act(p) PROVE Questions'
  BY <1>17, ActEffect, TurnTables, StoreTables
  DEF LInv, Questions, OpenLast, Dangling, Kept, OnHost, HoleLast, HoleParks
<1>18. ASSUME NEW p \in Clients, AppendAnswer(p) PROVE Questions'
  <2>1. OpenLast'
    BY <1>18, AppendAnswerEffect, TurnTables, StoreTables, StreamTables, CrumbTables
    DEF LInv, Questions, OpenLast, Dangling, Kept, OnHost, HoleLast, HoleParks,
        Parked, ParkedThere, OneDriver, DriverAtWork, InTurn, ResumeTarget,
        Claiming, Claimed, TurnShape, TurnMembers
  <2>2. HoleLast'
    BY <1>18, AppendAnswerEffect, TurnTables, StoreTables, StreamTables, CrumbTables
    DEF LInv, Questions, HoleLast, Dangling, Kept, OnHost, OpenLast, Parked,
        ParkedThere, OneDriver, DriverAtWork, InTurn, ResumeTarget, Claiming,
        Claimed, TurnShape, TurnMembers
  <2>3. HoleParks'
    BY <1>18, AppendAnswerEffect, TurnTables, StoreTables, StreamTables, CrumbTables
    DEF LInv, Questions, HoleParks, Dangling, TurnShape, TurnHolds, OneDriver,
        ResumeTarget, Claiming, Claimed, TurnMembers
  <2> QED BY <2>1, <2>2, <2>3 DEF Questions
<1>19. ASSUME NEW p \in Clients, AnswerRefused(p) PROVE Questions'
  <2>1. OpenLast'
    BY <1>19, AnswerRefusedEffect, TurnTables, StoreTables, StreamTables,
       CrumbTables
    DEF LInv, Questions, OpenLast, Dangling, Kept, OnHost, HoleLast, HoleParks,
        Parked, ParkedThere, OneDriver, DriverAtWork, InTurn, ResumeTarget,
        Claiming, Claimed, TurnShape, TurnMembers
  <2>2. HoleLast'
    BY <1>19, AnswerRefusedEffect, TurnTables, StoreTables
    DEF LInv, Questions, HoleLast, Dangling, Kept, OnHost
  <2>3. HoleParks'
    BY <1>19, AnswerRefusedEffect, TurnTables, StoreTables
    DEF LInv, Questions, HoleParks, Dangling
  <2> QED BY <2>1, <2>2, <2>3 DEF Questions
<1>20. ASSUME NEW p \in Clients, ReadSupervisor(p) PROVE Questions'
  BY <1>20, ReadSupervisorEffect, TurnTables, StoreTables
  DEF LInv, Questions, OpenLast, Dangling, Kept, OnHost, HoleLast, HoleParks
<1>21. ASSUME NEW p \in Clients, Deliver(p) PROVE Questions'
  BY <1>21, DeliverEffect, TurnTables, StoreTables
  DEF LInv, Questions, OpenLast, Dangling, Kept, OnHost, HoleLast, HoleParks
<1>22. ASSUME NEW p \in Clients, Settle(p) PROVE Questions'
  BY <1>22, SettleEffect, TurnTables, StoreTables
  DEF LInv, Questions, OpenLast, Dangling, Kept, OnHost, HoleLast, HoleParks
<1>23. ASSUME NEW p \in Clients, ClaimSupervisor(p) PROVE Questions'
  BY <1>23, ClaimSupervisorEffect, TurnTables, StoreTables, SupervisorFinds
  DEF LInv, Questions, OpenLast, Dangling, Kept, OnHost, HoleLast, HoleParks
<1>24. ASSUME NEW p \in Clients, LoseSupervisor(p) PROVE Questions'
  BY <1>24, LoseSupervisorEffect, TurnTables, StoreTables
  DEF LInv, Questions, OpenLast, Dangling, Kept, OnHost, HoleLast, HoleParks
<1>25. ASSUME NEW r \in Delegated, FailInTurn(r) PROVE Questions'
  BY <1>25, FailInTurnEffect, TurnTables, StoreTables
  DEF LInv, Questions, OpenLast, Dangling, Kept, OnHost, HoleLast, HoleParks
<1>26. ASSUME NEW r \in Runs, Retry(r) PROVE Questions'
  BY <1>26, RetryEffect, TurnTables, StoreTables
  DEF LInv, Questions, OpenLast, Dangling, Kept, OnHost, HoleLast, HoleParks
<1>27. ASSUME NEW p \in Clients, Fail(p) PROVE Questions'
  BY <1>27, FailEffect, TurnTables, StoreTables
  DEF LInv, Questions, OpenLast, Dangling, Kept, OnHost, HoleLast, HoleParks
<1>28. ASSUME NEW p \in Clients, ActThrows(p) PROVE Questions'
  <2>1. OpenLast'
    BY <1>28, ActThrowsEffect, TurnTables, StoreTables, StreamTables, CrumbTables
    DEF LInv, Questions, OpenLast, Dangling, Kept, OnHost, HoleLast, HoleParks,
        Parked, ParkedThere, OneDriver, DriverAtWork, InTurn, ResumeTarget,
        Claiming, Claimed, TurnShape, TurnMembers
  <2>2. HoleLast'
    BY <1>28, ActThrowsEffect, TurnTables, StoreTables
    DEF LInv, Questions, HoleLast, Dangling, Kept, OnHost
  <2>3. HoleParks'
    BY <1>28, ActThrowsEffect, TurnTables, StoreTables
    DEF LInv, Questions, HoleParks, Dangling
  <2> QED BY <2>1, <2>2, <2>3 DEF Questions
<1>29. ASSUME Crash PROVE Questions'
  BY <1>29, CrashEffect, TurnTables, StoreTables
  DEF LInv, Questions, OpenLast, Dangling, Kept, OnHost, HoleLast, HoleParks
<1>30. ASSUME NEW r \in Runs, DeleteSession(r) PROVE Questions'
  BY <1>30, DeleteSessionEffect, TurnTables, StoreTables
  DEF LInv, Questions, OpenLast, Dangling, Kept, OnHost, HoleLast, HoleParks
<1>31. ASSUME UNCHANGED vars PROVE Questions'
  BY <1>31
  DEF vars, storeVars, runVars, streamVars, countVars, LInv, Questions, OpenLast,
      Dangling, Kept, OnHost, HoleLast, HoleParks
<1> QED
  BY <1>1, <1>2, <1>3, <1>4, <1>5, <1>6, <1>7, <1>8, <1>9, <1>10, <1>11, <1>12,
     <1>13, <1>14, <1>15, <1>16, <1>17, <1>18, <1>19, <1>20, <1>21, <1>22, <1>23,
     <1>24, <1>25, <1>26, <1>27, <1>28, <1>29, <1>30, <1>31
  DEF Next, Turn, Linkage, Resume, Faulty, Answering, Starting

\* A supervisor stays parked on one checkpoint.
LEMMA ParkedStep ==
  ASSUME IInv, LInv, [Next]_vars PROVE Parked'
PROOF
<1>1. ASSUME NEW p \in Clients, Start(p) PROVE Parked'
  BY <1>1, StartEffect, TurnTables, StoreTables
  DEF LInv, Parked, ParkedThere, Kept, OnHost, ParkedOnce
<1>2. ASSUME NEW s \in Runs, NEW c \in Delegated, Call(s, c) PROVE Parked'
  BY <1>2, CallEffect, TurnTables, StoreTables
  DEF LInv, Parked, ParkedThere, Kept, OnHost, ParkedOnce
<1>3. ASSUME NEW r \in Delegated, AskInTurn(r) PROVE Parked'
  BY <1>3, AskInTurnEffect, TurnTables, StoreTables
  DEF LInv, Parked, ParkedThere, Kept, OnHost, ParkedOnce
<1>4. ASSUME NEW r \in Delegated, EndInTurn(r) PROVE Parked'
  BY <1>4, EndInTurnEffect, TurnTables, StoreTables
  DEF LInv, Parked, ParkedThere, Kept, OnHost, ParkedOnce
<1>5. ASSUME NEW p \in Clients, Ask(p) PROVE Parked'
  BY <1>5, AskEffect, TurnTables, StoreTables
  DEF LInv, Parked, ParkedThere, Kept, OnHost, ParkedOnce
<1>6. ASSUME NEW p \in Clients, End(p) PROVE Parked'
  BY <1>6, EndEffect, TurnTables, StoreTables
  DEF LInv, Parked, ParkedThere, Kept, OnHost, ParkedOnce
<1>7. ASSUME NEW s \in Runs, TurnSettles(s) PROVE Parked'
  BY <1>7, TurnSettlesEffect, TurnTables, StoreTables
  DEF LInv, Parked, ParkedThere, Kept, OnHost, ParkedOnce
<1>8. ASSUME NEW s \in Runs, LinkWrite(s) PROVE Parked'
  BY <1>8, LinkWriteEffect, TurnTables, StoreTables
  DEF LInv, Parked, ParkedThere, Kept, OnHost, ParkedOnce
<1>9. ASSUME NEW s \in Runs, LinkRefused(s) PROVE Parked'
  BY <1>9, LinkRefusedEffect, TurnTables, StoreTables, RefusedBearers
  DEF LInv, Parked, ParkedThere, Kept, OnHost, ParkedOnce
<1>10. ASSUME NEW s \in Runs, NEW k \in Delegated, NEW link \in Links \cup {NoLink}, ChainSuspend(s, k, link)
       PROVE Parked'
  <2>1. ParkedThere'
    BY <1>10, ChainSuspendEffect, TurnTables, StoreTables, SuspendedLink
    DEF LInv, Parked, ParkedThere, Kept, OnHost, Waiting
  <2>2. ParkedOnce'
    BY <1>10, ChainSuspendEffect, TurnTables, StoreTables, StreamTables,
       CrumbTables, SuspendedLink
    DEF LInv, Parked, ParkedOnce, Kept, OnHost, ParkedThere, TurnShape, TurnHolds,
        Waiting
  <2> QED BY <2>1, <2>2 DEF Parked
<1>11. ASSUME NEW s \in Runs, NEW c \in Delegated, LinkRead(s, c) PROVE Parked'
  BY <1>11, LinkReadEffect, TurnTables, StoreTables
  DEF LInv, Parked, ParkedThere, Kept, OnHost, ParkedOnce
<1>12. ASSUME NEW s \in Delegated, NEW last \in Asks, SurfaceInTurn(s, last)
       PROVE Parked'
  BY <1>12, SurfaceInTurnEffect, TurnTables, StoreTables
  DEF LInv, Parked, ParkedThere, Kept, OnHost, ParkedOnce
<1>13. ASSUME NEW p \in Clients, Surface(p) PROVE Parked'
  BY <1>13, SurfaceEffect, TurnTables, StoreTables
  DEF LInv, Parked, ParkedThere, Kept, OnHost, ParkedOnce
<1>14. ASSUME NEW p \in Clients, NEW a \in Asks, ReadCheckpoint(p, a) PROVE Parked'
  BY <1>14, ReadCheckpointEffect, TurnTables, StoreTables
  DEF LInv, Parked, ParkedThere, Kept, OnHost, ParkedOnce
<1>15. ASSUME NEW p \in Clients, Claim(p) PROVE Parked'
  BY <1>15, ClaimEffect, TurnTables, StoreTables, ClaimFinds
  DEF LInv, Parked, ParkedThere, Kept, OnHost, ParkedOnce
<1>16. ASSUME NEW p \in Clients, LoseClaim(p) PROVE Parked'
  BY <1>16, LoseClaimEffect, TurnTables, StoreTables
  DEF LInv, Parked, ParkedThere, Kept, OnHost, ParkedOnce
<1>17. ASSUME NEW p \in Clients, Act(p) PROVE Parked'
  BY <1>17, ActEffect, TurnTables, StoreTables
  DEF LInv, Parked, ParkedThere, Kept, OnHost, ParkedOnce
<1>18. ASSUME NEW p \in Clients, AppendAnswer(p) PROVE Parked'
  <2>1. ParkedThere'
    BY <1>18, AppendAnswerEffect, TurnTables, StoreTables, StreamTables, CrumbTables
    DEF LInv, Parked, ParkedThere, Kept, OnHost, OneDriver, ResumeTarget, Claiming,
        Claimed, TurnShape, TurnHolds, NotYet, Unhosted, Unused, RowLink, HostLink,
        Bears
  <2>2. ParkedOnce'
    BY <1>18, AppendAnswerEffect, TurnTables, StoreTables
    DEF LInv, Parked, ParkedOnce, Kept, OnHost
  <2> QED BY <2>1, <2>2 DEF Parked
<1>19. ASSUME NEW p \in Clients, AnswerRefused(p) PROVE Parked'
  BY <1>19, AnswerRefusedEffect, TurnTables, StoreTables
  DEF LInv, Parked, ParkedThere, Kept, OnHost, ParkedOnce
<1>20. ASSUME NEW p \in Clients, ReadSupervisor(p) PROVE Parked'
  BY <1>20, ReadSupervisorEffect, TurnTables, StoreTables
  DEF LInv, Parked, ParkedThere, Kept, OnHost, ParkedOnce
<1>21. ASSUME NEW p \in Clients, Deliver(p) PROVE Parked'
  BY <1>21, DeliverEffect, TurnTables, StoreTables
  DEF LInv, Parked, ParkedThere, Kept, OnHost, ParkedOnce
<1>22. ASSUME NEW p \in Clients, Settle(p) PROVE Parked'
  BY <1>22, SettleEffect, TurnTables, StoreTables
  DEF LInv, Parked, ParkedThere, Kept, OnHost, ParkedOnce
<1>23. ASSUME NEW p \in Clients, ClaimSupervisor(p) PROVE Parked'
  BY <1>23, ClaimSupervisorEffect, TurnTables, StoreTables, SupervisorFinds
  DEF LInv, Parked, ParkedThere, Kept, OnHost, ParkedOnce
<1>24. ASSUME NEW p \in Clients, LoseSupervisor(p) PROVE Parked'
  BY <1>24, LoseSupervisorEffect, TurnTables, StoreTables
  DEF LInv, Parked, ParkedThere, Kept, OnHost, ParkedOnce
<1>25. ASSUME NEW r \in Delegated, FailInTurn(r) PROVE Parked'
  BY <1>25, FailInTurnEffect, TurnTables, StoreTables
  DEF LInv, Parked, ParkedThere, Kept, OnHost, ParkedOnce
<1>26. ASSUME NEW r \in Runs, Retry(r) PROVE Parked'
  BY <1>26, RetryEffect, TurnTables, StoreTables
  DEF LInv, Parked, ParkedThere, Kept, OnHost, ParkedOnce
<1>27. ASSUME NEW p \in Clients, Fail(p) PROVE Parked'
  BY <1>27, FailEffect, TurnTables, StoreTables
  DEF LInv, Parked, ParkedThere, Kept, OnHost, ParkedOnce
<1>28. ASSUME NEW p \in Clients, ActThrows(p) PROVE Parked'
  BY <1>28, ActThrowsEffect, TurnTables, StoreTables
  DEF LInv, Parked, ParkedThere, Kept, OnHost, ParkedOnce
<1>29. ASSUME Crash PROVE Parked'
  BY <1>29, CrashEffect, TurnTables, StoreTables
  DEF LInv, Parked, ParkedThere, Kept, OnHost, ParkedOnce
<1>30. ASSUME NEW r \in Runs, DeleteSession(r) PROVE Parked'
  BY <1>30, DeleteSessionEffect, TurnTables, StoreTables
  DEF LInv, Parked, ParkedThere, Kept, OnHost, ParkedOnce
<1>31. ASSUME UNCHANGED vars PROVE Parked'
  BY <1>31
  DEF vars, storeVars, runVars, streamVars, countVars, LInv, Parked, ParkedThere,
      Kept, OnHost, ParkedOnce
<1> QED
  BY <1>1, <1>2, <1>3, <1>4, <1>5, <1>6, <1>7, <1>8, <1>9, <1>10, <1>11, <1>12,
     <1>13, <1>14, <1>15, <1>16, <1>17, <1>18, <1>19, <1>20, <1>21, <1>22, <1>23,
     <1>24, <1>25, <1>26, <1>27, <1>28, <1>29, <1>30, <1>31
  DEF Next, Turn, Linkage, Resume, Faulty, Answering, Starting

\* Nobody else gets a link to the checkpoint of a turn that is linking.
LEMMA PrivateStep ==
  ASSUME IInv, LInv, [Next]_vars PROVE Private'
PROOF
<1>1. ASSUME NEW p \in Clients, Start(p) PROVE Private'
  BY <1>1, StartEffect, TurnTables, StoreTables, StreamTables, CrumbTables
  DEF LInv, Private, PrivateRows, RowLink, PrivateHosts, HostLink, Kept, OnHost,
      PrivateStreams, Bears, Claimed
<1>2. ASSUME NEW s \in Runs, NEW c \in Delegated, Call(s, c) PROVE Private'
  BY <1>2, CallEffect, TurnTables, StoreTables, StreamTables, CrumbTables
  DEF LInv, Private, PrivateRows, RowLink, PrivateHosts, HostLink, Kept, OnHost,
      PrivateStreams, Bears, Claimed
<1>3. ASSUME NEW r \in Delegated, AskInTurn(r) PROVE Private'
  <2>1. PrivateRows'
    BY <1>3, AskInTurnEffect, TurnTables, StoreTables
    DEF LInv, Private, PrivateRows, RowLink
  <2>2. PrivateHosts'
    BY <1>3, AskInTurnEffect, TurnTables, StoreTables
    DEF LInv, Private, PrivateHosts, HostLink, Kept, OnHost
  <2>3. PrivateStreams'
    BY <1>3, AskInTurnEffect, TurnTables, StoreTables, StreamTables, CrumbTables
    DEF LInv, Private, PrivateStreams, Bears, Claimed, OnHost
  <2> QED BY <2>1, <2>2, <2>3 DEF Private
<1>4. ASSUME NEW r \in Delegated, EndInTurn(r) PROVE Private'
  <2>1. PrivateRows'
    BY <1>4, EndInTurnEffect, TurnTables, StoreTables
    DEF LInv, Private, PrivateRows, RowLink
  <2>2. PrivateHosts'
    BY <1>4, EndInTurnEffect, TurnTables, StoreTables
    DEF LInv, Private, PrivateHosts, HostLink, Kept, OnHost
  <2>3. PrivateStreams'
    BY <1>4, EndInTurnEffect, TurnTables, StoreTables, StreamTables, CrumbTables
    DEF LInv, Private, PrivateStreams, Bears, Claimed, OnHost
  <2> QED BY <2>1, <2>2, <2>3 DEF Private
<1>5. ASSUME NEW p \in Clients, Ask(p) PROVE Private'
  <2>1. PrivateRows'
    BY <1>5, AskEffect, TurnTables, StoreTables, StreamTables, CrumbTables
    DEF LInv, Private, PrivateRows, RowLink, PrivateStreams, Bears, Claimed, OnHost,
        NotYet, Unhosted, Unused, HostLink, Kept, TurnShape, TurnHost,
        TurnDelegates, TurnMembers
  <2>2. PrivateHosts'
    BY <1>5, AskEffect, TurnTables, StoreTables
    DEF LInv, Private, PrivateHosts, HostLink, Kept, OnHost
  <2>3. PrivateStreams'
    BY <1>5, AskEffect, TurnTables, StoreTables, StreamTables, CrumbTables
    DEF LInv, Private, PrivateStreams, Bears, Claimed, OnHost
  <2> QED BY <2>1, <2>2, <2>3 DEF Private
<1>6. ASSUME NEW p \in Clients, End(p) PROVE Private'
  <2>1. PrivateRows'
    BY <1>6, EndEffect, TurnTables, StoreTables
    DEF LInv, Private, PrivateRows, RowLink
  <2>2. PrivateHosts'
    BY <1>6, EndEffect, TurnTables, StoreTables
    DEF LInv, Private, PrivateHosts, HostLink, Kept, OnHost
  <2>3. PrivateStreams'
    BY <1>6, EndEffect, TurnTables, StoreTables, StreamTables, CrumbTables
    DEF LInv, Private, PrivateStreams, Bears, Claimed, OnHost
  <2> QED BY <2>1, <2>2, <2>3 DEF Private
<1>7. ASSUME NEW s \in Runs, TurnSettles(s) PROVE Private'
  BY <1>7, TurnSettlesEffect, TurnTables, StoreTables, StreamTables, CrumbTables
  DEF LInv, Private, PrivateRows, RowLink, PrivateHosts, HostLink, Kept, OnHost,
      PrivateStreams, Bears, Claimed
<1>8. ASSUME NEW s \in Runs, LinkWrite(s) PROVE Private'
  <2>1. PrivateRows'
    BY <1>8, LinkWriteEffect, TurnTables, StoreTables, StreamTables, CrumbTables
    DEF LInv, Private, PrivateRows, RowLink, PrivateStreams, Bears, Claimed, OnHost,
        NotYet, Unhosted, Unused, HostLink, Kept, TurnShape, TurnHost,
        TurnDelegates, TurnMembers
  <2>2. PrivateHosts'
    BY <1>8, LinkWriteEffect, TurnTables, StoreTables
    DEF LInv, Private, PrivateHosts, HostLink, Kept, OnHost
  <2>3. PrivateStreams'
    BY <1>8, LinkWriteEffect, TurnTables, StoreTables
    DEF LInv, Private, PrivateStreams, Bears, Claimed, OnHost
  <2> QED BY <2>1, <2>2, <2>3 DEF Private
<1>9. ASSUME NEW s \in Runs, LinkRefused(s) PROVE Private'
  <2>1. PrivateRows'
    BY <1>9, LinkRefusedEffect, TurnTables, StoreTables, RefusedBearers
    DEF LInv, Private, PrivateRows, RowLink
  <2>2. PrivateHosts'
    BY <1>9, RefusedLinks
  <2>3. PrivateStreams'
    BY <1>9, LinkRefusedEffect, TurnTables, StoreTables, StreamTables, CrumbTables,
       RefusedBearers
    DEF LInv, Private, PrivateStreams, Bears, Claimed, OnHost, OneDriver,
        ResumeTarget, Claiming, PrivateRows, RowLink, PrivateHosts, HostLink, Kept,
        NotYet, Unhosted, Unused, DriverAtWork, InTurn, OneDriving, TurnShape,
        TurnHost
  <2> QED BY <2>1, <2>2, <2>3 DEF Private
<1>10. ASSUME NEW s \in Runs, NEW k \in Delegated, NEW link \in Links \cup {NoLink}, ChainSuspend(s, k, link)
       PROVE Private'
  <2>1. PrivateRows'
    BY <1>10, SuspensionKeeps
  <2>2. PrivateHosts'
    BY <1>10, SuspensionLinks
  <2>3. PrivateStreams'
    BY <1>10, SuspensionKeeps
  <2> QED BY <2>1, <2>2, <2>3 DEF Private
<1>11. ASSUME NEW s \in Runs, NEW c \in Delegated, LinkRead(s, c) PROVE Private'
  BY <1>11, LinkReadEffect, TurnTables, StoreTables
  DEF LInv, Private, PrivateRows, RowLink, PrivateHosts, HostLink, Kept, OnHost,
      PrivateStreams, Bears, Claimed
<1>12. ASSUME NEW s \in Delegated, NEW last \in Asks, SurfaceInTurn(s, last)
       PROVE Private'
  <2>1. PrivateRows'
    BY <1>12, SurfaceInTurnEffect, TurnTables, StoreTables
    DEF LInv, Private, PrivateRows, RowLink
  <2>2. PrivateHosts'
    BY <1>12, SurfaceInTurnEffect, TurnTables, StoreTables
    DEF LInv, Private, PrivateHosts, HostLink, Kept, OnHost
  <2>3. PrivateStreams'
    BY <1>12, SurfaceInTurnEffect, TurnTables, StoreTables, StreamTables,
       CrumbTables
    DEF LInv, Private, PrivateStreams, Bears, Claimed, OnHost, PrivateRows, RowLink,
        PrivateHosts, HostLink, Kept, NotYet, Unhosted, Unused, OneDriver,
        DriverAtWork, InTurn, OneDriving, TurnShape, TurnHost
  <2> QED BY <2>1, <2>2, <2>3 DEF Private
<1>13. ASSUME NEW p \in Clients, Surface(p) PROVE Private'
  <2>1. PrivateRows'
    BY <1>13, SurfaceEffect, TurnTables, StoreTables
    DEF LInv, Private, PrivateRows, RowLink
  <2>2. PrivateHosts'
    BY <1>13, SurfaceEffect, TurnTables, StoreTables
    DEF LInv, Private, PrivateHosts, HostLink, Kept, OnHost
  <2>3. PrivateStreams'
    BY <1>13, SurfaceEffect, TurnTables, StoreTables, StreamTables, CrumbTables
    DEF LInv, Private, PrivateStreams, Bears, Claimed, OnHost, PrivateRows, RowLink,
        PrivateHosts, HostLink, Kept, NotYet, Unhosted, Unused, OneDriver,
        DriverAtWork, InTurn, OneDriving, TurnShape, TurnHost
  <2> QED BY <2>1, <2>2, <2>3 DEF Private
<1>14. ASSUME NEW p \in Clients, NEW a \in Asks, ReadCheckpoint(p, a) PROVE Private'
  <2>1. PrivateRows'
    BY <1>14, ReadCheckpointEffect, TurnTables, StoreTables
    DEF LInv, Private, PrivateRows, RowLink
  <2>2. PrivateHosts'
    BY <1>14, ReadCheckpointEffect, TurnTables, StoreTables
    DEF LInv, Private, PrivateHosts, HostLink, Kept, OnHost
  <2>3. PrivateStreams'
    BY <1>14, ReadCheckpointEffect, TurnTables, StoreTables
    DEF LInv, Private, PrivateStreams, Bears, Claimed, OnHost
  <2> QED BY <2>1, <2>2, <2>3 DEF Private
<1>15. ASSUME NEW p \in Clients, Claim(p) PROVE Private'
  <2>1. PrivateRows'
    BY <1>15, ClaimEffect, TurnTables, StoreTables, ClaimFinds
    DEF LInv, Private, PrivateRows, RowLink
  <2>2. PrivateHosts'
    BY <1>15, ClaimEffect, TurnTables, StoreTables, ClaimFinds
    DEF LInv, Private, PrivateHosts, HostLink, Kept, OnHost
  <2>3. PrivateStreams'
    BY <1>15, ClaimEffect, TurnTables, StoreTables, StreamTables, CrumbTables,
       ClaimFinds
    DEF LInv, Private, PrivateStreams, Bears, Claimed, OnHost, PrivateRows, RowLink,
        PrivateHosts, HostLink, Kept, NotYet, Unhosted, Unused, OneDriver,
        DriverAtWork, InTurn, OneDriving, TurnShape, TurnHost
  <2> QED BY <2>1, <2>2, <2>3 DEF Private
<1>16. ASSUME NEW p \in Clients, LoseClaim(p) PROVE Private'
  BY <1>16, LoseClaimEffect, TurnTables, StoreTables
  DEF LInv, Private, PrivateRows, RowLink, PrivateHosts, HostLink, Kept, OnHost,
      PrivateStreams, Bears, Claimed
<1>17. ASSUME NEW p \in Clients, Act(p) PROVE Private'
  BY <1>17, ActEffect, TurnTables, StoreTables
  DEF LInv, Private, PrivateRows, RowLink, PrivateHosts, HostLink, Kept, OnHost,
      PrivateStreams, Bears, Claimed
<1>18. ASSUME NEW p \in Clients, AppendAnswer(p) PROVE Private'
  <2>1. PrivateRows'
    BY <1>18, AppendAnswerEffect, TurnTables, StoreTables
    DEF LInv, Private, PrivateRows, RowLink
  <2>2. PrivateHosts'
    BY <1>18, AppendAnswerEffect, TurnTables, StoreTables
    DEF LInv, Private, PrivateHosts, HostLink, Kept, OnHost
  <2>3. PrivateStreams'
    BY <1>18, AppendAnswerEffect, TurnTables, StoreTables, StreamTables, CrumbTables
    DEF LInv, Private, PrivateStreams, Bears, Claimed, OnHost, OneDriver,
        ResumeTarget, Claiming, PrivateRows, RowLink, PrivateHosts, HostLink, Kept,
        NotYet, Unhosted, Unused, DriverAtWork, InTurn, OneDriving, TurnShape,
        TurnHost
  <2> QED BY <2>1, <2>2, <2>3 DEF Private
<1>19. ASSUME NEW p \in Clients, AnswerRefused(p) PROVE Private'
  <2>1. PrivateRows'
    BY <1>19, AnswerRefusedEffect, TurnTables, StoreTables
    DEF LInv, Private, PrivateRows, RowLink
  <2>2. PrivateHosts'
    BY <1>19, AnswerRefusedEffect, TurnTables, StoreTables
    DEF LInv, Private, PrivateHosts, HostLink, Kept, OnHost
  <2>3. PrivateStreams'
    BY <1>19, AnswerRefusedEffect, TurnTables, StoreTables, StreamTables,
       CrumbTables
    DEF LInv, Private, PrivateStreams, Bears, Claimed, OnHost, OneDriver,
        ResumeTarget, Claiming, PrivateRows, RowLink, PrivateHosts, HostLink, Kept,
        NotYet, Unhosted, Unused, DriverAtWork, InTurn, OneDriving, TurnShape,
        TurnHost
  <2> QED BY <2>1, <2>2, <2>3 DEF Private
<1>20. ASSUME NEW p \in Clients, ReadSupervisor(p) PROVE Private'
  BY <1>20, ReadSupervisorEffect, TurnTables, StoreTables
  DEF LInv, Private, PrivateRows, RowLink, PrivateHosts, HostLink, Kept, OnHost,
      PrivateStreams, Bears, Claimed
<1>21. ASSUME NEW p \in Clients, Deliver(p) PROVE Private'
  BY <1>21, DeliverEffect, TurnTables, StoreTables
  DEF LInv, Private, PrivateRows, RowLink, PrivateHosts, HostLink, Kept, OnHost,
      PrivateStreams, Bears, Claimed
<1>22. ASSUME NEW p \in Clients, Settle(p) PROVE Private'
  BY <1>22, SettleEffect, TurnTables, StoreTables
  DEF LInv, Private, PrivateRows, RowLink, PrivateHosts, HostLink, Kept, OnHost,
      PrivateStreams, Bears, Claimed
<1>23. ASSUME NEW p \in Clients, ClaimSupervisor(p) PROVE Private'
  <2>1. PrivateRows'
    BY <1>23, ClaimSupervisorEffect, TurnTables, StoreTables, SupervisorFinds
    DEF LInv, Private, PrivateRows, RowLink
  <2>2. PrivateHosts'
    BY <1>23, SupervisorApart
  <2>3. PrivateStreams'
    BY <1>23, ClaimSupervisorEffect, TurnTables, StoreTables, StreamTables,
       CrumbTables, SupervisorFinds
    DEF LInv, Private, PrivateStreams, Bears, Claimed, OnHost, PrivateRows, RowLink,
        PrivateHosts, HostLink, Kept, NotYet, Unhosted, Unused, OneDriver,
        DriverAtWork, InTurn, OneDriving, TurnShape, TurnHost
  <2> QED BY <2>1, <2>2, <2>3 DEF Private
<1>24. ASSUME NEW p \in Clients, LoseSupervisor(p) PROVE Private'
  BY <1>24, LoseSupervisorEffect, TurnTables, StoreTables
  DEF LInv, Private, PrivateRows, RowLink, PrivateHosts, HostLink, Kept, OnHost,
      PrivateStreams, Bears, Claimed
<1>25. ASSUME NEW r \in Delegated, FailInTurn(r) PROVE Private'
  <2>1. PrivateRows'
    BY <1>25, FailInTurnEffect, TurnTables, StoreTables
    DEF LInv, Private, PrivateRows, RowLink
  <2>2. PrivateHosts'
    BY <1>25, FailInTurnEffect, TurnTables, StoreTables
    DEF LInv, Private, PrivateHosts, HostLink, Kept, OnHost
  <2>3. PrivateStreams'
    BY <1>25, FailInTurnEffect, TurnTables, StoreTables, StreamTables, CrumbTables
    DEF LInv, Private, PrivateStreams, Bears, Claimed, OnHost
  <2> QED BY <2>1, <2>2, <2>3 DEF Private
<1>26. ASSUME NEW r \in Runs, Retry(r) PROVE Private'
  BY <1>26, RetryEffect, TurnTables, StoreTables, StreamTables, CrumbTables
  DEF LInv, Private, PrivateRows, RowLink, PrivateHosts, HostLink, Kept, OnHost,
      PrivateStreams, Bears, Claimed
<1>27. ASSUME NEW p \in Clients, Fail(p) PROVE Private'
  <2>1. PrivateRows'
    BY <1>27, FailEffect, TurnTables, StoreTables
    DEF LInv, Private, PrivateRows, RowLink
  <2>2. PrivateHosts'
    BY <1>27, FailEffect, TurnTables, StoreTables
    DEF LInv, Private, PrivateHosts, HostLink, Kept, OnHost
  <2>3. PrivateStreams'
    BY <1>27, FailEffect, TurnTables, StoreTables, StreamTables, CrumbTables
    DEF LInv, Private, PrivateStreams, Bears, Claimed, OnHost
  <2> QED BY <2>1, <2>2, <2>3 DEF Private
<1>28. ASSUME NEW p \in Clients, ActThrows(p) PROVE Private'
  <2>1. PrivateRows'
    BY <1>28, ActThrowsEffect, TurnTables, StoreTables
    DEF LInv, Private, PrivateRows, RowLink
  <2>2. PrivateHosts'
    BY <1>28, ActThrowsEffect, TurnTables, StoreTables
    DEF LInv, Private, PrivateHosts, HostLink, Kept, OnHost
  <2>3. PrivateStreams'
    BY <1>28, ActThrowsEffect, TurnTables, StoreTables, StreamTables, CrumbTables
    DEF LInv, Private, PrivateStreams, Bears, Claimed, OnHost, OneDriver,
        ResumeTarget, Claiming, PrivateRows, RowLink, PrivateHosts, HostLink, Kept,
        NotYet, Unhosted, Unused, DriverAtWork, InTurn, OneDriving, TurnShape,
        TurnHost
  <2> QED BY <2>1, <2>2, <2>3 DEF Private
<1>29. ASSUME Crash PROVE Private'
  BY <1>29, CrashEffect, TurnTables, StoreTables
  DEF LInv, Private, PrivateRows, RowLink, PrivateHosts, HostLink, Kept, OnHost,
      PrivateStreams, Bears, Claimed
<1>30. ASSUME NEW r \in Runs, DeleteSession(r) PROVE Private'
  BY <1>30, DeleteSessionEffect, TurnTables, StoreTables
  DEF LInv, Private, PrivateRows, RowLink, PrivateHosts, HostLink, Kept, OnHost,
      PrivateStreams, Bears, Claimed
<1>31. ASSUME UNCHANGED vars PROVE Private'
  BY <1>31
  DEF vars, storeVars, runVars, streamVars, countVars, LInv, Private, PrivateRows,
      RowLink, PrivateHosts, HostLink, Kept, OnHost, PrivateStreams, Bears, Claimed
<1> QED
  BY <1>1, <1>2, <1>3, <1>4, <1>5, <1>6, <1>7, <1>8, <1>9, <1>10, <1>11, <1>12,
     <1>13, <1>14, <1>15, <1>16, <1>17, <1>18, <1>19, <1>20, <1>21, <1>22, <1>23,
     <1>24, <1>25, <1>26, <1>27, <1>28, <1>29, <1>30, <1>31
  DEF Next, Turn, Linkage, Resume, Faulty, Answering, Starting

\* A link stays for a call without a result.
LEMMA LinkedStep ==
  ASSUME IInv, LInv, [Next]_vars PROVE Linked'
PROOF
<1>1. ASSUME NEW p \in Clients, Start(p) PROVE Linked'
  BY <1>1, StartEffect, TurnTables, StoreTables, StreamTables, CrumbTables
  DEF LInv, Linked, LinkedRows, RowLink, Dangling, LinkedHosts, HostLink, Kept,
      OnHost, LinkedStreams, Bears, Claimed
<1>2. ASSUME NEW s \in Runs, NEW c \in Delegated, Call(s, c) PROVE Linked'
  BY <1>2, CallEffect, TurnTables, StoreTables, StreamTables, CrumbTables
  DEF LInv, Linked, LinkedRows, RowLink, Dangling, LinkedHosts, HostLink, Kept,
      OnHost, LinkedStreams, Bears, Claimed
<1>3. ASSUME NEW r \in Delegated, AskInTurn(r) PROVE Linked'
  <2>1. LinkedRows'
    BY <1>3, AskInTurnEffect, TurnTables, StoreTables
    DEF LInv, Linked, LinkedRows, RowLink, Dangling
  <2>2. LinkedHosts'
    BY <1>3, AskInTurnEffect, TurnTables, StoreTables
    DEF LInv, Linked, LinkedHosts, HostLink, Kept, OnHost, Dangling
  <2>3. LinkedStreams'
    BY <1>3, AskInTurnEffect, TurnTables, StoreTables, StreamTables, CrumbTables
    DEF LInv, Linked, LinkedStreams, Bears, Claimed, OnHost, Dangling
  <2> QED BY <2>1, <2>2, <2>3 DEF Linked
<1>4. ASSUME NEW r \in Delegated, EndInTurn(r) PROVE Linked'
  BY <1>4, EndInTurnEffect, TurnTables, StoreTables, StreamTables, CrumbTables
  DEF LInv, Linked, LinkedRows, RowLink, Dangling, LinkedStreams, Bears, Claimed,
      OnHost, NotYet, Unlinked, Unborne, Waits, HostLink, Kept, TurnShape, TurnHost,
      TurnLinks, OneBearer, RowsFromStreams, OneDriver, DriverAtWork, InTurn,
      LinkedHosts, HostsFromStreams, StreamsApart, OneDriving
<1>5. ASSUME NEW p \in Clients, Ask(p) PROVE Linked'
  <2>1. LinkedRows'
    BY <1>5, AskEffect, TurnTables, StoreTables, StreamTables, CrumbTables
    DEF LInv, Linked, LinkedRows, RowLink, Dangling, LinkedStreams, Bears, Claimed,
        OnHost, NotYet, Unlinked, Unborne, Waits, HostLink, Kept, TurnShape,
        TurnHost, TurnLinks, OneBearer, RowsFromStreams, OneDriver, DriverAtWork,
        InTurn
  <2>2. LinkedHosts'
    BY <1>5, AskEffect, TurnTables, StoreTables
    DEF LInv, Linked, LinkedHosts, HostLink, Kept, OnHost, Dangling
  <2>3. LinkedStreams'
    BY <1>5, AskEffect, TurnTables, StoreTables, StreamTables, CrumbTables
    DEF LInv, Linked, LinkedStreams, Bears, Claimed, OnHost, Dangling
  <2> QED BY <2>1, <2>2, <2>3 DEF Linked
<1>6. ASSUME NEW p \in Clients, End(p) PROVE Linked'
  BY <1>6, EndEffect, TurnTables, StoreTables, StreamTables, CrumbTables
  DEF LInv, Linked, LinkedRows, RowLink, Dangling, LinkedHosts, HostLink, Kept,
      OnHost, LinkedStreams, Bears, Claimed
<1>7. ASSUME NEW s \in Runs, TurnSettles(s) PROVE Linked'
  BY <1>7, TurnSettlesEffect, TurnTables, StoreTables, StreamTables, CrumbTables
  DEF LInv, Linked, LinkedRows, RowLink, Dangling, LinkedHosts, HostLink, Kept,
      OnHost, LinkedStreams, Bears, Claimed
<1>8. ASSUME NEW s \in Runs, LinkWrite(s) PROVE Linked'
  <2>1. LinkedRows'
    BY <1>8, LinkWriteEffect, TurnTables, StoreTables, StreamTables, CrumbTables
    DEF LInv, Linked, LinkedRows, RowLink, Dangling, LinkedStreams, Bears, Claimed,
        OnHost, NotYet, Unlinked, Unborne, Waits, HostLink, Kept, TurnShape,
        TurnHost, TurnLinks, OneBearer, RowsFromStreams, OneDriver, DriverAtWork,
        InTurn
  <2>2. LinkedHosts'
    BY <1>8, LinkWriteEffect, TurnTables, StoreTables
    DEF LInv, Linked, LinkedHosts, HostLink, Kept, OnHost, Dangling
  <2>3. LinkedStreams'
    BY <1>8, LinkWriteEffect, TurnTables, StoreTables
    DEF LInv, Linked, LinkedStreams, Bears, Claimed, OnHost, Dangling
  <2> QED BY <2>1, <2>2, <2>3 DEF Linked
<1>9. ASSUME NEW s \in Runs, LinkRefused(s) PROVE Linked'
  <2>1. LinkedRows'
    BY <1>9, LinkRefusedEffect, TurnTables, StoreTables, StreamTables, CrumbTables,
       RefusedBearers
    DEF LInv, Linked, LinkedRows, RowLink, Dangling, LinkedStreams, Bears, Claimed,
        OnHost, NotYet, Unlinked, Unborne, Waits, HostLink, Kept, TurnShape,
        TurnHost, TurnLinks, OneBearer, RowsFromStreams, OneDriver, DriverAtWork,
        InTurn
  <2>2. LinkedHosts'
    BY <1>9, LinkRefusedEffect, TurnTables, StoreTables, StreamTables, CrumbTables,
       RefusedBearers
    DEF LInv, Linked, LinkedHosts, HostLink, Kept, OnHost, Dangling, LinkedStreams,
        Bears, Claimed, NotYet, Unlinked, Unborne, Waits, RowLink, OneBearer,
        HostsFromStreams, OneDriver, DriverAtWork, InTurn
  <2>3. LinkedStreams'
    BY <1>9, RefusedLinks
  <2> QED BY <2>1, <2>2, <2>3 DEF Linked
<1>10. ASSUME NEW s \in Runs, NEW k \in Delegated, NEW link \in Links \cup {NoLink}, ChainSuspend(s, k, link)
       PROVE Linked'
  <2>1. LinkedRows'
    BY <1>10, ChainSuspendEffect, TurnTables, StoreTables, SuspendedLink
    DEF LInv, Linked, LinkedRows, RowLink, Dangling, Waiting
  <2>2. LinkedHosts'
    BY <1>10, SuspensionLinks
  <2>3. LinkedStreams'
    BY <1>10, ChainSuspendEffect, TurnTables, StoreTables, StreamTables,
       CrumbTables, SuspendedLink
    DEF LInv, Linked, LinkedStreams, Bears, Claimed, OnHost, Dangling, Waiting
  <2> QED BY <2>1, <2>2, <2>3 DEF Linked
<1>11. ASSUME NEW s \in Runs, NEW c \in Delegated, LinkRead(s, c) PROVE Linked'
  BY <1>11, LinkReadEffect, TurnTables, StoreTables
  DEF LInv, Linked, LinkedRows, RowLink, Dangling, LinkedHosts, HostLink, Kept,
      OnHost, LinkedStreams, Bears, Claimed
<1>12. ASSUME NEW s \in Delegated, NEW last \in Asks, SurfaceInTurn(s, last)
       PROVE Linked'
  BY <1>12, SurfaceInTurnEffect, TurnTables, StoreTables, StreamTables, CrumbTables
  DEF LInv, Linked, LinkedRows, RowLink, Dangling, LinkedHosts, HostLink, Kept,
      OnHost, LinkedStreams, Bears, Claimed, NotYet, Unlinked, Unborne, Waits,
      OneBearer, StreamsApart, OneDriver, DriverAtWork, InTurn, OneDriving
<1>13. ASSUME NEW p \in Clients, Surface(p) PROVE Linked'
  <2>1. LinkedRows'
    BY <1>13, SurfaceEffect, TurnTables, StoreTables
    DEF LInv, Linked, LinkedRows, RowLink, Dangling
  <2>2. LinkedHosts'
    BY <1>13, SurfaceEffect, TurnTables, StoreTables
    DEF LInv, Linked, LinkedHosts, HostLink, Kept, OnHost, Dangling
  <2>3. LinkedStreams'
    BY <1>13, SurfaceEffect, TurnTables, StoreTables, StreamTables, CrumbTables
    DEF LInv, Linked, LinkedStreams, Bears, Claimed, OnHost, Dangling, LinkedRows,
        RowLink, LinkedHosts, HostLink, Kept, NotYet, Unlinked, Unborne, Waits,
        OneBearer, StreamsApart, OneDriver, DriverAtWork, InTurn, OneDriving
  <2> QED BY <2>1, <2>2, <2>3 DEF Linked
<1>14. ASSUME NEW p \in Clients, NEW a \in Asks, ReadCheckpoint(p, a) PROVE Linked'
  BY <1>14, ReadCheckpointEffect, TurnTables, StoreTables
  DEF LInv, Linked, LinkedRows, RowLink, Dangling, LinkedHosts, HostLink, Kept,
      OnHost, LinkedStreams, Bears, Claimed
<1>15. ASSUME NEW p \in Clients, Claim(p) PROVE Linked'
  <2>1. LinkedRows'
    BY <1>15, ClaimEffect, TurnTables, StoreTables, ClaimFinds
    DEF LInv, Linked, LinkedRows, RowLink, Dangling
  <2>2. LinkedHosts'
    BY <1>15, ClaimEffect, TurnTables, StoreTables, ClaimFinds
    DEF LInv, Linked, LinkedHosts, HostLink, Kept, OnHost, Dangling
  <2>3. LinkedStreams'
    BY <1>15, ClaimedApart
  <2> QED BY <2>1, <2>2, <2>3 DEF Linked
<1>16. ASSUME NEW p \in Clients, LoseClaim(p) PROVE Linked'
  BY <1>16, LoseClaimEffect, TurnTables, StoreTables
  DEF LInv, Linked, LinkedRows, RowLink, Dangling, LinkedHosts, HostLink, Kept,
      OnHost, LinkedStreams, Bears, Claimed
<1>17. ASSUME NEW p \in Clients, Act(p) PROVE Linked'
  BY <1>17, ActEffect, TurnTables, StoreTables
  DEF LInv, Linked, LinkedRows, RowLink, Dangling, LinkedHosts, HostLink, Kept,
      OnHost, LinkedStreams, Bears, Claimed
<1>18. ASSUME NEW p \in Clients, AppendAnswer(p) PROVE Linked'
  <2>1. LinkedRows'
    BY <1>18, AppendAnswerEffect, TurnTables, StoreTables
    DEF LInv, Linked, LinkedRows, RowLink, Dangling
  <2>2. LinkedHosts'
    BY <1>18, AppendAnswerEffect, TurnTables, StoreTables
    DEF LInv, Linked, LinkedHosts, HostLink, Kept, OnHost, Dangling
  <2>3. LinkedStreams'
    BY <1>18, AppendAnswerEffect, TurnTables, StoreTables, StreamTables, CrumbTables
    DEF LInv, Linked, LinkedStreams, Bears, Claimed, OnHost, Dangling, OneDriver,
        ResumeTarget, Claiming, LinkedRows, RowLink, LinkedHosts, HostLink, Kept,
        NotYet, Unlinked, Unborne, Waits, OneBearer, StreamsApart, DriverAtWork,
        InTurn, OneDriving
  <2> QED BY <2>1, <2>2, <2>3 DEF Linked
<1>19. ASSUME NEW p \in Clients, AnswerRefused(p) PROVE Linked'
  <2>1. LinkedRows'
    BY <1>19, AnswerRefusedEffect, TurnTables, StoreTables
    DEF LInv, Linked, LinkedRows, RowLink, Dangling
  <2>2. LinkedHosts'
    BY <1>19, AnswerRefusedEffect, TurnTables, StoreTables
    DEF LInv, Linked, LinkedHosts, HostLink, Kept, OnHost, Dangling
  <2>3. LinkedStreams'
    BY <1>19, AnswerRefusedEffect, TurnTables, StoreTables, StreamTables,
       CrumbTables
    DEF LInv, Linked, LinkedStreams, Bears, Claimed, OnHost, Dangling, OneDriver,
        ResumeTarget, Claiming, LinkedRows, RowLink, LinkedHosts, HostLink, Kept,
        NotYet, Unlinked, Unborne, Waits, OneBearer, StreamsApart, DriverAtWork,
        InTurn, OneDriving
  <2> QED BY <2>1, <2>2, <2>3 DEF Linked
<1>20. ASSUME NEW p \in Clients, ReadSupervisor(p) PROVE Linked'
  BY <1>20, ReadSupervisorEffect, TurnTables, StoreTables
  DEF LInv, Linked, LinkedRows, RowLink, Dangling, LinkedHosts, HostLink, Kept,
      OnHost, LinkedStreams, Bears, Claimed
<1>21. ASSUME NEW p \in Clients, Deliver(p) PROVE Linked'
  <2>1. LinkedRows'
    BY <1>21, DeliverEffect, TurnTables, StoreTables, StreamTables, CrumbTables
    DEF LInv, Linked, LinkedRows, RowLink, Dangling, LinkedStreams, Bears, Claimed,
        OnHost, NotYet, Unlinked, Unborne, Waits, HostLink, Kept, TurnShape,
        TurnHost, TurnLinks, OneBearer, RowsFromStreams, OneDriver, DriverAtWork,
        InTurn
  <2>2. LinkedHosts'
    BY <1>21, DeliverEffect, TurnTables, StoreTables, StreamTables, CrumbTables
    DEF LInv, Linked, LinkedHosts, HostLink, Kept, OnHost, Dangling, LinkedStreams,
        Bears, Claimed, NotYet, Unlinked, Unborne, Waits, RowLink, OneBearer,
        HostsFromStreams, OneDriver, DriverAtWork, InTurn
  <2>3. LinkedStreams'
    BY <1>21, DeliverEffect, TurnTables, StoreTables, StreamTables, CrumbTables
    DEF LInv, Linked, LinkedStreams, Bears, Claimed, OnHost, Dangling, LinkedRows,
        RowLink, LinkedHosts, HostLink, Kept, NotYet, Unlinked, Unborne, Waits,
        OneBearer, StreamsApart, OneDriver, DriverAtWork, InTurn, OneDriving
  <2> QED BY <2>1, <2>2, <2>3 DEF Linked
<1>22. ASSUME NEW p \in Clients, Settle(p) PROVE Linked'
  BY <1>22, SettleEffect, TurnTables, StoreTables
  DEF LInv, Linked, LinkedRows, RowLink, Dangling, LinkedHosts, HostLink, Kept,
      OnHost, LinkedStreams, Bears, Claimed
<1>23. ASSUME NEW p \in Clients, ClaimSupervisor(p) PROVE Linked'
  <2>1. LinkedRows'
    BY <1>23, ClaimSupervisorEffect, TurnTables, StoreTables, SupervisorFinds
    DEF LInv, Linked, LinkedRows, RowLink, Dangling
  <2>2. LinkedHosts'
    BY <1>23, ClaimSupervisorEffect, TurnTables, StoreTables, SupervisorFinds
    DEF LInv, Linked, LinkedHosts, HostLink, Kept, OnHost, Dangling
  <2>3. LinkedStreams'
    BY <1>23, SupervisorApart
  <2> QED BY <2>1, <2>2, <2>3 DEF Linked
<1>24. ASSUME NEW p \in Clients, LoseSupervisor(p) PROVE Linked'
  BY <1>24, LoseSupervisorEffect, TurnTables, StoreTables
  DEF LInv, Linked, LinkedRows, RowLink, Dangling, LinkedHosts, HostLink, Kept,
      OnHost, LinkedStreams, Bears, Claimed
<1>25. ASSUME NEW r \in Delegated, FailInTurn(r) PROVE Linked'
  <2>1. LinkedRows'
    BY <1>25, FailInTurnEffect, TurnTables, StoreTables, StreamTables, CrumbTables
    DEF LInv, Linked, LinkedRows, RowLink, Dangling, LinkedStreams, Bears, Claimed,
        OnHost, NotYet, Unlinked, Unborne, Waits, HostLink, Kept, TurnShape,
        TurnHost, TurnLinks, OneBearer, RowsFromStreams, OneDriver, DriverAtWork,
        InTurn
  <2>2. LinkedHosts'
    BY <1>25, FailInTurnEffect, TurnTables, StoreTables, StreamTables, CrumbTables
    DEF LInv, Linked, LinkedHosts, HostLink, Kept, OnHost, Dangling, LinkedStreams,
        Bears, Claimed, NotYet, Unlinked, Unborne, Waits, RowLink, OneBearer,
        HostsFromStreams, OneDriver, DriverAtWork, InTurn
  <2>3. LinkedStreams'
    BY <1>25, FailInTurnEffect, TurnTables, StoreTables, StreamTables, CrumbTables
    DEF LInv, Linked, LinkedStreams, Bears, Claimed, OnHost, Dangling, LinkedRows,
        RowLink, LinkedHosts, HostLink, Kept, NotYet, Unlinked, Unborne, Waits,
        OneBearer, StreamsApart, OneDriver, DriverAtWork, InTurn, OneDriving
  <2> QED BY <2>1, <2>2, <2>3 DEF Linked
<1>26. ASSUME NEW r \in Runs, Retry(r) PROVE Linked'
  BY <1>26, RetryEffect, TurnTables, StoreTables, StreamTables, CrumbTables
  DEF LInv, Linked, LinkedRows, RowLink, Dangling, LinkedHosts, HostLink, Kept,
      OnHost, LinkedStreams, Bears, Claimed
<1>27. ASSUME NEW p \in Clients, Fail(p) PROVE Linked'
  <2>1. LinkedRows'
    BY <1>27, FailEffect, TurnTables, StoreTables
    DEF LInv, Linked, LinkedRows, RowLink, Dangling
  <2>2. LinkedHosts'
    BY <1>27, FailEffect, TurnTables, StoreTables
    DEF LInv, Linked, LinkedHosts, HostLink, Kept, OnHost, Dangling
  <2>3. LinkedStreams'
    BY <1>27, FailEffect, TurnTables, StoreTables, StreamTables, CrumbTables
    DEF LInv, Linked, LinkedStreams, Bears, Claimed, OnHost, Dangling
  <2> QED BY <2>1, <2>2, <2>3 DEF Linked
<1>28. ASSUME NEW p \in Clients, ActThrows(p) PROVE Linked'
  <2>1. LinkedRows'
    BY <1>28, ActThrowsEffect, TurnTables, StoreTables
    DEF LInv, Linked, LinkedRows, RowLink, Dangling
  <2>2. LinkedHosts'
    BY <1>28, ActThrowsEffect, TurnTables, StoreTables
    DEF LInv, Linked, LinkedHosts, HostLink, Kept, OnHost, Dangling
  <2>3. LinkedStreams'
    BY <1>28, ActThrowsEffect, TurnTables, StoreTables, StreamTables, CrumbTables
    DEF LInv, Linked, LinkedStreams, Bears, Claimed, OnHost, Dangling, OneDriver,
        ResumeTarget, Claiming, LinkedRows, RowLink, LinkedHosts, HostLink, Kept,
        NotYet, Unlinked, Unborne, Waits, OneBearer, StreamsApart, DriverAtWork,
        InTurn, OneDriving
  <2> QED BY <2>1, <2>2, <2>3 DEF Linked
<1>29. ASSUME Crash PROVE Linked'
  BY <1>29, CrashEffect, TurnTables, StoreTables
  DEF LInv, Linked, LinkedRows, RowLink, Dangling, LinkedHosts, HostLink, Kept,
      OnHost, LinkedStreams, Bears, Claimed
<1>30. ASSUME NEW r \in Runs, DeleteSession(r) PROVE Linked'
  BY <1>30, DeleteSessionEffect, TurnTables, StoreTables
  DEF LInv, Linked, LinkedRows, RowLink, Dangling, LinkedHosts, HostLink, Kept,
      OnHost, LinkedStreams, Bears, Claimed
<1>31. ASSUME UNCHANGED vars PROVE Linked'
  BY <1>31
  DEF vars, storeVars, runVars, streamVars, countVars, LInv, Linked, LinkedRows,
      RowLink, Dangling, LinkedHosts, HostLink, Kept, OnHost, LinkedStreams, Bears,
      Claimed
<1> QED
  BY <1>1, <1>2, <1>3, <1>4, <1>5, <1>6, <1>7, <1>8, <1>9, <1>10, <1>11, <1>12,
     <1>13, <1>14, <1>15, <1>16, <1>17, <1>18, <1>19, <1>20, <1>21, <1>22, <1>23,
     <1>24, <1>25, <1>26, <1>27, <1>28, <1>29, <1>30, <1>31
  DEF Next, Turn, Linkage, Resume, Faulty, Answering, Starting

\* The steps that make a link or hand one over.
LinkMoves ==
  \/ \E p \in Clients : Ask(p) \/ Claim(p) \/ ClaimSupervisor(p)
  \/ \E s \in Runs : LinkWrite(s)
  \/ \E s \in Runs, k \in Delegated, link \in Links \cup {NoLink} : ChainSuspend(s, k, link)

\* Every other step leaves the links as they are, or fewer.
LEMMA LinksShrinkOrMove ==
  ASSUME IInv, LInv, [Next]_vars PROVE LinksShrink \/ LinkMoves
PROOF
<1>1. ASSUME NEW p \in Clients, Start(p) PROVE LinksShrink \/ LinkMoves
  BY <1>1, StartEffect, StreamTables
  DEF LinksShrink, LInv, OneDriver, DriverAtWork, ResumeTarget, OneDriving, RowLink,
      HostLink, Kept, Bears, Claimed, OnHost
<1>2. ASSUME NEW s \in Runs, NEW c \in Delegated, Call(s, c)
       PROVE LinksShrink \/ LinkMoves
  BY <1>2, CallEffect, StreamTables
  DEF LinksShrink, LInv, OneDriver, DriverAtWork, ResumeTarget, OneDriving, RowLink,
      HostLink, Kept, Bears, Claimed, OnHost
<1>3. ASSUME NEW r \in Delegated, AskInTurn(r) PROVE LinksShrink \/ LinkMoves
  BY <1>3, AskInTurnEffect, StreamTables
  DEF LinksShrink, LInv, OneDriver, DriverAtWork, ResumeTarget, OneDriving, RowLink,
      HostLink, Kept, Bears, Claimed, OnHost
<1>4. ASSUME NEW r \in Delegated, EndInTurn(r) PROVE LinksShrink \/ LinkMoves
  BY <1>4, EndInTurnEffect, StreamTables
  DEF LinksShrink, LInv, OneDriver, DriverAtWork, ResumeTarget, OneDriving, RowLink,
      HostLink, Kept, Bears, Claimed, OnHost
<1>5. ASSUME NEW p \in Clients, Ask(p) PROVE LinksShrink \/ LinkMoves
  BY <1>5 DEF LinkMoves
<1>6. ASSUME NEW p \in Clients, End(p) PROVE LinksShrink \/ LinkMoves
  BY <1>6, EndEffect, StreamTables
  DEF LinksShrink, LInv, OneDriver, DriverAtWork, ResumeTarget, OneDriving, RowLink,
      HostLink, Kept, Bears, Claimed, OnHost
<1>7. ASSUME NEW s \in Runs, TurnSettles(s) PROVE LinksShrink \/ LinkMoves
  BY <1>7, TurnSettlesEffect, StreamTables
  DEF LinksShrink, LInv, OneDriver, DriverAtWork, ResumeTarget, OneDriving, RowLink,
      HostLink, Kept, Bears, Claimed, OnHost
<1>8. ASSUME NEW s \in Runs, LinkWrite(s) PROVE LinksShrink \/ LinkMoves
  BY <1>8 DEF LinkMoves
<1>9. ASSUME NEW s \in Runs, LinkRefused(s) PROVE LinksShrink \/ LinkMoves
  BY <1>9, LinkRefusedEffect, RefusedBearers, StreamTables
  DEF LinksShrink, LInv, OneDriver, DriverAtWork, ResumeTarget, OneDriving, RowLink,
      HostLink, Kept, Bears, Claimed, OnHost
<1>10. ASSUME NEW s \in Runs, NEW k \in Delegated, NEW link \in Links \cup {NoLink}, ChainSuspend(s, k, link)
       PROVE LinksShrink \/ LinkMoves
  BY <1>10 DEF LinkMoves
<1>11. ASSUME NEW s \in Runs, NEW c \in Delegated, LinkRead(s, c)
       PROVE LinksShrink \/ LinkMoves
  BY <1>11, LinkReadEffect, StreamTables
  DEF LinksShrink, LInv, OneDriver, DriverAtWork, ResumeTarget, OneDriving, RowLink,
      HostLink, Kept, Bears, Claimed, OnHost
<1>12. ASSUME NEW s \in Delegated, NEW last \in Asks, SurfaceInTurn(s, last)
       PROVE LinksShrink \/ LinkMoves
  <2>1. \A a \in Asks : RowLink(a)' => RowLink(a) /\ parent'[a] = parent[a]
    BY <1>12, SurfaceInTurnEffect DEF RowLink
  <2>2. \A k \in Delegated : HostLink(k)' => HostLink(k) /\ parent'[k] = parent[k]
    BY <1>12, SurfaceInTurnEffect DEF HostLink, Kept, OnHost
  <2>3. \A p \in Clients : Bears(p)' => Bears(p) /\ carry'[p] = carry[p]
    BY <1>12, SurfaceInTurnEffect, StreamTables
    DEF LInv, OneDriver, DriverAtWork, InTurn, Bears, Claimed, OnHost
  <2> QED BY <2>1, <2>2, <2>3 DEF LinksShrink
<1>13. ASSUME NEW p \in Clients, Surface(p) PROVE LinksShrink \/ LinkMoves
  BY <1>13, SurfaceEffect, StreamTables
  DEF LinksShrink, LInv, OneDriver, DriverAtWork, ResumeTarget, OneDriving, RowLink,
      HostLink, Kept, Bears, Claimed, OnHost
<1>14. ASSUME NEW p \in Clients, NEW a \in Asks, ReadCheckpoint(p, a)
       PROVE LinksShrink \/ LinkMoves
  BY <1>14, ReadCheckpointEffect, StreamTables
  DEF LinksShrink, LInv, OneDriver, DriverAtWork, ResumeTarget, OneDriving, RowLink,
      HostLink, Kept, Bears, Claimed, OnHost
<1>15. ASSUME NEW p \in Clients, Claim(p) PROVE LinksShrink \/ LinkMoves
  BY <1>15 DEF LinkMoves
<1>16. ASSUME NEW p \in Clients, LoseClaim(p) PROVE LinksShrink \/ LinkMoves
  BY <1>16, LoseClaimEffect, StreamTables
  DEF LinksShrink, LInv, OneDriver, DriverAtWork, ResumeTarget, OneDriving, RowLink,
      HostLink, Kept, Bears, Claimed, OnHost
<1>17. ASSUME NEW p \in Clients, Act(p) PROVE LinksShrink \/ LinkMoves
  BY <1>17, ActEffect, StreamTables
  DEF LinksShrink, LInv, OneDriver, DriverAtWork, ResumeTarget, OneDriving, RowLink,
      HostLink, Kept, Bears, Claimed, OnHost
<1>18. ASSUME NEW p \in Clients, AppendAnswer(p) PROVE LinksShrink \/ LinkMoves
  BY <1>18, AppendAnswerEffect, StreamTables
  DEF LinksShrink, LInv, OneDriver, DriverAtWork, ResumeTarget, OneDriving, RowLink,
      HostLink, Kept, Bears, Claimed, OnHost
<1>19. ASSUME NEW p \in Clients, AnswerRefused(p) PROVE LinksShrink \/ LinkMoves
  BY <1>19, AnswerRefusedEffect, StreamTables
  DEF LinksShrink, LInv, OneDriver, DriverAtWork, ResumeTarget, OneDriving, RowLink,
      HostLink, Kept, Bears, Claimed, OnHost
<1>20. ASSUME NEW p \in Clients, ReadSupervisor(p) PROVE LinksShrink \/ LinkMoves
  BY <1>20, ReadSupervisorEffect, StreamTables
  DEF LinksShrink, LInv, OneDriver, DriverAtWork, ResumeTarget, OneDriving, RowLink,
      HostLink, Kept, Bears, Claimed, OnHost
<1>21. ASSUME NEW p \in Clients, Deliver(p) PROVE LinksShrink \/ LinkMoves
  BY <1>21, DeliverEffect, StreamTables
  DEF LinksShrink, LInv, OneDriver, DriverAtWork, ResumeTarget, OneDriving, RowLink,
      HostLink, Kept, Bears, Claimed, OnHost
<1>22. ASSUME NEW p \in Clients, Settle(p) PROVE LinksShrink \/ LinkMoves
  BY <1>22, SettleEffect, StreamTables
  DEF LinksShrink, LInv, OneDriver, DriverAtWork, ResumeTarget, OneDriving, RowLink,
      HostLink, Kept, Bears, Claimed, OnHost
<1>23. ASSUME NEW p \in Clients, ClaimSupervisor(p) PROVE LinksShrink \/ LinkMoves
  BY <1>23 DEF LinkMoves
<1>24. ASSUME NEW p \in Clients, LoseSupervisor(p) PROVE LinksShrink \/ LinkMoves
  BY <1>24, LoseSupervisorEffect, StreamTables
  DEF LinksShrink, LInv, OneDriver, DriverAtWork, ResumeTarget, OneDriving, RowLink,
      HostLink, Kept, Bears, Claimed, OnHost
<1>25. ASSUME NEW r \in Delegated, FailInTurn(r) PROVE LinksShrink \/ LinkMoves
  BY <1>25, FailInTurnEffect, StreamTables
  DEF LinksShrink, LInv, OneDriver, DriverAtWork, ResumeTarget, OneDriving, RowLink,
      HostLink, Kept, Bears, Claimed, OnHost
<1>26. ASSUME NEW r \in Runs, Retry(r) PROVE LinksShrink \/ LinkMoves
  BY <1>26, RetryEffect, StreamTables
  DEF LinksShrink, LInv, OneDriver, DriverAtWork, ResumeTarget, OneDriving, RowLink,
      HostLink, Kept, Bears, Claimed, OnHost
<1>27. ASSUME NEW p \in Clients, Fail(p) PROVE LinksShrink \/ LinkMoves
  BY <1>27, FailEffect, StreamTables
  DEF LinksShrink, LInv, OneDriver, DriverAtWork, ResumeTarget, OneDriving, RowLink,
      HostLink, Kept, Bears, Claimed, OnHost
<1>28. ASSUME NEW p \in Clients, ActThrows(p) PROVE LinksShrink \/ LinkMoves
  BY <1>28, ActThrowsEffect, StreamTables
  DEF LinksShrink, LInv, OneDriver, DriverAtWork, ResumeTarget, OneDriving, RowLink,
      HostLink, Kept, Bears, Claimed, OnHost
<1>29. ASSUME Crash PROVE LinksShrink \/ LinkMoves
  BY <1>29, CrashEffect, StreamTables
  DEF LinksShrink, LInv, OneDriver, DriverAtWork, ResumeTarget, OneDriving, RowLink,
      HostLink, Kept, Bears, Claimed, OnHost
<1>30. ASSUME NEW r \in Runs, DeleteSession(r) PROVE LinksShrink \/ LinkMoves
  BY <1>30, DeleteSessionEffect, StreamTables
  DEF LinksShrink, LInv, OneDriver, DriverAtWork, ResumeTarget, OneDriving, RowLink,
      HostLink, Kept, Bears, Claimed, OnHost
<1>31. ASSUME UNCHANGED vars PROVE LinksShrink \/ LinkMoves
  BY <1>31
  DEF vars, storeVars, runVars, streamVars, countVars, LinksShrink, RowLink,
      HostLink, Kept, Bears, Claimed, OnHost
<1> QED
  BY <1>1, <1>2, <1>3, <1>4, <1>5, <1>6, <1>7, <1>8, <1>9, <1>10, <1>11, <1>12,
     <1>13, <1>14, <1>15, <1>16, <1>17, <1>18, <1>19, <1>20, <1>21, <1>22, <1>23,
     <1>24, <1>25, <1>26, <1>27, <1>28, <1>29, <1>30, <1>31
  DEF Next, Turn, Linkage, Resume, Faulty, Answering, Starting

\* A call keeps one link.
LEMMA OneBearerStep ==
  ASSUME IInv, LInv, [Next]_vars PROVE OneBearer'
PROOF
<1>1. CASE LinksShrink
  BY <1>1
  DEF LInv, LinksShrink, OneBearer, RowsApart, HostsApart, StreamsApart,
      RowsFromHosts, RowsFromStreams, HostsFromStreams
<1>2. ASSUME NEW p \in Clients, Ask(p) PROVE OneBearer'
  <2>1. RowsApart'
    BY <1>2, AskEffect, TurnTables, StoreTables, StreamTables, CrumbTables
    DEF LInv, OneBearer, RowsApart, RowLink, RowsFromStreams, Bears, Claimed,
        OnHost, NotYet, Unlinked, Unborne, Waits, HostLink, Kept
  <2>2. HostsApart'
    BY <1>2, AskedApart
  <2>3. StreamsApart'
    BY <1>2, AskEffect, TurnTables, StoreTables, StreamTables, CrumbTables
    DEF LInv, OneBearer, StreamsApart, Bears, Claimed, OnHost
  <2>4. RowsFromHosts'
    BY <1>2, AskEffect, TurnTables, StoreTables, StreamTables, CrumbTables
    DEF LInv, OneBearer, RowsFromHosts, RowLink, HostLink, Kept, OnHost,
        RowsFromStreams, Bears, Claimed, HostsFromStreams, NotYet, Unlinked,
        Unborne, Waits
  <2>5. RowsFromStreams'
    BY <1>2, AskEffect, TurnTables, StoreTables, StreamTables, CrumbTables
    DEF LInv, OneBearer, RowsFromStreams, RowLink, Bears, Claimed, OnHost,
        RowsApart, RowsFromHosts, HostLink, Kept, StreamsApart, NotYet, Unlinked,
        Unborne, Waits, OneDriver, DriverAtWork, InTurn, OneDriving
  <2>6. HostsFromStreams'
    BY <1>2, AskEffect, TurnTables, StoreTables, StreamTables, CrumbTables
    DEF LInv, OneBearer, HostsFromStreams, HostLink, Kept, Bears, Claimed, OnHost
  <2> QED BY <2>1, <2>2, <2>3, <2>4, <2>5, <2>6 DEF OneBearer
<1>3. ASSUME NEW p \in Clients, Claim(p) PROVE OneBearer'
  BY <1>3, ClaimedApart
<1>4. ASSUME NEW p \in Clients, ClaimSupervisor(p) PROVE OneBearer'
  BY <1>4, SupervisorApart
<1>5. ASSUME NEW s \in Runs, LinkWrite(s) PROVE OneBearer'
  <2>1. RowsApart'
    BY <1>5, LinkWriteEffect, TurnTables, StoreTables, StreamTables, CrumbTables
    DEF LInv, OneBearer, RowsApart, RowLink, RowsFromStreams, Bears, Claimed,
        OnHost, NotYet, Unlinked, Unborne, Waits, HostLink, Kept
  <2>2. HostsApart'
    BY <1>5, LinkWriteEffect, TurnTables, StoreTables
    DEF LInv, OneBearer, HostsApart, HostLink, Kept, OnHost
  <2>3. StreamsApart'
    BY <1>5, LinkWriteEffect, TurnTables, StoreTables
    DEF LInv, OneBearer, StreamsApart, Bears, Claimed, OnHost
  <2>4. RowsFromHosts'
    BY <1>5, LinkWriteEffect, TurnTables, StoreTables, StreamTables, CrumbTables
    DEF LInv, OneBearer, RowsFromHosts, RowLink, HostLink, Kept, OnHost,
        RowsFromStreams, Bears, Claimed, HostsFromStreams, NotYet, Unlinked,
        Unborne, Waits
  <2>5. RowsFromStreams'
    BY <1>5, LinkWriteEffect, TurnTables, StoreTables, StreamTables, CrumbTables
    DEF LInv, OneBearer, RowsFromStreams, RowLink, Bears, Claimed, OnHost,
        RowsApart, RowsFromHosts, HostLink, Kept, StreamsApart, NotYet, Unlinked,
        Unborne, Waits, OneDriver, DriverAtWork, InTurn, OneDriving
  <2>6. HostsFromStreams'
    BY <1>5, LinkWriteEffect, TurnTables, StoreTables
    DEF LInv, OneBearer, HostsFromStreams, HostLink, Kept, Bears, Claimed, OnHost
  <2> QED BY <2>1, <2>2, <2>3, <2>4, <2>5, <2>6 DEF OneBearer
<1>6. ASSUME NEW s \in Runs, NEW k \in Delegated, NEW link \in Links \cup {NoLink},
              ChainSuspend(s, k, link)
       PROVE OneBearer'
  <2>1. RowsApart'
    BY <1>6, SuspensionKeeps
  <2>2. HostsApart'
    BY <1>6, SuspensionLinks
  <2>3. StreamsApart'
    BY <1>6, ChainSuspendEffect, TurnTables, StoreTables, StreamTables, CrumbTables,
       SuspendedLink
    DEF LInv, OneBearer, StreamsApart, Bears, Claimed, OnHost, Waiting
  <2>4. RowsFromHosts'
    BY <1>6, SuspensionLinks
  <2>5. RowsFromStreams'
    BY <1>6, ChainSuspendEffect, TurnTables, StoreTables, StreamTables, CrumbTables,
       SuspendedLink
    DEF LInv, OneBearer, RowsFromStreams, RowLink, Bears, Claimed, OnHost, Waiting
  <2>6. HostsFromStreams'
    BY <1>6, SuspensionLinks
  <2> QED BY <2>1, <2>2, <2>3, <2>4, <2>5, <2>6 DEF OneBearer
<1> QED
  BY <1>1, <1>2, <1>3, <1>4, <1>5, <1>6, LinksShrinkOrMove DEF LinkMoves

\* No step but a LinkWrite makes a link for a call, or to a checkpoint, that had none.
LEMMA NoNewLinks ==
  ASSUME IInv, LInv, [Next]_vars, \A s \in Runs : ~LinkWrite(s)
  PROVE  \A e \in Delegated : (Unborne(e) => Unborne(e)') /\ (Unused(e) => Unused(e)')
PROOF
<1> SUFFICES ASSUME NEW g \in Delegated
             PROVE  (Unborne(g) => Unborne(g)') /\ (Unused(g) => Unused(g)')
  OBVIOUS
<1>1. CASE LinksShrink
  BY <1>1 DEF LinksShrink, Unborne, Unused
<1>2. ASSUME NEW p \in Clients, Ask(p)
       PROVE  (Unborne(g) => Unborne(g)') /\ (Unused(g) => Unused(g)')
  <2>1. ASSUME NEW h \in Asks, RowLink(h)'
        PROVE  (Unborne(g) => parent'[h][2] # g) /\ (Unused(g) => parent'[h][1] # g)
    BY <1>2, <2>1, AskEffect, StoreTables, StreamTables
    DEF Unborne, Unused, RowLink, Bears, Claimed, OnHost
  <2>2. ASSUME NEW h \in Delegated, HostLink(h)'
        PROVE  (Unborne(g) => parent'[h][2] # g) /\ (Unused(g) => parent'[h][1] # g)
    BY <1>2, <2>2, AskEffect, StoreTables, StreamTables
    DEF Unborne, Unused, HostLink, Kept, OnHost
  <2>3. ASSUME NEW h \in Clients, Bears(h)'
        PROVE  (Unborne(g) => carry'[h][2] # g) /\ (Unused(g) => carry'[h][1] # g)
    BY <1>2, <2>3, AskEffect, StoreTables, StreamTables
    DEF LInv, OneDriver, DriverAtWork, ResumeTarget, OneDriving, Unborne, Unused,
        Bears, Claimed, OnHost
  <2> QED BY <2>1, <2>2, <2>3 DEF Unborne, Unused
<1>3. ASSUME NEW p \in Clients, Claim(p)
       PROVE  (Unborne(g) => Unborne(g)') /\ (Unused(g) => Unused(g)')
  <2>1. ASSUME NEW h \in Asks, RowLink(h)'
        PROVE  (Unborne(g) => parent'[h][2] # g) /\ (Unused(g) => parent'[h][1] # g)
    BY <1>3, <2>1, ClaimEffect, ClaimFinds, StoreTables, StreamTables
    DEF Unborne, Unused, RowLink
  <2>2. ASSUME NEW h \in Delegated, HostLink(h)'
        PROVE  (Unborne(g) => parent'[h][2] # g) /\ (Unused(g) => parent'[h][1] # g)
    BY <1>3, <2>2, ClaimEffect, ClaimFinds, StoreTables, StreamTables
    DEF Unborne, Unused, HostLink, Kept, OnHost
  <2>3. ASSUME NEW h \in Clients, Bears(h)'
        PROVE  (Unborne(g) => carry'[h][2] # g) /\ (Unused(g) => carry'[h][1] # g)
    BY <1>3, <2>3, ClaimEffect, ClaimFinds, StoreTables, StreamTables
    DEF LInv, OneDriver, DriverAtWork, ResumeTarget, OneDriving, Unborne, Unused,
        RowLink, Bears, Claimed, OnHost
  <2> QED BY <2>1, <2>2, <2>3 DEF Unborne, Unused
<1>4. ASSUME NEW p \in Clients, ClaimSupervisor(p)
       PROVE  (Unborne(g) => Unborne(g)') /\ (Unused(g) => Unused(g)')
  <2>1. ASSUME NEW h \in Asks, RowLink(h)'
        PROVE  (Unborne(g) => parent'[h][2] # g) /\ (Unused(g) => parent'[h][1] # g)
    BY <1>4, <2>1, ClaimSupervisorEffect, SupervisorFinds, StoreTables, StreamTables
    DEF Unborne, Unused, RowLink
  <2>2. ASSUME NEW h \in Delegated, HostLink(h)'
        PROVE  (Unborne(g) => parent'[h][2] # g) /\ (Unused(g) => parent'[h][1] # g)
    BY <1>4, <2>2, ClaimSupervisorEffect, SupervisorFinds, StoreTables, StreamTables
    DEF Unborne, Unused, HostLink, Kept, OnHost
  <2>3. ASSUME NEW h \in Clients, Bears(h)'
        PROVE  (Unborne(g) => carry'[h][2] # g) /\ (Unused(g) => carry'[h][1] # g)
    BY <1>4, <2>3, ClaimSupervisorEffect, SupervisorFinds, StoreTables, StreamTables
    DEF LInv, OneDriver, DriverAtWork, ResumeTarget, OneDriving, Unborne, Unused,
        HostLink, Kept, OnHost, Bears, Claimed
  <2> QED BY <2>1, <2>2, <2>3 DEF Unborne, Unused
<1>5. ASSUME NEW s \in Runs, NEW k \in Delegated, NEW link \in Links \cup {NoLink},
              ChainSuspend(s, k, link)
       PROVE  (Unborne(g) => Unborne(g)') /\ (Unused(g) => Unused(g)')
  <2>1. ASSUME NEW h \in Asks, RowLink(h)'
        PROVE  (Unborne(g) => parent'[h][2] # g) /\ (Unused(g) => parent'[h][1] # g)
    BY <1>5, <2>1, ChainSuspendEffect, SuspendedLink, StoreTables, StreamTables
    DEF Unborne, Unused, RowLink
  <2>2. ASSUME NEW h \in Delegated, HostLink(h)'
        PROVE  (Unborne(g) => parent'[h][2] # g) /\ (Unused(g) => parent'[h][1] # g)
    BY <1>5, <2>2, SuspendedLink DEF Unborne, Unused, HostLink
  <2>3. ASSUME NEW h \in Clients, Bears(h)'
        PROVE  (Unborne(g) => carry'[h][2] # g) /\ (Unused(g) => carry'[h][1] # g)
    BY <1>5, <2>3, ChainSuspendEffect, SuspendedLink, StoreTables, StreamTables
    DEF LInv, OneDriver, DriverAtWork, ResumeTarget, OneDriving, Unborne, Unused,
        Bears, Claimed, OnHost
  <2> QED BY <2>1, <2>2, <2>3 DEF Unborne, Unused
<1> QED
  BY <1>1, <1>2, <1>3, <1>4, <1>5, LinksShrinkOrMove DEF LinkMoves

\* What is not linked yet is nobody's.
LEMMA NotYetStep ==
  ASSUME IInv, LInv, [Next]_vars PROVE NotYet'
PROOF
<1>w. ASSUME NEW s \in Runs, LinkWrite(s) PROVE NotYet'
  <2>1. Uncalled'
    BY <1>w, LinkWriteEffect, TurnTables, StoreTables DEF LInv, NotYet, Uncalled
  <2> QED BY <1>w, <2>1, LinkWriteNotYet DEF NotYet
<1> SUFFICES ASSUME \A s \in Runs : ~LinkWrite(s) PROVE NotYet'
  BY <1>w
<1>k. \A e \in Delegated : (Unborne(e) => Unborne(e)') /\ (Unused(e) => Unused(e)')
  BY NoNewLinks
<1>1. ASSUME NEW p \in Clients, Start(p) PROVE NotYet'
  <2>1. Unlinked'
    BY <1>1, <1>k, StartEffect, StoreTables, StreamTables, TurnTables
    DEF LInv, NotYet, Unlinked, TurnShape, TurnDelegates, TurnHolds, TurnMembers,
        Waits, Waiting
  <2>2. Unhosted'
    BY <1>1, <1>k, StartEffect, StoreTables, StreamTables, TurnTables
    DEF LInv, NotYet, Unhosted, TurnShape, TurnDelegates, TurnHolds, TurnMembers,
        TurnHost, Kept, OnHost
  <2>3. Uncalled'
    BY <1>1, StartEffect, TurnTables, StoreTables DEF LInv, NotYet, Uncalled
  <2> QED BY <2>1, <2>2, <2>3 DEF NotYet
<1>2. ASSUME NEW s \in Runs, NEW c \in Delegated, Call(s, c) PROVE NotYet'
  <2>1. Unlinked'
    BY <1>2, <1>k, CallEffect, StoreTables, StreamTables, TurnTables
    DEF LInv, NotYet, Unlinked, TurnShape, TurnDelegates, TurnHolds, TurnMembers,
        Waits, Waiting
  <2>2. Unhosted'
    BY <1>2, <1>k, CallEffect, StoreTables, StreamTables, TurnTables
    DEF LInv, NotYet, Unhosted, TurnShape, TurnDelegates, TurnHolds, TurnMembers,
        TurnHost, Kept, OnHost
  <2>3. Uncalled'
    BY <1>2, CallEffect, TurnTables, StoreTables DEF LInv, NotYet, Uncalled
  <2> QED BY <2>1, <2>2, <2>3 DEF NotYet
<1>3. ASSUME NEW r \in Delegated, AskInTurn(r) PROVE NotYet'
  <2>1. Unlinked'
    BY <1>3, <1>k, AskInTurnEffect, StoreTables, StreamTables, TurnTables
    DEF LInv, NotYet, Unlinked, TurnShape, TurnDelegates, TurnHolds, TurnMembers,
        Waits, Waiting
  <2>2. Unhosted'
    BY <1>3, <1>k, AskInTurnEffect, StoreTables, StreamTables, TurnTables
    DEF LInv, NotYet, Unhosted, TurnShape, TurnDelegates, TurnHolds, TurnMembers,
        TurnHost, Kept, OnHost
  <2>3. Uncalled'
    BY <1>3, AskInTurnEffect, TurnTables, StoreTables DEF LInv, NotYet, Uncalled
  <2> QED BY <2>1, <2>2, <2>3 DEF NotYet
<1>4. ASSUME NEW r \in Delegated, EndInTurn(r) PROVE NotYet'
  <2>1. Unlinked'
    BY <1>4, <1>k, EndInTurnEffect, StoreTables, StreamTables, TurnTables
    DEF LInv, NotYet, Unlinked, TurnShape, TurnDelegates, TurnHolds, TurnMembers,
        Waits, Waiting
  <2>2. Unhosted'
    BY <1>4, <1>k, EndInTurnEffect, StoreTables, StreamTables, TurnTables
    DEF LInv, NotYet, Unhosted, TurnShape, TurnDelegates, TurnHolds, TurnMembers,
        TurnHost, Kept, OnHost
  <2>3. Uncalled'
    BY <1>4, EndInTurnEffect, TurnTables, StoreTables DEF LInv, NotYet, Uncalled
  <2> QED BY <2>1, <2>2, <2>3 DEF NotYet
<1>5. ASSUME NEW p \in Clients, Ask(p) PROVE NotYet'
  <2>1. Unlinked'
    BY <1>5, <1>k, AskEffect, StoreTables, StreamTables, TurnTables
    DEF LInv, NotYet, Unlinked, TurnShape, TurnDelegates, TurnHolds, TurnMembers,
        Waits, Waiting
  <2>2. Unhosted'
    BY <1>5, <1>k, AskEffect, StoreTables, StreamTables, TurnTables
    DEF LInv, NotYet, Unhosted, TurnShape, TurnDelegates, TurnHolds, TurnMembers,
        TurnHost, Kept, OnHost
  <2>3. Uncalled'
    BY <1>5, AskEffect, TurnTables, StoreTables DEF LInv, NotYet, Uncalled
  <2> QED BY <2>1, <2>2, <2>3 DEF NotYet
<1>6. ASSUME NEW p \in Clients, End(p) PROVE NotYet'
  <2>1. Unlinked'
    BY <1>6, <1>k, EndEffect, StoreTables, StreamTables, TurnTables
    DEF LInv, NotYet, Unlinked, TurnShape, TurnDelegates, TurnHolds, TurnMembers,
        Waits, Waiting
  <2>2. Unhosted'
    BY <1>6, <1>k, EndEffect, StoreTables, StreamTables, TurnTables
    DEF LInv, NotYet, Unhosted, TurnShape, TurnDelegates, TurnHolds, TurnMembers,
        TurnHost, Kept, OnHost
  <2>3. Uncalled'
    BY <1>6, EndEffect, TurnTables, StoreTables DEF LInv, NotYet, Uncalled
  <2> QED BY <2>1, <2>2, <2>3 DEF NotYet
<1>7. ASSUME NEW s \in Runs, TurnSettles(s) PROVE NotYet'
  <2>1. Unlinked'
    BY <1>7, <1>k, TurnSettlesEffect, StoreTables, StreamTables, TurnTables
    DEF LInv, NotYet, Unlinked, TurnShape, TurnDelegates, TurnHolds, TurnMembers,
        Waits, Waiting
  <2>2. Unhosted'
    BY <1>7, <1>k, TurnSettlesEffect, StoreTables, StreamTables, TurnTables
    DEF LInv, NotYet, Unhosted, TurnShape, TurnDelegates, TurnHolds, TurnMembers,
        TurnHost, Kept, OnHost
  <2>3. Uncalled'
    BY <1>7, TurnSettlesEffect, TurnTables, StoreTables DEF LInv, NotYet, Uncalled
  <2> QED BY <2>1, <2>2, <2>3 DEF NotYet
<1>8. ASSUME NEW s \in Runs, LinkWrite(s) PROVE NotYet'
  BY <1>8
<1>9. ASSUME NEW s \in Runs, LinkRefused(s) PROVE NotYet'
  <2>1. Unlinked'
    BY <1>9, <1>k, LinkRefusedEffect, RefusedBearers, StoreTables, StreamTables,
       TurnTables
    DEF LInv, NotYet, Unlinked, TurnShape, TurnDelegates, TurnHolds, TurnMembers,
        Waits, Waiting
  <2>2. Unhosted'
    BY <1>9, <1>k, LinkRefusedEffect, RefusedBearers, StoreTables, StreamTables,
       TurnTables
    DEF LInv, NotYet, Unhosted, TurnShape, TurnDelegates, TurnHolds, TurnMembers,
        TurnHost, Kept, OnHost
  <2>3. Uncalled'
    BY <1>9, LinkRefusedEffect, TurnTables, StoreTables, RefusedBearers
    DEF LInv, NotYet, Uncalled
  <2> QED BY <2>1, <2>2, <2>3 DEF NotYet
<1>10. ASSUME NEW s \in Runs, NEW k \in Delegated, NEW link \in Links \cup {NoLink}, ChainSuspend(s, k, link)
       PROVE NotYet'
  <2>1. Unlinked'
    BY <1>10, <1>k, ChainSuspendEffect, SuspendedLink, StoreTables, StreamTables,
       TurnTables
    DEF LInv, NotYet, Unlinked, TurnShape, TurnDelegates, TurnHolds, TurnMembers,
        Waits, Waiting
  <2>2. Unhosted'
    BY <1>10, <1>k, ChainSuspendEffect, SuspendedLink, StoreTables, StreamTables,
       TurnTables
    DEF LInv, NotYet, Unhosted, TurnShape, TurnDelegates, TurnHolds, TurnMembers,
        TurnHost, Kept, OnHost
  <2>3. Uncalled'
    BY <1>10, ChainSuspendEffect, TurnTables, StoreTables, StreamTables,
       CrumbTables, SuspendedLink
    DEF LInv, NotYet, Uncalled, TurnShape, TurnHolds, TurnMembers, Waiting
  <2> QED BY <2>1, <2>2, <2>3 DEF NotYet
<1>11. ASSUME NEW s \in Runs, NEW c \in Delegated, LinkRead(s, c) PROVE NotYet'
  <2>1. Unlinked'
    BY <1>11, <1>k, LinkReadEffect, StoreTables, StreamTables, TurnTables
    DEF LInv, NotYet, Unlinked, TurnShape, TurnDelegates, TurnHolds, TurnMembers,
        Waits, Waiting
  <2>2. Unhosted'
    BY <1>11, <1>k, LinkReadEffect, StoreTables, StreamTables, TurnTables
    DEF LInv, NotYet, Unhosted, TurnShape, TurnDelegates, TurnHolds, TurnMembers,
        TurnHost, Kept, OnHost
  <2>3. Uncalled'
    BY <1>11, LinkReadEffect, TurnTables, StoreTables DEF LInv, NotYet, Uncalled
  <2> QED BY <2>1, <2>2, <2>3 DEF NotYet
<1>12. ASSUME NEW s \in Delegated, NEW last \in Asks, SurfaceInTurn(s, last)
       PROVE NotYet'
  <2>1. Unlinked'
    BY <1>12, <1>k, SurfaceInTurnEffect, StoreTables, StreamTables, TurnTables
    DEF LInv, NotYet, Unlinked, TurnShape, TurnDelegates, TurnHolds, TurnMembers,
        Waits, Waiting
  <2>2. Unhosted'
    BY <1>12, <1>k, SurfaceInTurnEffect, StoreTables, StreamTables, TurnTables
    DEF LInv, NotYet, Unhosted, TurnShape, TurnDelegates, TurnHolds, TurnMembers,
        TurnHost, Kept, OnHost
  <2>3. Uncalled'
    BY <1>12, SurfaceInTurnEffect, TurnTables, StoreTables
    DEF LInv, NotYet, Uncalled
  <2> QED BY <2>1, <2>2, <2>3 DEF NotYet
<1>13. ASSUME NEW p \in Clients, Surface(p) PROVE NotYet'
  <2>1. Unlinked'
    BY <1>13, <1>k, SurfaceEffect, StoreTables, StreamTables, TurnTables
    DEF LInv, NotYet, Unlinked, TurnShape, TurnDelegates, TurnHolds, TurnMembers,
        Waits, Waiting
  <2>2. Unhosted'
    BY <1>13, <1>k, SurfaceEffect, StoreTables, StreamTables, TurnTables
    DEF LInv, NotYet, Unhosted, TurnShape, TurnDelegates, TurnHolds, TurnMembers,
        TurnHost, Kept, OnHost
  <2>3. Uncalled'
    BY <1>13, SurfaceEffect, TurnTables, StoreTables DEF LInv, NotYet, Uncalled
  <2> QED BY <2>1, <2>2, <2>3 DEF NotYet
<1>14. ASSUME NEW p \in Clients, NEW a \in Asks, ReadCheckpoint(p, a) PROVE NotYet'
  <2>1. Unlinked'
    BY <1>14, <1>k, ReadCheckpointEffect, StoreTables, StreamTables, TurnTables
    DEF LInv, NotYet, Unlinked, TurnShape, TurnDelegates, TurnHolds, TurnMembers,
        Waits, Waiting
  <2>2. Unhosted'
    BY <1>14, <1>k, ReadCheckpointEffect, StoreTables, StreamTables, TurnTables
    DEF LInv, NotYet, Unhosted, TurnShape, TurnDelegates, TurnHolds, TurnMembers,
        TurnHost, Kept, OnHost
  <2>3. Uncalled'
    BY <1>14, ReadCheckpointEffect, TurnTables, StoreTables
    DEF LInv, NotYet, Uncalled
  <2> QED BY <2>1, <2>2, <2>3 DEF NotYet
<1>15. ASSUME NEW p \in Clients, Claim(p) PROVE NotYet'
  <2>1. Unlinked'
    BY <1>15, <1>k, ClaimEffect, ClaimFinds, StoreTables, StreamTables, TurnTables
    DEF LInv, NotYet, Unlinked, TurnShape, TurnDelegates, TurnHolds, TurnMembers,
        Waits, Waiting
  <2>2. Unhosted'
    BY <1>15, <1>k, ClaimEffect, ClaimFinds, StoreTables, StreamTables, TurnTables
    DEF LInv, NotYet, Unhosted, TurnShape, TurnDelegates, TurnHolds, TurnMembers,
        TurnHost, Kept, OnHost
  <2>3. Uncalled'
    BY <1>15, ClaimEffect, TurnTables, StoreTables, ClaimFinds
    DEF LInv, NotYet, Uncalled
  <2> QED BY <2>1, <2>2, <2>3 DEF NotYet
<1>16. ASSUME NEW p \in Clients, LoseClaim(p) PROVE NotYet'
  <2>1. Unlinked'
    BY <1>16, <1>k, LoseClaimEffect, StoreTables, StreamTables, TurnTables
    DEF LInv, NotYet, Unlinked, TurnShape, TurnDelegates, TurnHolds, TurnMembers,
        Waits, Waiting
  <2>2. Unhosted'
    BY <1>16, <1>k, LoseClaimEffect, StoreTables, StreamTables, TurnTables
    DEF LInv, NotYet, Unhosted, TurnShape, TurnDelegates, TurnHolds, TurnMembers,
        TurnHost, Kept, OnHost
  <2>3. Uncalled'
    BY <1>16, LoseClaimEffect, TurnTables, StoreTables DEF LInv, NotYet, Uncalled
  <2> QED BY <2>1, <2>2, <2>3 DEF NotYet
<1>17. ASSUME NEW p \in Clients, Act(p) PROVE NotYet'
  <2>1. Unlinked'
    BY <1>17, <1>k, ActEffect, StoreTables, StreamTables, TurnTables
    DEF LInv, NotYet, Unlinked, TurnShape, TurnDelegates, TurnHolds, TurnMembers,
        Waits, Waiting
  <2>2. Unhosted'
    BY <1>17, <1>k, ActEffect, StoreTables, StreamTables, TurnTables
    DEF LInv, NotYet, Unhosted, TurnShape, TurnDelegates, TurnHolds, TurnMembers,
        TurnHost, Kept, OnHost
  <2>3. Uncalled'
    BY <1>17, ActEffect, TurnTables, StoreTables DEF LInv, NotYet, Uncalled
  <2> QED BY <2>1, <2>2, <2>3 DEF NotYet
<1>18. ASSUME NEW p \in Clients, AppendAnswer(p) PROVE NotYet'
  <2>1. Unlinked'
    BY <1>18, <1>k, AppendAnswerEffect, StoreTables, StreamTables, TurnTables
    DEF LInv, NotYet, Unlinked, TurnShape, TurnDelegates, TurnHolds, TurnMembers,
        Waits, Waiting
  <2>2. Unhosted'
    BY <1>18, <1>k, AppendAnswerEffect, StoreTables, StreamTables, TurnTables
    DEF LInv, NotYet, Unhosted, TurnShape, TurnDelegates, TurnHolds, TurnMembers,
        TurnHost, Kept, OnHost
  <2>3. Uncalled'
    BY <1>18, AppendAnswerEffect, TurnTables, StoreTables DEF LInv, NotYet, Uncalled
  <2> QED BY <2>1, <2>2, <2>3 DEF NotYet
<1>19. ASSUME NEW p \in Clients, AnswerRefused(p) PROVE NotYet'
  <2>1. Unlinked'
    BY <1>19, <1>k, AnswerRefusedEffect, StoreTables, StreamTables, TurnTables
    DEF LInv, NotYet, Unlinked, TurnShape, TurnDelegates, TurnHolds, TurnMembers,
        Waits, Waiting
  <2>2. Unhosted'
    BY <1>19, <1>k, AnswerRefusedEffect, StoreTables, StreamTables, TurnTables
    DEF LInv, NotYet, Unhosted, TurnShape, TurnDelegates, TurnHolds, TurnMembers,
        TurnHost, Kept, OnHost
  <2>3. Uncalled'
    BY <1>19, AnswerRefusedEffect, TurnTables, StoreTables
    DEF LInv, NotYet, Uncalled
  <2> QED BY <2>1, <2>2, <2>3 DEF NotYet
<1>20. ASSUME NEW p \in Clients, ReadSupervisor(p) PROVE NotYet'
  <2>1. Unlinked'
    BY <1>20, <1>k, ReadSupervisorEffect, StoreTables, StreamTables, TurnTables
    DEF LInv, NotYet, Unlinked, TurnShape, TurnDelegates, TurnHolds, TurnMembers,
        Waits, Waiting
  <2>2. Unhosted'
    BY <1>20, <1>k, ReadSupervisorEffect, StoreTables, StreamTables, TurnTables
    DEF LInv, NotYet, Unhosted, TurnShape, TurnDelegates, TurnHolds, TurnMembers,
        TurnHost, Kept, OnHost
  <2>3. Uncalled'
    BY <1>20, ReadSupervisorEffect, TurnTables, StoreTables
    DEF LInv, NotYet, Uncalled
  <2> QED BY <2>1, <2>2, <2>3 DEF NotYet
<1>21. ASSUME NEW p \in Clients, Deliver(p) PROVE NotYet'
  <2>1. Unlinked'
    <3>1. Bears(p)
      BY <1>21, DeliverEffect, NullAssumption DEF Bears, OnHost
    <3> QED
      BY <3>1, <1>21, <1>k, DeliverEffect, StoreTables
      DEF LInv, NotYet, Unlinked, Unborne, Waits
  <2>2. Unhosted'
    BY <1>21, <1>k, DeliverEffect, StoreTables, StreamTables, TurnTables
    DEF LInv, NotYet, Unhosted, TurnShape, TurnDelegates, TurnHolds, TurnMembers,
        TurnHost, Kept, OnHost
  <2>3. Uncalled'
    BY <1>21, DeliverEffect, TurnTables, StoreTables DEF LInv, NotYet, Uncalled
  <2> QED BY <2>1, <2>2, <2>3 DEF NotYet
<1>22. ASSUME NEW p \in Clients, Settle(p) PROVE NotYet'
  <2>1. Unlinked'
    BY <1>22, <1>k, SettleEffect, StoreTables, StreamTables, TurnTables
    DEF LInv, NotYet, Unlinked, TurnShape, TurnDelegates, TurnHolds, TurnMembers,
        Waits, Waiting
  <2>2. Unhosted'
    BY <1>22, <1>k, SettleEffect, StoreTables, StreamTables, TurnTables
    DEF LInv, NotYet, Unhosted, TurnShape, TurnDelegates, TurnHolds, TurnMembers,
        TurnHost, Kept, OnHost
  <2>3. Uncalled'
    BY <1>22, SettleEffect, TurnTables, StoreTables DEF LInv, NotYet, Uncalled
  <2> QED BY <2>1, <2>2, <2>3 DEF NotYet
<1>23. ASSUME NEW p \in Clients, ClaimSupervisor(p) PROVE NotYet'
  <2>1. Unlinked'
    BY <1>23, <1>k, ClaimSupervisorEffect, SupervisorFinds, StoreTables,
       StreamTables, TurnTables
    DEF LInv, NotYet, Unlinked, TurnShape, TurnDelegates, TurnHolds, TurnMembers,
        Waits, Waiting
  <2>2. Unhosted'
    BY <1>23, <1>k, ClaimSupervisorEffect, SupervisorFinds, StoreTables,
       StreamTables, TurnTables
    DEF LInv, NotYet, Unhosted, TurnShape, TurnDelegates, TurnHolds, TurnMembers,
        TurnHost, Kept, OnHost
  <2>3. Uncalled'
    BY <1>23, ClaimSupervisorEffect, TurnTables, StoreTables, SupervisorFinds
    DEF LInv, NotYet, Uncalled
  <2> QED BY <2>1, <2>2, <2>3 DEF NotYet
<1>24. ASSUME NEW p \in Clients, LoseSupervisor(p) PROVE NotYet'
  <2>1. Unlinked'
    BY <1>24, <1>k, LoseSupervisorEffect, StoreTables, StreamTables, TurnTables
    DEF LInv, NotYet, Unlinked, TurnShape, TurnDelegates, TurnHolds, TurnMembers,
        Waits, Waiting
  <2>2. Unhosted'
    BY <1>24, <1>k, LoseSupervisorEffect, StoreTables, StreamTables, TurnTables
    DEF LInv, NotYet, Unhosted, TurnShape, TurnDelegates, TurnHolds, TurnMembers,
        TurnHost, Kept, OnHost
  <2>3. Uncalled'
    BY <1>24, LoseSupervisorEffect, TurnTables, StoreTables
    DEF LInv, NotYet, Uncalled
  <2> QED BY <2>1, <2>2, <2>3 DEF NotYet
<1>25. ASSUME NEW r \in Delegated, FailInTurn(r) PROVE NotYet'
  <2>1. Unlinked'
    BY <1>25, <1>k, FailInTurnEffect, StoreTables, StreamTables, TurnTables
    DEF LInv, NotYet, Unlinked, TurnShape, TurnDelegates, TurnHolds, TurnMembers,
        Waits, Waiting
  <2>2. Unhosted'
    BY <1>25, <1>k, FailInTurnEffect, StoreTables, StreamTables, TurnTables
    DEF LInv, NotYet, Unhosted, TurnShape, TurnDelegates, TurnHolds, TurnMembers,
        TurnHost, Kept, OnHost
  <2>3. Uncalled'
    BY <1>25, FailInTurnEffect, TurnTables, StoreTables DEF LInv, NotYet, Uncalled
  <2> QED BY <2>1, <2>2, <2>3 DEF NotYet
<1>26. ASSUME NEW r \in Runs, Retry(r) PROVE NotYet'
  <2>1. Unlinked'
    BY <1>26, <1>k, RetryEffect, StoreTables, StreamTables, TurnTables
    DEF LInv, NotYet, Unlinked, TurnShape, TurnDelegates, TurnHolds, TurnMembers,
        Waits, Waiting
  <2>2. Unhosted'
    BY <1>26, <1>k, RetryEffect, StoreTables, StreamTables, TurnTables
    DEF LInv, NotYet, Unhosted, TurnShape, TurnDelegates, TurnHolds, TurnMembers,
        TurnHost, Kept, OnHost
  <2>3. Uncalled'
    BY <1>26, RetryEffect, TurnTables, StoreTables DEF LInv, NotYet, Uncalled
  <2> QED BY <2>1, <2>2, <2>3 DEF NotYet
<1>27. ASSUME NEW p \in Clients, Fail(p) PROVE NotYet'
  <2>1. Unlinked'
    BY <1>27, <1>k, FailEffect, StoreTables, StreamTables, TurnTables
    DEF LInv, NotYet, Unlinked, TurnShape, TurnDelegates, TurnHolds, TurnMembers,
        Waits, Waiting
  <2>2. Unhosted'
    BY <1>27, <1>k, FailEffect, StoreTables, StreamTables, TurnTables
    DEF LInv, NotYet, Unhosted, TurnShape, TurnDelegates, TurnHolds, TurnMembers,
        TurnHost, Kept, OnHost
  <2>3. Uncalled'
    BY <1>27, FailEffect, TurnTables, StoreTables DEF LInv, NotYet, Uncalled
  <2> QED BY <2>1, <2>2, <2>3 DEF NotYet
<1>28. ASSUME NEW p \in Clients, ActThrows(p) PROVE NotYet'
  <2>1. Unlinked'
    BY <1>28, <1>k, ActThrowsEffect, StoreTables, StreamTables, TurnTables
    DEF LInv, NotYet, Unlinked, TurnShape, TurnDelegates, TurnHolds, TurnMembers,
        Waits, Waiting
  <2>2. Unhosted'
    BY <1>28, <1>k, ActThrowsEffect, StoreTables, StreamTables, TurnTables
    DEF LInv, NotYet, Unhosted, TurnShape, TurnDelegates, TurnHolds, TurnMembers,
        TurnHost, Kept, OnHost
  <2>3. Uncalled'
    BY <1>28, ActThrowsEffect, TurnTables, StoreTables DEF LInv, NotYet, Uncalled
  <2> QED BY <2>1, <2>2, <2>3 DEF NotYet
<1>29. ASSUME Crash PROVE NotYet'
  <2>1. Unlinked'
    BY <1>29, <1>k, CrashEffect, StoreTables, StreamTables, TurnTables
    DEF LInv, NotYet, Unlinked, TurnShape, TurnDelegates, TurnHolds, TurnMembers,
        Waits, Waiting
  <2>2. Unhosted'
    BY <1>29, <1>k, CrashEffect, StoreTables, StreamTables, TurnTables
    DEF LInv, NotYet, Unhosted, TurnShape, TurnDelegates, TurnHolds, TurnMembers,
        TurnHost, Kept, OnHost
  <2>3. Uncalled'
    BY <1>29, CrashEffect, TurnTables, StoreTables DEF LInv, NotYet, Uncalled
  <2> QED BY <2>1, <2>2, <2>3 DEF NotYet
<1>30. ASSUME NEW r \in Runs, DeleteSession(r) PROVE NotYet'
  <2>1. Unlinked'
    BY <1>30, <1>k, DeleteSessionEffect, StoreTables, StreamTables, TurnTables
    DEF LInv, NotYet, Unlinked, TurnShape, TurnDelegates, TurnHolds, TurnMembers,
        Waits, Waiting
  <2>2. Unhosted'
    BY <1>30, <1>k, DeleteSessionEffect, StoreTables, StreamTables, TurnTables
    DEF LInv, NotYet, Unhosted, TurnShape, TurnDelegates, TurnHolds, TurnMembers,
        TurnHost, Kept, OnHost
  <2>3. Uncalled'
    BY <1>30, DeleteSessionEffect, TurnTables, StoreTables
    DEF LInv, NotYet, Uncalled
  <2> QED BY <2>1, <2>2, <2>3 DEF NotYet
<1>31. ASSUME UNCHANGED vars PROVE NotYet'
  BY <1>31
  DEF vars, storeVars, runVars, streamVars, countVars, LInv, NotYet, Unlinked,
      Unborne, Waits, RowLink, HostLink, Kept, Bears, Claimed, OnHost, Uncalled,
      Unhosted, Unused
<1> QED
  BY <1>1, <1>2, <1>3, <1>4, <1>5, <1>6, <1>7, <1>8, <1>9, <1>10, <1>11, <1>12,
     <1>13, <1>14, <1>15, <1>16, <1>17, <1>18, <1>19, <1>20, <1>21, <1>22, <1>23,
     <1>24, <1>25, <1>26, <1>27, <1>28, <1>29, <1>30, <1>31
  DEF Next, Turn, Linkage, Resume, Faulty, Answering, Starting

\* The lists stay complete.
LEMMA OwedStep ==
  ASSUME IInv, LInv, [Next]_vars PROVE Owed'
PROOF
<1>1. ASSUME NEW p \in Clients, Start(p) PROVE Owed'
  BY <1>1, StartEffect, TurnTables, StoreTables
  DEF LInv, Owed, OwedStored, Dangling, OwedRead, OnHost, StrikingStored,
      StrikingRead
<1>2. ASSUME NEW s \in Runs, NEW c \in Delegated, Call(s, c) PROVE Owed'
  BY <1>2, CallEffect, TurnTables, StoreTables
  DEF LInv, Owed, OwedStored, Dangling, OwedRead, OnHost, StrikingStored,
      StrikingRead
<1>3. ASSUME NEW r \in Delegated, AskInTurn(r) PROVE Owed'
  BY <1>3, AskInTurnEffect, TurnTables, StoreTables
  DEF LInv, Owed, OwedStored, Dangling, OwedRead, OnHost, StrikingStored,
      StrikingRead
<1>4. ASSUME NEW r \in Delegated, EndInTurn(r) PROVE Owed'
  BY <1>4, EndInTurnEffect, TurnTables, StoreTables
  DEF LInv, Owed, OwedStored, Dangling, OwedRead, OnHost, StrikingStored,
      StrikingRead
<1>5. ASSUME NEW p \in Clients, Ask(p) PROVE Owed'
  BY <1>5, AskEffect, TurnTables, StoreTables
  DEF LInv, Owed, OwedStored, Dangling, OwedRead, OnHost, StrikingStored,
      StrikingRead
<1>6. ASSUME NEW p \in Clients, End(p) PROVE Owed'
  BY <1>6, EndEffect, TurnTables, StoreTables
  DEF LInv, Owed, OwedStored, Dangling, OwedRead, OnHost, StrikingStored,
      StrikingRead
<1>7. ASSUME NEW s \in Runs, TurnSettles(s) PROVE Owed'
  BY <1>7, TurnSettlesEffect, TurnTables, StoreTables
  DEF LInv, Owed, OwedStored, Dangling, OwedRead, OnHost, StrikingStored,
      StrikingRead
<1>8. ASSUME NEW s \in Runs, LinkWrite(s) PROVE Owed'
  BY <1>8, LinkWriteEffect, TurnTables, StoreTables
  DEF LInv, Owed, OwedStored, Dangling, OwedRead, OnHost, StrikingStored,
      StrikingRead
<1>9. ASSUME NEW s \in Runs, LinkRefused(s) PROVE Owed'
  BY <1>9, LinkRefusedEffect, TurnTables, StoreTables, RefusedBearers
  DEF LInv, Owed, OwedStored, Dangling, OwedRead, OnHost, StrikingStored,
      StrikingRead
<1>10. ASSUME NEW s \in Runs, NEW k \in Delegated, NEW link \in Links \cup {NoLink}, ChainSuspend(s, k, link)
       PROVE Owed'
  <2>1. OwedStored'
    BY <1>10, ChainSuspendEffect, TurnTables, StoreTables, StreamTables,
       CrumbTables, SuspendedLink
    DEF LInv, Owed, OwedStored, Dangling, OwedRead, OnHost, Linked, LinkedStreams,
        Bears, Claimed, Questions, HoleParks, Parked, ParkedThere, Kept, Waiting
  <2>2. OwedRead'
    BY <1>10, SuspensionKeeps
  <2>3. StrikingStored'
    BY <1>10, SuspensionKeeps
  <2>4. StrikingRead'
    BY <1>10, ChainSuspendEffect, TurnTables, StoreTables, SuspendedLink
    DEF LInv, Owed, StrikingRead, OnHost, Waiting
  <2> QED BY <2>1, <2>2, <2>3, <2>4 DEF Owed
<1>11. ASSUME NEW s \in Runs, NEW c \in Delegated, LinkRead(s, c) PROVE Owed'
  BY <1>11, LinkReadEffect, TurnTables, StoreTables
  DEF LInv, Owed, OwedStored, Dangling, OwedRead, OnHost, StrikingStored,
      StrikingRead
<1>12. ASSUME NEW s \in Delegated, NEW last \in Asks, SurfaceInTurn(s, last) PROVE Owed'
  BY <1>12, SurfaceInTurnEffect, TurnTables, StoreTables
  DEF LInv, Owed, OwedStored, Dangling, OwedRead, OnHost, StrikingStored,
      StrikingRead
<1>13. ASSUME NEW p \in Clients, Surface(p) PROVE Owed'
  BY <1>13, SurfaceEffect, TurnTables, StoreTables
  DEF LInv, Owed, OwedStored, Dangling, OwedRead, OnHost, StrikingStored,
      StrikingRead
<1>14. ASSUME NEW p \in Clients, NEW a \in Asks, ReadCheckpoint(p, a) PROVE Owed'
  BY <1>14, ReadCheckpointEffect, TurnTables, StoreTables
  DEF LInv, Owed, OwedStored, Dangling, OwedRead, OnHost, StrikingStored,
      StrikingRead
<1>15. ASSUME NEW p \in Clients, Claim(p) PROVE Owed'
  BY <1>15, ClaimEffect, TurnTables, StoreTables, ClaimFinds
  DEF LInv, Owed, OwedStored, Dangling, OwedRead, OnHost, StrikingStored,
      StrikingRead
<1>16. ASSUME NEW p \in Clients, LoseClaim(p) PROVE Owed'
  BY <1>16, LoseClaimEffect, TurnTables, StoreTables
  DEF LInv, Owed, OwedStored, Dangling, OwedRead, OnHost, StrikingStored,
      StrikingRead
<1>17. ASSUME NEW p \in Clients, Act(p) PROVE Owed'
  BY <1>17, ActEffect, TurnTables, StoreTables
  DEF LInv, Owed, OwedStored, Dangling, OwedRead, OnHost, StrikingStored,
      StrikingRead
<1>18. ASSUME NEW p \in Clients, AppendAnswer(p) PROVE Owed'
  BY <1>18, AppendAnswerEffect, TurnTables, StoreTables
  DEF LInv, Owed, OwedStored, Dangling, OwedRead, OnHost, StrikingStored,
      StrikingRead
<1>19. ASSUME NEW p \in Clients, AnswerRefused(p) PROVE Owed'
  BY <1>19, AnswerRefusedEffect, TurnTables, StoreTables
  DEF LInv, Owed, OwedStored, Dangling, OwedRead, OnHost, StrikingStored,
      StrikingRead
<1>20. ASSUME NEW p \in Clients, ReadSupervisor(p) PROVE Owed'
  <2>1. OwedStored'
    BY <1>20, ReadSupervisorEffect, TurnTables, StoreTables
    DEF LInv, Owed, OwedStored, Dangling
  <2>2. OwedRead'
    BY <1>20, ReadSupervisorEffect, TurnTables, StoreTables, StreamTables,
       CrumbTables
    DEF LInv, Owed, OwedRead, Dangling, OnHost, OwedStored, Questions, HoleParks,
        Parked, ParkedThere, Kept
  <2>3. StrikingStored'
    BY <1>20, ReadSupervisorEffect, TurnTables, StoreTables
    DEF LInv, Owed, StrikingStored
  <2>4. StrikingRead'
    BY <1>20, ReadSupervisorEffect, TurnTables, StoreTables, StreamTables,
       CrumbTables
    DEF LInv, Owed, StrikingRead, OnHost, StrikingStored, OwedRead, Dangling,
        Linked, LinkedStreams, Bears, Claimed
  <2> QED BY <2>1, <2>2, <2>3, <2>4 DEF Owed
<1>21. ASSUME NEW p \in Clients, Deliver(p) PROVE Owed'
  <2>1. OwedStored'
    BY <1>21, DeliverEffect, TurnTables, StoreTables
    DEF LInv, Owed, OwedStored, Dangling
  <2>2. OwedRead'
    BY <1>21, DeliverEffect, TurnTables, StoreTables
    DEF LInv, Owed, OwedRead, Dangling, OnHost
  <2>3. StrikingStored'
    BY <1>21, DeliverEffect, TurnTables, StoreTables, StreamTables, CrumbTables
    DEF LInv, Owed, StrikingStored, StrikingRead, OnHost, OwedStored, Dangling,
        Linked, LinkedStreams, Bears, Claimed, OneBearer, StreamsApart, NotYet,
        Unhosted, Unused, RowLink, HostLink, Kept
  <2>4. StrikingRead'
    BY <1>21, DeliverEffect, TurnTables, StoreTables, StreamTables, CrumbTables
    DEF LInv, Owed, StrikingRead, OnHost, StrikingStored, OwedRead, Dangling,
        Linked, LinkedStreams, Bears, Claimed
  <2> QED BY <2>1, <2>2, <2>3, <2>4 DEF Owed
<1>22. ASSUME NEW p \in Clients, Settle(p) PROVE Owed'
  <2>1. OwedStored'
    BY <1>22, SettleEffect, TurnTables, StoreTables, StreamTables, CrumbTables
    DEF LInv, Owed, OwedStored, Dangling, OwedRead, OnHost, Linked, LinkedStreams,
        Bears, Claimed, Questions, HoleParks, Parked, ParkedThere, Kept
  <2>2. OwedRead'
    BY <1>22, SettleEffect, TurnTables, StoreTables
    DEF LInv, Owed, OwedRead, Dangling, OnHost
  <2>3. StrikingStored'
    BY <1>22, SettledStrikes
  <2>4. StrikingRead'
    BY <1>22, SettleEffect, TurnTables, StoreTables
    DEF LInv, Owed, StrikingRead, OnHost
  <2> QED BY <2>1, <2>2, <2>3, <2>4 DEF Owed
<1>23. ASSUME NEW p \in Clients, ClaimSupervisor(p) PROVE Owed'
  BY <1>23, ClaimSupervisorEffect, TurnTables, StoreTables, SupervisorFinds
  DEF LInv, Owed, OwedStored, Dangling, OwedRead, OnHost, StrikingStored,
      StrikingRead
<1>24. ASSUME NEW p \in Clients, LoseSupervisor(p) PROVE Owed'
  BY <1>24, LoseSupervisorEffect, TurnTables, StoreTables
  DEF LInv, Owed, OwedStored, Dangling, OwedRead, OnHost, StrikingStored,
      StrikingRead
<1>25. ASSUME NEW r \in Delegated, FailInTurn(r) PROVE Owed'
  BY <1>25, FailInTurnEffect, TurnTables, StoreTables
  DEF LInv, Owed, OwedStored, Dangling, OwedRead, OnHost, StrikingStored,
      StrikingRead
<1>26. ASSUME NEW r \in Runs, Retry(r) PROVE Owed'
  BY <1>26, RetryEffect, TurnTables, StoreTables
  DEF LInv, Owed, OwedStored, Dangling, OwedRead, OnHost, StrikingStored,
      StrikingRead
<1>27. ASSUME NEW p \in Clients, Fail(p) PROVE Owed'
  BY <1>27, FailEffect, TurnTables, StoreTables
  DEF LInv, Owed, OwedStored, Dangling, OwedRead, OnHost, StrikingStored,
      StrikingRead
<1>28. ASSUME NEW p \in Clients, ActThrows(p) PROVE Owed'
  BY <1>28, ActThrowsEffect, TurnTables, StoreTables
  DEF LInv, Owed, OwedStored, Dangling, OwedRead, OnHost, StrikingStored,
      StrikingRead
<1>29. ASSUME Crash PROVE Owed'
  BY <1>29, CrashEffect, TurnTables, StoreTables
  DEF LInv, Owed, OwedStored, Dangling, OwedRead, OnHost, StrikingStored,
      StrikingRead
<1>30. ASSUME NEW r \in Runs, DeleteSession(r) PROVE Owed'
  BY <1>30, DeleteSessionEffect, TurnTables, StoreTables
  DEF LInv, Owed, OwedStored, Dangling, OwedRead, OnHost, StrikingStored,
      StrikingRead
<1>31. ASSUME UNCHANGED vars PROVE Owed'
  BY <1>31
  DEF vars, storeVars, runVars, streamVars, countVars, LInv, Owed, OwedStored,
      Dangling, OwedRead, OnHost, StrikingStored, StrikingRead
<1> QED
  BY <1>1, <1>2, <1>3, <1>4, <1>5, <1>6, <1>7, <1>8, <1>9, <1>10, <1>11, <1>12,
     <1>13, <1>14, <1>15, <1>16, <1>17, <1>18, <1>19, <1>20, <1>21, <1>22, <1>23,
     <1>24, <1>25, <1>26, <1>27, <1>28, <1>29, <1>30, <1>31
  DEF Next, Turn, Linkage, Resume, Faulty, Answering, Starting

\* A delegate call gets one result.
LEMMA DeliveredOnceStep ==
  ASSUME IInv, LInv, [Next]_vars PROVE DeliveredOnce'
PROOF
<1>1. ASSUME NEW p \in Clients, Start(p) PROVE DeliveredOnce'
  BY <1>1, StartEffect, TurnTables, StoreTables DEF LInv, DeliveredOnce
<1>2. ASSUME NEW s \in Runs, NEW c \in Delegated, Call(s, c) PROVE DeliveredOnce'
  BY <1>2, CallEffect, TurnTables, StoreTables DEF LInv, DeliveredOnce
<1>3. ASSUME NEW r \in Delegated, AskInTurn(r) PROVE DeliveredOnce'
  BY <1>3, AskInTurnEffect, TurnTables, StoreTables DEF LInv, DeliveredOnce
<1>4. ASSUME NEW r \in Delegated, EndInTurn(r) PROVE DeliveredOnce'
  BY <1>4, EndInTurnEffect, TurnTables, StoreTables, StreamTables, CrumbTables
  DEF LInv, DeliveredOnce, NotYet, Unlinked, Unborne, Waits, RowLink, HostLink,
      Kept, Bears, Claimed, OnHost, Linked, LinkedStreams, Dangling
<1>5. ASSUME NEW p \in Clients, Ask(p) PROVE DeliveredOnce'
  BY <1>5, AskEffect, TurnTables, StoreTables DEF LInv, DeliveredOnce
<1>6. ASSUME NEW p \in Clients, End(p) PROVE DeliveredOnce'
  BY <1>6, EndEffect, TurnTables, StoreTables DEF LInv, DeliveredOnce
<1>7. ASSUME NEW s \in Runs, TurnSettles(s) PROVE DeliveredOnce'
  BY <1>7, TurnSettlesEffect, TurnTables, StoreTables DEF LInv, DeliveredOnce
<1>8. ASSUME NEW s \in Runs, LinkWrite(s) PROVE DeliveredOnce'
  BY <1>8, LinkWriteEffect, TurnTables, StoreTables DEF LInv, DeliveredOnce
<1>9. ASSUME NEW s \in Runs, LinkRefused(s) PROVE DeliveredOnce'
  BY <1>9, LinkRefusedEffect, TurnTables, StoreTables, StreamTables, CrumbTables,
     RefusedBearers
  DEF LInv, DeliveredOnce, TurnShape, TurnMembers, NotYet, Unlinked, Unborne, Waits,
      RowLink, HostLink, Kept, Bears, Claimed, OnHost, Linked, LinkedStreams,
      Dangling
<1>10. ASSUME NEW s \in Runs, NEW k \in Delegated, NEW link \in Links \cup {NoLink}, ChainSuspend(s, k, link)
       PROVE DeliveredOnce'
  BY <1>10, ChainSuspendEffect, TurnTables, StoreTables, SuspendedLink
  DEF LInv, DeliveredOnce, Waiting
<1>11. ASSUME NEW s \in Runs, NEW c \in Delegated, LinkRead(s, c) PROVE DeliveredOnce'
  BY <1>11, LinkReadEffect, TurnTables, StoreTables DEF LInv, DeliveredOnce
<1>12. ASSUME NEW s \in Delegated, NEW last \in Asks, SurfaceInTurn(s, last)
       PROVE DeliveredOnce'
  BY <1>12, SurfaceInTurnEffect, TurnTables, StoreTables DEF LInv, DeliveredOnce
<1>13. ASSUME NEW p \in Clients, Surface(p) PROVE DeliveredOnce'
  BY <1>13, SurfaceEffect, TurnTables, StoreTables DEF LInv, DeliveredOnce
<1>14. ASSUME NEW p \in Clients, NEW a \in Asks, ReadCheckpoint(p, a)
       PROVE DeliveredOnce'
  BY <1>14, ReadCheckpointEffect, TurnTables, StoreTables DEF LInv, DeliveredOnce
<1>15. ASSUME NEW p \in Clients, Claim(p) PROVE DeliveredOnce'
  BY <1>15, ClaimEffect, TurnTables, StoreTables, ClaimFinds DEF LInv, DeliveredOnce
<1>16. ASSUME NEW p \in Clients, LoseClaim(p) PROVE DeliveredOnce'
  BY <1>16, LoseClaimEffect, TurnTables, StoreTables DEF LInv, DeliveredOnce
<1>17. ASSUME NEW p \in Clients, Act(p) PROVE DeliveredOnce'
  BY <1>17, ActEffect, TurnTables, StoreTables DEF LInv, DeliveredOnce
<1>18. ASSUME NEW p \in Clients, AppendAnswer(p) PROVE DeliveredOnce'
  BY <1>18, AppendAnswerEffect, TurnTables, StoreTables DEF LInv, DeliveredOnce
<1>19. ASSUME NEW p \in Clients, AnswerRefused(p) PROVE DeliveredOnce'
  BY <1>19, AnswerRefusedEffect, TurnTables, StoreTables DEF LInv, DeliveredOnce
<1>20. ASSUME NEW p \in Clients, ReadSupervisor(p) PROVE DeliveredOnce'
  BY <1>20, ReadSupervisorEffect, TurnTables, StoreTables DEF LInv, DeliveredOnce
<1>21. ASSUME NEW p \in Clients, Deliver(p) PROVE DeliveredOnce'
  BY <1>21, DeliverEffect, TurnTables, StoreTables, StreamTables, CrumbTables
  DEF LInv, DeliveredOnce, NotYet, Unlinked, Unborne, Waits, RowLink, HostLink,
      Kept, Bears, Claimed, OnHost, Linked, LinkedStreams, Dangling
<1>22. ASSUME NEW p \in Clients, Settle(p) PROVE DeliveredOnce'
  BY <1>22, SettleEffect, TurnTables, StoreTables DEF LInv, DeliveredOnce
<1>23. ASSUME NEW p \in Clients, ClaimSupervisor(p) PROVE DeliveredOnce'
  BY <1>23, ClaimSupervisorEffect, TurnTables, StoreTables, SupervisorFinds
  DEF LInv, DeliveredOnce
<1>24. ASSUME NEW p \in Clients, LoseSupervisor(p) PROVE DeliveredOnce'
  BY <1>24, LoseSupervisorEffect, TurnTables, StoreTables DEF LInv, DeliveredOnce
<1>25. ASSUME NEW r \in Delegated, FailInTurn(r) PROVE DeliveredOnce'
  BY <1>25, FailInTurnEffect, TurnTables, StoreTables, StreamTables, CrumbTables
  DEF LInv, DeliveredOnce, NotYet, Unlinked, Unborne, Waits, RowLink, HostLink,
      Kept, Bears, Claimed, OnHost, Linked, LinkedStreams, Dangling
<1>26. ASSUME NEW r \in Runs, Retry(r) PROVE DeliveredOnce'
  BY <1>26, RetryEffect, TurnTables, StoreTables DEF LInv, DeliveredOnce
<1>27. ASSUME NEW p \in Clients, Fail(p) PROVE DeliveredOnce'
  BY <1>27, FailEffect, TurnTables, StoreTables DEF LInv, DeliveredOnce
<1>28. ASSUME NEW p \in Clients, ActThrows(p) PROVE DeliveredOnce'
  BY <1>28, ActThrowsEffect, TurnTables, StoreTables DEF LInv, DeliveredOnce
<1>29. ASSUME Crash PROVE DeliveredOnce'
  BY <1>29, CrashEffect, TurnTables, StoreTables DEF LInv, DeliveredOnce
<1>30. ASSUME NEW r \in Runs, DeleteSession(r) PROVE DeliveredOnce'
  BY <1>30, DeleteSessionEffect, TurnTables, StoreTables DEF LInv, DeliveredOnce
<1>31. ASSUME UNCHANGED vars PROVE DeliveredOnce'
  BY <1>31 DEF vars, storeVars, runVars, streamVars, countVars, LInv, DeliveredOnce
<1> QED
  BY <1>1, <1>2, <1>3, <1>4, <1>5, <1>6, <1>7, <1>8, <1>9, <1>10, <1>11, <1>12,
     <1>13, <1>14, <1>15, <1>16, <1>17, <1>18, <1>19, <1>20, <1>21, <1>22, <1>23,
     <1>24, <1>25, <1>26, <1>27, <1>28, <1>29, <1>30, <1>31
  DEF Next, Turn, Linkage, Resume, Faulty, Answering, Starting

----------------------------------------------------------------------------
(* The invariant, and what follows from it.                                *)

\* The parts hold where nothing has started.
LEMMA LInvInit == Init => LInv
PROOF
<1> SUFFICES ASSUME Init PROVE LInv
  OBVIOUS
<1>1. \A e \in Delegated : ~Kept(e) /\ ~HostLink(e) /\ e \in Runs /\ Super[e] \in Runs
  BY TreeAssumption DEF Init, Kept, OnHost, HostLink
<1>2. \A w \in Asks : ~RowLink(w)
  BY DEF Init, RowLink
<1>3. \A u \in Clients : ~Bears(u) /\ pc[u] = "idle"
  BY DEF Init, Bears, Claimed, OnHost
<1>4. \A j \in Calls : ~Dangling(j) /\ results[j] = 0 /\ j \notin called
  BY DEF Init, Dangling
<1>5. \A i \in Runs : status[i] = "idle" /\ turn[i] = {} /\ tolink[i] = {} /\ crumbs[i] = {}
  BY DEF Init
<1>6. \A e \in Delegated : held[e] = NoAsk /\ ~Waits(e)
  BY DEF Init, Waits
<1>7. TurnShape
  BY <1>1, <1>5, <1>6 DEF TurnShape, TurnDelegates, TurnLinks, TurnMembers, TurnHolds, TurnHost
<1>8. OneDriver /\ ReadLink
  BY <1>3
  DEF OneDriver, DriverAtWork, InTurn, ResumeTarget, Claiming, Claimed, OneDriving, OneResuming,
      ReadLink, Claiming
<1>9. Questions
  BY <1>1, <1>4, <1>5 DEF Init, Questions, OpenLast, HoleLast, HoleParks
<1>10. Parked /\ Private
  BY <1>1, <1>5
  DEF Parked, ParkedThere, ParkedOnce, Private, PrivateRows, PrivateHosts, PrivateStreams
<1>11. Linked /\ OneBearer
  BY <1>1, <1>2, <1>3
  DEF Linked, LinkedRows, LinkedHosts, LinkedStreams, OneBearer, RowsApart, HostsApart,
      StreamsApart, RowsFromHosts, RowsFromStreams, HostsFromStreams
<1>12. NotYet
  BY <1>1, <1>2, <1>3, <1>4, <1>5, <1>6 DEF NotYet, Unlinked, Uncalled, Unhosted, Unborne, Unused
<1>13. Owed /\ DeliveredOnce
  BY <1>3, <1>4
  DEF Init, Owed, OwedStored, OwedRead, StrikingStored, StrikingRead, OnHost, DeliveredOnce
<1> QED
  BY <1>7, <1>8, <1>9, <1>10, <1>11, <1>12, <1>13 DEF LInv

\* The invariant is inductive, next to that of DelegationProofs.
LEMMA LInvStep == ASSUME IInv, LInv, [Next]_vars PROVE LInv'
PROOF
  BY TurnShapeStep, OneDriverStep, ReadLinkStep, QuestionsStep, ParkedStep, PrivateStep,
     LinkedStep, OneBearerStep, NotYetStep, OwedStep, DeliveredOnceStep
  DEF LInv

LEMMA LinksInvariance == Early = FALSE => (Spec => []LInv)
PROOF
<1> SUFFICES ASSUME Early = FALSE PROVE Spec => []LInv
  OBVIOUS
<1>1. Spec => []IInv
  BY Invariance
<1>2. Init => LInv
  BY LInvInit
<1>3. IInv /\ LInv /\ [Next]_vars => LInv'
  BY LInvStep
<1> QED BY <1>1, <1>2, <1>3, PTL DEF Spec

\* A delegate call has one result in its supervisor's session, however its run
\* got to its end: runParallel's batch in continueRun, or a resumed child and
\* continueSupervisorParent (runner-resume.ts), retried, crashed and raced.
THEOREM DeliveredOnceHolds == Early = FALSE => (Spec => []DeliveredOnce)
PROOF
<1>1. LInv => DeliveredOnce
  BY DEF LInv
<1> QED BY <1>1, LinksInvariance, PTL

\* The model is called only on a complete history: whenever a run thinks, every
\* call its session holds, human or delegated, has its result.
THEOREM ReplayCompleteHolds == Early = FALSE => (Spec => []ReplayComplete)
PROOF
<1>1. IInv /\ LInv => ReplayComplete
  <2> SUFFICES ASSUME IInv, LInv, NEW r \in Runs, status[r] = "thinking"
               PROVE  /\ \A n \in 1..MaxAsk : <<r, n>> \in called => results[<<r, n>>] > 0
                      /\ \A c \in Delegated : Super[c] = r /\ c \in called => results[c] > 0
    BY DEF ReplayComplete
  <2>1. ASSUME NEW n \in 1..MaxAsk, <<r, n>> \in called PROVE results[<<r, n>>] > 0
    <3>1. ~Dangling(<<r, n>>)
      BY DEF LInv, Questions, HoleLast
    <3>2. results[<<r, n>>] \in Nat
      BY StoreTables
    <3> QED BY <2>1, <3>1, <3>2 DEF Dangling
  <2>2. ASSUME NEW c \in Delegated, Super[c] = r, c \in called PROVE results[c] > 0
    <3>1. ~Dangling(c)
      BY <2>2 DEF LInv, Questions, HoleParks
    <3>2. results[c] \in Nat
      BY StoreTables
    <3> QED BY <2>2, <3>1, <3>2 DEF Dangling
  <2> QED BY <2>1, <2>2
<1>2. Early = FALSE => (Spec => []IInv)
  BY Invariance
<1> QED BY <1>1, <1>2, LinksInvariance, PTL

----------------------------------------------------------------------------
(* One stream at a time, while nothing fails.                              *)

\* One stream is drained at a time; no turn fails, no process crashes and no
\* session goes away.  And a supervisor's delegations do not delegate.
Undisturbed ==
  /\ OneAtATime = TRUE /\ Early = FALSE
  /\ MaxFaults = 0 /\ MaxCrash = 0 /\ Deletable = {}
OneLevel == \A c \in Delegated : Super[c] = Root

\* A run that has started has its session.
Housed == \A r \in Runs : status[r] # "idle" => r \in sess

\* One stream at most is at work, on a checkpoint nobody else can have taken
\* and on a list nobody else can have changed.
Alone == \A p, q \in Clients : pc[p] # "idle" /\ pc[q] # "idle" => p = q
Fresh ==
  \A p \in Clients :
    /\ pc[p] = "claiming" => target[p] \in rows
    /\ OnHost(p) => carry[p][1] \in hosts /\ snap[p] = pending[carry[p][1]]

\* Links lead from the call of a run to its supervisor; the root has none.
OwnHeld == \A c \in Delegated : held[c] # NoAsk => held[c][1] = c
OwnLink(r, link) == link # NoLink => r # Root /\ link[2] = r
OwnLinks ==
  /\ \A a \in rows : OwnLink(a[1], parent[a])
  /\ \A k \in hosts : parent[k] = NoLink
  /\ \A p \in Clients : Claiming(p) \/ pc[p] = "driving" => OwnLink(run[p], carry[p])

\* Whoever a supervisor checkpoint lists is being linked to it, can be answered
\* and leads to it, or is on the way to it.
ToBeLinked(c) == status[Root] = "linking" /\ c \in tolink[Root]
CanBeAnswered(k, c) == \E a \in rows : a[1] = c /\ parent[a] = <<k, c>>
OnTheWay(k, c) == \E p \in Clients : pc[p] # "idle" /\ carry[p] = <<k, c>>
Covered ==
  \A k \in hosts : \A c \in pending[k] :
    ToBeLinked(c) \/ CanBeAnswered(k, c) \/ OnTheWay(k, c)

SInv == Housed /\ Alone /\ Fresh /\ OwnHeld /\ OwnLinks /\ Covered

\* A run that is being drained has started.
LEMMA DrainedStarted ==
  ASSUME IInv, LInv, Housed, NEW p \in Clients, pc[p] = "driving" \/ Claimed(p)
  PROVE  run[p] \in Runs /\ run[p] \in sess
PROOF
<1>1. run[p] \in Runs
  BY StreamTables DEF Claimed
<1>2. status[run[p]] # "idle"
  BY DEF LInv, OneDriver, DriverAtWork, ResumeTarget
<1> QED BY <1>1, <1>2 DEF Housed

\* What a turn holds of its delegations is in the store.
LEMMA HeldStored ==
  ASSUME IInv, Housed, NEW c \in Delegated, held[c] # NoAsk
  PROVE  held[c] \in rows /\ held[c][1] \in sess
PROOF
<1>1. held[c] \in Asks /\ held[c] \in crumbs[Super[c]] /\ Super[c] \in Runs /\ held[c][1] \in Runs
  BY TurnTables, CrumbTables, StoreTables
<1>2. ~(held[c][2] > asked[held[c][1]])
  BY <1>1, CrumbTables
<1>3. status[held[c][1]] # "idle"
  <2>1. held[c][2] \in Nat /\ held[c][2] > 0
    BY <1>1, BoundAssumption
  <2> QED BY <1>1, <1>2, <2>1 DEF IInv, Withdrawn
<1>4. held[c][1] \in sess
  BY <1>1, <1>3 DEF Housed
<1> QED BY <1>1, <1>4 DEF IInv, Withdrawn

\* Nothing goes wrong: a link, an answer and a claim find what they look for.
LEMMA NothingFails ==
  ASSUME Undisturbed, OneLevel, IInv, LInv, SInv
  PROVE  /\ \A s \in Runs : ~LinkRefused(s) /\ ~Retry(s) /\ ~DeleteSession(s)
         /\ \A r \in Delegated : ~FailInTurn(r)
         /\ \A s \in Delegated, last \in Asks : ~SurfaceInTurn(s, last)
         /\ \A p \in Clients : ~Fail(p) /\ ~ActThrows(p) /\ ~LoseClaim(p) /\ ~AnswerRefused(p)
         /\ ~Crash
PROOF
<1>1. faults = 0 /\ crashes = 0 /\ MaxFaults = 0 /\ MaxCrash = 0 /\ Deletable = {}
  BY DEF Undisturbed, IInv, TypeOK, CountTypes
<1>2. ASSUME NEW r \in Runs, TurnFails(r) PROVE FALSE
  <2>1. r \in sess
    BY <1>2 DEF TurnFails, SInv, Housed
  <2> QED BY <1>1, <1>2, <2>1 DEF TurnFails
<1>3. ASSUME NEW s \in Runs, LinkRefused(s) PROVE FALSE
  <2>1. reading[s] \in tolink[s] /\ reading[s] \in Delegated /\ held[reading[s]] # NoAsk
    BY <1>3, TurnTables DEF LinkRefused, IInv, LinkingTurn, TypeOK, RunTypes
  <2> QED BY <1>3, <2>1, HeldStored DEF LinkRefused, SInv
<1>4. ASSUME NEW s \in Delegated, NEW last \in Asks, SurfaceInTurn(s, last) PROVE FALSE
  <2>1. status[s] = "linking" /\ s \in Runs
    BY <1>4, SurfaceInTurnEffect, TurnTables
  <2>2. Super[host[s]] = s /\ host[s] \in Delegated
    BY <2>1, TurnTables DEF LInv, TurnShape, TurnHost
  <2> QED BY <2>2 DEF OneLevel
<1>5. ASSUME NEW p \in Clients, LoseClaim(p) PROVE FALSE
  BY <1>5 DEF LoseClaim, WinsClaim, SInv, Fresh
<1>6. ASSUME NEW p \in Clients, AnswerRefused(p) PROVE FALSE
  BY <1>6, DrainedStarted DEF AnswerRefused, Claimed, SInv
<1>7. ASSUME NEW p \in Clients, Fail(p) PROVE FALSE
  BY <1>2, <1>7, StreamTables DEF Fail
<1>8. ASSUME NEW r \in Delegated, FailInTurn(r) PROVE FALSE
  BY <1>2, <1>8, TurnTables DEF FailInTurn
<1> QED
  BY <1>1, <1>3, <1>4, <1>5, <1>6, <1>7, <1>8 DEF Retry, DeleteSession, ActThrows, Crash

\* What is left of a step.
QuietStep ==
  \/ \E p \in Clients : Start(p) \/ Ask(p) \/ End(p) \/ Surface(p)
  \/ \E s \in Runs, c \in Delegated : Call(s, c) \/ LinkRead(s, c)
  \/ \E r \in Delegated : AskInTurn(r) \/ EndInTurn(r)
  \/ \E s \in Runs : TurnSettles(s) \/ LinkWrite(s)
  \/ \E s \in Runs, k \in Delegated, link \in Links \cup {NoLink} : ChainSuspend(s, k, link)
  \/ \E p \in Clients, a \in Asks : ReadCheckpoint(p, a)
  \/ \E p \in Clients : Claim(p) \/ Act(p) \/ AppendAnswer(p)
  \/ \E p \in Clients :
       ReadSupervisor(p) \/ Deliver(p) \/ Settle(p) \/ ClaimSupervisor(p) \/ LoseSupervisor(p)
  \/ UNCHANGED vars

LEMMA StepsAreQuiet ==
  ASSUME Undisturbed, OneLevel, IInv, LInv, SInv, [Next]_vars
  PROVE  QuietStep
PROOF
<1>1. CASE Starting \/ Turn
  BY <1>1 DEF Starting, Turn, QuietStep
<1>2. CASE Linkage
  BY <1>2, NothingFails DEF Linkage, QuietStep
<1>3. CASE Answering
  BY <1>3 DEF Answering, QuietStep
<1>4. CASE Resume
  BY <1>4, NothingFails DEF Resume, QuietStep
<1>5. CASE Faulty
  BY <1>5, NothingFails DEF Faulty
<1>6. CASE UNCHANGED vars
  BY <1>6 DEF QuietStep
<1> QED BY <1>1, <1>2, <1>3, <1>4, <1>5, <1>6 DEF Next

\* No run starts without its session, and none goes.
LEMMA HousedStep ==
  ASSUME Undisturbed, OneLevel, IInv, LInv, SInv, QuietStep
  PROVE  Housed'
PROOF
<1>1. ASSUME NEW p \in Clients, Start(p)
      PROVE  Housed'
  BY <1>1, StartEffect, TurnTables, StreamTables DEF Start, SInv, Housed, storeVars
<1>2. ASSUME NEW p \in Clients, Ask(p)
      PROVE  Housed'
  <2>1. sess' = sess
    BY <1>2 DEF Ask
  <2> QED BY <1>2, <2>1, AskEffect, TurnTables, StreamTables DEF SInv, Housed
<1>3. ASSUME NEW p \in Clients, End(p)
      PROVE  Housed'
  <2>1. sess' = sess
    BY <1>3 DEF End, storeVars
  <2>2. status[run[p]] # "idle"
    BY <1>3, EndEffect DEF LInv, OneDriver, DriverAtWork, ResumeTarget, Claimed
  <2> QED BY <1>3, <2>1, <2>2, EndEffect DEF SInv, Housed
<1>4. ASSUME NEW p \in Clients, Surface(p)
      PROVE  Housed'
  <2>1. sess' = sess
    BY <1>4 DEF Surface, storeVars
  <2>2. status[run[p]] # "idle"
    BY <1>4, SurfaceEffect DEF LInv, OneDriver, DriverAtWork, ResumeTarget, Claimed
  <2> QED BY <1>4, <2>1, <2>2, SurfaceEffect DEF SInv, Housed
<1>5. ASSUME NEW s \in Runs, NEW c \in Delegated, Call(s, c)
      PROVE  Housed'
  <2>1. sess' = sess \cup {c}
    BY <1>5 DEF Call
  <2>2. s \in sess
    BY <1>5, CallEffect DEF SInv, Housed
  <2> QED BY <1>5, <2>1, <2>2, CallEffect DEF SInv, Housed
<1>6. ASSUME NEW s \in Runs, NEW c \in Delegated, LinkRead(s, c)
      PROVE  Housed'
  <2>1. sess' = sess
    BY <1>6 DEF LinkRead, storeVars
  <2> QED BY <1>6, <2>1, LinkReadEffect DEF SInv, Housed
<1>7. ASSUME NEW r \in Delegated, AskInTurn(r)
      PROVE  Housed'
  <2>1. sess' = sess
    BY <1>7 DEF AskInTurn
  <2> QED BY <1>7, <2>1, AskInTurnEffect, TurnTables, StreamTables DEF SInv, Housed
<1>8. ASSUME NEW r \in Delegated, EndInTurn(r)
      PROVE  Housed'
  <2>1. sess' = sess
    BY <1>8 DEF EndInTurn, storeVars
  <2> QED BY <1>8, <2>1, EndInTurnEffect DEF SInv, Housed
<1>9. ASSUME NEW s \in Runs, TurnSettles(s)
      PROVE  Housed'
  <2>1. sess' = sess
    BY <1>9 DEF TurnSettles, storeVars
  <2> QED BY <1>9, <2>1, TurnSettlesEffect DEF SInv, Housed
<1>10. ASSUME NEW s \in Runs, LinkWrite(s)
      PROVE  Housed'
  <2>1. sess' = sess
    BY <1>10 DEF LinkWrite, storeVars
  <2> QED BY <1>10, <2>1, LinkWriteEffect DEF SInv, Housed
<1>11. ASSUME NEW s \in Runs, NEW k \in Delegated, NEW link \in Links \cup {NoLink},
            ChainSuspend(s, k, link)
      PROVE  Housed'
  <2>1. sess' = sess
    BY <1>11 DEF ChainSuspend, storeVars
  <2> QED BY <1>11, <2>1, ChainSuspendEffect DEF SInv, Housed
<1>12. ASSUME NEW p \in Clients, NEW a \in Asks, ReadCheckpoint(p, a)
      PROVE  Housed'
  <2>1. sess' = sess
    BY <1>12 DEF ReadCheckpoint, storeVars
  <2> QED BY <1>12, <2>1, ReadCheckpointEffect DEF SInv, Housed
<1>13. ASSUME NEW p \in Clients, Claim(p)
      PROVE  Housed'
  <2>1. sess' = sess
    BY <1>13 DEF Claim, storeVars
  <2>2. status[run[p]] # "idle"
    BY <1>13, ClaimEffect, ClaimFinds DEF LInv, OneDriver, DriverAtWork, ResumeTarget, Claimed
  <2> QED BY <1>13, <2>1, <2>2, ClaimEffect DEF SInv, Housed
<1>14. ASSUME NEW p \in Clients, Act(p)
      PROVE  Housed'
  <2>1. sess' = sess
    BY <1>14 DEF Act, storeVars
  <2> QED BY <1>14, <2>1, ActEffect DEF SInv, Housed
<1>15. ASSUME NEW p \in Clients, AppendAnswer(p)
      PROVE  Housed'
  <2>1. sess' = sess
    BY <1>15 DEF AppendAnswer, storeVars
  <2>2. status[run[p]] # "idle"
    BY <1>15, AppendAnswerEffect DEF LInv, OneDriver, DriverAtWork, ResumeTarget, Claimed
  <2> QED BY <1>15, <2>1, <2>2, AppendAnswerEffect DEF SInv, Housed
<1>16. ASSUME NEW p \in Clients, ReadSupervisor(p)
      PROVE  Housed'
  <2>1. sess' = sess
    BY <1>16 DEF ReadSupervisor, storeVars
  <2> QED BY <1>16, <2>1, ReadSupervisorEffect DEF SInv, Housed
<1>17. ASSUME NEW p \in Clients, Deliver(p)
      PROVE  Housed'
  <2>1. sess' = sess
    BY <1>17 DEF Deliver, storeVars
  <2> QED BY <1>17, <2>1, DeliverEffect DEF SInv, Housed
<1>18. ASSUME NEW p \in Clients, Settle(p)
      PROVE  Housed'
  <2>1. sess' = sess
    BY <1>18 DEF Settle, storeVars
  <2> QED BY <1>18, <2>1, SettleEffect DEF SInv, Housed
<1>19. ASSUME NEW p \in Clients, ClaimSupervisor(p)
      PROVE  Housed'
  <2>1. sess' = sess
    BY <1>19 DEF ClaimSupervisor
  <2> QED BY <1>19, <2>1, ClaimSupervisorEffect, SupervisorFinds DEF SInv, Housed
<1>20. ASSUME NEW p \in Clients, LoseSupervisor(p)
      PROVE  Housed'
  <2>1. sess' = sess
    BY <1>20 DEF LoseSupervisor, storeVars
  <2> QED BY <1>20, <2>1, LoseSupervisorEffect DEF SInv, Housed
<1>21. ASSUME UNCHANGED vars
      PROVE  Housed'
  BY <1>21 DEF vars, storeVars, runVars, streamVars, countVars, SInv, Housed
<1> QED
  BY <1>1, <1>2, <1>3, <1>4, <1>5, <1>6, <1>7, <1>8, <1>9, <1>10, <1>11, <1>12, <1>13, <1>14, <1>15,
     <1>16, <1>17, <1>18, <1>19, <1>20, <1>21
  DEF QuietStep

\* A stream begins when no other is at work.
LEMMA AloneStep ==
  ASSUME Undisturbed, OneLevel, IInv, LInv, SInv, QuietStep
  PROVE  Alone'
PROOF
<1>1. ASSUME NEW p \in Clients, Start(p)
      PROVE  Alone'
  BY <1>1, StartEffect DEF Start, Undisturbed, SInv, Alone
<1>2. ASSUME NEW p \in Clients, Ask(p)
      PROVE  Alone'
  BY <1>2, AskEffect DEF SInv, Alone
<1>3. ASSUME NEW p \in Clients, End(p)
      PROVE  Alone'
  BY <1>3, EndEffect DEF SInv, Alone
<1>4. ASSUME NEW p \in Clients, Surface(p)
      PROVE  Alone'
  BY <1>4, SurfaceEffect DEF SInv, Alone
<1>5. ASSUME NEW s \in Runs, NEW c \in Delegated, Call(s, c)
      PROVE  Alone'
  BY <1>5, CallEffect DEF SInv, Alone
<1>6. ASSUME NEW s \in Runs, NEW c \in Delegated, LinkRead(s, c)
      PROVE  Alone'
  BY <1>6, LinkReadEffect DEF SInv, Alone
<1>7. ASSUME NEW r \in Delegated, AskInTurn(r)
      PROVE  Alone'
  BY <1>7, AskInTurnEffect DEF SInv, Alone
<1>8. ASSUME NEW r \in Delegated, EndInTurn(r)
      PROVE  Alone'
  BY <1>8, EndInTurnEffect DEF SInv, Alone
<1>9. ASSUME NEW s \in Runs, TurnSettles(s)
      PROVE  Alone'
  BY <1>9, TurnSettlesEffect DEF SInv, Alone
<1>10. ASSUME NEW s \in Runs, LinkWrite(s)
      PROVE  Alone'
  BY <1>10, LinkWriteEffect DEF SInv, Alone
<1>11. ASSUME NEW s \in Runs, NEW k \in Delegated, NEW link \in Links \cup {NoLink},
            ChainSuspend(s, k, link)
      PROVE  Alone'
  BY <1>11, ChainSuspendEffect DEF SInv, Alone
<1>12. ASSUME NEW p \in Clients, NEW a \in Asks, ReadCheckpoint(p, a)
      PROVE  Alone'
  BY <1>12, ReadCheckpointEffect DEF ReadCheckpoint, Undisturbed, SInv, Alone
<1>13. ASSUME NEW p \in Clients, Claim(p)
      PROVE  Alone'
  BY <1>13, ClaimEffect DEF SInv, Alone
<1>14. ASSUME NEW p \in Clients, Act(p)
      PROVE  Alone'
  BY <1>14, ActEffect DEF SInv, Alone
<1>15. ASSUME NEW p \in Clients, AppendAnswer(p)
      PROVE  Alone'
  BY <1>15, AppendAnswerEffect DEF SInv, Alone
<1>16. ASSUME NEW p \in Clients, ReadSupervisor(p)
      PROVE  Alone'
  BY <1>16, ReadSupervisorEffect DEF SInv, Alone
<1>17. ASSUME NEW p \in Clients, Deliver(p)
      PROVE  Alone'
  BY <1>17, DeliverEffect DEF SInv, Alone
<1>18. ASSUME NEW p \in Clients, Settle(p)
      PROVE  Alone'
  BY <1>18, SettleEffect DEF SInv, Alone
<1>19. ASSUME NEW p \in Clients, ClaimSupervisor(p)
      PROVE  Alone'
  BY <1>19, ClaimSupervisorEffect DEF SInv, Alone
<1>20. ASSUME NEW p \in Clients, LoseSupervisor(p)
      PROVE  Alone'
  BY <1>20, LoseSupervisorEffect DEF SInv, Alone
<1>21. ASSUME UNCHANGED vars
      PROVE  Alone'
  BY <1>21 DEF vars, storeVars, runVars, streamVars, countVars, SInv, Alone
<1> QED
  BY <1>1, <1>2, <1>3, <1>4, <1>5, <1>6, <1>7, <1>8, <1>9, <1>10, <1>11, <1>12, <1>13, <1>14, <1>15,
     <1>16, <1>17, <1>18, <1>19, <1>20, <1>21
  DEF QuietStep

\* The root's driver is at work when it suspends on its delegations; it has no
\* link to hand on.
LEMMA RootSuspends ==
  ASSUME Undisturbed, OneLevel, IInv, LInv, SInv,
         NEW s \in Runs, NEW k \in Delegated, NEW link \in Links \cup {NoLink},
         ChainSuspend(s, k, link)
  PROVE  /\ s = Root /\ link = NoLink /\ hosts = {}
         /\ \A p \in Clients : ~OnHost(p) /\ pc[p] # "claiming"
PROOF
<1>1. s = Root
  BY ChainSuspendEffect DEF OneLevel
<1>2. PICK u \in Clients : Drives(u, s) /\ link = carry[u]
  BY <1>1, ChainSuspendEffect DEF ParentOption, InTurn
<1>3. link = NoLink
  BY <1>1, <1>2 DEF SInv, OwnLinks, OwnLink, Drives
<1>4. ASSUME NEW p \in Clients PROVE ~OnHost(p) /\ pc[p] # "claiming"
  BY <1>2 DEF SInv, Alone, Drives, OnHost
<1>5. hosts = {}
  <2>1. ASSUME NEW h \in hosts PROVE FALSE
    <3>1. h \in Delegated /\ Kept(h)
      BY StoreTables DEF Kept
    <3> QED BY <1>1, <3>1, ChainSuspendEffect DEF OneLevel, LInv, Parked, ParkedThere
  <2> QED BY <2>1
<1> QED BY <1>1, <1>3, <1>4, <1>5

\* The supervisor checkpoint there is, is the one the root links to.
LEMMA RootHosts ==
  ASSUME OneLevel, IInv, LInv
  PROVE  /\ \A h \in hosts : h \in Delegated /\ Super[h] = Root /\ status[Root] # "idle"
                             /\ (status[Root] = "linking" => h = host[Root])
                             /\ status[Root] \notin {"thinking", "delegating"}
         /\ \A h, k \in hosts : h = k
PROOF
<1>1. \A h \in hosts : h \in Delegated /\ Super[h] = Root /\ Kept(h)
  BY StoreTables DEF OneLevel, Kept
<1> QED BY <1>1 DEF LInv, Parked, ParkedThere, ParkedOnce

\* What the one stream has read is still so.
LEMMA FreshStep ==
  ASSUME Undisturbed, OneLevel, IInv, LInv, SInv, QuietStep
  PROVE  Fresh'
PROOF
<1>1. ASSUME NEW p \in Clients, Start(p)
      PROVE  Fresh'
  <2>1. \A q \in Clients \ {p} : pc'[q] = pc[q]
    BY <1>1, StartEffect
  <2>2. \A q \in Clients \ {p} : pc'[q] = "idle"
    BY <1>1, <2>1, StartEffect DEF Start, Undisturbed
  <2> QED BY <1>1, <2>2, StartEffect, StreamTables DEF SInv, Fresh, OnHost
<1>2. ASSUME NEW p \in Clients, Ask(p)
      PROVE  Fresh'
  <2>1. \A q \in Clients \ {p} : pc'[q] = pc[q]
    BY <1>2, AskEffect
  <2>2. \A q \in Clients \ {p} : pc'[q] = "idle"
    BY <1>2, <2>1, AskEffect DEF SInv, Alone
  <2> QED BY <1>2, <2>2, AskEffect, StreamTables DEF SInv, Fresh, OnHost
<1>3. ASSUME NEW p \in Clients, End(p)
      PROVE  Fresh'
  <2>1. \A q \in Clients \ {p} : pc'[q] = pc[q]
    BY <1>3, EndEffect
  <2>2. \A q \in Clients \ {p} : pc'[q] = "idle"
    BY <1>3, <2>1, EndEffect DEF SInv, Alone
  <2> QED BY <1>3, <2>2, EndEffect, StreamTables DEF SInv, Fresh, OnHost
<1>4. ASSUME NEW p \in Clients, Surface(p)
      PROVE  Fresh'
  <2>1. \A q \in Clients \ {p} : pc'[q] = pc[q]
    BY <1>4, SurfaceEffect
  <2>2. \A q \in Clients \ {p} : pc'[q] = "idle"
    BY <1>4, <2>1, SurfaceEffect DEF SInv, Alone
  <2> QED BY <1>4, <2>2, SurfaceEffect, StreamTables DEF SInv, Fresh, OnHost
<1>5. ASSUME NEW s \in Runs, NEW c \in Delegated, Call(s, c)
      PROVE  Fresh'
  BY <1>5, CallEffect DEF SInv, Fresh, OnHost
<1>6. ASSUME NEW s \in Runs, NEW c \in Delegated, LinkRead(s, c)
      PROVE  Fresh'
  BY <1>6, LinkReadEffect DEF SInv, Fresh, OnHost
<1>7. ASSUME NEW r \in Delegated, AskInTurn(r)
      PROVE  Fresh'
  BY <1>7, AskInTurnEffect DEF SInv, Fresh, OnHost
<1>8. ASSUME NEW r \in Delegated, EndInTurn(r)
      PROVE  Fresh'
  BY <1>8, EndInTurnEffect DEF SInv, Fresh, OnHost
<1>9. ASSUME NEW s \in Runs, TurnSettles(s)
      PROVE  Fresh'
  BY <1>9, TurnSettlesEffect DEF SInv, Fresh, OnHost
<1>10. ASSUME NEW s \in Runs, LinkWrite(s)
      PROVE  Fresh'
  BY <1>10, LinkWriteEffect DEF SInv, Fresh, OnHost
<1>11. ASSUME NEW s \in Runs, NEW k \in Delegated, NEW link \in Links \cup {NoLink},
            ChainSuspend(s, k, link)
      PROVE  Fresh'
  BY <1>11, ChainSuspendEffect, RootSuspends DEF SInv, Fresh, OnHost
<1>12. ASSUME NEW p \in Clients, NEW a \in Asks, ReadCheckpoint(p, a)
      PROVE  Fresh'
  <2>1. \A q \in Clients \ {p} : pc'[q] = pc[q]
    BY <1>12, ReadCheckpointEffect
  <2>2. \A q \in Clients \ {p} : pc'[q] = "idle"
    BY <1>12, <2>1, ReadCheckpointEffect DEF ReadCheckpoint, Undisturbed
  <2> QED BY <1>12, <2>2, ReadCheckpointEffect, StreamTables DEF SInv, Fresh, OnHost
<1>13. ASSUME NEW p \in Clients, Claim(p)
      PROVE  Fresh'
  <2>1. \A q \in Clients \ {p} : pc'[q] = pc[q]
    BY <1>13, ClaimEffect
  <2>2. \A q \in Clients \ {p} : pc'[q] = "idle"
    BY <1>13, <2>1, ClaimEffect DEF SInv, Alone
  <2> QED BY <1>13, <2>2, ClaimEffect, StreamTables DEF SInv, Fresh, OnHost
<1>14. ASSUME NEW p \in Clients, Act(p)
      PROVE  Fresh'
  <2>1. \A q \in Clients \ {p} : pc'[q] = pc[q]
    BY <1>14, ActEffect
  <2>2. \A q \in Clients \ {p} : pc'[q] = "idle"
    BY <1>14, <2>1, ActEffect DEF SInv, Alone
  <2> QED BY <1>14, <2>2, ActEffect, StreamTables DEF SInv, Fresh, OnHost
<1>15. ASSUME NEW p \in Clients, AppendAnswer(p)
      PROVE  Fresh'
  <2>1. \A q \in Clients \ {p} : pc'[q] = pc[q]
    BY <1>15, AppendAnswerEffect
  <2>2. \A q \in Clients \ {p} : pc'[q] = "idle"
    BY <1>15, <2>1, AppendAnswerEffect DEF SInv, Alone
  <2> QED BY <1>15, <2>2, AppendAnswerEffect, StreamTables DEF SInv, Fresh, OnHost
<1>16. ASSUME NEW p \in Clients, ReadSupervisor(p)
      PROVE  Fresh'
  <2>1. \A q \in Clients \ {p} : pc'[q] = pc[q]
    BY <1>16, ReadSupervisorEffect
  <2>2. \A q \in Clients \ {p} : pc'[q] = "idle"
    BY <1>16, <2>1, ReadSupervisorEffect DEF SInv, Alone
  <2> QED BY <1>16, <2>2, ReadSupervisorEffect, StreamTables DEF SInv, Fresh, OnHost
<1>17. ASSUME NEW p \in Clients, Deliver(p)
      PROVE  Fresh'
  <2>1. \A q \in Clients \ {p} : pc'[q] = pc[q]
    BY <1>17, DeliverEffect
  <2>2. \A q \in Clients \ {p} : pc'[q] = "idle"
    BY <1>17, <2>1, DeliverEffect DEF SInv, Alone
  <2> QED BY <1>17, <2>2, DeliverEffect, StreamTables DEF SInv, Fresh, OnHost
<1>18. ASSUME NEW p \in Clients, Settle(p)
      PROVE  Fresh'
  <2>1. \A q \in Clients \ {p} : pc'[q] = pc[q]
    BY <1>18, SettleEffect
  <2>2. \A q \in Clients \ {p} : pc'[q] = "idle"
    BY <1>18, <2>1, SettleEffect DEF SInv, Alone
  <2> QED BY <1>18, <2>2, SettleEffect, StreamTables DEF SInv, Fresh, OnHost
<1>19. ASSUME NEW p \in Clients, ClaimSupervisor(p)
      PROVE  Fresh'
  <2>1. \A q \in Clients \ {p} : pc'[q] = pc[q]
    BY <1>19, ClaimSupervisorEffect
  <2>2. \A q \in Clients \ {p} : pc'[q] = "idle"
    BY <1>19, <2>1, ClaimSupervisorEffect DEF SInv, Alone
  <2> QED BY <1>19, <2>2, ClaimSupervisorEffect, StreamTables DEF SInv, Fresh, OnHost
<1>20. ASSUME NEW p \in Clients, LoseSupervisor(p)
      PROVE  Fresh'
  <2>1. \A q \in Clients \ {p} : pc'[q] = pc[q]
    BY <1>20, LoseSupervisorEffect
  <2>2. \A q \in Clients \ {p} : pc'[q] = "idle"
    BY <1>20, <2>1, LoseSupervisorEffect DEF SInv, Alone
  <2> QED BY <1>20, <2>2, LoseSupervisorEffect, StreamTables DEF SInv, Fresh, OnHost
<1>21. ASSUME UNCHANGED vars
      PROVE  Fresh'
  BY <1>21 DEF vars, storeVars, runVars, streamVars, countVars, SInv, Fresh, OnHost
<1> QED
  BY <1>1, <1>2, <1>3, <1>4, <1>5, <1>6, <1>7, <1>8, <1>9, <1>10, <1>11, <1>12, <1>13, <1>14, <1>15,
     <1>16, <1>17, <1>18, <1>19, <1>20, <1>21
  DEF QuietStep

\* What a delegation waits for is a question of its own.
LEMMA OwnHeldStep ==
  ASSUME Undisturbed, OneLevel, IInv, LInv, SInv, QuietStep
  PROVE  OwnHeld'
PROOF
<1>1. ASSUME NEW p \in Clients, Start(p)
      PROVE  OwnHeld'
  BY <1>1, StartEffect DEF SInv, OwnHeld
<1>2. ASSUME NEW p \in Clients, Ask(p)
      PROVE  OwnHeld'
  BY <1>2, AskEffect DEF SInv, OwnHeld
<1>3. ASSUME NEW p \in Clients, End(p)
      PROVE  OwnHeld'
  BY <1>3, EndEffect DEF SInv, OwnHeld
<1>4. ASSUME NEW p \in Clients, Surface(p)
      PROVE  OwnHeld'
  BY <1>4, SurfaceEffect DEF SInv, OwnHeld
<1>5. ASSUME NEW s \in Runs, NEW c \in Delegated, Call(s, c)
      PROVE  OwnHeld'
  BY <1>5, CallEffect DEF SInv, OwnHeld
<1>6. ASSUME NEW s \in Runs, NEW c \in Delegated, LinkRead(s, c)
      PROVE  OwnHeld'
  BY <1>6, LinkReadEffect DEF SInv, OwnHeld
<1>7. ASSUME NEW r \in Delegated, AskInTurn(r)
      PROVE  OwnHeld'
  BY <1>7, AskInTurnEffect DEF SInv, OwnHeld
<1>8. ASSUME NEW r \in Delegated, EndInTurn(r)
      PROVE  OwnHeld'
  BY <1>8, EndInTurnEffect DEF SInv, OwnHeld
<1>9. ASSUME NEW s \in Runs, TurnSettles(s)
      PROVE  OwnHeld'
  BY <1>9, TurnSettlesEffect DEF SInv, OwnHeld
<1>10. ASSUME NEW s \in Runs, LinkWrite(s)
      PROVE  OwnHeld'
  BY <1>10, LinkWriteEffect DEF SInv, OwnHeld
<1>11. ASSUME NEW s \in Runs, NEW k \in Delegated, NEW link \in Links \cup {NoLink},
            ChainSuspend(s, k, link)
      PROVE  OwnHeld'
  BY <1>11, ChainSuspendEffect DEF SInv, OwnHeld
<1>12. ASSUME NEW p \in Clients, NEW a \in Asks, ReadCheckpoint(p, a)
      PROVE  OwnHeld'
  BY <1>12, ReadCheckpointEffect DEF SInv, OwnHeld
<1>13. ASSUME NEW p \in Clients, Claim(p)
      PROVE  OwnHeld'
  BY <1>13, ClaimEffect DEF SInv, OwnHeld
<1>14. ASSUME NEW p \in Clients, Act(p)
      PROVE  OwnHeld'
  BY <1>14, ActEffect DEF SInv, OwnHeld
<1>15. ASSUME NEW p \in Clients, AppendAnswer(p)
      PROVE  OwnHeld'
  BY <1>15, AppendAnswerEffect DEF SInv, OwnHeld
<1>16. ASSUME NEW p \in Clients, ReadSupervisor(p)
      PROVE  OwnHeld'
  BY <1>16, ReadSupervisorEffect DEF SInv, OwnHeld
<1>17. ASSUME NEW p \in Clients, Deliver(p)
      PROVE  OwnHeld'
  BY <1>17, DeliverEffect DEF SInv, OwnHeld
<1>18. ASSUME NEW p \in Clients, Settle(p)
      PROVE  OwnHeld'
  BY <1>18, SettleEffect DEF SInv, OwnHeld
<1>19. ASSUME NEW p \in Clients, ClaimSupervisor(p)
      PROVE  OwnHeld'
  BY <1>19, ClaimSupervisorEffect DEF SInv, OwnHeld
<1>20. ASSUME NEW p \in Clients, LoseSupervisor(p)
      PROVE  OwnHeld'
  BY <1>20, LoseSupervisorEffect DEF SInv, OwnHeld
<1>21. ASSUME UNCHANGED vars
      PROVE  OwnHeld'
  BY <1>21 DEF vars, storeVars, runVars, streamVars, countVars, SInv, OwnHeld
<1> QED
  BY <1>1, <1>2, <1>3, <1>4, <1>5, <1>6, <1>7, <1>8, <1>9, <1>10, <1>11, <1>12, <1>13, <1>14, <1>15,
     <1>16, <1>17, <1>18, <1>19, <1>20, <1>21
  DEF QuietStep

\* Links are handed on with the runs they belong to.
LEMMA OwnLinksStep ==
  ASSUME Undisturbed, OneLevel, IInv, LInv, SInv, QuietStep
  PROVE  OwnLinks'
PROOF
<1>1. ASSUME NEW p \in Clients, Start(p)
      PROVE  OwnLinks'
  BY <1>1, StartEffect, StoreTables DEF SInv, OwnLinks, OwnLink, Claiming
<1>2. ASSUME NEW p \in Clients, Ask(p)
      PROVE  OwnLinks'
  BY <1>2, AskEffect, StoreTables DEF SInv, OwnLinks, OwnLink, Claiming
<1>3. ASSUME NEW p \in Clients, End(p)
      PROVE  OwnLinks'
  BY <1>3, EndEffect, StoreTables DEF SInv, OwnLinks, OwnLink, Claiming
<1>4. ASSUME NEW p \in Clients, Surface(p)
      PROVE  OwnLinks'
  BY <1>4, SurfaceEffect, StoreTables DEF SInv, OwnLinks, OwnLink, Claiming
<1>5. ASSUME NEW s \in Runs, NEW c \in Delegated, Call(s, c)
      PROVE  OwnLinks'
  BY <1>5, CallEffect, StoreTables DEF SInv, OwnLinks, OwnLink, Claiming
<1>6. ASSUME NEW s \in Runs, NEW c \in Delegated, LinkRead(s, c)
      PROVE  OwnLinks'
  BY <1>6, LinkReadEffect, StoreTables DEF SInv, OwnLinks, OwnLink, Claiming
<1>7. ASSUME NEW r \in Delegated, AskInTurn(r)
      PROVE  OwnLinks'
  BY <1>7, AskInTurnEffect, StoreTables DEF SInv, OwnLinks, OwnLink, Claiming
<1>8. ASSUME NEW r \in Delegated, EndInTurn(r)
      PROVE  OwnLinks'
  BY <1>8, EndInTurnEffect, StoreTables DEF SInv, OwnLinks, OwnLink, Claiming
<1>9. ASSUME NEW s \in Runs, TurnSettles(s)
      PROVE  OwnLinks'
  BY <1>9, TurnSettlesEffect, StoreTables DEF SInv, OwnLinks, OwnLink, Claiming
<1>10. ASSUME NEW s \in Runs, LinkWrite(s)
      PROVE  OwnLinks'
  <2>1. PICK f \in Delegated, g \in Asks :
          /\ g = held[f] /\ held[f] # NoAsk /\ parent'[g][2] = f
          /\ rows' = rows \cup {g} /\ \A j \in Calls \ {g} : parent'[j] = parent[j]
          /\ UNCHANGED <<hosts, run, carry, pc>>
    BY <1>10, LinkWriteEffect, TurnTables
  <2>2. g[1] = f /\ f # Root
    BY <2>1 DEF SInv, OwnHeld
  <2>3. \A a \in rows' : OwnLink(a[1], parent'[a])
    BY <2>1, <2>2, StoreTables DEF SInv, OwnLinks, OwnLink
  <2>4. \A k \in hosts' : parent'[k] = NoLink
    BY <2>1, StoreTables DEF SInv, OwnLinks
  <2> QED BY <2>1, <2>3, <2>4 DEF SInv, OwnLinks, OwnLink, Claiming
<1>11. ASSUME NEW s \in Runs, NEW k \in Delegated, NEW link \in Links \cup {NoLink},
            ChainSuspend(s, k, link)
      PROVE  OwnLinks'
  BY <1>11, ChainSuspendEffect, RootSuspends, StoreTables DEF SInv, OwnLinks, OwnLink, Claiming
<1>12. ASSUME NEW p \in Clients, NEW a \in Asks, ReadCheckpoint(p, a)
      PROVE  OwnLinks'
  BY <1>12, ReadCheckpointEffect, StoreTables DEF SInv, OwnLinks, OwnLink, Claiming
<1>13. ASSUME NEW p \in Clients, Claim(p)
      PROVE  OwnLinks'
  BY <1>13, ClaimEffect, StoreTables DEF SInv, OwnLinks, OwnLink, Claiming
<1>14. ASSUME NEW p \in Clients, Act(p)
      PROVE  OwnLinks'
  BY <1>14, ActEffect, StoreTables DEF SInv, OwnLinks, OwnLink, Claiming
<1>15. ASSUME NEW p \in Clients, AppendAnswer(p)
      PROVE  OwnLinks'
  BY <1>15, AppendAnswerEffect, StoreTables DEF SInv, OwnLinks, OwnLink, Claiming
<1>16. ASSUME NEW p \in Clients, ReadSupervisor(p)
      PROVE  OwnLinks'
  BY <1>16, ReadSupervisorEffect, StoreTables DEF SInv, OwnLinks, OwnLink, Claiming
<1>17. ASSUME NEW p \in Clients, Deliver(p)
      PROVE  OwnLinks'
  BY <1>17, DeliverEffect, StoreTables DEF SInv, OwnLinks, OwnLink, Claiming
<1>18. ASSUME NEW p \in Clients, Settle(p)
      PROVE  OwnLinks'
  BY <1>18, SettleEffect, StoreTables DEF SInv, OwnLinks, OwnLink, Claiming, Fresh, OnHost
<1>19. ASSUME NEW p \in Clients, ClaimSupervisor(p)
      PROVE  OwnLinks'
  BY <1>19, ClaimSupervisorEffect, StoreTables DEF SInv, OwnLinks, OwnLink, Claiming
<1>20. ASSUME NEW p \in Clients, LoseSupervisor(p)
      PROVE  OwnLinks'
  BY <1>20, LoseSupervisorEffect, StoreTables DEF SInv, OwnLinks, OwnLink, Claiming
<1>21. ASSUME UNCHANGED vars
      PROVE  OwnLinks'
  BY <1>21 DEF vars, storeVars, runVars, streamVars, countVars, SInv, OwnLinks, OwnLink, Claiming
<1> QED
  BY <1>1, <1>2, <1>3, <1>4, <1>5, <1>6, <1>7, <1>8, <1>9, <1>10, <1>11, <1>12, <1>13, <1>14, <1>15,
     <1>16, <1>17, <1>18, <1>19, <1>20, <1>21
  DEF QuietStep

\* A write of a link names it whole.
LEMMA LinkWriteTuple ==
  ASSUME IInv, NEW v \in Runs, LinkWrite(v)
  PROVE  \E f \in Delegated, g \in Asks :
         /\ g = held[f] /\ held[f] # NoAsk /\ Super[f] = v /\ rows' = rows \cup {g}
         /\ \A j \in Calls \ {g} : parent'[j] = parent[j]
         /\ \A i \in Runs : \A y : y \in tolink'[i] <=> (y \in tolink[i] /\ ~(i = v /\ y = f))
         /\ parent'[g][1] = host[v] /\ parent'[g][2] = f /\ parent'[g] \in Links
         /\ UNCHANGED status /\ status[v] = "linking"
PROOF
<1>1. parent'[held[reading[v]]] \in Links
  BY ReadInCustody, NullAssumption
  DEF IInv, TypeOK, StoreTypes, RunTypes, LinkingTurn, LinkWrite
<1>2. PICK f \in Delegated, g \in Asks :
         /\ g = held[f] /\ Super[f] = v /\ rows' = rows \cup {g}
         /\ \A j \in Calls \ {g} : parent'[j] = parent[j]
         /\ \A i \in Runs : \A y : y \in tolink'[i] <=> (y \in tolink[i] /\ ~(i = v /\ y = f))
         /\ parent'[g][1] = host[v] /\ parent'[g][2] = f /\ parent'[g] # NoLink
         /\ UNCHANGED status /\ status[v] = "linking"
  BY LinkWriteEffect
<1>3. parent' \in [Asks \cup Delegated -> Links \cup {NoLink}]
  BY ReadInCustody, NullAssumption
  DEF IInv, TypeOK, StoreTypes, RunTypes, LinkingTurn, LinkWrite
<1>4. held[f] # NoAsk
  BY <1>2, NullAssumption
<1> QED BY <1>2, <1>3, <1>4

\* Whoever a supervisor checkpoint lists stays within its reach.
LEMMA CoveredStep ==
  ASSUME Undisturbed, OneLevel, IInv, LInv, SInv, QuietStep
  PROVE  Covered'
PROOF
<1>1. ASSUME NEW p \in Clients, Start(p)
      PROVE  Covered'
  BY <1>1, StartEffect, RootHosts DEF SInv, Covered, ToBeLinked, CanBeAnswered, OnTheWay
<1>2. ASSUME NEW p \in Clients, Ask(p)
      PROVE  Covered'
  <2>1. PICK g \in Asks : /\ rows' = rows \cup {g} /\ g \notin rows /\ g[1] = run[p]
          /\ \A j \in Calls : parent'[j] = IF j = g THEN carry[p] ELSE parent[j]
    BY <1>2, AskEffect, CrumbTables
  <2>2. \A a \in rows : a \in rows' /\ parent'[a] = parent[a]
    BY <2>1, StoreTables
  <2>3. hosts' = hosts /\ pending' = pending /\ tolink' = tolink /\ carry' = carry
        /\ (status'[Root] = "linking" <=> status[Root] = "linking")
    BY <1>2, AskEffect, TreeAssumption, TurnTables, StreamTables
  <2>4. ASSUME NEW k \in hosts, NEW c \in Delegated, OnTheWay(k, c)
        PROVE  OnTheWay(k, c)' \/ CanBeAnswered(k, c)'
    <3>1. PICK q \in Clients : pc[q] # "idle" /\ carry[q] = <<k, c>>
      BY <2>4 DEF OnTheWay
    <3>2. q = p /\ carry[p] # NoLink /\ carry[p][2] = run[p]
      <4>1. pc[p] = "driving" /\ <<k, c>> \in Links
        BY <1>2, AskEffect, StoreTables
      <4> QED BY <3>1, <4>1, StoreTables DEF SInv, Alone, OwnLinks, OwnLink
    <3>3. parent'[g] = <<k, c>> /\ g[1] = c /\ g \in rows'
      BY <2>1, <3>1, <3>2
    <3> QED BY <3>3 DEF CanBeAnswered
  <2> QED BY <2>2, <2>3, <2>4, StoreTables DEF SInv, Covered, ToBeLinked, CanBeAnswered
<1>3. ASSUME NEW p \in Clients, End(p)
      PROVE  Covered'
  <2> SUFFICES ASSUME NEW h \in hosts', NEW d \in pending'[h]
               PROVE  ToBeLinked(d)' \/ CanBeAnswered(h, d)' \/ OnTheWay(h, d)'
    BY DEF Covered
  <2>1. h \in hosts /\ d \in pending[h] /\ h \in Delegated /\ d \in Delegated
    BY <1>3, EndEffect, StoreTables
  <2>2. CASE ToBeLinked(d)
    <3>1. run[p] # Root
      BY <1>3, <2>2, EndEffect DEF ToBeLinked
    <3> QED BY <1>3, <2>2, <3>1, EndEffect, TreeAssumption DEF ToBeLinked
  <2>3. CASE CanBeAnswered(h, d)
    <3>1. PICK q \in rows : q[1] = d /\ parent[q] = <<h, d>>
      BY <2>3 DEF CanBeAnswered
    <3>2. q \in rows' /\ parent'[q] = parent[q]
      BY <1>3, <3>1, EndEffect, StoreTables
    <3> QED BY <3>1, <3>2 DEF CanBeAnswered
  <2>4. CASE OnTheWay(h, d)
    <3>1. PICK o \in Clients : pc[o] # "idle" /\ carry[o] = <<h, d>>
      BY <2>4 DEF OnTheWay
    <3>2. o = p => carry[p] # NoLink
      <4>1. <<h, d>> \in Links
        BY <2>1
      <4> QED BY <3>1, <4>1, NullAssumption
    <3>3. pc'[o] # "idle" /\ carry'[o] = carry[o]
      BY <1>3, <3>1, <3>2, EndEffect
    <3> QED BY <3>1, <3>3 DEF OnTheWay
  <2> QED BY <2>1, <2>2, <2>3, <2>4 DEF SInv, Covered
<1>4. ASSUME NEW p \in Clients, Surface(p)
      PROVE  Covered'
  <2> SUFFICES ASSUME NEW h \in hosts', NEW d \in pending'[h]
               PROVE  ToBeLinked(d)' \/ CanBeAnswered(h, d)' \/ OnTheWay(h, d)'
    BY DEF Covered
  <2>1. h \in hosts /\ d \in pending[h] /\ h \in Delegated /\ d \in Delegated
    BY <1>4, SurfaceEffect, StoreTables
  <2>2. CASE ToBeLinked(d)
    <3>1. run[p] = Root
      <4>1. status[run[p]] = "linking" /\ run[p] \in Runs
        BY <1>4, SurfaceEffect
      <4> QED BY <4>1, TurnTables DEF LInv, TurnShape, TurnHost, OneLevel
    <3> QED BY <1>4, <2>2, <3>1, SurfaceEffect DEF ToBeLinked
  <2>3. CASE CanBeAnswered(h, d)
    <3>1. PICK q \in rows : q[1] = d /\ parent[q] = <<h, d>>
      BY <2>3 DEF CanBeAnswered
    <3>2. q \in rows' /\ parent'[q] = parent[q]
      BY <1>4, <3>1, SurfaceEffect, StoreTables
    <3> QED BY <3>1, <3>2 DEF CanBeAnswered
  <2>4. CASE OnTheWay(h, d)
    <3>1. PICK o \in Clients : pc[o] # "idle" /\ carry[o] = <<h, d>>
      BY <2>4 DEF OnTheWay
    <3>2. o # p
      <4>1. pc[p] = "driving" /\ run[p] \in Runs /\ status[run[p]] = "linking"
        BY <1>4, SurfaceEffect
      <4>2. run[p] = Root
        BY <4>1, TurnTables DEF LInv, TurnShape, TurnHost, OneLevel
      <4>3. carry[p] = NoLink
        BY <4>1, <4>2 DEF SInv, OwnLinks, OwnLink
      <4>4. <<h, d>> \in Links
        BY <2>1
      <4> QED BY <3>1, <4>3, <4>4, NullAssumption
    <3>3. pc'[o] # "idle" /\ carry'[o] = carry[o]
      BY <1>4, <3>1, <3>2, SurfaceEffect
    <3> QED BY <3>1, <3>3 DEF OnTheWay
  <2> QED BY <2>1, <2>2, <2>3, <2>4 DEF SInv, Covered
<1>5. ASSUME NEW s \in Runs, NEW c \in Delegated, Call(s, c)
      PROVE  Covered'
  <2> SUFFICES ASSUME NEW h \in hosts', NEW d \in pending'[h]
               PROVE  ToBeLinked(d)' \/ CanBeAnswered(h, d)' \/ OnTheWay(h, d)'
    BY DEF Covered
  <2>1. h \in hosts /\ d \in pending[h] /\ h \in Delegated /\ d \in Delegated
    BY <1>5, CallEffect, StoreTables
  <2>2. CASE ToBeLinked(d)
    BY <1>5, <2>1, <2>2, CallEffect, TreeAssumption, RootHosts DEF ToBeLinked
  <2>3. CASE CanBeAnswered(h, d)
    <3>1. PICK q \in rows : q[1] = d /\ parent[q] = <<h, d>>
      BY <2>3 DEF CanBeAnswered
    <3>2. q \in rows' /\ parent'[q] = parent[q]
      BY <1>5, <3>1, CallEffect, StoreTables
    <3> QED BY <3>1, <3>2 DEF CanBeAnswered
  <2>4. CASE OnTheWay(h, d)
    <3>1. PICK o \in Clients : pc[o] # "idle" /\ carry[o] = <<h, d>>
      BY <2>4 DEF OnTheWay
    <3>2. pc'[o] # "idle" /\ carry'[o] = carry[o]
      BY <1>5, <3>1, CallEffect
    <3> QED BY <3>1, <3>2 DEF OnTheWay
  <2> QED BY <2>1, <2>2, <2>3, <2>4 DEF SInv, Covered
<1>6. ASSUME NEW s \in Runs, NEW c \in Delegated, LinkRead(s, c)
      PROVE  Covered'
  <2> SUFFICES ASSUME NEW h \in hosts', NEW d \in pending'[h]
               PROVE  ToBeLinked(d)' \/ CanBeAnswered(h, d)' \/ OnTheWay(h, d)'
    BY DEF Covered
  <2>1. h \in hosts /\ d \in pending[h] /\ h \in Delegated /\ d \in Delegated
    BY <1>6, LinkReadEffect, StoreTables
  <2>2. CASE ToBeLinked(d)
    <3>1. held[d] \in rows
      BY <2>1, <2>2, HeldStored, TurnTables, TreeAssumption DEF ToBeLinked, SInv
    <3> QED BY <1>6, <2>2, <3>1, LinkReadEffect, TreeAssumption DEF ToBeLinked
  <2>3. CASE CanBeAnswered(h, d)
    <3>1. PICK q \in rows : q[1] = d /\ parent[q] = <<h, d>>
      BY <2>3 DEF CanBeAnswered
    <3>2. q \in rows' /\ parent'[q] = parent[q]
      BY <1>6, <3>1, LinkReadEffect, StoreTables
    <3> QED BY <3>1, <3>2 DEF CanBeAnswered
  <2>4. CASE OnTheWay(h, d)
    <3>1. PICK o \in Clients : pc[o] # "idle" /\ carry[o] = <<h, d>>
      BY <2>4 DEF OnTheWay
    <3>2. pc'[o] # "idle" /\ carry'[o] = carry[o]
      BY <1>6, <3>1, LinkReadEffect
    <3> QED BY <3>1, <3>2 DEF OnTheWay
  <2> QED BY <2>1, <2>2, <2>3, <2>4 DEF SInv, Covered
<1>7. ASSUME NEW r \in Delegated, AskInTurn(r)
      PROVE  Covered'
  <2> SUFFICES ASSUME NEW h \in hosts', NEW d \in pending'[h]
               PROVE  ToBeLinked(d)' \/ CanBeAnswered(h, d)' \/ OnTheWay(h, d)'
    BY DEF Covered
  <2>1. h \in hosts /\ d \in pending[h] /\ h \in Delegated /\ d \in Delegated
    BY <1>7, AskInTurnEffect, StoreTables
  <2>2. CASE ToBeLinked(d)
    BY <1>7, <2>1, <2>2, AskInTurnEffect, TreeAssumption, RootHosts DEF ToBeLinked
  <2>3. CASE CanBeAnswered(h, d)
    <3>1. PICK q \in rows : q[1] = d /\ parent[q] = <<h, d>>
      BY <2>3 DEF CanBeAnswered
    <3>2. q \in rows' /\ parent'[q] = parent[q]
      <4>1. PICK g \in Asks : /\ g[1] = r /\ g[2] = asked[r] + 1 /\ rows' = rows \cup {g}
              /\ \A j \in Calls : parent'[j] = IF j = g THEN NoLink ELSE parent[j]
        BY <1>7, AskInTurnEffect
      <4>2. g \notin rows
        BY <4>1, CrumbTables, TurnTables
      <4> QED BY <3>1, <4>1, <4>2, StoreTables
    <3> QED BY <3>1, <3>2 DEF CanBeAnswered
  <2>4. CASE OnTheWay(h, d)
    <3>1. PICK o \in Clients : pc[o] # "idle" /\ carry[o] = <<h, d>>
      BY <2>4 DEF OnTheWay
    <3>2. pc'[o] # "idle" /\ carry'[o] = carry[o]
      BY <1>7, <3>1, AskInTurnEffect
    <3> QED BY <3>1, <3>2 DEF OnTheWay
  <2> QED BY <2>1, <2>2, <2>3, <2>4 DEF SInv, Covered
<1>8. ASSUME NEW r \in Delegated, EndInTurn(r)
      PROVE  Covered'
  <2> SUFFICES ASSUME NEW h \in hosts', NEW d \in pending'[h]
               PROVE  ToBeLinked(d)' \/ CanBeAnswered(h, d)' \/ OnTheWay(h, d)'
    BY DEF Covered
  <2>1. h \in hosts /\ d \in pending[h] /\ h \in Delegated /\ d \in Delegated
    BY <1>8, EndInTurnEffect, StoreTables
  <2>2. CASE ToBeLinked(d)
    BY <1>8, <2>1, <2>2, EndInTurnEffect, TreeAssumption, RootHosts DEF ToBeLinked
  <2>3. CASE CanBeAnswered(h, d)
    <3>1. PICK q \in rows : q[1] = d /\ parent[q] = <<h, d>>
      BY <2>3 DEF CanBeAnswered
    <3>2. q \in rows' /\ parent'[q] = parent[q]
      BY <1>8, <3>1, EndInTurnEffect, StoreTables
    <3> QED BY <3>1, <3>2 DEF CanBeAnswered
  <2>4. CASE OnTheWay(h, d)
    <3>1. PICK o \in Clients : pc[o] # "idle" /\ carry[o] = <<h, d>>
      BY <2>4 DEF OnTheWay
    <3>2. pc'[o] # "idle" /\ carry'[o] = carry[o]
      BY <1>8, <3>1, EndInTurnEffect
    <3> QED BY <3>1, <3>2 DEF OnTheWay
  <2> QED BY <2>1, <2>2, <2>3, <2>4 DEF SInv, Covered
<1>9. ASSUME NEW s \in Runs, TurnSettles(s)
      PROVE  Covered'
  <2> SUFFICES ASSUME NEW h \in hosts', NEW d \in pending'[h]
               PROVE  ToBeLinked(d)' \/ CanBeAnswered(h, d)' \/ OnTheWay(h, d)'
    BY DEF Covered
  <2>1. h \in hosts /\ d \in pending[h] /\ h \in Delegated /\ d \in Delegated
    BY <1>9, TurnSettlesEffect, StoreTables
  <2>2. CASE ToBeLinked(d)
    BY <1>9, <2>1, <2>2, TurnSettlesEffect, TreeAssumption, RootHosts DEF ToBeLinked
  <2>3. CASE CanBeAnswered(h, d)
    <3>1. PICK q \in rows : q[1] = d /\ parent[q] = <<h, d>>
      BY <2>3 DEF CanBeAnswered
    <3>2. q \in rows' /\ parent'[q] = parent[q]
      BY <1>9, <3>1, TurnSettlesEffect, StoreTables
    <3> QED BY <3>1, <3>2 DEF CanBeAnswered
  <2>4. CASE OnTheWay(h, d)
    <3>1. PICK o \in Clients : pc[o] # "idle" /\ carry[o] = <<h, d>>
      BY <2>4 DEF OnTheWay
    <3>2. pc'[o] # "idle" /\ carry'[o] = carry[o]
      BY <1>9, <3>1, TurnSettlesEffect
    <3> QED BY <3>1, <3>2 DEF OnTheWay
  <2> QED BY <2>1, <2>2, <2>3, <2>4 DEF SInv, Covered
<1>10. ASSUME NEW s \in Runs, LinkWrite(s)
      PROVE  Covered'
  <2> SUFFICES ASSUME NEW h \in hosts', NEW d \in pending'[h]
               PROVE  ToBeLinked(d)' \/ CanBeAnswered(h, d)' \/ OnTheWay(h, d)'
    BY DEF Covered
  <2>1. h \in hosts /\ d \in pending[h] /\ h \in Delegated /\ d \in Delegated
    BY <1>10, LinkWriteEffect, StoreTables
  <2>2. CASE ToBeLinked(d)
    <3>1. PICK f \in Delegated, g \in Asks :
          /\ g = held[f] /\ held[f] # NoAsk /\ Super[f] = s /\ rows' = rows \cup {g}
          /\ \A i \in Runs : \A y : y \in tolink'[i] <=> (y \in tolink[i] /\ ~(i = s /\ y = f))
          /\ parent'[g][1] = host[s] /\ parent'[g][2] = f /\ parent'[g] \in Links
          /\ UNCHANGED status
      BY <1>10, LinkWriteTuple
    <3>2. s = Root /\ g[1] = f
      BY <3>1 DEF OneLevel, SInv, OwnHeld
    <3>3. h = host[Root]
      BY <2>1, <2>2, RootHosts DEF ToBeLinked
    <3>4. CASE d = f
      <4>1. parent'[g] = <<h, d>>
        BY <3>1, <3>2, <3>3, <3>4
      <4> QED BY <3>1, <3>2, <3>4, <4>1 DEF CanBeAnswered
    <3>5. CASE d # f
      BY <2>2, <3>1, <3>5, TreeAssumption DEF ToBeLinked
    <3> QED BY <3>4, <3>5
  <2>3. CASE CanBeAnswered(h, d)
    <3>1. PICK q \in rows : q[1] = d /\ parent[q] = <<h, d>>
      BY <2>3 DEF CanBeAnswered
    <3>2. PICK f \in Delegated, g \in Asks :
          /\ g = held[f] /\ held[f] # NoAsk /\ Super[f] = s /\ rows' = rows \cup {g}
          /\ \A j \in Calls \ {g} : parent'[j] = parent[j]
          /\ parent'[g][1] = host[s] /\ parent'[g][2] = f /\ parent'[g] \in Links
          /\ UNCHANGED status /\ status[s] = "linking"
      BY <1>10, LinkWriteTuple
    <3>3. CASE q # g
      BY <3>1, <3>2, <3>3, StoreTables DEF CanBeAnswered
    <3>4. CASE q = g
      <4>1. s = Root /\ g[1] = f
        BY <3>2 DEF OneLevel, SInv, OwnHeld
      <4>2. parent'[g] = <<h, d>>
        BY <2>1, <3>1, <3>2, <3>4, <4>1, RootHosts
      <4> QED BY <3>1, <3>2, <3>4, <4>2 DEF CanBeAnswered
    <3> QED BY <3>3, <3>4
  <2>4. CASE OnTheWay(h, d)
    <3>1. PICK o \in Clients : pc[o] # "idle" /\ carry[o] = <<h, d>>
      BY <2>4 DEF OnTheWay
    <3>2. pc'[o] # "idle" /\ carry'[o] = carry[o]
      BY <1>10, <3>1, LinkWriteEffect
    <3> QED BY <3>1, <3>2 DEF OnTheWay
  <2> QED BY <2>1, <2>2, <2>3, <2>4 DEF SInv, Covered
<1>11. ASSUME NEW s \in Runs, NEW k \in Delegated, NEW link \in Links \cup {NoLink},
            ChainSuspend(s, k, link)
      PROVE  Covered'
  <2>1. hosts' = {k} /\ s = Root /\ k \in Delegated
    BY <1>11, ChainSuspendEffect, RootSuspends
  <2>2. status'[Root] = "linking"
    BY <1>11, ChainSuspendEffect, <2>1, TreeAssumption
  <2>3. ASSUME NEW d \in pending'[k] PROVE d \in tolink'[Root]
    BY <1>11, ChainSuspendEffect, <2>1, <2>3, TreeAssumption
  <2> QED BY <2>1, <2>2, <2>3 DEF Covered, ToBeLinked
<1>12. ASSUME NEW p \in Clients, NEW a \in Asks, ReadCheckpoint(p, a)
      PROVE  Covered'
  <2> SUFFICES ASSUME NEW h \in hosts', NEW d \in pending'[h]
               PROVE  ToBeLinked(d)' \/ CanBeAnswered(h, d)' \/ OnTheWay(h, d)'
    BY DEF Covered
  <2>1. h \in hosts /\ d \in pending[h] /\ h \in Delegated /\ d \in Delegated
    BY <1>12, ReadCheckpointEffect, StoreTables
  <2>2. CASE ToBeLinked(d)
    BY <1>12, <2>1, <2>2, ReadCheckpointEffect, TreeAssumption, RootHosts DEF ToBeLinked
  <2>3. CASE CanBeAnswered(h, d)
    <3>1. PICK q \in rows : q[1] = d /\ parent[q] = <<h, d>>
      BY <2>3 DEF CanBeAnswered
    <3>2. q \in rows' /\ parent'[q] = parent[q]
      BY <1>12, <3>1, ReadCheckpointEffect, StoreTables
    <3> QED BY <3>1, <3>2 DEF CanBeAnswered
  <2>4. CASE OnTheWay(h, d)
    <3>1. PICK o \in Clients : pc[o] # "idle" /\ carry[o] = <<h, d>>
      BY <2>4 DEF OnTheWay
    <3>2. o # p
      BY <1>12, <3>1, ReadCheckpointEffect
    <3> QED BY <1>12, <3>1, <3>2, ReadCheckpointEffect DEF OnTheWay
  <2> QED BY <2>1, <2>2, <2>3, <2>4 DEF SInv, Covered
<1>13. ASSUME NEW p \in Clients, Claim(p)
      PROVE  Covered'
  <2> SUFFICES ASSUME NEW h \in hosts', NEW d \in pending'[h]
               PROVE  ToBeLinked(d)' \/ CanBeAnswered(h, d)' \/ OnTheWay(h, d)'
    BY DEF Covered
  <2>1. h \in hosts /\ d \in pending[h] /\ h \in Delegated /\ d \in Delegated
    BY <1>13, ClaimEffect, StoreTables
  <2>2. CASE ToBeLinked(d)
    <3>1. run[p] # Root
      BY <1>13, <2>2, ClaimEffect, ClaimFinds DEF ToBeLinked
    <3> QED BY <1>13, <2>2, <3>1, ClaimEffect, TreeAssumption DEF ToBeLinked
  <2>3. CASE CanBeAnswered(h, d)
    <3>1. PICK q \in rows : q[1] = d /\ parent[q] = <<h, d>>
      BY <2>3 DEF CanBeAnswered
    <3>2. CASE q # target[p]
      BY <1>13, ClaimEffect, <3>1, <3>2 DEF CanBeAnswered
    <3>3. CASE q = target[p]
      <4>1. pc'[p] # "idle" /\ carry'[p] = <<h, d>>
        BY <1>13, ClaimEffect, ClaimFinds, <3>1, <3>3
      <4> QED BY <4>1 DEF OnTheWay
    <3> QED BY <3>2, <3>3
  <2>4. CASE OnTheWay(h, d)
    <3>1. PICK o \in Clients : pc[o] # "idle" /\ carry[o] = <<h, d>>
      BY <2>4 DEF OnTheWay
    <3>2. pc'[o] # "idle" /\ carry'[o] = carry[o]
      BY <1>13, <3>1, ClaimEffect
    <3> QED BY <3>1, <3>2 DEF OnTheWay
  <2> QED BY <2>1, <2>2, <2>3, <2>4 DEF SInv, Covered
<1>14. ASSUME NEW p \in Clients, Act(p)
      PROVE  Covered'
  <2> SUFFICES ASSUME NEW h \in hosts', NEW d \in pending'[h]
               PROVE  ToBeLinked(d)' \/ CanBeAnswered(h, d)' \/ OnTheWay(h, d)'
    BY DEF Covered
  <2>1. h \in hosts /\ d \in pending[h] /\ h \in Delegated /\ d \in Delegated
    BY <1>14, ActEffect, StoreTables
  <2>2. CASE ToBeLinked(d)
    BY <1>14, <2>1, <2>2, ActEffect, TreeAssumption, RootHosts DEF ToBeLinked
  <2>3. CASE CanBeAnswered(h, d)
    <3>1. PICK q \in rows : q[1] = d /\ parent[q] = <<h, d>>
      BY <2>3 DEF CanBeAnswered
    <3>2. q \in rows' /\ parent'[q] = parent[q]
      BY <1>14, <3>1, ActEffect, StoreTables
    <3> QED BY <3>1, <3>2 DEF CanBeAnswered
  <2>4. CASE OnTheWay(h, d)
    <3>1. PICK o \in Clients : pc[o] # "idle" /\ carry[o] = <<h, d>>
      BY <2>4 DEF OnTheWay
    <3>2. pc'[o] # "idle" /\ carry'[o] = carry[o]
      BY <1>14, <3>1, ActEffect
    <3> QED BY <3>1, <3>2 DEF OnTheWay
  <2> QED BY <2>1, <2>2, <2>3, <2>4 DEF SInv, Covered
<1>15. ASSUME NEW p \in Clients, AppendAnswer(p)
      PROVE  Covered'
  <2> SUFFICES ASSUME NEW h \in hosts', NEW d \in pending'[h]
               PROVE  ToBeLinked(d)' \/ CanBeAnswered(h, d)' \/ OnTheWay(h, d)'
    BY DEF Covered
  <2>1. h \in hosts /\ d \in pending[h] /\ h \in Delegated /\ d \in Delegated
    BY <1>15, AppendAnswerEffect, StoreTables
  <2>2. CASE ToBeLinked(d)
    <3>1. run[p] # Root
      BY <1>15, <2>2, AppendAnswerEffect DEF ToBeLinked, LInv, OneDriver, ResumeTarget, Claimed
    <3> QED BY <1>15, <2>2, <3>1, AppendAnswerEffect, TreeAssumption DEF ToBeLinked
  <2>3. CASE CanBeAnswered(h, d)
    <3>1. PICK q \in rows : q[1] = d /\ parent[q] = <<h, d>>
      BY <2>3 DEF CanBeAnswered
    <3>2. q \in rows' /\ parent'[q] = parent[q]
      BY <1>15, <3>1, AppendAnswerEffect, StoreTables
    <3> QED BY <3>1, <3>2 DEF CanBeAnswered
  <2>4. CASE OnTheWay(h, d)
    <3>1. PICK o \in Clients : pc[o] # "idle" /\ carry[o] = <<h, d>>
      BY <2>4 DEF OnTheWay
    <3>2. pc'[o] # "idle" /\ carry'[o] = carry[o]
      BY <1>15, <3>1, AppendAnswerEffect
    <3> QED BY <3>1, <3>2 DEF OnTheWay
  <2> QED BY <2>1, <2>2, <2>3, <2>4 DEF SInv, Covered
<1>16. ASSUME NEW p \in Clients, ReadSupervisor(p)
      PROVE  Covered'
  <2> SUFFICES ASSUME NEW h \in hosts', NEW d \in pending'[h]
               PROVE  ToBeLinked(d)' \/ CanBeAnswered(h, d)' \/ OnTheWay(h, d)'
    BY DEF Covered
  <2>1. h \in hosts /\ d \in pending[h] /\ h \in Delegated /\ d \in Delegated
    BY <1>16, ReadSupervisorEffect, StoreTables
  <2>2. CASE ToBeLinked(d)
    BY <1>16, <2>1, <2>2, ReadSupervisorEffect, TreeAssumption, RootHosts DEF ToBeLinked
  <2>3. CASE CanBeAnswered(h, d)
    <3>1. PICK q \in rows : q[1] = d /\ parent[q] = <<h, d>>
      BY <2>3 DEF CanBeAnswered
    <3>2. q \in rows' /\ parent'[q] = parent[q]
      BY <1>16, <3>1, ReadSupervisorEffect, StoreTables
    <3> QED BY <3>1, <3>2 DEF CanBeAnswered
  <2>4. CASE OnTheWay(h, d)
    <3>1. PICK o \in Clients : pc[o] # "idle" /\ carry[o] = <<h, d>>
      BY <2>4 DEF OnTheWay
    <3>2. o = p => pc'[p] = "delivering"
      BY <1>16, <2>1, <3>1 DEF ReadSupervisor, IInv, TypeOK, StreamTypes
    <3> QED BY <1>16, <3>1, <3>2, ReadSupervisorEffect DEF OnTheWay
  <2> QED BY <2>1, <2>2, <2>3, <2>4 DEF SInv, Covered
<1>17. ASSUME NEW p \in Clients, Deliver(p)
      PROVE  Covered'
  <2> SUFFICES ASSUME NEW h \in hosts', NEW d \in pending'[h]
               PROVE  ToBeLinked(d)' \/ CanBeAnswered(h, d)' \/ OnTheWay(h, d)'
    BY DEF Covered
  <2>1. h \in hosts /\ d \in pending[h] /\ h \in Delegated /\ d \in Delegated
    BY <1>17, DeliverEffect, StoreTables
  <2>2. CASE ToBeLinked(d)
    BY <1>17, <2>1, <2>2, DeliverEffect, TreeAssumption, RootHosts DEF ToBeLinked
  <2>3. CASE CanBeAnswered(h, d)
    <3>1. PICK q \in rows : q[1] = d /\ parent[q] = <<h, d>>
      BY <2>3 DEF CanBeAnswered
    <3>2. q \in rows' /\ parent'[q] = parent[q]
      BY <1>17, <3>1, DeliverEffect, StoreTables
    <3> QED BY <3>1, <3>2 DEF CanBeAnswered
  <2>4. CASE OnTheWay(h, d)
    <3>1. PICK o \in Clients : pc[o] # "idle" /\ carry[o] = <<h, d>>
      BY <2>4 DEF OnTheWay
    <3>2. o = p => pc'[p] = "settling"
      <4>1. Super[h] \in sess
        BY <2>1, RootHosts, TreeAssumption DEF SInv, Housed
      <4> QED BY <1>17, <3>1, <4>1 DEF Deliver, IInv, TypeOK, StreamTypes
    <3> QED BY <1>17, <3>1, <3>2, DeliverEffect DEF OnTheWay
  <2> QED BY <2>1, <2>2, <2>3, <2>4 DEF SInv, Covered
<1>18. ASSUME NEW p \in Clients, Settle(p)
      PROVE  Covered'
  <2> SUFFICES ASSUME NEW h \in hosts', NEW d \in pending'[h]
               PROVE  ToBeLinked(d)' \/ CanBeAnswered(h, d)' \/ OnTheWay(h, d)'
    BY DEF Covered
  <2>1. h \in hosts /\ d \in pending[h] /\ h \in Delegated /\ d \in Delegated
    BY <1>18, SettleEffect, StoreTables DEF SInv, Fresh, OnHost
  <2>2. CASE ToBeLinked(d)
    BY <1>18, <2>1, <2>2, SettleEffect, TreeAssumption, RootHosts DEF ToBeLinked
  <2>3. CASE CanBeAnswered(h, d)
    <3>1. PICK q \in rows : q[1] = d /\ parent[q] = <<h, d>>
      BY <2>3 DEF CanBeAnswered
    <3>2. q \in rows' /\ parent'[q] = parent[q]
      BY <1>18, <3>1, SettleEffect, StoreTables
    <3> QED BY <3>1, <3>2 DEF CanBeAnswered
  <2>4. CASE OnTheWay(h, d)
    <3>1. PICK o \in Clients : pc[o] # "idle" /\ carry[o] = <<h, d>>
      BY <2>4 DEF OnTheWay
    <3>2. o # p
      <4>1. Super[h] \in sess
        BY <2>1, RootHosts, TreeAssumption DEF SInv, Housed
      <4>2. carry[p] = <<h, d>> => pending'[h] = Remaining(p)
        BY <1>18, <2>1, <4>1 DEF Settle, IInv, TypeOK, StoreTypes
      <4> QED BY <3>1, <4>2 DEF Remaining
    <3> QED BY <1>18, <3>1, <3>2, SettleEffect DEF OnTheWay
  <2> QED BY <2>1, <2>2, <2>3, <2>4 DEF SInv, Covered
<1>19. ASSUME NEW p \in Clients, ClaimSupervisor(p)
      PROVE  Covered'
  <2> SUFFICES ASSUME NEW h \in hosts', NEW d \in pending'[h]
               PROVE  ToBeLinked(d)' \/ CanBeAnswered(h, d)' \/ OnTheWay(h, d)'
    BY DEF Covered
  <2>1. h \in hosts /\ d \in pending[h] /\ h \in Delegated /\ d \in Delegated
    BY <1>19, ClaimSupervisorEffect, StoreTables
  <2>2. CASE ToBeLinked(d)
    <3>1. Super[carry[p][1]] = Root /\ status[Root] # "linking"
      BY <1>19, ClaimSupervisorEffect, SupervisorFinds, RootHosts
    <3> QED BY <2>2, <3>1 DEF ToBeLinked
  <2>3. CASE CanBeAnswered(h, d)
    <3>1. PICK q \in rows : q[1] = d /\ parent[q] = <<h, d>>
      BY <2>3 DEF CanBeAnswered
    <3>2. q \in rows' /\ parent'[q] = parent[q]
      BY <1>19, <3>1, ClaimSupervisorEffect, StoreTables
    <3> QED BY <3>1, <3>2 DEF CanBeAnswered
  <2>4. CASE OnTheWay(h, d)
    <3>1. PICK o \in Clients : pc[o] # "idle" /\ carry[o] = <<h, d>>
      BY <2>4 DEF OnTheWay
    <3>2. o # p
      BY <1>19, ClaimSupervisorEffect, <3>1
    <3> QED BY <1>19, <3>1, <3>2, ClaimSupervisorEffect DEF OnTheWay
  <2> QED BY <2>1, <2>2, <2>3, <2>4 DEF SInv, Covered
<1>20. ASSUME NEW p \in Clients, LoseSupervisor(p)
      PROVE  Covered'
  <2> SUFFICES ASSUME NEW h \in hosts', NEW d \in pending'[h]
               PROVE  ToBeLinked(d)' \/ CanBeAnswered(h, d)' \/ OnTheWay(h, d)'
    BY DEF Covered
  <2>1. h \in hosts /\ d \in pending[h] /\ h \in Delegated /\ d \in Delegated
    BY <1>20, LoseSupervisorEffect, StoreTables
  <2>2. CASE ToBeLinked(d)
    BY <1>20, <2>1, <2>2, LoseSupervisorEffect, TreeAssumption, RootHosts DEF ToBeLinked
  <2>3. CASE CanBeAnswered(h, d)
    <3>1. PICK q \in rows : q[1] = d /\ parent[q] = <<h, d>>
      BY <2>3 DEF CanBeAnswered
    <3>2. q \in rows' /\ parent'[q] = parent[q]
      BY <1>20, <3>1, LoseSupervisorEffect, StoreTables
    <3> QED BY <3>1, <3>2 DEF CanBeAnswered
  <2>4. CASE OnTheWay(h, d)
    <3>1. PICK o \in Clients : pc[o] # "idle" /\ carry[o] = <<h, d>>
      BY <2>4 DEF OnTheWay
    <3>2. o # p
      BY <1>20, <2>1, <3>1 DEF LoseSupervisor
    <3> QED BY <1>20, <3>1, <3>2, LoseSupervisorEffect DEF OnTheWay
  <2> QED BY <2>1, <2>2, <2>3, <2>4 DEF SInv, Covered
<1>21. ASSUME UNCHANGED vars
      PROVE  Covered'
  BY <1>21
  DEF vars, storeVars, runVars, streamVars, countVars, SInv, Covered, ToBeLinked, CanBeAnswered,
      OnTheWay
<1> QED
  BY <1>1, <1>2, <1>3, <1>4, <1>5, <1>6, <1>7, <1>8, <1>9, <1>10, <1>11, <1>12, <1>13, <1>14, <1>15,
     <1>16, <1>17, <1>18, <1>19, <1>20, <1>21
  DEF QuietStep

----------------------------------------------------------------------------
(* The invariant, and what follows from it.                                *)

LEMMA SInvInit == Init => SInv
PROOF
  BY DEF Init, SInv, Housed, Alone, Fresh, OnHost, OwnHeld, OwnLinks, OwnLink, Claiming, Covered

LEMMA SInvStep ==
  ASSUME Undisturbed, OneLevel, IInv, LInv, SInv, [Next]_vars
  PROVE  SInv'
PROOF
<1>1. QuietStep
  BY StepsAreQuiet
<1> QED
  BY <1>1, HousedStep, AloneStep, FreshStep, OwnHeldStep, OwnLinksStep, CoveredStep DEF SInv

\* A supervisor checkpoint at rest waits only for what can still be answered,
\* or is being carried to it (linkDelegatedChild, continueSupervisorParent), as
\* long as one stream is drained at a time and nothing fails; for any number
\* of delegations and asks, and any cap.
THEOREM PendingSettles ==
  ASSUME Undisturbed, OneLevel
  PROVE  Spec => []PendingCanSettle
PROOF
<1>1. Spec => []IInv /\ []LInv
  BY Invariance, LinksInvariance DEF Undisturbed
<1>2. Init => SInv
  BY SInvInit
<1>3. IInv /\ LInv /\ SInv /\ [Next]_vars => SInv'
  BY SInvStep
<1>4. IInv /\ SInv => PendingCanSettle
  <2> SUFFICES ASSUME IInv, SInv, NEW k \in hosts, status[Super[k]] = "suspended", NEW c \in pending[k]
               PROVE  CanBeAnswered(k, c) \/ OnTheWay(k, c)
    BY DEF PendingCanSettle, CanBeAnswered, OnTheWay
  <2>1. Super[k] = Root
    BY StoreTables DEF OneLevel
  <2> QED BY <2>1 DEF SInv, Covered, ToBeLinked
<1> QED BY <1>1, <1>2, <1>3, <1>4, PTL DEF Spec
=============================================================================

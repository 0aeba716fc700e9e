------------------------------ MODULE AgentLoop ------------------------------
(***************************************************************************)
(* What an agent loop promises whoever reads its row: it is started once,  *)
(* it gains one iteration at a time and at most MaxIterations, and it is   *)
(* closed once, for good.                                                  *)
(***************************************************************************)
EXTENDS Naturals

CONSTANTS Loops, MaxIterations

VARIABLES status, count

loopVars == <<status, count>>

LoopInit == status = [l \in Loops |-> "none"] /\ count = [l \in Loops |-> 0]

Start(l) ==
  /\ status[l] = "none"
  /\ status' = [status EXCEPT ![l] = "running"]
  /\ UNCHANGED count

Record(l) ==
  /\ status[l] = "running" /\ count[l] < MaxIterations
  /\ count' = [count EXCEPT ![l] = @ + 1]
  /\ UNCHANGED status

\* One failure may close several nested loops.
Close(S) ==
  /\ \A l \in S : status[l] = "running"
  /\ \E how \in [S -> {"completed", "exhausted", "failed"}] :
       status' = [l \in Loops |-> IF l \in S THEN how[l] ELSE status[l]]
  /\ UNCHANGED count

LoopNext ==
  \/ \E l \in Loops : Start(l) \/ Record(l)
  \/ \E S \in SUBSET Loops : Close(S)

LoopSpec == LoopInit /\ [][LoopNext]_loopVars
=============================================================================

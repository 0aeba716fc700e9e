---------------------------- MODULE HumanAnswers ----------------------------
(***************************************************************************)
(* What a checkpoint promises the people who answer it: a question is      *)
(* asked once, stays open until somebody takes it or it is withdrawn with  *)
(* its session, and is never open again; an answer is recorded at most     *)
(* once, for a question that somebody has taken.                           *)
(***************************************************************************)
CONSTANT Asks

VARIABLES asked, open, answered

vars == <<asked, open, answered>>

TypeOK == asked \subseteq Asks /\ open \subseteq asked /\ answered \subseteq asked

Init == asked = {} /\ open = {} /\ answered = {}

Ask(a) ==
  /\ a \notin asked
  /\ asked' = asked \cup {a}
  /\ open' = open \cup {a}
  /\ UNCHANGED answered

\* One resume takes a question, or a deleted session withdraws several.
Close(some) ==
  /\ some # {} /\ open' = open \ some
  /\ UNCHANGED <<asked, answered>>

Answer(a) ==
  /\ a \in asked \ (open \cup answered)
  /\ answered' = answered \cup {a}
  /\ UNCHANGED <<asked, open>>

Next ==
  \/ \E a \in Asks : Ask(a) \/ Answer(a)
  \/ \E some \in SUBSET open : Close(some)

Spec == Init /\ [][Next]_vars

=============================================================================

----------------------------- MODULE MCPipeline -----------------------------
(***************************************************************************)
(* The pipelines Pipeline is checked with.                                 *)
(***************************************************************************)
EXTENDS Pipeline

Case(eq, steps) == [eq |-> eq, steps |-> steps]

A == AgentStep("a")
B == AgentStep("b")
M == MapStep("m")

\* The array a map fans out, with one element that is no match for any `on`.
MCInput == Array(<<Atom("x"), Atom("y"), Atom("z")>>)

\* A map between agents; a map of one agent's single output.
Fan == <<M, A, M>>
\* A decision inside an arm changes the label the next branch reads.
Relabel ==
    <<DecisionStep,
      BranchStep(FALSE, <<Case("yes", <<A, DecisionStep, B>>)>>, <<<< >>>>),
      BranchStep(FALSE, <<Case("no", <<M>>)>>, <<<<A>>>>),
      B>>
\* Arms inside arms, on the value's status, with steps left at every level.
Deep ==
    <<A,
      BranchStep(TRUE, <<Case("ok", <<BranchStep(TRUE, <<Case("ok", <<B, A>>)>>, <<<<M, B>>>>), A>>)>>, <<<<B>>>>),
      A>>
\* A branch that no decision precedes, and one without a default arm.
NoLabel == <<A, BranchStep(FALSE, << >>, <<<<A>>>>), B>>
NoDefault == <<DecisionStep, BranchStep(FALSE, <<Case("yes", <<A>>)>>, << >>), B>>

MCPrograms == {Fan, Relabel, Deep, NoLabel, NoDefault}
=============================================================================

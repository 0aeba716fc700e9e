---------------------------- MODULE MCPipelines ----------------------------
(***************************************************************************)
(* The pipelines that are checked: a behaviour is that of one parallel     *)
(* step (Parallel) or of one list of the other steps (Pipeline, with the   *)
(* programs of MCPipeline).  The two keep different frames in their        *)
(* checkpoints and share no state: one of them moves in each behaviour.    *)
(***************************************************************************)
EXTENDS Parallel

CONSTANTS Statuses, Answers, Delegators, MaxPauses

VARIABLES kind, program, stack, run, saved, phase, crumbs, said, pauses

\* the instance only names the programs, which depend on no constant
Some == INSTANCE MCPipeline WITH Programs <- {}, Input <- {}, Labels <- {}
Steps == INSTANCE Pipeline WITH
           Programs <- Some!MCPrograms \cup {<<>>}, Input <- Some!MCInput, Labels <- Answers

MCInit ==
  /\ kind \in {"parallel", "steps"} /\ Init /\ Steps!Init
  /\ kind = "parallel" => program = <<>>
ParallelStep ==
  kind = "parallel" /\ Next
    /\ UNCHANGED <<kind, program, stack, run, saved, phase, crumbs, said, pauses>>
OtherStep == kind = "steps" /\ Steps!Next /\ UNCHANGED <<kind, vars>>
MCNext == ParallelStep \/ OtherStep

\* Fairness is that of Parallel: a behaviour of the other steps is judged by
\* its invariant alone.
MCSpec == MCInit /\ [][MCNext]_<<kind, vars, Steps!vars>> /\ Fairness

\* Pauses leave no trace in a pipeline's crumbs or its result; see
\* Pipeline!PausesDoNotShow (continuePipelineParent, stepParent).
PausesDoNotShow == kind = "steps" => Steps!PausesDoNotShow
=============================================================================

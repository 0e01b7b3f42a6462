------------------------- MODULE MCSealedEvaluation -------------------------
(***************************************************************************)
(* SealedEvaluation with two evaluations (a submission and the one of its  *)
(* retry contract), two executions and two grader bundles.                 *)
(***************************************************************************)
EXTENDS SealedEvaluation

=============================================================================

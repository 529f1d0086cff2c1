-------------------------- MODULE MCEvaluationRuns -------------------------
(***************************************************************************)
(* Small instances of EvaluationRuns: a run has the job id of its outbox   *)
(* entry and one more that its recovery would give it.                     *)
(***************************************************************************)
EXTENDS EvaluationRuns, TLC

CONSTANTS j1, j2, r1

MCRunOf == [j \in {j1, j2} |-> r1]
MCOutboxJob == [r \in {r1} |-> j1]

(* The workers are interchangeable; used in runs without liveness.         *)
Workers == Permutations(Worker)
=============================================================================

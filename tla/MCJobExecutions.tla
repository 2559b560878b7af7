---- MODULE MCJobExecutions ----
(* Model checking of JobExecutionManager with interchangeable executions. *)
EXTENDS JobExecutionManager, TLC

Symmetry == Permutations(JobExes)
====

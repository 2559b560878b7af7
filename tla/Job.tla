---- MODULE Job ----
(***************************************************************************)
(* A row of the job table (job/models.py, classes Job and JobManager).     *)
(* Each operator is one update of the row, applied only when the matching  *)
(* can_be_* test of the locked row holds. Times are ticks of a clock; the  *)
(* time of the last status change is kept only until the job is first      *)
(* queued, because no one reads it after that.                             *)
(***************************************************************************)
EXTENDS Naturals

CONSTANT MaxTries   \* max_tries of the job type

ASSUME MaxTriesAssumption == MaxTries \in Nat \ {0}

JobStatuses == {"PENDING", "BLOCKED", "QUEUED", "RUNNING", "FAILED", "COMPLETED", "CANCELED"}
ActiveStatuses == {"QUEUED", "RUNNING"}
FinalStatuses == {"FAILED", "COMPLETED", "CANCELED"}

JobRows == [status : JobStatuses, num_exes : Nat, max_tries : Nat, has_input : BOOLEAN,
            is_superseded : BOOLEAN, node : BOOLEAN, error : BOOLEAN, last_status_change : Nat,
            in_recipe : BOOLEAN, is_long_running : BOOLEAN]

\* create_job_v6: a new job of a long running job type or not. A job in a recipe
\* gets its input later.
create_job(recipe, long) ==
  [status |-> "PENDING", num_exes |-> 0, max_tries |-> MaxTries, has_input |-> ~recipe,
   is_superseded |-> FALSE, node |-> FALSE, error |-> FALSE, last_status_change |-> 0,
   in_recipe |-> recipe, is_long_running |-> long]

has_been_queued(j) == j.num_exes > 0

can_be_blocked(j) == j.status # "BLOCKED" /\ ~has_been_queued(j)
can_be_pending(j) == j.status # "PENDING" /\ ~has_been_queued(j)
can_be_canceled(j) == j.status \notin {"CANCELED", "COMPLETED"}
can_be_uncanceled(j) == j.status = "CANCELED" /\ ~has_been_queued(j)

\* Mutant: any job that is not completed can start to run.
can_be_running_late(j) == j.status # "COMPLETED"

can_be_running(j) == j.status = "QUEUED"

can_be_completed(j) == j.status \in ActiveStatuses
can_be_failed(j) == j.status \in ActiveStatuses

\* Mutant: a blocked job has to become pending first.
can_be_queued_pending(j) ==
  j.status = "PENDING" /\ j.has_input /\ ~has_been_queued(j) /\ ~j.is_superseded

can_be_queued(j) ==
  j.status \in {"PENDING", "BLOCKED"} /\ j.has_input /\ ~has_been_queued(j) /\ ~j.is_superseded

can_be_requeued(j) ==
  j.status # "COMPLETED" /\ j.has_input /\ has_been_queued(j) /\ ~j.is_superseded

\* The retry decision of FailedJobs.execute.
should_retry(j, retriable) ==
  ((retriable /\ j.num_exes < j.max_tries) \/ j.is_long_running) /\ ~j.is_superseded

update_jobs_to_blocked(j, when) ==
  IF can_be_blocked(j) THEN [j EXCEPT !.status = "BLOCKED", !.last_status_change = when] ELSE j

update_jobs_to_pending(j, when) ==
  IF can_be_pending(j) THEN [j EXCEPT !.status = "PENDING", !.last_status_change = when] ELSE j

\* Mutant: the error of a failed job is kept when it is canceled.
update_jobs_to_canceled_error(j, when) ==
  IF can_be_canceled(j)
  THEN [j EXCEPT !.status = "CANCELED", !.node = FALSE,
                 !.last_status_change = IF has_been_queued(j) THEN 0 ELSE when]
  ELSE j

update_jobs_to_canceled(j, when) ==
  IF can_be_canceled(j)
  THEN [j EXCEPT !.status = "CANCELED", !.error = FALSE, !.node = FALSE,
                 !.last_status_change = IF has_been_queued(j) THEN 0 ELSE when]
  ELSE j

update_jobs_to_completed(j) == IF can_be_completed(j) THEN [j EXCEPT !.status = "COMPLETED"] ELSE j

update_jobs_to_failed(j) ==
  IF can_be_failed(j) THEN [j EXCEPT !.status = "FAILED", !.error = TRUE] ELSE j

\* The update itself; the caller tests can_be_queued or can_be_requeued.
update_jobs_to_queued(j) ==
  [j EXCEPT !.status = "QUEUED", !.node = FALSE, !.error = FALSE, !.num_exes = @ + 1,
            !.last_status_change = 0]

\* RunningJobs.execute: the node is set whatever the status, then
\* update_jobs_to_running changes the status of a QUEUED job.
update_jobs_to_running(j) ==
  [j EXCEPT !.node = TRUE, !.status = IF can_be_running(j) THEN "RUNNING" ELSE @]

increment_max_tries(j) == [j EXCEPT !.max_tries = j.num_exes + MaxTries]

supersede_jobs(j) == [j EXCEPT !.is_superseded = TRUE]

process_job_input(j) == [j EXCEPT !.has_input = TRUE]
====

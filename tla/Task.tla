---- MODULE Task ----
(***************************************************************************)
(* One task of the scheduler: the fields of job/tasks/base_task.py Task    *)
(* that decide what happens next, and its methods as operators on them.    *)
(* A task object keeps its identity while its Mesos task ID changes: the   *)
(* ID of a job task is its base ID plus the number of times it was lost    *)
(* (job/execution/tasks/exe_task.py), so "lost" stands for the ID.         *)
(*                                                                         *)
(* Times are abstracted: whether a threshold has been passed is an input.  *)
(* _last_status_update is set exactly while the task is launched, so       *)
(* "launched" stands for both; start time, container name and exit code    *)
(* are bookkeeping that no later step reads.                               *)
(***************************************************************************)
EXTENDS Naturals

\* What Mesos reports for a task (job/tasks/update.py).
TERMINAL_STATUSES == {"FINISHED", "FAILED", "KILLED"}
Statuses == TERMINAL_STATUSES \cup {"RUNNING", "LOST"}

Task == [launched : BOOLEAN, timedOut : BOOLEAN, needsKilled : BOOLEAN,
         ended : BOOLEAN, lost : Nat]

NewTask == [launched |-> FALSE, timedOut |-> FALSE, needsKilled |-> FALSE,
            ended |-> FALSE, lost |-> 0]

\* Only a launched, unfinished task that has not timed out yet can time out.
can_time_out(t) == t.launched /\ ~t.timedOut /\ ~t.ended

check_timeout(t) == [t EXCEPT !.timedOut = TRUE, !.needsKilled = TRUE]

force_kill(t) == [t EXCEPT !.needsKilled = TRUE]

needs_killed(t) == t.launched /\ ~t.ended /\ t.needsKilled

\* A second launch of a launched task is logged and ignored.
launch(t) == [t EXCEPT !.launched = TRUE]

\* An update for another ID of the task, or for an ended task, is ignored. A
\* lost task goes back to being unlaunched; its timeout and kill marks stay.
update(t, id, s) ==
  IF t.lost # id \/ t.ended THEN t
  ELSE IF s = "LOST" THEN [t EXCEPT !.launched = FALSE]
  ELSE [t EXCEPT !.ended = s \in TERMINAL_STATUSES]

\* Mutant: counts the loss twice.
update_task_id_counted_twice(t) == [t EXCEPT !.lost = @ + 2]

update_task_id_for_lost_task(t) == [t EXCEPT !.lost = @ + 1]
====

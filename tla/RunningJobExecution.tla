---- MODULE RunningJobExecution ----
(***************************************************************************)
(* A running job execution (job/execution/job_exe.py): the tasks it still  *)
(* has to run, the one it is running and its status, with its methods as   *)
(* operators on that record. Every method holds the execution's lock, so   *)
(* each operator is one atomic step. Tasks are numbered in the order of    *)
(* configuration.get_task_types() (pull, pre, main, post).                 *)
(***************************************************************************)
EXTENDS Naturals, Sequences

CONSTANT NumTasks   \* length of the execution's task list

ASSUME NumTasksAssumption == NumTasks \in Nat \ {0}

TaskNums == 1..NumTasks
NoTask == 0

ExeStatuses == {"RUNNING", "COMPLETED", "FAILED", "CANCELED"}
Errors == {"none", "task", "node-lost", "timeout", "resource-starvation"}

\* hasRun: a task of the execution has come back (_last_task_finished is set).
JobExe == [status : ExeStatuses, current : TaskNums \cup {NoTask},
           remaining : Seq(TaskNums), error : Errors, hasRun : BOOLEAN]

NewJobExe == [status |-> "RUNNING", current |-> NoTask,
              remaining |-> [k \in TaskNums |-> k], error |-> "none", hasRun |-> FALSE]

is_finished(x) == x.current = NoTask /\ x.remaining = << >>
\* Mutant: the current task is not waited for.
is_next_task_ready_always(x) == x.remaining # << >>

is_next_task_ready(x) == x.current = NoTask /\ x.remaining # << >>

\* Mutant: a later final status overwrites the first one.
_set_final_status_again(x, s, err) ==
  [x EXCEPT !.remaining = << >>, !.status = s, !.error = err]

\* The first final status wins. The current task stays: it may have to be killed.
_set_final_status(x, s, err) ==
  IF x.status = "RUNNING"
  THEN [x EXCEPT !.remaining = << >>, !.status = s, !.error = err]
  ELSE x

execution_canceled(x) == _set_final_status(x, "CANCELED", "none")
execution_lost(x) == _set_final_status(x, "FAILED", "node-lost")

\* Mutant: only an execution whose task is still running times out.
execution_timed_out_current(x) ==
  IF x.current = NoTask THEN x ELSE _set_final_status(x, "FAILED", "timeout")

execution_timed_out(x) == _set_final_status(x, "FAILED", "timeout")

\* Starvation is only considered while the execution waits for its next task
\* after an earlier one came back.
can_starve(x) == is_next_task_ready(x) /\ x.hasRun
check_for_starvation(x) == _set_final_status(x, "FAILED", "resource-starvation")

start_next_task(x) ==
  [x EXCEPT !.current = Head(x.remaining), !.remaining = Tail(x.remaining)]

_task_complete(x) ==
  LET y == [x EXCEPT !.current = NoTask, !.hasRun = TRUE]
  IN  IF y.remaining = << >> THEN _set_final_status(y, "COMPLETED", "none") ELSE y

_task_fail(x) ==
  _set_final_status([x EXCEPT !.current = NoTask, !.hasRun = TRUE], "FAILED", "task")

\* Mutant: forgets to put the lost task back at the head of the remaining tasks.
_task_lost_dropped(x) == [x EXCEPT !.current = NoTask, !.hasRun = TRUE]

\* A lost task is run again, with a new task ID, if the execution still runs.
_task_lost(x) ==
  [x EXCEPT !.current = NoTask, !.hasRun = TRUE,
            !.remaining = IF x.status = "RUNNING" THEN <<x.current>> \o @ ELSE @]

\* The update is for the current task of the execution, under the ID it has now.
task_update(x, s) ==
  CASE s = "FINISHED" -> _task_complete(x)
    [] s = "LOST" -> _task_lost(x)
    [] s \in {"FAILED", "KILLED"} -> _task_fail(x)
    [] OTHER -> x
====

---- MODULE JobExecutionManager ----
(***************************************************************************)
(* The scheduler's running job executions and the threads that work on     *)
(* them (job/execution/manager.py, job/tasks/manager.py and their callers  *)
(* in scheduler/):                                                         *)
(*                                                                         *)
(*   callback   the Mesos driver thread: statusUpdate, slaveLost           *)
(*   scheduling perform_scheduling, in the steps between which it holds no *)
(*              lock: snapshot, starvation, lost nodes, new executions,    *)
(*              start of the next tasks, task manager, Mesos driver        *)
(*   handling   TaskHandlingThread: timeouts, then kills                   *)
(*   recon      ReconciliationThread: asks Mesos about tasks               *)
(*   sync       SyncThread: looks for canceled jobs, twice per iteration   *)
(*                                                                         *)
(* Each manager has a lock of its own, so a step is what happens under one *)
(* lock; an update or a scheduling pass is several steps, and the other    *)
(* threads run in between.                                                 *)
(***************************************************************************)
EXTENDS Task, RunningJobExecution, FiniteSets

CONSTANTS
  JobExes,        \* job executions that may be scheduled
  Cancelable,     \* those whose job a user may cancel or requeue
  CanTimeOut,     \* those with a task that may exceed a timeout threshold
  MaxLost,        \* bound: how often one task may be lost
  RacyRequests    \* whether a reconciliation or kill request may reach Mesos
                  \* while the task it names is being launched

ASSUME MaxLostAssumption == MaxLost \in Nat
ASSUME CancelableAssumption == Cancelable \subseteq JobExes
ASSUME CanTimeOutAssumption == CanTimeOut \subseteq JobExes
ASSUME RacyRequestsAssumption == RacyRequests \in BOOLEAN

Tasks == JobExes \X TaskNums              \* task objects
TaskIds == JobExes \X TaskNums \X (0..MaxLost)  \* Mesos task IDs
MesosStates == {"none", "active", "LOST"} \cup TERMINAL_STATUSES
Updates == [id : TaskIds, status : Statuses]
NoUpdate == [id |-> << >>, status |-> "none"]

VARIABLES
  running,    \* keys of job_exe_mgr._running_job_exes
  scheduled,  \* executions created so far
  exe,        \* the RunningJobExecution of every execution
  task,       \* its Task objects
  taskMgr,    \* keys of task_mgr._tasks
  reported,   \* how often an execution was put in _finished_job_exes
  cleanup,    \* executions given to cleanup_mgr
  canceled,   \* executions whose job is canceled or has a newer one (database)
  cb,         \* the update statusUpdate still has to give to job_exe_mgr
  sched,      \* where the scheduling thread is and what it holds
  timeouts,   \* timed out tasks the handling thread still has to report
  sync,       \* which of its two calls the sync thread is in, and its snapshot
  mesos,      \* Mesos: state of every task ID
  answers     \* Mesos: replies on their way about IDs it cannot launch or find

vars == <<running, scheduled, exe, task, taskMgr, reported, cleanup, canceled,
          cb, sched, timeouts, sync, mesos, answers>>

IdOf(t) == <<t[1], t[2], task[t].lost>>
TaskOf(id) == <<id[1], id[2]>>

\* Started by the scheduling thread and not yet given to Mesos.
BeingLaunched(t) == t \in sched.tasks

IdleSched == [pc |-> "idle", exes |-> {}, lost |-> {}, tasks |-> {}]

Init ==
  /\ running = {} /\ scheduled = {}
  /\ exe = [e \in JobExes |-> NewJobExe]
  /\ task = [t \in Tasks |-> NewTask]
  /\ taskMgr = {}
  /\ reported = [e \in JobExes |-> 0]
  /\ cleanup = {} /\ canceled = {}
  /\ cb = NoUpdate
  /\ sched = IdleSched
  /\ timeouts = {}
  /\ sync = [call |-> 1, pc |-> "begin", exes |-> {}]
  /\ mesos = [i \in TaskIds |-> "none"]
  /\ answers = {}

\* The finished executions F leave the table and are reported once more each.
_handle_finished_job_exe(F) ==
  /\ running' = running \ F
  /\ reported' = [e \in JobExes |-> IF e \in F THEN reported[e] + 1 ELSE reported[e]]

Finished(S, x) == {e \in S : is_finished(x[e])}

-----------------------------------------------------------------------------
(* The callback thread.                                                    *)

\* statusUpdate, first half: task_mgr.handle_task_update. A task that is over
\* leaves the manager under the ID its object has now; if that ID is not a key
\* the KeyError ends the callback.
statusUpdate(u) ==
  LET t == TaskOf(u.id)
      new == update(task[t], u.id[3], u.status)
      over == u.id \in taskMgr /\ (new.ended \/ u.status = "LOST")
  IN  /\ cb = NoUpdate
      /\ task' = IF u.id \in taskMgr THEN [task EXCEPT ![t] = new] ELSE task
      /\ taskMgr' = IF over THEN taskMgr \ {IdOf(t)} ELSE taskMgr
      /\ cb' = IF over /\ IdOf(t) \notin taskMgr THEN NoUpdate ELSE u
      /\ UNCHANGED <<running, scheduled, exe, reported, cleanup, canceled, sched,
                     timeouts, sync, mesos>>

\* What Mesos has to say about a task, any number of times.
MesosUpdate(id) ==
  /\ mesos[id] # "none"
  /\ statusUpdate([id |-> id, status |-> IF mesos[id] = "active" THEN "RUNNING" ELSE mesos[id]])
  /\ UNCHANGED answers

MesosAnswer(u) ==
  /\ u \in answers
  /\ answers' = answers \ {u}
  /\ statusUpdate(u)

\* The update is about the task the execution is running, under its present ID.
CurrentTaskId(e, id) == exe[e].current = id[2] /\ task[TaskOf(id)].lost = id[3]

\* statusUpdate, second half: job_exe_mgr.handle_task_update and the cleanup.
handle_task_update ==
  LET e == cb.id[1]
      t == TaskOf(cb.id)
      match == CurrentTaskId(e, cb.id)
      new == IF match THEN [exe EXCEPT ![e] = task_update(exe[e], cb.status)] ELSE exe
      done == Finished({e}, new)
  IN  /\ cb # NoUpdate
      /\ cb' = NoUpdate
      /\ IF e \in running
         THEN /\ exe' = new
              /\ task' = IF match /\ cb.status = "LOST" /\ exe[e].status = "RUNNING"
                         THEN [task EXCEPT ![t] = update_task_id_for_lost_task(@)]
                         ELSE task
              /\ _handle_finished_job_exe(done)
              /\ cleanup' = cleanup \cup done
         ELSE UNCHANGED <<running, exe, task, reported, cleanup>>
      /\ UNCHANGED <<scheduled, taskMgr, canceled, sched, timeouts, sync, mesos, answers>>

\* slaveLost: job_exe_mgr.lost_node for the executions S on the lost node.
lost_node(S) ==
  LET new == [e \in JobExes |-> IF e \in S THEN execution_lost(exe[e]) ELSE exe[e]]
      done == Finished(S, new)
  IN  /\ cb = NoUpdate
      /\ exe' = new
      /\ _handle_finished_job_exe(done)
      /\ cleanup' = cleanup \cup done
      /\ UNCHANGED <<scheduled, task, taskMgr, canceled, cb, sched, timeouts, sync,
                     mesos, answers>>

-----------------------------------------------------------------------------
(* The scheduling thread. Nodes are abstracted: which executions are on a  *)
(* node that is not ready, have the resources for their next task or have  *)
(* waited too long is an input.                                            *)

\* _prepare_nodes and the loop over the executions in _schedule_waiting_tasks.
schedule_begin ==
  /\ sched.pc = "idle"
  /\ \E lost \in SUBSET running :
     \E ready \in SUBSET {e \in running \ lost : is_next_task_ready(exe[e])} :
       sched' = [pc |-> "starved", exes |-> ready, lost |-> lost, tasks |-> {}]
  /\ UNCHANGED <<running, scheduled, exe, task, taskMgr, reported, cleanup, canceled,
                 cb, timeouts, sync, mesos, answers>>

schedule_starved ==
  /\ sched.pc = "starved"
  /\ \E S \in SUBSET {e \in running : can_starve(exe[e])} :
       /\ exe' = [e \in JobExes |-> IF e \in S THEN check_for_starvation(exe[e]) ELSE exe[e]]
       /\ _handle_finished_job_exe(S)
       /\ cleanup' = cleanup \cup S
  /\ sched' = [sched EXCEPT !.pc = "lost"]
  /\ UNCHANGED <<scheduled, task, taskMgr, canceled, cb, timeouts, sync, mesos, answers>>

\* lost_job_exes: the current task is killed as well, its node may still be up.
lost_job_exes ==
  LET S == sched.lost \cap running
      new == [e \in JobExes |-> IF e \in S THEN execution_lost(exe[e]) ELSE exe[e]]
      done == Finished(S, new)
  IN  /\ sched.pc = "lost"
      /\ exe' = new
      /\ task' = [t \in Tasks |-> IF t[1] \in S /\ exe[t[1]].current = t[2]
                                  THEN force_kill(task[t]) ELSE task[t]]
      /\ _handle_finished_job_exe(done)
      /\ cleanup' = cleanup \cup done
      /\ sched' = [sched EXCEPT !.pc = "new", !.lost = {}]
      /\ UNCHANGED <<scheduled, taskMgr, canceled, cb, timeouts, sync, mesos, answers>>

\* _schedule_new_job_exes: executions taken from the queue. One that is canceled
\* on the queue is only reported; one canceled after the queue was read is run.
schedule_job_exes ==
  /\ sched.pc = "new"
  /\ \E S \in SUBSET (JobExes \ scheduled) : \E C \in SUBSET (S \cap canceled) :
       /\ scheduled' = scheduled \cup S
       /\ running' = running \cup (S \ C)
       /\ reported' = [e \in JobExes |-> IF e \in C THEN reported[e] + 1 ELSE reported[e]]
       /\ exe' = [e \in JobExes |-> IF e \in C THEN execution_canceled(exe[e]) ELSE exe[e]]
       /\ sched' = [sched EXCEPT !.pc = "start", !.exes = @ \cup (S \ C)]
  /\ UNCHANGED <<task, taskMgr, cleanup, canceled, cb, timeouts, sync, mesos, answers>>

\* start_next_task looks at the execution again: it may have ended meanwhile.
startable(S) == {e \in S : is_next_task_ready(exe[e])}

\* _allocate_offers, which may drop executions, then start_job_exe_tasks.
start_job_exe_tasks ==
  /\ sched.pc = "start"
  /\ \E kept \in SUBSET sched.exes :
       LET S == startable(kept)
       IN  /\ exe' = [e \in JobExes |-> IF e \in S THEN start_next_task(exe[e]) ELSE exe[e]]
           /\ sched' = [pc |-> "launch", exes |-> {}, lost |-> {},
                        tasks |-> {<<e, Head(exe[e].remaining)>> : e \in S}]
  /\ UNCHANGED <<running, scheduled, task, taskMgr, reported, cleanup, canceled, cb,
                 timeouts, sync, mesos, answers>>

\* task_mgr.launch_tasks; an ID that is there already is logged and left alone.
launch_tasks ==
  LET new == {t \in sched.tasks : IdOf(t) \notin taskMgr}
  IN  /\ sched.pc = "launch"
      /\ task' = [t \in Tasks |-> IF t \in new THEN launch(task[t]) ELSE task[t]]
      /\ taskMgr' = taskMgr \cup {IdOf(t) : t \in new}
      /\ sched' = [sched EXCEPT !.pc = "mesos"]
      /\ UNCHANGED <<running, scheduled, exe, reported, cleanup, canceled, cb, timeouts,
                     sync, mesos, answers>>

\* driver.launchTasks for every node. An exception (the tasks in "raised") is
\* logged and nothing else; Mesos refuses an ID it has seen with TASK_ERROR.
driver_launchTasks ==
  /\ sched.pc = "mesos"
  /\ \E raised \in SUBSET {t \in sched.tasks : task[t].lost < MaxLost} :
       LET ids == {IdOf(t) : t \in sched.tasks \ raised}
       IN  /\ mesos' = [i \in TaskIds |-> IF i \in ids /\ mesos[i] = "none"
                                          THEN "active" ELSE mesos[i]]
           /\ answers' = answers \cup {[id |-> i, status |-> "FAILED"] :
                                         i \in {j \in ids : mesos[j] # "none"}}
  /\ sched' = IdleSched
  /\ UNCHANGED <<running, scheduled, exe, task, taskMgr, reported, cleanup, canceled, cb,
                 timeouts, sync>>

-----------------------------------------------------------------------------
(* The task handling and reconciliation threads.                           *)

\* get_timeout_tasks: those that time out now and those that did before. The
\* thresholds are minutes, so no task times out while it is being launched.
timeout_tasks ==
  /\ timeouts = {}
  /\ \E S \in SUBSET {t \in CanTimeOut \X TaskNums : can_time_out(task[t]) /\ ~BeingLaunched(t)} :
       LET listed == {TaskOf(i) : i \in taskMgr}
           late == {t \in listed : t \in S \/ task[t].timedOut}
       IN  /\ late # {}
           /\ task' = [t \in Tasks |-> IF t \in S \cap listed THEN check_timeout(task[t]) ELSE task[t]]
           /\ timeouts' = late
  /\ UNCHANGED <<running, scheduled, exe, taskMgr, reported, cleanup, canceled, cb, sched,
                 sync, mesos, answers>>

\* Mutant: the execution is removed at once, although its task still has to be killed.
handle_task_timeout_removes(t) ==
  /\ t \in timeouts
  /\ timeouts' = timeouts \ {t}
  /\ IF t[1] \in running
     THEN /\ exe' = [exe EXCEPT ![t[1]] = execution_timed_out(@)]
          /\ _handle_finished_job_exe({t[1]})
          /\ cleanup' = cleanup \cup {t[1]}
     ELSE UNCHANGED <<exe, running, reported, cleanup>>
  /\ UNCHANGED <<scheduled, task, taskMgr, canceled, cb, sched, sync, mesos, answers>>

handle_task_timeout(t) ==
  /\ t \in timeouts
  /\ timeouts' = timeouts \ {t}
  /\ exe' = IF t[1] \in running THEN [exe EXCEPT ![t[1]] = execution_timed_out(@)] ELSE exe
  /\ UNCHANGED <<running, scheduled, task, taskMgr, reported, cleanup, canceled, cb, sched,
                 sync, mesos, answers>>

LostAnswer(id) == answers' = answers \cup {[id |-> id, status |-> "LOST"]}

\* _kill_tasks, for one task. Mesos answers that it does not know the task, or
\* kills it. The bound on losses never holds a kill back: KilledHasEnded.
kill_task(t) ==
  /\ timeouts = {}
  /\ \E i \in taskMgr : TaskOf(i) = t
  /\ needs_killed(task[t])
  /\ RacyRequests \/ ~BeingLaunched(t)
  /\ \/ /\ mesos[IdOf(t)] = "none"
        /\ task[t].lost < MaxLost \/ exe[t[1]].status # "RUNNING"
        /\ LostAnswer(IdOf(t))
        /\ UNCHANGED mesos
     \/ /\ mesos[IdOf(t)] = "active"
        /\ mesos' = [mesos EXCEPT ![IdOf(t)] = "KILLED"]
        /\ UNCHANGED answers
  /\ UNCHANGED <<running, scheduled, exe, task, taskMgr, reported, cleanup, canceled, cb,
                 sched, timeouts, sync>>

\* A task in the task manager, or one a reregistration or a late add_tasks put
\* in the reconciliation manager, which asks under the ID the task has by then.
MayBeReconciled(t) ==
  \/ ~BeingLaunched(t) /\ \E i \in taskMgr : TaskOf(i) = t
  \/ RacyRequests /\ t[1] \in running /\ (exe[t[1]].current = t[2] \/ task[t].lost > 0)

\* Mesos answers LOST about an ID it does not know. About one it knows it sends
\* what MesosUpdate sends anyway.
perform_reconciliation(t) ==
  /\ MayBeReconciled(t)
  /\ task[t].lost < MaxLost
  /\ mesos[IdOf(t)] = "none"
  /\ LostAnswer(IdOf(t))
  /\ UNCHANGED <<running, scheduled, exe, task, taskMgr, reported, cleanup, canceled, cb,
                 sched, timeouts, sync, mesos>>

-----------------------------------------------------------------------------
(* The sync thread: job_exe_mgr.sync_with_database, called twice in an     *)
(* iteration. Only the second call's result is used.                       *)

\* Under the lock: a copy of the table.
sync_begin ==
  /\ sync.pc = "begin"
  /\ sync' = [sync EXCEPT !.pc = "read", !.exes = running]
  /\ UNCHANGED <<running, scheduled, exe, task, taskMgr, reported, cleanup, canceled, cb,
                 sched, timeouts, mesos, answers>>

\* Mutant: every running execution is taken for canceled.
sync_read_all ==
  /\ sync.pc = "read"
  /\ sync' = [sync EXCEPT !.pc = "apply"]
  /\ UNCHANGED <<running, scheduled, exe, task, taskMgr, reported, cleanup, canceled, cb,
                 sched, timeouts, mesos, answers>>

\* The database tells which of them are canceled.
sync_read ==
  /\ sync.pc = "read"
  /\ sync' = [sync EXCEPT !.pc = "apply", !.exes = @ \cap canceled]
  /\ UNCHANGED <<running, scheduled, exe, task, taskMgr, reported, cleanup, canceled, cb,
                 sched, timeouts, mesos, answers>>

\* Mutant: the current task is not killed.
CancelAll_alive(S, done) ==
  /\ exe' = [e \in JobExes |-> IF e \in S THEN execution_canceled(exe[e]) ELSE exe[e]]
  /\ UNCHANGED task
  /\ _handle_finished_job_exe(done)

\* The executions S are canceled; those of them that are finished are reported
\* and leave the table.
CancelAll(S, done) ==
  /\ exe' = [e \in JobExes |-> IF e \in S THEN execution_canceled(exe[e]) ELSE exe[e]]
  /\ task' = [t \in Tasks |-> IF t[1] \in S /\ exe[t[1]].current = t[2]
                              THEN force_kill(task[t]) ELSE task[t]]
  /\ _handle_finished_job_exe(done)

\* Executions of the snapshot that finished and left the table meanwhile.
Gone == sync.exes \ running
CanceledDone(S) == {e \in S : exe[e].current = NoTask}

sync_apply ==
  /\ sync.pc = "apply"
  /\ Gone = {}
  /\ CancelAll(sync.exes, CanceledDone(sync.exes))
  /\ cleanup' = IF sync.call = 2 THEN cleanup \cup CanceledDone(sync.exes) ELSE cleanup
  /\ sync' = [call |-> 3 - sync.call, pc |-> "begin", exes |-> {}]
  /\ UNCHANGED <<scheduled, taskMgr, canceled, cb, sched, timeouts, mesos, answers>>

\* The first of those is reported a second time before its removal raises a
\* KeyError, which ends the iteration; the executions before it were handled.
sync_apply_raises ==
  /\ sync.pc = "apply"
  /\ \E g \in Gone : \E S \in SUBSET (sync.exes \ Gone) :
       CancelAll(S \cup {g}, CanceledDone(S) \cup {g})
  /\ sync' = [call |-> 1, pc |-> "begin", exes |-> {}]
  /\ UNCHANGED <<scheduled, taskMgr, cleanup, canceled, cb, sched, timeouts, mesos, answers>>

-----------------------------------------------------------------------------
(* Outside the scheduler.                                                  *)

\* A user cancels the job, or a newer execution of it is queued.
CancelJob(e) ==
  /\ e \in Cancelable \ canceled
  /\ canceled' = canceled \cup {e}
  /\ UNCHANGED <<running, scheduled, exe, task, taskMgr, reported, cleanup, cb, sched,
                 timeouts, sync, mesos, answers>>

\* A task ends, or is lost with its agent.
MesosTaskEnds(id) ==
  /\ mesos[id] = "active"
  /\ \E s \in {"FINISHED", "FAILED"} \cup IF id[3] < MaxLost THEN {"LOST"} ELSE {} :
       mesos' = [mesos EXCEPT ![id] = s]
  /\ UNCHANGED <<running, scheduled, exe, task, taskMgr, reported, cleanup, canceled, cb,
                 sched, timeouts, sync, answers>>

scheduling ==
  \/ schedule_begin \/ schedule_starved \/ lost_job_exes \/ schedule_job_exes
  \/ start_job_exe_tasks \/ launch_tasks \/ driver_launchTasks

syncing == sync_begin \/ sync_read \/ sync_apply \/ sync_apply_raises

Next ==
  \/ \E id \in TaskIds : MesosUpdate(id)
  \/ \E u \in answers : MesosAnswer(u)
  \/ handle_task_update
  \/ \E S \in SUBSET running : lost_node(S)
  \/ scheduling
  \/ timeout_tasks
  \/ \E t \in Tasks : handle_task_timeout(t)
  \/ \E t \in Tasks : kill_task(t)
  \/ \E t \in Tasks : perform_reconciliation(t)
  \/ syncing
  \/ \E e \in JobExes : CancelJob(e)
  \/ \E id \in TaskIds : MesosTaskEnds(id)

Spec == Init /\ [][Next]_vars

\* Mesos repeats an update until the callback has taken it.
FirstUpdate(id) ==
  /\ id \in taskMgr /\ mesos[id] \notin {"none", "active"}
  /\ MesosUpdate(id)

\* Every background thread keeps running, and the driver calls back in the order
\* of arrival, so an update that waits is delivered however many others come. The
\* handling thread reaches its kills in every iteration, after the timeouts.
\* Nothing is assumed of users, of nodes or of how long a task takes.
Fairness ==
  /\ WF_vars(handle_task_update)
  /\ WF_vars(scheduling)
  /\ WF_vars(syncing)
  /\ WF_vars(\E t \in Tasks : handle_task_timeout(t))
  /\ \A t \in Tasks : SF_vars(kill_task(t))
  /\ SF_vars(\E id \in TaskIds : FirstUpdate(id))
  /\ SF_vars(\E u \in answers : MesosAnswer(u))

FairSpec == Spec /\ Fairness

-----------------------------------------------------------------------------
(* Properties.                                                             *)

Scheds == [pc : {"idle", "starved", "lost", "new", "start", "launch", "mesos"},
           exes : SUBSET JobExes, lost : SUBSET JobExes, tasks : SUBSET Tasks]

\* Every variable has its type; no task is lost more often than its bound.
TypeOK ==
  /\ running \subseteq JobExes /\ scheduled \subseteq JobExes
  /\ exe \in [JobExes -> JobExe]
  /\ task \in [Tasks -> Task] /\ \A t \in Tasks : task[t].lost \in 0..MaxLost
  /\ taskMgr \subseteq TaskIds
  /\ reported \in [JobExes -> Nat]
  /\ cleanup \subseteq JobExes /\ canceled \subseteq Cancelable
  /\ cb \in Updates \cup {NoUpdate}
  /\ sched \in Scheds
  /\ timeouts \subseteq Tasks
  /\ sync \in [call : {1, 2}, pc : {"begin", "read", "apply"}, exes : SUBSET JobExes]
  /\ mesos \in [TaskIds -> MesosStates]
  /\ answers \subseteq Updates

\* An execution is only COMPLETED when Mesos has finished every one of its tasks
\* under some ID, whatever was lost, retried, canceled or repeated on the way
\* (_task_complete, _task_lost).
CompletedRanAllTasks ==
  \A e \in JobExes : exe[e].status = "COMPLETED" =>
    \A k \in TaskNums : \E n \in 0..MaxLost : mesos[<<e, k, n>>] = "FINISHED"

\* An execution that has left the table was reported, and only the execution of
\* a canceled job can be reported twice (_handle_finished_job_exe).
ReportedWhenRemoved ==
  \A e \in scheduled :
    /\ e \notin running => reported[e] > 0
    /\ e \in running => reported[e] = 0
    /\ reported[e] > 1 => e \in canceled

\* Mesos runs at most one task of an execution at a time (start_next_task waits
\* for the current task, and a lost task gets a new ID only when it is lost).
OneTaskAtATime ==
  \A i, j \in {id \in TaskIds : mesos[id] = "active"} : i[1] = j[1] => i = j

\* Files and containers of an execution are cleaned up only when none of its
\* tasks is alive.
CleanupAfterDead ==
  \A e \in cleanup : \A id \in TaskIds : id[1] = e => mesos[id] # "active"

\* A task is killed only for an execution that has ended, however timeouts, lost
\* updates and restarts of the task interleave: a mark left by a timeout never
\* kills the task of an execution that goes on (check_timeout, force_kill).
KilledHasEnded ==
  \A t \in Tasks : timeouts = {} /\ needs_killed(task[t]) => exe[t[1]].status # "RUNNING"

\* A final status is final, a removed execution never comes back, and nobody
\* starts a task of an execution that has ended (_set_final_status,
\* start_next_task).
EndIsFinal ==
  [][\A e \in JobExes :
       /\ exe[e].status # "RUNNING" => /\ exe'[e].status = exe[e].status
                                       /\ exe'[e].error = exe[e].error
                                       /\ exe'[e].current \in {exe[e].current, NoTask}
       /\ e \in scheduled \ running => e \notin running']_vars

\* Cancellation takes effect: a running execution whose job is canceled leaves
\* the table, its task killed if need be (sync_with_database, _kill_tasks).
CanceledLeaves ==
  \A e \in JobExes : (e \in canceled /\ e \in running) ~> (e \notin running)

\* "We wait for the status update of the killed task to come back so that job
\* execution cleanup occurs after the task is dead" (handle_task_timeout): an
\* execution that timed out is in the end removed.
TimedOutLeaves ==
  \A e \in JobExes : (exe[e].error = "timeout") ~> (e \notin running)

\* "This class is thread-safe" (JobExecutionManager): however the threads
\* interleave, a finished execution is reported once.
ReportedOnce ==
  \A e \in JobExes : reported[e] <= 1

\* "Any job executions that are now finished are returned" (sync_with_database)
\* to be cleaned up: an execution that ran a task and left the table is cleaned.
CleanedWhenRemoved ==
  \A e \in scheduled \ running : exe[e].hasRun => e \in cleanup
====

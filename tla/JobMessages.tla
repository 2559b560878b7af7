---- MODULE JobMessages ----
(***************************************************************************)
(* How command messages move one job through its statuses.                 *)
(*                                                                         *)
(* A job's row is changed only by messages (job/messages, queue/messages,  *)
(* recipe/messages, scheduler/messages). The messaging backend delivers    *)
(* each message at least once and in any order (messaging/messages/        *)
(* message.py): pool holds the messages still to be executed, executed     *)
(* those that were executed and may be delivered again at any time.        *)
(*                                                                         *)
(* The scheduler takes queue entries, runs executions (module              *)
(* JobExecutionManager has the detail), keeps its own messages in memory   *)
(* until its messaging thread sends them, and may stop at any point: it    *)
(* then forgets its executions and unsent messages, and its successor      *)
(* sends a RestartScheduler message. A scheduler's life is an epoch.       *)
(***************************************************************************)
EXTENDS Job, FiniteSets

CONSTANTS
  InRecipe,     \* whether the job is a node of a recipe: the cases to consider
  LongRunning,  \* whether its job type is long running: the cases to consider
  Cancelable,   \* whether users cancel the job
  MaxExes,      \* bound: executions of the job
  MaxClock,     \* bound: ticks of the clock
  MaxRequeues,  \* bound: requeue requests of users
  MaxEpoch      \* bound: lives of the scheduler

ASSUME InRecipeAssumption == InRecipe \subseteq BOOLEAN
ASSUME LongRunningAssumption == LongRunning \subseteq BOOLEAN
ASSUME CancelableAssumption == Cancelable \in BOOLEAN
ASSUME BoundsAssumption ==
  MaxExes \in Nat /\ MaxClock \in Nat /\ MaxRequeues \in Nat /\ MaxEpoch \in Nat \ {0}

VARIABLES
  job,       \* the row of the job
  queue,     \* its rows in the queue table
  exes,      \* its rows in the job_exe table
  ended,     \* how its executions really ended
  pool,      \* messages waiting to be executed
  executed,  \* messages executed at least once
  picked,    \* queue rows the scheduling thread has read
  running,   \* executions the scheduler is running
  outbox,    \* messages the scheduler has not sent yet
  epoch,     \* which life of the scheduler
  clock,     \* the last timestamp given out
  asked,     \* execution numbers at which a user asked for a requeue
  parents    \* state of the jobs this one depends on in its recipe

db == <<job, queue, exes>>
scheduler == <<picked, running, outbox, epoch>>
vars == <<job, queue, exes, ended, pool, executed, picked, running, outbox, epoch, clock,
          asked, parents>>

ExeNums == 1..MaxExes
QueueRows == [exe_num : ExeNums, is_canceled : BOOLEAN]
\* started is the epoch of the start, 0 for an execution canceled on the queue.
ExeRows == [exe_num : ExeNums, started : 0..MaxEpoch]
Ends == [exe_num : ExeNums, status : {"COMPLETED", "FAILED"}]

MessageTypes == {"process_job_input", "queued", "requeued", "running", "completed",
                 "failed", "failed_final", "cancel", "uncancel", "pending", "blocked",
                 "requeue", "restart", "update_recipes"}
\* n is the execution number, the time or the epoch that the message carries.
Messages == [type : MessageTypes, n : Nat]
Msg(t, n) == [type |-> t, n |-> n]

\* The time now. From MaxClock on all events fall into one tick of the clock.
now == IF clock < MaxClock THEN clock + 1 ELSE clock

Only(c, m) == IF c THEN {m} ELSE {}

UpdateRecipesMsgs == Only(job.in_recipe, Msg("update_recipes", 0))

\* A job in a recipe waits for its parents' output, any other is created with
\* its input and the message to process it (CreateJobs.execute).
Init ==
  /\ \E recipe \in InRecipe, long \in LongRunning : job = create_job(recipe, long)
  /\ pool = Only(~job.in_recipe, Msg("process_job_input", 0))
  /\ queue = {} /\ exes = {} /\ ended = {} /\ executed = {}
  /\ picked = {} /\ running = {} /\ outbox = {} /\ epoch = 1
  /\ clock = 0 /\ asked = {} /\ parents = "waiting"

-----------------------------------------------------------------------------
(* Execution of messages. Each handler says what becomes of the database   *)
(* and which messages it sends.                                            *)

\* Message m is executed for the first time or again. Its transaction is committed
\* before the messages new are sent, one by one, and m is acknowledged after that: if
\* the process stops in between, m is where it was and the rest of new is not sent
\* (_process_message).
Executes(m, new) ==
  /\ m \in pool \cup executed
  /\ \/ pool' = (pool \ {m}) \cup new /\ executed' = executed \cup {m}
     \/ \E sent \in (SUBSET new) \ {new} : pool' = pool \cup sent /\ UNCHANGED executed
  /\ UNCHANGED <<ended, picked, running, outbox, epoch, asked, parents>>

\* A message that carries the execution number n is obsolete for another one.
IsCurrent(n) == job.num_exes = n

ProcessJobInput ==
  /\ Executes(Msg("process_job_input", 0),
              Only(~has_been_queued(job), Msg("queued", 0)))
  /\ job' = process_job_input(job)
  /\ UNCHANGED <<queue, exes, clock>>

\* Mutant: the queue entry gets the number the job had before.
QueuedJobs_old(m) ==
  LET can == IF m.type = "requeued" THEN can_be_requeued(job) ELSE can_be_queued(job)
  IN  /\ Executes(m, {})
      /\ IF IsCurrent(m.n) /\ can
         THEN /\ job.num_exes < MaxExes
              /\ job' = update_jobs_to_queued(job)
              /\ queue' = queue \cup {[exe_num |-> job.num_exes, is_canceled |-> FALSE]}
         ELSE UNCHANGED <<job, queue>>
      /\ UNCHANGED <<exes, clock>>

QueuedJobs(m) ==
  LET can == IF m.type = "requeued" THEN can_be_requeued(job) ELSE can_be_queued(job)
  IN  /\ Executes(m, {})
      /\ IF IsCurrent(m.n) /\ can
         THEN /\ job.num_exes < MaxExes
              /\ job' = update_jobs_to_queued(job)
              /\ queue' = queue \cup {[exe_num |-> job.num_exes + 1, is_canceled |-> FALSE]}
         ELSE UNCHANGED <<job, queue>>
      /\ UNCHANGED <<exes, clock>>

RunningJobs(m) ==
  /\ Executes(m, {})
  /\ job' = IF IsCurrent(m.n) THEN update_jobs_to_running(job) ELSE job
  /\ UNCHANGED <<queue, exes, clock>>

\* Mutant: the execution number of the message is not compared.
CompletedJobs_any(m) ==
  /\ job' = update_jobs_to_completed(job)
  /\ Executes(m, IF job'.status = "COMPLETED" THEN UpdateRecipesMsgs ELSE {})
  /\ UNCHANGED <<queue, exes, clock>>

CompletedJobs(m) ==
  /\ job' = IF IsCurrent(m.n) THEN update_jobs_to_completed(job) ELSE job
  /\ Executes(m, IF IsCurrent(m.n) /\ job'.status = "COMPLETED" THEN UpdateRecipesMsgs ELSE {})
  /\ UNCHANGED <<queue, exes, clock>>

\* Mutant: a job with no tries left is forgotten.
FailedJobs_forgets(m) ==
  LET retry == can_be_failed(job) /\ IsCurrent(m.n) /\ should_retry(job, m.type = "failed")
  IN  /\ Executes(m, Only(retry, Msg("requeued", job.num_exes)))
      /\ UNCHANGED <<job, queue, exes, clock>>

\* A job that is retried keeps its status until QueuedJobs is executed.
FailedJobs(m) ==
  LET fails == can_be_failed(job) /\ IsCurrent(m.n)
      retry == fails /\ should_retry(job, m.type = "failed")
  IN  /\ Executes(m, IF retry THEN {Msg("requeued", job.num_exes)}
                     ELSE IF fails THEN UpdateRecipesMsgs ELSE {})
      /\ job' = IF fails /\ ~retry THEN update_jobs_to_failed(job) ELSE job
      /\ UNCHANGED <<queue, exes, clock>>

\* Every queue row of the job is canceled with it, in one transaction.
CancelJobs(m) ==
  /\ Executes(m, UpdateRecipesMsgs)
  /\ job' = update_jobs_to_canceled(job, m.n)
  /\ queue' = IF can_be_canceled(job) THEN {[q EXCEPT !.is_canceled = TRUE] : q \in queue} ELSE queue
  /\ UNCHANGED <<exes, clock>>

UncancelJobs(m) ==
  /\ Executes(m, UpdateRecipesMsgs)
  /\ job' = IF can_be_uncanceled(job) THEN update_jobs_to_pending(job, m.n) ELSE job
  /\ UNCHANGED <<queue, exes, clock>>

\* Pending and blocked messages older than the last status change are ignored.
IsNewer(m) == job.last_status_change < m.n

PendingJobs(m) ==
  /\ Executes(m, {})
  /\ job' = IF IsNewer(m) THEN update_jobs_to_pending(job, m.n) ELSE job
  /\ UNCHANGED <<queue, exes, clock>>

BlockedJobs(m) ==
  /\ Executes(m, {})
  /\ job' = IF IsNewer(m) THEN update_jobs_to_blocked(job, m.n) ELSE job
  /\ UNCHANGED <<queue, exes, clock>>

\* Mutant: the execution number of the message is not compared.
RequeueJobs_any(m) ==
  LET requeue == can_be_requeued(job)
      uncancel == ~requeue /\ can_be_uncanceled(job)
  IN  /\ Executes(m, Only(requeue, Msg("requeued", job.num_exes))
                     \cup Only(uncancel, Msg("uncancel", now)))
      /\ job' = IF requeue THEN increment_max_tries(job) ELSE job
      /\ clock' = IF uncancel THEN now ELSE clock
      /\ UNCHANGED <<queue, exes>>

\* RequeueJobs.execute reads the row without a lock and leaves the change to
\* the message it sends.
RequeueJobs(m) ==
  LET requeue == can_be_requeued(job) /\ IsCurrent(m.n)
      uncancel == ~requeue /\ can_be_uncanceled(job)
  IN  /\ Executes(m, Only(requeue, Msg("requeued", job.num_exes))
                     \cup Only(uncancel, Msg("uncancel", now)))
      /\ job' = IF requeue THEN increment_max_tries(job) ELSE job
      /\ clock' = IF uncancel THEN now ELSE clock
      /\ UNCHANGED <<queue, exes>>

UnfinishedExes == {x \in exes : job.status \in ActiveStatuses /\ x.exe_num = job.num_exes}

\* RestartScheduler.execute: a start time that is null cannot be compared, the
\* message would fail. The error scheduler-lost can be retried.
RestartScheduler(m) ==
  /\ \A x \in UnfinishedExes : x.started # 0
  /\ Executes(m, {Msg("failed", x.exe_num) : x \in {y \in UnfinishedExes : y.started < m.n}})
  /\ UNCHANGED <<job, queue, exes, clock>>

\* UpdateRecipes.execute, for this node of the recipe: its blocked, pending and
\* first queued jobs. The job is read without a lock.
UpdateRecipes(m) ==
  LET blocks == job.status = "PENDING" /\ parents = "blocking"
      unblocks == job.status = "BLOCKED" /\ parents # "blocking"
      row == IF parents = "completed" THEN process_job_input(job) ELSE job
  IN  /\ Executes(m, Only(blocks, Msg("blocked", now))
                     \cup Only(unblocks, Msg("pending", now))
                     \cup Only(can_be_queued(row), Msg("process_job_input", 0)))
      /\ job' = row
      /\ clock' = IF blocks \/ unblocks THEN now ELSE clock
      /\ UNCHANGED <<queue, exes>>

Execute(m) ==
  \/ m.type = "process_job_input" /\ ProcessJobInput
  \/ m.type \in {"queued", "requeued"} /\ QueuedJobs(m)
  \/ m.type = "running" /\ RunningJobs(m)
  \/ m.type = "completed" /\ CompletedJobs(m)
  \/ m.type \in {"failed", "failed_final"} /\ FailedJobs(m)
  \/ m.type = "cancel" /\ CancelJobs(m)
  \/ m.type = "uncancel" /\ UncancelJobs(m)
  \/ m.type = "pending" /\ PendingJobs(m)
  \/ m.type = "blocked" /\ BlockedJobs(m)
  \/ m.type = "requeue" /\ RequeueJobs(m)
  \/ m.type = "restart" /\ RestartScheduler(m)
  \/ m.type = "update_recipes" /\ UpdateRecipes(m)

-----------------------------------------------------------------------------
(* Users and the other jobs of the recipe.                                 *)

\* A request to cancel the job (CancelJobsBulk.execute).
CancelJobsBulk ==
  /\ Cancelable /\ can_be_canceled(job) /\ clock < MaxClock
  /\ clock' = now
  /\ pool' = pool \cup {Msg("cancel", now)}
  /\ UNCHANGED <<db, ended, executed, scheduler, asked, parents>>

\* A request to requeue the job (RequeueJobsBulk.execute).
RequeueJobsBulk ==
  /\ can_be_requeued(job) \/ can_be_uncanceled(job)
  /\ asked' = asked \cup {job.num_exes}
  /\ Cardinality(asked') <= MaxRequeues
  /\ pool' = pool \cup {Msg("requeue", job.num_exes)}
  /\ UNCHANGED <<db, ended, executed, scheduler, clock, parents>>

\* The recipe is reprocessed (SupersedeRecipeNodes.execute).
SupersedeRecipeNodes ==
  /\ job.in_recipe /\ ~job.is_superseded /\ clock < MaxClock
  /\ job' = supersede_jobs(job)
  /\ clock' = now
  /\ pool' = pool \cup {Msg("cancel", now)}
  /\ UNCHANGED <<queue, exes, ended, executed, scheduler, asked, parents>>

\* The parents fail or are canceled, are requeued, or complete. The recipe is updated
\* when they complete, but not always when they are requeued, and not when FailedJobs
\* has failed them and the process has stopped before it sent UpdateRecipes.
ParentsChange ==
  /\ job.in_recipe /\ parents # "completed"
  /\ parents' \in {"waiting", "blocking", "completed"} \ {parents}
  /\ \/ pool' = pool \cup UpdateRecipesMsgs
     \/ parents' # "completed" /\ UNCHANGED pool
  /\ UNCHANGED <<db, ended, executed, scheduler, clock, asked>>

-----------------------------------------------------------------------------
(* The scheduler.                                                          *)

\* _process_queue: the scheduling thread reads the queue and chooses entries.
_process_queue ==
  /\ picked = {}
  /\ picked' \in (SUBSET queue) \ {{}}
  /\ UNCHANGED <<db, ended, pool, executed, running, outbox, epoch, clock, asked, parents>>

Row(q) == [exe_num |-> q.exe_num, started |-> IF q.is_canceled THEN 0 ELSE epoch]
Started(S) == {q.exe_num : q \in {r \in S : ~r.is_canceled}}

\* Mutant: the queue entries are not deleted.
_process_scheduled_job_executions_keeps ==
  /\ picked # {}
  /\ exes' = exes \cup {Row(q) : q \in picked}
  /\ running' = running \cup Started(picked)
  /\ outbox' = outbox \cup {Msg("running", e) : e \in Started(picked)}
  /\ picked' = {}
  /\ UNCHANGED <<job, queue, ended, pool, executed, epoch, clock, asked, parents>>

\* One transaction, from the entries as they were read: creates the executions
\* and deletes the entries. An entry canceled since then is run.
_process_scheduled_job_executions ==
  /\ picked # {}
  /\ exes' = exes \cup {Row(q) : q \in picked}
  /\ queue' = {q \in queue : \A p \in picked : p.exe_num # q.exe_num}
  /\ running' = running \cup Started(picked)
  /\ outbox' = outbox \cup {Msg("running", e) : e \in Started(picked)}
  /\ picked' = {}
  /\ UNCHANGED <<job, ended, pool, executed, epoch, clock, asked, parents>>

\* The transaction fails for good, the entries stay on the queue.
scheduling_database_error ==
  /\ picked # {}
  /\ picked' = {}
  /\ UNCHANGED <<db, ended, pool, executed, running, outbox, epoch, clock, asked, parents>>

\* An execution completes, or fails with an error that can be retried or not.
execution_ends(e, t) ==
  /\ e \in running
  /\ running' = running \ {e}
  /\ outbox' = outbox \cup {Msg(t, e)}
  /\ ended' = ended \cup {[exe_num |-> e, status |-> IF t = "completed" THEN "COMPLETED" ELSE "FAILED"]}
  /\ UNCHANGED <<db, pool, executed, picked, epoch, clock, asked, parents>>

\* Mutant: only the executions of canceled jobs are stopped.
sync_with_database_canceled(e) ==
  /\ e \in running
  /\ job.status = "CANCELED"
  /\ running' = running \ {e}
  /\ UNCHANGED <<db, ended, pool, executed, picked, outbox, epoch, clock, asked, parents>>

\* The execution is canceled; its end is recorded but the job is not told.
sync_with_database(e) ==
  /\ e \in running
  /\ job.status = "CANCELED" \/ job.num_exes > e
  /\ running' = running \ {e}
  /\ UNCHANGED <<db, ended, pool, executed, picked, outbox, epoch, clock, asked, parents>>

\* The messaging thread sends what the scheduler has gathered.
send_messages ==
  /\ \E m \in outbox :
       /\ pool' = pool \cup {m}
       /\ outbox' = outbox \ {m}
  /\ UNCHANGED <<db, ended, executed, picked, running, epoch, clock, asked, parents>>

\* Mutant: the new scheduler does not announce itself.
restart_silent ==
  /\ epoch < MaxEpoch
  /\ epoch' = epoch + 1
  /\ picked' = {} /\ running' = {} /\ outbox' = {}
  /\ UNCHANGED <<db, ended, pool, executed, clock, asked, parents>>

\* The scheduler stops and another one starts (ScaleScheduler.initialize).
restart ==
  /\ epoch < MaxEpoch
  /\ epoch' = epoch + 1
  /\ picked' = {} /\ running' = {}
  /\ outbox' = {Msg("restart", epoch + 1)}
  /\ UNCHANGED <<db, ended, pool, executed, clock, asked, parents>>

EndTypes == {"completed", "failed", "failed_final"}

Next ==
  \/ \E m \in pool \cup executed : Execute(m)
  \/ CancelJobsBulk \/ RequeueJobsBulk \/ SupersedeRecipeNodes \/ ParentsChange
  \/ _process_queue \/ _process_scheduled_job_executions \/ scheduling_database_error
  \/ \E e \in running : (\E t \in EndTypes : execution_ends(e, t)) \/ sync_with_database(e)
  \/ send_messages \/ restart

Spec == Init /\ [][Next]_vars

\* The messages that can be waiting, with the numbers they carry.
Deliverable ==
  {Msg(t, 0) : t \in {"process_job_input", "queued", "update_recipes"}}
    \cup {Msg(t, e) : t \in EndTypes \cup {"running"}, e \in ExeNums}
    \cup {Msg(t, e) : t \in {"requeue", "requeued"}, e \in 0..MaxExes}
    \cup {Msg(t, c) : t \in {"cancel", "uncancel", "pending", "blocked"}, c \in 1..MaxClock}
    \cup {Msg("restart", e) : e \in 2..MaxEpoch}

\* The bound on executions keeps m from being executed.
AtBound(m) == m.type \in {"queued", "requeued"} /\ job.num_exes = MaxExes

\* What the code's scheduling justifies: a message that is waiting is delivered until
\* it has been executed and all it sends has been sent, which is when it leaves the
\* pool; the scheduler's threads run, a database error is not permanent, and a task
\* ends (it has a time limit) unless its job type is long running.
Fairness ==
  /\ \A m \in Deliverable : []<>(m \in pool => AtBound(m))
  /\ WF_vars(_process_queue) /\ SF_vars(_process_scheduled_job_executions)
  /\ WF_vars(send_messages)
  /\ \A e \in ExeNums :
       /\ WF_vars(~job.is_long_running /\ \E t \in EndTypes : execution_ends(e, t))
       /\ WF_vars(sync_with_database(e))

FairSpec == Spec /\ Fairness

-----------------------------------------------------------------------------
(* Properties.                                                             *)

\* Every variable has its type.
TypeOK ==
  /\ job \in JobRows /\ job.num_exes <= MaxExes
  /\ queue \in SUBSET QueueRows /\ picked \in SUBSET QueueRows
  /\ exes \in SUBSET ExeRows /\ ended \in SUBSET Ends
  /\ pool \in SUBSET Messages /\ executed \in SUBSET Messages /\ outbox \in SUBSET Messages
  /\ running \in SUBSET ExeNums
  /\ epoch \in 1..MaxEpoch /\ clock \in 0..MaxClock
  /\ asked \in SUBSET (0..MaxExes)
  /\ parents \in {"waiting", "blocking", "completed"}

Failed(e) == [exe_num |-> e, status |-> "FAILED"] \in ended
Completed(e) == [exe_num |-> e, status |-> "COMPLETED"] \in ended
\* Started by a scheduler that is gone.
Lost(e) == \E x \in exes : x.exe_num = e /\ 0 < x.started /\ x.started < epoch

\* A job has a further execution only because the one before failed, was lost
\* with its scheduler, or a user asked for it: messages that are delivered
\* twice or late (FailedJobs, QueuedJobs, RequeueJobs) never add one.
EveryExecutionHasACause ==
  \A e \in 1..(job.num_exes - 1) : Failed(e) \/ Lost(e) \/ e \in asked

\* The status of a job that ended is that of its latest execution, never of an
\* older one whose message came late (the exe_num tests of CompletedJobs and
\* FailedJobs). FAILED may also mean that the scheduler was lost.
StatusIsOfLatestExecution ==
  /\ job.status = "COMPLETED" => Completed(job.num_exes)
  /\ job.status = "FAILED" => Failed(job.num_exes) \/ Lost(job.num_exes)

\* A QUEUED or RUNNING job is never forgotten: its latest execution is on the
\* queue or running, or a message is on its way that ends, requeues or cancels
\* it, across lost messages in a scheduler that stops. RestartScheduler compares
\* the start time of every unfinished execution, so each of them must have one.
UnfinishedIsAccountedFor ==
  /\ job.status \in ActiveStatuses =>
       \/ \E q \in queue : q.exe_num = job.num_exes
       \/ job.num_exes \in running
       \/ \E m \in pool \cup outbox :
            \/ m.type \in EndTypes \cup {"requeued"} /\ m.n = job.num_exes
            \/ m.type = "restart" /\ \E x \in exes : x.exe_num = job.num_exes /\ x.started < m.n
            \/ m.type = "cancel" /\ job.is_superseded
  /\ \A x \in UnfinishedExes : x.started # 0

\* An execution number is used once: no entry on the queue, and none the
\* scheduling thread is working on, has the number of an existing execution,
\* whose cluster ID it would share (JobExecution.set_cluster_id).
ExecutionNumbersAreUnique ==
  /\ \A q \in queue : q.exe_num <= job.num_exes /\ \A x \in exes : x.exe_num # q.exe_num
  /\ \A p \in picked : \A x \in exes : x.exe_num # p.exe_num
  /\ \A q, r \in queue : q.exe_num = r.exe_num => q = r
  /\ \A x, y \in exes : x.exe_num = y.exe_num => x = y

\* The documented meaning of two fields of the job model: node is set only for
\* a RUNNING job or one with a final status, error only for a FAILED one,
\* whatever the order of RunningJobs and the messages that end or requeue it.
NodeAndErrorFitStatus ==
  /\ job.node => job.status \in {"RUNNING"} \cup FinalStatuses
  /\ job.error => job.status = "FAILED"

\* A completed job stays as it is: no late, repeated or racing message changes
\* its status or gives it another execution.
CompletedIsFinal ==
  [][job.status = "COMPLETED" => job'.status = "COMPLETED" /\ job'.num_exes = job.num_exes]_vars

Lifecycle == INSTANCE JobLifecycle WITH status <- job.status, num_exes <- job.num_exes

\* The messages, in any order and any number of times, change a job only as
\* JobLifecycle allows: nothing goes back, nothing is skipped, no execution is
\* counted twice. It is the abstract specification this module implements.
FollowsLifecycle == Lifecycle!Spec

\* Every queued or running job that runs for a limited time gets a final status (messages, restarts and
\* retries are finite in number).
JobEnds == (job.status \in ActiveStatuses /\ ~job.is_long_running) ~> job.status \in FinalStatuses

\* An execution of a canceled job, or one that is not the latest, stops.
ObsoleteExecutionsStop ==
  \A e \in ExeNums :
    (e \in running /\ (job.status = "CANCELED" \/ job.num_exes > e)) ~> e \notin running

\* docs/rest/job.rst: setting the status CANCELED "will cancel a running, queued,
\* or blocked job"; the job stays canceled as long as no one asks to requeue it.
CanceledStays ==
  [][job.status = "CANCELED" /\ job'.status # "CANCELED" => asked # {}]_vars

\* messaging/messages/message.py: "It is critical that execution of messages is
\* idempotent - no side effects as result of repeated executions".
RepeatedHasNoEffect ==
  [][\A m \in executed \ pool : Execute(m) => job'.status = job.status]_vars

\* docs/rest/job.rst: the requeue request "Re-queues the FAILED/CANCELED jobs",
\* so a job is not given another execution while the latest one is still going.
RequeuedHasEnded ==
  [][job'.num_exes > job.num_exes => job.num_exes \notin running]_vars

\* docs/rest/job.rst: the same request for a job that was canceled before it was
\* first queued; it does not stay PENDING.
RequeuedIsQueued == (0 \in asked /\ job.status = "PENDING") ~> job.status # "PENDING"

\* A job in a recipe whose parents have completed is put on the queue, unless it
\* is superseded, whatever the order of the blocked and pending messages before.
ReadyIsQueued ==
  (parents = "completed" /\ job.status \in {"PENDING", "BLOCKED"} /\ ~job.is_superseded)
    ~> (has_been_queued(job) \/ job.status = "CANCELED" \/ job.is_superseded)
====

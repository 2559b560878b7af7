# Verification of the Scale scheduler in TLA+

Scale runs containers ("jobs") on a Mesos cluster. This directory holds TLA+
models of the parts of Scale (`src/scale/`) whose correctness depends on the
order in which threads, messages and machines act, the TLC configurations that
check them on small instances, and proofs that TLAPS checks for every value of
their constants.

## The system and its parts

| Part | Code | State | Operations | Model |
|---|---|---|---|---|
| Mesos callbacks | `scheduler/scale_scheduler.py` | none of its own | `statusUpdate`, `slaveLost`, `resourceOffers`, `offerRescinded`, `initialize` | callbacks of the modules below |
| Job execution manager | `job/execution/manager.py`, `job_exe.py` | running executions, ends and messages to send | `handle_task_update`, `handle_task_timeout`, `lost_node`, `lost_job_exes`, `check_for_starvation`, `schedule_job_exes`, `sync_with_database` | `RunningJobExecution`, `JobExecutionManager` |
| Tasks | `job/tasks/base_task.py`, `manager.py` | launched, ended, timed out, to be killed; current ID | `launch`, `update`, `check_timeout`, `force_kill`, loss | `Task` |
| Scheduling thread | `scheduler/scheduling/` | a plan per pass: nodes, their offers, tasks and reservations | choice of nodes, limits, reservations, queue to executions, launch | `SchedulingNode`, `Scheduling`; queue and executions in `JobExecutionManager`, `JobMessages` |
| Resources and offers | `scheduler/resources/`, `node/resources/` | new offers, offers, watermark and total of each agent | `add_new_offers`, `refresh_agent_resources`, `allocate_offers`, `rescind_offers`, `lost_agent`, `sync_with_mesos` | `NodeResources`, `AgentResources`, `Scheduling` |
| System tasks | `scheduler/tasks/` | tasks of services | which to schedule, updates | `Scheduling` |
| Task handling, reconciliation and sync threads | `scheduler/threads/`, `scheduler/recon/` | snapshots between locks | time out, kill, reconcile, cancel | `JobExecutionManager`, `NodeTasks` |
| Node manager | `scheduler/node/manager.py` | agents, new agents, nodes | `register_agents`, `lost_node`, `sync_with_database` | `NodeManager` |
| Node | `scheduler/node/node_class.py`, `conditions.py` | settings, errors, cached state, its own tasks | `get_next_tasks`, task updates and timeouts, updates from Mesos and the database | `Node`, `NodeTasks` |
| Cleanup manager | `scheduler/cleanup/` | executions to clean up per node | `add_job_execution`, `update_nodes`, next cleanup task | `Node`, `NodeTasks`, `NodeManager` |
| Job row | `job/models.py` | status, executions, tries, input, superseded, node, error | `can_be_*`, `update_jobs_to_*` | `Job`, `JobLifecycle` |
| Job messages | `job/messages/`, `queue/messages/`, `recipe/messages/`, `scheduler/messages/` | messages in the backend | `execute` of each message | `JobMessages` |
| Queue | `queue/models.py` | entries waiting for the scheduler | `queue_jobs`, `cancel_queued_jobs`, taking entries | `JobMessages` |
| Recipes | `recipe/models.py`, `recipe/handlers/`, `recipe/messages/` | recipes, their nodes and jobs | creation, `UpdateRecipes`, `ReprocessRecipes`, `reprocess_recipe` | `RecipeGraph`, `Recipes` |
| Batches, ingest, storage, products, metrics, REST views | other applications | rows of the database | | not modelled or planned, see the end |

How they interact: the scheduler process has one driver thread, which runs the
Mesos callbacks, and several background threads. Every manager object has a
lock of its own and no operation holds two of them, so a callback or a pass of a
thread is several atomic steps with other threads in between. Workers outside of
the scheduler execute command messages, which are the only writers of the job
table. The messaging backend delivers a message at least once and in any order.

What makes this hard: snapshots used after the lock is released (sync, scheduling,
timeouts), tasks that are lost and started again under another ID, agents that
come back under another ID, repeated and late messages, a scheduler that stops
with messages unsent, and caches of derived state (the state of a node, the node
objects of the cleanup manager). `PROJECT.json` lists these hazards at their
lines, with the properties that would show them.

## Modules

* `Task` - one task object: its fields and methods as operators on a record.
* `RunningJobExecution` - one execution: the current task, those to come, the
  status, with its methods as operators.
* `JobExecutionManager` - the managers of executions and tasks, the threads that
  call them, and Mesos. One action per step between two locks. The program
  counters `cb`, `sched` and `sync` are the local variables of a callback, of a
  scheduling pass and of the sync thread. `MCJobExecutions` adds the symmetry of
  executions.
* `Node` - the record of a node with its conditions and cleanup list.
* `NodeManager` - the tables of agents and nodes; the sync with the database in
  the steps between which callbacks run. `MCNodes` places agents on hosts.
* `NodeTasks` - one node, its cleanup, health and pull tasks, and the threads
  that make, launch, time out and report them. `MCNodeTasks` gives the order of
  agent IDs. It relies on `AgentsAndNodesAgree` of `NodeManager`.
* `NodeResources`, `AgentResources`, `SchedulingNode` - amounts of resources; an
  agent with its offers, watermark and total; a node as one scheduling pass sees
  it. Their methods are operators on records.
* `Scheduling` - the passes of the scheduling thread, cut where they give up a
  lock (see the head of the module), with the callbacks about offers, tasks and
  agents and the sync of totals in between. `MCScheduling` holds the scenarios.
* `Job` - a row of the job table, one operator per update and `can_be_*` test.
* `JobMessages` - the message handlers, the scheduler's life cycle around one job
  (queue, execution, unsent messages, restart), users and the recipe around it.
* `JobLifecycle` - the abstract specification of a job: status and number of
  executions only. `JobMessages` implements it.
* `RecipeGraph` - the graph of a recipe definition and the difference between two
  of them, as operators on graphs.
* `Recipes` - one recipe, its jobs (rows of `Job`), and the recipes that supersede
  it. `MCRecipes` holds the recipe types of the run.
* `JobExecutionProofs`; `NodeManagerProofs`; `NodeTasksProofs`; `JobMessagesProofs`;
  `SchedulingProofs` and `SchedulingFitProofs`, `RecipesProofs` and `RecipesOrderProofs`,
  where the second extends the first - theorems and proofs.

A definition has the name of the function it models where there is one, and
`PROJECT.json` maps it to its lines. Definitions whose comment begins with
"Mutant" are variations of the one that follows; they show that a property would
notice such a mistake and take no part in the specifications.

What is abstracted: times become "a threshold has passed" or ticks of a clock,
resources appear only in `Scheduling`, a message names one job (the code puts many jobs
into one message and treats each of them alike), metrics, log lines, JSON and
titles are left out. Mesos is modelled by what the code relies on: a task ID is
run at most once, its last status is repeated until it is acknowledged, and a
reconciliation or kill request about an unknown ID is answered with LOST. A node is
told of an update by the agent ID in the update (`NodeManager.handle_task_update`),
and `ReconciliationManager` asks without one. So in the `unnamed` scenarios of
`NodeTasks` such an answer may name no agent: the task manager forgets the task, no
node is told, and the node launches the task again.

A message handler commits its transaction, then the messages that follow from it are
sent one by one, and the message is acknowledged last (`_process_message`). `Executes`
of `JobMessages` and `Executed` of `Recipes` let the process stop anywhere in between:
the database is changed, some of the messages are sent, and the message is executed
again. What the second execution sends follows from the handler: `FailedJobs` finds
nothing left to do for a job that has failed for good and sends no update of its
recipes, while `CompletedJobs` and `CancelJobs` look them up again. The properties hold
with this; in `Recipes` a child may stay PENDING instead of BLOCKED.

`Job.is_ready_for_children` asks for COMPLETED and an output. In `Recipes` COMPLETED is
enough: the post task stores the output before the execution ends, and it is copied to
the job in the transaction that makes the job COMPLETED.

In `Scheduling` two resources (cpus and gpus, which the code treats differently)
stand for all, in whole numbers, since no property is about rounding. Entries of
paused job types or with a missing workspace are not waiting, and canceled ones are
in `JobMessages`. A node is online or not, active or deprecated, has its image or not,
and is paused or not, where paused stands for the other reasons not to be READY; what
leads to these is in `NodeTasks`. It is ready for new jobs, for next tasks of jobs and
for its own tasks as `node_class.py` says. Jobs are queued at any time (`queue_jobs`);
a node makes a task of its own when a pass asks it (`_create_next_tasks`) and keeps one
that is lost to launch it again. Shortages are only displayed and left out. A service has one task. When a call of the driver
raises an exception, its tasks are found LOST by reconciliation later.

## Runs

### Job executions (`MCJobExecutions`)

| Run | Shows |
|---|---|
| `JobExecutions_one` | one execution of two tasks with a loss, a timeout, a cancellation and a sync: COMPLETED means that all tasks ran, an execution that leaves the table was reported, kills only hit executions that have ended, one task runs at a time, cleanup waits for tasks to be dead, an end is final |
| `JobExecutions_live` | the execution of a canceled job leaves the table |
| `JobExecutions_timeout` (violation) | an execution whose task is lost between listing and handling of its timeout stays in the table for good |

Bounds: two tasks show the hand-over from one to the next, one loss a restart
under another ID.

### Nodes (`MCNodes`) and node tasks (`MCNodeTasks`)

| Run | Shows |
|---|---|
| `Nodes` | agents and nodes agree, a node is online exactly when Mesos said so, an agent that sends offers is not dropped, and one that keeps running becomes the agent of an online node |
| `NodeTasks_safe` | no execution is forgotten and no task is waited for in vain, the cached state is current, also when LOST answers name no agent |
| `NodeTasks_live` | a node in use becomes ready, everything is cleaned up |

Bounds: two agent IDs on a host show replacement, a third on another host a sync
of several new agents. A node makes at most one task of a kind at a time; two
task objects are needed only while an old agent's task is still around. The runs
of `NodeTasks` start in one of several scenarios (which tasks the node may make,
which faults happen, whether settings or the agent change), chosen in `Init` and
kept; each combines two kinds of tasks, which is where they interact.

### Messages of a job (`JobMessages`)

| Run | Shows |
|---|---|
| `JobMessages_safe` | no execution without a cause; the status is that of the latest execution, node and error fit it, execution numbers are unique; no unfinished job is forgotten across restarts, and a RestartScheduler message can compare every start time; the whole implements `JobLifecycle`, so that a completed job stays completed |
| `JobMessages_live` | a job of a recipe, long running or not: whatever late blocked and pending messages do, a job whose parents have completed is queued, queued and running jobs end, obsolete executions are stopped |
| `JobMessages_repeat` (violation) | a cancel message that is delivered again undoes a requeue |

Bounds: two executions are enough for a message of the first one to meet the
second; two lives of the scheduler for a lost execution. Every message may be
delivered any number of times, and the process that executes it may stop at any time. From `MaxClock` on all events have the same time,
which the code must cope with as well. `MaxExes` is at least `MaxTries` plus
`MaxRequeues` in `JobMessages_live`, so that no retry is held up by the bound.
That run has no cancels: when a job that was never queued is canceled, a
`blocked` message that is still on its way makes it BLOCKED after the recipe's
last update, and it stays so. This is recorded among the hazards.

### Recipes (`MCRecipes`)

`Recipes` shows what reprocessing keeps, while batches and users reprocess a recipe
at the same time, jobs fail and are requeued, and messages are delivered again: one
recipe is the latest, with one job per node, which has the node's job type and is
not superseded; a recipe marked as completed is complete; children are queued after
their parents; and nothing is forgotten when everything is at rest.

Bounds: eight scenarios, each with two revisions of a recipe type of two or three
nodes (a changed job type, a node to be run again in any case, a join, new names,
names exchanged), and how often users reprocess, messages are repeated (with or
without a process that stops before it has sent everything) and jobs are requeued. Two reprocessings are enough to collide; a third would only extend the
chain. The system stops when there is nothing left to do, so deadlock is not checked;
`NoneForgotten` says in which states it may stop. The difference between two graphs
depends on the order of Python sets, and every order is considered.

### Scheduling (`MCScheduling`)

| Run | Shows |
|---|---|
| `Scheduling` | whatever is rescinded, lost or ends between the steps of a pass: a launch never needs more than its offers have; limits of job types hold though they are counted from an old list; offers do not stay with Scale for ever; and no work is passed over for ever by smaller work |
| `Scheduling_paused` (violation) | a system task is not scheduled, because a paused node has the best score, although a node that is ready has the resources |

Bounds: seven scenarios, each with up to two agents, two pieces of work and two offers,
and one question: an urgent job that needs a whole agent among small ones that keep
coming; rescinded offers and tasks of the node; a limit with failing transactions and
launches; an agent that is lost and replaced; gpus shared with other frameworks; a
node that is deprecated or paused between two tasks of a job; two nodes with a service. Work that is done may come back, so that starvation is possible.
Deadlock is not checked, since nothing happens when there is no work and no fault left.

`NoneStarves` needs that offers meet: a job that needs two offers of an agent is only
scheduled if both are there at once. The code holds an offer for 10 seconds
(`MAX_OFFER_HOLD_DURATION`) and a pass takes about one second, so the property is
claimed for the scenarios that are `prompt`, in which an agent's free resources are
offered while its other offers are still held. In the others any offer may be found
too old, and there `OffersGoBack` is claimed. Work of jobs has to get its turn only
while no task of a node or service waits, which the code prefers, and a queued job
only if it has the highest priority.

### What the code does not guarantee

These definitions state what one might expect. TLC finds a counterexample of each
in a few steps, so no run lists them; the hazards refer to them.

* `ReportedOnce`: an execution that ends while the sync thread holds its snapshot
  is reported by both.
* `CleanedWhenRemoved`: the first of the two syncs of an iteration drops
  executions that should be cleaned up.
* `OneTaskAtATime` with `RacyRequests`: a reconciliation request that overtakes
  the launch of the task it names is answered with LOST, and the task is started
  again under another ID while the first one runs.
* `CleanupHasLatestNodes`: the cleanup manager keeps the object of a node that
  was removed and came back.
* `CanceledStays`: a retry of a failed job overrides a cancel that was executed
  before it.
* `RequeuedHasEnded`: a requeue executed late hits a job that runs again.
* `OldJobsAreSuperseded`: an update of a recipe that is executed after the recipe
  has been superseded creates jobs that no one supersedes or cancels.
* `NoneForgotten` without its exception: the end of a job is committed after a new
  recipe has taken the job over and been updated, and only the old one is told. It
  also fails for a request whose new revision only drops nodes, since no one sends
  an update of the new recipe.
* `LatestIsLive`, `ParentsFirst` when a batch reprocesses a recipe whose nodes were
  renamed: `_handle_recipe_jobs` looks for jobs under the new names.
* `RequeuedIsQueued`: a job that was never queued stays PENDING when it is
  requeued.
* `OffersGoBack` without its exceptions: old offers of an agent that has no node are
  taken from the agent and never sent back.
* `accept_new_job_exe` gives all gpus of a node to one execution, "to avoid any
  contention for un-isolated GPU cores". It looks at the tasks that run, so between
  two tasks of such an execution another one may take the gpus.

## Fairness

Liveness assumes what the code's scheduling gives: each background thread runs
again and again (weak fairness of its steps; strong fairness where another step of
the same loop may disable one of them, as for the kill of a task or the scheduling
transaction after a database error), Mesos repeats an update until it is taken,
a message in the backend is executed and acknowledged in the end, and tasks end unless
their job type is long running. Fairness is per task, message and execution. Nothing is
assumed of users. In `NodeTasks` faults stop at some time. Some of this is said of
states, which is cheaper to check. In `JobMessages` a message does not wait for ever,
unless the bound on executions holds it up. In `NodeTasks` callbacks and passes come to
an end, tasks of Mesos end and are reported, and a task it does not know is not asked
for again and again without an answer. In `Scheduling` the thread goes on, callbacks
come to an end, Mesos offers what is free and reports what has ended, tasks of jobs and
nodes end, and an offer that is held gets old.

## What is proved

TLAPS checks all of it for any values of the constants.

* `JobExecutionProofs`: type correctness, and that a COMPLETED execution had all
  its tasks finished by Mesos. The invariant says that each task of a running
  execution is finished, current or still to come, and that an update on its way
  to the manager tells the truth about Mesos. Further, an execution that leaves the
  table has been reported, and twice only if its job was canceled (from what the sync
  thread may hold in its snapshot); a final status is never overwritten.
  Only tasks of executions that have ended are killed. A
  timeout marks the task before the execution is told, so the invariant says that
  the handling thread still holds the timeout of a marked task or its execution has
  ended. At most one task of an execution runs in Mesos, and none
  when the execution is cleaned up. These two assume `RacyRequests = FALSE`: no request
  overtakes the launch of the task it names. The invariant says that a task that runs
  in Mesos is the current one of its execution under its present ID, that every update
  is about an ID that was launched, and that the task manager knows present IDs only.
  An execution that waits for cleanup has left the table and has no current task.
* `NodeManagerProofs`: types; the tables of agents and nodes agree, and a node is online
  exactly when the last callback said so. The invariant adds what the sync thread's
  snapshot knows about hosts and models while callbacks change the tables. From it
  follows the action property `ForgottenWhenGone`: an agent is forgotten only when Mesos
  reported it lost or a new agent of its host takes its place.
* `NodeTasksProofs`: types; the cached state is current; no execution is forgotten; and
  no held task is over. For the third the invariant adds that the executions of a
  cleanup task that finished are known to be clean before the node is told. The last
  one assumes that no agent ID comes back (`AgentsDoNotReturn`, by a rank of IDs), as
  Mesos gives out new ones: else a task of the earlier life of an agent would be taken
  for a live one. Its invariant follows a task from its making to the second half of
  the callback that drops it, and says that an object in use is not used again. A held
  task that has ended is the one the present callback is about, and the update names its
  agent.
* `SchedulingProofs`: a job type never has more executions than its limit
  (`LimitsHold`). The code counts the executions before it has the offers and plans from
  that count, and callbacks end executions meanwhile. The invariant says that, until the
  pass plans, the count covers all active executions and respects the limits, and that
  the nodes of the pass hold no new execution yet. A plan is good if every active
  execution was counted or is new in it, and both together respect the limits. Each kind
  of step that adds to a plan keeps it good (`StepGood`), hence so does a pass through
  any sequence of work (`FoldGood`, by the first place at which it would not). What runs
  between the steps of a pass only makes executions fewer (`FewerKeeps`).
* `SchedulingFitProofs`: the tasks that are about to be launched on a node never need
  more than its offers have (`TasksFitTheirOffers`). `FitInv` says that what is allocated
  on a node, and after `_allocate_offers` the sum of its offers, is enough for the tasks
  and the executions planned there. It needs that work never needs less than its kind
  does, as an execution that is lost goes back to that (`NeedsLower`), and that an offer
  keeps its resources as long as the pass has it (`SettledKept`). While the queue is processed,
  `PlanFits` counts each new execution with the gpus it is given on top (`GreedyFacts`);
  afterwards these needs become those of the work. What `Total` is for any finite set,
  and that it grows with the set and with its members, is derived from a smallest set
  for which it would not be so (`SumExists`, `SumUnique`, `TotalUnion`). Here and for
  the limits, `ScenariosAssumption` is assumed: work and offers are finite, limits are
  numbers of executions, and no need or total is negative.
* `JobMessagesProofs`: types; every execution has a cause; the status is that of
  the latest execution; node and error fit the status; a completed job stays so;
  the handlers implement `JobLifecycle`. None of these is inductive by itself. The
  invariant `IInv` adds that every message (waiting, executed or unsent) is
  true: an execution it reports as failed did fail or was lost, a requeue has a
  failure or a user behind it. History only grows, so that this stays true however
  late a message is executed (`Grows`, `TruthStays`). It also adds that a job with
  no execution is waiting or canceled (`NeverQueued`). Further, execution numbers are
  unique, and an unfinished job is accounted for. The invariant adds that numbers on
  the queue, in the scheduling thread and in the database were given out by the job;
  that what runs, or is reported as ended by an unsent message, has a row started by
  this scheduler or an earlier one, so that the restart message of the next scheduler
  loses nothing; and that a superseded job which is queued or running has its cancel
  message waiting.
* `RecipesProofs`: what the operators of `RecipeGraph` and `Recipes` compute. Identical
  nodes of two definitions have the same job type and identical parents, and no node is
  taken twice (`MatchFacts`, `DeltaFacts`); where nodes keep their names the difference
  is the same in whatever order the code visits them (`OneDelta`, by the first node on
  which two orders differ); a recipe that is created or updated gets one new job for each
  node that has none, and queues those whose parents are completed (`NewJobsFacts`,
  `QueuedFacts`).
  Then: types; one recipe is the latest, and the others
  precede it in one chain; every node has one job of its type; a recipe marked completed
  is complete.
  The invariant `Base` says that each recipe supersedes the one before it in the table,
  that messages and requests in progress refer to what exists, and that the nodes of a
  recipe fit its definition. Most actions are quiet: they change rows of jobs and
  messages only (`NextCases`).
* `RecipesOrderProofs`: the latest recipe has no superseded job (`LatestIsLive`), and a
  job is queued only after the jobs of its parents have completed (`ParentsFirst`). A job
  may be part of several recipes, under several names. So the invariant `OrderInv` says
  that all of them agree on the jobs of its parents, and an action lets a recipe grow by
  nodes that respect this (`Grow`).
  Further, when everything is at rest the latest recipe has all its jobs, none
  that could run is waiting, and it is marked completed if they are (`NoneForgotten`,
  with the exception named there: a job taken over while its end is being committed).
  `RestInv` says that the latest recipe has a
  message on its way that will create what is missing, queue what is ready or find it
  completed, and that none of its jobs is canceled or about to be. A process that stops
  before it has sent such a message leaves its own one, which counts as well: the
  `ReprocessRecipes` message that created the recipe (`Told`) or the one that ended a
  job (`Reporting`).

The last three theorems have hypotheses on the recipe types:

* `BatchesKeepNames`: where batches reprocess recipes, identical nodes have the same
  name. Without it the first two are false (see above): the code looks for the jobs under
  the wrong names.
* `RequestsAddWork`, for `NoneForgotten`: a recipe type has nodes, and reprocessing a
  recipe at a user's request creates at least one job. Otherwise nobody looks whether
  the new recipe is completed, as noted above.

Assumptions are the named ASSUMEs on constants, which TLC evaluates in the runs;
`MCRecipes` also has TLC evaluate the two hypotheses on its scenarios.

Only model-checked: liveness, as TLAPS has no support for ENABLED and fairness.

## Plan

1. Recipes: conditions, sub-recipes, the diff and forced nodes that `CreateRecipes`
   will use.
2. JobExecutionEnd records, message batches, batches of recipes, the job clock.
3. Ingest, Strike and Scan, files and products, data and interfaces.
4. The execution manager composed with the nodes it hands executions to.

## Not modelled

The items of the plan. Of the scheduler: its settings and status, the database update
task, services with several tasks, the registration with Mesos, warnings of nodes.
For good: the user interface, REST views, JSON schemas and their conversions,
metrics and reports in SQL, calls of file systems, object stores, Docker, vault:
they have no protocol of their own, or their behaviour lies outside of `src/`.

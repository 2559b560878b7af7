---- MODULE NodeTasks ----
(***************************************************************************)
(* The life of one node (scheduler/node/node_class.py) and of the tasks    *)
(* Scale runs on it for itself: cleanup of job executions, health check,   *)
(* pull of the Scale image. The threads:                                   *)
(*                                                                         *)
(*   callback    statusUpdate, first in the task manager, then in the node *)
(*   scheduling  get_next_tasks, task manager, Mesos driver                *)
(*   handling    timeouts: list of the tasks that timed out, then the node *)
(*               is told of each; kills                                    *)
(*   sync        settings from the database, a new agent ID                *)
(*                                                                         *)
(* The node manager's tables are those of module NodeManager: an update or *)
(* a timeout reaches the node only if its agent ID is the node's           *)
(* (NodeManager!AgentsAndNodesAgree).                                      *)
(***************************************************************************)
EXTENDS Node

CONSTANTS
  JobExes,      \* job executions to be cleaned up on the node
  MaxPerCleanup,\* MAX_JOB_EXES_PER_CLEANUP
  Agents,       \* agent IDs the node has in turn, starting with
  FirstAgent,   \* this one,
  NextAgent,    \* each followed by another; the last one by itself
  MaxTasks,     \* bound: task objects of a kind that exist at a time
  Scenarios     \* what may happen in a behaviour, one of these records:
                \*   exes         job executions that are given to the node
                \*   schedulable  kinds of tasks the offers leave room for
                \*   exit_codes   errors a failed health check may report
                \*   settings     what a user may change: "active", "paused", "stopped"
                \*   faults       what may go wrong: a task is "lost", "failed" or has
                \*                a "timeout", the node goes "offline" or gets a "new agent",
                \*                Mesos reports a loss "unnamed", without an agent ID
                \*   max_tasks    the bound of this scenario, up to MaxTasks

ASSUME MaxPerCleanupAssumption == MaxPerCleanup \in Nat \ {0}
ASSUME FirstAgentAssumption == FirstAgent \in Agents
ASSUME NextAgentAssumption == NextAgent \in [Agents -> Agents]
ASSUME NodeAgentsAssumption == NoAgent \notin Agents
ASSUME MaxTasksAssumption == MaxTasks \in Nat \ {0}

NodeSettings == {"active", "paused", "stopped"}
Faults == {"lost", "failed", "timeout", "offline", "new agent", "unnamed"}
ASSUME ScenariosAssumption ==
  Scenarios \subseteq [exes : SUBSET JobExes, schedulable : SUBSET Kinds,
                      exit_codes : SUBSET HealthFailures, settings : SUBSET NodeSettings,
                      faults : SUBSET Faults, max_tasks : 1..MaxTasks]

TaskIds == Kinds \X (1..MaxTasks)
NodeTask == [agent : Agents, exes : SUBSET JobExes, launched : BOOLEAN,
             timedOut : BOOLEAN, needsKilled : BOOLEAN, ended : BOOLEAN, lost : {0}]
NewNodeTask(agent, exes) ==
  [agent |-> agent, exes |-> exes, launched |-> FALSE, timedOut |-> FALSE,
   needsKilled |-> FALSE, ended |-> FALSE, lost |-> 0]

Unused == NewNodeTask(FirstAgent, {})

\* agent is the one Mesos names, if any.
Updates == [id : TaskIds, agent : Agents \cup {NoAgent}, status : Statuses, code : HealthFailures]
NoUpdate == [id |-> NoTask, agent |-> NoAgent, status |-> "none", code |-> "none"]

VARIABLES
  node,       \* the node
  task,       \* the task objects
  taskMgr,    \* keys of task_mgr._tasks
  cb,         \* the update statusUpdate still has to give to the node
  sched,      \* where the scheduling thread is, and the tasks it holds
  timeouts,   \* timed out tasks the handling thread still has to report
  mesos,      \* Mesos: state of every task ID
  given,      \* job executions given to the node
  cleaned,    \* job executions that a cleanup task removed from the host
  faulty,     \* whether tasks may still fail and settings change
  scenario    \* what may happen, fixed from the start

vars == <<node, task, taskMgr, cb, sched, timeouts, mesos, given, cleaned, faulty, scenario>>
hostVars == <<mesos, given, cleaned, faulty, scenario>>

\* A fault that may happen now.
May(f) == faulty /\ f \in scenario.faults

IdleSched == [pc |-> "idle", tasks |-> {}]

Init ==
  /\ node = NewNode(FirstAgent, [is_active |-> TRUE, is_paused |-> FALSE], FALSE)
  /\ task = [i \in TaskIds |-> Unused]
  /\ taskMgr = {} /\ cb = NoUpdate /\ sched = IdleSched /\ timeouts = {}
  /\ mesos = [i \in TaskIds |-> "none"]
  /\ given = {} /\ cleaned = {} /\ faulty = TRUE /\ scenario \in Scenarios

\* Task objects that someone can still reach.
Held == {node.held[k] : k \in Kinds} \ {NoTask}
InUse == Held \cup taskMgr \cup sched.tasks \cup timeouts \cup {cb.id}
           \cup {i \in TaskIds : mesos[i] # "none"}
FreeIds(k) == {i \in TaskIds : i[1] = k /\ i[2] <= scenario.max_tasks} \ InUse
NewId(k) == CHOOSE i \in FreeIds(k) : TRUE

\* Objects that nobody can reach any more are gone.
Collected(T) == [i \in TaskIds |-> IF i \in InUse' THEN T[i] ELSE Unused]

-----------------------------------------------------------------------------
(* The scheduling thread.                                                  *)

\* A held task made for another agent ID is given up.
Stale(k) == node.held[k] # NoTask /\ task[node.held[k]].agent # node.agent_id

\* _create_next_tasks makes a task of these kinds. A cleanup task is made only
\* if there is something to clean up.
Creates(k, passed) ==
  /\ node.held[k] = NoTask \/ Stale(k)
  /\ IsReadyFor(node, k, passed)
  /\ k = "cleanup" => CleanupBatches(node, MaxPerCleanup) # {}

\* get_next_tasks, when the thresholds in passed are over: the tasks the
\* node is ready for and that are not launched, as far as there are offers.
get_next_tasks(passed) ==
  LET made == {k \in Kinds : Creates(k, passed)}
      held == [k \in Kinds |-> IF k \in made THEN NewId(k)
                               ELSE IF Stale(k) THEN NoTask ELSE node.held[k]]
      ready == {k \in scenario.schedulable :
                  /\ IsReadyFor(node, k, passed)
                  /\ held[k] # NoTask
                  /\ k \in made \/ ~task[held[k]].launched}
  IN  /\ sched.pc = "idle"
      /\ \A k \in made : FreeIds(k) # {}
      /\ node' = [node EXCEPT !.held = held]
      /\ sched' = [pc |-> "launch", tasks |-> {held[k] : k \in ready}]
      /\ UNCHANGED <<taskMgr, cb, timeouts, hostVars>>
      /\ \E batch \in IF "cleanup" \in made THEN CleanupBatches(node, MaxPerCleanup) ELSE {{}} :
           task' = Collected([i \in TaskIds |->
                     IF i[1] \in made /\ i = held[i[1]]
                     THEN NewNodeTask(node.agent_id, IF i[1] = "cleanup" THEN batch ELSE {})
                     ELSE task[i]])

\* task_mgr.launch_tasks.
launch_tasks ==
  LET new == sched.tasks \ taskMgr
  IN  /\ sched.pc = "launch"
      /\ task' = [i \in TaskIds |-> IF i \in new THEN launch(task[i]) ELSE task[i]]
      /\ taskMgr' = taskMgr \cup new
      /\ sched' = [sched EXCEPT !.pc = "driver"]
      /\ UNCHANGED <<node, cb, timeouts, hostVars>>

\* driver.launchTasks. A task for an agent ID that is gone, or with an offer
\* that was rescinded, stays unknown to Mesos.
driver_launchTasks ==
  /\ sched.pc = "driver"
  /\ \E lost \in SUBSET sched.tasks :
       /\ lost # {} => May("lost")
       /\ mesos' = [i \in TaskIds |-> IF i \in sched.tasks \ lost THEN "active" ELSE mesos[i]]
  /\ sched' = IdleSched
  /\ UNCHANGED <<node, taskMgr, cb, timeouts, given, cleaned, faulty, scenario>>
  /\ task' = Collected(task)

-----------------------------------------------------------------------------
(* The callback thread.                                                    *)

\* statusUpdate, first half: task_mgr.handle_task_update.
statusUpdate(u) ==
  /\ cb = NoUpdate
  /\ cb' = u
  /\ IF u.id \in taskMgr
     THEN /\ task' = [task EXCEPT ![u.id] = update(@, 0, u.status)]
          /\ taskMgr' = IF task'[u.id].ended \/ u.status = "LOST" THEN taskMgr \ {u.id} ELSE taskMgr
     ELSE UNCHANGED <<task, taskMgr>>
  /\ UNCHANGED <<node, sched, timeouts, given, cleaned, faulty, scenario>>

\* Mesos reports on a task until the end of it was reported.
MesosUpdate(id, code) ==
  /\ mesos[id] # "none"
  /\ code = "HEALTH_FAIL" \/ (code \in scenario.exit_codes /\ id[1] = "health" /\ mesos[id] = "FAILED")
  /\ statusUpdate([id |-> id, agent |-> task[id].agent, code |-> code,
                   status |-> IF mesos[id] = "active" THEN "RUNNING" ELSE mesos[id]])
  /\ mesos' = IF mesos[id] = "active" THEN mesos ELSE [mesos EXCEPT ![id] = "none"]

\* Mesos is asked about a task it does not know (reconciliation, kill). Reconciliation
\* does not say which agent the task was for, so the answer may name none.
LostUpdate(id) ==
  /\ id \in taskMgr /\ mesos[id] = "none"
  /\ id \in sched.tasks => May("lost")
  /\ \E agent \in {task[id].agent} \cup (IF "unnamed" \in scenario.faults THEN {NoAgent} ELSE {}) :
       statusUpdate([id |-> id, agent |-> agent, status |-> "LOST", code |-> "HEALTH_FAIL"])
  /\ UNCHANGED mesos

\* statusUpdate, second half: node_mgr.handle_task_update. An update that names no agent
\* does not reach the node, which then has a task it will launch again.
update_node ==
  /\ cb # NoUpdate
  /\ node' = IF cb.agent = node.agent_id
             THEN handle_task_update(node, task, cb.id, cb.status, cb.code) ELSE node
  /\ cb' = NoUpdate
  /\ UNCHANGED <<taskMgr, sched, timeouts, hostVars>>
  /\ task' = Collected(task)

-----------------------------------------------------------------------------
(* The handling thread.                                                    *)

\* task_mgr.get_timeout_tasks: those that time out now and those that did before.
get_timeout_tasks(S) ==
  /\ timeouts = {}
  /\ S \subseteq {i \in taskMgr : can_time_out(task[i])}
  /\ S # {} => May("timeout")
  /\ timeouts' = S \cup {i \in taskMgr : task[i].timedOut}
  /\ timeouts' # {}
  /\ task' = [i \in TaskIds |-> IF i \in S THEN check_timeout(task[i]) ELSE task[i]]
  /\ UNCHANGED <<node, taskMgr, cb, sched, hostVars>>

\* node_mgr.handle_task_timeout.
timeout_node(id) ==
  /\ id \in timeouts
  /\ timeouts' = timeouts \ {id}
  /\ node' = IF task[id].agent = node.agent_id THEN handle_task_timeout(node, task, id) ELSE node
  /\ UNCHANGED <<taskMgr, cb, sched, hostVars>>
  /\ task' = Collected(task)

-----------------------------------------------------------------------------
(* The rest of the scheduler, the cluster and the users.                   *)

\* cleanup_mgr.add_job_execution.
add_finished(e) ==
  /\ e \in scenario.exes \ given
  /\ given' = given \cup {e}
  /\ node' = add_job_execution(node, e)
  /\ UNCHANGED <<task, taskMgr, cb, sched, timeouts, mesos, cleaned, faulty, scenario>>

\* A running task ends; a finished cleanup removed what it was to remove. A
\* task the handling thread wants to kill is killed.
MesosTaskEnds(id, s) ==
  /\ mesos[id] = "active"
  /\ \/ s = "FINISHED"
     \/ s = "FAILED" /\ May("failed")
     \/ s = "LOST" /\ May("lost")
     \/ s = "KILLED" /\ id \in taskMgr /\ needs_killed(task[id])
  /\ mesos' = [mesos EXCEPT ![id] = s]
  /\ cleaned' = IF s = "FINISHED" THEN cleaned \cup task[id].exes ELSE cleaned
  /\ UNCHANGED <<node, task, taskMgr, cb, sched, timeouts, given, faulty, scenario>>

\* NodeManager: offers, slaveLost, and a new agent ID for the host.
mesos_changes ==
  /\ faulty
  /\ \/ /\ node.is_online => May("offline")
        /\ node' = update_from_mesos(node, NoAgent, ~node.is_online)
     \/ \E online \in BOOLEAN :
          /\ May("new agent") /\ (~online => May("offline"))
          /\ NextAgent[node.agent_id] # node.agent_id
          /\ node' = update_from_mesos(node, NextAgent[node.agent_id], online)
  /\ UNCHANGED <<task, taskMgr, cb, sched, timeouts, hostVars>>

\* NodeManager: sync_with_database brings in what users changed.
model_changes ==
  /\ faulty
  /\ \E active, p, stopped \in BOOLEAN :
       /\ "active" \notin scenario.settings => active
       /\ "paused" \notin scenario.settings => ~p
       /\ "stopped" \notin scenario.settings => ~stopped
       /\ node' = update_from_model(node, [is_active |-> active, is_paused |-> p], stopped)
  /\ UNCHANGED <<task, taskMgr, cb, sched, timeouts, hostVars>>

\* From here on tasks succeed and nobody changes anything.
Repair ==
  /\ faulty
  /\ faulty' = FALSE
  /\ UNCHANGED <<node, task, taskMgr, cb, sched, timeouts, mesos, given, cleaned, scenario>>

scheduling == (\E passed \in SUBSET Thresholds : get_next_tasks(passed))
                \/ launch_tasks \/ driver_launchTasks

Next ==
  \/ scheduling
  \/ \E id \in TaskIds, code \in HealthFailures : MesosUpdate(id, code)
  \/ \E id \in TaskIds : LostUpdate(id)
  \/ update_node
  \/ \E S \in SUBSET TaskIds : get_timeout_tasks(S)
  \/ \E id \in TaskIds : timeout_node(id)
  \/ \E e \in JobExes : add_finished(e)
  \/ \E id \in TaskIds, s \in Statuses : MesosTaskEnds(id, s)
  \/ mesos_changes \/ model_changes \/ Repair

Spec == Init /\ [][Next]_vars

\* Mesos is asked about these tasks and does not know them.
Unknown(id) == id \in taskMgr \ sched.tasks /\ mesos[id] = "none"

\* Threads run again and again, time passes, running tasks end, Mesos reports
\* what ended and answers for what it does not know (the reconciliation thread
\* asks until it has an answer), and faults stop.
Fairness ==
  /\ SF_vars(get_next_tasks(Thresholds))
  /\ []<>(sched.pc = "idle") /\ []<>(cb = NoUpdate) /\ []<>(timeouts = {})
  /\ \A id \in TaskIds : []<>(mesos[id] # "active") /\ []<>(mesos[id] \in {"none", "active"})
                         /\ []<>~Unknown(id)
  /\ <>~faulty

FairSpec == Spec /\ Fairness

-----------------------------------------------------------------------------
(* Properties.                                                             *)

NodeRecords == [agent_id : Agents, is_active : BOOLEAN, is_online : BOOLEAN,
                is_paused : BOOLEAN, is_scheduler_paused : BOOLEAN,
                is_initial_cleanup_completed : BOOLEAN, is_image_pulled : BOOLEAN,
                errors : SUBSET NodeErrors, is_health_check_normal : BOOLEAN,
                health_done : BOOLEAN, held : [Kinds -> TaskIds \cup {NoTask}],
                to_clean : SUBSET JobExes, state : NodeStates]

\* The types of the node, its tasks and the threads' snapshots.
TypeOK ==
  /\ node \in NodeRecords
  /\ task \in [TaskIds -> NodeTask]
  /\ taskMgr \subseteq TaskIds /\ timeouts \subseteq TaskIds
  /\ cb \in Updates \cup {NoUpdate}
  /\ sched \in [pc : {"idle", "launch", "driver"}, tasks : SUBSET TaskIds]
  /\ mesos \in [TaskIds -> {"none", "active", "LOST"} \cup TERMINAL_STATUSES]
  /\ given \subseteq JobExes /\ cleaned \subseteq JobExes
  /\ faulty \in BOOLEAN /\ scenario \in Scenarios

\* Every method that changes what the state depends on recomputes it: the cached
\* state is never stale when the scheduler asks whether the node is ready.
StateIsCurrent == node.state = StateOf(node)

\* A job execution given to the node waits there until a cleanup task that names
\* it has finished on the host, through resets, new agent IDs, lost and failed
\* cleanup tasks.
NotForgotten == given \ cleaned \subseteq node.to_clean

\* The node never waits for a task that is over: a held task that ended or was
\* lost has its update on the way, or belongs to another agent ID and is given up.
HeldTaskIsLive ==
  \A k \in Kinds :
    LET id == node.held[k]
    IN  id # NoTask /\ id # cb.id /\ ~Stale(k) =>
          ~task[id].ended /\ (task[id].launched <=> id \in taskMgr)

InUseForGood ==
  ~faulty /\ node.state \notin {"DEPRECATED", "OFFLINE", "SCHEDULER_STOPPED", "PAUSED"}

\* Once tasks succeed, a node that is in use becomes ready for new jobs and stays
\* so: whatever errors it had, get_next_tasks creates the tasks that clear them.
BecomesReady == <>[]InUseForGood => <>[](node.state = "READY")

\* Once tasks succeed, every job execution given to a node in use is cleaned up.
AllCleanedUp == \A e \in JobExes : InUseForGood /\ e \in given ~> e \in cleaned
====

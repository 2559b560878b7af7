---- MODULE Node ----
(***************************************************************************)
(* One node of the cluster as the scheduler sees it: the Node object of    *)
(* scheduler/node/node_class.py with its NodeConditions (conditions.py)    *)
(* and its NodeCleanup (scheduler/cleanup/node.py), as a record, and its   *)
(* methods as operators on that record. Each method runs under the node's  *)
(* lock, so each operator is atomic.                                       *)
(*                                                                         *)
(* The node tasks are objects shared with the task manager: the node holds *)
(* an identity ("held"), and the operators that read a task take the table *)
(* of task objects as a parameter. Warnings, ports, titles and log lines   *)
(* are left out. Times are abstracted: the set "passed" names the          *)
(* thresholds that have passed since the error or health check they are    *)
(* counted from.                                                           *)
(***************************************************************************)
EXTENDS Task, FiniteSets

NodeStates == {"DEPRECATED", "OFFLINE", "SCHEDULER_STOPPED", "PAUSED", "DEGRADED",
               "INITIAL_CLEANUP", "IMAGE_PULL", "READY"}

HEALTH_ERRORS == {"BAD_DAEMON", "BAD_LOGSTASH", "HEALTH_FAIL", "HEALTH_TIMEOUT",
                  "LOW_DOCKER_SPACE"}
NodeErrors == HEALTH_ERRORS \cup {"CLEANUP", "IMAGE_PULL"}

\* The errors an exit code of the health check stands for.
HealthFailures == HEALTH_ERRORS \ {"HEALTH_TIMEOUT"}

Kinds == {"cleanup", "health", "pull"}

\* CLEANUP_ERR_THRESHOLD, HEALTH_ERR_THRESHOLD, NORMAL_HEALTH_THRESHOLD and
\* IMAGE_PULL_ERR_THRESHOLD.
Thresholds == {"cleanup", "health", "normal", "pull"}

NoTask == <<>>   \* a task field that is None
NoAgent == ""    \* the agent ID of a node known only from the database

is_daemon_bad(n) == "BAD_DAEMON" \in n.errors
is_pull_bad(n) == n.errors \cap {"BAD_DAEMON", "LOW_DOCKER_SPACE"} # {}

-----------------------------------------------------------------------------
(* The state, which the code computes anew after a change and caches.      *)

StateOf(n) ==
  IF ~n.is_active THEN "DEPRECATED"
  ELSE IF ~n.is_online THEN "OFFLINE"
  ELSE IF n.is_scheduler_paused THEN "SCHEDULER_STOPPED"
  ELSE IF n.is_paused THEN "PAUSED"
  ELSE IF n.errors # {} THEN "DEGRADED"
  ELSE IF ~n.is_initial_cleanup_completed THEN "INITIAL_CLEANUP"
  ELSE IF ~n.is_image_pulled THEN "IMAGE_PULL"
  ELSE "READY"

_update_state(n) == [n EXCEPT !.state = StateOf(n)]

\* The constructor: online, nothing cleaned up or pulled yet.
NewNode(agent, model, schedulerPaused) ==
  _update_state(
    [agent_id |-> agent, is_active |-> model.is_active, is_online |-> TRUE,
     is_paused |-> model.is_paused, is_scheduler_paused |-> schedulerPaused,
     is_initial_cleanup_completed |-> FALSE, is_image_pulled |-> FALSE,
     errors |-> {}, is_health_check_normal |-> TRUE, health_done |-> FALSE,
     held |-> [k \in Kinds |-> NoTask], to_clean |-> {}, state |-> "READY"])

_reset_node(n) ==
  [n EXCEPT !.is_image_pulled = FALSE, !.is_initial_cleanup_completed = FALSE]

should_be_removed(n) == ~n.is_active /\ ~n.is_online

\* Mutant: without an agent ID the node loses the one it has.
update_from_mesos_no_agent(n, agent, online) ==
  LET m == [n EXCEPT !.agent_id = agent, !.is_online = online]
  IN  _update_state(IF online THEN m ELSE _reset_node(m))

\* agent is NoAgent where the caller gives none.
update_from_mesos(n, agent, online) ==
  LET m == [n EXCEPT !.agent_id = IF agent = NoAgent THEN @ ELSE agent,
                     !.is_online = online]
  IN  _update_state(IF online THEN m ELSE _reset_node(m))

\* Mutant: the cached state is not recomputed.
update_from_model_stale(n, model, schedulerPaused) ==
  [n EXCEPT !.is_active = model.is_active, !.is_paused = model.is_paused,
            !.is_scheduler_paused = schedulerPaused]

update_from_model(n, model, schedulerPaused) ==
  LET m == [n EXCEPT !.is_active = model.is_active, !.is_paused = model.is_paused,
                     !.is_scheduler_paused = schedulerPaused]
  IN  _update_state(IF model.is_active THEN m ELSE _reset_node(m))

-----------------------------------------------------------------------------
(* Which tasks the node is ready for.                                      *)

\* Mutant: no cleanup while the node is degraded.
_is_ready_for_cleanup_task_healthy(n, passed) ==
  n.state \in {"INITIAL_CLEANUP", "IMAGE_PULL", "READY"}

_is_ready_for_cleanup_task(n, passed) ==
  \/ n.state \in {"INITIAL_CLEANUP", "IMAGE_PULL", "READY"}
  \/ /\ n.state = "DEGRADED"
     /\ ~is_daemon_bad(n)
     /\ "CLEANUP" \in n.errors => "cleanup" \in passed

\* Mutant: no health check while the node is degraded.
_is_ready_for_health_task_healthy(n, passed) ==
  /\ n.state \notin {"DEPRECATED", "OFFLINE", "DEGRADED"}
  /\ IF n.is_health_check_normal THEN n.health_done => "normal" \in passed
                                 ELSE "health" \in passed

_is_ready_for_health_task(n, passed) ==
  /\ n.state \notin {"DEPRECATED", "OFFLINE"}
  /\ IF n.is_health_check_normal THEN n.health_done => "normal" \in passed
                                 ELSE "health" \in passed

_is_ready_for_pull_task(n, passed) ==
  \/ n.state = "IMAGE_PULL"
  \/ /\ n.state = "DEGRADED"
     /\ n.is_initial_cleanup_completed /\ ~n.is_image_pulled /\ ~is_pull_bad(n)
     /\ "IMAGE_PULL" \in n.errors => "pull" \in passed

IsReadyFor(n, k, passed) ==
  CASE k = "cleanup" -> _is_ready_for_cleanup_task(n, passed)
    [] k = "health"  -> _is_ready_for_health_task(n, passed)
    [] k = "pull"    -> _is_ready_for_pull_task(n, passed)

\* The job executions a new cleanup task may name: none for the initial
\* cleanup, otherwise as many as wait, up to the maximum per task.
CleanupBatches(n, max) ==
  IF ~n.is_initial_cleanup_completed THEN {{}}
  ELSE {S \in SUBSET n.to_clean : /\ S # {}
                                  /\ Cardinality(S) <= max
                                  /\ S = n.to_clean \/ Cardinality(S) = max}

-----------------------------------------------------------------------------
(* Events. T is the table of task objects, id the task the event is about; *)
(* an event about a task the node does not hold changes nothing.           *)

add_job_execution(n, e) == [n EXCEPT !.to_clean = @ \cup {e}]

Holds(n, id) == n.held[id[1]] = id

\* Mutant: the node goes on waiting for a task that is over.
Drop_never(n, id, gone) == n

Drop(n, id, gone) == [n EXCEPT !.held[id[1]] = IF gone THEN NoTask ELSE @]

_error_active(n, err) == [n EXCEPT !.errors = @ \cup {err}]
_error_inactive(n, err) == [n EXCEPT !.errors = @ \ {err}]

\* A health check that is over replaces all health errors by those it found.
HealthChecked(n, errs) ==
  [n EXCEPT !.health_done = TRUE, !.is_health_check_normal = errs = {},
            !.errors = (@ \ HEALTH_ERRORS) \cup errs]

TimedOut(n, k) ==
  CASE k = "cleanup" -> _error_active(n, "CLEANUP")
    [] k = "health"  -> HealthChecked(n, {"HEALTH_TIMEOUT"})
    [] k = "pull"    -> _error_active(n, "IMAGE_PULL")

handle_task_timeout(n, T, id) ==
  _update_state(IF Holds(n, id) THEN TimedOut(Drop(n, id, T[id].ended), id[1]) ELSE n)

\* Mutant: a finished cleanup forgets every job execution that waits.
_handle_cleanup_task_update_clears(n, exes, s) ==
  CASE s = "FINISHED" ->
         _error_inactive(IF exes = {} THEN [n EXCEPT !.is_initial_cleanup_completed = TRUE]
                                      ELSE [n EXCEPT !.to_clean = {}], "CLEANUP")
    [] s = "FAILED" -> _error_active(n, "CLEANUP")
    [] OTHER -> n

_handle_cleanup_task_update(n, exes, s) ==
  CASE s = "FINISHED" ->
         _error_inactive(IF exes = {} THEN [n EXCEPT !.is_initial_cleanup_completed = TRUE]
                                      ELSE [n EXCEPT !.to_clean = @ \ exes], "CLEANUP")
    [] s = "FAILED" -> _error_active(n, "CLEANUP")
    [] OTHER -> n

_handle_health_task_update(n, s, code) ==
  CASE s = "FINISHED" -> HealthChecked(n, {})
    [] s = "FAILED" -> HealthChecked(n, {code})
    [] OTHER -> n

_handle_pull_task_update(n, s) ==
  CASE s = "FINISHED" -> _error_inactive([n EXCEPT !.is_image_pulled = TRUE], "IMAGE_PULL")
    [] s = "FAILED" -> _error_active(n, "IMAGE_PULL")
    [] OTHER -> n

TaskUpdated(n, T, id, s, code) ==
  CASE id[1] = "cleanup" -> _handle_cleanup_task_update(n, T[id].exes, s)
    [] id[1] = "health"  -> _handle_health_task_update(n, s, code)
    [] id[1] = "pull"    -> _handle_pull_task_update(n, s)

handle_task_update(n, T, id, s, code) ==
  _update_state(IF Holds(n, id)
                THEN Drop(TaskUpdated(n, T, id, s, code), id, s = "LOST" \/ T[id].ended)
                ELSE n)
====

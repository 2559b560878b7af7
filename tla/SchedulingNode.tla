---- MODULE SchedulingNode ----
(***************************************************************************)
(* SchedulingNode (scheduler/scheduling/scheduling_node.py): what a        *)
(* scheduling pass knows of a node and has planned for it. need gives the  *)
(* resources of each task or execution.                                    *)
(***************************************************************************)
EXTENDS AgentResources

\* resource_set is what refresh_agent_resources returned for the agent. is_ready is for
\* new executions and system tasks alike.
NewSchedulingNode(agent, ready, ready_for_next, resource_set) ==
  [agent |-> agent, is_ready |-> ready, is_ready_for_next |-> ready_for_next, offered |-> resource_set.offered,
   remaining |-> resource_set.offered, task |-> resource_set.task,
   watermark |-> resource_set.watermark, allocated |-> NoResources,
   tasks |-> {}, queued |-> {}, running |-> {}, offers |-> {}]

Fits(s, r) == is_sufficient_to_meet(s.remaining, r)
Allocate(s, r) == [s EXCEPT !.allocated = add(@, r), !.remaining = subtract(@, r)]

\* accept_node_tasks, accept_system_task: a task of Scale's own is planned.
accept_task(s, need, w) == [Allocate(s, need[w]) EXCEPT !.tasks = @ \cup {w}]

accept_job_exe_next_task(s, need, w) == [Allocate(s, need[w]) EXCEPT !.running = @ \cup {w}]

\* An execution that needs gpus gets all that remain.
GreedyNeed(s, r) ==
  IF r["gpus"] > 0 THEN increase_up_to(r, [NoResources EXCEPT !["gpus"] = s.remaining["gpus"]]) ELSE r

\* accept_new_job_exe says yes. It does not if a task with gpus is running.
CanAccept(s, r) == s.is_ready /\ Fits(s, r) /\ (r["gpus"] > 0 => s.task["gpus"] = 0)

accept_new_job_exe(s, r, w) == [Allocate(s, GreedyNeed(s, r)) EXCEPT !.queued = @ \cup {w}]

add_scheduled_job_exes(s) == [s EXCEPT !.queued = {}, !.running = @ \cup s.queued]

reset_new_job_exes(s, need) ==
  LET back == Total(need, s.queued)
  IN  [s EXCEPT !.queued = {}, !.allocated = subtract(@, back), !.remaining = add(@, back)]

\* Mutant: it is taken for granted that the offers are enough.
add_allocated_offers_all(s, res, need, offers, ready) == [s EXCEPT !.offers = offers]

\* The offers are not as expected, when some were rescinded: executions are
\* dropped first, then all tasks. ready are the executions that still have a next task.
add_allocated_offers(s, res, need, offers, ready) ==
  LET Enough(n) == is_sufficient_to_meet(Total(res, offers), n.allocated)
      exes == Total(need, s.running \cap ready)
      first == IF Enough(s) THEN s
               ELSE [s EXCEPT !.running = {}, !.allocated = subtract(@, exes), !.remaining = add(@, exes)]
      second == IF Enough(first) THEN first
                ELSE [first EXCEPT !.tasks = {}, !.allocated = NoResources, !.remaining = s.offered]
  IN  [second EXCEPT !.offers = offers]

\* The number of job types that would still fit.
Score(available, job_types) == Cardinality({t \in job_types : is_sufficient_to_meet(available, t.need)})

_score_resources_for_scheduling(s, r, job_types) ==
  Score(subtract(subtract(subtract(s.watermark, s.task), s.allocated), r), job_types)
====

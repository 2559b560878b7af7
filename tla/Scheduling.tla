---- MODULE Scheduling ----
(***************************************************************************)
(* The scheduling thread (scheduler/scheduling/manager.py) and the         *)
(* resource manager (scheduler/resources/manager.py), which collects the   *)
(* offers of Mesos. A pass of the thread is cut where it gives up a lock:  *)
(*                                                                         *)
(*   refresh    the new offers have been taken out of the manager          *)
(*   schedule   they belong to their agents; now tasks are planned         *)
(*   allocate   offers are taken for the plan                              *)
(*   launch     tasks are started and offers go back to Mesos              *)
(*                                                                         *)
(* Between these steps the driver's callbacks and the sync thread run.     *)
(* Work is what wants to run: a job (queued, then an execution of several  *)
(* tasks one after the other), a task of a node, or a task of a service.   *)
(* A job that is done may be queued again, as a new one.                   *)
(***************************************************************************)
EXTENDS SchedulingNode, Sequences

CONSTANTS
  OfferIds,   \* bound: offers that exist at a time
  Scenarios   \* what there is and what may happen, one of these records:
              \*   work    kind, node, need, priority, number of tasks and job type
              \*           of each piece of work
              \*   agents  node and total resources of each agent
              \*   first   the agents that are there from the start
              \*   limits  max_scheduled of each job type that has one
              \*   others  amounts of resources other frameworks may use
              \*   prompt  Mesos offers what is free, and a pass sees it, before an offer
              \*           of the same agent has been held too long (10 seconds)
              \*   bounds  how often things may go wrong

\* There is a finite amount of work and of offers, a limit is a number of executions,
\* and nothing needs or has less than nothing.
ASSUME ScenariosAssumption ==
  /\ IsFiniteSet(OfferIds)
  /\ \A x \in Scenarios :
       /\ IsFiniteSet(DOMAIN x.work) /\ \A w \in DOMAIN x.work : x.work[w].need \in Amounts
       /\ \A a \in DOMAIN x.agents : x.agents[a].total \in Amounts
       /\ \A type \in DOMAIN x.limits : x.limits[type] \in Nat

VARIABLES
  scenario,    \* the scenario, which stays as it is
  work,        \* state of each piece of work
  task_mgr,    \* tasks that are launched and not known to have ended
  mesos,       \* Mesos: what it has to say about each task
  offer,       \* offers, as long as anyone has them
  new_offers,  \* resource_mgr._new_offers
  agents,      \* resource_mgr._agent_resources
  nodes,       \* the node manager's nodes: agent ID, whether online and active, whether the
               \* image is pulled, and whether paused (or the scheduler is) or degraded
  alive,       \* Mesos: agents, and whether Scale has heard of them
  others,      \* Mesos: resources used by other frameworks
  cb,          \* the callback that is in progress
  sync,        \* agents the sync thread asks Mesos about
  pass,        \* the scheduling pass
  dropped,     \* history: offers that were allocated and not sent back
  left         \* bound: faults to come

vars == <<scenario, work, task_mgr, mesos, offer, new_offers, agents, nodes, alive,
          others, cb, sync, pass, dropped, left>>
mesosVars == <<alive, others, left>>

Work == DOMAIN scenario.work
Kind(w) == scenario.work[w].kind
Jobs == {w \in Work : Kind(w) = "job"}
Nodes == {scenario.agents[a].node : a \in DOMAIN scenario.agents}
Need == [w \in Work |-> work[w].need]
Res == [o \in OfferIds |-> offer[o].res]
OfferOf(a) == {o \in OfferIds : offer[o].agent = a}

NoAgent == ""
NoOffer == [agent |-> NoAgent, res |-> NoResources, out |-> FALSE]
NoWork(w) == [st |-> "none", agent |-> NoAgent, node |-> scenario.work[w].node, need |-> scenario.work[w].need,
              left |-> 0, current |-> FALSE, over |-> FALSE, ran |-> FALSE]
NoCallback == [type |-> "none", id |-> "", step |-> 0]
IdlePass == [pc |-> "idle", old |-> {}, tasks |-> <<>>, exes |-> {}, new |-> {}, nodes |-> <<>>]

\* Offers that Scale has in its hands.
Held(new, ags, p) ==
  new \cup p.new \cup (UNION {ags[a].offers : a \in DOMAIN ags}) \cup (UNION {p.nodes[n].offers : n \in DOMAIN p.nodes})

\* Offers that are gone are forgotten when nobody has them any more.
Settled(f, held) == [o \in OfferIds |-> IF f[o].out \/ o \in held THEN f[o] ELSE NoOffer]

\* Mesos: what an agent has that is neither used nor offered.
Running(a) == {w \in Work : mesos[w] = "running" /\ work[w].agent = a}
FreeAt(a) == subtract(subtract(subtract(scenario.agents[a].total, others[a]), Total(Need, Running(a))),
                      Total(Res, {o \in OfferOf(a) : offer[o].out}))

Uses(fault) == left[fault] > 0 /\ left' = [left EXCEPT ![fault] = @ - 1]

Init ==
  /\ scenario \in Scenarios
  /\ work = [w \in Work |-> NoWork(w)]
  /\ task_mgr = {} /\ mesos = [w \in Work |-> "none"]
  /\ offer = [o \in OfferIds |-> NoOffer] /\ new_offers = {}
  /\ agents = <<>> /\ alive = [a \in DOMAIN scenario.agents |-> IF a \in scenario.first THEN "known" ELSE "gone"]
  /\ nodes = [n \in Nodes |-> [agent |-> CHOOSE a \in scenario.first : scenario.agents[a].node = n,
                               online |-> TRUE, is_active |-> TRUE, is_image_pulled |-> TRUE, paused |-> FALSE]]
  /\ others = [a \in DOMAIN scenario.agents |-> NoResources]
  /\ cb = NoCallback /\ sync = {} /\ pass = IdlePass /\ dropped = {} /\ left = scenario.bounds

-----------------------------------------------------------------------------
(* ResourceManager.                                                        *)

\* refresh_agent_resources, first lock. The pass has read the lists of tasks and of
\* executions.
take_new_offers ==
  /\ pass.pc = "idle"
  /\ pass' = [pass EXCEPT !.pc = "refresh", !.new = new_offers,
                          !.tasks = [w \in task_mgr |-> [agent |-> work[w].agent, need |-> work[w].need]],
                          !.exes = {w \in Jobs : work[w].st = "active"}]
  /\ new_offers' = {}
  /\ UNCHANGED <<scenario, work, task_mgr, mesos, offer, agents, nodes, cb, sync, dropped>>
  /\ UNCHANGED mesosVars

\* What a node is ready for. System tasks have the test of new executions.
is_ready_for_next_job_task(x) == x.online /\ x.is_active /\ x.is_image_pulled
is_ready_for_new_job(x) == is_ready_for_next_job_task(x) /\ ~x.paused

TaskResources(S, a) ==
  Total([w \in DOMAIN pass.tasks |-> pass.tasks[w].need], {w \in S : pass.tasks[w].agent = a})

\* Second lock. The results are copied before watermarks are reset; then
\* _prepare_nodes makes a scheduling node of each node.
refresh_agent_resources(reset) ==
  LET known == DOMAIN agents \cup {offer[o].agent : o \in pass.new}
      refreshed == [a \in known |->
        refresh_resources(IF a \in DOMAIN agents THEN agents[a] ELSE NewAgent, Res,
                          pass.new \cap OfferOf(a),
                          TaskResources(DOMAIN pass.tasks, a))]
      ResourceSet(a) == IF a \in known THEN refreshed[a] ELSE NewAgent
  IN  /\ pass.pc = "refresh"
      /\ IF reset THEN Uses("resets") ELSE UNCHANGED left
      /\ agents' = IF reset THEN [a \in known |-> reset_watermark(refreshed[a], Res)] ELSE refreshed
      /\ pass' = [pass EXCEPT !.pc = "schedule", !.new = {},
                    !.nodes = [n \in Nodes |-> NewSchedulingNode(nodes[n].agent, is_ready_for_new_job(nodes[n]),
                                                                 is_ready_for_next_job_task(nodes[n]),
                                                                 ResourceSet(nodes[n].agent))]]
      /\ UNCHANGED <<scenario, work, task_mgr, mesos, offer, new_offers, nodes, alive, others, cb, sync, dropped>>

\* sync_with_mesos: asks for the agents whose totals are not known, then sets
\* them. An agent that was removed meanwhile raises a KeyError, which ends the
\* loop wherever it is.
sync_with_mesos ==
  /\ sync = {} /\ Uses("syncs")
  /\ sync' = {a \in DOMAIN agents \cap DOMAIN alive : alive[a] # "gone" /\ agents[a].total = {}}
  /\ sync' # {}
  /\ UNCHANGED <<scenario, work, task_mgr, mesos, offer, new_offers, agents, nodes, alive, others, cb, pass, dropped>>

set_totals ==
  /\ sync # {}
  /\ sync' = {}
  /\ \E known \in SUBSET (sync \cap DOMAIN agents) :
       /\ sync \subseteq DOMAIN agents => known = sync
       /\ agents' = [a \in DOMAIN agents |-> IF a \in known THEN set_total(agents[a], scenario.agents[a].total)
                                             ELSE agents[a]]
  /\ UNCHANGED <<scenario, work, task_mgr, mesos, offer, new_offers, nodes, cb, pass, dropped>>
  /\ UNCHANGED mesosVars

-----------------------------------------------------------------------------
(* Planning. A plan has the scheduling nodes (sn), those whose waiting     *)
(* tasks all fit (fulfilled), those not reserved for an execution (avail), *)
(* the work, and whether all system tasks found a node. Where the code     *)
(* goes through a dict or a set, any order may come up.                    *)

Best(rate) == {n \in DOMAIN rate : \A m \in DOMAIN rate : rate[n] <= rate[m]}

\* get_job_type_resources: the needs of all job types.
JobTypes == {[type |-> scenario.work[w].type, need |-> scenario.work[w].need] : w \in Jobs}

PlanNeed(p) == [w \in Work |-> p.work[w].need]

\* accept_node_tasks. A task belongs to the agent the node has now.
NodeTaskStep(p, w) ==
  LET n == work[w].node
      made == [p EXCEPT !.work[w].agent = nodes[n].agent]
  IN  {IF Fits(p.sn[n], Need[w]) THEN [made EXCEPT !.sn[n] = accept_task(@, Need, w)]
       ELSE [made EXCEPT !.fulfilled = @ \ {n}]}

NextTaskStep(p, w) ==
  LET n == work[w].node
  IN  {IF Fits(p.sn[n], Need[w]) THEN [p EXCEPT !.sn[n] = accept_job_exe_next_task(@, Need, w)]
       ELSE [p EXCEPT !.fulfilled = @ \ {n}]}

\* _schedule_system_tasks, for a task of a service. The best node is looked for among
\* all fulfilled nodes; it may refuse.
SystemTaskStep(p, w) ==
  LET fit == {n \in p.fulfilled : Fits(p.sn[n], Need[w])}
      best == Best([n \in fit |-> _score_resources_for_scheduling(p.sn[n], Need[w], JobTypes)])
  IN  IF fit = {} THEN {[p EXCEPT !.sys = FALSE]}
      ELSE {IF p.sn[n].is_ready
            THEN [p EXCEPT !.sn[n] = accept_task(@, Need, w), !.work[w].agent = p.sn[n].agent, !.work[w].node = n]
            ELSE [p EXCEPT !.sys = FALSE] : n \in best}

\* Resources that are taken on a node by work that an execution of the given
\* priority does not outrank (score_job_exe_for_reservation).
TakenFrom(p, n, priority) ==
  LET own == TaskResources(DOMAIN pass.tasks \ Jobs, p.sn[n].agent)
      exes == {w \in pass.exes : /\ p.work[w].st = "active" /\ p.work[w].node = n
                                 /\ p.work[w].current \/ p.work[w].left > 0}
      higher == {w \in exes \cup p.sn[n].queued : scenario.work[w].priority <= priority}
  IN  add(own, Total(PlanNeed(p), higher))

\* Mutant: no node is kept free for an execution that does not fit yet.
Reserve_none(p, w) == {p}

\* The best node on which w would fit without executions of lower priority is
\* no longer available to those that follow.
Reserve(p, w) ==
  LET Left(n) == subtract(p.sn[n].watermark, TakenFrom(p, n, scenario.work[w].priority))
      fit == {n \in p.avail : is_sufficient_to_meet(Left(n), Need[w])}
      best == Best([n \in fit |-> Score(subtract(Left(n), Need[w]), JobTypes)])
  IN  IF fit = {} THEN {p} ELSE {[p EXCEPT !.avail = @ \ {n}] : n \in best}

Started(w, p, n) ==
  [st |-> "active", agent |-> p.sn[n].agent, node |-> n, need |-> GreedyNeed(p.sn[n], scenario.work[w].need),
   left |-> scenario.work[w].tasks, current |-> FALSE, over |-> FALSE, ran |-> FALSE]

\* _schedule_new_job_exe.
_schedule_new_job_exe(p, w) ==
  LET fit == {n \in p.avail : Fits(p.sn[n], Need[w])}
      best == Best([n \in fit |-> _score_resources_for_scheduling(p.sn[n], Need[w], JobTypes)])
  IN  IF fit = {} THEN Reserve(p, w)
      ELSE {IF CanAccept(p.sn[n], Need[w])
            THEN [p EXCEPT !.sn[n] = accept_new_job_exe(@, Need[w], w), !.work[w] = Started(w, p, n)]
            ELSE p : n \in best}

OfType(S, type) == Cardinality({w \in S : scenario.work[w].type = type})

\* Mutant: the executions of this pass are not counted.
LimitReached_before(p, w) ==
  LET type == scenario.work[w].type
  IN  type \in DOMAIN scenario.limits /\ OfType(pass.exes, type) >= scenario.limits[type]

\* _calculate_job_type_limits: those that were running, and the new ones of this pass.
LimitReached(p, w) ==
  LET type == scenario.work[w].type
      new == UNION {p.sn[n].queued : n \in Nodes}
  IN  /\ type \in DOMAIN scenario.limits
      /\ OfType(pass.exes, type) + OfType(new, type) >= scenario.limits[type]

QueueStep(p, w) == IF LimitReached(p, w) THEN {p} ELSE _schedule_new_job_exe(p, w)

\* What is done about a piece of work when its turn comes.
Step(p, w) ==
  CASE Kind(w) = "node" -> NodeTaskStep(p, w)
    [] Kind(w) = "system" -> SystemTaskStep(p, w)
    [] Kind(w) = "job" /\ work[w].st = "active" -> NextTaskStep(p, w)
    [] OTHER -> QueueStep(p, w)

\* The sequences in which the members of S may come up.
Orders(S) == Bijection(1..Cardinality(S), S)

\* The plans that p may become when each piece of work has had its turn, in one of these
\* sequences.
InOrder(sequences, p) ==
  UNION {LET plans[i \in 0..Len(s)] ==
               IF i = 0 THEN {p} ELSE UNION {Step(q, s[i]) : q \in plans[i - 1]}
         IN  plans[Len(s)] : s \in sequences}

IsNextTaskReady(w) == Kind(w) = "job" /\ work[w].st = "active" /\ ~work[w].current /\ work[w].left > 0

\* An execution whose node is not ready or has another agent by now.
LostExe(w) ==
  /\ Kind(w) = "job" /\ work[w].st = "active"
  /\ ~pass.nodes[work[w].node].is_ready_for_next \/ pass.nodes[work[w].node].agent # work[w].agent

\* execution_lost: it is over, and gone unless its current task is still about.
execution_lost(x, w) == IF x.current THEN [x EXCEPT !.over = TRUE, !.left = 0] ELSE NoWork(w)

\* A node gives out its tasks (get_next_tasks) in every state but OFFLINE and DEPRECATED.
GivesTasks(x) == x.online /\ x.is_active

\* _schedule_waiting_tasks: tasks of nodes, then next tasks of executions. Then those
\* executions are lost that have lost their node, or whose next task has waited
\* for too long since the last one ended (starved).
_schedule_waiting_tasks(starved) ==
  LET p == [sn |-> pass.nodes, fulfilled |-> {n \in Nodes : pass.nodes[n].is_ready_for_next}, avail |-> {},
            work |-> work, sys |-> TRUE]
      tasks == {w \in Work : Kind(w) = "node" /\ work[w].st = "waiting" /\ GivesTasks(nodes[work[w].node])}
      ready == {w \in Work : IsNextTaskReady(w) /\ ~LostExe(w)}
      lost == {w \in Work : LostExe(w)} \cup starved
      Finish(q) == [q EXCEPT !.work = [w \in Work |-> IF w \in lost THEN execution_lost(@[w], w) ELSE @[w]]]
  IN  {Finish(r) : r \in UNION {InOrder(Orders(ready), q) : q \in InOrder(Orders(tasks), p)}}

\* get_tasks_to_schedule makes tasks until the service has as many as it should.
Free(w) == work[w].st = "none" /\ w \notin task_mgr /\ mesos[w] = "none" /\ cb.id # w
get_tasks_to_schedule ==
  {w \in Work : Kind(w) = "system" /\ (Free(w) \/ work[w].st = "waiting")}

_schedule_system_tasks(p) ==
  LET tasks == get_tasks_to_schedule
      made == [p EXCEPT !.work = [w \in Work |-> IF w \in tasks THEN [NoWork(w) EXCEPT !.st = "waiting"] ELSE @[w]]]
  IN  InOrder(Orders(tasks), made)

\* get_queue: by priority.
get_queue ==
  {s \in Orders({w \in Jobs : work[w].st = "waiting"}) :
     \A i, j \in 1..Len(s) : i < j => scenario.work[s[i]].priority <= scenario.work[s[j]].priority}

_process_queue(p) ==
  InOrder(get_queue, [p EXCEPT !.avail = {n \in p.fulfilled : p.sn[n].is_ready}])

\* The transaction of the new executions has failed; nodes that were reserved are
\* not reset.
DatabaseErrorIn(p) ==
  [p EXCEPT !.sn = [n \in Nodes |-> IF n \in p.avail THEN reset_new_job_exes(@[n], PlanNeed(p))
                                    ELSE @[n]],
            !.work = [w \in Work |-> IF w \in UNION {p.sn[n].queued : n \in Nodes} THEN work[w] ELSE @[w]]]
ScheduledIn(p) == [p EXCEPT !.sn = [n \in Nodes |-> add_scheduled_job_exes(@[n])]]

\* perform_scheduling up to the test of the framework ID. No new job executions
\* if a system task is waiting.
Plan(p) ==
  /\ pass' = [pass EXCEPT !.pc = "allocate", !.nodes = p.sn]
  /\ work' = p.work

Plans(starved) == UNION {_schedule_system_tasks(q) : q \in _schedule_waiting_tasks(starved)}

perform_scheduling ==
  /\ pass.pc = "schedule"
  /\ \E starved \in SUBSET {w \in Work : IsNextTaskReady(w) /\ work[w].ran}, error \in {0, 1} :
       /\ Cardinality(starved) <= left.starved /\ error <= left.errors
       /\ left' = [left EXCEPT !.starved = @ - Cardinality(starved), !.errors = @ - error]
       /\ \E p \in Plans(starved) :
            IF ~p.sys THEN error = 0 /\ Plan(p)
            ELSE \E q \in _process_queue(p) : Plan(IF error = 1 THEN DatabaseErrorIn(q) ELSE ScheduledIn(q))
  /\ UNCHANGED <<scenario, task_mgr, mesos, offer, new_offers, agents, nodes, alive, others, cb, sync, dropped>>

\* The framework ID has changed: the pass is given up.
skip_task_launch ==
  /\ pass.pc = "allocate"
  /\ Uses("errors")
  /\ pass' = IdlePass
  /\ UNCHANGED <<scenario, work, task_mgr, mesos, offer, new_offers, agents, nodes, alive, others, cb, sync, dropped>>

\* _allocate_offers. Those of old have been held too long. Offers of an agent that has
\* no node are taken from the manager if they are old, and go nowhere.
_allocate_offers(old) ==
  LET NodesOf(a) == {n \in Nodes : pass.nodes[n].agent = a}
      Wanted(a) == IF NodesOf(a) = {} THEN NoResources
                   ELSE pass.nodes[CHOOSE n \in NodesOf(a) : TRUE].allocated
      ready == {w \in Jobs : work[w].st = "active" /\ work[w].left > 0}
  IN  /\ pass.pc = "allocate"
      /\ \A o \in old : /\ offer[o] # NoOffer
                        /\ scenario.prompt => FreeAt(offer[o].agent) = NoResources
                                              /\ OfferOf(offer[o].agent) \cap new_offers = {}
      /\ \E pick \in [DOMAIN agents -> SUBSET OfferIds] :
           /\ \A a \in DOMAIN agents : pick[a] \in allocate_offers(agents[a], Res, old, Wanted(a))
           /\ agents' = [a \in DOMAIN agents |-> Without(agents[a], Res, pick[a])]
           /\ pass' = [pass EXCEPT !.pc = "launch", !.old = old,
                         !.nodes = [n \in Nodes |->
                           LET a == pass.nodes[n].agent
                           IN  add_allocated_offers(@[n], Res, Need,
                                                    IF a \in DOMAIN agents THEN pick[a] ELSE {}, ready)]]
           /\ LET lost == UNION {pick[a] : a \in {b \in DOMAIN agents : NodesOf(b) = {}}}
              IN  /\ dropped' = dropped \cup {o \in lost : offer[o].out}
                  /\ offer' = Settled(offer, Held(new_offers, agents', pass'))
      /\ UNCHANGED <<scenario, work, task_mgr, mesos, new_offers, nodes, cb, sync>>
      /\ UNCHANGED mesosVars

\* start_job_exe_tasks: what node n runs from this pass.
ToStart(n) == {w \in pass.nodes[n].running : IsNextTaskReady(w)}
ToLaunch(n) == pass.nodes[n].tasks \cup ToStart(n)

\* _launch_tasks. Mesos takes the offers back. It answers with LOST if an offer is
\* gone, or for a task of another agent. If the call raises an exception (failed),
\* Mesos does not know the tasks, which it says when it is asked, and keeps the
\* offers open.
_launch_tasks(failed) ==
  LET all == UNION {ToLaunch(n) : n \in Nodes}
      used == UNION {pass.nodes[n].offers : n \in Nodes \ failed}
      kept == UNION {pass.nodes[n].offers : n \in failed}
      Valid(n, w) == /\ n \notin failed /\ pass.nodes[n].offers # {} /\ \A o \in pass.nodes[n].offers : offer[o].out
                     /\ work[w].agent = pass.nodes[n].agent
  IN  /\ pass.pc = "launch"
      /\ IF failed = {} THEN UNCHANGED left ELSE Uses("errors") /\ \A n \in failed : pass.nodes[n].offers # {}
      /\ work' = [w \in Work |-> IF w \notin all THEN work[w]
                                 ELSE [work[w] EXCEPT !.st = "active", !.current = TRUE,
                                                      !.left = IF Kind(w) = "job" THEN @ - 1 ELSE 0]]
      /\ task_mgr' = task_mgr \cup all
      /\ mesos' = [w \in Work |-> IF w \notin all THEN mesos[w]
                                  ELSE IF \E n \in Nodes : w \in ToLaunch(n) /\ Valid(n, w) THEN "running"
                                  ELSE "lost"]
      /\ pass' = IdlePass
      /\ offer' = Settled([o \in OfferIds |-> IF o \in used THEN NoOffer ELSE offer[o]],
                          Held(new_offers, agents, pass'))
      /\ dropped' = dropped \cup {o \in kept : offer[o].out}
      /\ UNCHANGED <<scenario, new_offers, agents, nodes, alive, others, cb, sync>>

-----------------------------------------------------------------------------
(* Callbacks, and Mesos behind them.                                       *)

CanOffer(a) ==
  /\ a \in DOMAIN alive /\ alive[a] # "gone" /\ FreeAt(a) \in Amounts \ {NoResources}
  /\ \E o \in OfferIds : offer[o] = NoOffer

\* resourceOffers: Mesos offers what is free on an agent. The node of a known agent
\* is online (register_agents).
resourceOffers(a) ==
  LET o == CHOOSE x \in OfferIds : offer[x] = NoOffer
      known == {n \in Nodes : nodes[n].agent = a}
  IN  /\ cb = NoCallback /\ CanOffer(a)
      /\ offer' = [offer EXCEPT ![o] = [agent |-> a, res |-> FreeAt(a), out |-> TRUE]]
      /\ new_offers' = new_offers \cup {o}
      /\ nodes' = [n \in Nodes |-> IF n \in known THEN [nodes[n] EXCEPT !.online = TRUE] ELSE nodes[n]]
      /\ alive' = [alive EXCEPT ![a] = "known"]
      /\ UNCHANGED <<scenario, work, task_mgr, mesos, agents, others, cb, sync, pass, dropped, left>>

\* Mesos rescinds an offer and the callback starts.
mesos_rescinds(o) ==
  /\ cb = NoCallback /\ offer[o].out
  /\ Uses("rescinds")
  /\ offer' = [offer EXCEPT ![o].out = FALSE]
  /\ cb' = [type |-> "rescind", id |-> o, step |-> 1]
  /\ dropped' = dropped \ {o}
  /\ UNCHANGED <<scenario, work, task_mgr, mesos, new_offers, agents, nodes, alive, others, sync, pass>>

offerRescinded ==
  /\ cb.type = "rescind"
  /\ \/ /\ cb.step = 1
        /\ new_offers' = new_offers \ {cb.id}
        /\ cb' = [cb EXCEPT !.step = 2]
        /\ UNCHANGED <<agents, offer>>
     \/ /\ cb.step = 2
        /\ agents' = [a \in DOMAIN agents |-> rescind_offers(agents[a], Res, cb.id)]
        /\ cb' = NoCallback
        /\ offer' = Settled(offer, Held(new_offers, agents', pass))
        /\ UNCHANGED new_offers
  /\ UNCHANGED <<scenario, work, task_mgr, mesos, nodes, sync, pass, dropped>>
  /\ UNCHANGED mesosVars

\* A task ends; its resources are free before Scale is told.
task_ends(w) ==
  /\ w \in Work /\ mesos[w] = "running"
  /\ mesos' = [mesos EXCEPT ![w] = "ended"]
  /\ UNCHANGED <<scenario, work, task_mgr, offer, new_offers, agents, nodes, cb, sync, pass, dropped>>
  /\ UNCHANGED mesosVars

\* statusUpdate: first the task manager, then the manager the task belongs to.
\* A lost task of an execution is run again; one that failed ends the execution.
\* A node makes another task for one that is lost.
told(w) ==
  /\ w \in Work /\ cb = NoCallback /\ mesos[w] \in {"ended", "lost"}
  /\ cb' = [type |-> mesos[w], id |-> w, step |-> 1]
  /\ mesos' = [mesos EXCEPT ![w] = "none"]
  /\ task_mgr' = task_mgr \ {w}
  /\ UNCHANGED <<scenario, work, offer, new_offers, agents, nodes, sync, pass, dropped>>
  /\ UNCHANGED mesosVars

statusUpdate ==
  \/ \E w \in Work : told(w)
  \/ /\ cb.type \in {"ended", "lost"}
     /\ \E failed \in BOOLEAN : LET x == work[cb.id]
        IN  work' = [work EXCEPT ![cb.id] =
              IF Kind(cb.id) = "node" /\ cb.type = "lost" THEN [NoWork(cb.id) EXCEPT !.st = "waiting"]
              ELSE IF Kind(cb.id) # "job" \/ x.over \/ (cb.type = "ended" /\ (failed \/ x.left = 0))
              THEN NoWork(cb.id)
              ELSE [x EXCEPT !.current = FALSE, !.ran = TRUE, !.left = IF cb.type = "lost" THEN @ + 1 ELSE @]]
     /\ cb' = NoCallback
     /\ UNCHANGED <<scenario, task_mgr, mesos, offer, new_offers, agents, nodes, sync, pass, dropped>>
     /\ UNCHANGED mesosVars

\* An agent is lost with its tasks and offers; the host comes back as another one.
mesos_loses_agent(a) ==
  /\ cb = NoCallback /\ alive[a] # "gone"
  /\ Uses("losses")
  /\ alive' = [alive EXCEPT ![a] = "gone"]
  /\ offer' = [o \in OfferIds |-> IF offer[o].agent = a THEN [offer[o] EXCEPT !.out = FALSE] ELSE offer[o]]
  /\ mesos' = [w \in Work |-> IF w \in Running(a) THEN "lost" ELSE mesos[w]]
  /\ dropped' = dropped \ OfferOf(a)
  /\ cb' = [type |-> "slaveLost", id |-> a, step |-> 1]
  /\ UNCHANGED <<scenario, work, task_mgr, new_offers, agents, nodes, others, sync, pass>>

\* slaveLost: node_mgr.lost_node, which also resets the node, resource_mgr.lost_agent
\* with its two locks, and job_exe_mgr.lost_node if the agent had a node at the start.
slaveLost ==
  /\ cb.type \in {"slaveLost", "nodeLost"}
  /\ cb' = IF cb.step = 4 \/ (cb.step = 3 /\ cb.type = "slaveLost") THEN NoCallback
           ELSE [cb EXCEPT !.step = @ + 1,
                           !.type = IF cb.step = 1 /\ \E n \in Nodes : nodes[n].agent = cb.id THEN "nodeLost" ELSE @]
  /\ nodes' = IF cb.step # 1 THEN nodes
              ELSE [n \in Nodes |-> IF nodes[n].agent = cb.id
                                    THEN [nodes[n] EXCEPT !.online = FALSE, !.is_image_pulled = FALSE]
                                    ELSE nodes[n]]
  /\ new_offers' = IF cb.step # 2 THEN new_offers ELSE new_offers \ OfferOf(cb.id)
  /\ agents' = IF cb.step # 3 THEN agents ELSE [a \in DOMAIN agents \ {cb.id} |-> agents[a]]
  /\ work' = IF cb.step # 4 THEN work
             ELSE [w \in Work |->
                     IF Kind(w) = "job" /\ work[w].st = "active" /\ work[w].node = scenario.agents[cb.id].node
                     THEN execution_lost(work[w], w) ELSE work[w]]
  /\ offer' = Settled(offer, Held(new_offers', agents', pass))
  /\ UNCHANGED <<scenario, task_mgr, mesos, sync, pass, dropped>>
  /\ UNCHANGED mesosVars

\* Another agent starts on a host.
mesos_adds_agent(a) ==
  /\ alive[a] = "gone" /\ nodes[scenario.agents[a].node].agent # a
  /\ \A b \in DOMAIN alive : scenario.agents[b].node = scenario.agents[a].node => alive[b] = "gone"
  /\ alive' = [alive EXCEPT ![a] = "up"]
  /\ UNCHANGED <<scenario, work, task_mgr, mesos, offer, new_offers, agents, nodes, others, cb, sync, pass,
                 dropped, left>>

\* sync_with_database (NodeManager): an agent that has sent offers is made the agent
\* of its node.
register_node(a) ==
  /\ alive[a] = "known" /\ nodes[scenario.agents[a].node].agent # a
  /\ nodes' = [nodes EXCEPT ![scenario.agents[a].node].agent = a, ![scenario.agents[a].node].online = TRUE]
  /\ UNCHANGED <<scenario, work, task_mgr, mesos, offer, new_offers, agents, cb, sync, pass, dropped>>
  /\ UNCHANGED mesosVars

\* update_from_model: a user pauses or deprecates a node, or takes that back. A node
\* that is deprecated is reset. The conditions of a node do to its readiness what a pause does.
update_from_model(n) ==
  /\ Uses("models")
  /\ \E active, paused \in BOOLEAN :
       nodes' = [nodes EXCEPT ![n].is_active = active, ![n].paused = paused,
                              ![n].is_image_pulled = @ /\ active]
  /\ UNCHANGED <<scenario, work, task_mgr, mesos, offer, new_offers, agents, alive, others, cb, sync, pass, dropped>>

\* The pull task of a node has succeeded. One that succeeds while the node is offline
\* counts when it is back.
_image_pull_completed(n) ==
  /\ GivesTasks(nodes[n]) /\ ~nodes[n].is_image_pulled
  /\ nodes' = [nodes EXCEPT ![n].is_image_pulled = TRUE]
  /\ UNCHANGED <<scenario, work, task_mgr, mesos, offer, new_offers, agents, cb, sync, pass, dropped>>
  /\ UNCHANGED mesosVars

\* Other frameworks take or give back resources of an agent.
others_use(a, r) ==
  /\ Uses("others")
  /\ is_sufficient_to_meet(add(FreeAt(a), others[a]), r) /\ r # others[a]
  /\ others' = [others EXCEPT ![a] = r]
  /\ UNCHANGED <<scenario, work, task_mgr, mesos, offer, new_offers, agents, nodes, alive, cb, sync, pass, dropped>>

Arises(w) ==
  /\ Free(w)
  /\ work' = [work EXCEPT ![w].st = "waiting"]
  /\ UNCHANGED <<scenario, task_mgr, mesos, offer, new_offers, agents, nodes, cb, sync, pass, dropped>>
  /\ UNCHANGED mesosVars

\* A job is queued, at any time.
queue_jobs(w) == Kind(w) = "job" /\ Arises(w)

\* A node finds that it is time for one of its tasks; a pass has just come to ask for them.
_create_next_tasks(w) ==
  Kind(w) = "node" /\ pass.pc = "schedule" /\ GivesTasks(nodes[work[w].node]) /\ Arises(w)

-----------------------------------------------------------------------------

SchedulingStep ==
  take_new_offers \/ (\E reset \in BOOLEAN : refresh_agent_resources(reset)) \/ perform_scheduling
    \/ (\E old \in SUBSET OfferIds : _allocate_offers(old)) \/ \E failed \in SUBSET Nodes : _launch_tasks(failed)

Callback == offerRescinded \/ statusUpdate \/ slaveLost

Next ==
  \/ SchedulingStep \/ skip_task_launch \/ Callback
  \/ sync_with_mesos \/ set_totals
  \/ \E a \in DOMAIN scenario.agents :
       \/ resourceOffers(a) \/ mesos_loses_agent(a) \/ mesos_adds_agent(a) \/ register_node(a)
       \/ \E r \in scenario.others : others_use(a, r)
  \/ \E n \in Nodes : update_from_model(n) \/ _image_pull_completed(n)
  \/ \E o \in OfferIds : mesos_rescinds(o)
  \/ \E w \in Work : task_ends(w) \/ queue_jobs(w) \/ _create_next_tasks(w)

\* Fairness, said of states where that is enough: the scheduling thread goes on; every
\* callback comes to an end, and they come from a queue, so that Mesos can always
\* offer what is free and report what has ended; tasks of jobs and nodes end; an
\* offer that is held is found to be too old.
Fairness ==
  /\ []<><<TRUE>>_pass
  /\ []<>(cb = NoCallback)
  /\ \A a \in UNION {DOMAIN x.agents : x \in Scenarios} : []<>(~CanOffer(a))
  /\ \A w \in UNION {DOMAIN x.work : x \in Scenarios} :
       /\ []<>(w \in Work /\ Kind(w) # "system" => mesos[w] # "running")
       /\ []<>(w \in Work => mesos[w] \notin {"ended", "lost"})
  /\ \A o \in OfferIds : []<>(scenario.prompt \/ offer[o] = NoOffer \/ o \in pass.old)

Spec == Init /\ [][Next]_vars /\ Fairness

-----------------------------------------------------------------------------
(* Properties.                                                             *)

\* The tasks that are about to be launched on a node do not need more than its
\* offers have, whatever has been rescinded or lost, has ended or failed since
\* they were planned (add_allocated_offers).
TasksFitTheirOffers ==
  pass.pc = "launch" =>
    \A n \in Nodes : is_sufficient_to_meet(Total(Res, pass.nodes[n].offers), Total(Need, ToLaunch(n)))

\* A job type never has more executions than its max_scheduled, though limits are
\* counted from a list that is out of date when it is used.
LimitsHold ==
  \A type \in DOMAIN scenario.limits :
    OfType({w \in Jobs : work[w].st = "active"}, type) <= scenario.limits[type]

\* Every offer is used or goes back to Mesos sooner or later, or is rescinded. The
\* exceptions: its agent has no node, or the call to the driver has failed.
OffersGoBack ==
  \A o \in OfferIds : ~scenario.prompt /\ offer[o].out ~> (~offer[o].out \/ o \in dropped)

Waits(w) ==
  LET own == {v \in Work : Kind(v) # "job" /\ work[v].st = "waiting"}
      first == work[w].st = "waiting" /\ \A v \in Jobs \ {w} : scenario.work[w].priority < scenario.work[v].priority
  IN  w \in Work /\ (w \in own \/ (Kind(w) = "job" /\ own = {} /\ (IsNextTaskReady(w) \/ first)))

\* Work is not passed over for ever by smaller work that keeps coming. Tasks of nodes
\* and of services always get their turn; next tasks of executions, and the queued
\* job of the highest priority, only have to wait for those. For this, nodes with
\* waiting tasks take no new executions, none start while a system task waits, and
\* a node is reserved for a job that does not fit.
NoneStarves ==
  \A w \in UNION {DOMAIN x.work : x \in Scenarios} : scenario.prompt /\ Waits(w) ~> ~Waits(w)

\* "Schedules all system tasks for which there are sufficient resources": a system
\* task that is left waiting by a pass does not fit on a node that is ready for it.
SystemTasksScheduled ==
  pass.pc = "allocate" =>
    \A w \in Work : Kind(w) = "system" /\ work[w].st = "waiting" =>
      \/ \E n \in Nodes : w \in pass.nodes[n].tasks
      \/ \A n \in Nodes : pass.nodes[n].is_ready => ~Fits(pass.nodes[n], Need[w])
====

---- MODULE Recipes ----
(***************************************************************************)
(* A recipe, the jobs of its nodes, and the recipes that supersede it when *)
(* it is reprocessed: by ReprocessRecipes messages of batches              *)
(* (recipe/messages/reprocess_recipes.py) or by a user's request           *)
(* (RecipeManager.reprocess_recipe). UpdateRecipes messages create missing *)
(* jobs, hand outputs of parents to their children, and queue, block and   *)
(* unblock jobs. Any message may be executed again (it stays in msgs) and  *)
(* in any order. A reprocessing reads recipes before it locks them, so it  *)
(* has two steps.                                                          *)
(*                                                                         *)
(* A scenario gives the graphs of the two revisions of the recipe type,    *)
(* the names of jobs that are to be reprocessed in any case, the events of *)
(* the batches, whether jobs can fail, and bounds on what may happen.      *)
(***************************************************************************)
EXTENDS Job, RecipeGraph, Sequences

CONSTANTS
  Scenarios,    \* scenarios to consider
  MaxClock,     \* bound: ticks of the clock
  MaxRecipes    \* bound: recipes

ASSUME RecipeBoundsAssumption == MaxClock \in Nat /\ MaxRecipes \in Nat

\* Each input of a node that is the output of another makes that one a parent
\* (add_dependency).
InputsFromParents(g) ==
  \A n \in Names(g) : \A i \in DOMAIN g.nodes[n].inputs :
    g.nodes[n].inputs[i].kind = "node" => g.nodes[n].inputs[i].from \in Parents(g, n)

\* A recipe definition has finitely many nodes whose parents are nodes of it; 0
\* stands for no event.
ASSUME ScenariosAssumption ==
  \A c \in Scenarios :
    /\ DOMAIN c.revs = 1..2
    /\ \A rev \in 1..2 : /\ IsFiniteSet(Names(c.revs[rev]))
                         /\ \A n \in Names(c.revs[rev]) : Parents(c.revs[rev], n) \subseteq Names(c.revs[rev])
                         /\ InputsFromParents(c.revs[rev])
    /\ c.events \subseteq Nat \ {0}
    /\ c.bounds \in [{"requests", "repeats", "requeues"} -> Nat]

VARIABLES
  scenario,   \* the scenario, which stays as it is
  recipes,    \* the rows of the recipe table, with their RecipeNode rows
  jobs,       \* the rows of the job table
  job_types,  \* the job type of each of them
  msgs,       \* messages to be executed
  started,    \* reprocessings that have read a recipe and not locked it yet
  ending,     \* jobs whose end is not committed, with the recipes looked up
  overtaken,  \* history: jobs that a new recipe took over before that commit
  left,       \* bound: requests of users, repeated messages and requeues to come
  clock       \* the last timestamp given out

vars == <<scenario, recipes, jobs, job_types, msgs, started, ending, overtaken, left, clock>>

Graph(rev) == scenario.revs[rev]
RecipeIds == DOMAIN recipes
JobIds == DOMAIN jobs

\* The current revision of the recipe type, and the one batches ask for.
CurrentRev == 2

\* What reprocessing a recipe of revision rev may find changed, in scenario c.
DeltaIn(c, rev) == RecipeGraphDelta(c.revs[rev], c.revs[CurrentRev], c.names)
Delta(rev) == DeltaIn(scenario, rev)

MessageTypes == {"update_recipes", "process_recipe_input", "reprocess_recipes",
                 "process_job_input", "blocked_jobs", "pending_jobs", "cancel_jobs", "from_jobs"}
\* id is that of a recipe, a job or an event. from_jobs is the rest of CancelJobs, or
\* CompletedJobs executed again.
Msg(t, id, when) == [type |-> t, id |-> id, when |-> when]
Msgs(t, ids, when) == {Msg(t, i, when) : i \in ids}

now == IF clock < MaxClock THEN clock + 1 ELSE clock

\* The nodes of recipe r are pairs of a name and a job.
NodeNames(nodes) == {x[1] : x \in nodes}
JobsOf(nodes) == {x[2] : x \in nodes}
JobAt(nodes, n) == CHOOSE j \in JobsOf(nodes) : <<n, j>> \in nodes
Latest == {r \in RecipeIds : ~recipes[r].is_superseded}

get_latest_recipe_ids_for_jobs(j) == {r \in Latest : j \in JobsOf(recipes[r].nodes)}

create_recipe(rev, event, superseded, nodes) ==
  [rev |-> rev, event |-> event, superseded_recipe |-> superseded,
   is_superseded |-> FALSE, is_completed |-> FALSE, nodes |-> nodes]

\* New jobs for the nodes names of graph g, and their job types, when there are
\* n jobs.
NewJobs(g, names, n) ==
  LET s == CHOOSE order \in Orders(names) : TRUE
  IN  [rows  |-> [i \in DOMAIN s |-> create_job(TRUE, FALSE)],
       types |-> [i \in DOMAIN s |-> g.nodes[s[i]].type],
       nodes |-> {<<s[i], n + i>> : i \in DOMAIN s}]

\* Mutant: the column is not unique.
HasSuccessor_none(r) == FALSE

\* superseded_recipe is unique in the table: a second successor is an error and
\* its transaction fails.
HasSuccessor(r) == \E s \in RecipeIds : recipes[s].superseded_recipe = r

-----------------------------------------------------------------------------
(* RecipeHandler, for a graph, nodes and rows of the job table.            *)

BLOCKING_STATUSES == {"BLOCKED", "FAILED", "CANCELED"}

\* The nodes to which get_blocked_jobs and get_pending_jobs give the status
\* BLOCKED in topological order: waiting jobs after one that failed or was
\* canceled, and the waiting jobs that follow them.
StatusAt(nodes, rows, n) == rows[JobAt(nodes, n)].status
Waiting(g, nodes, rows) == {n \in Names(g) : StatusAt(nodes, rows, n) \in {"PENDING", "BLOCKED"}}
Blocked(g, nodes, rows) ==
  LET waiting == Waiting(g, nodes, rows)
  IN  AndFollowing(g, {n \in waiting : \E p \in Parents(g, n) \ waiting :
                                         StatusAt(nodes, rows, p) \in BLOCKING_STATUSES}, waiting)

get_blocked_jobs(g, nodes, rows) ==
  {JobAt(nodes, n) : n \in {m \in Blocked(g, nodes, rows) : StatusAt(nodes, rows, m) = "PENDING"}}
get_pending_jobs(g, nodes, rows) ==
  {JobAt(nodes, n) : n \in {m \in Names(g) \ Blocked(g, nodes, rows) : StatusAt(nodes, rows, m) = "BLOCKED"}}

\* A parent is ready for its children when it is completed and has output. The post task
\* stores the output before the job can be COMPLETED, and jobs get both in one
\* transaction, so the status tells.
ParentsCompleted(g, nodes, rows, n) ==
  \A p \in Parents(g, n) : rows[JobAt(nodes, p)].status = "COMPLETED"

\* Mutant: one completed parent is enough.
get_jobs_ready_for_input_any(g, nodes, rows) ==
  {JobAt(nodes, n) : n \in {m \in Names(g) :
     /\ ~rows[JobAt(nodes, m)].has_input
     /\ \/ Parents(g, m) = {}
        \/ \E p \in Parents(g, m) : rows[JobAt(nodes, p)].status = "COMPLETED"}}

get_jobs_ready_for_input(g, nodes, rows) ==
  {JobAt(nodes, n) : n \in {m \in Names(g) : ~rows[JobAt(nodes, m)].has_input
                                             /\ ParentsCompleted(g, nodes, rows, m)}}

get_jobs_ready_for_first_queue(g, nodes, rows) ==
  {j \in {JobAt(nodes, n) : n \in Names(g)} : can_be_queued(rows[j])}

\* Used when a recipe is created by a request: only PENDING jobs.
get_existing_jobs_to_queue(g, nodes, rows) ==
  {JobAt(nodes, n) : n \in {m \in Names(g) : rows[JobAt(nodes, m)].status = "PENDING"
                                             /\ ParentsCompleted(g, nodes, rows, m)}}

get_jobs_to_create(g, nodes) == Names(g) \ NodeNames(nodes)

\* Mutant: a recipe is complete when none of its jobs is waiting or active.
is_completed_any(nodes, rows) == \A j \in JobsOf(nodes) : rows[j].status \in FinalStatuses

is_completed(nodes, rows) == \A j \in JobsOf(nodes) : rows[j].status = "COMPLETED"

\* The rows of js changed by Op.
Apply(rows, js, Op(_)) == [j \in DOMAIN rows |-> IF j \in js THEN Op(rows[j]) ELSE rows[j]]

\* queue_new_recipe, after the jobs exist: blocks jobs, then gives its input to
\* each job that is ready and puts it on the queue.
Queued(g, nodes, rows) ==
  LET blocked == Apply(rows, get_blocked_jobs(g, nodes, rows),
                       LAMBDA j : [j EXCEPT !.status = "BLOCKED", !.last_status_change = now])
      ready == get_existing_jobs_to_queue(g, nodes, blocked)
      given == Apply(blocked, ready, process_job_input)
  IN  Apply(given, {j \in ready : can_be_queued(given[j])}, update_jobs_to_queued)

-----------------------------------------------------------------------------
(* Initially a recipe of the first revision has been created on request    *)
(* (queue_new_recipe), and the batches have sent their messages.           *)

Init ==
  /\ scenario \in Scenarios
  /\ clock = 0 /\ started = {} /\ ending = {} /\ overtaken = {}
  /\ left = scenario.bounds
  /\ LET g == Graph(1)
         new == NewJobs(g, Names(g), 0)
     IN  /\ recipes = <<create_recipe(1, 0, 0, new.nodes)>>
         /\ jobs = Queued(g, new.nodes, new.rows)
         /\ job_types = new.types
  /\ msgs = Msgs("reprocess_recipes", scenario.events, 0)

\* One of the bounded events happens.
Uses(event) == left[event] > 0 /\ left' = [left EXCEPT ![event] = @ - 1]

\* Message m has been executed and sends new, one after the other, when its
\* transaction has been committed. If its process stops before it acknowledges m, some
\* are sent and m will be executed again.
Executed(m, new, ack) ==
  IF ack THEN msgs' = (msgs \ {m}) \cup new /\ UNCHANGED left
  ELSE Uses("repeats") /\ \E sent \in SUBSET new : msgs' = msgs \cup sent

-----------------------------------------------------------------------------
(* Messages.                                                               *)

\* UpdateRecipes.execute, one transaction under the lock of the recipe.
UpdateRecipes(m, ack) ==
  LET r == m.id
      g == Graph(recipes[r].rev)
      new == NewJobs(g, get_jobs_to_create(g, recipes[r].nodes), Len(jobs))
      nodes == recipes[r].nodes \cup new.nodes
      rows == jobs \o new.rows
      given == Apply(rows, get_jobs_ready_for_input(g, nodes, rows), process_job_input)
      blocked == get_blocked_jobs(g, nodes, rows)
      pending == get_pending_jobs(g, nodes, rows)
  IN  /\ jobs' = given
      /\ job_types' = job_types \o new.types
      /\ recipes' = [recipes EXCEPT ![r].nodes = nodes,
                                    ![r].is_completed = @ \/ is_completed(nodes, rows)]
      /\ clock' = IF blocked \cup pending = {} THEN clock ELSE now
      /\ Executed(m, Msgs("blocked_jobs", blocked, now) \cup Msgs("pending_jobs", pending, now)
                     \cup Msgs("process_job_input", get_jobs_ready_for_first_queue(g, nodes, given), 0),
                  ack)
      /\ UNCHANGED <<scenario, started, ending, overtaken>>

\* ProcessRecipeInput.execute: the recipe has the input of the one before it.
ProcessRecipeInput(m, ack) ==
  /\ Executed(m, {Msg("update_recipes", m.id, 0)}, ack)
  /\ UNCHANGED <<scenario, recipes, jobs, job_types, started, ending, overtaken, clock>>

\* A message changes the row of its job.
Changes(m, row, new, ack) ==
  /\ jobs' = [jobs EXCEPT ![m.id] = row]
  /\ Executed(m, new, ack)
  /\ UNCHANGED <<scenario, recipes, job_types, started, ending, overtaken, clock>>

\* ProcessJobInput.execute and the QueuedJobs message it sends (see JobMessages
\* for what may come between).
ProcessJobInput(m, ack) ==
  LET j == jobs[m.id]
  IN  Changes(m, IF can_be_queued(j) THEN update_jobs_to_queued(j) ELSE j, {}, ack)

IsNewer(m) == jobs[m.id].last_status_change < m.when

BlockedJobs(m, ack) ==
  Changes(m, IF IsNewer(m) THEN update_jobs_to_blocked(jobs[m.id], m.when) ELSE jobs[m.id], {}, ack)

PendingJobs(m, ack) ==
  Changes(m, IF IsNewer(m) THEN update_jobs_to_pending(jobs[m.id], m.when) ELSE jobs[m.id], {}, ack)

\* CancelJobs.execute in two steps: its transaction, then the look-up of the
\* recipes that must be told.
CancelJobs(m, ack) ==
  Changes(m, update_jobs_to_canceled(jobs[m.id], m.when), {Msg("from_jobs", m.id, 0)}, ack)

create_update_recipes_messages_from_jobs(m) ==
  /\ Executed(m, Msgs("update_recipes", get_latest_recipe_ids_for_jobs(m.id), 0), TRUE)
  /\ UNCHANGED <<scenario, recipes, jobs, job_types, started, ending, overtaken, clock>>

-----------------------------------------------------------------------------
(* Reprocessing by a message of a batch.                                   *)

\* The query of get_locked_recipes_from_root_old finds the latest recipe unless
\* this event created it.
get_locked_recipes_from_root_old(m) ==
  /\ \A s \in started : s.type # m.type \/ s.id # m.id
  /\ \E r \in {s \in Latest : recipes[s].event # m.id} \cup
              (IF \A s \in Latest : recipes[s].event = m.id THEN {0} ELSE {}) :
       started' = started \cup {[type |-> m.type, id |-> m.id, recipe |-> r]}
  /\ UNCHANGED <<scenario, recipes, jobs, job_types, msgs, ending, overtaken, left, clock>>

\* Mutant: all jobs are superseded.
SupersededJobs_all(d, nodes) == JobsOf(nodes)

\* The jobs that _handle_recipe_jobs supersedes: those of changed and of deleted
\* nodes, looked up by name among the nodes of the superseded recipe.
SupersededJobs(d, nodes) == {x[2] : x \in {y \in nodes : y[1] \in DOMAIN d.changed \cup d.deleted}}

\* The row is locked and found to be superseded meanwhile, or there was none:
\* the messages are sent again for the recipes that this event created.
ReprocessAgain(m, ack) ==
  LET again == {r \in RecipeIds : recipes[r].event = m.id}
      Old(r) == recipes[recipes[r].superseded_recipe].nodes
  IN  \E f \in [again -> UNION {Delta(recipes[r].rev) : r \in again}] :
        /\ \A r \in again : f[r] \in Delta(recipes[r].rev)
        /\ Executed(m, Msgs("process_recipe_input", again, 0)
                       \cup Msgs("cancel_jobs", UNION {SupersededJobs(f[r], Old(r)) : r \in again}, now),
                    ack)
        /\ clock' = now
        /\ UNCHANGED <<scenario, recipes, jobs, job_types, ending, overtaken>>

\* What select_for_update finds when it gets the lock.
IsLatest(r) == r # 0 /\ r \in Latest

\* The new recipe has the revision of the old one, takes over the jobs of
\* identical nodes, and gets the others from UpdateRecipes. A recipe without
\* nodes (its UpdateRecipes has not been executed) cannot be reprocessed: the
\* transaction fails and the message is executed again.
ReprocessNew(m, r, ack) ==
  LET old == recipes[r]
  IN  /\ old.nodes # {} /\ ~HasSuccessor(r)
      /\ Len(recipes) < MaxRecipes
      /\ \E d \in Delta(old.rev) :
           LET copied == {x \in old.nodes : x[1] \in DOMAIN d.identical}
               superseded == SupersededJobs(d, old.nodes)
           IN  /\ recipes' = Append([recipes EXCEPT ![r].is_superseded = TRUE],
                                    create_recipe(old.rev, m.id, r, copied))
               /\ jobs' = Apply(jobs, superseded, supersede_jobs)
               /\ Executed(m, {Msg("process_recipe_input", Len(recipes) + 1, 0)}
                              \cup Msgs("cancel_jobs", superseded, now), ack)
      /\ clock' = now
      /\ UNCHANGED <<scenario, job_types, ending, overtaken>>

\* The rest of ReprocessRecipes.execute, under the lock.
ReprocessRecipes(m, ack) ==
  \E s \in started :
    /\ s.type = m.type /\ s.id = m.id
    /\ started' = started \ {s}
    /\ IF IsLatest(s.recipe) THEN ReprocessNew(m, s.recipe, ack) ELSE ReprocessAgain(m, ack)

-----------------------------------------------------------------------------
(* Reprocessing on request (RecipeManager.reprocess_recipe).               *)

\* A recipe that is not superseded is read without a lock.
reprocess_recipe(r) ==
  /\ Uses("requests")
  /\ ~recipes[r].is_superseded
  /\ started' = started \cup {[type |-> "request", id |-> left.requests, recipe |-> r]}
  /\ UNCHANGED <<scenario, recipes, jobs, job_types, msgs, ending, overtaken, clock>>

\* Mutant: a waiting job gets a status that the job table does not have.
supersede_jobs_old_status(j) ==
  [j EXCEPT !.is_superseded = TRUE,
            !.status = IF @ \in {"PENDING", "BLOCKED"} THEN "SUPERSEDED" ELSE @]

\* supersede_jobs_old: also cancels the jobs that are waiting.
supersede_jobs_old(j) ==
  [j EXCEPT !.is_superseded = TRUE,
            !.status = IF @ \in {"PENDING", "BLOCKED"} THEN "CANCELED" ELSE @,
            !.last_status_change = IF j.status \in {"PENDING", "BLOCKED"} THEN now ELSE @]

\* Mutant: the job is taken from the node of the same name.
Copied_name(d, old) == {<<n, JobAt(old, n)>> : n \in DOMAIN d.identical \cap NodeNames(old)}

\* The jobs that _create_recipe_jobs_old copies.
Copied(d, old) == {<<n, JobAt(old, d.identical[n])>> : n \in DOMAIN d.identical}

\* The transaction of the request, from its locks on: _create_recipe_jobs_old
\* with the difference d, then queue_new_recipe.
queue_new_recipe(s, d) ==
  LET old == recipes[s.recipe]
      a == Graph(old.rev)
      b == Graph(CurrentRev)
      new == NewJobs(b, Names(b) \ DOMAIN d.identical, Len(jobs))
      nodes == Copied(d, old.nodes) \cup new.nodes
      superseded == {JobAt(old.nodes, n) : n \in Range(d.changed) \cup d.deleted}
  IN  /\ can_be_reprocessed(a, b)
      /\ Names(a) \subseteq NodeNames(old.nodes)
      /\ ~HasSuccessor(s.recipe)
      /\ Len(recipes) < MaxRecipes
      /\ recipes' = Append([recipes EXCEPT ![s.recipe].is_superseded = TRUE],
                           create_recipe(CurrentRev, 0, s.recipe, nodes))
      /\ jobs' = Queued(b, nodes, Apply(jobs, superseded, supersede_jobs_old) \o new.rows)
      /\ job_types' = job_types \o new.types
      /\ clock' = now

\* The request succeeds, or fails without a trace. It needs names of jobs if
\* the recipe has the current revision already.
FinishRequest ==
  \E s \in started :
    /\ s.type = "request"
    /\ started' = started \ {s}
    /\ \/ /\ recipes[s.recipe].rev # CurrentRev \/ scenario.names # {}
          /\ \E d \in Delta(recipes[s.recipe].rev) :
               queue_new_recipe(s, d)
       \/ UNCHANGED <<recipes, jobs, job_types, clock>>
    /\ UNCHANGED <<scenario, msgs, ending, overtaken, left>>

-----------------------------------------------------------------------------
(* The ends of jobs (CompletedJobs, FailedJobs): the recipes are looked up *)
(* before the transaction commits, and told after it. If the process stops *)
(* in between, the message is executed again: CompletedJobs looks the      *)
(* recipes up once more, FailedJobs finds nothing to do. A failed job may  *)
(* be requeued, which no recipe is told.                                   *)

EndStatuses == {"COMPLETED"} \cup (IF scenario.failures THEN {"FAILED"} ELSE {})

Ended(j, status) ==
  IF status = "COMPLETED" THEN update_jobs_to_completed(j) ELSE update_jobs_to_failed(j)

JobEnds(j, status) ==
  /\ jobs[j].status = "QUEUED" /\ \A e \in ending : e.job # j
  /\ ending' = ending \cup {[job |-> j, status |-> status, recipes |-> get_latest_recipe_ids_for_jobs(j)]}
  /\ UNCHANGED <<scenario, recipes, jobs, job_types, msgs, started, overtaken, left, clock>>

JobEndCommits(e) ==
  /\ jobs' = [jobs EXCEPT ![e.job] = Ended(@, e.status)]
  /\ \/ msgs' = msgs \cup Msgs("update_recipes", e.recipes, 0) /\ UNCHANGED left
     \/ Uses("repeats") /\ \E sent \in SUBSET Msgs("update_recipes", e.recipes, 0) :
          msgs' = msgs \cup sent \cup (IF e.status = "COMPLETED" THEN {Msg("from_jobs", e.job, 0)} ELSE {})
  /\ ending' = ending \ {e}
  /\ overtaken' = IF get_latest_recipe_ids_for_jobs(e.job) \subseteq e.recipes THEN overtaken
                  ELSE overtaken \cup {e.job}
  /\ UNCHANGED <<scenario, recipes, job_types, started, clock>>

RequeueJobs(j) ==
  /\ Uses("requeues")
  /\ jobs[j].status = "FAILED" /\ can_be_requeued(jobs[j])
  /\ jobs' = [jobs EXCEPT ![j] = update_jobs_to_queued(@)]
  /\ UNCHANGED <<scenario, recipes, job_types, msgs, started, ending, overtaken, clock>>

-----------------------------------------------------------------------------

Execute(m, ack) ==
  \/ m.type = "update_recipes" /\ UpdateRecipes(m, ack)
  \/ m.type = "process_recipe_input" /\ ProcessRecipeInput(m, ack)
  \/ m.type = "reprocess_recipes" /\ ReprocessRecipes(m, ack)
  \/ m.type = "process_job_input" /\ ProcessJobInput(m, ack)
  \/ m.type = "blocked_jobs" /\ BlockedJobs(m, ack)
  \/ m.type = "pending_jobs" /\ PendingJobs(m, ack)
  \/ m.type = "cancel_jobs" /\ CancelJobs(m, ack)

Step(m) ==
  \/ m.type = "from_jobs" /\ create_update_recipes_messages_from_jobs(m)
  \/ m.type = "reprocess_recipes" /\ get_locked_recipes_from_root_old(m)

Next ==
  \/ \E m \in msgs : Step(m) \/ \E ack \in BOOLEAN : Execute(m, ack)
  \/ \E r \in RecipeIds : reprocess_recipe(r)
  \/ FinishRequest
  \/ \E j \in JobIds, status \in EndStatuses : JobEnds(j, status)
  \/ \E e \in ending : JobEndCommits(e)
  \/ \E j \in JobIds : RequeueJobs(j)

Spec == Init /\ [][Next]_vars

-----------------------------------------------------------------------------
(* Conditions on the scenarios under which the latest recipe is complete.  *)

\* Every node of b that is identical to one of a has its name.
KeepsNames(a, b) ==
  \A identical \in _match_identical_nodes(a, b) : \A n \in DOMAIN identical : identical[n] = n

\* Nodes keep their names where batches reprocess recipes: ReprocessRecipes
\* looks under the new names for the jobs of identical nodes.
BatchesKeepNames ==
  \A c \in Scenarios : c.events # {} => \A rev \in 1..2 : KeepsNames(c.revs[rev], c.revs[CurrentRev])

\* A request creates at least one job: queue_new_recipe does not look whether
\* the new recipe is completed from the start.
RequestsAddWork ==
  \A c \in Scenarios :
    /\ Names(c.revs[1]) # {}
    /\ \A rev \in 1..2 : rev # CurrentRev \/ c.names # {} =>
         \A d \in DeltaIn(c, rev) : DOMAIN d.identical # Names(c.revs[CurrentRev])

-----------------------------------------------------------------------------
(* Properties.                                                             *)

\* Every variable has its type.
TypeOK ==
  /\ scenario \in Scenarios
  /\ \A j \in JobIds : jobs[j] \in JobRows
  /\ Len(job_types) = Len(jobs)
  /\ \A r \in RecipeIds :
       /\ recipes[r].rev \in 1..2 /\ recipes[r].superseded_recipe \in 0..(r-1)
       /\ JobsOf(recipes[r].nodes) \subseteq JobIds
       /\ NodeNames(recipes[r].nodes) \subseteq Names(Graph(recipes[r].rev))
  /\ \A m \in msgs : m.type \in MessageTypes /\ m.when \in 0..MaxClock
  /\ \A s \in started : s.recipe \in RecipeIds \cup {0}
  /\ \A e \in ending : e.job \in JobIds /\ e.recipes \subseteq RecipeIds
  /\ overtaken \subseteq JobIds
  /\ \A e \in DOMAIN left : left[e] \in 0..scenario.bounds[e]
  /\ clock \in 0..MaxClock

\* However many batches and users reprocess a recipe at the same time, one
\* recipe is the latest, and it follows each of the others by exactly one chain
\* (the lock of ReprocessRecipes, the check and the unique column behind
\* reprocess_recipe).
LatestIsUnique ==
  /\ Cardinality(Latest) = 1
  /\ \A r \in RecipeIds :
       recipes[r].is_superseded <=> \E s \in RecipeIds : recipes[s].superseded_recipe = r
  /\ \A r, s \in RecipeIds : recipes[r].superseded_recipe = recipes[s].superseded_recipe => r = s

\* A node of a recipe has one job, however often and by whichever message or
\* request its jobs are created or copied ("this only works for 1 job per job
\* name", handler.py), and the job has the type that the recipe's own definition
\* gives to the node, also when nodes have new names (RecipeGraphDelta).
NodesHaveTheirJobs ==
  \A r \in RecipeIds : \A x \in recipes[r].nodes :
    /\ \A y \in recipes[r].nodes : x[1] = y[1] => x = y
    /\ job_types[x[2]] = Graph(recipes[r].rev).nodes[x[1]].type

\* A recipe is marked as completed only if each node of its definition has a
\* job that has completed; and it stays so.
CompletedRecipeIsComplete ==
  \A r \in RecipeIds : recipes[r].is_completed =>
    \A n \in Names(Graph(recipes[r].rev)) : \E x \in recipes[r].nodes :
      x[1] = n /\ jobs[x[2]].status = "COMPLETED"

\* A job is queued only after its parents have completed: in each recipe it is
\* part of, when it was created there or taken over.
ParentsFirst ==
  \A r \in RecipeIds : \A x, y \in recipes[r].nodes :
    has_been_queued(jobs[x[2]]) /\ y[1] \in Parents(Graph(recipes[r].rev), x[1])
      => jobs[y[2]].status = "COMPLETED"

\* The jobs of the latest recipe are not superseded: they can be queued.
LatestIsLive ==
  \A r \in Latest : \A x \in recipes[r].nodes : ~jobs[x[2]].is_superseded

\* Jobs that belong to superseded recipes only are superseded, so that they are
\* canceled and not retried.
OldJobsAreSuperseded ==
  \A j \in JobIds : get_latest_recipe_ids_for_jobs(j) = {} => jobs[j].is_superseded

Quiescent ==
  msgs = {} /\ started = {} /\ ending = {} /\ \A j \in JobIds : jobs[j].status \notin ActiveStatuses

\* When everything has come to rest the latest recipe has a job for each node,
\* only jobs behind one that failed or was canceled are still waiting, and the
\* recipe is marked as completed if all its jobs are. The exception: while the end
\* of a job is being committed a new recipe takes the job over and is updated.
NoneForgotten ==
  Quiescent => \A r \in {s \in Latest : JobsOf(recipes[s].nodes) \cap overtaken = {}} :
    LET g == Graph(recipes[r].rev)
        nodes == recipes[r].nodes
    IN  /\ NodeNames(nodes) = Names(g)
        /\ \A n \in Names(g) : jobs[JobAt(nodes, n)].status \in {"PENDING", "BLOCKED"}
             => ~ParentsCompleted(g, nodes, jobs, n)
        /\ is_completed(nodes, jobs) => recipes[r].is_completed
====

---- MODULE MCScheduling ----
(***************************************************************************)
(* Scenarios for the scheduling thread.                                    *)
(***************************************************************************)
EXTENDS Scheduling, TLC

CONSTANTS
  Names   \* the scenarios of a run

Amount(c, g) == [cpus |-> c, gpus |-> g]
JobOf(type, need, priority, tasks) ==
  [kind |-> "job", node |-> "", need |-> need, priority |-> priority, tasks |-> tasks, type |-> type]
NodeTask(n) == [kind |-> "node", node |-> n, need |-> Amount(1, 0), priority |-> 0, tasks |-> 0, type |-> ""]
SystemTask == [kind |-> "system", node |-> "", need |-> Amount(1, 0), priority |-> 0, tasks |-> 0, type |-> ""]
Agent(n, total) == [node |-> n, total |-> total]
NoFaults == [resets |-> 0, syncs |-> 0, errors |-> 0, starved |-> 0, rescinds |-> 0, losses |-> 0,
             others |-> 0, models |-> 0]

\* Executions of small jobs keep coming; a big one is more urgent.
Urgent ==
  [work |-> ("a" :> JobOf("small", Amount(1, 0), 2, 1) @@ "b" :> JobOf("big", Amount(2, 0), 1, 2)),
   agents |-> ("a1" :> Agent("n1", Amount(2, 0))), first |-> {"a1"}, limits |-> <<>>, others |-> {},
   prompt |-> TRUE, bounds |-> NoFaults]

\* Tasks of a node compete with the tasks of executions, and offers are rescinded.
Rescinded ==
  [work |-> ("a" :> JobOf("one", Amount(2, 0), 1, 1) @@ "b" :> NodeTask("n1")),
   agents |-> ("a1" :> Agent("n1", Amount(2, 0))), first |-> {"a1"}, limits |-> <<>>, others |-> {},
   prompt |-> TRUE, bounds |-> [NoFaults EXCEPT !.rescinds = 1]]

\* A job type with a limit; the database, the framework ID or the driver may fail,
\* and executions may starve.
Limited ==
  [work |-> ("a" :> JobOf("one", Amount(1, 0), 1, 2) @@ "b" :> JobOf("one", Amount(1, 0), 1, 1)),
   agents |-> ("a1" :> Agent("n1", Amount(2, 0))), first |-> {"a1"}, limits |-> ("one" :> 1), others |-> {},
   prompt |-> FALSE, bounds |-> [NoFaults EXCEPT !.errors = 1, !.starved = 1]]

\* The agent of a node is lost, another one takes its place.
Lost ==
  [work |-> ("a" :> JobOf("one", Amount(1, 0), 1, 1) @@ "b" :> NodeTask("n1")),
   agents |-> ("a1" :> Agent("n1", Amount(1, 0)) @@ "a2" :> Agent("n1", Amount(1, 0))), first |-> {"a1"},
   limits |-> <<>>, others |-> {}, prompt |-> FALSE, bounds |-> [NoFaults EXCEPT !.losses = 1]]

\* Jobs that use gpus, which other frameworks use as well; totals and watermarks.
Gpus ==
  [work |-> ("a" :> JobOf("gpu", Amount(1, 1), 1, 2)),
   agents |-> ("a1" :> Agent("n1", Amount(1, 2))), first |-> {"a1"},
   limits |-> <<>>, others |-> {Amount(0, 1)}, prompt |-> FALSE,
   bounds |-> [NoFaults EXCEPT !.others = 1, !.resets = 1, !.syncs = 1]]

\* A node is paused or deprecated, and may be taken back; it has to pull the image then.
Deprecated ==
  [work |-> ("a" :> JobOf("one", Amount(1, 0), 1, 2)),
   agents |-> ("a1" :> Agent("n1", Amount(1, 0))), first |-> {"a1"}, limits |-> <<>>, others |-> {},
   prompt |-> FALSE, bounds |-> [NoFaults EXCEPT !.models = 2]]

\* Two nodes and a service.
Cluster ==
  [work |-> ("a" :> JobOf("one", Amount(1, 0), 1, 1) @@ "b" :> SystemTask),
   agents |-> ("a1" :> Agent("n1", Amount(1, 0)) @@ "a2" :> Agent("n2", Amount(1, 0))), first |-> {"a1", "a2"},
   limits |-> <<>>, others |-> {}, prompt |-> TRUE, bounds |-> NoFaults]

\* The same, and a node is paused.
Paused == [Cluster EXCEPT !.bounds.models = 1]

MCScenarios ==
  LET All == ("urgent" :> Urgent @@ "rescinded" :> Rescinded @@ "limited" :> Limited @@ "lost" :> Lost
              @@ "gpus" :> Gpus @@ "deprecated" :> Deprecated @@ "cluster" :> Cluster @@ "paused" :> Paused)
  IN  {All[n] : n \in Names}
====

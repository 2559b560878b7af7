---- MODULE MCNodeTasks ----
(***************************************************************************)
(* Instances of NodeTasks. A node has one agent ID or two in turn; the      *)
(* scenarios combine the kinds of tasks and of faults that interact.        *)
(***************************************************************************)
EXTENDS NodeTasks

TwoInTurn == [a \in Agents |-> "a2"]
Always == [a \in Agents |-> a]

\* Executions to clean up, kinds of tasks, faults; nothing else.
Scenario(exes, kinds, faults) ==
  [exes |-> exes, schedulable |-> kinds, faults |-> faults,
   exit_codes |-> {}, settings |-> {}, max_tasks |-> 1]
Daemon(s) == [s EXCEPT !.exit_codes = {"BAD_DAEMON"}]

SafetyScenarios ==
  { Scenario({"e1", "e2"}, {"cleanup"}, {"lost", "failed", "timeout", "offline"}),
    Scenario({"e1"}, {"cleanup"}, {"lost", "timeout", "unnamed"}),
    [Scenario({"e1"}, {"cleanup"}, {"lost", "new agent"}) EXCEPT !.max_tasks = 2],
    [Scenario({}, {"cleanup"}, {"lost", "new agent", "unnamed"}) EXCEPT !.max_tasks = 2],
    Daemon(Scenario({"e1"}, {"cleanup", "health"}, {"failed", "timeout"})),
    [Scenario({}, {"cleanup", "pull"}, {"failed", "timeout"}) EXCEPT !.settings = {"active"}] }

LiveScenarios ==
  { Scenario({"e1"}, {"cleanup", "pull"}, {"failed", "offline"}),
    Scenario({"e1"}, {"cleanup", "pull"}, {"lost", "unnamed"}),
    Daemon(Scenario({}, {"cleanup", "health", "pull"}, {"failed", "timeout"})) }
====

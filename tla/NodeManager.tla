---- MODULE NodeManager ----
(***************************************************************************)
(* The tables of agents and nodes (scheduler/node/manager.py), kept by     *)
(* three threads: the Mesos callbacks register agents that send offers and *)
(* report agents lost, the sync thread turns new agents into nodes and     *)
(* brings in what users changed in the database. sync_with_database holds  *)
(* the lock only while it takes its snapshot and while it applies the      *)
(* result; the database is read, and callbacks run, in between.            *)
(*                                                                         *)
(* Node is the record of one node. Its tasks and its cleanup belong to     *)
(* module NodeTasks; here only its agent, its settings and what a reset    *)
(* clears take part.                                                       *)
(***************************************************************************)
EXTENDS Node

CONSTANTS
  Agents,     \* Mesos agent IDs
  Hostnames,  \* hosts they run on
  HostOf,     \* the host of an agent: an agent restarted from scratch gets a
              \* new ID on the same host
  Settings    \* what a user may change: "active", "paused", "stopped"

ASSUME HostOfAssumption == HostOf \in [Agents -> Hostnames]
ASSUME NoAgentAssumption == NoAgent \notin Agents
ASSUME SettingsAssumption == Settings \subseteq {"active", "paused", "stopped"}

Models == [is_active : BOOLEAN, is_paused : BOOLEAN]
NewModel == [is_active |-> TRUE, is_paused |-> FALSE]
Objects == 1..2   \* identities of node objects; 0 is none
NoObject == 0

VARIABLES
  agents,       \* keys of _agents
  new_agents,   \* keys of _new_agents
  nodes,        \* keys of _nodes
  node,         \* the node of every hostname in nodes
  object,       \* which Node object that is
  cleanup_mgr,  \* the Node object the cleanup manager holds for a hostname
  sync,         \* where the sync thread is, and its snapshots
  db,           \* hostnames with a row in the node table
  model,        \* the rows
  paused,       \* the scheduler's is_paused setting
  alive,        \* Mesos: agents that are running
  up            \* Mesos: agents whose last callback was an offer

vars == <<agents, new_agents, nodes, node, object, cleanup_mgr, sync, db, model,
          paused, alive, up>>

mesosVars == <<alive, up>>
userVars == <<db, model, paused>>

IdleSync == [pc |-> "idle", new |-> {}, hosts |-> {}, paused |-> FALSE,
             rows |-> {}, model |-> [h \in Hostnames |-> NewModel]]

HostsOf(A) == {HostOf[a] : a \in A}

\* What stands in the place of a node that is not in the table.
Absent == NewNode(NoAgent, NewModel, FALSE)

Init ==
  /\ agents = {} /\ new_agents = {} /\ nodes = {}
  /\ node = [h \in Hostnames |-> Absent]
  /\ object = [h \in Hostnames |-> NoObject]
  /\ cleanup_mgr = [h \in Hostnames |-> NoObject]
  /\ sync = IdleSync
  /\ db \in SUBSET Hostnames
  /\ model = [h \in Hostnames |-> NewModel]
  /\ paused = FALSE
  /\ alive = {} /\ up = {}

Online(n) == update_from_mesos(n, NoAgent, TRUE)
Offline(n) == update_from_mesos(n, NoAgent, FALSE)

-----------------------------------------------------------------------------
(* The callback thread.                                                    *)

\* resourceOffers: offers from the agents S.
register_agents(S) ==
  /\ S # {} /\ S \subseteq alive
  /\ node' = [h \in Hostnames |-> IF h \in HostsOf(S \cap agents)
                                  THEN Online(node[h])
                                  ELSE node[h]]
  /\ new_agents' = new_agents \cup (S \ agents)
  /\ up' = up \cup S
  /\ UNCHANGED <<agents, nodes, object, cleanup_mgr, sync, alive, userVars>>

\* slaveLost: the node of a known agent goes offline, a new agent is forgotten.
lost_node(a) ==
  /\ a \in up \ alive
  /\ node' = IF a \in agents
             THEN [node EXCEPT ![HostOf[a]] = Offline(@)]
             ELSE node
  /\ new_agents' = new_agents \ {a}
  /\ up' = up \ {a}
  /\ UNCHANGED <<agents, nodes, object, cleanup_mgr, sync, alive, userVars>>

-----------------------------------------------------------------------------
(* The sync thread.                                                        *)

\* Mutant: only agents of unknown hosts are taken up.
sync_begin_unknown ==
  /\ sync.pc = "idle"
  /\ sync' = [sync EXCEPT !.pc = "database", !.new = {a \in new_agents : HostOf[a] \notin nodes},
                          !.hosts = nodes \cup HostsOf(new_agents), !.paused = paused]
  /\ UNCHANGED <<agents, new_agents, nodes, node, object, cleanup_mgr, userVars, mesosVars>>

\* Under the lock: all hostnames and new agents.
sync_begin ==
  /\ sync.pc = "idle"
  /\ sync' = [sync EXCEPT !.pc = "database", !.new = new_agents,
                          !.hosts = nodes \cup HostsOf(new_agents), !.paused = paused]
  /\ UNCHANGED <<agents, new_agents, nodes, node, object, cleanup_mgr, userVars, mesosVars>>

\* Two agents of one host that has no row yet would insert the same hostname
\* twice; the database refuses and this iteration of the sync thread ends.
DuplicateHost ==
  \E a, b \in sync.new : a # b /\ HostOf[a] = HostOf[b] /\ HostOf[a] \notin db

sync_database_fails ==
  /\ sync.pc = "database" /\ DuplicateHost
  /\ sync' = IdleSync
  /\ UNCHANGED <<agents, new_agents, nodes, node, object, cleanup_mgr, userVars, mesosVars>>

\* Rows of these hostnames and of all active nodes; new hosts get a row.
sync_database ==
  /\ sync.pc = "database" /\ ~DuplicateHost
  /\ db' = db \cup HostsOf(sync.new)
  /\ sync' = [sync EXCEPT !.pc = "apply", !.model = model,
                          !.rows = {h \in db' : h \in sync.hosts \/ model[h].is_active}]
  /\ UNCHANGED <<agents, new_agents, nodes, node, object, cleanup_mgr, model, paused, mesosVars>>

NewAt(h) == {a \in sync.new : HostOf[a] = h}

\* Mutant: every agent of the snapshot is taken to be online.
StillNew_assumed(A) == A

\* Those not lost since the snapshot.
StillNew(A) == A \cap new_agents

\* The node of a host whose new agents were handled in turn, a the last one.
\* One that was lost in the meantime resets the node.
WithNewAgent(h, a) ==
  LET old == IF h \in nodes THEN node[h] ELSE NewNode(a, sync.model[h], sync.paused)
      n == IF NewAt(h) \subseteq StillNew(NewAt(h)) THEN old
           ELSE Offline(old)
  IN  IF a \in StillNew(NewAt(h)) THEN update_from_mesos(n, a, TRUE)
      ELSE update_from_mesos(n, a, FALSE)

\* Mutant: the old agent of a host stays in the table.
AgentsReplaced_kept(last) == agents \cup {last[h] : h \in DOMAIN last}

\* Every new agent replaces the agent its host had before.
AgentsReplaced(last) ==
  {a \in agents : HostOf[a] \notin DOMAIN last} \cup {last[h] : h \in DOMAIN last}

\* Mutant: a node from the database gets None, not an empty agent ID.
FromDatabase_none(h) ==
  Offline(NewNode("None", sync.model[h], sync.paused))

FromDatabase(h) ==
  Offline(NewNode(NoAgent, sync.model[h], sync.paused))

\* Mutant: a deprecated node is removed although it is online.
Removed_online(m, known) == {h \in known \cap sync.rows : ~m[h].is_active}

\* Nodes that should_be_removed: offline and deprecated.
Removed(m, known) == {h \in known \cap sync.rows : should_be_removed(m[h])}

\* A new object for a hostname is none that anyone still holds.
NewObject(h) == CHOOSE o \in Objects : o # cleanup_mgr[h]

\* Under the lock: the new agents, in some order, then all rows that were read.
sync_apply ==
  /\ sync.pc = "apply"
  /\ \E last \in [HostsOf(sync.new) -> sync.new] :
       /\ \A h \in DOMAIN last : HostOf[last[h]] = h
       /\ LET known == nodes \cup DOMAIN last
              n == [h \in Hostnames |->
                     IF h \in DOMAIN last THEN WithNewAgent(h, last[h]) ELSE node[h]]
              m == [h \in Hostnames |->
                     IF h \notin sync.rows THEN n[h]
                     ELSE IF h \in known THEN update_from_model(n[h], sync.model[h], sync.paused)
                     ELSE FromDatabase(h)]
              removed == Removed(m, known)
          IN  /\ nodes' = (known \cup sync.rows) \ removed
              /\ node' = [h \in Hostnames |-> IF h \in removed THEN Absent ELSE m[h]]
              /\ agents' = AgentsReplaced(last) \ {m[h].agent_id : h \in removed}
  /\ object' = [h \in Hostnames |-> IF h \notin nodes' THEN NoObject
                                    ELSE IF h \in nodes THEN object[h] ELSE NewObject(h)]
  /\ new_agents' = new_agents \ sync.new
  /\ sync' = [IdleSync EXCEPT !.pc = "cleanup"]
  /\ UNCHANGED <<cleanup_mgr, userVars, mesosVars>>

\* cleanup_mgr.update_nodes: only hostnames it does not know are added.
update_nodes ==
  /\ sync.pc = "cleanup"
  /\ cleanup_mgr' = [h \in Hostnames |->
                      IF h \in nodes /\ cleanup_mgr[h] = NoObject THEN object[h]
                      ELSE cleanup_mgr[h]]
  /\ sync' = IdleSync
  /\ UNCHANGED <<agents, new_agents, nodes, node, object, userVars, mesosVars>>

-----------------------------------------------------------------------------
(* Users and the cluster.                                                  *)

update_node(h) ==
  /\ h \in db
  /\ \/ /\ "active" \in Settings
        /\ model' = [model EXCEPT ![h].is_active = ~@]
     \/ /\ "paused" \in Settings
        /\ model' = [model EXCEPT ![h].is_paused = ~@]
  /\ UNCHANGED <<agents, new_agents, nodes, node, object, cleanup_mgr, sync, db, paused, mesosVars>>

PauseScheduler ==
  /\ "stopped" \in Settings
  /\ paused' = ~paused
  /\ UNCHANGED <<agents, new_agents, nodes, node, object, cleanup_mgr, sync, db, model, mesosVars>>

AgentStartsOrStops(a) ==
  /\ alive' = IF a \in alive THEN alive \ {a} ELSE alive \cup {a}
  /\ UNCHANGED <<agents, new_agents, nodes, node, object, cleanup_mgr, sync, userVars, up>>

syncing == sync_begin \/ sync_database_fails \/ sync_database \/ sync_apply \/ update_nodes

Next ==
  \/ \E S \in SUBSET Agents : register_agents(S)
  \/ \E a \in Agents : lost_node(a)
  \/ syncing
  \/ \E h \in Hostnames : update_node(h)
  \/ PauseScheduler
  \/ \E a \in Agents : AgentStartsOrStops(a)

Spec == Init /\ [][Next]_vars

\* The sync thread runs every ten seconds, Mesos keeps offering the resources
\* of a running agent (offers are held for ten seconds at most), and reports
\* an agent that is gone.
Fairness ==
  /\ WF_vars(syncing)
  /\ \A a \in Agents : WF_vars(register_agents({a})) /\ WF_vars(lost_node(a))

FairSpec == Spec /\ Fairness

-----------------------------------------------------------------------------
(* Properties.                                                             *)

NodeRecords == [agent_id : Agents \cup {NoAgent}, is_active : BOOLEAN, is_online : BOOLEAN,
                is_paused : BOOLEAN, is_scheduler_paused : BOOLEAN,
                is_initial_cleanup_completed : BOOLEAN, is_image_pulled : BOOLEAN,
                errors : SUBSET NodeErrors, is_health_check_normal : BOOLEAN,
                health_done : BOOLEAN, held : [Kinds -> {NoTask}], to_clean : {{}},
                state : NodeStates]

Syncs == [pc : {"idle", "database", "apply", "cleanup"}, new : SUBSET Agents,
          hosts : SUBSET Hostnames, paused : BOOLEAN, rows : SUBSET Hostnames,
          model : [Hostnames -> Models]]

\* The types of the tables and of the sync thread's snapshots.
TypeOK ==
  /\ agents \subseteq Agents /\ new_agents \subseteq Agents
  /\ nodes \subseteq Hostnames /\ node \in [Hostnames -> NodeRecords]
  /\ object \in [Hostnames -> Objects \cup {NoObject}]
  /\ cleanup_mgr \in [Hostnames -> Objects \cup {NoObject}]
  /\ sync \in Syncs
  /\ db \subseteq Hostnames /\ model \in [Hostnames -> Models] /\ paused \in BOOLEAN
  /\ alive \subseteq Agents /\ up \subseteq Agents

\* _agents and _nodes describe each other: the host of a known agent has a node
\* and that node's agent is this one, and a node's agent is known. Every method
\* of NodeManager looks up _nodes[_agents[agent_id].hostname] without a test, so
\* this is also what keeps a callback from a KeyError.
AgentsAndNodesAgree ==
  /\ \A a \in agents : HostOf[a] \in nodes /\ node[HostOf[a]].agent_id = a
  /\ \A h \in nodes : node[h].agent_id # NoAgent =>
                        node[h].agent_id \in agents /\ HostOf[node[h].agent_id] = h

\* A node is online exactly when the last callback about its agent was an offer,
\* whatever callbacks ran while sync_with_database was reading the database
\* ("received new agent ID, but quickly went offline").
OnlineTracksMesos == \A h \in nodes : node[h].is_online <=> node[h].agent_id \in up

\* The node manager forgets an agent only when Mesos reported it lost or a new
\* agent of its host takes its place: deprecating a node never drops an agent
\* that still sends offers.
ForgottenWhenGone ==
  [][\A a \in agents \ agents' : a \notin up \/ HostOf[a] \in HostsOf(sync.new)]_vars

\* update_nodes: "Updates the manager with the latest copies of the nodes". Between
\* two iterations of the sync thread the cleanup manager holds the node objects
\* that the node manager schedules cleanup tasks for.
CleanupHasLatestNodes ==
  sync.pc = "idle" => \A h \in nodes : cleanup_mgr[h] = object[h]

\* An agent that keeps running alone on its host ends up as its node's agent, with
\* the node online, even if the database refused the first attempts.
AgentGetsNode ==
  \A a \in Agents :
    <>[](a \in alive /\ \A b \in alive : HostOf[b] = HostOf[a] => b = a) =>
      <>[](a \in agents /\ node[HostOf[a]].is_online)
====

---- MODULE NodeManagerProofs ----
(***************************************************************************)
(* For any number of agents and hosts: the tables of agents and nodes      *)
(* agree, and a node is online exactly when Mesos last said so.            *)
(***************************************************************************)
EXTENDS NodeManager, TLAPS

\* What the methods of a node do to its type, its agent and its being online.
LEMMA StateType == ASSUME NEW n PROVE StateOf(n) \in NodeStates
BY DEF StateOf, NodeStates

LEMMA UpdateStateFacts ==
  ASSUME NEW n \in NodeRecords
  PROVE  /\ _update_state(n) \in NodeRecords
         /\ _update_state(n).agent_id = n.agent_id
         /\ _update_state(n).is_online = n.is_online
         /\ _update_state(n).is_active = n.is_active
BY StateType DEF _update_state, NodeRecords

LEMMA ResetFacts ==
  ASSUME NEW n \in NodeRecords
  PROVE  /\ _reset_node(n) \in NodeRecords
         /\ _reset_node(n).agent_id = n.agent_id
         /\ _reset_node(n).is_online = n.is_online
         /\ _reset_node(n).is_active = n.is_active
BY Zenon DEF _reset_node, NodeRecords

LEMMA FromMesosFacts ==
  ASSUME NEW n \in NodeRecords, NEW a \in Agents \cup {NoAgent}, NEW online \in BOOLEAN
  PROVE  /\ update_from_mesos(n, a, online) \in NodeRecords
         /\ update_from_mesos(n, a, online).agent_id = IF a = NoAgent THEN n.agent_id ELSE a
         /\ update_from_mesos(n, a, online).is_online = online
<1> DEFINE m == [n EXCEPT !.agent_id = IF a = NoAgent THEN @ ELSE a, !.is_online = online]
<1>1. /\ m \in NodeRecords
      /\ m.agent_id = IF a = NoAgent THEN n.agent_id ELSE a
      /\ m.is_online = online
  BY Zenon DEF NodeRecords
<1>2. update_from_mesos(n, a, online) = _update_state(IF online THEN m ELSE _reset_node(m))
  BY DEF update_from_mesos
<1> HIDE DEF m
<1> QED BY <1>1, <1>2, UpdateStateFacts, ResetFacts

LEMMA OnlineFacts ==
  ASSUME NEW n \in NodeRecords
  PROVE  Online(n) \in NodeRecords /\ Online(n).agent_id = n.agent_id /\ Online(n).is_online
BY FromMesosFacts, Zenon DEF Online

LEMMA OfflineFacts ==
  ASSUME NEW n \in NodeRecords
  PROVE  Offline(n) \in NodeRecords /\ Offline(n).agent_id = n.agent_id /\ ~Offline(n).is_online
BY FromMesosFacts, Zenon DEF Offline

LEMMA FromModelFacts ==
  ASSUME NEW n \in NodeRecords, NEW mo \in Models, NEW p \in BOOLEAN
  PROVE  /\ update_from_model(n, mo, p) \in NodeRecords
         /\ update_from_model(n, mo, p).agent_id = n.agent_id
         /\ update_from_model(n, mo, p).is_online = n.is_online
<1> DEFINE m == [n EXCEPT !.is_active = mo.is_active, !.is_paused = mo.is_paused,
                          !.is_scheduler_paused = p]
<1>1. m \in NodeRecords /\ m.agent_id = n.agent_id /\ m.is_online = n.is_online
  BY Zenon DEF NodeRecords, Models
<1>2. update_from_model(n, mo, p) = _update_state(IF mo.is_active THEN m ELSE _reset_node(m))
  BY DEF update_from_model
<1> HIDE DEF m
<1> QED BY <1>1, <1>2, UpdateStateFacts, ResetFacts

LEMMA NewNodeFacts ==
  ASSUME NEW a \in Agents \cup {NoAgent}, NEW mo \in Models, NEW p \in BOOLEAN
  PROVE  NewNode(a, mo, p) \in NodeRecords /\ NewNode(a, mo, p).agent_id = a
<1> DEFINE n == [agent_id |-> a, is_active |-> mo.is_active, is_online |-> TRUE,
                 is_paused |-> mo.is_paused, is_scheduler_paused |-> p,
                 is_initial_cleanup_completed |-> FALSE, is_image_pulled |-> FALSE,
                 errors |-> {}, is_health_check_normal |-> TRUE, health_done |-> FALSE,
                 held |-> [k \in Kinds |-> NoTask], to_clean |-> {}, state |-> "READY"]
<1>1. n \in NodeRecords /\ n.agent_id = a
  BY DEF NodeRecords, Models, NodeStates
<1>2. NewNode(a, mo, p) = _update_state(n)
  BY DEF NewNode
<1> HIDE DEF n
<1> QED BY <1>1, <1>2, UpdateStateFacts

LEMMA NewModelType == NewModel \in Models
BY DEF NewModel, Models

LEMMA AbsentType == Absent \in NodeRecords
BY Zenon, NewNodeFacts, NewModelType DEF Absent

LEMMA IdleSyncType == IdleSync \in Syncs
BY NewModelType DEF IdleSync, Syncs

-----------------------------------------------------------------------------
(* The inductive invariant: besides the properties, a new agent is one that *)
(* Mesos last offered and that is not known yet, and an agent of the sync   *)
(* thread's snapshot is still new unless it was lost.                       *)

NewAgentsAreNew ==
  /\ new_agents \subseteq up \ agents
  /\ sync.new \cap agents = {}
  /\ sync.new \cap up \subseteq new_agents

Inv == TypeOK /\ AgentsAndNodesAgree /\ OnlineTracksMesos /\ NewAgentsAreNew

LEMMA InitInv == Init => Inv
<1> SUFFICES ASSUME Init PROVE Inv OBVIOUS
<1> USE AbsentType, IdleSyncType, NewModelType DEF Init
<1>1. TypeOK
  BY Zenon DEF TypeOK
<1>2. AgentsAndNodesAgree /\ OnlineTracksMesos
  BY DEF AgentsAndNodesAgree, OnlineTracksMesos
<1>3. NewAgentsAreNew
  BY DEF NewAgentsAreNew, IdleSync
<1> QED BY <1>1, <1>2, <1>3 DEF Inv

\* resourceOffers.
LEMMA RegisterInv == ASSUME Inv, NEW S \in SUBSET Agents, register_agents(S) PROVE Inv'
<1> USE HostOfAssumption, NoAgentAssumption DEF userVars, mesosVars
<1> DEFINE H == HostsOf(S \cap agents)
<1>1. \A h \in Hostnames : node'[h] = IF h \in H THEN Online(node[h])
                                      ELSE node[h]
  BY DEF register_agents
<1>0. agents' = agents /\ nodes' = nodes /\ up' = up \cup S
  BY DEF register_agents
<1> HIDE DEF H
<1>2. \A h \in Hostnames : /\ node'[h] \in NodeRecords
                           /\ node'[h].agent_id = node[h].agent_id
                           /\ h \in H => node'[h].is_online
                           /\ h \notin H => node'[h] = node[h]
  BY <1>1, OnlineFacts, OfflineFacts DEF Inv, TypeOK
<1>3. TypeOK'
  <2>1. node' \in [Hostnames -> NodeRecords]
    BY Zenon, <1>2 DEF register_agents
  <2> QED BY Zenon, <2>1 DEF Inv, TypeOK, register_agents
<1>4. AgentsAndNodesAgree'
  BY <1>0, <1>2 DEF Inv, TypeOK, AgentsAndNodesAgree
<1>5. OnlineTracksMesos'
  <2> SUFFICES ASSUME NEW h \in nodes
               PROVE  node'[h].is_online <=> node'[h].agent_id \in up'
    BY Zenon DEF OnlineTracksMesos, register_agents
  <2>1. h \in Hostnames /\ (node[h].is_online <=> node[h].agent_id \in up)
    BY DEF Inv, TypeOK, OnlineTracksMesos
  <2>2. CASE h \in H
    <3>1. PICK a \in S \cap agents : HostOf[a] = h
      BY <2>2 DEF H, HostsOf
    <3>2. node[h].agent_id = a
      BY <3>1 DEF Inv, AgentsAndNodesAgree
    <3> QED BY <1>0, <1>2, <2>1, <2>2, <3>1, <3>2
  <2>3. CASE h \notin H
    <3>1. node[h].agent_id \notin S
      BY <2>3, <2>1 DEF Inv, TypeOK, AgentsAndNodesAgree, H, HostsOf
    <3> QED BY <1>0, <1>2, <2>1, <2>3, <3>1
  <2> QED BY <2>2, <2>3
<1>6. NewAgentsAreNew'
  BY DEF Inv, NewAgentsAreNew, register_agents
<1> QED BY <1>3, <1>4, <1>5, <1>6 DEF Inv

\* slaveLost.
LEMMA LostInv == ASSUME Inv, NEW a \in Agents, lost_node(a) PROVE Inv'
<1> USE HostOfAssumption, NoAgentAssumption DEF userVars, mesosVars
<1>1. \A h \in Hostnames : node'[h] = IF a \in agents /\ h = HostOf[a]
                                      THEN Offline(node[h]) ELSE node[h]
  BY DEF lost_node, Inv, TypeOK
<1>2. \A h \in Hostnames : /\ node'[h] \in NodeRecords
                           /\ node'[h].agent_id = node[h].agent_id
                           /\ a \in agents /\ h = HostOf[a] => ~node'[h].is_online
                           /\ ~(a \in agents /\ h = HostOf[a]) => node'[h] = node[h]
  BY <1>1, OnlineFacts, OfflineFacts DEF Inv, TypeOK
<1>3. TypeOK'
  <2>1. node' \in [Hostnames -> NodeRecords]
    BY <1>2 DEF lost_node, Inv, TypeOK
  <2> QED BY <2>1 DEF Inv, TypeOK, lost_node
<1>4. AgentsAndNodesAgree'
  BY <1>2 DEF Inv, TypeOK, AgentsAndNodesAgree, lost_node
<1>5. OnlineTracksMesos'
  <2> SUFFICES ASSUME NEW h \in nodes
               PROVE  node'[h].is_online <=> node'[h].agent_id \in up'
    BY DEF OnlineTracksMesos, lost_node
  <2>1. h \in Hostnames /\ (node[h].is_online <=> node[h].agent_id \in up)
    BY DEF Inv, TypeOK, OnlineTracksMesos
  <2>2. CASE a \in agents /\ h = HostOf[a]
    BY <1>2, <2>1, <2>2 DEF Inv, AgentsAndNodesAgree, lost_node
  <2>3. CASE ~(a \in agents /\ h = HostOf[a])
    <3>1. node[h].agent_id # a
      BY <2>3 DEF Inv, AgentsAndNodesAgree
    <3> QED BY <1>2, <2>1, <2>3, <3>1 DEF lost_node
  <2> QED BY <2>2, <2>3
<1>6. NewAgentsAreNew'
  BY DEF Inv, NewAgentsAreNew, lost_node
<1> QED BY <1>3, <1>4, <1>5, <1>6 DEF Inv

\* The sync thread's snapshot and its reading of the database.
LEMMA SyncReadInv ==
  ASSUME Inv, sync_begin \/ sync_database_fails \/ sync_database \/ update_nodes PROVE Inv'
<1> USE HostOfAssumption, NoAgentAssumption DEF userVars, mesosVars
<1>1. ASSUME sync' \in Syncs, db' \subseteq Hostnames, sync'.new \in {{}, sync.new, new_agents},
             cleanup_mgr' \in [Hostnames -> Objects \cup {NoObject}],
             UNCHANGED <<agents, new_agents, nodes, node, object, model, paused, mesosVars>>
      PROVE  Inv'
  <2>1. TypeOK'
    BY <1>1 DEF Inv, TypeOK
  <2>2. AgentsAndNodesAgree' /\ OnlineTracksMesos'
    BY <1>1 DEF Inv, AgentsAndNodesAgree, OnlineTracksMesos
  <2>3. NewAgentsAreNew'
    BY <1>1 DEF Inv, NewAgentsAreNew
  <2> QED BY <2>1, <2>2, <2>3 DEF Inv
<1>2. CASE sync_begin
  <2> DEFINE H == nodes \cup HostsOf(new_agents)
  <2>0. /\ sync \in Syncs /\ new_agents \subseteq Agents /\ paused \in BOOLEAN
        /\ H \subseteq Hostnames
        /\ sync' = [sync EXCEPT !.pc = "database", !.new = new_agents, !.hosts = H,
                                 !.paused = paused]
    BY <1>2 DEF sync_begin, Inv, TypeOK, HostsOf
  <2> HIDE DEF H
  <2>1. sync' \in Syncs /\ sync'.new = new_agents
    BY Zenon, <2>0 DEF Syncs
  <2> QED BY <1>1, <1>2, <2>1 DEF sync_begin, Inv, TypeOK
<1>3. CASE sync_database_fails
  <2>1. sync' \in Syncs /\ sync'.new = {}
    BY <1>3, IdleSyncType DEF sync_database_fails, IdleSync
  <2> QED BY <1>1, <1>3, <2>1 DEF sync_database_fails, Inv, TypeOK
<1>4. CASE sync_database
  <2>1. db' \subseteq Hostnames
    BY <1>4 DEF sync_database, Inv, TypeOK, Syncs, HostsOf
  <2>2. sync' \in Syncs /\ sync'.new = sync.new
    BY Zenon, <1>4, <2>1 DEF sync_database, Inv, TypeOK, Syncs
  <2> QED BY <1>1, <1>4, <2>1, <2>2 DEF sync_database, Inv, TypeOK
<1>5. CASE update_nodes
  <2>1. sync' \in Syncs /\ sync'.new = {}
    BY <1>5, IdleSyncType DEF update_nodes, IdleSync
  <2>2. cleanup_mgr' \in [Hostnames -> Objects \cup {NoObject}]
    BY <1>5 DEF update_nodes, Inv, TypeOK
  <2> QED BY <1>1, <1>5, <2>1, <2>2 DEF update_nodes, Inv, TypeOK
<1> QED BY <1>2, <1>3, <1>4, <1>5

\* Users, the cluster, and steps that change nothing.
LEMMA EnvironmentInv ==
  ASSUME Inv,
         \/ \E h \in Hostnames : update_node(h)
         \/ PauseScheduler
         \/ \E a \in Agents : AgentStartsOrStops(a)
         \/ UNCHANGED vars
  PROVE  Inv'
<1> USE DEF userVars, mesosVars, vars
<1>1. model' \in [Hostnames -> Models] /\ paused' \in BOOLEAN /\ alive' \subseteq Agents
  <2>1. CASE \E h \in Hostnames : update_node(h)
    <3>1. PICK h \in Hostnames : \/ model' = [model EXCEPT ![h].is_active = ~@]
                                 \/ model' = [model EXCEPT ![h].is_paused = ~@]
      BY <2>1 DEF update_node
    <3>2. ASSUME NEW m \in Models
          PROVE  [m EXCEPT !.is_active = ~@] \in Models /\ [m EXCEPT !.is_paused = ~@] \in Models
      BY Zenon DEF Models
    <3>3. model \in [Hostnames -> Models] /\ paused' = paused /\ alive' = alive
      BY <2>1 DEF Inv, TypeOK, update_node
    <3>4. model' \in [Hostnames -> Models]
      BY ZenonT(30), <3>1, <3>2, <3>3
    <3> QED BY <3>3, <3>4 DEF Inv, TypeOK
  <2>2. CASE PauseScheduler
    BY <2>2 DEF PauseScheduler, Inv, TypeOK
  <2>3. CASE \E a \in Agents : AgentStartsOrStops(a)
    BY <2>3 DEF AgentStartsOrStops, Inv, TypeOK
  <2>4. CASE UNCHANGED vars
    BY <2>4 DEF Inv, TypeOK
  <2> QED BY <2>1, <2>2, <2>3, <2>4
<1>2. UNCHANGED <<agents, new_agents, nodes, node, object, cleanup_mgr, sync, db, up>>
  BY DEF update_node, PauseScheduler, AgentStartsOrStops
<1>3. TypeOK'
  BY <1>1, <1>2 DEF Inv, TypeOK
<1>4. AgentsAndNodesAgree' /\ OnlineTracksMesos' /\ NewAgentsAreNew'
  BY <1>2 DEF Inv, AgentsAndNodesAgree, OnlineTracksMesos, NewAgentsAreNew
<1> QED BY <1>3, <1>4 DEF Inv

\* A host's node after its new agents: the last one, online if it is still up.
LEMMA WithNewAgentFacts ==
  ASSUME Inv, NEW h \in Hostnames, NEW a \in sync.new, HostOf[a] = h
  PROVE  /\ WithNewAgent(h, a) \in NodeRecords
         /\ WithNewAgent(h, a).agent_id = a
         /\ WithNewAgent(h, a).is_online <=> a \in up
<1> USE HostOfAssumption, NoAgentAssumption
<1> DEFINE old == IF h \in nodes THEN node[h] ELSE NewNode(a, sync.model[h], sync.paused)
           n == IF NewAt(h) \subseteq StillNew(NewAt(h)) THEN old ELSE Offline(old)
<1>1. a \in Agents /\ a # NoAgent /\ sync.model[h] \in Models /\ sync.paused \in BOOLEAN
  BY DEF Inv, TypeOK, Syncs
<1>2. old \in NodeRecords
  BY <1>1, NewNodeFacts DEF Inv, TypeOK
<1>3. n \in NodeRecords
  BY <1>2, OfflineFacts
<1>4. WithNewAgent(h, a) = IF a \in StillNew(NewAt(h)) THEN update_from_mesos(n, a, TRUE)
                           ELSE update_from_mesos(n, a, FALSE)
  BY DEF WithNewAgent
<1> HIDE DEF old, n
<1>5. a \in StillNew(NewAt(h)) <=> a \in up
  BY DEF StillNew, NewAt, Inv, NewAgentsAreNew
<1>6. /\ update_from_mesos(n, a, TRUE) \in NodeRecords
      /\ update_from_mesos(n, a, TRUE).agent_id = a
      /\ update_from_mesos(n, a, TRUE).is_online
  BY ZenonT(30), <1>1, <1>3, FromMesosFacts
<1>7. /\ update_from_mesos(n, a, FALSE) \in NodeRecords
      /\ update_from_mesos(n, a, FALSE).agent_id = a
      /\ ~update_from_mesos(n, a, FALSE).is_online
  BY ZenonT(30), <1>1, <1>3, FromMesosFacts
<1>8. CASE a \in StillNew(NewAt(h))
  <2>1. WithNewAgent(h, a) = update_from_mesos(n, a, TRUE)
    BY <1>4, <1>8, Zenon
  <2> QED BY <1>5, <1>6, <1>8, <2>1, Zenon
<1>9. CASE a \notin StillNew(NewAt(h))
  <2>1. WithNewAgent(h, a) = update_from_mesos(n, a, FALSE)
    BY <1>4, <1>9, Zenon
  <2> QED BY <1>5, <1>7, <1>9, <2>1, Zenon
<1> QED BY <1>8, <1>9

\* The second locked section of sync_with_database.
LEMMA SyncApplyInv ==
  ASSUME Inv, sync_apply
  PROVE  Inv' /\ \A a \in agents \ agents' : a \notin up \/ HostOf[a] \in HostsOf(sync.new)
<1> USE HostOfAssumption, NoAgentAssumption DEF userVars, mesosVars
<1>1. PICK last \in [HostsOf(sync.new) -> sync.new] :
        /\ \A h \in DOMAIN last : HostOf[last[h]] = h
        /\ LET known == nodes \cup DOMAIN last
               n == [h \in Hostnames |->
                      IF h \in DOMAIN last THEN WithNewAgent(h, last[h]) ELSE node[h]]
               m == [h \in Hostnames |->
                      IF h \notin sync.rows THEN n[h]
                      ELSE IF h \in known THEN update_from_model(n[h], sync.model[h], sync.paused)
                      ELSE FromDatabase(h)]
               removed == Removed(m, known)
           IN  /\ nodes' = (known \cup sync.rows) \ removed
               /\ node' = [h \in Hostnames |-> IF h \in removed THEN Absent ELSE m[h]]
               /\ agents' = AgentsReplaced(last) \ {m[h].agent_id : h \in removed}
  BY ZenonT(30) DEF sync_apply
<1> DEFINE known == nodes \cup DOMAIN last
           n == [h \in Hostnames |->
                  IF h \in DOMAIN last THEN WithNewAgent(h, last[h]) ELSE node[h]]
           m == [h \in Hostnames |->
                  IF h \notin sync.rows THEN n[h]
                  ELSE IF h \in known THEN update_from_model(n[h], sync.model[h], sync.paused)
                  ELSE FromDatabase(h)]
           removed == Removed(m, known)
<1>2. /\ nodes' = (known \cup sync.rows) \ removed
      /\ node' = [h \in Hostnames |-> IF h \in removed THEN Absent ELSE m[h]]
      /\ agents' = AgentsReplaced(last) \ {m[h].agent_id : h \in removed}
  BY <1>1
<1>3. /\ DOMAIN last \subseteq Hostnames /\ known \subseteq Hostnames
      /\ sync.rows \subseteq Hostnames /\ removed \subseteq known \cap sync.rows
      /\ sync.new \subseteq Agents /\ sync \in Syncs
  BY DEF Inv, TypeOK, Syncs, HostsOf, Removed
<1>4. \A h \in DOMAIN last : last[h] \in sync.new /\ HostOf[last[h]] = h
  BY <1>1
<1>5. \A h \in Hostnames : n[h] \in NodeRecords
  BY <1>3, <1>4, WithNewAgentFacts DEF Inv, TypeOK
<1>6. \A h \in DOMAIN last : n[h].agent_id = last[h] /\ (n[h].is_online <=> last[h] \in up)
  BY <1>3, <1>4, WithNewAgentFacts
<1>7. \A h \in nodes \ DOMAIN last : n[h] = node[h]
  BY DEF Inv, TypeOK
<1>8. \A h \in Hostnames : /\ FromDatabase(h) \in NodeRecords
                           /\ FromDatabase(h).agent_id = NoAgent
                           /\ ~FromDatabase(h).is_online
  BY <1>3, NewNodeFacts, OfflineFacts DEF FromDatabase, Syncs
<1> HIDE DEF n
<1>9. \A h \in Hostnames : m[h] \in NodeRecords
  BY <1>3, <1>5, <1>8, FromModelFacts DEF Syncs
<1>10. \A h \in known : m[h].agent_id = n[h].agent_id /\ m[h].is_online = n[h].is_online
  BY <1>3, <1>5, FromModelFacts DEF Syncs
<1>11. \A h \in sync.rows \ known : m[h].agent_id = NoAgent /\ ~m[h].is_online
  BY <1>3, <1>8
<1> HIDE DEF m
<1>11a. \A h \in removed : ~m[h].is_online
  BY DEF Removed, should_be_removed
<1> HIDE DEF removed
<1>12. \A h \in known : m[h].agent_id # NoAgent =>
         HostOf[m[h].agent_id] = h /\ m[h].agent_id \in AgentsReplaced(last)
  <2> SUFFICES ASSUME NEW h \in known, m[h].agent_id # NoAgent
               PROVE  HostOf[m[h].agent_id] = h /\ m[h].agent_id \in AgentsReplaced(last)
    OBVIOUS
  <2>1. CASE h \in DOMAIN last
    BY <2>1, <1>4, <1>6, <1>10 DEF AgentsReplaced
  <2>2. CASE h \notin DOMAIN last
    <3>1. h \in nodes /\ m[h].agent_id = node[h].agent_id
      BY <2>2, <1>7, <1>10
    <3> QED BY <3>1, <2>2 DEF AgentsReplaced, Inv, AgentsAndNodesAgree
  <2> QED BY <2>1, <2>2
<1>13. \A a \in AgentsReplaced(last) : HostOf[a] \in known /\ m[HostOf[a]].agent_id = a
  <2> SUFFICES ASSUME NEW a \in AgentsReplaced(last)
               PROVE  HostOf[a] \in known /\ m[HostOf[a]].agent_id = a
    OBVIOUS
  <2>1. CASE \E h \in DOMAIN last : a = last[h]
    BY <2>1, <1>4, <1>6, <1>10
  <2>2. CASE a \in agents /\ HostOf[a] \notin DOMAIN last
    <3>1. HostOf[a] \in nodes /\ node[HostOf[a]].agent_id = a
      BY <2>2 DEF Inv, AgentsAndNodesAgree
    <3> QED BY <2>2, <3>1, <1>7, <1>10
  <2> QED BY <2>1, <2>2 DEF AgentsReplaced
<1>14. \A a : a \in agents' <=> a \in AgentsReplaced(last) /\ \A h \in removed : m[h].agent_id # a
  BY <1>2
<1>15. \A h \in nodes' : h \in Hostnames /\ h \notin removed /\ node'[h] = m[h]
  BY <1>2, <1>3
<1>16. AgentsAndNodesAgree'
  <2>1. ASSUME NEW a \in agents' PROVE HostOf[a] \in nodes' /\ node'[HostOf[a]].agent_id = a
    <3>1. HostOf[a] \in known /\ m[HostOf[a]].agent_id = a /\ HostOf[a] \notin removed
      BY <1>13, <1>14
    <3> QED BY <1>2, <1>15, <3>1
  <2>2. ASSUME NEW h \in nodes', node'[h].agent_id # NoAgent
        PROVE  node'[h].agent_id \in agents' /\ HostOf[node'[h].agent_id] = h
    <3>1. node'[h] = m[h] /\ h \in known /\ h \notin removed
      BY <1>2, <1>11, <1>15, <2>2
    <3>2. HostOf[m[h].agent_id] = h /\ m[h].agent_id \in AgentsReplaced(last)
      BY <1>12, <2>2, <3>1
    <3>3. \A g \in removed : m[g].agent_id # m[h].agent_id
      BY <1>3, <1>12, <2>2, <3>1, <3>2
    <3> QED BY <1>14, <3>1, <3>2, <3>3
  <2> QED BY <2>1, <2>2 DEF AgentsAndNodesAgree
<1>17. OnlineTracksMesos'
  <2> SUFFICES ASSUME NEW h \in nodes'
               PROVE  node'[h].is_online <=> node'[h].agent_id \in up'
    BY DEF OnlineTracksMesos
  <2>1. node'[h] = m[h] /\ up' = up /\ up \subseteq Agents
    BY Zenon, <1>15 DEF sync_apply, Inv, TypeOK
  <2>2. CASE h \in DOMAIN last
    BY <2>1, <2>2, <1>6, <1>10
  <2>3. CASE h \in nodes \ DOMAIN last
    BY <2>1, <2>3, <1>7, <1>10 DEF Inv, OnlineTracksMesos
  <2>4. CASE h \notin known
    BY <2>1, <2>4, <1>2, <1>11
  <2> QED BY <2>2, <2>3, <2>4
<1>18. agents' \subseteq Agents /\ agents' \subseteq agents \cup sync.new
  BY <1>2, <1>3, <1>4 DEF AgentsReplaced, Inv, TypeOK
<1>19. sync'.new = {} /\ sync' \in Syncs
  BY Zenon, IdleSyncType DEF sync_apply, IdleSync, Syncs
<1>20. NewAgentsAreNew'
  BY Zenon, <1>18, <1>19 DEF sync_apply, Inv, NewAgentsAreNew
<1>21. object' \in [Hostnames -> Objects \cup {NoObject}]
  <2>1. \A h \in Hostnames : NewObject(h) \in Objects
    BY DEF NewObject, Objects
  <2> QED BY <2>1 DEF sync_apply, Inv, TypeOK
<1>22. nodes' \subseteq Hostnames /\ node' \in [Hostnames -> NodeRecords]
  BY <1>2, <1>3, <1>9, AbsentType
<1>23. TypeOK'
  BY Zenon, <1>18, <1>19, <1>21, <1>22 DEF sync_apply, Inv, TypeOK
<1>24. ASSUME NEW a \in agents, a \notin agents', HostOf[a] \notin HostsOf(sync.new)
       PROVE  a \notin up
  <2>1. a \in AgentsReplaced(last) /\ HostOf[a] \notin DOMAIN last
    BY <1>24 DEF AgentsReplaced
  <2>2. PICK h \in removed : m[h].agent_id = a
    BY <1>14, <1>24, <2>1
  <2>3. HostOf[a] = h /\ h \in known
    BY <1>3, <1>12, <2>2 DEF Inv, TypeOK
  <2>4. h \in nodes /\ m[h].is_online = node[h].is_online /\ node[h].agent_id = a
    BY <1>7, <1>10, <2>1, <2>2, <2>3
  <2> QED BY <1>11a, <2>2, <2>4 DEF Inv, OnlineTracksMesos
<1> QED BY <1>16, <1>17, <1>20, <1>23, <1>24 DEF Inv

\* The tables of agents and nodes agree and a node is online exactly when Mesos
\* last said so, for any number of agents and hosts and any interleaving of the
\* callbacks with sync_with_database.
THEOREM InvInductive == Spec => []Inv
<1>1. Init => Inv
  BY InitInv
<1>2. Inv /\ [Next]_vars => Inv'
  <2> SUFFICES ASSUME Inv, [Next]_vars PROVE Inv'
    OBVIOUS
  <2> QED BY RegisterInv, LostInv, SyncReadInv, SyncApplyInv, EnvironmentInv DEF Next, syncing
<1> QED BY <1>1, <1>2, PTL DEF Spec

\* No method of NodeManager meets an agent whose host has no node.
THEOREM AgentsAndNodesCorrect == Spec => []AgentsAndNodesAgree
<1>1. Inv => AgentsAndNodesAgree
  BY DEF Inv
<1> QED BY <1>1, InvInductive, PTL

\* The online flag of a node follows Mesos through the races of the sync thread.
THEOREM OnlineCorrect == Spec => []OnlineTracksMesos
<1>1. Inv => OnlineTracksMesos
  BY DEF Inv
<1> QED BY <1>1, InvInductive, PTL

\* Deprecating a node never drops an agent that still sends offers: whatever order
\* the sync thread, the callbacks and the users' changes come in, an agent leaves
\* _agents only when Mesos reported it lost or a new agent of its host replaces it.
THEOREM AgentsForgottenWhenGone == Spec => ForgottenWhenGone
<1>1. Inv /\ [Next]_vars =>
        [\A a \in agents \ agents' : a \notin up \/ HostOf[a] \in HostsOf(sync.new)]_vars
  <2> SUFFICES ASSUME Inv, [Next]_vars
               PROVE  \/ \A a \in agents \ agents' : a \notin up \/ HostOf[a] \in HostsOf(sync.new)
                      \/ UNCHANGED vars
    OBVIOUS
  <2>1. CASE sync_apply
    BY <2>1, SyncApplyInv
  <2>2. CASE agents' = agents
    BY <2>2
  <2> QED
    BY <2>1, <2>2, Zenon DEF Next, syncing, register_agents, lost_node, sync_begin,
       sync_database_fails, sync_database, update_nodes, update_node, PauseScheduler,
       AgentStartsOrStops
<1> QED BY <1>1, InvInductive, PTL DEF Spec, ForgottenWhenGone

\* Every variable has its type.
THEOREM TypeCorrect == Spec => []TypeOK
<1>1. Inv => TypeOK
  BY DEF Inv
<1> QED BY <1>1, InvInductive, PTL
====

---- MODULE NodeTasksProofs ----
(***************************************************************************)
(* The node and its tasks, for any number of job executions, agents and    *)
(* task objects, and any scenario: the cached state is never stale, no job *)
(* execution is forgotten, and no held task is over.                       *)
(***************************************************************************)
EXTENDS NodeTasks, TLAPS

\* What the methods of a node do to its type, its agent and the tasks it holds.
LEMMA StateType == ASSUME NEW n PROVE StateOf(n) \in NodeStates
BY DEF StateOf, NodeStates

\* m is n after a method that keeps its agent ID, its tasks and its list of executions.
Kept(n, m) ==
  m \in NodeRecords /\ m.agent_id = n.agent_id /\ m.held = n.held /\ m.to_clean = n.to_clean

LEMMA UpdateStateFacts ==
  ASSUME NEW n \in NodeRecords
  PROVE  Kept(n, _update_state(n)) /\ _update_state(n).state = StateOf(_update_state(n))
<1>. DEFINE m == _update_state(n)
<1>1. /\ Kept(n, m) /\ m.state = StateOf(n)
      /\ m.is_active = n.is_active /\ m.is_online = n.is_online
      /\ m.is_scheduler_paused = n.is_scheduler_paused /\ m.is_paused = n.is_paused
      /\ m.errors = n.errors /\ m.is_image_pulled = n.is_image_pulled
      /\ m.is_initial_cleanup_completed = n.is_initial_cleanup_completed
  BY StateType DEF _update_state, NodeRecords, Kept
<1>. HIDE DEF m
<1>2. StateOf(m) = StateOf(n)
  BY <1>1 DEF StateOf
<1>3. Kept(n, m) /\ m.state = StateOf(m)
  BY <1>1, <1>2
<1>. QED  BY <1>3 DEF m

LEMMA ResetFacts ==
  ASSUME NEW n \in NodeRecords PROVE Kept(n, _reset_node(n))
BY Zenon DEF _reset_node, NodeRecords, Kept

LEMMA FromMesosFacts ==
  ASSUME NEW n \in NodeRecords, NEW a \in Agents \cup {NoAgent}, NEW online \in BOOLEAN,
         NEW m, m = update_from_mesos(n, a, online)
  PROVE  /\ m \in NodeRecords /\ m.state = StateOf(m)
         /\ m.agent_id = (IF a = NoAgent THEN n.agent_id ELSE a)
         /\ m.held = n.held /\ m.to_clean = n.to_clean
<1>. DEFINE b == IF a = NoAgent THEN n.agent_id ELSE a
            c == [n EXCEPT !.agent_id = b, !.is_online = online]
<1>1. b \in Agents
  BY DEF NodeRecords
<1>2. m = _update_state(IF online THEN c ELSE _reset_node(c))
  BY DEF update_from_mesos
<1>. HIDE DEF b
<1>3. c \in NodeRecords /\ c.agent_id = b /\ c.held = n.held /\ c.to_clean = n.to_clean
  BY Zenon, <1>1 DEF NodeRecords
<1>. HIDE DEF c
<1>4. PICK d \in NodeRecords : m = _update_state(d) /\ Kept(c, d)
  BY <1>2, <1>3, ResetFacts DEF Kept
<1>5. m \in NodeRecords /\ m.state = StateOf(m) /\ m.agent_id = b /\ m.held = n.held
      /\ m.to_clean = n.to_clean
  BY <1>3, <1>4, UpdateStateFacts DEF Kept
<1>. QED  BY <1>5 DEF b

LEMMA FromModelFacts ==
  ASSUME NEW n \in NodeRecords, NEW mo \in [is_active : BOOLEAN, is_paused : BOOLEAN],
         NEW p \in BOOLEAN, NEW m, m = update_from_model(n, mo, p)
  PROVE  Kept(n, m) /\ m.state = StateOf(m)
<1>. DEFINE c == [n EXCEPT !.is_active = mo.is_active, !.is_paused = mo.is_paused,
                           !.is_scheduler_paused = p]
<1>1. Kept(n, c)
  BY Zenon DEF NodeRecords, Kept
<1>2. m = _update_state(IF mo.is_active THEN c ELSE _reset_node(c))
  BY DEF update_from_model
<1>. HIDE DEF c
<1>3. PICK d \in NodeRecords : m = _update_state(d) /\ Kept(c, d)
  BY <1>1, <1>2, ResetFacts DEF Kept
<1>. QED  BY <1>1, <1>3, UpdateStateFacts DEF Kept

LEMMA NewNodeFacts ==
  ASSUME NEW a \in Agents, NEW mo \in [is_active : BOOLEAN, is_paused : BOOLEAN],
         NEW p \in BOOLEAN, NEW m, m = NewNode(a, mo, p)
  PROVE  /\ m \in NodeRecords /\ m.state = StateOf(m) /\ m.agent_id = a
         /\ m.to_clean = {} /\ \A k \in Kinds : m.held[k] = NoTask
<1>. DEFINE n == [agent_id |-> a, is_active |-> mo.is_active, is_online |-> TRUE,
                  is_paused |-> mo.is_paused, is_scheduler_paused |-> p,
                  is_initial_cleanup_completed |-> FALSE, is_image_pulled |-> FALSE,
                  errors |-> {}, is_health_check_normal |-> TRUE, health_done |-> FALSE,
                  held |-> [k \in Kinds |-> NoTask], to_clean |-> {}, state |-> "READY"]
<1>1. n \in NodeRecords /\ n.agent_id = a /\ n.to_clean = {} /\ \A k \in Kinds : n.held[k] = NoTask
  BY DEF NodeRecords, NodeStates
<1>2. m = _update_state(n)
  BY DEF NewNode
<1>. HIDE DEF n
<1>. QED  BY <1>1, <1>2, UpdateStateFacts DEF Kept

\* The errors and the health of a node are its own affair.
LEMMA ErrorFacts ==
  ASSUME NEW n \in NodeRecords
  PROVE  /\ \A e \in NodeErrors : Kept(n, _error_active(n, e)) /\ Kept(n, _error_inactive(n, e))
         /\ \A S \in SUBSET NodeErrors : Kept(n, HealthChecked(n, S))
<1>1. \A e \in NodeErrors : Kept(n, _error_active(n, e)) /\ Kept(n, _error_inactive(n, e))
  BY DEF _error_active, _error_inactive, NodeRecords, Kept
<1>2. ASSUME NEW S \in SUBSET NodeErrors PROVE Kept(n, HealthChecked(n, S))
  <2>. DEFINE normal == S = {}
              errs == (n.errors \ HEALTH_ERRORS) \cup S
  <2>1. errs \in SUBSET NodeErrors /\ normal \in BOOLEAN
    BY DEF NodeRecords
  <2>2. HealthChecked(n, S) = [n EXCEPT !.health_done = TRUE, !.is_health_check_normal = normal,
                                        !.errors = errs]
    BY DEF HealthChecked
  <2>. HIDE DEF normal, errs
  <2>. QED  BY Zenon, <2>1, <2>2 DEF NodeRecords, Kept
<1>. QED  BY <1>1, <1>2

\* Drop gives up at most the task it is told of.
LEMMA DropFacts ==
  ASSUME NEW n \in NodeRecords, NEW id \in TaskIds, NEW gone \in BOOLEAN,
         NEW m, m = Drop(n, id, gone)
  PROVE  /\ m \in NodeRecords /\ m.agent_id = n.agent_id /\ m.to_clean = n.to_clean
         /\ m.held = [n.held EXCEPT ![id[1]] = IF gone THEN NoTask ELSE n.held[id[1]]]
<1>. DEFINE h == [n.held EXCEPT ![id[1]] = IF gone THEN NoTask ELSE n.held[id[1]]]
<1>1. id[1] \in Kinds
  BY DEF TaskIds
<1>2. h \in [Kinds -> TaskIds \cup {NoTask}]
  BY <1>1 DEF NodeRecords
<1>3. m = [n EXCEPT !.held = h]
  BY DEF Drop
<1>. HIDE DEF h
<1>4. m \in NodeRecords /\ m.agent_id = n.agent_id /\ m.to_clean = n.to_clean /\ m.held = h
  BY <1>2, <1>3 DEF NodeRecords
<1>. QED  BY <1>4 DEF h

\* m is n after a method about task id, which it may give up.
Told(n, m, id, gone) ==
  /\ m \in NodeRecords /\ m.agent_id = n.agent_id /\ m.state = StateOf(m)
  /\ \A k \in Kinds : \/ m.held[k] = n.held[k] /\ ~(n.held[k] = id /\ k = id[1] /\ gone)
                      \/ m.held[k] = NoTask

LEMMA TimeoutFacts ==
  ASSUME NEW n \in NodeRecords, NEW T \in [TaskIds -> NodeTask], NEW id \in TaskIds,
         NEW m, m = handle_task_timeout(n, T, id)
  PROVE  Told(n, m, id, T[id].ended) /\ m.to_clean = n.to_clean
<1>1. id[1] \in Kinds /\ T[id].ended \in BOOLEAN
  BY DEF TaskIds, NodeTask
<1>2. CASE ~Holds(n, id)
  BY <1>1, <1>2, UpdateStateFacts DEF handle_task_timeout, Holds, Kept, Told
<1>3. CASE Holds(n, id)
  <2>. DEFINE d == Drop(n, id, T[id].ended)
  <2>1. /\ d \in NodeRecords /\ d.agent_id = n.agent_id /\ d.to_clean = n.to_clean
        /\ d.held = [n.held EXCEPT ![id[1]] = IF T[id].ended THEN NoTask ELSE n.held[id[1]]]
    BY <1>1, DropFacts
  <2>2. m = _update_state(TimedOut(d, id[1]))
    BY <1>3 DEF handle_task_timeout
  <2>. HIDE DEF d
  <2>3. Kept(d, TimedOut(d, id[1]))
    <3>1. {"HEALTH_TIMEOUT"} \in SUBSET NodeErrors /\ "CLEANUP" \in NodeErrors /\ "IMAGE_PULL" \in NodeErrors
      BY DEF NodeErrors, HEALTH_ERRORS
    <3>2. CASE id[1] = "cleanup"
      BY <2>1, <3>1, <3>2, ErrorFacts DEF TimedOut
    <3>3. CASE id[1] = "health"
      BY <2>1, <3>1, <3>3, ErrorFacts DEF TimedOut
    <3>4. CASE id[1] = "pull"
      BY <2>1, <3>1, <3>4, ErrorFacts DEF TimedOut
    <3>. QED  BY <1>1, <3>2, <3>3, <3>4 DEF Kinds
  <2>4. Kept(d, m) /\ m.state = StateOf(m)
    BY <2>2, <2>3, UpdateStateFacts DEF Kept
  <2>5. n.held \in [Kinds -> TaskIds \cup {NoTask}]
    BY DEF NodeRecords
  <2>6. \A k \in Kinds : m.held[k] = IF k = id[1] /\ T[id].ended THEN NoTask ELSE n.held[k]
    BY <1>1, <2>1, <2>4, <2>5 DEF Kept
  <2>. QED  BY <2>1, <2>4, <2>6 DEF Kept, Told
<1>. QED  BY <1>2, <1>3

\* A finished cleanup task takes its executions off the list; nothing else does.
LEMMA UpdateFacts ==
  ASSUME NEW n \in NodeRecords, NEW T \in [TaskIds -> NodeTask], NEW id \in TaskIds,
         NEW s, NEW code \in HealthFailures, NEW m, m = handle_task_update(n, T, id, s, code)
  PROVE  /\ Told(n, m, id, s = "LOST" \/ T[id].ended)
         /\ m.to_clean = n.to_clean \/ (s = "FINISHED" /\ m.to_clean = n.to_clean \ T[id].exes)
<1>. DEFINE gone == s = "LOST" \/ T[id].ended
<1>1. id[1] \in Kinds /\ gone \in BOOLEAN /\ T[id].exes \in SUBSET JobExes
  BY DEF TaskIds, NodeTask
<1>2. CASE ~Holds(n, id)
  BY <1>1, <1>2, UpdateStateFacts DEF handle_task_update, Holds, Kept, Told
<1>3. CASE Holds(n, id)
  <2>. DEFINE u == TaskUpdated(n, T, id, s, code)
  <2>1. /\ u \in NodeRecords /\ u.agent_id = n.agent_id /\ u.held = n.held
        /\ u.to_clean = n.to_clean \/ (s = "FINISHED" /\ u.to_clean = n.to_clean \ T[id].exes)
    <3>1. /\ {} \in SUBSET NodeErrors /\ {code} \in SUBSET NodeErrors
          /\ "CLEANUP" \in NodeErrors /\ "IMAGE_PULL" \in NodeErrors
      BY DEF NodeErrors, HealthFailures
    <3>2. CASE id[1] = "cleanup"
      <4>1. u = _handle_cleanup_task_update(n, T[id].exes, s)
        BY <3>2 DEF TaskUpdated
      <4>2. CASE s = "FINISHED"
        <5>. DEFINE c == IF T[id].exes = {} THEN [n EXCEPT !.is_initial_cleanup_completed = TRUE]
                         ELSE [n EXCEPT !.to_clean = @ \ T[id].exes]
        <5>1. /\ c \in NodeRecords /\ c.agent_id = n.agent_id /\ c.held = n.held
              /\ c.to_clean = n.to_clean \/ c.to_clean = n.to_clean \ T[id].exes
          BY Zenon, <1>1 DEF NodeRecords
        <5>2. u = _error_inactive(c, "CLEANUP")
          BY <4>1, <4>2 DEF _handle_cleanup_task_update
        <5>. HIDE DEF c, u
        <5>. QED  BY Zenon, <3>1, <4>2, <5>1, <5>2, ErrorFacts DEF Kept
      <4>3. CASE s = "FAILED"
        <5>1. u = _error_active(n, "CLEANUP")
          BY <4>1, <4>3 DEF _handle_cleanup_task_update
        <5>2. Kept(n, _error_active(n, "CLEANUP"))
          BY <3>1, ErrorFacts
        <5>. HIDE DEF u
        <5>. QED  BY <5>1, <5>2 DEF Kept
      <4>4. CASE s \notin {"FINISHED", "FAILED"}
        BY <4>1, <4>4 DEF _handle_cleanup_task_update
      <4>. QED  BY <4>2, <4>3, <4>4
    <3>3. CASE id[1] = "health"
      <4>1. u \in {n, HealthChecked(n, {}), HealthChecked(n, {code})}
        BY <3>3 DEF TaskUpdated, _handle_health_task_update
      <4>2. Kept(n, HealthChecked(n, {})) /\ Kept(n, HealthChecked(n, {code}))
        BY <3>1, ErrorFacts
      <4>. HIDE DEF u
      <4>. QED  BY <4>1, <4>2 DEF Kept
    <3>4. CASE id[1] = "pull"
      <4>. DEFINE c == [n EXCEPT !.is_image_pulled = TRUE]
      <4>1. Kept(n, c)
        BY Zenon DEF Kept, NodeRecords
      <4>2. u \in {n, _error_inactive(c, "IMAGE_PULL"), _error_active(n, "IMAGE_PULL")}
        BY <3>4 DEF TaskUpdated, _handle_pull_task_update
      <4>. HIDE DEF u, c
      <4>3. Kept(c, _error_inactive(c, "IMAGE_PULL")) /\ Kept(n, _error_active(n, "IMAGE_PULL"))
        BY <3>1, <4>1, ErrorFacts DEF Kept
      <4>. QED  BY <4>1, <4>2, <4>3 DEF Kept
    <3>. HIDE DEF u
    <3>. QED  BY <1>1, <3>2, <3>3, <3>4 DEF Kinds
  <2>2. m = _update_state(Drop(u, id, gone))
    BY <1>3 DEF handle_task_update
  <2>. HIDE DEF u, gone
  <2>. DEFINE d == Drop(u, id, gone)
  <2>3. /\ d \in NodeRecords /\ d.agent_id = u.agent_id /\ d.to_clean = u.to_clean
        /\ d.held = [u.held EXCEPT ![id[1]] = IF gone THEN NoTask ELSE u.held[id[1]]]
    BY <1>1, <2>1, DropFacts
  <2>. HIDE DEF d
  <2>4. Kept(d, m) /\ m.state = StateOf(m)
    BY <2>2, <2>3, UpdateStateFacts DEF d
  <2>5. n.held \in [Kinds -> TaskIds \cup {NoTask}]
    BY DEF NodeRecords
  <2>6. \A k \in Kinds : m.held[k] = IF k = id[1] /\ gone THEN NoTask ELSE n.held[k]
    BY <1>1, <2>1, <2>3, <2>4, <2>5 DEF Kept
  <2>7. Told(n, m, id, gone)
    BY <2>1, <2>3, <2>4, <2>6 DEF Kept, Told
  <2>. QED  BY <2>1, <2>3, <2>4, <2>7 DEF Kept, gone
<1>. QED  BY <1>2, <1>3

-----------------------------------------------------------------------------
(* The inductive invariant: a cleanup task whose end is reported as         *)
(* FINISHED has removed its executions from the host, and the tasks the     *)
(* node holds are of their kind.                                            *)

CleanInv ==
  /\ \A id \in TaskIds : mesos[id] = "FINISHED" => task[id].exes \subseteq cleaned
  /\ cb # NoUpdate /\ cb.status = "FINISHED" => task[cb.id].exes \subseteq cleaned

HeldKind ==
  \A k \in Kinds : node.held[k] # NoTask => node.held[k] \in TaskIds /\ node.held[k][1] = k

Inv == TypeOK /\ StateIsCurrent /\ NotForgotten /\ CleanInv /\ HeldKind

LEMMA UnusedType == Unused \in NodeTask
BY FirstAgentAssumption DEF Unused, NewNodeTask, NodeTask

\* A task object in use stays what it is.
LEMMA CollectedFacts ==
  ASSUME NEW T \in [TaskIds -> NodeTask], task' = Collected(T)
  PROVE  /\ task' \in [TaskIds -> NodeTask]
         /\ \A i \in TaskIds : i \in InUse' => task'[i] = T[i]
BY UnusedType DEF Collected

LEMMA InUseFacts ==
  ASSUME TypeOK
  PROVE  /\ \A k \in Kinds : node.held[k] # NoTask => node.held[k] \in InUse
         /\ \A i \in TaskIds : mesos[i] # "none" => i \in InUse
         /\ cb.id \in InUse /\ taskMgr \subseteq InUse
BY DEF InUse, Held

\* get_next_tasks keeps the tasks that are not stale and makes new objects.
LEMMA GetNextFacts ==
  ASSUME Inv, NEW passed, get_next_tasks(passed)
  PROVE  /\ node' \in NodeRecords /\ StateIsCurrent'
         /\ node'.to_clean = node.to_clean /\ node'.agent_id = node.agent_id
         /\ task' \in [TaskIds -> NodeTask]
         /\ sched' \in [pc : {"idle", "launch", "driver"}, tasks : SUBSET TaskIds]
         /\ \A i \in TaskIds : i \in InUse /\ i \in InUse' => task'[i] = task[i]
         /\ \A k \in Kinds :
              \/ node'.held[k] = NoTask
              \/ /\ node'.held[k] = node.held[k] /\ ~Stale(k)
                 /\ node.held[k] \in TaskIds /\ node.held[k][1] = k
                 /\ task'[node.held[k]] = task[node.held[k]]
              \/ /\ node'.held[k] \in FreeIds(k)
                 /\ \E e \in SUBSET JobExes :
                      task'[node'.held[k]] = NewNodeTask(node.agent_id, e)
<1>. DEFINE made == {k \in Kinds : Creates(k, passed)}
            held == [k \in Kinds |-> IF k \in made THEN NewId(k)
                                     ELSE IF Stale(k) THEN NoTask ELSE node.held[k]]
            ready == {k \in scenario.schedulable :
                        /\ IsReadyFor(node, k, passed)
                        /\ held[k] # NoTask
                        /\ k \in made \/ ~task[held[k]].launched}
<1>1. PICK batch \in (IF "cleanup" \in made THEN CleanupBatches(node, MaxPerCleanup) ELSE {{}}) :
        task' = Collected([i \in TaskIds |->
                     IF i[1] \in made /\ i = held[i[1]]
                     THEN NewNodeTask(node.agent_id, IF i[1] = "cleanup" THEN batch ELSE {})
                     ELSE task[i]])
  BY Zenon DEF get_next_tasks
<1>2. /\ \A k \in made : FreeIds(k) # {}
      /\ node' = [node EXCEPT !.held = held]
      /\ sched' = [pc |-> "launch", tasks |-> {held[k] : k \in ready}]
      /\ UNCHANGED <<taskMgr, cb, timeouts, mesos, given, cleaned, faulty, scenario>>
  BY DEF get_next_tasks, hostVars
<1>3. node \in NodeRecords /\ task \in [TaskIds -> NodeTask] /\ scenario.schedulable \subseteq Kinds
  BY ScenariosAssumption DEF Inv, TypeOK
<1>4. batch \in SUBSET JobExes
  BY <1>3 DEF CleanupBatches, NodeRecords
<1>5. \A k \in made : /\ NewId(k) \in FreeIds(k) /\ NewId(k) \in TaskIds
                      /\ NewId(k)[1] = k /\ NewId(k) \notin InUse
  BY <1>2 DEF NewId, FreeIds
<1>6. \A k \in Kinds : held[k] = IF k \in made THEN NewId(k)
                                 ELSE IF Stale(k) THEN NoTask ELSE node.held[k]
  OBVIOUS
<1>7. held \in [Kinds -> TaskIds \cup {NoTask}]
  BY <1>3, <1>5 DEF NodeRecords
<1>8. made \subseteq Kinds
  OBVIOUS
<1>. DEFINE T == [i \in TaskIds |->
                     IF i[1] \in made /\ i = held[i[1]]
                     THEN NewNodeTask(node.agent_id, IF i[1] = "cleanup" THEN batch ELSE {})
                     ELSE task[i]]
<1>9. \A e \in SUBSET JobExes : NewNodeTask(node.agent_id, e) \in NodeTask
  BY <1>3 DEF NewNodeTask, NodeTask, NodeRecords
<1>10. T \in [TaskIds -> NodeTask]
  <2>. HIDE DEF made, held
  <2>. QED  BY <1>3, <1>4, <1>9
<1>11. task' \in [TaskIds -> NodeTask] /\ \A i \in TaskIds : i \in InUse' => task'[i] = T[i]
  <2>1. task' = Collected(T)
    BY <1>1
  <2>. HIDE DEF T
  <2>. QED  BY <1>10, <2>1, CollectedFacts
<1>12. \A i \in TaskIds : T[i] = IF i[1] \in made /\ i = held[i[1]]
                                THEN NewNodeTask(node.agent_id, IF i[1] = "cleanup" THEN batch ELSE {})
                                ELSE task[i]
  OBVIOUS
<1>. HIDE DEF made, held, ready, T
<1>13. sched' \in [pc : {"idle", "launch", "driver"}, tasks : SUBSET TaskIds]
  <2>1. \A k \in ready : k \in Kinds /\ held[k] # NoTask
    BY <1>3 DEF ready
  <2>2. {held[k] : k \in ready} \in SUBSET TaskIds
    BY <1>7, <2>1
  <2>. QED  BY <1>2, <2>2
<1>14. /\ node' \in NodeRecords /\ node'.held = held /\ node'.agent_id = node.agent_id
       /\ node'.to_clean = node.to_clean /\ node'.state = node.state
  BY <1>2, <1>3, <1>7 DEF NodeRecords
<1>15. StateIsCurrent'
  <2>1. /\ node'.is_active = node.is_active /\ node'.is_online = node.is_online
        /\ node'.is_scheduler_paused = node.is_scheduler_paused /\ node'.is_paused = node.is_paused
        /\ node'.errors = node.errors /\ node'.is_image_pulled = node.is_image_pulled
        /\ node'.is_initial_cleanup_completed = node.is_initial_cleanup_completed
    BY <1>2, <1>3 DEF NodeRecords
  <2>. QED  BY <1>14, <2>1 DEF Inv, StateIsCurrent, StateOf
<1>16. ASSUME NEW i \in TaskIds, i \in InUse, i \in InUse' PROVE task'[i] = task[i]
  <2>1. ~(i[1] \in made /\ i = held[i[1]])
    BY <1>5, <1>6, <1>8, <1>16
  <2>. QED  BY <1>11, <1>12, <1>16, <2>1
<1>17. \A k \in Kinds : held[k] # NoTask => held[k] \in TaskIds /\ held[k] \in InUse'
  BY <1>7, <1>14 DEF InUse, Held
<1>18. ASSUME NEW k \in Kinds, held[k] # NoTask, k \notin made
       PROVE  /\ held[k] = node.held[k] /\ ~Stale(k) /\ node.held[k] \in TaskIds
              /\ node.held[k][1] = k /\ task'[node.held[k]] = task[node.held[k]]
  <2>1. held[k] = node.held[k] /\ ~Stale(k)
    BY <1>6, <1>18
  <2>2. node.held[k] \in TaskIds /\ node.held[k][1] = k /\ node.held[k] \in InUse
    BY <1>18, <2>1, InUseFacts DEF Inv, HeldKind
  <2>. QED  BY <1>16, <1>17, <1>18, <2>1, <2>2
<1>19. ASSUME NEW k \in made, held[k] # NoTask
       PROVE  /\ held[k] \in FreeIds(k)
              /\ \E e \in SUBSET JobExes : task'[held[k]] = NewNodeTask(node.agent_id, e)
  <2>1. k \in Kinds /\ held[k] = NewId(k) /\ held[k] \in TaskIds /\ held[k][1] = k
    BY <1>5, <1>6, <1>8
  <2>2. task'[held[k]] = NewNodeTask(node.agent_id, IF k = "cleanup" THEN batch ELSE {})
    BY <1>11, <1>12, <1>17, <1>19, <2>1
  <2>. QED  BY <1>4, <1>5, <2>1, <2>2
<1>. QED  BY <1>11, <1>13, <1>14, <1>15, <1>16, <1>18, <1>19

\* A step after which the cleaned executions, the tasks in use and the list of
\* executions are still what the invariant says.
LEMMA StepInv ==
  ASSUME Inv, TypeOK', StateIsCurrent', HeldKind',
         given' \subseteq given \cup node'.to_clean, cleaned \subseteq cleaned',
         node.to_clean \ cleaned' \subseteq node'.to_clean,
         \A i \in TaskIds : mesos'[i] = "FINISHED" =>
            \/ mesos[i] = "FINISHED" /\ task'[i].exes = task[i].exes
            \/ task'[i].exes \subseteq cleaned',
         cb' # NoUpdate /\ cb'.status = "FINISHED" =>
            \/ cb' = cb /\ task'[cb.id].exes = task[cb.id].exes
            \/ task'[cb'.id].exes \subseteq cleaned'
  PROVE  Inv'
<1>1. NotForgotten'
  BY DEF Inv, NotForgotten
<1>2. CleanInv'
  BY DEF Inv, CleanInv
<1>. QED  BY <1>1, <1>2 DEF Inv

LEMMA Types ==
  ASSUME TypeOK
  PROVE  /\ node \in NodeRecords /\ task \in [TaskIds -> NodeTask]
         /\ cb # NoUpdate => cb.id \in TaskIds /\ cb.code \in HealthFailures
         /\ node.agent_id \in Agents /\ node.to_clean \in SUBSET JobExes
BY DEF TypeOK, Updates, NodeRecords

\* Tasks in use are untouched when the unused ones go.
LEMMA CollectedInUse ==
  ASSUME Inv, TypeOK', \A i \in TaskIds : i \in InUse' => task'[i] = task[i]
  PROVE  /\ \A i \in TaskIds : mesos'[i] # "none" => task'[i] = task[i]
         /\ cb' # NoUpdate => task'[cb'.id] = task[cb'.id]
<1>1. \A i \in TaskIds : mesos'[i] # "none" => i \in InUse'
  BY DEF InUse
<1>2. cb'.id \in InUse' /\ (cb' # NoUpdate => cb'.id \in TaskIds)
  BY DEF InUse, TypeOK, Updates
<1>. QED  BY <1>1, <1>2

LEMMA GetNextInv ==
  ASSUME Inv, NEW passed, get_next_tasks(passed) PROVE Inv'
<1>1. UNCHANGED <<taskMgr, cb, timeouts, mesos, given, cleaned, faulty, scenario>>
  BY DEF get_next_tasks, hostVars
<1>2. /\ node' \in NodeRecords /\ StateIsCurrent'
      /\ node'.to_clean = node.to_clean /\ task' \in [TaskIds -> NodeTask]
      /\ sched' \in [pc : {"idle", "launch", "driver"}, tasks : SUBSET TaskIds]
      /\ \A i \in TaskIds : i \in InUse /\ i \in InUse' => task'[i] = task[i]
  BY GetNextFacts
<1>3. TypeOK'
  BY <1>1, <1>2 DEF Inv, TypeOK
<1>4. HeldKind'
  <2>1. ASSUME NEW k \in Kinds, node'.held[k] # NoTask
        PROVE  node'.held[k] \in TaskIds /\ node'.held[k][1] = k
    BY <2>1, GetNextFacts DEF FreeIds
  <2>. QED  BY <2>1 DEF HeldKind
<1>5. \A i \in TaskIds : mesos[i] = "FINISHED" => task'[i] = task[i]
  <2>1. \A i \in TaskIds : mesos[i] = "FINISHED" => i \in InUse /\ i \in InUse'
    BY <1>1 DEF InUse
  <2>. QED  BY <1>2, <2>1
<1>6. cb # NoUpdate => task'[cb.id] = task[cb.id]
  <2>1. cb.id \in InUse /\ cb.id \in InUse'
    BY <1>1 DEF InUse
  <2>. QED  BY <1>2, <2>1, Types DEF Inv
<1>. QED  BY <1>1, <1>2, <1>3, <1>4, <1>5, <1>6, StepInv

LEMMA LaunchInv ==
  ASSUME Inv, launch_tasks PROVE Inv'
<1>1. /\ UNCHANGED <<node, cb, timeouts, mesos, given, cleaned, faulty, scenario>>
      /\ task' = [i \in TaskIds |-> IF i \in sched.tasks \ taskMgr THEN launch(task[i]) ELSE task[i]]
      /\ taskMgr' = taskMgr \cup (sched.tasks \ taskMgr)
      /\ sched' = [sched EXCEPT !.pc = "driver"]
  BY DEF launch_tasks, hostVars
<1>2. \A i \in TaskIds : launch(task[i]) \in NodeTask /\ launch(task[i]).exes = task[i].exes
  BY ZenonT(60), Types DEF Inv, launch, NodeTask
<1>3. task' \in [TaskIds -> NodeTask] /\ \A i \in TaskIds : task'[i].exes = task[i].exes
  BY <1>1, <1>2, Types DEF Inv
<1>4. sched' \in [pc : {"idle", "launch", "driver"}, tasks : SUBSET TaskIds] /\ taskMgr' \subseteq TaskIds
  BY <1>1 DEF Inv, TypeOK
<1>5. TypeOK'
  BY <1>1, <1>3, <1>4 DEF Inv, TypeOK
<1>6. StateIsCurrent' /\ HeldKind'
  BY <1>1 DEF Inv, StateIsCurrent, HeldKind
<1>7. cb # NoUpdate => task'[cb.id].exes = task[cb.id].exes
  BY <1>3, Types DEF Inv
<1>. QED  BY <1>1, <1>3, <1>5, <1>6, <1>7, StepInv

LEMMA DriverInv ==
  ASSUME Inv, driver_launchTasks PROVE Inv'
<1>1. PICK lost \in SUBSET sched.tasks :
        mesos' = [i \in TaskIds |-> IF i \in sched.tasks \ lost THEN "active" ELSE mesos[i]]
  BY DEF driver_launchTasks
<1>2. /\ UNCHANGED <<node, taskMgr, cb, timeouts, given, cleaned, faulty, scenario>>
      /\ sched' = IdleSched /\ task' = Collected(task)
  BY DEF driver_launchTasks
<1>3. task' \in [TaskIds -> NodeTask] /\ \A i \in TaskIds : i \in InUse' => task'[i] = task[i]
  BY <1>2, Types, CollectedFacts DEF Inv
<1>4. mesos' \in [TaskIds -> {"none", "active", "LOST"} \cup TERMINAL_STATUSES]
  BY <1>1 DEF Inv, TypeOK
<1>5. TypeOK'
  BY <1>2, <1>3, <1>4 DEF Inv, TypeOK, IdleSched
<1>6. StateIsCurrent' /\ HeldKind'
  BY <1>2 DEF Inv, StateIsCurrent, HeldKind
<1>7. \A i \in TaskIds : mesos'[i] = "FINISHED" => mesos[i] = "FINISHED" /\ task'[i] = task[i]
  BY <1>1, <1>3, <1>5, CollectedInUse
<1>8. cb' # NoUpdate => task'[cb'.id] = task[cb'.id]
  BY <1>3, <1>5, CollectedInUse
<1>. QED  BY <1>2, <1>5, <1>6, <1>7, <1>8, StepInv

\* The first half of an update, as the task manager sees it.
LEMMA StatusUpdateFacts ==
  ASSUME Inv, NEW u \in Updates, statusUpdate(u)
  PROVE  /\ task' \in [TaskIds -> NodeTask] /\ taskMgr' \subseteq taskMgr
         /\ \A i \in TaskIds : /\ task'[i].exes = task[i].exes /\ task'[i].agent = task[i].agent
                               /\ i # u.id => task'[i] = task[i] /\ (i \in taskMgr' <=> i \in taskMgr)
         /\ cb = NoUpdate /\ cb' = u
         /\ UNCHANGED <<node, sched, timeouts, given, cleaned, faulty, scenario>>
<1>1. u.id \in TaskIds /\ task \in [TaskIds -> NodeTask]
  BY Types DEF Inv, Updates
<1>2. /\ update(task[u.id], 0, u.status) \in NodeTask
      /\ update(task[u.id], 0, u.status).exes = task[u.id].exes
      /\ update(task[u.id], 0, u.status).agent = task[u.id].agent
  <2>. DEFINE ended == u.status \in TERMINAL_STATUSES
  <2>1. ended \in BOOLEAN
    OBVIOUS
  <2>2. update(task[u.id], 0, u.status) \in
          {task[u.id], [task[u.id] EXCEPT !.launched = FALSE], [task[u.id] EXCEPT !.ended = ended]}
    BY DEF update
  <2>. HIDE DEF ended
  <2>. QED  BY ZenonT(60), <1>1, <2>1, <2>2 DEF NodeTask
<1>3. \/ UNCHANGED <<task, taskMgr>>
      \/ /\ task' = [task EXCEPT ![u.id] = update(task[u.id], 0, u.status)]
         /\ taskMgr' = taskMgr \/ taskMgr' = taskMgr \ {u.id}
  BY DEF statusUpdate
<1>4. task' \in [TaskIds -> NodeTask]
  BY <1>1, <1>2, <1>3
<1>5. \A i \in TaskIds : /\ task'[i].exes = task[i].exes /\ task'[i].agent = task[i].agent
                         /\ i # u.id => task'[i] = task[i] /\ (i \in taskMgr' <=> i \in taskMgr)
  BY <1>1, <1>2, <1>3
<1>6. taskMgr' \subseteq taskMgr
  BY <1>3
<1>. QED  BY <1>4, <1>5, <1>6 DEF statusUpdate

LEMMA StatusUpdateInv ==
  ASSUME Inv, NEW u \in Updates, statusUpdate(u),
         mesos' = mesos \/ mesos' = [mesos EXCEPT ![u.id] = "none"],
         u.status = "FINISHED" => mesos[u.id] = "FINISHED"
  PROVE  Inv'
<1>1. u.id \in TaskIds
  BY DEF Updates
<1>2. mesos' \in [TaskIds -> {"none", "active", "LOST"} \cup TERMINAL_STATUSES]
  BY <1>1 DEF Inv, TypeOK
<1>3. TypeOK'
  BY <1>2, StatusUpdateFacts DEF Inv, TypeOK
<1>4. StateIsCurrent' /\ HeldKind'
  BY StatusUpdateFacts DEF Inv, StateIsCurrent, HeldKind
<1>5. \A i \in TaskIds : mesos'[i] = "FINISHED" => mesos[i] = "FINISHED"
  BY <1>1 DEF Inv, TypeOK
<1>6. cb' = u /\ (u.status = "FINISHED" => task'[u.id].exes \subseteq cleaned')
  BY <1>1, StatusUpdateFacts DEF Inv, CleanInv
<1>. QED  BY <1>3, <1>4, <1>5, <1>6, StatusUpdateFacts, StepInv

LEMMA UpdatesInv ==
  ASSUME Inv, NEW id \in TaskIds, NEW code \in HealthFailures,
         MesosUpdate(id, code) \/ LostUpdate(id)
  PROVE  Inv'
<1>1. CASE MesosUpdate(id, code)
  <2>. DEFINE s == IF mesos[id] = "active" THEN "RUNNING" ELSE mesos[id]
              u == [id |-> id, agent |-> task[id].agent, code |-> code, status |-> s]
  <2>1. s \in Statuses
    BY <1>1 DEF MesosUpdate, Inv, TypeOK, Statuses
  <2>2. statusUpdate(u) /\ (mesos' = mesos \/ mesos' = [mesos EXCEPT ![id] = "none"])
    BY <1>1 DEF MesosUpdate
  <2>3. s = "FINISHED" => mesos[id] = "FINISHED"
    OBVIOUS
  <2>. HIDE DEF s
  <2>4. u \in Updates /\ u.id = id /\ u.status = s
    BY <2>1, Types DEF Updates, Inv, NodeTask
  <2>. HIDE DEF u
  <2>. QED  BY <2>2, <2>3, <2>4, StatusUpdateInv
<1>2. CASE LostUpdate(id)
  <2>0. PICK a \in {task[id].agent, NoAgent} :
          statusUpdate([id |-> id, agent |-> a, status |-> "LOST", code |-> "HEALTH_FAIL"])
    BY <1>2 DEF LostUpdate
  <2>. DEFINE u == [id |-> id, agent |-> a, status |-> "LOST", code |-> "HEALTH_FAIL"]
  <2>1. statusUpdate(u) /\ mesos' = mesos
    BY <1>2, <2>0 DEF LostUpdate
  <2>2. u \in Updates /\ u.status # "FINISHED"
    BY Types DEF Updates, Statuses, HealthFailures, HEALTH_ERRORS, Inv, NodeTask
  <2>. HIDE DEF u
  <2>. QED  BY <2>1, <2>2, StatusUpdateInv
<1>. QED  BY <1>1, <1>2

\* The node is told of an update or a timeout, or ignores it.
LEMMA ToldHeld ==
  ASSUME Inv, NEW id, NEW gone, node' = node \/ Told(node, node', id, gone)
  PROVE  /\ node' \in NodeRecords /\ StateIsCurrent' /\ HeldKind'
         /\ node'.agent_id = node.agent_id
<1>1. CASE node' = node
  BY <1>1, Types DEF Inv, StateIsCurrent, HeldKind
<1>2. CASE Told(node, node', id, gone)
  BY <1>2, Types DEF Inv, StateIsCurrent, HeldKind, Told
<1>. QED  BY <1>1, <1>2

LEMMA UpdateNodeInv ==
  ASSUME Inv, update_node PROVE Inv'
<1>1. /\ cb # NoUpdate /\ cb' = NoUpdate /\ task' = Collected(task)
      /\ UNCHANGED <<taskMgr, sched, timeouts, mesos, given, cleaned, faulty, scenario>>
  BY DEF update_node, hostVars
<1>2. cb.id \in TaskIds /\ cb.code \in HealthFailures /\ node \in NodeRecords
      /\ task \in [TaskIds -> NodeTask]
  BY <1>1, Types DEF Inv
<1>3. \/ node' = node
      \/ node' = handle_task_update(node, task, cb.id, cb.status, cb.code)
  BY DEF update_node
<1>4. \/ node' = node
      \/ /\ Told(node, node', cb.id, cb.status = "LOST" \/ task[cb.id].ended)
         /\ \/ node'.to_clean = node.to_clean
            \/ cb.status = "FINISHED" /\ node'.to_clean = node.to_clean \ task[cb.id].exes
  BY <1>2, <1>3, UpdateFacts
<1>5. node.to_clean \ cleaned \subseteq node'.to_clean
  BY <1>1, <1>4 DEF Inv, CleanInv
<1>6. node' \in NodeRecords /\ StateIsCurrent' /\ HeldKind'
  <2>. DEFINE gone == cb.status = "LOST" \/ task[cb.id].ended
  <2>1. node' = node \/ Told(node, node', cb.id, gone)
    BY <1>4
  <2>. HIDE DEF gone
  <2>. QED  BY <2>1, ToldHeld
<1>7. task' \in [TaskIds -> NodeTask] /\ \A i \in TaskIds : i \in InUse' => task'[i] = task[i]
  BY <1>1, <1>2, CollectedFacts
<1>8. TypeOK'
  BY <1>1, <1>6, <1>7 DEF Inv, TypeOK
<1>9. \A i \in TaskIds : mesos'[i] = "FINISHED" => mesos[i] = "FINISHED" /\ task'[i] = task[i]
  BY Zenon, <1>1, <1>7, <1>8, CollectedInUse
<1>. QED  BY <1>1, <1>5, <1>6, <1>8, <1>9, StepInv

LEMMA GetTimeoutInv ==
  ASSUME Inv, NEW S, get_timeout_tasks(S) PROVE Inv'
<1>1. /\ UNCHANGED <<node, taskMgr, cb, sched, mesos, given, cleaned, faulty, scenario>>
      /\ task' = [i \in TaskIds |-> IF i \in S THEN check_timeout(task[i]) ELSE task[i]]
      /\ timeouts' \subseteq taskMgr
  BY DEF get_timeout_tasks, hostVars
<1>2. \A i \in TaskIds : check_timeout(task[i]) \in NodeTask /\ check_timeout(task[i]).exes = task[i].exes
  BY ZenonT(60), Types DEF Inv, check_timeout, NodeTask
<1>3. task' \in [TaskIds -> NodeTask] /\ \A i \in TaskIds : task'[i].exes = task[i].exes
  BY <1>1, <1>2, Types DEF Inv
<1>4. TypeOK'
  BY <1>1, <1>3 DEF Inv, TypeOK
<1>5. StateIsCurrent' /\ HeldKind'
  BY <1>1 DEF Inv, StateIsCurrent, HeldKind
<1>6. cb # NoUpdate => task'[cb.id].exes = task[cb.id].exes
  BY <1>3, Types DEF Inv
<1>. QED  BY <1>1, <1>3, <1>4, <1>5, <1>6, StepInv

LEMMA TimeoutNodeInv ==
  ASSUME Inv, NEW id \in TaskIds, timeout_node(id) PROVE Inv'
<1>1. /\ timeouts' = timeouts \ {id} /\ task' = Collected(task)
      /\ UNCHANGED <<taskMgr, cb, sched, mesos, given, cleaned, faulty, scenario>>
  BY DEF timeout_node, hostVars
<1>2. node \in NodeRecords /\ task \in [TaskIds -> NodeTask]
  BY Types DEF Inv
<1>3. node' = node \/ node' = handle_task_timeout(node, task, id)
  BY DEF timeout_node
<1>4. /\ node' = node \/ Told(node, node', id, task[id].ended)
      /\ node'.to_clean = node.to_clean
  BY <1>2, <1>3, TimeoutFacts
<1>5. node' \in NodeRecords /\ StateIsCurrent' /\ HeldKind'
  BY <1>4, ToldHeld
<1>6. task' \in [TaskIds -> NodeTask] /\ \A i \in TaskIds : i \in InUse' => task'[i] = task[i]
  BY <1>1, <1>2, CollectedFacts
<1>7. TypeOK'
  BY <1>1, <1>5, <1>6 DEF Inv, TypeOK
<1>8. \A i \in TaskIds : mesos'[i] = "FINISHED" => mesos[i] = "FINISHED" /\ task'[i] = task[i]
  BY <1>1, <1>6, <1>7, CollectedInUse
<1>9. cb' # NoUpdate => task'[cb'.id] = task[cb'.id]
  BY <1>6, <1>7, CollectedInUse
<1>. QED  BY <1>1, <1>4, <1>5, <1>7, <1>8, <1>9, StepInv

LEMMA AddFinishedInv ==
  ASSUME Inv, NEW e \in JobExes, add_finished(e) PROVE Inv'
<1>1. /\ given' = given \cup {e} /\ node' = [node EXCEPT !.to_clean = @ \cup {e}]
      /\ UNCHANGED <<task, taskMgr, cb, sched, timeouts, mesos, cleaned, faulty, scenario>>
  BY DEF add_finished, add_job_execution
<1>2. /\ node' \in NodeRecords /\ node'.to_clean = node.to_clean \cup {e}
      /\ node'.held = node.held /\ node'.state = node.state
      /\ node'.is_active = node.is_active /\ node'.is_online = node.is_online
      /\ node'.is_scheduler_paused = node.is_scheduler_paused /\ node'.is_paused = node.is_paused
      /\ node'.errors = node.errors /\ node'.is_image_pulled = node.is_image_pulled
      /\ node'.is_initial_cleanup_completed = node.is_initial_cleanup_completed
  BY <1>1, Types DEF Inv, NodeRecords
<1>3. StateIsCurrent' /\ HeldKind'
  BY <1>2 DEF Inv, StateIsCurrent, StateOf, HeldKind
<1>4. TypeOK'
  BY <1>1, <1>2 DEF Inv, TypeOK
<1>. QED  BY <1>1, <1>2, <1>3, <1>4, StepInv

LEMMA MesosTaskEndsInv ==
  ASSUME Inv, NEW id \in TaskIds, NEW s, MesosTaskEnds(id, s) PROVE Inv'
<1>1. /\ mesos' = [mesos EXCEPT ![id] = s] /\ s \in {"FINISHED", "FAILED", "LOST", "KILLED"}
      /\ cleaned' = IF s = "FINISHED" THEN cleaned \cup task[id].exes ELSE cleaned
      /\ UNCHANGED <<node, task, taskMgr, cb, sched, timeouts, given, faulty, scenario>>
  BY DEF MesosTaskEnds
<1>2. mesos' \in [TaskIds -> {"none", "active", "LOST"} \cup TERMINAL_STATUSES]
      /\ cleaned' \subseteq JobExes /\ cleaned \subseteq cleaned'
  BY <1>1, Types DEF Inv, TypeOK, TERMINAL_STATUSES, NodeTask
<1>3. TypeOK' /\ StateIsCurrent' /\ HeldKind'
  BY <1>1, <1>2 DEF Inv, TypeOK, StateIsCurrent, HeldKind
<1>4. \A i \in TaskIds : mesos'[i] = "FINISHED" => mesos[i] = "FINISHED" \/ task[i].exes \subseteq cleaned'
  BY <1>1 DEF Inv, TypeOK
<1>. QED  BY <1>1, <1>2, <1>3, <1>4, StepInv

LEMMA ClusterInv ==
  ASSUME Inv, mesos_changes \/ model_changes PROVE Inv'
<1>1. UNCHANGED <<task, taskMgr, cb, sched, timeouts, mesos, given, cleaned, faulty, scenario>>
  BY Zenon DEF mesos_changes, model_changes, hostVars
<1>2. node \in NodeRecords /\ node.agent_id \in Agents
  BY Types DEF Inv
<1>3. /\ node' \in NodeRecords /\ node'.state = StateOf(node')
      /\ node'.held = node.held /\ node'.to_clean = node.to_clean
  <2>1. CASE mesos_changes
    <3>1. (~node.is_online) \in BOOLEAN /\ NextAgent[node.agent_id] \in Agents
      BY <1>2, NextAgentAssumption DEF NodeRecords
    <3>2. PICK a \in Agents \cup {NoAgent}, online \in BOOLEAN : node' = update_from_mesos(node, a, online)
      BY Zenon, <2>1, <3>1 DEF mesos_changes
    <3>. QED  BY <1>2, <3>2, FromMesosFacts
  <2>2. CASE model_changes
    <3>1. PICK active \in BOOLEAN, p \in BOOLEAN, stopped \in BOOLEAN :
            node' = update_from_model(node, [is_active |-> active, is_paused |-> p], stopped)
      BY <2>2 DEF model_changes
    <3>2. [is_active |-> active, is_paused |-> p] \in [is_active : BOOLEAN, is_paused : BOOLEAN]
      OBVIOUS
    <3>. QED  BY <1>2, <3>1, <3>2, FromModelFacts DEF Kept
  <2>. QED  BY <2>1, <2>2
<1>4. TypeOK' /\ StateIsCurrent' /\ HeldKind'
  BY <1>1, <1>3 DEF Inv, TypeOK, StateIsCurrent, HeldKind
<1>. QED  BY <1>1, <1>3, <1>4, StepInv

LEMMA InitInv == Init => Inv
<1>. SUFFICES ASSUME Init PROVE Inv
  OBVIOUS
<1>1. PICK mo \in [is_active : BOOLEAN, is_paused : BOOLEAN], p \in BOOLEAN :
        node = NewNode(FirstAgent, mo, p)
  <2>1. [is_active |-> TRUE, is_paused |-> FALSE] \in [is_active : BOOLEAN, is_paused : BOOLEAN]
    OBVIOUS
  <2>2. node = NewNode(FirstAgent, [is_active |-> TRUE, is_paused |-> FALSE], FALSE)
    BY DEF Init
  <2>. QED  BY <2>1, <2>2, Zenon
<1>2. /\ node \in NodeRecords /\ node.state = StateOf(node)
      /\ node.to_clean = {} /\ \A k \in Kinds : node.held[k] = NoTask
  BY <1>1, FirstAgentAssumption, NewNodeFacts
<1>3. TypeOK
  <2>1. /\ task \in [TaskIds -> NodeTask] /\ taskMgr = {} /\ timeouts = {} /\ cb = NoUpdate
        /\ given = {} /\ cleaned = {} /\ faulty = TRUE /\ scenario \in Scenarios
    BY UnusedType DEF Init
  <2>2. sched \in [pc : {"idle", "launch", "driver"}, tasks : SUBSET TaskIds]
    BY DEF Init, IdleSched
  <2>3. mesos \in [TaskIds -> {"none", "active", "LOST"} \cup TERMINAL_STATUSES]
    BY DEF Init
  <2>. QED  BY <1>2, <2>1, <2>2, <2>3 DEF TypeOK
<1>. QED  BY Zenon, <1>2, <1>3 DEF Init, Inv, StateIsCurrent, NotForgotten, CleanInv, HeldKind

\* Every step keeps the invariant.
LEMMA NextInv == Inv /\ [Next]_vars => Inv'
<1>. SUFFICES ASSUME Inv, [Next]_vars PROVE Inv'
  OBVIOUS
<1>1. CASE Repair \/ UNCHANGED vars
  <2>1. UNCHANGED <<node, task, taskMgr, cb, sched, timeouts, mesos, given, cleaned, scenario>>
        /\ faulty' \in BOOLEAN
    BY Zenon, <1>1 DEF Repair, vars, Inv, TypeOK
  <2>2. TypeOK' /\ StateIsCurrent' /\ HeldKind'
    BY <2>1 DEF Inv, TypeOK, StateIsCurrent, HeldKind
  <2>. QED  BY <2>1, <2>2, StepInv
<1>2. CASE scheduling
  BY <1>2, GetNextInv, LaunchInv, DriverInv DEF scheduling
<1>3. CASE \/ \E id \in TaskIds, code \in HealthFailures : MesosUpdate(id, code)
           \/ \E id \in TaskIds : LostUpdate(id)
  <2>1. "HEALTH_FAIL" \in HealthFailures
    BY DEF HealthFailures, HEALTH_ERRORS
  <2>. QED  BY <1>3, <2>1, UpdatesInv
<1>4. CASE update_node \/ \E S \in SUBSET TaskIds : get_timeout_tasks(S)
  BY <1>4, UpdateNodeInv, GetTimeoutInv
<1>5. CASE \/ \E id \in TaskIds : timeout_node(id)
           \/ \E e \in JobExes : add_finished(e)
           \/ \E id \in TaskIds, s \in Statuses : MesosTaskEnds(id, s)
  BY <1>5, TimeoutNodeInv, AddFinishedInv, MesosTaskEndsInv
<1>6. CASE mesos_changes \/ model_changes
  BY <1>6, ClusterInv
<1>. QED  BY <1>1, <1>2, <1>3, <1>4, <1>5, <1>6 DEF Next

\* In every reachable state the invariant holds.
THEOREM Invariance == Spec => []Inv
BY InitInv, NextInv, PTL DEF Spec

\* Every variable has its type.
THEOREM TypeCorrect == Spec => []TypeOK
<1>1. Inv => TypeOK
  BY DEF Inv
<1>. QED  BY <1>1, Invariance, PTL

\* The cached state of a node is never stale (Node._update_state), whatever callbacks,
\* timeouts and changes of settings come together.
THEOREM StateCorrect == Spec => []StateIsCurrent
<1>1. Inv => StateIsCurrent
  BY DEF Inv
<1>. QED  BY <1>1, Invariance, PTL

\* NodeCleanup keeps every job execution given to it until a cleanup task that names it
\* has finished, for any number of executions, agent IDs, losses, failures and timeouts.
THEOREM NotForgottenCorrect == Spec => []NotForgotten
<1>1. Inv => NotForgotten
  BY Zenon DEF Inv
<1>. QED  BY <1>1, Invariance, PTL

-----------------------------------------------------------------------------
(* The tasks a node holds, if no agent ID comes back once the node has had  *)
(* another one. A held task whose update is in the callback may be over;    *)
(* that update names the task's agent, so the second half of the callback   *)
(* reaches the node, which gives the task up. An update without an agent    *)
(* says LOST, and leaves the task as it was before its launch.              *)

AgentsDoNotReturn(Rank) ==
  /\ Rank \in [Agents -> Nat]
  /\ \A a \in Agents : NextAgent[a] # a => Rank[a] < Rank[NextAgent[a]]

LiveTask(id) ==
  LET matches == task[id].launched <=> id \in taskMgr
  IN  IF task[id].ended THEN id = cb.id /\ cb.agent = task[id].agent ELSE matches

LiveInv(Rank) ==
  \A k \in Kinds : node.held[k] # NoTask =>
    /\ Rank[task[node.held[k]].agent] <= Rank[node.agent_id]
    /\ ~Stale(k) => LiveTask(node.held[k])

\* A step in which the node takes no new task and keeps its agent ID.
LEMMA LiveStep ==
  ASSUME NEW Rank, Inv, LiveInv(Rank), node'.agent_id = node.agent_id,
         \A k \in Kinds : \A id \in TaskIds :
           node'.held[k] = id /\ id # NoTask =>
             /\ node.held[k] = id /\ task'[id].agent = task[id].agent
             /\ task[id].agent = node.agent_id /\ LiveTask(id) => LiveTask(id)',
         HeldKind'
  PROVE  LiveInv(Rank)'
<1>. SUFFICES ASSUME NEW k \in Kinds, node'.held[k] # NoTask
              PROVE  /\ Rank[task'[node'.held[k]].agent] <= Rank[node'.agent_id]
                     /\ ~Stale(k)' => LiveTask(node.held[k])'
  BY DEF LiveInv
<1>1. PICK id \in TaskIds : id = node'.held[k]
  BY DEF HeldKind
<1>2. /\ node.held[k] = id /\ task'[id].agent = task[id].agent
      /\ task[id].agent = node.agent_id /\ LiveTask(id) => LiveTask(id)'
  BY <1>1
<1>3. Rank[task[id].agent] <= Rank[node.agent_id] /\ (~Stale(k) => LiveTask(id))
  BY Zenon, <1>1, <1>2 DEF LiveInv
<1>4. ~Stale(k)' => task[id].agent = node.agent_id /\ ~Stale(k)
  BY Zenon, <1>1, <1>2 DEF Stale
<1>5. ~Stale(k)' => LiveTask(id)'
  BY ZenonT(30), <1>2, <1>3, <1>4
<1>. QED  BY ZenonT(30), <1>1, <1>2, <1>3, <1>5 DEF LiveTask

\* Steps that change neither tasks nor the task manager nor the callback.
LEMMA LiveSame ==
  ASSUME NEW Rank, Inv, Inv', LiveInv(Rank), node'.agent_id = node.agent_id,
         UNCHANGED <<taskMgr, cb>>,
         \A i \in TaskIds : i \in InUse' => task'[i] = task[i],
         \A k \in Kinds : node'.held[k] = node.held[k] \/ node'.held[k] = NoTask
  PROVE  LiveInv(Rank)'
<1>1. ASSUME NEW k \in Kinds, NEW id \in TaskIds, node'.held[k] = id, id # NoTask
      PROVE  /\ node.held[k] = id /\ task'[id].agent = task[id].agent
             /\ LiveTask(id) => LiveTask(id)'
  <2>1. node.held[k] = id /\ id \in InUse'
    BY <1>1 DEF InUse, Held
  <2>2. task'[id] = task[id]
    BY Zenon, <2>1
  <2>. QED  BY <2>1, <2>2 DEF LiveTask
<1>. QED  BY <1>1, LiveStep DEF Inv

LEMMA GetNextLive ==
  ASSUME NEW Rank, AgentsDoNotReturn(Rank), Inv, LiveInv(Rank), NEW passed, get_next_tasks(passed)
  PROVE  LiveInv(Rank)'
<1>. SUFFICES ASSUME NEW k \in Kinds, node'.held[k] # NoTask
              PROVE  /\ Rank[task'[node'.held[k]].agent] <= Rank[node'.agent_id]
                     /\ ~Stale(k)' => LiveTask(node.held[k])'
  BY DEF LiveInv
<1>1. UNCHANGED <<taskMgr, cb>> /\ node'.agent_id = node.agent_id
  BY Zenon, GetNextFacts DEF get_next_tasks
<1>2. PICK id : id = node'.held[k]
  OBVIOUS
<1>3. CASE /\ id = node.held[k] /\ ~Stale(k) /\ task'[id] = task[id]
  <2>1. Rank[task[id].agent] <= Rank[node.agent_id] /\ LiveTask(id)
    BY <1>2, <1>3 DEF LiveInv
  <2>2. LiveTask(id)'
    BY ZenonT(30), <1>1, <1>3, <2>1 DEF LiveTask
  <2>. QED  BY Zenon, <1>1, <1>2, <1>3, <2>1, <2>2 DEF LiveTask
<1>4. CASE id \in FreeIds(k) /\ \E e \in SUBSET JobExes : task'[id] = NewNodeTask(node.agent_id, e)
  <2>1. id # cb.id /\ id \notin taskMgr
    BY <1>4 DEF FreeIds, InUse
  <2>2. task'[id].agent = node.agent_id /\ ~task'[id].ended /\ ~task'[id].launched
    BY SMTT(60), <1>4 DEF NewNodeTask
  <2>3. LiveTask(id)'
    BY Zenon, <1>1, <2>1, <2>2 DEF LiveTask
  <2>4. Rank[node.agent_id] \in Nat
    BY Types DEF Inv, AgentsDoNotReturn
  <2>5. Rank[task'[id].agent] <= Rank[node'.agent_id]
    BY SMTT(60), <1>1, <2>2, <2>4
  <2>. QED  BY <1>2, <2>3, <2>5 DEF LiveTask
<1>. QED  BY ZenonT(30), <1>2, <1>3, <1>4, GetNextFacts

LEMMA LaunchLive ==
  ASSUME NEW Rank, Inv, Inv', LiveInv(Rank), launch_tasks PROVE LiveInv(Rank)'
<1>1. /\ UNCHANGED <<node, cb>> /\ taskMgr' = taskMgr \cup (sched.tasks \ taskMgr)
      /\ task' = [i \in TaskIds |-> IF i \in sched.tasks \ taskMgr THEN launch(task[i]) ELSE task[i]]
  BY DEF launch_tasks
<1>2. \A i \in TaskIds : /\ launch(task[i]).launched /\ launch(task[i]).ended = task[i].ended
                         /\ launch(task[i]).agent = task[i].agent
  BY Types DEF Inv, launch, NodeTask
<1>3. \A i \in TaskIds : /\ task'[i].agent = task[i].agent /\ task'[i].ended = task[i].ended
                         /\ task'[i].launched = IF i \in sched.tasks \ taskMgr
                                                THEN launch(task[i]).launched ELSE task[i].launched
  BY <1>1, <1>2
<1>4. \A i \in TaskIds : LiveTask(i) => LiveTask(i)'
  BY Zenon, <1>1, <1>2, <1>3 DEF LiveTask
<1>. QED  BY <1>1, <1>3, <1>4, LiveStep DEF Inv

\* The task manager marks a task as over, and takes it off, before the node hears of it.
LEMMA StatusUpdateLive ==
  ASSUME NEW Rank, Inv, Inv', LiveInv(Rank), NEW u \in Updates, statusUpdate(u),
         u.agent = task[u.id].agent \/ u.status = "LOST"
  PROVE  LiveInv(Rank)'
<1>1. u.id \in TaskIds /\ u.status \in Statuses /\ cb = NoUpdate /\ cb' = u /\ node' = node
  BY StatusUpdateFacts DEF Updates
<1>2. ASSUME NEW k \in Kinds, NEW id \in TaskIds, node'.held[k] = id, id # NoTask, LiveTask(id)
      PROVE  LiveTask(id)'
  <2>1. id # cb.id /\ ~task[id].ended /\ (task[id].launched <=> id \in taskMgr)
    BY Zenon, <1>1, <1>2 DEF NoUpdate, LiveTask
  <2>2. CASE id # u.id
    BY <1>1, <2>1, <2>2, StatusUpdateFacts DEF LiveTask
  <2>3. CASE id = u.id /\ id \notin taskMgr
    BY Zenon, <1>1, <2>1, <2>3 DEF LiveTask, statusUpdate
  <2>4. CASE id = u.id /\ id \in taskMgr
    <3>1. task \in [TaskIds -> NodeTask] /\ task[id].lost = 0
      BY Types DEF Inv, NodeTask
    <3>2. task' = [task EXCEPT ![id] = update(task[id], 0, u.status)]
      BY <2>4 DEF statusUpdate
    <3>3. task'[id] = update(task[id], 0, u.status)
      BY <3>1, <3>2
    <3>4. task'[id].agent = task[id].agent
      BY <1>1, StatusUpdateFacts
    <3>5. CASE u.status = "LOST"
      <4>1. task'[id] = [task[id] EXCEPT !.launched = FALSE]
        BY <2>1, <3>1, <3>3, <3>5 DEF update
      <4>2. ~task'[id].launched /\ ~task'[id].ended /\ id \notin taskMgr'
        BY <2>1, <2>4, <3>1, <3>5, <4>1 DEF NodeTask, statusUpdate
      <4>. QED  BY <4>2 DEF LiveTask
    <3>6. CASE u.status # "LOST"
      <4>1. task'[id] = [task[id] EXCEPT !.ended = u.status \in TERMINAL_STATUSES]
        BY <2>1, <3>1, <3>3, <3>6 DEF update
      <4>2. task'[id].launched = task[id].launched
        BY <3>1, <4>1 DEF NodeTask
      <4>3. task'[id].ended \/ taskMgr' = taskMgr
        BY Zenon, <2>4, <3>6 DEF statusUpdate
      <4>. QED  BY <1>1, <2>1, <2>4, <3>4, <3>6, <4>2, <4>3 DEF LiveTask
    <3>. QED  BY <3>5, <3>6
  <2>. QED  BY <2>2, <2>3, <2>4
<1>. QED  BY Zenon, <1>1, <1>2, StatusUpdateFacts, LiveStep DEF Inv

\* The node gives up a task that was lost or is over, and keeps the others.
LEMMA UpdateNodeLive ==
  ASSUME NEW Rank, Inv, Inv', LiveInv(Rank), update_node PROVE LiveInv(Rank)'
<1>1. cb # NoUpdate /\ cb' = NoUpdate /\ task' = Collected(task) /\ UNCHANGED taskMgr
  BY SMTT(60) DEF update_node
<1>2. cb.id \in TaskIds /\ cb.code \in HealthFailures /\ node \in NodeRecords
      /\ task \in [TaskIds -> NodeTask]
  BY ZenonT(30), <1>1, Types DEF Inv
<1>. DEFINE gone == cb.status = "LOST" \/ task[cb.id].ended
<1>3. IF cb.agent = node.agent_id THEN Told(node, node', cb.id, gone) ELSE node' = node
  BY <1>2, UpdateFacts DEF update_node
<1>4. node'.agent_id = node.agent_id
  BY SMTT(60), <1>3 DEF Told
<1>5. ASSUME NEW k \in Kinds, NEW id \in TaskIds, node'.held[k] = id, id # NoTask
      PROVE  /\ node.held[k] = id /\ task'[id].agent = task[id].agent
             /\ task[id].agent = node.agent_id /\ LiveTask(id) => LiveTask(id)'
  <2>1. node.held[k] = id /\ id[1] = k
    BY <1>3, <1>5 DEF Told, Inv, HeldKind
  <2>2. task'[id] = task[id]
    <3>1. id \in InUse'
      BY <1>5 DEF InUse, Held
    <3>. QED  BY <1>1, <1>2, <3>1, CollectedFacts
  <2>3. ASSUME task[id].agent = node.agent_id, LiveTask(id)
        PROVE  ~task[id].ended /\ (task[id].launched <=> id \in taskMgr)
    <3>1. CASE id # cb.id
      BY <2>3, <3>1 DEF LiveTask
    <3>2. CASE id = cb.id
      <4>1. cb.agent = node.agent_id => ~gone
        BY <1>3, <1>5, <2>1, <2>3, <3>2 DEF Told
      <4>. QED  BY <2>3, <3>2, <4>1 DEF LiveTask
    <3>. QED  BY <3>1, <3>2
  <2>4. id # cb'.id
    BY ZenonT(30), <1>1, <1>5 DEF NoUpdate
  <2>. QED  BY Zenon, <1>1, <2>1, <2>2, <2>3, <2>4 DEF LiveTask
<1>. QED  BY <1>4, <1>5, LiveStep DEF Inv

LEMMA GetTimeoutLive ==
  ASSUME NEW Rank, Inv, Inv', LiveInv(Rank), NEW S, get_timeout_tasks(S) PROVE LiveInv(Rank)'
<1>1. /\ UNCHANGED <<node, taskMgr, cb>>
      /\ task' = [i \in TaskIds |-> IF i \in S THEN check_timeout(task[i]) ELSE task[i]]
  BY DEF get_timeout_tasks
<1>2. \A i \in TaskIds : /\ task'[i].launched = task[i].launched /\ task'[i].ended = task[i].ended
                         /\ task'[i].agent = task[i].agent
  BY ZenonT(30), <1>1, Types DEF Inv, check_timeout, NodeTask
<1>3. \A i \in TaskIds : LiveTask(i) => LiveTask(i)'
  BY Zenon, <1>1, <1>2 DEF LiveTask
<1>. QED  BY <1>1, <1>2, <1>3, LiveStep DEF Inv

LEMMA TimeoutNodeLive ==
  ASSUME NEW Rank, Inv, Inv', LiveInv(Rank), NEW id \in TaskIds, timeout_node(id)
  PROVE  LiveInv(Rank)'
<1>1. task' = Collected(task) /\ UNCHANGED <<taskMgr, cb>>
  BY DEF timeout_node
<1>2. node \in NodeRecords /\ task \in [TaskIds -> NodeTask]
  BY Types DEF Inv
<1>3. node' = node \/ Told(node, node', id, task[id].ended)
  BY <1>2, TimeoutFacts DEF timeout_node
<1>4. /\ node'.agent_id = node.agent_id
      /\ \A k \in Kinds : node'.held[k] = node.held[k] \/ node'.held[k] = NoTask
  BY <1>3 DEF Told
<1>5. \A i \in TaskIds : i \in InUse' => task'[i] = task[i]
  BY Zenon, <1>1, <1>2, CollectedFacts
<1>. QED  BY <1>1, <1>4, <1>5, LiveSame

LEMMA OthersLive ==
  ASSUME NEW Rank, Inv, Inv', LiveInv(Rank),
         \/ driver_launchTasks \/ model_changes \/ Repair \/ UNCHANGED vars
         \/ \E e \in JobExes : add_finished(e)
         \/ \E id \in TaskIds, s \in Statuses : MesosTaskEnds(id, s)
  PROVE  LiveInv(Rank)'
<1>1. UNCHANGED <<taskMgr, cb>>
  BY Zenon DEF driver_launchTasks, model_changes, Repair, vars, add_finished, MesosTaskEnds
<1>2. \A i \in TaskIds : i \in InUse' => task'[i] = task[i]
  <2>1. task' = Collected(task) \/ task' = task
    BY DEF driver_launchTasks, model_changes, Repair, vars, add_finished, MesosTaskEnds
  <2>. QED  BY ZenonT(30), <2>1, Types, CollectedFacts DEF Inv
<1>3. node'.agent_id = node.agent_id /\ node'.held = node.held
  <2>1. CASE model_changes
    <3>1. PICK active \in BOOLEAN, p \in BOOLEAN, stopped \in BOOLEAN :
            node' = update_from_model(node, [is_active |-> active, is_paused |-> p], stopped)
      BY Zenon, <2>1 DEF model_changes
    <3>2. [is_active |-> active, is_paused |-> p] \in [is_active : BOOLEAN, is_paused : BOOLEAN]
      OBVIOUS
    <3>. QED  BY SMTT(60), <3>1, <3>2, Types, FromModelFacts DEF Kept, Inv
  <2>2. CASE \E e \in JobExes : add_finished(e)
    BY <2>2, Types DEF add_finished, add_job_execution, NodeRecords, Inv
  <2>3. CASE node' = node
    BY <2>3
  <2>. QED  BY ZenonT(30), <2>1, <2>2, <2>3 DEF driver_launchTasks, Repair, vars, MesosTaskEnds
<1>. QED  BY SMTT(60), <1>1, <1>2, <1>3, LiveSame

\* A new agent ID makes every task the node holds stale, for good.
LEMMA MesosChangesLive ==
  ASSUME NEW Rank, AgentsDoNotReturn(Rank), Inv, Inv', LiveInv(Rank), mesos_changes
  PROVE  LiveInv(Rank)'
<1>1. UNCHANGED <<task, taskMgr, cb>>
  BY Zenon DEF mesos_changes
<1>2. node \in NodeRecords /\ node.agent_id \in Agents /\ (~node.is_online) \in BOOLEAN
  BY Types DEF Inv, NodeRecords
<1>3. CASE node' = update_from_mesos(node, NoAgent, ~node.is_online)
  <2>1. node'.agent_id = node.agent_id /\ node'.held = node.held
    BY ZenonT(60), <1>2, <1>3, FromMesosFacts
  <2>. QED  BY <1>1, <2>1, LiveSame
<1>4. ASSUME NEW online \in BOOLEAN, NextAgent[node.agent_id] # node.agent_id,
             node' = update_from_mesos(node, NextAgent[node.agent_id], online)
      PROVE  LiveInv(Rank)'
  <2>1. NextAgent[node.agent_id] \in Agents /\ NextAgent[node.agent_id] # NoAgent
    BY <1>2, NextAgentAssumption, NodeAgentsAssumption
  <2>2. node'.agent_id = NextAgent[node.agent_id] /\ node'.held = node.held
    BY <1>2, <1>4, <2>1, FromMesosFacts
  <2>3. /\ Rank[node.agent_id] < Rank[node'.agent_id]
        /\ Rank[node.agent_id] \in Nat /\ Rank[node'.agent_id] \in Nat
    BY <1>2, <1>4, <2>1, <2>2 DEF AgentsDoNotReturn
  <2>. SUFFICES ASSUME NEW k \in Kinds, node'.held[k] # NoTask
                PROVE  Rank[task'[node'.held[k]].agent] <= Rank[node'.agent_id] /\ Stale(k)'
    BY DEF LiveInv
  <2>4. PICK id \in TaskIds : id = node.held[k] /\ id = node'.held[k]
    BY <2>2 DEF Inv, HeldKind
  <2>5. task[id].agent \in Agents /\ task' = task
    BY Zenon, <1>1, Types DEF Inv, NodeTask
  <2>6. Rank[task[id].agent] <= Rank[node.agent_id] /\ Rank[task[id].agent] \in Nat
    BY <2>2, <2>4, <2>5 DEF LiveInv, AgentsDoNotReturn
  <2>7. Rank[task[id].agent] < Rank[node'.agent_id] /\ task[id].agent # node'.agent_id
    BY <2>3, <2>6
  <2>. QED  BY <2>3, <2>4, <2>5, <2>6, <2>7 DEF Stale
<1>. QED  BY Zenon, <1>3, <1>4 DEF mesos_changes

LEMMA UpdatesLive ==
  ASSUME NEW Rank, Inv, Inv', LiveInv(Rank), NEW id \in TaskIds, NEW code \in HealthFailures,
         MesosUpdate(id, code) \/ LostUpdate(id)
  PROVE  LiveInv(Rank)'
<1>0. task[id].agent \in Agents
  BY Types DEF Inv, NodeTask
<1>1. PICK u \in Updates : statusUpdate(u) /\ (u.agent = task[u.id].agent \/ u.status = "LOST")
  <2>1. CASE MesosUpdate(id, code)
    <3>. DEFINE s == IF mesos[id] = "active" THEN "RUNNING" ELSE mesos[id]
                u == [id |-> id, agent |-> task[id].agent, code |-> code, status |-> s]
    <3>1. s \in Statuses
      BY Zenon, <2>1 DEF MesosUpdate, Inv, TypeOK, Statuses
    <3>2. statusUpdate(u)
      BY <2>1 DEF MesosUpdate
    <3>. HIDE DEF s
    <3>3. u \in Updates /\ u.agent = task[u.id].agent
      BY <1>0, <3>1 DEF Updates
    <3>. HIDE DEF u
    <3>. QED  BY Zenon, <3>2, <3>3
  <2>2. CASE LostUpdate(id)
    <3>1. PICK a \in {task[id].agent, NoAgent} :
            statusUpdate([id |-> id, agent |-> a, status |-> "LOST", code |-> "HEALTH_FAIL"])
      BY <2>2 DEF LostUpdate
    <3>. DEFINE u == [id |-> id, agent |-> a, status |-> "LOST", code |-> "HEALTH_FAIL"]
    <3>2. statusUpdate(u) /\ u \in Updates /\ u.status = "LOST"
      BY <1>0, <3>1 DEF Updates, Statuses, HealthFailures, HEALTH_ERRORS
    <3>. HIDE DEF u
    <3>. QED  BY Zenon, <3>2
  <2>. QED  BY <2>1, <2>2
<1>. QED  BY <1>1, StatusUpdateLive

LEMMA LiveNext ==
  ASSUME NEW Rank, AgentsDoNotReturn(Rank), Inv, Inv', LiveInv(Rank), [Next]_vars
  PROVE  LiveInv(Rank)'
<1>1. CASE scheduling
  BY <1>1, GetNextLive, LaunchLive, OthersLive DEF scheduling
<1>2. CASE \/ \E id \in TaskIds, code \in HealthFailures : MesosUpdate(id, code)
           \/ \E id \in TaskIds : LostUpdate(id)
  <2>1. "HEALTH_FAIL" \in HealthFailures
    BY DEF HealthFailures, HEALTH_ERRORS
  <2>. QED  BY <1>2, <2>1, UpdatesLive
<1>3. CASE update_node \/ (\E S \in SUBSET TaskIds : get_timeout_tasks(S))
  BY <1>3, UpdateNodeLive, GetTimeoutLive
<1>4. CASE \E id \in TaskIds : timeout_node(id)
  BY <1>4, TimeoutNodeLive
<1>5. CASE \/ model_changes \/ Repair \/ UNCHANGED vars
           \/ \E e \in JobExes : add_finished(e)
           \/ \E id \in TaskIds, s \in Statuses : MesosTaskEnds(id, s)
  BY <1>5, OthersLive
<1>6. CASE mesos_changes
  BY <1>6, MesosChangesLive
<1>. QED  BY <1>1, <1>2, <1>3, <1>4, <1>5, <1>6 DEF Next

\* The node never waits for a task that is over, for any number of tasks, if Mesos does
\* not give a host an agent ID it had before: a held task that ended or was lost has its
\* update on the way (Node.handle_task_update), or is stale and is given up.
THEOREM HeldTaskCorrect ==
  ASSUME NEW CONSTANT Rank, AgentsDoNotReturn(Rank)
  PROVE  Spec => []HeldTaskIsLive
<1>1. Init => LiveInv(Rank)
  <2>1. ASSUME Init PROVE \A k \in Kinds : node.held[k] = NoTask
    BY <2>1 DEF Init, NewNode, _update_state
  <2>. QED  BY <2>1 DEF LiveInv
<1>2. Inv /\ Inv' /\ LiveInv(Rank) /\ [Next]_vars => LiveInv(Rank)'
  BY ZenonT(30), LiveNext
<1>3. LiveInv(Rank) => HeldTaskIsLive
  BY DEF LiveInv, HeldTaskIsLive, LiveTask
<1>. QED  BY <1>1, <1>2, <1>3, Invariance, PTL DEF Spec
====

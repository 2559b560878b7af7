---- MODULE JobExecutionProofs ----
(***************************************************************************)
(* Proofs about RunningJobExecution and JobExecutionManager, for any       *)
(* executions, number of tasks, bound on losses and timing of requests.    *)
(***************************************************************************)
EXTENDS JobExecutionManager, TLAPS

-----------------------------------------------------------------------------
(* The methods of an execution.                                            *)

\* done: the tasks Mesos has finished. While the execution runs, every other task
\* is the current one or still to come; once it has ended nothing is to come.
WellRun(x, done) ==
  /\ x \in JobExe
  /\ x.status # "RUNNING" => x.remaining = << >>
  /\ x.status = "COMPLETED" => x.current = NoTask
  /\ x.status \in {"RUNNING", "COMPLETED"} =>
       \A k \in TaskNums : \/ k \in done
                           \/ k = x.current
                           \/ \E i \in 1..Len(x.remaining) : x.remaining[i] = k

\* A new execution has every task to come (RunningJobExecution.__init__).
LEMMA NewJobExeWellRun == WellRun(NewJobExe, {})
<1>1. [k \in TaskNums |-> k] \in Seq(TaskNums) /\ Len([k \in TaskNums |-> k]) = NumTasks
  BY NumTasksAssumption DEF TaskNums
<1>. QED
  BY <1>1, NumTasksAssumption DEF WellRun, NewJobExe, JobExe, ExeStatuses, Errors, TaskNums, NoTask

\* More finished tasks do no harm.
LEMMA WellRunMonotone ==
  ASSUME NEW x, NEW d, NEW d2, d \subseteq d2, WellRun(x, d)
  PROVE  WellRun(x, d2)
BY DEF WellRun

\* There may be nothing left to run.
LEMMA EmptySeq == << >> \in Seq(TaskNums)
OBVIOUS

Ended(x, s, err) == [x EXCEPT !.remaining = << >>, !.status = s, !.error = err]

\* Ending an execution gives an execution.
LEMMA EndedJobExe ==
  ASSUME NEW x \in JobExe, NEW s \in ExeStatuses, NEW err \in Errors
  PROVE  /\ Ended(x, s, err) \in JobExe
         /\ Ended(x, s, err).status = s /\ Ended(x, s, err).remaining = << >>
         /\ Ended(x, s, err).current = x.current /\ Ended(x, s, err).error = err
<1>. PICK r \in Seq(TaskNums) : r = << >>
  BY Zenon, EmptySeq
<1>. DEFINE y == [x EXCEPT !.remaining = r, !.status = s, !.error = err]
<1>1. /\ y \in JobExe /\ y.status = s /\ y.remaining = r
      /\ y.current = x.current /\ y.error = err
  BY Zenon DEF JobExe
<1>. QED
  BY <1>1, Zenon DEF Ended

\* A final status other than COMPLETED keeps an execution well run.
LEMMA FinalWellRun ==
  ASSUME NEW x, NEW d, WellRun(x, d), NEW s \in {"FAILED", "CANCELED"}, NEW err \in Errors
  PROVE  WellRun(_set_final_status(x, s, err), d)
<1>. DEFINE y == Ended(x, s, err)
<1>1. x \in JobExe
  BY DEF WellRun
<1>2. CASE x.status = "RUNNING"
  <2>1. y \in JobExe /\ y.status = s /\ y.remaining = << >>
    <3>1. s \in ExeStatuses
      BY DEF ExeStatuses
    <3>. QED
      BY <3>1, <1>1, EndedJobExe, ZenonT(60)
  <2>. QED
    BY <2>1, <1>2 DEF WellRun, _set_final_status, Ended
<1>3. CASE x.status # "RUNNING"
  BY <1>3 DEF _set_final_status
<1>. QED
  BY <1>2, <1>3

\* The ways the managers end an execution keep it well run.
LEMMA EndWellRun ==
  ASSUME NEW x, NEW d, WellRun(x, d)
  PROVE  /\ WellRun(execution_canceled(x), d)
         /\ WellRun(execution_lost(x), d)
         /\ WellRun(execution_timed_out(x), d)
         /\ WellRun(check_for_starvation(x), d)
<1>. {"none", "node-lost", "timeout", "resource-starvation"} \subseteq Errors
  BY DEF Errors
<1>. QED
  BY FinalWellRun DEF execution_canceled, execution_lost, execution_timed_out, check_for_starvation

\* Starting the next task moves it from the remaining ones to the current one.
LEMMA StartWellRun ==
  ASSUME NEW x, NEW d, WellRun(x, d), is_next_task_ready(x)
  PROVE  /\ WellRun(start_next_task(x), d)
         /\ Head(x.remaining) \in TaskNums
<1>. DEFINE r == x.remaining
<1>1. r \in Seq(TaskNums) /\ r # << >> /\ x.status = "RUNNING" /\ x \in JobExe
  BY DEF WellRun, JobExe, is_next_task_ready, ExeStatuses
<1>2. Head(r) \in TaskNums /\ Tail(r) \in Seq(TaskNums)
  BY <1>1
<1>3. ASSUME NEW k \in TaskNums, NEW i \in 1..Len(r), r[i] = k
      PROVE  k = Head(r) \/ \E j \in 1..Len(Tail(r)) : Tail(r)[j] = k
  <2>1. CASE i = 1
    BY <2>1, <1>1, <1>3
  <2>2. CASE i # 1
    <3>1. i - 1 \in 1..Len(Tail(r)) /\ Tail(r)[i - 1] = r[i]
      BY <2>2, <1>1, <1>3
    <3>. QED
      BY Zenon, <3>1, <1>3
  <2>. QED
    BY <2>1, <2>2
<1>4. start_next_task(x) \in JobExe
  BY Zenon, <1>1, <1>2 DEF start_next_task, JobExe
<1>5. ASSUME NEW k \in TaskNums
      PROVE  \/ k \in d
             \/ k = Head(r)
             \/ \E j \in 1..Len(Tail(r)) : Tail(r)[j] = k
  <2>1. x.current = NoTask /\ k # NoTask
    BY <1>5, NumTasksAssumption DEF is_next_task_ready, NoTask, TaskNums
  <2>2. k \in d \/ \E i \in 1..Len(r) : r[i] = k
    BY <2>1, <1>1, <1>5 DEF WellRun
  <2>. QED
    BY <2>2, <1>3, <1>5
<1>6. /\ start_next_task(x).status = "RUNNING"
      /\ start_next_task(x).current = Head(r)
      /\ start_next_task(x).remaining = Tail(r)
  BY <1>1 DEF start_next_task, JobExe
<1>. QED
  BY <1>2, <1>4, <1>5, <1>6 DEF WellRun

\* A loss puts the current task back; a failure ends the execution.
LEMMA LostOrFailedWellRun ==
  ASSUME NEW x, NEW d, WellRun(x, d), x.current # NoTask
  PROVE  WellRun(_task_lost(x), d) /\ WellRun(_task_fail(x), d)
<1>. x \in JobExe /\ x.current \in TaskNums /\ x.remaining \in Seq(TaskNums)
  BY DEF WellRun, JobExe
<1>1. WellRun(_task_fail(x), d)
  <2>. DEFINE y == [x EXCEPT !.current = NoTask, !.hasRun = TRUE]
              z == Ended(y, "FAILED", "task")
  <2>1. /\ y \in JobExe /\ y.status = x.status
        /\ y.remaining = x.remaining /\ y.current = NoTask
    BY Zenon DEF JobExe
  <2>2. z \in JobExe /\ z.status = "FAILED" /\ z.remaining = << >>
    <3>1. "FAILED" \in ExeStatuses /\ "task" \in Errors
      BY DEF ExeStatuses, Errors
    <3>. HIDE DEF y
    <3>. QED
      BY <3>1, <2>1, EndedJobExe, ZenonT(60)
  <2>3. x.status # "COMPLETED"
    BY DEF WellRun
  <2>4. CASE x.status = "RUNNING"
    BY <2>1, <2>2, <2>4 DEF WellRun, _task_fail, _set_final_status, Ended
  <2>5. CASE x.status # "RUNNING"
    BY <2>1, <2>3, <2>5 DEF WellRun, _task_fail, _set_final_status
  <2>. QED
    BY <2>4, <2>5
<1>2. CASE x.status = "RUNNING"
  <2>. DEFINE r == <<x.current>> \o x.remaining
  <2>1. r \in Seq(TaskNums) /\ Len(r) = 1 + Len(x.remaining) /\ r[1] = x.current
    OBVIOUS
  <2>2. \A i \in 1..Len(x.remaining) : i + 1 \in 1..Len(r) /\ r[i + 1] = x.remaining[i]
    BY <2>1
  <2>3. \A k \in TaskNums : k \in d \/ \E i \in 1..Len(r) : r[i] = k
    BY <2>1, <2>2, <1>2 DEF WellRun
  <2>4. /\ _task_lost(x) \in JobExe
        /\ _task_lost(x).status = "RUNNING" /\ _task_lost(x).remaining = r
    BY Zenon, <2>1, <1>2 DEF _task_lost, JobExe
  <2>. QED
    BY <2>3, <2>4, <1>1 DEF WellRun
<1>3. CASE x.status # "RUNNING"
  <2>1. x.status # "COMPLETED"
    BY DEF WellRun
  <2>. QED
    BY Zenon, <2>1, <1>1, <1>3 DEF WellRun, _task_lost, JobExe
<1>. QED
  BY <1>2, <1>3

\* The completion of the current task adds it to the finished ones.
LEMMA CompleteWellRun ==
  ASSUME NEW x, NEW d, WellRun(x, d), x.current \in d, x.current # NoTask
  PROVE  WellRun(_task_complete(x), d)
<1>. x \in JobExe /\ x.status # "COMPLETED"
  BY DEF WellRun
<1>1. CASE x.remaining = << >> /\ x.status = "RUNNING"
  <2>1. \A k \in TaskNums : k \in d
    BY <1>1 DEF WellRun
  <2>. QED
    BY Zenon, <2>1, <1>1 DEF WellRun, _task_complete, _set_final_status, JobExe, ExeStatuses, Errors
<1>2. CASE x.remaining # << >>
  BY Zenon, <1>2 DEF WellRun, _task_complete, _set_final_status, JobExe
<1>3. CASE x.remaining = << >> /\ x.status # "RUNNING"
  BY Zenon, <1>3 DEF WellRun, _task_complete, _set_final_status, JobExe, ExeStatuses
<1>. QED
  BY <1>1, <1>2, <1>3

-----------------------------------------------------------------------------
(* The methods of a task.                                                  *)

\* No method but update_task_id_for_lost_task changes the ID of a task.
LEMMA TaskMethods ==
  ASSUME NEW t \in Task
  PROVE  /\ check_timeout(t) \in Task /\ check_timeout(t).lost = t.lost
         /\ force_kill(t) \in Task /\ force_kill(t).lost = t.lost
         /\ launch(t) \in Task /\ launch(t).lost = t.lost
         /\ \A id, s : update(t, id, s) \in Task /\ update(t, id, s).lost = t.lost
         /\ update_task_id_for_lost_task(t) \in Task
         /\ update_task_id_for_lost_task(t).lost = t.lost + 1
<1>1. \A b \in BOOLEAN : /\ [t EXCEPT !.ended = b] \in Task /\ [t EXCEPT !.ended = b].lost = t.lost
                         /\ [t EXCEPT !.launched = b] \in Task /\ [t EXCEPT !.launched = b].lost = t.lost
  BY DEF Task
<1>2. \A id, s : update(t, id, s) \in Task /\ update(t, id, s).lost = t.lost
  <2>. TAKE id, s
  <2>1. (s \in TERMINAL_STATUSES) \in BOOLEAN
    OBVIOUS
  <2>. QED
    BY <1>1, <2>1, Zenon DEF update
<1>3. check_timeout(t) \in Task /\ check_timeout(t).lost = t.lost
  BY Zenon DEF Task, check_timeout
<1>4. force_kill(t) \in Task /\ force_kill(t).lost = t.lost
  BY Zenon DEF Task, force_kill
<1>5. launch(t) \in Task /\ launch(t).lost = t.lost
  BY Zenon DEF Task, launch
<1>6. /\ update_task_id_for_lost_task(t) \in Task
      /\ update_task_id_for_lost_task(t).lost = t.lost + 1
  BY DEF Task, update_task_id_for_lost_task
<1>. QED
  BY <1>2, <1>3, <1>4, <1>5, <1>6

-----------------------------------------------------------------------------
(* The inductive invariant.                                                *)

\* Tasks of an execution that Mesos has finished under some ID.
Done(e) == {k \in TaskNums : \E n \in 0..MaxLost : mesos[<<e, k, n>>] = "FINISHED"}

\* Only Mesos says that a task is finished.
UpdatesAreTrue ==
  /\ cb.status = "FINISHED" => mesos[cb.id] = "FINISHED"
  /\ \A u \in answers : u.status \in {"LOST", "FAILED"}

\* An update that makes a running execution run its task again is about an ID
\* below the bound on losses.
LossesBounded ==
  /\ \A u \in answers \cup {cb} :
       u.status = "LOST" => u.id[3] < MaxLost \/ exe[u.id[1]].status # "RUNNING"
  /\ \A id \in TaskIds : mesos[id] = "LOST" => id[3] < MaxLost

IInv ==
  /\ TypeOK
  /\ \A e \in JobExes : WellRun(exe[e], Done(e))
  /\ UpdatesAreTrue
  /\ LossesBounded

\* The ID of a task is a task ID.
LEMMA IdOfTyped ==
  ASSUME TypeOK, NEW t \in Tasks
  PROVE  IdOf(t) \in TaskIds /\ IdOf(t)[1] = t[1] /\ IdOf(t)[2] = t[2] /\ IdOf(t)[3] = task[t].lost
         /\ t[1] \in JobExes /\ t[2] \in TaskNums
BY DEF TypeOK, IdOf, Tasks, TaskIds

\* The task with a given ID is a task.
LEMMA TaskOfTyped ==
  ASSUME NEW id \in TaskIds
  PROVE  /\ TaskOf(id) \in Tasks /\ TaskOf(id)[1] = id[1] /\ TaskOf(id)[2] = id[2]
         /\ id = <<id[1], id[2], id[3]>>
         /\ id[1] \in JobExes /\ id[2] \in TaskNums /\ id[3] \in 0..MaxLost
BY DEF TaskOf, Tasks, TaskIds

\* Init establishes the invariant.
LEMMA InitIInv == Init => IInv
<1>. SUFFICES ASSUME Init PROVE IInv
  OBVIOUS
<1>1. NewTask \in Task /\ NewTask.lost \in 0..MaxLost
  BY MaxLostAssumption DEF NewTask, Task
<1>2. \A e \in JobExes : WellRun(exe[e], Done(e))
  BY NewJobExeWellRun, WellRunMonotone DEF Init
<1>3. NewJobExe \in JobExe
  BY NewJobExeWellRun DEF WellRun
<1>4. TypeOK
  BY <1>1, <1>3 DEF Init, TypeOK, Scheds, IdleSched, NoUpdate, MesosStates
<1>5. UpdatesAreTrue /\ LossesBounded
  BY DEF Init, UpdatesAreTrue, LossesBounded, NoUpdate
<1>. QED
  BY <1>2, <1>4, <1>5 DEF IInv

-----------------------------------------------------------------------------
(* Every step preserves the invariant. Four facts about a step are enough; *)
(* the steps below establish them action by action.                        *)

\* Mesos never takes a FINISHED back, and no execution that has ended runs again.
Forward ==
  /\ \A id \in TaskIds : mesos[id] = "FINISHED" => mesos'[id] = "FINISHED"
  /\ \A e \in JobExes : exe[e].status # "RUNNING" => exe'[e].status # "RUNNING"

\* The finished tasks of an execution only grow.
LEMMA WellRunKept ==
  ASSUME IInv, Forward, TypeOK',
         \A e \in JobExes : WellRun(exe'[e], Done(e))
  PROVE  \A e \in JobExes : WellRun(exe[e], Done(e))'
<1>. SUFFICES ASSUME NEW e \in JobExes PROVE WellRun(exe[e], Done(e))'
  OBVIOUS
<1>1. \A k \in TaskNums, n \in 0..MaxLost : <<e, k, n>> \in TaskIds
  BY DEF TaskIds
<1>2. Done(e) \subseteq Done(e)'
  BY <1>1 DEF Done, Forward
<1>3. WellRun(exe'[e], Done(e)')
  BY <1>2, WellRunMonotone
<1>. QED
  BY <1>3 DEF WellRun

\* The methods that end an execution leave an ended one as it is.
LEMMA EndedStays ==
  ASSUME NEW x, x.status # "RUNNING"
  PROVE  /\ execution_canceled(x) = x /\ execution_lost(x) = x
         /\ execution_timed_out(x) = x /\ check_for_starvation(x) = x
BY DEF execution_canceled, execution_lost, execution_timed_out, check_for_starvation,
       _set_final_status

\* A step of some executions S, by one of those methods or by the start of a
\* task, keeps all of them well run and the ended ones ended.
LEMMA ExeStep ==
  ASSUME IInv, NEW S,
         \/ exe' = [e \in JobExes |-> IF e \in S THEN execution_canceled(exe[e]) ELSE exe[e]]
         \/ exe' = [e \in JobExes |-> IF e \in S THEN execution_lost(exe[e]) ELSE exe[e]]
         \/ exe' = [e \in JobExes |-> IF e \in S THEN execution_timed_out(exe[e]) ELSE exe[e]]
         \/ exe' = [e \in JobExes |-> IF e \in S THEN check_for_starvation(exe[e]) ELSE exe[e]]
         \/ /\ S = startable(S)
            /\ exe' = [e \in JobExes |-> IF e \in S THEN start_next_task(exe[e]) ELSE exe[e]]
         \/ exe' = exe
  PROVE  /\ exe' \in [JobExes -> JobExe]
         /\ \A e \in JobExes : WellRun(exe'[e], Done(e))
         /\ \A e \in JobExes : exe[e].status # "RUNNING" => exe'[e].status # "RUNNING"
<1>1. (\A e \in JobExes : WellRun(exe[e], Done(e))) /\ exe \in [JobExes -> JobExe]
  BY DEF IInv, TypeOK
<1>2. ASSUME NEW e \in JobExes
      PROVE  WellRun(exe'[e], Done(e)) /\ (exe[e].status # "RUNNING" => exe'[e].status # "RUNNING")
  <2>1. CASE \/ exe'[e] = execution_canceled(exe[e]) \/ exe'[e] = execution_lost(exe[e])
             \/ exe'[e] = execution_timed_out(exe[e]) \/ exe'[e] = check_for_starvation(exe[e])
    BY <2>1, <1>1, EndWellRun, EndedStays
  <2>2. CASE exe'[e] = start_next_task(exe[e]) /\ is_next_task_ready(exe[e])
    <3>1. exe[e].status = "RUNNING"
      BY <2>2, <1>1 DEF WellRun, is_next_task_ready
    <3>. QED
      BY <3>1, <2>2, <1>1, StartWellRun
  <2>3. CASE exe'[e] = exe[e]
    BY <2>3, <1>1
  <2>. QED
    BY <2>1, <2>2, <2>3 DEF startable
<1>3. exe' = [e \in JobExes |-> exe'[e]]
  BY <1>1
<1>. QED
  BY <1>2, <1>3 DEF WellRun

\* What a step has to show: the types, the executions, the facts Mesos has sent.
LEMMA StepIInv ==
  ASSUME IInv, TypeOK', Forward,
         \A e \in JobExes : WellRun(exe'[e], Done(e)),
         \A u \in (answers' \cup {cb'}) \ (answers \cup {cb}) :
           /\ u.status = "LOST" => u.id[3] < MaxLost \/ exe[u.id[1]].status # "RUNNING"
           /\ u.status = "FINISHED" => mesos[u.id] = "FINISHED" /\ u.id \in TaskIds,
         \A u \in answers' \ answers : u.status \in {"LOST", "FAILED"},
         \A id \in TaskIds : mesos'[id] = "LOST" => id[3] < MaxLost
  PROVE  IInv'
<1>1. \A e \in JobExes : WellRun(exe[e], Done(e))'
  BY WellRunKept
<1>2. \A u \in Updates : u.id \in TaskIds /\ u.id[1] \in JobExes
  BY DEF Updates, TaskIds
<1>3. answers' \cup {cb'} \subseteq Updates \cup {NoUpdate}
  BY DEF TypeOK
<1>4. UpdatesAreTrue'
  <2>1. \A u \in answers' : u.status \in {"LOST", "FAILED"}
    BY DEF IInv, UpdatesAreTrue
  <2>2. ASSUME cb'.status = "FINISHED" PROVE mesos'[cb'.id] = "FINISHED"
    <3>1. cb' \in Updates
      BY <2>2, <1>3 DEF NoUpdate
    <3>2. cb' = cb \/ cb' \notin answers \cup {cb}
      BY <2>2 DEF IInv, UpdatesAreTrue
    <3>3. mesos[cb'.id] = "FINISHED" /\ cb'.id \in TaskIds
      BY <3>1, <3>2, <1>2, <2>2 DEF IInv, UpdatesAreTrue
    <3>. QED
      BY <3>3 DEF Forward
  <2>. QED
    BY <2>1, <2>2 DEF UpdatesAreTrue
<1>5. LossesBounded'
  <2>1. ASSUME NEW u \in answers' \cup {cb'}, u.status = "LOST"
        PROVE  u.id[3] < MaxLost \/ exe'[u.id[1]].status # "RUNNING"
    <3>1. u \in Updates
      BY <2>1, <1>3 DEF NoUpdate
    <3>2. u.id[3] < MaxLost \/ exe[u.id[1]].status # "RUNNING"
      BY <2>1 DEF IInv, LossesBounded
    <3>. QED
      BY <3>1, <3>2, <1>2 DEF Forward
  <2>. QED
    BY <2>1 DEF LossesBounded
<1>. QED
  BY <1>1, <1>4, <1>5 DEF IInv

\* A task keeps its type and its ID under every method but the renaming.
LEMMA TaskStep ==
  ASSUME TypeOK, NEW S,
         \/ task' = [t \in Tasks |-> IF t \in S THEN check_timeout(task[t]) ELSE task[t]]
         \/ task' = [t \in Tasks |-> IF t \in S THEN force_kill(task[t]) ELSE task[t]]
         \/ task' = [t \in Tasks |-> IF t \in S THEN launch(task[t]) ELSE task[t]]
         \/ \E t \in Tasks : \E n, s : task' = [task EXCEPT ![t] = update(task[t], n, s)]
         \/ task' = task
  PROVE  task' \in [Tasks -> Task] /\ \A t \in Tasks : task'[t].lost \in 0..MaxLost
<1>1. task \in [Tasks -> Task] /\ \A t \in Tasks : task[t].lost \in 0..MaxLost
  BY DEF TypeOK
<1>2. ASSUME NEW t \in Tasks PROVE task'[t] \in Task /\ task'[t].lost = task[t].lost
  BY <1>1, TaskMethods
<1>3. task' = [t \in Tasks |-> task'[t]]
  BY Zenon, <1>1
<1>. QED
  BY <1>1, <1>2, <1>3

\* A status update enters the callback.
LEMMA StatusUpdateStep ==
  ASSUME IInv, NEW u \in Updates, statusUpdate(u), answers' \subseteq answers,
         u.status = "FINISHED" => mesos[u.id] = "FINISHED",
         u.status = "LOST" => u.id[3] < MaxLost \/ exe[u.id[1]].status # "RUNNING"
  PROVE  IInv'
<1>. u.id \in TaskIds
  BY DEF Updates
<1>1. TaskOf(u.id) \in Tasks /\ IdOf(TaskOf(u.id)) \in TaskIds
  BY TaskOfTyped, IdOfTyped DEF IInv
<1>2. task' \in [Tasks -> Task] /\ \A t \in Tasks : task'[t].lost \in 0..MaxLost
  BY Zenon, <1>1, TaskStep DEF statusUpdate, IInv
<1>3. taskMgr' \subseteq TaskIds /\ cb' \in {u, NoUpdate}
  BY Zenon, <1>1 DEF statusUpdate, IInv, TypeOK
<1>4. TypeOK'
  BY Zenon, <1>2, <1>3 DEF IInv, TypeOK, statusUpdate
<1>5. Forward /\ \A e \in JobExes : WellRun(exe'[e], Done(e))
  BY DEF IInv, Forward, statusUpdate
<1>6. \A w \in (answers' \cup {cb'}) \ (answers \cup {cb}) :
        /\ w.status = "LOST" => w.id[3] < MaxLost \/ exe[w.id[1]].status # "RUNNING"
        /\ w.status = "FINISHED" => mesos[w.id] = "FINISHED" /\ w.id \in TaskIds
  BY <1>3 DEF NoUpdate
<1>7. \A id \in TaskIds : mesos'[id] = "LOST" => id[3] < MaxLost
  BY DEF IInv, LossesBounded, statusUpdate
<1>. QED
  BY Zenon, <1>4, <1>5, <1>6, <1>7, StepIInv

\* The two sources of status updates.
LEMMA MesosUpdateStep ==
  ASSUME IInv
  PROVE  /\ \A id \in TaskIds : MesosUpdate(id) => IInv'
         /\ \A u \in answers : MesosAnswer(u) => IInv'
<1>1. ASSUME NEW id \in TaskIds, MesosUpdate(id) PROVE IInv'
  <2>. DEFINE s == IF mesos[id] = "active" THEN "RUNNING" ELSE mesos[id]
              u == [id |-> id, status |-> s]
  <2>1. s \in Statuses
    BY <1>1 DEF MesosUpdate, IInv, TypeOK, MesosStates, Statuses
  <2>2. u \in Updates /\ u.id = id /\ u.status = s
    BY Zenon, <2>1 DEF Updates
  <2>3. /\ u.status = "FINISHED" => mesos[u.id] = "FINISHED"
        /\ u.status = "LOST" => u.id[3] < MaxLost
    BY <2>2 DEF IInv, LossesBounded
  <2>4. statusUpdate(u) /\ answers' = answers
    BY <1>1 DEF MesosUpdate
  <2>. HIDE DEF u
  <2>. QED
    BY Zenon, <2>2, <2>3, <2>4, StatusUpdateStep
<1>2. ASSUME NEW u \in answers, MesosAnswer(u) PROVE IInv'
  <2>1. u \in Updates /\ u.status # "FINISHED"
    BY DEF IInv, TypeOK, UpdatesAreTrue
  <2>2. u.status = "LOST" => u.id[3] < MaxLost \/ exe[u.id[1]].status # "RUNNING"
    BY DEF IInv, LossesBounded
  <2>3. statusUpdate(u) /\ answers' \subseteq answers
    BY Zenon, <1>2 DEF MesosAnswer
  <2>. QED
    BY <2>1, <2>2, <2>3, StatusUpdateStep
<1>. QED
  BY <1>1, <1>2

\* job_exe_mgr.handle_task_update: only a true FINISHED completes a task, and a
\* task is renamed only below the bound.
LEMMA HandleTaskUpdateStep ==
  ASSUME IInv, handle_task_update
  PROVE  IInv'
<1>. DEFINE e == cb.id[1]
            t == TaskOf(cb.id)
            match == CurrentTaskId(e, cb.id)
            new == IF match THEN [exe EXCEPT ![e] = task_update(exe[e], cb.status)] ELSE exe
<1>1. cb \in Updates /\ cb.id \in TaskIds /\ cb.status \in Statuses /\ cb' = NoUpdate
  BY DEF handle_task_update, IInv, TypeOK, Updates
<1>2. /\ e \in JobExes /\ t \in Tasks /\ t[1] = e /\ t[2] = cb.id[2]
      /\ cb.id[2] \in TaskNums /\ cb.id[3] \in 0..MaxLost /\ cb.id = <<e, cb.id[2], cb.id[3]>>
  BY <1>1, TaskOfTyped
<1>3. exe \in [JobExes -> JobExe] /\ \A f \in JobExes : WellRun(exe[f], Done(f))
  BY Zenon DEF IInv, TypeOK
<1>4. ASSUME match
      PROVE  /\ WellRun(task_update(exe[e], cb.status), Done(e))
             /\ exe[e].status # "RUNNING" => task_update(exe[e], cb.status).status # "RUNNING"
  <2>1. exe[e].current = cb.id[2] /\ exe[e].current # NoTask
    BY <1>2, <1>4, NumTasksAssumption DEF CurrentTaskId, TaskNums, NoTask
  <2>2. CASE cb.status = "FINISHED"
    <3>1. mesos[<<e, cb.id[2], cb.id[3]>>] = "FINISHED"
      BY <1>2, <2>2 DEF IInv, UpdatesAreTrue
    <3>2. exe[e].current \in Done(e)
      BY Zenon, <3>1, <2>1, <1>2 DEF Done
    <3>3. WellRun(_task_complete(exe[e]), Done(e))
      BY <3>2, <2>1, <1>2, <1>3, CompleteWellRun
    <3>4. exe[e].status # "RUNNING" => _task_complete(exe[e]).status # "RUNNING"
      <4>1. exe[e] \in JobExe
        BY Zenon, <1>2, <1>3
      <4>. QED
        BY <4>1 DEF _task_complete, _set_final_status, JobExe
    <3>. QED
      BY Zenon, <3>3, <3>4, <2>2 DEF task_update
  <2>3. CASE cb.status # "FINISHED"
    <3>1. WellRun(_task_lost(exe[e]), Done(e)) /\ WellRun(_task_fail(exe[e]), Done(e))
      BY <2>1, <1>2, <1>3, LostOrFailedWellRun
    <3>2. exe[e].status # "RUNNING" => /\ _task_lost(exe[e]).status # "RUNNING"
                                       /\ _task_fail(exe[e]).status # "RUNNING"
      <4>1. exe[e] \in JobExe
        BY <1>2, <1>3
      <4>. QED
        BY Zenon, <4>1 DEF _task_lost, _task_fail, _set_final_status, JobExe
    <3>. QED
      BY Zenon, <3>1, <3>2, <2>3, <1>2, <1>3 DEF task_update
  <2>. QED
    BY <2>2, <2>3
<1>5. \A f \in JobExes : /\ WellRun(new[f], Done(f))
                         /\ exe[f].status # "RUNNING" => new[f].status # "RUNNING"
  BY <1>2, <1>3, <1>4
<1>6. new \in [JobExes -> JobExe]
  <2>1. match => task_update(exe[e], cb.status) \in JobExe
    BY Zenon, <1>4 DEF WellRun
  <2>. QED
    BY Zenon, <2>1, <1>2, <1>3
<1>7. exe' = new \/ exe' = exe
  BY DEF handle_task_update
<1>8. /\ exe' \in [JobExes -> JobExe]
      /\ \A f \in JobExes : WellRun(exe'[f], Done(f))
      /\ \A f \in JobExes : exe[f].status # "RUNNING" => exe'[f].status # "RUNNING"
  BY Zenon, <1>3, <1>5, <1>6, <1>7
<1>9. task' \in [Tasks -> Task] /\ \A w \in Tasks : task'[w].lost \in 0..MaxLost
  <2>1. task \in [Tasks -> Task] /\ \A w \in Tasks : task[w].lost \in 0..MaxLost
    BY DEF IInv, TypeOK
  <2>2. CASE task' = task
    BY <2>1, <2>2
  <2>3. CASE /\ match /\ cb.status = "LOST" /\ exe[e].status = "RUNNING"
             /\ task' = [task EXCEPT ![t] = update_task_id_for_lost_task(@)]
    <3>1. task[t].lost < MaxLost
      BY Zenon, <2>3 DEF CurrentTaskId, IInv, LossesBounded
    <3>2. /\ update_task_id_for_lost_task(task[t]) \in Task
          /\ update_task_id_for_lost_task(task[t]).lost \in 0..MaxLost
      <4>1. task[t] \in Task /\ task[t].lost \in 0..MaxLost
        BY Zenon, <2>1, <1>2
      <4>2. /\ update_task_id_for_lost_task(task[t]) \in Task
            /\ update_task_id_for_lost_task(task[t]).lost = task[t].lost + 1
        BY ZenonT(30), <4>1, TaskMethods
      <4>. QED
        BY <3>1, <4>1, <4>2, MaxLostAssumption
    <3>. QED
      BY Zenon, <3>2, <2>1, <2>3
  <2>. QED
    BY <2>2, <2>3 DEF handle_task_update
<1>10. running' \subseteq JobExes /\ reported' \in [JobExes -> Nat] /\ cleanup' \subseteq JobExes
  BY SMTT(60), <1>2 DEF handle_task_update, _handle_finished_job_exe, Finished, IInv, TypeOK
<1>11. TypeOK'
  BY Zenon, <1>1, <1>8, <1>9, <1>10 DEF TypeOK, IInv, handle_task_update
<1>12. Forward
  BY ZenonT(30), <1>8 DEF Forward, handle_task_update
<1>13. \A w \in (answers' \cup {cb'}) \ (answers \cup {cb}) :
         /\ w.status = "LOST" => w.id[3] < MaxLost \/ exe[w.id[1]].status # "RUNNING"
         /\ w.status = "FINISHED" => mesos[w.id] = "FINISHED" /\ w.id \in TaskIds
  BY SMTT(60), <1>1 DEF NoUpdate, handle_task_update
<1>14. /\ answers' = answers
       /\ \A id \in TaskIds : mesos'[id] = "LOST" => id[3] < MaxLost
  BY Zenon DEF handle_task_update, IInv, LossesBounded
<1>. QED
  BY Zenon, <1>8, <1>11, <1>12, <1>13, <1>14, StepIInv

\* The steps that move executions or the scheduling and sync threads and leave
\* Mesos and the callback alone.
LEMMA ThreadStep ==
  ASSUME IInv, TypeOK', UNCHANGED <<cb, mesos, answers>>,
         \A e \in JobExes : WellRun(exe'[e], Done(e)),
         \A e \in JobExes : exe[e].status # "RUNNING" => exe'[e].status # "RUNNING"
  PROVE  IInv'
<1>1. Forward
  BY Zenon DEF Forward
<1>2. \A id \in TaskIds : mesos'[id] = "LOST" => id[3] < MaxLost
  BY Zenon DEF IInv, LossesBounded
<1>. QED
  BY Zenon, <1>1, <1>2, StepIInv

\* The steps that change neither executions nor the callback.
LEMMA RequestStep ==
  ASSUME IInv, TypeOK', UNCHANGED <<exe, cb>>,
         \A id \in TaskIds : /\ mesos[id] = "FINISHED" => mesos'[id] = "FINISHED"
                             /\ mesos'[id] = "LOST" => id[3] < MaxLost,
         \A u \in answers' \ answers :
           /\ u.status \in {"LOST", "FAILED"}
           /\ u.status = "LOST" => u.id[3] < MaxLost \/ exe[u.id[1]].status # "RUNNING"
  PROVE  IInv'
<1>1. Forward /\ \A e \in JobExes : WellRun(exe'[e], Done(e))
  BY DEF Forward, IInv
<1>2. \A u \in (answers' \cup {cb'}) \ (answers \cup {cb}) :
        /\ u.status = "LOST" => u.id[3] < MaxLost \/ exe[u.id[1]].status # "RUNNING"
        /\ u.status = "FINISHED" => mesos[u.id] = "FINISHED" /\ u.id \in TaskIds
  BY ZenonT(30)
<1>. QED
  BY Zenon, <1>1, <1>2, StepIInv

\* slaveLost.
LEMMA LostNodeStep ==
  ASSUME IInv, NEW S \in SUBSET running, lost_node(S)
  PROVE  IInv'
<1>1. exe' = [e \in JobExes |-> IF e \in S THEN execution_lost(exe[e]) ELSE exe[e]]
  BY DEF lost_node
<1>2. /\ exe' \in [JobExes -> JobExe]
      /\ \A e \in JobExes : WellRun(exe'[e], Done(e))
      /\ \A e \in JobExes : exe[e].status # "RUNNING" => exe'[e].status # "RUNNING"
  BY Zenon, <1>1, ExeStep
<1>3. TypeOK'
  BY <1>2 DEF TypeOK, IInv, lost_node, _handle_finished_job_exe, Finished
<1>. QED
  BY <1>2, <1>3, ThreadStep DEF lost_node

\* The scheduling thread.
LEMMA SchedulingStep ==
  ASSUME IInv, scheduling
  PROVE  IInv'
<1>1. CASE schedule_begin
  <2>1. TypeOK'
    BY <1>1 DEF TypeOK, IInv, Scheds, schedule_begin
  <2>. QED
    BY Zenon, <1>1, <2>1, ThreadStep DEF IInv, schedule_begin
<1>2. CASE schedule_starved
  <2>1. PICK S \in SUBSET {e \in running : can_starve(exe[e])} :
          /\ exe' = [e \in JobExes |-> IF e \in S THEN check_for_starvation(exe[e]) ELSE exe[e]]
          /\ _handle_finished_job_exe(S)
          /\ cleanup' = cleanup \cup S
    BY Zenon, <1>2 DEF schedule_starved
  <2>2. /\ exe' \in [JobExes -> JobExe]
        /\ \A e \in JobExes : WellRun(exe'[e], Done(e))
        /\ \A e \in JobExes : exe[e].status # "RUNNING" => exe'[e].status # "RUNNING"
    BY <2>1, ExeStep
  <2>3. TypeOK'
    BY <1>2, <2>1, <2>2 DEF TypeOK, IInv, Scheds, schedule_starved, _handle_finished_job_exe
  <2>. QED
    BY <1>2, <2>2, <2>3, ThreadStep DEF schedule_starved
<1>3. CASE lost_job_exes
  <2>. DEFINE S == sched.lost \cap running
              K == {t \in Tasks : t[1] \in S /\ exe[t[1]].current = t[2]}
  <2>1. exe' = [e \in JobExes |-> IF e \in S THEN execution_lost(exe[e]) ELSE exe[e]]
    BY <1>3 DEF lost_job_exes
  <2>2. /\ exe' \in [JobExes -> JobExe]
        /\ \A e \in JobExes : WellRun(exe'[e], Done(e))
        /\ \A e \in JobExes : exe[e].status # "RUNNING" => exe'[e].status # "RUNNING"
    BY Zenon, <2>1, ExeStep
  <2>3. task' = [t \in Tasks |-> IF t \in K THEN force_kill(task[t]) ELSE task[t]]
    BY <1>3 DEF lost_job_exes
  <2>4. task' \in [Tasks -> Task] /\ \A t \in Tasks : task'[t].lost \in 0..MaxLost
    BY Zenon, <2>3, TaskStep DEF IInv
  <2>5. sched' \in Scheds
    <3>1. sched \in Scheds /\ sched' = [sched EXCEPT !.pc = "new", !.lost = {}]
      BY Zenon, <1>3 DEF TypeOK, IInv, lost_job_exes
    <3>. QED
      BY Zenon, <3>1 DEF Scheds
  <2>6. TypeOK'
    BY <1>3, <2>2, <2>4, <2>5 DEF TypeOK, IInv, lost_job_exes, _handle_finished_job_exe, Finished
  <2>. QED
    BY <1>3, <2>2, <2>6, ThreadStep DEF lost_job_exes
<1>4. CASE schedule_job_exes
  <2>1. PICK S \in SUBSET (JobExes \ scheduled) : \E C \in SUBSET (S \cap canceled) :
          /\ scheduled' = scheduled \cup S
          /\ running' = running \cup (S \ C)
          /\ reported' = [e \in JobExes |-> IF e \in C THEN reported[e] + 1 ELSE reported[e]]
          /\ exe' = [e \in JobExes |-> IF e \in C THEN execution_canceled(exe[e]) ELSE exe[e]]
          /\ sched' = [sched EXCEPT !.pc = "start", !.exes = @ \cup (S \ C)]
    BY Zenon, <1>4 DEF schedule_job_exes
  <2>2. /\ exe' \in [JobExes -> JobExe]
        /\ \A e \in JobExes : WellRun(exe'[e], Done(e))
        /\ \A e \in JobExes : exe[e].status # "RUNNING" => exe'[e].status # "RUNNING"
    BY Zenon, <2>1, ExeStep
  <2>3. sched' \in Scheds
    <3>1. sched \in Scheds
      BY DEF TypeOK, IInv
    <3>2. PICK C : sched' = [sched EXCEPT !.pc = "start", !.exes = @ \cup (S \ C)]
      BY Zenon, <2>1
    <3>3. sched.exes \cup (S \ C) \in SUBSET JobExes
      BY <3>1 DEF Scheds
    <3>. QED
      BY Zenon, <3>1, <3>2, <3>3 DEF Scheds
  <2>4. TypeOK'
    BY <1>4, <2>1, <2>2, <2>3 DEF TypeOK, IInv, schedule_job_exes
  <2>. QED
    BY <1>4, <2>2, <2>4, ThreadStep DEF schedule_job_exes
<1>5. CASE start_job_exe_tasks
  <2>1. PICK kept \in SUBSET sched.exes :
          LET S == startable(kept)
          IN  /\ exe' = [e \in JobExes |-> IF e \in S THEN start_next_task(exe[e]) ELSE exe[e]]
              /\ sched' = [pc |-> "launch", exes |-> {}, lost |-> {},
                           tasks |-> {<<e, Head(exe[e].remaining)>> : e \in S}]
    BY Zenon, <1>5 DEF start_job_exe_tasks
  <2>. DEFINE S == startable(kept)
  <2>2. startable(S) = S /\ S \subseteq JobExes
    BY Zenon DEF startable, IInv, TypeOK, Scheds
  <2>3. /\ exe' \in [JobExes -> JobExe]
        /\ \A e \in JobExes : WellRun(exe'[e], Done(e))
        /\ \A e \in JobExes : exe[e].status # "RUNNING" => exe'[e].status # "RUNNING"
    BY Zenon, <2>1, <2>2, ExeStep
  <2>4. \A e \in S : Head(exe[e].remaining) \in TaskNums
    BY Zenon, <2>2, StartWellRun DEF startable, IInv
  <2>5. {<<e, Head(exe[e].remaining)>> : e \in S} \subseteq Tasks
    BY SMTT(60), <2>2, <2>4 DEF Tasks
  <2>6. TypeOK'
    BY Zenon, <1>5, <2>1, <2>3, <2>5 DEF TypeOK, IInv, Scheds, start_job_exe_tasks
  <2>. QED
    BY Zenon, <1>5, <2>3, <2>6, ThreadStep DEF start_job_exe_tasks
<1>6. CASE launch_tasks
  <2>. DEFINE new == {t \in sched.tasks : IdOf(t) \notin taskMgr}
  <2>1. new \subseteq Tasks
    BY DEF IInv, TypeOK, Scheds
  <2>2. task' \in [Tasks -> Task] /\ \A t \in Tasks : task'[t].lost \in 0..MaxLost
    <3>1. task' = [t \in Tasks |-> IF t \in new THEN launch(task[t]) ELSE task[t]]
      BY Zenon, <1>6 DEF launch_tasks
    <3>. QED
      BY Zenon, <3>1, TaskStep DEF IInv
  <2>3. {IdOf(t) : t \in new} \subseteq TaskIds
    BY <2>1, IdOfTyped DEF IInv
  <2>4. TypeOK'
    BY Zenon, <1>6, <2>2, <2>3 DEF TypeOK, IInv, Scheds, launch_tasks
  <2>. QED
    BY Zenon, <1>6, <2>4, ThreadStep DEF IInv, launch_tasks
<1>7. CASE driver_launchTasks
  <2>1. PICK raised : LET ids == {IdOf(t) : t \in sched.tasks \ raised}
                      IN  /\ mesos' = [i \in TaskIds |-> IF i \in ids /\ mesos[i] = "none"
                                                         THEN "active" ELSE mesos[i]]
                          /\ answers' = answers \cup {[id |-> i, status |-> "FAILED"] :
                                                        i \in {j \in ids : mesos[j] # "none"}}
    BY Zenon, <1>7 DEF driver_launchTasks
  <2>. DEFINE ids == {IdOf(t) : t \in sched.tasks \ raised}
              refused == {[id |-> i, status |-> "FAILED"] : i \in {j \in ids : mesos[j] # "none"}}
  <2>2. ids \subseteq TaskIds
    BY IdOfTyped DEF IInv, TypeOK, Scheds
  <2>3. refused \subseteq Updates /\ \A u \in refused : u.status = "FAILED"
    BY SMTT(60), <2>2 DEF Updates, Statuses, TERMINAL_STATUSES
  <2>4. /\ mesos' \in [TaskIds -> MesosStates]
        /\ \A id \in TaskIds : /\ mesos[id] = "FINISHED" => mesos'[id] = "FINISHED"
                               /\ mesos'[id] = "LOST" => id[3] < MaxLost
    BY Zenon, <2>1 DEF IInv, TypeOK, LossesBounded, MesosStates
  <2>5. answers' = answers \cup refused
    BY <2>1
  <2>6. TypeOK'
    BY Zenon, <1>7, <2>3, <2>4, <2>5 DEF TypeOK, IInv, Scheds, driver_launchTasks, IdleSched
  <2>. QED
    BY Zenon, <1>7, <2>3, <2>4, <2>5, <2>6, RequestStep DEF driver_launchTasks
<1>. QED
  BY Zenon, <1>1, <1>2, <1>3, <1>4, <1>5, <1>6, <1>7 DEF scheduling

\* The task handling and reconciliation threads.
LEMMA HandlingStep ==
  ASSUME IInv
  PROVE  /\ timeout_tasks => IInv'
         /\ \A t \in Tasks : handle_task_timeout(t) => IInv'
         /\ \A t \in Tasks : kill_task(t) => IInv'
         /\ \A t \in Tasks : perform_reconciliation(t) => IInv'
<1>1. ASSUME timeout_tasks PROVE IInv'
  <2>1. PICK S : LET listed == {TaskOf(i) : i \in taskMgr}
                     late == {t \in listed : t \in S \/ task[t].timedOut}
                 IN  /\ task' = [t \in Tasks |-> IF t \in S \cap listed THEN check_timeout(task[t]) ELSE task[t]]
                     /\ timeouts' = late
    BY Zenon, <1>1 DEF timeout_tasks
  <2>2. task' \in [Tasks -> Task] /\ \A t \in Tasks : task'[t].lost \in 0..MaxLost
    BY Zenon, <2>1, TaskStep DEF IInv
  <2>3. timeouts' \subseteq Tasks
    <3>1. {TaskOf(i) : i \in taskMgr} \subseteq Tasks
      BY ZenonT(30), TaskOfTyped DEF IInv, TypeOK
    <3>. QED
      BY Zenon, <3>1, <2>1
  <2>4. TypeOK'
    BY Zenon, <1>1, <2>2, <2>3 DEF TypeOK, IInv, timeout_tasks
  <2>. QED
    BY Zenon, <1>1, <2>4, ThreadStep DEF IInv, timeout_tasks
<1>2. ASSUME NEW t \in Tasks, handle_task_timeout(t) PROVE IInv'
  <2>. DEFINE S == {t[1]} \cap running
  <2>1. exe \in [JobExes -> JobExe]
    BY DEF IInv, TypeOK
  <2>2. exe' = [e \in JobExes |-> IF e \in S THEN execution_timed_out(exe[e]) ELSE exe[e]]
    BY Zenon, <2>1, <1>2 DEF handle_task_timeout
  <2>3. /\ exe' \in [JobExes -> JobExe]
        /\ \A e \in JobExes : WellRun(exe'[e], Done(e))
        /\ \A e \in JobExes : exe[e].status # "RUNNING" => exe'[e].status # "RUNNING"
    BY Zenon, <2>2, ExeStep
  <2>4. TypeOK'
    BY Zenon, <1>2, <2>3 DEF TypeOK, IInv, handle_task_timeout
  <2>. QED
    BY <1>2, <2>3, <2>4, ThreadStep DEF handle_task_timeout
<1>3. ASSUME NEW t \in Tasks, kill_task(t) PROVE IInv'
  <2>. DEFINE id == IdOf(t)
  <2>1. id \in TaskIds /\ id[1] = t[1] /\ id[3] = task[t].lost
    BY IdOfTyped DEF IInv
  <2>2. CASE /\ task[t].lost < MaxLost \/ exe[t[1]].status # "RUNNING"
             /\ LostAnswer(id) /\ mesos' = mesos
    <3>. DEFINE u == [id |-> id, status |-> "LOST"]
    <3>1. u \in Updates /\ u.status = "LOST" /\ u.id = id /\ answers' = answers \cup {u}
      BY Zenon, <2>1, <2>2 DEF LostAnswer, Updates, Statuses
    <3>. HIDE DEF u
    <3>2. TypeOK'
      BY <1>3, <2>2, <3>1 DEF TypeOK, IInv, kill_task
    <3>. QED
      BY Zenon, <1>3, <2>1, <2>2, <3>1, <3>2, RequestStep DEF kill_task, IInv, LossesBounded
  <2>3. CASE mesos[id] = "active" /\ mesos' = [mesos EXCEPT ![id] = "KILLED"] /\ answers' = answers
    <3>1. TypeOK'
      BY Zenon, <1>3, <2>1, <2>3 DEF TypeOK, IInv, kill_task, MesosStates, TERMINAL_STATUSES
    <3>. QED
      BY Zenon, <1>3, <2>1, <2>3, <3>1, RequestStep DEF kill_task, IInv, TypeOK, LossesBounded
  <2>. QED
    BY Zenon, <1>3, <2>2, <2>3 DEF kill_task
<1>4. ASSUME NEW t \in Tasks, perform_reconciliation(t) PROVE IInv'
  <2>. DEFINE id == IdOf(t)
              u == [id |-> id, status |-> "LOST"]
  <2>1. id \in TaskIds /\ id[3] < MaxLost
    BY Zenon, <1>4, IdOfTyped DEF IInv, perform_reconciliation
  <2>2. u \in Updates /\ u.status = "LOST" /\ u.id = id /\ answers' = answers \cup {u}
    BY Zenon, <1>4, <2>1 DEF perform_reconciliation, LostAnswer, Updates, Statuses
  <2>. HIDE DEF u
  <2>3. TypeOK'
    BY <1>4, <2>2 DEF TypeOK, IInv, perform_reconciliation
  <2>. QED
    BY Zenon, <1>4, <2>1, <2>2, <2>3, RequestStep DEF perform_reconciliation, IInv, LossesBounded
<1>. QED
  BY Zenon, <1>1, <1>2, <1>3, <1>4

\* Canceling executions, as both ends of sync_with_database do.
LEMMA CancelAllStep ==
  ASSUME IInv, NEW S \in SUBSET JobExes, NEW done \in SUBSET JobExes, CancelAll(S, done)
  PROVE  /\ exe' \in [JobExes -> JobExe]
         /\ \A e \in JobExes : WellRun(exe'[e], Done(e))
         /\ \A e \in JobExes : exe[e].status # "RUNNING" => exe'[e].status # "RUNNING"
         /\ task' \in [Tasks -> Task] /\ \A t \in Tasks : task'[t].lost \in 0..MaxLost
         /\ running' \subseteq JobExes /\ reported' \in [JobExes -> Nat]
<1>. DEFINE K == {t \in Tasks : t[1] \in S /\ exe[t[1]].current = t[2]}
<1>1. /\ exe' = [e \in JobExes |-> IF e \in S THEN execution_canceled(exe[e]) ELSE exe[e]]
      /\ task' = [t \in Tasks |-> IF t \in K THEN force_kill(task[t]) ELSE task[t]]
  BY DEF CancelAll
<1>2. task' \in [Tasks -> Task] /\ \A t \in Tasks : task'[t].lost \in 0..MaxLost
  BY ZenonT(60), <1>1, TaskStep DEF IInv
<1>3. running' \subseteq JobExes /\ reported' \in [JobExes -> Nat]
  BY DEF CancelAll, _handle_finished_job_exe, IInv, TypeOK
<1>. QED
  BY Zenon, <1>1, <1>2, <1>3, ExeStep

\* The sync thread, users and Mesos.
LEMMA OutsideStep ==
  ASSUME IInv
  PROVE  /\ syncing => IInv'
         /\ \A e \in JobExes : CancelJob(e) => IInv'
         /\ \A id \in TaskIds : MesosTaskEnds(id) => IInv'
<1>1. ASSUME sync_begin \/ sync_read PROVE IInv'
  <2>1. TypeOK'
    BY ZenonT(30), <1>1 DEF TypeOK, IInv, sync_begin, sync_read
  <2>. QED
    BY <1>1, <2>1, ThreadStep DEF IInv, sync_begin, sync_read
<1>2. ASSUME sync_apply PROVE IInv'
  <2>1. sync.exes \in SUBSET JobExes /\ CanceledDone(sync.exes) \in SUBSET JobExes
    BY DEF IInv, TypeOK, CanceledDone
  <2>2. CancelAll(sync.exes, CanceledDone(sync.exes))
    BY <1>2 DEF sync_apply
  <2>3. TypeOK'
    <3>1. sync' \in [call : {1, 2}, pc : {"begin", "read", "apply"}, exes : SUBSET JobExes]
      <4>1. sync.call \in {1, 2}  BY DEF TypeOK, IInv
      <4>2. 3 - sync.call \in {1, 2}  BY <4>1
      <4>3. sync' = [call |-> 3 - sync.call, pc |-> "begin", exes |-> {}]
        BY Zenon, <1>2 DEF sync_apply
      <4>. QED  BY <4>2, <4>3
    <3>2. cleanup' \subseteq JobExes
      BY Zenon, <1>2, <2>1 DEF TypeOK, IInv, sync_apply
    <3>3. UNCHANGED <<scheduled, taskMgr, canceled, cb, sched, timeouts, mesos, answers>>
      BY <1>2 DEF sync_apply
    <3>. QED
      BY ZenonT(30), <2>1, <2>2, <3>1, <3>2, <3>3, CancelAllStep DEF TypeOK, IInv
  <2>. QED
    BY Zenon, <1>2, <2>1, <2>2, <2>3, CancelAllStep, ThreadStep DEF sync_apply
<1>3. ASSUME sync_apply_raises PROVE IInv'
  <2>1. PICK g \in Gone, S \in SUBSET (sync.exes \ Gone) :
          CancelAll(S \cup {g}, CanceledDone(S) \cup {g})
    BY Zenon, <1>3 DEF sync_apply_raises
  <2>2. S \cup {g} \in SUBSET JobExes /\ CanceledDone(S) \cup {g} \in SUBSET JobExes
    BY DEF IInv, TypeOK, CanceledDone, Gone
  <2>3. TypeOK'
    BY Zenon, <1>3, <2>1, <2>2, CancelAllStep DEF TypeOK, IInv, sync_apply_raises
  <2>. QED
    BY Zenon, <1>3, <2>1, <2>2, <2>3, CancelAllStep, ThreadStep DEF sync_apply_raises
<1>4. ASSUME NEW e \in JobExes, CancelJob(e) PROVE IInv'
  <2>1. TypeOK'
    BY <1>4 DEF TypeOK, IInv, CancelJob
  <2>. QED
    BY Zenon, <1>4, <2>1, ThreadStep DEF IInv, CancelJob
<1>5. ASSUME NEW id \in TaskIds, MesosTaskEnds(id) PROVE IInv'
  <2>1. PICK s \in {"FINISHED", "FAILED"} \cup IF id[3] < MaxLost THEN {"LOST"} ELSE {} :
          mesos' = [mesos EXCEPT ![id] = s]
    BY Zenon, <1>5 DEF MesosTaskEnds
  <2>2. TypeOK'
    BY <1>5, <2>1 DEF TypeOK, IInv, MesosTaskEnds, MesosStates, TERMINAL_STATUSES
  <2>. QED
    BY Zenon, <1>5, <2>1, <2>2, RequestStep DEF MesosTaskEnds, IInv, TypeOK, LossesBounded
<1>. QED
  BY <1>1, <1>2, <1>3, <1>4, <1>5 DEF syncing

\* The invariant is inductive.
THEOREM InductiveInvariant == Spec => []IInv
<1>1. ASSUME IInv, [Next]_vars PROVE IInv'
  <2>1. CASE UNCHANGED vars
    <3>1. TypeOK'
      BY Zenon, <1>1, <2>1 DEF vars, IInv, TypeOK
    <3>. QED
      BY Zenon, <1>1, <2>1, <3>1, ThreadStep DEF vars, IInv
  <2>2. CASE Next
    BY <1>1, <2>2, MesosUpdateStep, HandleTaskUpdateStep, LostNodeStep, SchedulingStep,
       HandlingStep, OutsideStep DEF Next
  <2>. QED
    BY Zenon, <1>1, <2>1, <2>2
<1>. QED
  BY <1>1, InitIInv, PTL DEF Spec

\* The types hold, and the bound on losses is never exceeded, in every
\* behaviour.
THEOREM TypeCorrect == Spec => []TypeOK
<1>1. IInv => TypeOK
  BY Zenon DEF IInv
<1>. QED
  BY <1>1, InductiveInvariant, PTL

\* An execution is COMPLETED only after Mesos has finished every one of its
\* tasks, for any number of executions, tasks and losses and with racing
\* requests (_task_complete, _task_lost).
THEOREM CompletedCorrect == Spec => []CompletedRanAllTasks
<1>1. IInv => CompletedRanAllTasks
  <2>. SUFFICES ASSUME IInv, NEW e \in JobExes, exe[e].status = "COMPLETED", NEW k \in TaskNums
                PROVE  k \in Done(e)
    BY Zenon DEF CompletedRanAllTasks, Done
  <2>1. WellRun(exe[e], Done(e))
    BY DEF IInv
  <2>2. exe[e].remaining = << >> /\ exe[e].current = NoTask /\ k # NoTask
    BY <2>1, NumTasksAssumption DEF WellRun, TaskNums, NoTask
  <2>. QED
    BY <2>1, <2>2 DEF WellRun
<1>. QED
  BY <1>1, InductiveInvariant, PTL

-----------------------------------------------------------------------------
(* How executions end: an end is final, and what leaves the table of       *)
(* running executions has been reported.                                   *)

-----------------------------------------------------------------------------
(* Reports.                                                                *)

\* What the sync thread holds was in the table, and is canceled once it has read
\* the database.
SyncInv ==
  /\ sync.exes \subseteq scheduled
  /\ sync.pc = "apply" => sync.exes \subseteq canceled

\* The table holds scheduled executions only, and nothing is reported before it
\* is scheduled.
ReportInv ==
  /\ running \subseteq scheduled
  /\ \A e \in JobExes \ scheduled : reported[e] = 0
  /\ SyncInv
  /\ ReportedWhenRemoved

\* Removing executions of the table reports each of them for the first time.
LEMMA RemoveStep ==
  ASSUME TypeOK, ReportInv, NEW F \in SUBSET running, _handle_finished_job_exe(F),
         scheduled' = scheduled, canceled' = canceled,
         sync' = sync \/ sync'.exes = {}
  PROVE  ReportInv'
BY DEF TypeOK, ReportInv, SyncInv, ReportedWhenRemoved, _handle_finished_job_exe

\* A step that leaves the table and the reports alone.
LEMMA QuietStep ==
  ASSUME TypeOK, ReportInv, UNCHANGED <<running, scheduled, reported>>,
         canceled \subseteq canceled', SyncInv' \/ sync' = sync
  PROVE  ReportInv'
BY DEF TypeOK, ReportInv, SyncInv, ReportedWhenRemoved

\* No step of any thread breaks the report invariant.
THEOREM ReportInvariant == Spec => []ReportInv
<1>1. Init => ReportInv
  BY DEF Init, ReportInv, SyncInv, ReportedWhenRemoved
<1>2. ASSUME TypeOK, ReportInv, [Next]_vars PROVE ReportInv'
  <2>1. CASE UNCHANGED vars
    BY Zenon, <1>2, <2>1, QuietStep DEF vars
  <2>2. CASE \E id \in TaskIds : MesosUpdate(id)
    BY Zenon, <1>2, <2>2, QuietStep DEF MesosUpdate, statusUpdate
  <2>3. CASE \E u \in answers : MesosAnswer(u)
    BY <1>2, <2>3, QuietStep DEF MesosAnswer, statusUpdate
  <2>4. CASE handle_task_update
    <3>1. CASE cb.id[1] \in running
      <4>1. PICK F \in SUBSET running : _handle_finished_job_exe(F)
        BY Zenon, <2>4, <3>1 DEF handle_task_update, Finished
      <4>. QED
        BY Zenon, <1>2, <2>4, <4>1, RemoveStep DEF handle_task_update
    <3>2. CASE cb.id[1] \notin running
      BY Zenon, <1>2, <2>4, <3>2, QuietStep DEF handle_task_update
    <3>. QED
      BY Zenon, <3>1, <3>2
  <2>5. CASE \E S \in SUBSET running : lost_node(S)
    <3>1. PICK F \in SUBSET running : _handle_finished_job_exe(F)
      BY <2>5 DEF lost_node, Finished
    <3>. QED
      BY Zenon, <1>2, <2>5, <3>1, RemoveStep DEF lost_node
  <2>6. CASE schedule_begin \/ start_job_exe_tasks \/ launch_tasks \/ driver_launchTasks
    BY <1>2, <2>6, QuietStep
       DEF schedule_begin, start_job_exe_tasks, launch_tasks, driver_launchTasks
  <2>7. CASE schedule_starved
    <3>1. PICK F \in SUBSET running : _handle_finished_job_exe(F)
      BY <2>7 DEF schedule_starved
    <3>. QED
      BY <1>2, <2>7, <3>1, RemoveStep DEF schedule_starved
  <2>8. CASE lost_job_exes
    <3>1. PICK F \in SUBSET running : _handle_finished_job_exe(F)
      BY <2>8 DEF lost_job_exes, Finished
    <3>. QED
      BY <1>2, <2>8, <3>1, RemoveStep DEF lost_job_exes
  <2>9. CASE schedule_job_exes
    <3>1. PICK S \in SUBSET (JobExes \ scheduled) : \E C \in SUBSET (S \cap canceled) :
            /\ scheduled' = scheduled \cup S
            /\ running' = running \cup (S \ C)
            /\ reported' = [e \in JobExes |-> IF e \in C THEN reported[e] + 1 ELSE reported[e]]
      BY Zenon, <2>9 DEF schedule_job_exes
    <3>. QED
      BY <1>2, <2>9, <3>1 DEF schedule_job_exes, TypeOK, ReportInv, SyncInv, ReportedWhenRemoved
  <2>10. CASE \/ timeout_tasks
              \/ \E t \in Tasks : handle_task_timeout(t)
              \/ \E t \in Tasks : kill_task(t)
              \/ \E t \in Tasks : perform_reconciliation(t)
    BY <1>2, <2>10, QuietStep
       DEF timeout_tasks, handle_task_timeout, kill_task, perform_reconciliation
  <2>11. CASE sync_begin \/ sync_read
    <3>1. SyncInv'
      BY ZenonT(60), <1>2, <2>11 DEF sync_begin, sync_read, TypeOK, ReportInv, SyncInv
    <3>. QED
      BY <1>2, <2>11, <3>1, QuietStep DEF sync_begin, sync_read
  <2>12. CASE sync_apply
    <3>1. CanceledDone(sync.exes) \in SUBSET running
      BY <2>12 DEF sync_apply, Gone, CanceledDone
    <3>2. _handle_finished_job_exe(CanceledDone(sync.exes)) /\ sync'.exes = {}
      BY Zenon, <2>12 DEF sync_apply, CancelAll
    <3>. QED
      BY <1>2, <2>12, <3>1, <3>2, RemoveStep DEF sync_apply
  <2>13. CASE sync_apply_raises
    <3>1. PICK g \in Gone, S \in SUBSET (sync.exes \ Gone) :
            _handle_finished_job_exe(CanceledDone(S) \cup {g})
      BY Zenon, <2>13 DEF sync_apply_raises, CancelAll
    <3>2. /\ CanceledDone(S) \subseteq running
          /\ g \in (scheduled \cap canceled) \ running
          /\ sync'.exes = {}
      BY <1>2, <2>13, <3>1 DEF Gone, CanceledDone, ReportInv, SyncInv, sync_apply_raises
    <3>. QED
      BY <1>2, <2>13, <3>1, <3>2
         DEF sync_apply_raises, TypeOK, ReportInv, SyncInv, ReportedWhenRemoved, _handle_finished_job_exe
  <2>14. CASE \E e \in JobExes : CancelJob(e)
    BY ZenonT(30), <1>2, <2>14, QuietStep DEF CancelJob
  <2>15. CASE \E id \in TaskIds : MesosTaskEnds(id)
    BY <1>2, <2>15, QuietStep DEF MesosTaskEnds
  <2>. QED
    BY Zenon, <1>2, <2>1, <2>2, <2>3, <2>4, <2>5, <2>6, <2>7, <2>8, <2>9, <2>10, <2>11, <2>12, <2>13,
       <2>14, <2>15 DEF Next, scheduling, syncing
<1>. QED
  BY <1>1, <1>2, TypeCorrect, PTL DEF Spec

\* Nothing leaves the table unreported, and only the execution of a canceled job
\* is ever reported twice, for any executions and any interleaving
\* (_handle_finished_job_exe, sync_with_database).
THEOREM ReportedCorrect == Spec => []ReportedWhenRemoved
<1>1. ReportInv => ReportedWhenRemoved
  BY DEF ReportInv
<1>. QED
  BY <1>1, ReportInvariant, PTL

-----------------------------------------------------------------------------
(* Ends.                                                                   *)

\* What a step may do to an execution that has ended: forget its current task.
StaysEnded ==
  \A e \in JobExes : exe[e].status # "RUNNING" =>
    /\ exe'[e].status = exe[e].status
    /\ exe'[e].error = exe[e].error
    /\ exe'[e].current \in {exe[e].current, NoTask}

\* Executions only enter the table when they are scheduled.
TableShrinks == running' \cap scheduled \subseteq running

\* The answer to a task of an ended execution only clears the current task.
LEMMA EndedUpdate ==
  ASSUME NEW x \in JobExe, x.status # "RUNNING", NEW s
  PROVE  /\ task_update(x, s).status = x.status
         /\ task_update(x, s).error = x.error
         /\ task_update(x, s).current \in {x.current, NoTask}
<1>. DEFINE y == [x EXCEPT !.current = NoTask, !.hasRun = TRUE]
<1>1. y.status = x.status /\ y.error = x.error /\ y.current = NoTask
  BY DEF JobExe
<1>2. _task_complete(x) = y /\ _task_fail(x) = y
  BY <1>1 DEF _task_complete, _task_fail, _set_final_status
<1>3. /\ _task_lost(x).status = x.status /\ _task_lost(x).error = x.error
      /\ _task_lost(x).current = NoTask
  BY DEF _task_lost, JobExe
<1>. QED
  BY <1>1, <1>2, <1>3 DEF task_update

\* No step of any thread takes back the end of an execution.
LEMMA EndStep ==
  ASSUME IInv, ReportInv, [Next]_vars
  PROVE  StaysEnded /\ TableShrinks
<1>1. exe \in [JobExes -> JobExe] /\ running \subseteq scheduled
  BY DEF IInv, TypeOK, ReportInv
<1>2. CASE UNCHANGED vars
  BY Zenon, <1>2 DEF vars, StaysEnded, TableShrinks
<1>3. CASE \/ \E id \in TaskIds : MesosUpdate(id)
           \/ \E u \in answers : MesosAnswer(u)
           \/ schedule_begin \/ launch_tasks \/ driver_launchTasks \/ timeout_tasks
           \/ \E t \in Tasks : kill_task(t)
           \/ \E t \in Tasks : perform_reconciliation(t)
           \/ sync_begin \/ sync_read
           \/ \E e \in JobExes : CancelJob(e)
           \/ \E id \in TaskIds : MesosTaskEnds(id)
  BY ZenonT(30), <1>3 DEF MesosUpdate, MesosAnswer, statusUpdate, schedule_begin, launch_tasks,
              driver_launchTasks, timeout_tasks, kill_task, perform_reconciliation, sync_begin,
              sync_read, CancelJob, MesosTaskEnds, StaysEnded, TableShrinks
<1>4. CASE handle_task_update
  <2>1. \A e \in JobExes : exe'[e] = exe[e] \/ exe'[e] = task_update(exe[e], cb.status)
    BY <1>1, <1>4 DEF handle_task_update
  <2>2. StaysEnded
    BY <1>1, <2>1, EndedUpdate DEF StaysEnded
  <2>3. TableShrinks
    BY <1>1, <1>4 DEF handle_task_update, _handle_finished_job_exe, TableShrinks
  <2>. QED
    BY <2>2, <2>3
<1>5. CASE \/ \E S \in SUBSET running : lost_node(S)
           \/ schedule_starved \/ lost_job_exes
           \/ \E t \in Tasks : handle_task_timeout(t)
           \/ sync_apply \/ sync_apply_raises
  <2>1. \A e \in JobExes : \/ exe'[e] = exe[e]
                           \/ exe'[e] = execution_lost(exe[e])
                           \/ exe'[e] = execution_canceled(exe[e])
                           \/ exe'[e] = execution_timed_out(exe[e])
                           \/ exe'[e] = check_for_starvation(exe[e])
    BY ZenonT(30), <1>1, <1>5 DEF lost_node, schedule_starved, lost_job_exes, handle_task_timeout,
                      sync_apply, sync_apply_raises, CancelAll
  <2>2. running' \subseteq running
    BY Zenon, <1>5 DEF lost_node, schedule_starved, lost_job_exes, handle_task_timeout,
                sync_apply, sync_apply_raises, CancelAll, _handle_finished_job_exe
  <2>. QED
    BY <2>1, <2>2, EndedStays DEF StaysEnded, TableShrinks
<1>6. CASE schedule_job_exes
  <2>1. \A e \in JobExes : exe'[e] = exe[e] \/ exe'[e] = execution_canceled(exe[e])
    BY <1>6 DEF schedule_job_exes
  <2>2. \E S \in SUBSET (JobExes \ scheduled) : running' \subseteq running \cup S
    BY <1>6 DEF schedule_job_exes
  <2>. QED
    BY <2>1, <2>2, EndedStays DEF StaysEnded, TableShrinks
<1>7. CASE start_job_exe_tasks
  <2>1. \A e \in JobExes : exe'[e] = exe[e] \/ is_next_task_ready(exe[e])
    BY Zenon, <1>7 DEF start_job_exe_tasks, startable
  <2>2. \A e \in JobExes : is_next_task_ready(exe[e]) => exe[e].status = "RUNNING"
    BY DEF IInv, WellRun, is_next_task_ready
  <2>. QED
    BY Zenon, <1>7, <2>1, <2>2 DEF start_job_exe_tasks, StaysEnded, TableShrinks
<1>. QED
  BY Zenon, <1>2, <1>3, <1>4, <1>5, <1>6, <1>7 DEF Next, scheduling, syncing

\* An end is final: no thread changes the status or the error of an execution
\* that has ended, starts another task of it or puts it back in the table
\* (_set_final_status, start_next_task, schedule_job_exes).
THEOREM EndCorrect == Spec => EndIsFinal
<1>1. IInv /\ ReportInv /\ [Next]_vars =>
        [\A e \in JobExes :
           /\ exe[e].status # "RUNNING" => /\ exe'[e].status = exe[e].status
                                           /\ exe'[e].error = exe[e].error
                                           /\ exe'[e].current \in {exe[e].current, NoTask}
           /\ e \in scheduled \ running => e \notin running']_vars
  BY Zenon, EndStep DEF StaysEnded, TableShrinks
<1>. QED
  BY <1>1, InductiveInvariant, ReportInvariant, PTL DEF Spec, EndIsFinal

-----------------------------------------------------------------------------
(* Kills: a task is killed only for an execution that has ended.           *)

\* A running execution has a task to wait for or to start.
Busy(x) == x.status = "RUNNING" => ~is_finished(x)

\* A mark that asks for a kill is set for an execution that has ended, or is about
\* to: the handling thread still holds the timeout. What the threads hold belongs to
\* executions that were scheduled, and one that has left the table has ended.
KillInv ==
  /\ \A e \in JobExes : Busy(exe[e])
  /\ \A e \in scheduled \ running : exe[e].status # "RUNNING"
  /\ sched.exes \subseteq scheduled /\ \A t \in sched.tasks : t[1] \in scheduled
  /\ \A id \in taskMgr : id[1] \in scheduled
  /\ \A t \in timeouts : t[1] \in scheduled
  /\ \A t \in Tasks : task[t].needsKilled => t \in timeouts \/ exe[t[1]].status # "RUNNING"

\* The methods that end an execution leave the current task to be waited for.
LEMMA EndMethods ==
  ASSUME NEW x \in JobExe, x.status # "RUNNING" => x.remaining = << >>,
         NEW y \in {execution_canceled(x), execution_lost(x), execution_timed_out(x),
                    check_for_starvation(x)}
  PROVE  y.status # "RUNNING" /\ y.current = x.current /\ y.remaining = << >>
<1>1. CASE x.status = "RUNNING"
  <2>1. PICK s \in {"CANCELED", "FAILED"}, err \in Errors : y = Ended(x, s, err)
    <3>1. {"none", "node-lost", "timeout", "resource-starvation"} \subseteq Errors
      BY Zenon DEF Errors
    <3>. QED
      BY Zenon, <1>1, <3>1 DEF execution_canceled, execution_lost, execution_timed_out,
                        check_for_starvation, _set_final_status, Ended
  <2>2. s \in ExeStatuses
    BY Zenon DEF ExeStatuses
  <2>. QED
    BY <2>1, <2>2, EndedJobExe
<1>2. CASE x.status # "RUNNING"
  BY <1>2, EndedStays
<1>. QED
  BY Zenon, <1>1, <1>2

\* After an update of its current task an execution that runs has something to start.
LEMMA UpdateBusy ==
  ASSUME NEW x \in JobExe, x.current # NoTask, Busy(x), NEW s
  PROVE  Busy(task_update(x, s))
<1>. DEFINE y == [x EXCEPT !.current = NoTask, !.hasRun = TRUE]
<1>. x.current \in TaskNums /\ x.remaining \in Seq(TaskNums)
  BY DEF JobExe
<1>1. y \in JobExe /\ y.remaining = x.remaining /\ y.status = x.status
  BY Zenon DEF JobExe
<1>2. Busy(_task_complete(x)) /\ Busy(_task_fail(x))
  BY <1>1 DEF _task_complete, _task_fail, _set_final_status, Busy, is_finished, JobExe
<1>3. Busy(_task_lost(x))
  <2>1. <<x.current>> \o x.remaining # << >>
    OBVIOUS
  <2>. QED
    BY <2>1 DEF _task_lost, Busy, is_finished, JobExe
<1>. QED
  BY <1>2, <1>3 DEF task_update

\* Only timeouts and ended executions set the mark of a task.
LEMMA MarkMethods ==
  ASSUME NEW t \in Task
  PROVE  /\ launch(t).needsKilled = t.needsKilled
         /\ \A id, s : update(t, id, s).needsKilled = t.needsKilled
         /\ update_task_id_for_lost_task(t).needsKilled = t.needsKilled
BY DEF Task, launch, update, update_task_id_for_lost_task

\* A step that leaves executions and timeouts alone.
LEMMA QuietKillStep ==
  ASSUME KillInv, UNCHANGED <<exe, running, scheduled, timeouts>>,
         \A t \in Tasks : task'[t].needsKilled => task[t].needsKilled,
         sched'.exes \subseteq scheduled, \A t \in sched'.tasks : t[1] \in scheduled,
         \A id \in taskMgr' : id[1] \in scheduled
  PROVE  KillInv'
BY Zenon DEF KillInv, Busy

\* A step that ends executions or removes ended ones.
LEMMA EndingKillStep ==
  ASSUME KillInv, StaysEnded, UNCHANGED <<scheduled, taskMgr>>,
         \A e \in JobExes : Busy(exe'[e]),
         \A e \in running \ running' : exe'[e].status # "RUNNING",
         scheduled \subseteq JobExes,
         sched' = sched \/ (sched'.exes = sched.exes /\ sched'.tasks = sched.tasks),
         timeouts' \subseteq timeouts,
         \A t \in timeouts \ timeouts' : exe'[t[1]].status # "RUNNING",
         \A t \in Tasks : task'[t].needsKilled => task[t].needsKilled \/ exe'[t[1]].status # "RUNNING"
  PROVE  KillInv'
<1>1. \A t \in Tasks : t[1] \in JobExes
  BY Zenon DEF Tasks
<1>. QED
  BY ZenonT(30), <1>1 DEF KillInv, Busy, StaysEnded

\* The executions of a step by the ending methods are busy, and those they were
\* applied to have ended.
LEMMA EndedBusy ==
  ASSUME IInv, KillInv, NEW S,
         \/ exe' = [e \in JobExes |-> IF e \in S THEN execution_canceled(exe[e]) ELSE exe[e]]
         \/ exe' = [e \in JobExes |-> IF e \in S THEN execution_lost(exe[e]) ELSE exe[e]]
         \/ exe' = [e \in JobExes |-> IF e \in S THEN execution_timed_out(exe[e]) ELSE exe[e]]
         \/ exe' = [e \in JobExes |-> IF e \in S THEN check_for_starvation(exe[e]) ELSE exe[e]]
  PROVE  /\ \A e \in JobExes : Busy(exe'[e])
         /\ \A e \in S \cap JobExes : exe'[e].status # "RUNNING"
<1>1. ASSUME NEW e \in S \cap JobExes PROVE exe'[e].status # "RUNNING"
  <2>1. exe[e] \in JobExe /\ (exe[e].status # "RUNNING" => exe[e].remaining = << >>)
    BY Zenon DEF IInv, WellRun
  <2>2. exe'[e] \in {execution_canceled(exe[e]), execution_lost(exe[e]),
                     execution_timed_out(exe[e]), check_for_starvation(exe[e])}
    OBVIOUS
  <2>. QED
    BY Zenon, <2>1, <2>2, EndMethods
<1>2. \A e \in JobExes \ S : exe'[e] = exe[e]
  BY Zenon
<1>. QED
  BY <1>1, <1>2 DEF KillInv, Busy

\* No step of any thread breaks the kill invariant.
LEMMA KillStep ==
  ASSUME IInv, ReportInv, KillInv, [Next]_vars, IInv'
  PROVE  KillInv'
<1>. USE DEF IInv
<1>1. /\ StaysEnded
      /\ exe \in [JobExes -> JobExe] /\ task \in [Tasks -> Task] /\ task' \in [Tasks -> Task]
      /\ running \subseteq scheduled /\ scheduled \subseteq JobExes /\ sched \in Scheds
      /\ taskMgr \subseteq TaskIds
  BY Zenon, EndStep DEF TypeOK, ReportInv
<1>2. /\ sched.exes \subseteq scheduled /\ \A t \in sched.tasks : t[1] \in scheduled
      /\ \A id \in taskMgr : id[1] \in scheduled
  BY Zenon DEF KillInv
<1>3. CASE UNCHANGED vars
  BY Zenon, <1>2, <1>3, QuietKillStep DEF vars
<1>4. CASE \/ \E id \in TaskIds : MesosUpdate(id)
           \/ \E u \in answers : MesosAnswer(u)
  <2>1. PICK u \in Updates : statusUpdate(u)
    BY Zenon, <1>4 DEF MesosUpdate, MesosAnswer, TypeOK, Updates, MesosStates, Statuses
  <2>2. TaskOf(u.id) \in Tasks
    BY ZenonT(30), TaskOfTyped DEF Updates
  <2>3. \A t \in Tasks : task'[t].needsKilled => task[t].needsKilled
    BY <1>1, <2>1, <2>2, MarkMethods DEF statusUpdate
  <2>. QED
    BY Zenon, <1>2, <2>1, <2>3, QuietKillStep DEF statusUpdate
<1>5. CASE handle_task_update
  <2>1. cb \in Updates /\ cb.id \in TaskIds
    BY <1>5 DEF handle_task_update, TypeOK, Updates
  <2>2. cb.id[1] \in JobExes /\ cb.id[2] # NoTask /\ TaskOf(cb.id) \in Tasks
    BY <2>1, TaskOfTyped, NumTasksAssumption DEF TaskNums, NoTask
  <2>3. ASSUME NEW e \in JobExes PROVE Busy(exe'[e])
    <3>1. \/ exe'[e] = exe[e]
          \/ exe'[e] = task_update(exe[e], cb.status) /\ exe[e].current # NoTask
      BY Zenon, <1>1, <1>5, <2>2 DEF handle_task_update, CurrentTaskId
    <3>2. exe[e] \in JobExe /\ Busy(exe[e])
      BY Zenon, <1>1 DEF KillInv
    <3>. QED
      BY Zenon, <3>1, <3>2, UpdateBusy
  <2>4. \A e \in running \ running' : is_finished(exe'[e]) /\ e \in JobExes
    BY Zenon, <1>1, <1>5 DEF handle_task_update, _handle_finished_job_exe, Finished
  <2>5. \A e \in running \ running' : exe'[e].status # "RUNNING"
    BY Zenon, <2>3, <2>4 DEF Busy
  <2>6. \A t \in Tasks : task'[t].needsKilled => task[t].needsKilled
    BY ZenonT(30), <1>1, <1>5, <2>2, MarkMethods DEF handle_task_update
  <2>. QED
    BY ZenonT(30), <1>1, <1>5, <2>3, <2>5, <2>6, EndingKillStep DEF handle_task_update
<1>6. CASE \E S \in SUBSET running : lost_node(S)
  <2>1. PICK S \in SUBSET running : lost_node(S)
    BY Zenon, <1>6
  <2>2. /\ \A e \in JobExes : Busy(exe'[e])
        /\ \A e \in S : exe'[e].status # "RUNNING"
    BY Zenon, <1>1, <2>1, EndedBusy DEF lost_node
  <2>3. running \ running' \subseteq S
    BY Zenon, <2>1 DEF lost_node, _handle_finished_job_exe, Finished
  <2>. QED
    BY Zenon, <1>1, <2>1, <2>2, <2>3, EndingKillStep DEF lost_node
<1>7. CASE schedule_begin
  <2>1. sched'.exes \subseteq running /\ sched'.tasks = {}
    BY <1>7 DEF schedule_begin
  <2>. QED
    BY Zenon, <1>1, <1>2, <1>7, <2>1, QuietKillStep DEF schedule_begin
<1>8. CASE schedule_starved
  <2>1. PICK S \in SUBSET running :
          /\ exe' = [e \in JobExes |-> IF e \in S THEN check_for_starvation(exe[e]) ELSE exe[e]]
          /\ running' = running \ S
    BY <1>8 DEF schedule_starved, _handle_finished_job_exe
  <2>2. /\ \A e \in JobExes : Busy(exe'[e])
        /\ \A e \in S : exe'[e].status # "RUNNING"
    BY <1>1, <2>1, EndedBusy
  <2>3. sched'.exes = sched.exes /\ sched'.tasks = sched.tasks
    BY <1>1, <1>8 DEF schedule_starved, Scheds
  <2>. QED
    BY Zenon, <1>1, <1>8, <2>1, <2>2, <2>3, EndingKillStep DEF schedule_starved
<1>9. CASE lost_job_exes
  <2>. DEFINE S == sched.lost \cap running
  <2>1. /\ \A e \in JobExes : Busy(exe'[e])
        /\ \A e \in S : exe'[e].status # "RUNNING"
    BY Zenon, <1>1, <1>9, EndedBusy DEF lost_job_exes
  <2>2. running \ running' \subseteq S
    BY <1>9 DEF lost_job_exes, _handle_finished_job_exe, Finished
  <2>3. sched'.exes = sched.exes /\ sched'.tasks = sched.tasks
    BY <1>1, <1>9 DEF lost_job_exes, Scheds
  <2>4. \A t \in Tasks : t[1] \in S \/ task'[t] = task[t]
    BY <1>9 DEF lost_job_exes
  <2>. QED
    BY Zenon, <1>1, <1>9, <2>1, <2>2, <2>3, <2>4, EndingKillStep DEF lost_job_exes
<1>10. CASE schedule_job_exes
  <2>1. PICK S \in SUBSET (JobExes \ scheduled), C \in SUBSET JobExes :
          /\ C \subseteq S
          /\ scheduled' = scheduled \cup S
          /\ running' = running \cup (S \ C)
          /\ exe' = [e \in JobExes |-> IF e \in C THEN execution_canceled(exe[e]) ELSE exe[e]]
          /\ sched' = [sched EXCEPT !.pc = "start", !.exes = @ \cup (S \ C)]
    BY Zenon, <1>10 DEF schedule_job_exes
  <2>2. /\ \A e \in JobExes : Busy(exe'[e])
        /\ \A e \in C : exe'[e].status # "RUNNING"
    BY <2>1, EndedBusy
  <2>3. sched'.exes = sched.exes \cup (S \ C) /\ sched'.tasks = sched.tasks
    BY <1>1, <2>1 DEF Scheds
  <2>4. UNCHANGED <<task, taskMgr, timeouts>>
    BY <1>10 DEF schedule_job_exes
  <2>5. \A t \in Tasks : t[1] \in JobExes
    BY Zenon DEF Tasks
  <2>. QED
    BY Zenon, <1>1, <2>1, <2>2, <2>3, <2>4, <2>5 DEF KillInv, StaysEnded
<1>11. CASE start_job_exe_tasks
  <2>1. PICK kept \in SUBSET sched.exes :
          /\ exe' = [e \in JobExes |-> IF e \in startable(kept) THEN start_next_task(exe[e]) ELSE exe[e]]
          /\ sched' = [pc |-> "launch", exes |-> {}, lost |-> {},
                       tasks |-> {<<e, Head(exe[e].remaining)>> : e \in startable(kept)}]
    BY Zenon, <1>11 DEF start_job_exe_tasks
  <2>2. ASSUME NEW e \in JobExes
        PROVE  Busy(exe'[e]) /\ exe'[e].status = exe[e].status
    <3>1. CASE e \in startable(kept)
      <4>1. WellRun(exe[e], Done(e)) /\ is_next_task_ready(exe[e]) /\ exe[e] \in JobExe
        BY Zenon, <1>1, <3>1 DEF startable
      <4>2. Head(exe[e].remaining) # NoTask
        BY <4>1, StartWellRun, NumTasksAssumption DEF TaskNums, NoTask
      <4>3. exe'[e].current = Head(exe[e].remaining) /\ exe'[e].status = exe[e].status
        BY Zenon, <2>1, <3>1, <4>1 DEF start_next_task, JobExe
      <4>. QED
        BY Zenon, <4>2, <4>3 DEF Busy, is_finished
    <3>2. CASE e \notin startable(kept)
      BY ZenonT(30), <2>1, <3>2 DEF KillInv
    <3>. QED
      BY Zenon, <3>1, <3>2
  <2>3. sched'.exes = {} /\ \A t \in sched'.tasks : t[1] \in scheduled
    BY <1>2, <2>1 DEF startable
  <2>4. UNCHANGED <<running, scheduled, task, taskMgr, timeouts>>
    BY Zenon, <1>11 DEF start_job_exe_tasks
  <2>5. \A t \in Tasks : t[1] \in JobExes
    BY DEF Tasks
  <2>. QED
    BY Zenon, <1>1, <2>2, <2>3, <2>4, <2>5 DEF KillInv
<1>12. CASE launch_tasks
  <2>1. \A t \in Tasks : task'[t].needsKilled => task[t].needsKilled
    BY <1>1, <1>12, MarkMethods DEF launch_tasks
  <2>2. sched'.exes = sched.exes /\ sched'.tasks = sched.tasks
    BY <1>1, <1>12 DEF launch_tasks, Scheds
  <2>3. \A id \in taskMgr' : id \in taskMgr \/ \E t \in sched.tasks : id = IdOf(t)
    BY Zenon, <1>12 DEF launch_tasks
  <2>4. \A t \in sched.tasks : IdOf(t)[1] \in scheduled
    BY ZenonT(30), <1>2 DEF IdOf
  <2>. QED
    BY Zenon, <1>2, <1>12, <2>1, <2>2, <2>3, <2>4, QuietKillStep DEF launch_tasks
<1>13. CASE \/ driver_launchTasks
            \/ \E t \in Tasks : kill_task(t)
            \/ \E t \in Tasks : perform_reconciliation(t)
            \/ sync_begin \/ sync_read
            \/ \E e \in JobExes : CancelJob(e)
            \/ \E id \in TaskIds : MesosTaskEnds(id)
  <2>1. sched' = sched \/ sched' = IdleSched
    BY <1>13 DEF driver_launchTasks, kill_task, perform_reconciliation, sync_begin, sync_read,
                 CancelJob, MesosTaskEnds
  <2>2. UNCHANGED <<exe, running, scheduled, timeouts, task, taskMgr>>
    BY Zenon, <1>13 DEF driver_launchTasks, kill_task, perform_reconciliation, sync_begin, sync_read,
                 CancelJob, MesosTaskEnds
  <2>. QED
    BY <1>2, <2>1, <2>2, QuietKillStep DEF IdleSched
<1>14. CASE timeout_tasks
  <2>1. PICK S : /\ task' = [t \in Tasks |-> IF t \in S \cap {TaskOf(i) : i \in taskMgr}
                                             THEN check_timeout(task[t]) ELSE task[t]]
                 /\ timeouts' = {t \in {TaskOf(i) : i \in taskMgr} : t \in S \/ task[t].timedOut}
    BY Zenon, <1>14 DEF timeout_tasks
  <2>2. \A t \in Tasks : task'[t] = task[t] \/ t \in timeouts'
    BY Zenon, <2>1
  <2>3. \A t \in timeouts' : t[1] \in scheduled
    BY <1>2, <2>1 DEF TaskOf
  <2>. QED
    BY Zenon, <1>14, <2>2, <2>3 DEF timeout_tasks, KillInv
<1>15. CASE \E t \in Tasks : handle_task_timeout(t)
  <2>1. PICK t \in Tasks : handle_task_timeout(t)
    BY <1>15
  <2>. DEFINE S == {t[1]} \cap running
  <2>2. exe' = [e \in JobExes |-> IF e \in S THEN execution_timed_out(exe[e]) ELSE exe[e]]
    BY Zenon, <1>1, <2>1 DEF handle_task_timeout
  <2>3. /\ \A e \in JobExes : Busy(exe'[e])
        /\ \A e \in S : exe'[e].status # "RUNNING"
    BY Zenon, <1>1, <2>2, EndedBusy
  <2>4. exe'[t[1]].status # "RUNNING"
    BY Zenon, <1>1, <2>1, <2>3 DEF handle_task_timeout, KillInv, StaysEnded
  <2>. QED
    BY Zenon, <1>1, <2>1, <2>3, <2>4, EndingKillStep DEF handle_task_timeout
<1>16. CASE sync_apply \/ sync_apply_raises
  <2>1. PICK S \in SUBSET JobExes, done \in SUBSET JobExes : done \subseteq S /\ CancelAll(S, done)
    BY ZenonT(30), <1>16 DEF sync_apply, sync_apply_raises, CanceledDone, Gone, TypeOK
  <2>2. /\ \A e \in JobExes : Busy(exe'[e])
        /\ \A e \in S : exe'[e].status # "RUNNING"
    BY Zenon, <2>1, EndedBusy DEF CancelAll
  <2>3. running \ running' \subseteq S
    BY Zenon, <2>1 DEF CancelAll, _handle_finished_job_exe
  <2>4. \A t \in Tasks : t[1] \in S \/ task'[t] = task[t]
    BY ZenonT(30), <2>1 DEF CancelAll
  <2>5. UNCHANGED <<scheduled, taskMgr, sched, timeouts>>
    BY <1>16 DEF sync_apply, sync_apply_raises
  <2>. QED
    BY Zenon, <1>1, <2>2, <2>3, <2>4, <2>5, EndingKillStep
<1>. QED
  BY Zenon, <1>3, <1>4, <1>5, <1>6, <1>7, <1>8, <1>9, <1>10, <1>11, <1>12, <1>13, <1>14, <1>15, <1>16
     DEF Next, scheduling, syncing

\* The kill invariant holds in every behaviour.
THEOREM KillInvariant == Spec => []KillInv
<1>1. Init => KillInv
  <2>. SUFFICES ASSUME Init PROVE KillInv
    OBVIOUS
  <2>1. Busy(NewJobExe)
    <3>1. Len([k \in TaskNums |-> k]) = NumTasks /\ Len(<< >>) = 0
      BY NumTasksAssumption DEF TaskNums
    <3>. QED
      BY Zenon, <3>1, NumTasksAssumption DEF Busy, is_finished, NewJobExe
  <2>. QED
    BY Zenon, <2>1 DEF Init, KillInv, IdleSched, NewTask
<1>2. IInv /\ ReportInv /\ KillInv /\ [Next]_vars /\ IInv' => KillInv'
  BY Zenon, KillStep
<1>. QED
  BY <1>1, <1>2, InductiveInvariant, ReportInvariant, PTL DEF Spec

\* A task is killed only for an execution that has ended, for any executions, tasks
\* and losses and with racing requests: no mark left by a timeout or a cancellation
\* kills the task of an execution that goes on (check_timeout, force_kill, _kill_tasks).
THEOREM KilledCorrect == Spec => []KilledHasEnded
<1>1. KillInv => KilledHasEnded
  BY DEF KillInv, KilledHasEnded, needs_killed
<1>. QED
  BY <1>1, KillInvariant, PTL

-----------------------------------------------------------------------------
(* Tasks in Mesos: at most one task of an execution runs at a time, and    *)
(* none while the execution is cleaned up. Both need that no request about *)
(* a task reaches Mesos while the task is being launched.                  *)

-----------------------------------------------------------------------------
(* The order of the tasks of an execution.                                 *)

ToCome(x) == {x.remaining[i] : i \in 1..Len(x.remaining)}

\* The tasks to come are the last ones, in order; the current one comes before them.
Orderly(x) ==
  /\ \A i \in 1..Len(x.remaining) : x.remaining[i] = NumTasks - Len(x.remaining) + i
  /\ x.status = "RUNNING" /\ x.current # NoTask => x.current = NumTasks - Len(x.remaining)
  /\ x.status # "RUNNING" => x.remaining = << >>

\* The current task is not one of those to come.
LEMMA CurrentNotToCome ==
  ASSUME NEW x \in JobExe, Orderly(x), x.current # NoTask
  PROVE  x.current \notin ToCome(x)
<1>. x.remaining \in Seq(TaskNums) /\ NumTasks \in Nat
  BY Zenon, NumTasksAssumption DEF JobExe
<1>1. CASE x.status = "RUNNING"
  <2>1. x.current = NumTasks - Len(x.remaining)
    BY Zenon, <1>1 DEF Orderly
  <2>2. \A i \in 1..Len(x.remaining) : x.remaining[i] = NumTasks - Len(x.remaining) + i
    BY Zenon DEF Orderly
  <2>3. Len(x.remaining) \in Nat
    OBVIOUS
  <2>4. \A i \in 1..Len(x.remaining) : x.remaining[i] # x.current
    <3>1. \A n, k \in Nat : \A i \in 1..k : n - k + i # n - k
      OBVIOUS
    <3>. QED
      BY Zenon, <2>1, <2>2, <2>3, <3>1
  <2>. QED
    BY Zenon, <2>4 DEF ToCome
<1>2. CASE x.status # "RUNNING"
  <2>1. x.remaining = << >>
    BY <1>2 DEF Orderly
  <2>. QED
    BY <2>1 DEF ToCome
<1>. QED
  BY <1>1, <1>2

\* A new execution has its tasks in order (RunningJobExecution.__init__).
LEMMA NewOrderly == Orderly(NewJobExe)
<1>1. /\ NewJobExe.remaining = [k \in 1..NumTasks |-> k] /\ NewJobExe.status = "RUNNING"
      /\ NewJobExe.current = NoTask
  BY DEF NewJobExe, TaskNums
<1>2. Len([k \in 1..NumTasks |-> k]) = NumTasks
  BY NumTasksAssumption
<1>. QED
  BY <1>1, <1>2, NumTasksAssumption DEF Orderly

\* Starting a task takes the first of those to come.
LEMMA StartOrderly ==
  ASSUME NEW x \in JobExe, Orderly(x), is_next_task_ready(x)
  PROVE  LET y == start_next_task(x)
         IN  /\ Orderly(y) /\ y.current = Head(x.remaining)
             /\ y.current \in ToCome(x) /\ ToCome(y) \subseteq ToCome(x)
<1>. DEFINE r == x.remaining
            q == Tail(r)
            y == start_next_task(x)
<1>1. r \in Seq(TaskNums) /\ r # << >> /\ x.status = "RUNNING" /\ NumTasks \in Nat
  BY NumTasksAssumption DEF JobExe, is_next_task_ready, Orderly
<1>2. /\ y.current = Head(r) /\ y.remaining = q /\ y.status = "RUNNING"
  BY <1>1 DEF start_next_task, JobExe
<1>3. /\ Len(r) \in Nat /\ Len(r) > 0 /\ Len(q) = Len(r) - 1 /\ Head(r) = r[1]
      /\ \A i \in 1..Len(q) : i + 1 \in 1..Len(r) /\ q[i] = r[i + 1]
  BY <1>1
<1>n. Len(q) \in Nat
  BY <1>3
<1>4. \A i \in 1..Len(r) : r[i] = NumTasks - Len(r) + i
  BY Zenon DEF Orderly
<1>. HIDE DEF q, r
<1>5. r[1] = NumTasks - Len(q)
  BY <1>1, <1>3, <1>4, <1>n
<1>6. \A i \in 1..Len(q) : q[i] = NumTasks - Len(q) + i
  BY <1>1, <1>3, <1>4, <1>n
<1>7. Orderly(y)
  BY ZenonT(30), <1>2, <1>3, <1>5, <1>6 DEF Orderly
<1>8. ToCome(y) \subseteq ToCome(x) /\ r[1] \in ToCome(x)
  BY <1>2, <1>3 DEF ToCome, r
<1>. QED
  BY ZenonT(30), <1>2, <1>3, <1>7, <1>8 DEF r

\* An update of the current task leaves the rest in order; only a loss puts a
\* task back, and no other than the current one.
LEMMA UpdateOrderly ==
  ASSUME NEW x \in JobExe, Orderly(x), x.current # NoTask, NEW s \in Statuses
  PROVE  LET y == task_update(x, s)
         IN  /\ Orderly(y)
             /\ ToCome(y) \subseteq ToCome(x) \cup {x.current}
             /\ ~(s = "LOST" /\ x.status = "RUNNING") => ToCome(y) \subseteq ToCome(x)
             /\ s = "RUNNING" => y = x
             /\ s # "RUNNING" => y.current = NoTask
<1>. x.current \in TaskNums /\ x.remaining \in Seq(TaskNums) /\ NumTasks \in Nat
  BY NumTasksAssumption DEF JobExe
<1>. DEFINE z == [x EXCEPT !.current = NoTask, !.hasRun = TRUE]
<1>1. z \in JobExe /\ z.remaining = x.remaining /\ z.status = x.status /\ z.current = NoTask
  BY Zenon DEF JobExe
<1>2. Orderly(z) /\ ToCome(z) = ToCome(x)
  BY <1>1 DEF Orderly, ToCome
<1>3. \A err \in Errors, f \in {"FAILED", "COMPLETED"} :
        LET y == _set_final_status(z, f, err)
        IN  Orderly(y) /\ ToCome(y) \subseteq ToCome(x) /\ y.current = NoTask
  <2>. TAKE err \in Errors, f \in {"FAILED", "COMPLETED"}
  <2>1. CASE z.status = "RUNNING"
    <3>. DEFINE y == Ended(z, f, err)
    <3>1. f \in ExeStatuses
      BY DEF ExeStatuses
    <3>2. y.status = f /\ y.remaining = << >> /\ y.current = NoTask
      <4>. HIDE DEF z
      <4>. QED
        BY <1>1, <3>1, EndedJobExe, ZenonT(60)
    <3>3. Orderly(y) /\ ToCome(y) = {}
      BY <3>2 DEF Orderly, ToCome
    <3>. QED
      BY Zenon, <2>1, <3>2, <3>3 DEF _set_final_status, Ended
  <2>2. CASE z.status # "RUNNING"
    BY <1>1, <1>2, <2>2 DEF _set_final_status
  <2>. QED
    BY <2>1, <2>2
<1>4. CASE s \in {"FINISHED", "FAILED", "KILLED"}
  <2>1. task_update(x, s) \in {z, _set_final_status(z, "COMPLETED", "none"),
                               _set_final_status(z, "FAILED", "task")}
    BY <1>4 DEF task_update, _task_complete, _task_fail
  <2>2. "none" \in Errors /\ "task" \in Errors
    BY DEF Errors
  <2>. QED
    BY Zenon, <1>1, <1>2, <1>3, <1>4, <2>1, <2>2
<1>5. CASE s = "LOST"
  <2>. DEFINE y == _task_lost(x)
              r == <<x.current>> \o x.remaining
  <2>1. task_update(x, s) = y
    BY Zenon, <1>5 DEF task_update
  <2>2. CASE x.status = "RUNNING"
    <3>1. y.current = NoTask /\ y.status = "RUNNING" /\ y.remaining = r
      BY ZenonT(30), <2>2 DEF _task_lost, JobExe
    <3>2. /\ Len(r) = Len(x.remaining) + 1 /\ r[1] = x.current
          /\ \A i \in 2..Len(r) : i - 1 \in 1..Len(x.remaining) /\ r[i] = x.remaining[i - 1]
      OBVIOUS
    <3>n. Len(x.remaining) \in Nat
      OBVIOUS
    <3>. HIDE DEF r
    <3>3. /\ x.current = NumTasks - Len(x.remaining)
          /\ \A i \in 1..Len(x.remaining) : x.remaining[i] = NumTasks - Len(x.remaining) + i
      BY Zenon, <2>2 DEF Orderly
    <3>4. \A i \in 1..Len(r) : r[i] = NumTasks - Len(r) + i
      <4>1. ASSUME NEW i \in 2..Len(r) PROVE r[i] = NumTasks - Len(r) + i
        <5>1. i - 1 \in 1..Len(x.remaining) /\ r[i] = x.remaining[i - 1]
          BY Zenon, <3>2
        <5>2. x.remaining[i - 1] = NumTasks - Len(x.remaining) + (i - 1)
          BY Zenon, <5>1, <3>3
        <5>. QED
          BY <5>1, <5>2, <3>2, <3>n
      <4>2. r[1] = NumTasks - Len(r) + 1
        BY <3>2, <3>3, <3>n
      <4>3. \A i \in 1..Len(r) : i = 1 \/ i \in 2..Len(r)
        BY <3>2, <3>n
      <4>. QED
        BY Zenon, <4>1, <4>2, <4>3
    <3>5. Orderly(y)
      BY Zenon, <3>1, <3>4 DEF Orderly
    <3>6. ToCome(y) \subseteq ToCome(x) \cup {x.current}
      <4>1. \A i \in 1..Len(r) : i = 1 \/ i \in 2..Len(r)
        BY <3>2, <3>n
      <4>. QED
        BY ZenonT(30), <3>1, <3>2, <4>1 DEF ToCome
    <3>. QED
      BY <1>5, <2>1, <2>2, <3>1, <3>5, <3>6
  <2>3. CASE x.status # "RUNNING"
    <3>1. y.current = NoTask /\ y.status = x.status /\ y.remaining = x.remaining
      BY <2>3 DEF _task_lost, JobExe
    <3>. HIDE DEF y
    <3>2. Orderly(y) /\ ToCome(y) = ToCome(x) /\ y.current = NoTask
      BY <1>1, <1>2, <2>3, <3>1 DEF Orderly, ToCome
    <3>. QED
      BY <1>5, <2>1, <2>3, <3>2 DEF y
  <2>. QED
    BY <2>2, <2>3
<1>6. CASE s = "RUNNING"
  BY <1>6 DEF task_update
<1>. QED
  BY Zenon, <1>4, <1>5, <1>6 DEF Statuses, TERMINAL_STATUSES

-----------------------------------------------------------------------------
(* What is in Mesos.                                                       *)

\* Mesos was asked to launch the task under this ID, and will not be again.
Launched(id) ==
  /\ id[3] <= task[TaskOf(id)].lost
  /\ id[3] = task[TaskOf(id)].lost => id[2] \notin ToCome(exe[id[1]]) /\ TaskOf(id) \notin sched.tasks

\* The tasks of an execution come in order, one that left the table has no current task,
\* the scheduling thread holds current tasks and the task manager knows tasks by the ID
\* they have now.
LaunchInv ==
  /\ \A e \in JobExes : Orderly(exe[e])
  /\ \A e \in JobExes \ running : exe[e].current = NoTask
  /\ cleanup \subseteq scheduled \ running
  /\ \A t \in sched.tasks : exe[t[1]].current = t[2]
  /\ \A id \in taskMgr : id[3] = task[TaskOf(id)].lost /\ id[2] \notin ToCome(exe[id[1]])

\* Mesos runs only the current task of an execution, under the ID it has now. An update
\* about a task that is over is not about one that is still to be launched.
MesosInv ==
  /\ \A id \in TaskIds : mesos[id] # "none" => Launched(id)
  /\ \A id \in TaskIds : mesos[id] = "active" => CurrentTaskId(id[1], id)
  /\ \A u \in (answers \cup {cb}) \ {NoUpdate} :
       Launched(u.id) /\ (u.status # "RUNNING" => mesos[u.id] # "active")
  /\ cb.status = "LOST" => cb.id \notin taskMgr

TaskInv == LaunchInv /\ MesosInv

\* Every update is about a task.
LEMMA UpdateTyped ==
  ASSUME IInv, NEW u \in (answers \cup {cb}) \ {NoUpdate}
  PROVE  u \in Updates /\ u.id \in TaskIds /\ u.status \in Statuses
BY DEF IInv, TypeOK, Updates

\* A task that is in the task manager is there under its present ID.
LEMMA ListedId ==
  ASSUME IInv, LaunchInv, NEW i \in taskMgr
  PROVE  i = IdOf(TaskOf(i)) /\ i \in TaskIds
<1>1. i \in TaskIds
  BY Zenon DEF IInv, TypeOK
<1>. QED
  BY <1>1, TaskOfTyped DEF LaunchInv, IdOf

\* An ID stays launched while no task is put back or started.
LEMMA LaunchedKept ==
  ASSUME NEW id \in TaskIds, Launched(id),
         \A t \in Tasks : task'[t].lost = task[t].lost,
         \A e \in JobExes : ToCome(exe'[e]) \subseteq ToCome(exe[e]),
         sched'.tasks \subseteq sched.tasks
  PROVE  Launched(id)'
<1>1. TaskOf(id) \in Tasks /\ id[1] \in JobExes
  BY Zenon, TaskOfTyped
<1>2. TaskOf(id)' = TaskOf(id)
  BY Zenon DEF TaskOf
<1>3. ToCome(exe[id[1]])' = ToCome(exe'[id[1]])
  BY Zenon DEF ToCome
<1>. QED
  BY Zenon, <1>1, <1>2, <1>3 DEF Launched

\* A step that ends executions, removes ended ones or adds new ones, and sends nothing.
LEMMA ExeOnlyStep ==
  ASSUME IInv, ReportInv, TaskInv, UNCHANGED <<taskMgr, mesos, answers, cb>>,
         \A t \in Tasks : task'[t].lost = task[t].lost,
         \A e \in JobExes : /\ Orderly(exe'[e]) /\ exe'[e].current = exe[e].current
                            /\ ToCome(exe'[e]) \subseteq ToCome(exe[e]),
         sched'.tasks \subseteq sched.tasks,
         scheduled \subseteq scheduled', running' \cap scheduled \subseteq running,
         \A e \in running \ running' : exe'[e].current = NoTask,
         cleanup' \subseteq cleanup \cup (running \ running')
  PROVE  TaskInv'
<1>1. /\ running \subseteq scheduled /\ taskMgr \subseteq TaskIds /\ sched.tasks \subseteq Tasks
  BY Zenon DEF IInv, TypeOK, ReportInv, Scheds
<1>2. \A e \in JobExes : Orderly(exe[e])' /\ ToCome(exe[e])' = ToCome(exe'[e])
  BY Zenon DEF Orderly, ToCome
<1>3. ASSUME NEW id \in TaskIds
      PROVE  /\ TaskOf(id)' = TaskOf(id) /\ id[1] \in JobExes
             /\ task'[TaskOf(id)].lost = task[TaskOf(id)].lost
             /\ Launched(id) => Launched(id)'
             /\ CurrentTaskId(id[1], id) => CurrentTaskId(id[1], id)'
  <2>1. TaskOf(id) \in Tasks /\ id[1] \in JobExes /\ TaskOf(id)' = TaskOf(id)
    BY Zenon, TaskOfTyped DEF TaskOf
  <2>. QED
    BY Zenon, <2>1, LaunchedKept DEF CurrentTaskId
<1>4. \A t \in sched.tasks : t[1] \in JobExes
  BY Zenon, <1>1 DEF Tasks
<1>5. LaunchInv'
  <2>1. \A id \in taskMgr : id[3] = task'[TaskOf(id)].lost /\ id[2] \notin ToCome(exe'[id[1]])
    BY Zenon, <1>1, <1>3 DEF TaskInv, LaunchInv
  <2>2. \A id \in taskMgr' : (id[3] = task[TaskOf(id)].lost /\ id[2] \notin ToCome(exe[id[1]]))'
    BY Zenon, <1>1, <1>2, <1>3, <2>1
  <2>3. cleanup' \subseteq scheduled' \ running'
    BY Zenon, <1>1 DEF TaskInv, LaunchInv
  <2>4. \A t \in sched'.tasks : exe'[t[1]].current = t[2]
    BY Zenon, <1>4 DEF TaskInv, LaunchInv
  <2>5. \A e \in JobExes \ running' : exe'[e].current = NoTask
    BY Zenon DEF TaskInv, LaunchInv
  <2>. QED
    BY Zenon, <1>2, <2>2, <2>3, <2>4, <2>5 DEF LaunchInv
<1>6. MesosInv'
  BY Zenon, <1>3, UpdateTyped DEF TaskInv, MesosInv
<1>. QED
  BY Zenon, <1>5, <1>6 DEF TaskInv

\* The methods that end an execution leave its current task and nothing to come.
LEMMA EndedOrderly ==
  ASSUME IInv, TaskInv, NEW S,
         \/ exe' = [e \in JobExes |-> IF e \in S THEN execution_canceled(exe[e]) ELSE exe[e]]
         \/ exe' = [e \in JobExes |-> IF e \in S THEN execution_lost(exe[e]) ELSE exe[e]]
         \/ exe' = [e \in JobExes |-> IF e \in S THEN execution_timed_out(exe[e]) ELSE exe[e]]
         \/ exe' = [e \in JobExes |-> IF e \in S THEN check_for_starvation(exe[e]) ELSE exe[e]]
  PROVE  \A e \in JobExes : /\ Orderly(exe'[e]) /\ exe'[e].current = exe[e].current
                            /\ ToCome(exe'[e]) \subseteq ToCome(exe[e])
<1>. SUFFICES ASSUME NEW e \in JobExes
              PROVE  /\ Orderly(exe'[e]) /\ exe'[e].current = exe[e].current
                     /\ ToCome(exe'[e]) \subseteq ToCome(exe[e])
  BY Zenon
<1>1. CASE e \in S
  <2>1. exe[e] \in JobExe /\ (exe[e].status # "RUNNING" => exe[e].remaining = << >>)
    BY DEF IInv, WellRun
  <2>2. exe'[e] \in {execution_canceled(exe[e]), execution_lost(exe[e]),
                     execution_timed_out(exe[e]), check_for_starvation(exe[e])}
    BY Zenon, <1>1
  <2>3. exe'[e].status # "RUNNING" /\ exe'[e].current = exe[e].current /\ exe'[e].remaining = << >>
    BY Zenon, <2>1, <2>2, EndMethods
  <2>. QED
    BY <2>3 DEF Orderly, ToCome
<1>2. CASE e \notin S
  BY Zenon, <1>2 DEF TaskInv, LaunchInv
<1>. QED
  BY Zenon, <1>1, <1>2

\* A status update about a launched task enters the callback. An update that says
\* the task is over takes it out of the task manager.
LEMMA StatusUpdateTask ==
  ASSUME IInv, IInv', TaskInv, NEW u \in Updates, statusUpdate(u), answers' \subseteq answers,
         Launched(u.id), u.status # "RUNNING" => mesos[u.id] # "active"
  PROVE  TaskInv'
<1>. DEFINE t == TaskOf(u.id)
<1>1. u.id \in TaskIds /\ t \in Tasks /\ u # NoUpdate
  BY TaskOfTyped DEF Updates, NoUpdate, TaskIds
<1>2. task \in [Tasks -> Task] /\ sched \in Scheds /\ taskMgr \subseteq TaskIds
  BY ZenonT(30) DEF IInv, TypeOK
<1>3. \A w \in Tasks : task'[w].lost = task[w].lost
  BY <1>1, <1>2, TaskMethods DEF statusUpdate
<1>4. UNCHANGED <<running, scheduled, exe, cleanup, sched, mesos>> /\ taskMgr' \subseteq taskMgr
  BY ZenonT(30) DEF statusUpdate
<1>5. \A e \in JobExes : Orderly(exe[e])' /\ ToCome(exe[e])' = ToCome(exe[e])
  BY <1>4 DEF TaskInv, LaunchInv, Orderly, ToCome
<1>6. ASSUME NEW id \in TaskIds
      PROVE  /\ Launched(id) => Launched(id)'
             /\ CurrentTaskId(id[1], id) => CurrentTaskId(id[1], id)'
             /\ id[1] \in JobExes /\ TaskOf(id)' = TaskOf(id)
             /\ task'[TaskOf(id)].lost = task[TaskOf(id)].lost
  <2>1. TaskOf(id) \in Tasks /\ id[1] \in JobExes /\ TaskOf(id)' = TaskOf(id)
    BY Zenon, TaskOfTyped DEF TaskOf
  <2>. QED
    BY Zenon, <1>3, <1>4, <2>1, LaunchedKept DEF CurrentTaskId
<1>7. LaunchInv'
  <2>1. \A id \in taskMgr' : (id[3] = task[TaskOf(id)].lost /\ id[2] \notin ToCome(exe[id[1]]))'
    BY Zenon, <1>2, <1>4, <1>5, <1>6 DEF TaskInv, LaunchInv
  <2>. QED
    BY Zenon, <1>4, <1>5, <2>1 DEF TaskInv, LaunchInv
<1>8. u.status = "LOST" => u.id \notin taskMgr'
  <2>1. u.id \in taskMgr => u.id = IdOf(t)
    BY Zenon, ListedId DEF TaskInv
  <2>. QED
    BY Zenon, <2>1 DEF statusUpdate
<1>9. MesosInv'
  <2>1. cb' \in {u, NoUpdate}
    BY Zenon DEF statusUpdate
  <2>2. cb'.status = "LOST" => cb'.id \notin taskMgr'
    BY <1>8, <2>1 DEF NoUpdate
  <2>3. ASSUME NEW w \in (answers' \cup {cb'}) \ {NoUpdate}
        PROVE  Launched(w.id)' /\ (w.status # "RUNNING" => mesos'[w.id] # "active")
    <3>1. w = u \/ w \in (answers \cup {cb}) \ {NoUpdate}
      BY Zenon, <2>1
    <3>2. w.id \in TaskIds /\ Launched(w.id) /\ (w.status # "RUNNING" => mesos[w.id] # "active")
      BY Zenon, <1>1, <3>1, UpdateTyped DEF TaskInv, MesosInv
    <3>. QED
      BY Zenon, <1>4, <1>6, <3>2
  <2>. QED
    BY Zenon, <1>4, <1>6, <2>2, <2>3 DEF TaskInv, MesosInv
<1>. QED
  BY Zenon, <1>7, <1>9 DEF TaskInv

\* job_exe_mgr.handle_task_update: the task that is over is not the one in Mesos, and a
\* lost one goes on under an ID Mesos has never seen.
LEMMA HandleTaskUpdateTask ==
  ASSUME IInv, IInv', ReportInv, TaskInv, handle_task_update
  PROVE  TaskInv'
<1>. DEFINE e == cb.id[1]
            t == TaskOf(cb.id)
            x == exe[e]
            y == task_update(x, cb.status)
            again == cb.status = "LOST" /\ x.status = "RUNNING"
<1>1. /\ cb # NoUpdate /\ cb \in Updates /\ cb.id \in TaskIds /\ cb.status \in Statuses
      /\ cb' = NoUpdate
      /\ UNCHANGED <<scheduled, taskMgr, sched, mesos, answers>>
  BY Zenon, UpdateTyped DEF handle_task_update
<1>2. /\ exe \in [JobExes -> JobExe] /\ task \in [Tasks -> Task] /\ taskMgr \subseteq TaskIds
      /\ sched \in Scheds /\ running \subseteq scheduled /\ scheduled \subseteq JobExes
      /\ \A w \in Tasks : task[w].lost \in Nat
  BY ZenonT(30) DEF IInv, TypeOK, ReportInv, Task
<1>3. /\ e \in JobExes /\ t \in Tasks /\ t[1] = e /\ t[2] = cb.id[2] /\ cb.id[2] # NoTask
      /\ cb.id = <<e, t[2], cb.id[3]>> /\ cb.id[3] \in Nat
  BY <1>1, TaskOfTyped, NumTasksAssumption DEF TaskNums, NoTask
<1>4. \A id \in TaskIds : /\ TaskOf(id)' = TaskOf(id) /\ TaskOf(id) \in Tasks /\ id[1] \in JobExes
                          /\ id = <<id[1], id[2], id[3]>> /\ id[3] \in Nat /\ id[2] # NoTask
                          /\ TaskOf(id) = t => id[1] = e /\ id[2] = t[2]
                          /\ id[1] = e /\ id[2] = t[2] => TaskOf(id) = t
  <2>. TAKE id \in TaskIds
  <2>1. /\ TaskOf(id) \in Tasks /\ TaskOf(id)[1] = id[1] /\ TaskOf(id)[2] = id[2]
        /\ id = <<id[1], id[2], id[3]>> /\ id[1] \in JobExes /\ id[2] \in TaskNums /\ id[3] \in 0..MaxLost
    BY Zenon, TaskOfTyped
  <2>2. id[2] # NoTask /\ id[3] \in Nat
    BY <2>1, NumTasksAssumption DEF TaskNums, NoTask
  <2>3. TaskOf(id)' = TaskOf(id) /\ (id[1] = e /\ id[2] = cb.id[2] => TaskOf(id) = t)
    BY ZenonT(30) DEF TaskOf
  <2>. QED
    BY ZenonT(30), <1>3, <2>1, <2>2, <2>3
<1>5. Launched(cb.id) /\ (cb.status # "RUNNING" => mesos[cb.id] # "active")
      /\ (cb.status = "LOST" => cb.id \notin taskMgr)
  BY <1>1 DEF TaskInv, MesosInv
<1>6. /\ cleanup' \subseteq cleanup \cup (running \ running') /\ running' \subseteq running
      /\ \A f \in running \ running' : exe'[f].current = NoTask
  BY ZenonT(30), <1>3 DEF handle_task_update, _handle_finished_job_exe, Finished, is_finished
<1>7. CASE exe' = exe /\ task' = task
  <2>1. \A f \in JobExes : Orderly(exe[f])' /\ ToCome(exe[f])' = ToCome(exe[f])
    <3>1. \A f \in JobExes : Orderly(exe'[f])
      BY Zenon, <1>7 DEF TaskInv, LaunchInv
    <3>2. \A f \in JobExes : Orderly(exe[f])'
      BY Zenon, <3>1 DEF Orderly
    <3>3. \A f \in JobExes : ToCome(exe[f])' = ToCome(exe[f])
      BY Zenon, <1>7 DEF ToCome
    <3>. QED
      BY Zenon, <3>2, <3>3
  <2>2. \A id \in TaskIds : /\ Launched(id) => Launched(id)'
                            /\ CurrentTaskId(id[1], id) => CurrentTaskId(id[1], id)'
    BY Zenon, <1>1, <1>4, <1>7, <2>1 DEF Launched, CurrentTaskId
  <2>3. LaunchInv'
    BY Zenon, <1>1, <1>2, <1>4, <1>6, <1>7, <2>1 DEF TaskInv, LaunchInv
  <2>4. MesosInv'
    BY Zenon, <1>1, <1>4, <2>2, UpdateTyped DEF TaskInv, MesosInv, NoUpdate
  <2>. QED
    BY Zenon, <2>3, <2>4 DEF TaskInv
<1>8. CASE /\ e \in running /\ CurrentTaskId(e, cb.id) /\ cb.status # "RUNNING"
           /\ exe' = [exe EXCEPT ![e] = y]
           /\ task' = IF again THEN [task EXCEPT ![t] = update_task_id_for_lost_task(@)] ELSE task
  <2>1. x \in JobExe /\ x.current = t[2] /\ task[t].lost = cb.id[3] /\ Orderly(x)
    BY ZenonT(30), <1>2, <1>3, <1>8 DEF CurrentTaskId, TaskInv, LaunchInv
  <2>2. /\ Orderly(y) /\ y.current = NoTask
        /\ ToCome(y) \subseteq ToCome(x) \cup {t[2]}
        /\ ~again => ToCome(y) \subseteq ToCome(x)
    BY ZenonT(30), <1>1, <1>3, <1>8, <2>1, UpdateOrderly
  <2>. HIDE DEF y
  <2>3. /\ exe'[e] = y /\ \A f \in JobExes : f # e => exe'[f] = exe[f]
        /\ \A f \in JobExes : Orderly(exe[f])'
    <3>1. exe'[e] = y /\ \A f \in JobExes : f # e => exe'[f] = exe[f]
      BY ZenonT(30), <1>2, <1>3, <1>8
    <3>2. \A f \in JobExes : Orderly(exe'[f])
      BY ZenonT(30), <2>2, <3>1 DEF TaskInv, LaunchInv
    <3>. QED
      BY ZenonT(30), <3>1, <3>2 DEF Orderly
  <2>4. /\ \A w \in Tasks : w # t => task'[w].lost = task[w].lost
        /\ again => task'[t].lost = task[t].lost + 1
        /\ ~again => task'[t].lost = task[t].lost
    BY ZenonT(30), <1>2, <1>3, <1>8, TaskMethods
  <2>5. \A f \in JobExes : ToCome(exe[f])' = ToCome(exe'[f])
    BY DEF ToCome
  <2>6. ASSUME NEW id \in TaskIds, Launched(id) PROVE Launched(id)'
    <3>1. CASE TaskOf(id) = t
      <4>1. id[3] \in Nat /\ task[t].lost \in Nat /\ id[3] <= task[t].lost
        BY Zenon, <1>2, <1>3, <1>4, <2>6, <3>1 DEF Launched
      <4>2. \A i, k \in Nat : i <= k => i <= k + 1 /\ i # k + 1
        OBVIOUS
      <4>3. CASE again
        <5>1. task'[t].lost = task[t].lost + 1
          BY Zenon, <2>4, <4>3
        <5>2. id[3] <= task'[t].lost /\ id[3] # task'[t].lost
          BY Zenon, <4>1, <4>2, <5>1
        <5>. QED
          BY Zenon, <3>1, <5>2 DEF Launched
      <4>4. CASE ~again
        <5>1. id[3] = task[t].lost => id[2] \notin ToCome(exe'[id[1]]) /\ TaskOf(id) \notin sched'.tasks
          BY Zenon, <1>1, <1>4, <2>2, <2>3, <2>6, <3>1, <4>4 DEF Launched
        <5>. QED
          BY Zenon, <1>3, <1>4, <2>4, <2>5, <3>1, <4>1, <4>4, <5>1 DEF Launched
      <4>. QED
        BY Zenon, <4>3, <4>4
    <3>2. CASE TaskOf(id) # t
      BY ZenonT(30), <1>1, <1>2, <1>3, <1>4, <2>2, <2>3, <2>4, <2>5, <2>6, <3>2 DEF Launched
    <3>. QED
      BY ZenonT(30), <3>1, <3>2
  <2>7. ASSUME NEW id \in TaskIds, mesos[id] = "active"
        PROVE  id[1] # e /\ CurrentTaskId(id[1], id)'
    <3>1. CurrentTaskId(id[1], id)
      BY Zenon, <2>7 DEF TaskInv, MesosInv
    <3>2. id[1] # e
      <4>1. SUFFICES ASSUME id[1] = e PROVE FALSE
        BY Zenon
      <4>2. id[2] = t[2]
        BY ZenonT(30), <2>1, <3>1, <4>1 DEF CurrentTaskId
      <4>3. TaskOf(id) = t
        BY ZenonT(30), <1>4, <4>1, <4>2
      <4>4. id[3] = cb.id[3]
        BY ZenonT(30), <2>1, <3>1, <4>3 DEF CurrentTaskId
      <4>5. id = cb.id
        BY ZenonT(30), <1>3, <1>4, <4>1, <4>2, <4>4
      <4>. QED
        BY ZenonT(30), <1>5, <1>8, <2>7, <4>5
    <3>3. TaskOf(id) # t
      BY ZenonT(30), <1>4, <3>2
    <3>. QED
      BY ZenonT(30), <1>4, <2>3, <2>4, <3>1, <3>2, <3>3 DEF CurrentTaskId
  <2>8. \A id \in taskMgr' : (id[3] = task[TaskOf(id)].lost /\ id[2] \notin ToCome(exe[id[1]]))'
    <3>. SUFFICES ASSUME NEW id \in taskMgr
                  PROVE  (id[3] = task[TaskOf(id)].lost /\ id[2] \notin ToCome(exe[id[1]]))'
      BY Zenon, <1>1
    <3>1. id \in TaskIds /\ id[3] = task[TaskOf(id)].lost /\ id[2] \notin ToCome(exe[id[1]])
      BY Zenon, <1>2 DEF TaskInv, LaunchInv
    <3>2. CASE TaskOf(id) = t
      <4>1. id = cb.id
        BY ZenonT(30), <1>3, <1>4, <2>1, <3>1, <3>2
      <4>2. ~again
        BY Zenon, <1>5, <4>1
      <4>. QED
        BY ZenonT(30), <1>3, <1>4, <2>2, <2>3, <2>4, <2>5, <3>1, <3>2, <4>2
    <3>3. CASE TaskOf(id) # t
      BY ZenonT(30), <1>3, <1>4, <2>2, <2>3, <2>4, <2>5, <3>1, <3>3
    <3>. QED
      BY ZenonT(30), <3>2, <3>3
  <2>9. \A w \in sched'.tasks : exe'[w[1]].current = w[2]
    <3>. SUFFICES ASSUME NEW w \in sched.tasks PROVE exe'[w[1]].current = w[2]
      BY ZenonT(30), <1>1
    <3>1. w \in Tasks /\ w[1] \in JobExes /\ w = <<w[1], w[2]>> /\ exe[w[1]].current = w[2]
      BY <1>2 DEF Scheds, Tasks, TaskInv, LaunchInv
    <3>2. w # t
      BY Zenon, <1>5, <2>1 DEF Launched
    <3>3. w[1] # e
      BY ZenonT(30), <2>1, <3>1, <3>2, <1>3 DEF TaskOf
    <3>. QED
      BY Zenon, <2>3, <3>1, <3>3
  <2>10. LaunchInv'
    <3>1. \A f \in JobExes \ running' : exe'[f].current = NoTask
      BY ZenonT(30), <1>6, <2>2, <2>3 DEF TaskInv, LaunchInv
    <3>2. cleanup' \subseteq scheduled' \ running'
      BY ZenonT(30), <1>1, <1>2, <1>6 DEF TaskInv, LaunchInv
    <3>. QED
      BY ZenonT(30), <2>3, <2>8, <2>9, <3>1, <3>2 DEF LaunchInv
  <2>11. MesosInv'
    BY ZenonT(30), <1>1, <2>6, <2>7, UpdateTyped DEF TaskInv, MesosInv, NoUpdate
  <2>. QED
    BY <2>10, <2>11 DEF TaskInv
<1>9. \/ exe' = exe /\ task' = task
      \/ /\ e \in running /\ CurrentTaskId(e, cb.id) /\ cb.status # "RUNNING"
         /\ exe' = [exe EXCEPT ![e] = y]
         /\ task' = IF again THEN [task EXCEPT ![t] = update_task_id_for_lost_task(@)] ELSE task
  <2>1. cb.status = "RUNNING" => y = x
    BY Zenon DEF task_update
  <2>. HIDE DEF y
  <2>2. cb.status = "RUNNING" => [exe EXCEPT ![e] = y] = exe
    BY ZenonT(30), <1>2, <1>3, <2>1
  <2>. QED
    BY Zenon, <2>2 DEF handle_task_update, y
<1>. QED
  BY Zenon, <1>7, <1>8, <1>9

\* start_job_exe_tasks: the task that is started was never launched under its ID.
LEMMA StartTask ==
  ASSUME IInv, ReportInv, KillInv, TaskInv, start_job_exe_tasks
  PROVE  TaskInv'
<1>1. PICK kept \in SUBSET sched.exes :
        /\ exe' = [e \in JobExes |-> IF e \in startable(kept) THEN start_next_task(exe[e]) ELSE exe[e]]
        /\ sched' = [pc |-> "launch", exes |-> {}, lost |-> {},
                     tasks |-> {<<e, Head(exe[e].remaining)>> : e \in startable(kept)}]
  BY Zenon DEF start_job_exe_tasks
<1>. DEFINE S == startable(kept)
<1>2. UNCHANGED <<running, scheduled, task, taskMgr, cleanup, cb, mesos, answers>>
  BY Zenon DEF start_job_exe_tasks
<1>3. /\ exe \in [JobExes -> JobExe] /\ taskMgr \subseteq TaskIds
      /\ S \subseteq JobExes /\ S \subseteq scheduled
  BY Zenon DEF IInv, TypeOK, Scheds, KillInv, startable
<1>4. ASSUME NEW e \in S
      PROVE  /\ Orderly(exe'[e]) /\ exe'[e].current = Head(exe[e].remaining)
             /\ exe'[e].current \in ToCome(exe[e]) /\ ToCome(exe'[e]) \subseteq ToCome(exe[e])
             /\ exe[e].current = NoTask /\ e \in running
  <2>1. exe[e] \in JobExe /\ Orderly(exe[e]) /\ is_next_task_ready(exe[e]) /\ e \in JobExes
    BY Zenon, <1>3 DEF TaskInv, LaunchInv, startable
  <2>2. exe'[e] = start_next_task(exe[e])
    BY Zenon, <1>1, <2>1
  <2>3. exe[e].status = "RUNNING" /\ exe[e].current = NoTask
    BY Zenon, <2>1 DEF Orderly, is_next_task_ready
  <2>4. e \in running
    BY ZenonT(30), <1>3, <2>3 DEF KillInv
  <2>. QED
    BY ZenonT(30), <2>1, <2>2, <2>3, <2>4, StartOrderly
<1>5. \A e \in JobExes \ S : exe'[e] = exe[e]
  BY <1>1
<1>6. \A e \in JobExes : /\ Orderly(exe'[e]) /\ ToCome(exe'[e]) \subseteq ToCome(exe[e])
                         /\ ToCome(exe[e])' = ToCome(exe'[e])
  BY ZenonT(60), <1>4, <1>5 DEF TaskInv, LaunchInv, ToCome
<1>7. \A t \in sched'.tasks : /\ t[1] \in S /\ exe'[t[1]].current = t[2]
                              /\ t[2] \in ToCome(exe[t[1]])
  <2>1. \A t \in sched'.tasks : \E e \in S : t = <<e, Head(exe[e].remaining)>>
    BY Zenon, <1>1
  <2>2. \A e \in S : exe'[e].current = Head(exe[e].remaining) /\ exe'[e].current \in ToCome(exe[e])
    BY Zenon, <1>4
  <2>. HIDE DEF S
  <2>. QED
    BY <2>1, <2>2
<1>8. ASSUME NEW id \in TaskIds, Launched(id) PROVE Launched(id)'
  <2>1. /\ TaskOf(id)' = TaskOf(id) /\ id[1] \in JobExes
        /\ TaskOf(id)[1] = id[1] /\ TaskOf(id)[2] = id[2]
    BY Zenon, TaskOfTyped DEF TaskOf
  <2>. QED
    BY Zenon, <1>2, <1>6, <1>7, <1>8, <2>1 DEF Launched
<1>9. LaunchInv'
  <2>1. \A id \in taskMgr' : (id[3] = task[TaskOf(id)].lost /\ id[2] \notin ToCome(exe[id[1]]))'
    <3>1. \A id \in taskMgr : id[1] \in JobExes /\ TaskOf(id)' = TaskOf(id)
      BY Zenon, <1>3, TaskOfTyped DEF TaskOf
    <3>. QED
      BY Zenon, <1>2, <1>6, <3>1 DEF TaskInv, LaunchInv
  <2>2. \A e \in JobExes : Orderly(exe[e])'
    BY Zenon, <1>6 DEF Orderly
  <2>3. \A e \in JobExes \ running' : exe'[e].current = NoTask
    BY Zenon, <1>2, <1>4, <1>5 DEF TaskInv, LaunchInv
  <2>. QED
    BY Zenon, <1>2, <1>7, <2>1, <2>2, <2>3 DEF TaskInv, LaunchInv
<1>10. MesosInv'
  <2>1. ASSUME NEW id \in TaskIds, mesos[id] = "active" PROVE CurrentTaskId(id[1], id)'
    <3>1. CurrentTaskId(id[1], id) /\ id[1] \in JobExes /\ id[2] # NoTask /\ TaskOf(id)' = TaskOf(id)
      <4>1. id[1] \in JobExes /\ id[2] # NoTask
        BY TaskOfTyped, NumTasksAssumption DEF TaskNums, NoTask
      <4>. QED
        BY Zenon, <2>1, <4>1 DEF TaskInv, MesosInv, TaskOf
    <3>2. id[1] \notin S
      BY Zenon, <1>4, <3>1 DEF CurrentTaskId
    <3>. QED
      BY Zenon, <1>2, <1>5, <3>1, <3>2 DEF CurrentTaskId
  <2>. QED
    BY Zenon, <1>2, <1>8, <2>1, UpdateTyped DEF TaskInv, MesosInv
<1>. QED
  BY <1>9, <1>10 DEF TaskInv

\* A step that leaves executions, losses and the plan of the scheduling thread alone
\* keeps what is launched and what is current.
LEMMA SameTasks ==
  ASSUME TypeOK, UNCHANGED exe, sched'.tasks \subseteq sched.tasks,
         \A t \in Tasks : task'[t].lost = task[t].lost, NEW id \in TaskIds
  PROVE  /\ Launched(id) => Launched(id)'
         /\ CurrentTaskId(id[1], id) => CurrentTaskId(id[1], id)'
         /\ (id[3] = task[TaskOf(id)].lost /\ id[2] \notin ToCome(exe[id[1]])) =>
              (id[3] = task[TaskOf(id)].lost /\ id[2] \notin ToCome(exe[id[1]]))'
<1>1. TaskOf(id) \in Tasks /\ TaskOf(id)' = TaskOf(id) /\ ToCome(exe[id[1]])' = ToCome(exe[id[1]])
  BY TaskOfTyped DEF TaskOf, ToCome
<1>. QED
  BY Zenon, <1>1 DEF Launched, CurrentTaskId

\* task_mgr.launch_tasks puts a task in the manager under its present ID. No update
\* about that ID is on its way.
LEMMA LaunchTask ==
  ASSUME IInv, TaskInv, launch_tasks
  PROVE  TaskInv'
<1>1. /\ UNCHANGED <<running, scheduled, exe, cleanup, cb, mesos, answers>>
      /\ taskMgr' \subseteq taskMgr \cup {IdOf(t) : t \in sched.tasks}
      /\ sched'.tasks = sched.tasks /\ sched.tasks \subseteq Tasks
  BY Zenon DEF launch_tasks, IInv, TypeOK, Scheds
<1>2. exe \in [JobExes -> JobExe] /\ task \in [Tasks -> Task] /\ taskMgr \subseteq TaskIds
  BY DEF IInv, TypeOK
<1>3. \A t \in Tasks : task'[t].lost = task[t].lost
  BY Zenon, <1>2, TaskMethods DEF launch_tasks
<1>4. ASSUME NEW t \in sched.tasks
      PROVE  LET id == IdOf(t)
             IN  /\ id \in TaskIds /\ TaskOf(id) = t /\ id[3] = task[t].lost
                 /\ id[2] \notin ToCome(exe[id[1]])
  <2>1. /\ t \in Tasks /\ t = <<t[1], t[2]>> /\ t[1] \in JobExes /\ t[2] # NoTask
        /\ exe[t[1]].current = t[2]
    BY <1>1, NumTasksAssumption DEF Tasks, TaskInv, LaunchInv, TaskNums, NoTask
  <2>2. Orderly(exe[t[1]]) /\ exe[t[1]] \in JobExe
    BY Zenon, <1>2, <2>1 DEF TaskInv, LaunchInv
  <2>. QED
    BY Zenon, <2>1, <2>2, IdOfTyped, CurrentNotToCome DEF TaskOf, IInv
<1>5. LaunchInv'
  <2>1. \A id \in taskMgr' : /\ id \in TaskIds
                             /\ id[3] = task[TaskOf(id)].lost /\ id[2] \notin ToCome(exe[id[1]])
    BY <1>1, <1>2, <1>4 DEF TaskInv, LaunchInv
  <2>2. \A id \in taskMgr' : (id[3] = task[TaskOf(id)].lost /\ id[2] \notin ToCome(exe[id[1]]))'
    BY Zenon, <1>1, <1>3, <2>1, SameTasks DEF IInv
  <2>3. \A e \in JobExes : Orderly(exe[e])'
    BY Zenon, <1>1 DEF TaskInv, LaunchInv, Orderly
  <2>. QED
    BY ZenonT(30), <1>1, <2>2, <2>3 DEF TaskInv, LaunchInv
<1>6. MesosInv'
  <2>1. cb.status = "LOST" => cb.id \notin taskMgr'
    <3>. SUFFICES ASSUME cb.status = "LOST", NEW t \in sched.tasks, cb.id = IdOf(t) PROVE FALSE
      BY ZenonT(30), <1>1 DEF TaskInv, MesosInv
    <3>1. Launched(cb.id)
      BY SMTT(60) DEF TaskInv, MesosInv, NoUpdate
    <3>. QED
      BY Zenon, <1>4, <3>1 DEF Launched
  <2>2. \A id \in TaskIds : /\ Launched(id) => Launched(id)'
                            /\ CurrentTaskId(id[1], id) => CurrentTaskId(id[1], id)'
    BY Zenon, <1>1, <1>3, SameTasks DEF IInv
  <2>. QED
    BY Zenon, <1>1, <2>1, <2>2, UpdateTyped DEF TaskInv, MesosInv
<1>. QED
  BY <1>5, <1>6 DEF TaskInv

\* driver.launchTasks: Mesos has seen none of the IDs, so it refuses none.
LEMMA DriverTask ==
  ASSUME IInv, TaskInv, driver_launchTasks
  PROVE  TaskInv'
<1>1. PICK raised : LET ids == {IdOf(t) : t \in sched.tasks \ raised}
                    IN  /\ mesos' = [i \in TaskIds |-> IF i \in ids /\ mesos[i] = "none"
                                                       THEN "active" ELSE mesos[i]]
                        /\ answers' = answers \cup {[id |-> i, status |-> "FAILED"] :
                                                      i \in {j \in ids : mesos[j] # "none"}}
  BY Zenon DEF driver_launchTasks
<1>. DEFINE ids == {IdOf(t) : t \in sched.tasks \ raised}
<1>2. /\ UNCHANGED <<running, scheduled, exe, task, taskMgr, cleanup, cb>>
      /\ sched'.tasks = {} /\ sched.tasks \subseteq Tasks
  BY Zenon DEF driver_launchTasks, IdleSched, IInv, TypeOK, Scheds
<1>3. exe \in [JobExes -> JobExe] /\ taskMgr \subseteq TaskIds
  BY Zenon DEF IInv, TypeOK
<1>4. ASSUME NEW i \in ids
      PROVE  /\ i \in TaskIds /\ TaskOf(i) \in sched.tasks /\ CurrentTaskId(i[1], i)
             /\ i[2] \notin ToCome(exe[i[1]]) /\ ~Launched(i)
  <2>1. PICK t \in sched.tasks : i = IdOf(t)
    BY Zenon
  <2>2. /\ t \in Tasks /\ t = <<t[1], t[2]>> /\ t[1] \in JobExes /\ t[2] # NoTask
        /\ exe[t[1]].current = t[2]
    BY <1>2, NumTasksAssumption DEF Tasks, TaskInv, LaunchInv, TaskNums, NoTask
  <2>3. i \in TaskIds /\ TaskOf(i) = t /\ i[1] = t[1] /\ i[2] = t[2] /\ i[3] = task[t].lost
    BY Zenon, <2>1, <2>2, IdOfTyped DEF IInv, TaskOf
  <2>4. Orderly(exe[t[1]]) /\ exe[t[1]] \in JobExe
    BY Zenon, <1>3, <2>2 DEF TaskInv, LaunchInv
  <2>. QED
    BY Zenon, <2>2, <2>3, <2>4, CurrentNotToCome DEF CurrentTaskId, Launched
<1>5. \A i \in ids : mesos[i] = "none"
  BY Zenon, <1>4 DEF TaskInv, MesosInv
<1>6. answers' = answers /\ \A i \in TaskIds : mesos'[i] = IF i \in ids THEN "active" ELSE mesos[i]
  BY Zenon, <1>1, <1>5
<1>7. \A id \in TaskIds : /\ Launched(id) => Launched(id)'
                          /\ CurrentTaskId(id[1], id) => CurrentTaskId(id[1], id)'
                          /\ (id[3] = task[TaskOf(id)].lost /\ id[2] \notin ToCome(exe[id[1]])) =>
                               (id[3] = task[TaskOf(id)].lost /\ id[2] \notin ToCome(exe[id[1]]))'
  BY Zenon, <1>2, SameTasks DEF IInv
<1>. HIDE DEF ids
<1>8. LaunchInv'
  <2>1. \A e \in JobExes : Orderly(exe[e])'
    BY Zenon, <1>2 DEF TaskInv, LaunchInv, Orderly
  <2>. QED
    BY Zenon, <1>2, <1>3, <1>7, <2>1 DEF TaskInv, LaunchInv
<1>9. MesosInv'
  <2>1. ASSUME NEW i \in ids PROVE Launched(i)'
    <3>1. i[3] = task[TaskOf(i)].lost /\ TaskOf(i) \in Tasks /\ task[TaskOf(i)].lost \in Nat
      BY <1>4, TaskOfTyped DEF CurrentTaskId, IInv, TypeOK
    <3>2. (i[3] = task[TaskOf(i)].lost /\ i[2] \notin ToCome(exe[i[1]]))'
      BY Zenon, <1>4, <1>7, <3>1
    <3>3. i[3] \in Nat
      BY Zenon, <3>1
    <3>. QED
      BY <1>2, <3>2, <3>3 DEF Launched
  <2>2. \A u \in (answers \cup {cb}) \ {NoUpdate} : u.id \in TaskIds /\ Launched(u.id) /\ u.id \notin ids
    BY Zenon, <1>4, UpdateTyped DEF TaskInv, MesosInv
  <2>. QED
    BY ZenonT(30), <1>2, <1>4, <1>6, <1>7, <2>1, <2>2 DEF TaskInv, MesosInv
<1>. QED
  BY <1>8, <1>9 DEF TaskInv

\* A step of Mesos ends a task, or answers a question about a task that was launched.
LEMMA MesosTask ==
  ASSUME IInv, TaskInv,
         UNCHANGED <<running, scheduled, exe, task, taskMgr, cleanup, cb, sched>>,
         \A id \in TaskIds : \/ mesos'[id] = mesos[id]
                             \/ mesos[id] = "active" /\ mesos'[id] \notin {"none", "active"},
         \A u \in answers' \ answers :
           u.id \in TaskIds /\ Launched(u.id) /\ mesos[u.id] # "active"
  PROVE  TaskInv'
<1>1. \A id \in TaskIds : /\ Launched(id) => Launched(id)'
                          /\ CurrentTaskId(id[1], id) => CurrentTaskId(id[1], id)'
                          /\ (id[3] = task[TaskOf(id)].lost /\ id[2] \notin ToCome(exe[id[1]])) =>
                               (id[3] = task[TaskOf(id)].lost /\ id[2] \notin ToCome(exe[id[1]]))'
  BY Zenon, SameTasks DEF IInv
<1>2. LaunchInv'
  <2>1. \A e \in JobExes : Orderly(exe[e])'
    BY Zenon DEF TaskInv, LaunchInv, Orderly
  <2>2. taskMgr \subseteq TaskIds
    BY Zenon DEF IInv, TypeOK
  <2>. QED
    BY Zenon, <1>1, <2>1, <2>2 DEF TaskInv, LaunchInv
<1>3. MesosInv'
  <2>1. ASSUME NEW u \in (answers' \cup {cb'}) \ {NoUpdate}
        PROVE  Launched(u.id)' /\ (u.status # "RUNNING" => mesos'[u.id] # "active")
    <3>1. /\ u.id \in TaskIds /\ Launched(u.id) /\ (u.status # "RUNNING" => mesos[u.id] # "active")
      BY Zenon, UpdateTyped DEF TaskInv, MesosInv
    <3>. QED
      BY Zenon, <1>1, <3>1
  <2>. QED
    BY Zenon, <1>1, <2>1 DEF TaskInv, MesosInv
<1>. QED
  BY Zenon, <1>2, <1>3 DEF TaskInv

\* What the threads ask Mesos about, or ask it to kill, was launched.
LEMMA RequestTask ==
  ASSUME IInv, TaskInv, ~RacyRequests, NEW t \in Tasks,
         kill_task(t) \/ perform_reconciliation(t)
  PROVE  TaskInv'
<1>1. PICK i \in taskMgr : TaskOf(i) = t /\ t \notin sched.tasks
  BY Zenon DEF kill_task, perform_reconciliation, MayBeReconciled, BeingLaunched
<1>2. /\ i \in TaskIds /\ i = IdOf(t) /\ i[3] = task[TaskOf(i)].lost /\ i[2] \notin ToCome(exe[i[1]])
  BY ZenonT(30), <1>1, ListedId DEF TaskInv, LaunchInv
<1>3. Launched(i)
  <2>1. i[3] \in Nat
    BY SMTT(60), <1>2, TaskOfTyped
  <2>. QED
    BY <1>1, <1>2, <2>1 DEF Launched
<1>4. UNCHANGED <<running, scheduled, exe, task, taskMgr, cleanup, cb, sched>>
  BY Zenon DEF kill_task, perform_reconciliation
<1>5. CASE /\ mesos' = mesos /\ mesos[i] = "none"
           /\ answers' = answers \cup {[id |-> i, status |-> "LOST"]}
  <2>1. \A u \in answers' \ answers : u.id = i
    BY SMTT(60), <1>5
  <2>2. \A u \in answers' \ answers : u.id \in TaskIds /\ Launched(u.id) /\ mesos[u.id] # "active"
    BY Zenon, <1>2, <1>3, <1>5, <2>1
  <2>3. \A j \in TaskIds : mesos'[j] = mesos[j]
    BY Zenon, <1>5
  <2>. QED
    BY ZenonT(30), <1>4, <2>2, <2>3, MesosTask
<1>6. CASE mesos' = [mesos EXCEPT ![i] = "KILLED"] /\ answers' = answers /\ mesos[i] = "active"
  <2>1. \A j \in TaskIds : \/ mesos'[j] = mesos[j]
                           \/ mesos[j] = "active" /\ mesos'[j] \notin {"none", "active"}
    <3>1. mesos \in [TaskIds -> MesosStates]
      BY DEF IInv, TypeOK
    <3>. QED
      BY Zenon, <1>6, <3>1
  <2>2. answers' \ answers = {}
    BY Zenon, <1>6
  <2>. QED
    BY Zenon, <1>4, <2>1, <2>2, MesosTask
<1>. QED
  BY Zenon, <1>2, <1>5, <1>6 DEF kill_task, perform_reconciliation, LostAnswer

-----------------------------------------------------------------------------
(* The invariant and what follows from it.                                 *)

\* No step of any thread or of Mesos breaks the invariant of the tasks.
LEMMA TaskInvStep ==
  ASSUME IInv, IInv', ReportInv, KillInv, TaskInv, ~RacyRequests, [Next]_vars
  PROVE  TaskInv'
<1>1. /\ exe \in [JobExes -> JobExe] /\ task \in [Tasks -> Task] /\ sched \in Scheds
      /\ running \subseteq scheduled /\ scheduled \subseteq JobExes
      /\ \A e \in JobExes : Orderly(exe[e])
  BY Zenon DEF IInv, TypeOK, ReportInv, TaskInv, LaunchInv
<1>2. TableShrinks
  BY SMTT(60), EndStep
<1>3. CASE UNCHANGED vars \/ schedule_begin \/ sync_begin \/ sync_read \/ \E e \in JobExes : CancelJob(e)
  <2>1. /\ UNCHANGED <<running, scheduled, exe, task, taskMgr, cleanup, cb, mesos, answers>>
        /\ sched' = sched \/ sched'.tasks = {}
    BY SMTT(60), <1>3 DEF vars, schedule_begin, sync_begin, sync_read, CancelJob
  <2>. QED
    BY Zenon, <1>1, <2>1, ExeOnlyStep
<1>4. CASE \E id \in TaskIds : MesosUpdate(id)
  <2>1. PICK id \in TaskIds : MesosUpdate(id)
    BY Zenon, <1>4
  <2>. DEFINE s == IF mesos[id] = "active" THEN "RUNNING" ELSE mesos[id]
              u == [id |-> id, status |-> s]
  <2>2. s \in Statuses
    BY Zenon, <2>1 DEF MesosUpdate, IInv, TypeOK, MesosStates, Statuses
  <2>3. /\ u \in Updates /\ u.id = id /\ u.status = s
        /\ Launched(u.id) /\ (u.status # "RUNNING" => mesos[u.id] # "active")
    BY Zenon, <2>1, <2>2 DEF Updates, MesosUpdate, TaskInv, MesosInv
  <2>4. statusUpdate(u) /\ answers' = answers
    BY Zenon, <2>1 DEF MesosUpdate
  <2>. HIDE DEF u
  <2>. QED
    BY Zenon, <2>3, <2>4, StatusUpdateTask
<1>5. CASE \E u \in answers : MesosAnswer(u)
  <2>1. PICK u \in answers : MesosAnswer(u)
    BY ZenonT(30), <1>5
  <2>2. u \in Updates /\ u # NoUpdate
    BY SMTT(60) DEF IInv, TypeOK, UpdatesAreTrue, NoUpdate
  <2>. QED
    BY Zenon, <2>1, <2>2, StatusUpdateTask DEF MesosAnswer, TaskInv, MesosInv
<1>6. CASE handle_task_update
  BY <1>6, HandleTaskUpdateTask
<1>7. CASE \E S \in SUBSET running : lost_node(S)
  <2>1. PICK S \in SUBSET running : lost_node(S)
    BY Zenon, <1>7
  <2>2. \A e \in JobExes : /\ Orderly(exe'[e]) /\ exe'[e].current = exe[e].current
                           /\ ToCome(exe'[e]) \subseteq ToCome(exe[e])
    BY Zenon, <2>1, EndedOrderly DEF lost_node
  <2>3. /\ running' \subseteq running /\ cleanup' \subseteq cleanup \cup (running \ running')
        /\ \A e \in running \ running' : exe'[e].current = NoTask
    BY Zenon, <2>1 DEF lost_node, _handle_finished_job_exe, Finished, is_finished
  <2>. QED
    BY Zenon, <1>1, <2>1, <2>2, <2>3, ExeOnlyStep DEF lost_node
<1>8. CASE schedule_starved
  <2>1. PICK S \in SUBSET {e \in running : can_starve(exe[e])} :
          /\ exe' = [e \in JobExes |-> IF e \in S THEN check_for_starvation(exe[e]) ELSE exe[e]]
          /\ running' = running \ S /\ cleanup' = cleanup \cup S
    BY Zenon, <1>8 DEF schedule_starved, _handle_finished_job_exe
  <2>2. \A e \in JobExes : /\ Orderly(exe'[e]) /\ exe'[e].current = exe[e].current
                           /\ ToCome(exe'[e]) \subseteq ToCome(exe[e])
    BY Zenon, <2>1, EndedOrderly
  <2>3. \A e \in running \ running' : exe'[e].current = NoTask
    BY Zenon, <1>1, <2>1, <2>2 DEF can_starve, is_next_task_ready
  <2>4. sched'.tasks = sched.tasks
    BY <1>1, <1>8 DEF schedule_starved, Scheds
  <2>. QED
    BY Zenon, <1>1, <1>8, <2>1, <2>2, <2>3, <2>4, ExeOnlyStep DEF schedule_starved
<1>9. CASE lost_job_exes
  <2>1. \A e \in JobExes : /\ Orderly(exe'[e]) /\ exe'[e].current = exe[e].current
                           /\ ToCome(exe'[e]) \subseteq ToCome(exe[e])
    BY ZenonT(30), <1>9, EndedOrderly DEF lost_job_exes
  <2>2. /\ running' \subseteq running /\ cleanup' \subseteq cleanup \cup (running \ running')
        /\ \A e \in running \ running' : exe'[e].current = NoTask
    BY <1>9 DEF lost_job_exes, _handle_finished_job_exe, Finished, is_finished
  <2>3. \A t \in Tasks : task'[t].lost = task[t].lost
    BY <1>1, <1>9, TaskMethods DEF lost_job_exes
  <2>4. sched'.tasks = sched.tasks
    BY <1>1, <1>9 DEF lost_job_exes, Scheds
  <2>. QED
    BY Zenon, <1>1, <1>9, <2>1, <2>2, <2>3, <2>4, ExeOnlyStep DEF lost_job_exes
<1>10. CASE schedule_job_exes
  <2>1. PICK S \in SUBSET (JobExes \ scheduled), C \in SUBSET JobExes :
          /\ scheduled' = scheduled \cup S
          /\ running' = running \cup (S \ C)
          /\ exe' = [e \in JobExes |-> IF e \in C THEN execution_canceled(exe[e]) ELSE exe[e]]
          /\ sched' = [sched EXCEPT !.pc = "start", !.exes = @ \cup (S \ C)]
    BY Zenon, <1>10 DEF schedule_job_exes
  <2>2. \A e \in JobExes : /\ Orderly(exe'[e]) /\ exe'[e].current = exe[e].current
                           /\ ToCome(exe'[e]) \subseteq ToCome(exe[e])
    BY Zenon, <2>1, EndedOrderly
  <2>3. sched'.tasks = sched.tasks
    BY Zenon, <1>1, <2>1 DEF Scheds
  <2>. QED
    BY ZenonT(30), <1>1, <1>10, <2>1, <2>2, <2>3, ExeOnlyStep DEF schedule_job_exes
<1>11. CASE start_job_exe_tasks
  BY Zenon, <1>11, StartTask
<1>12. CASE launch_tasks
  BY <1>12, LaunchTask
<1>13. CASE driver_launchTasks
  BY Zenon, <1>13, DriverTask
<1>14. CASE timeout_tasks
  <2>1. \A t \in Tasks : task'[t].lost = task[t].lost
    BY Zenon, <1>1, <1>14, TaskMethods DEF timeout_tasks
  <2>. QED
    BY Zenon, <1>1, <1>14, <2>1, ExeOnlyStep DEF timeout_tasks
<1>15. CASE \E t \in Tasks : handle_task_timeout(t)
  <2>1. PICK t \in Tasks : handle_task_timeout(t)
    BY <1>15
  <2>. DEFINE S == {t[1]} \cap running
  <2>2. exe' = [e \in JobExes |-> IF e \in S THEN execution_timed_out(exe[e]) ELSE exe[e]]
    BY Zenon, <1>1, <2>1 DEF handle_task_timeout
  <2>3. \A e \in JobExes : /\ Orderly(exe'[e]) /\ exe'[e].current = exe[e].current
                           /\ ToCome(exe'[e]) \subseteq ToCome(exe[e])
    BY Zenon, <2>2, EndedOrderly
  <2>. QED
    BY Zenon, <1>1, <2>1, <2>3, ExeOnlyStep DEF handle_task_timeout
<1>16. CASE \E t \in Tasks : kill_task(t) \/ perform_reconciliation(t)
  BY Zenon, <1>16, RequestTask
<1>17. CASE sync_apply \/ sync_apply_raises
  <2>1. PICK S \in SUBSET JobExes, done \in SUBSET JobExes :
          /\ CancelAll(S, done)
          /\ \A e \in done \cap running : exe[e].current = NoTask
          /\ cleanup' \subseteq cleanup \cup (done \cap running)
    <3>1. sync.exes \subseteq JobExes
      BY Zenon DEF IInv, TypeOK
    <3>2. CASE sync_apply
      <4>1. /\ sync.exes \subseteq running /\ CancelAll(sync.exes, CanceledDone(sync.exes))
            /\ cleanup' \subseteq cleanup \cup CanceledDone(sync.exes)
        BY ZenonT(30), <3>2 DEF sync_apply, Gone
      <4>. QED
        BY Zenon, <3>1, <4>1 DEF CanceledDone
    <3>3. CASE sync_apply_raises
      <4>1. PICK g \in Gone, S \in SUBSET (sync.exes \ Gone) :
              CancelAll(S \cup {g}, CanceledDone(S) \cup {g})
        BY Zenon, <3>3 DEF sync_apply_raises
      <4>2. /\ S \cup {g} \in SUBSET JobExes /\ CanceledDone(S) \cup {g} \in SUBSET JobExes
            /\ \A e \in (CanceledDone(S) \cup {g}) \cap running : exe[e].current = NoTask
            /\ cleanup' = cleanup
        BY Zenon, <3>1, <3>3 DEF CanceledDone, Gone, sync_apply_raises
      <4>. QED
        BY <4>1, <4>2
    <3>. QED
      BY Zenon, <1>17, <3>2, <3>3
  <2>2. \A e \in JobExes : /\ Orderly(exe'[e]) /\ exe'[e].current = exe[e].current
                           /\ ToCome(exe'[e]) \subseteq ToCome(exe[e])
    BY Zenon, <2>1, EndedOrderly DEF CancelAll
  <2>3. running' = running \ done
    BY Zenon, <2>1 DEF CancelAll, _handle_finished_job_exe
  <2>4. \A t \in Tasks : task'[t].lost = task[t].lost
    BY Zenon, <1>1, <2>1, TaskMethods DEF CancelAll
  <2>5. UNCHANGED <<scheduled, taskMgr, sched, cb, mesos, answers>>
    BY ZenonT(60), <1>17 DEF sync_apply, sync_apply_raises
  <2>. QED
    BY ZenonT(30), <1>1, <2>1, <2>2, <2>3, <2>4, <2>5, ExeOnlyStep
<1>18. CASE \E id \in TaskIds : MesosTaskEnds(id)
  <2>1. \A j \in TaskIds : \/ mesos'[j] = mesos[j]
                           \/ mesos[j] = "active" /\ mesos'[j] \notin {"none", "active"}
    <3>1. PICK id \in TaskIds, s \in {"FINISHED", "FAILED", "LOST"} :
            mesos[id] = "active" /\ mesos' = [mesos EXCEPT ![id] = s]
      BY Zenon, <1>18 DEF MesosTaskEnds
    <3>2. mesos \in [TaskIds -> MesosStates]
      BY DEF IInv, TypeOK
    <3>. QED
      BY <3>1, <3>2
  <2>2. /\ UNCHANGED <<running, scheduled, exe, task, taskMgr, cleanup, cb, sched>>
        /\ answers' \ answers = {}
    BY Zenon, <1>18 DEF MesosTaskEnds
  <2>. QED
    BY Zenon, <2>1, <2>2, MesosTask
<1>. QED
  BY ZenonT(30), <1>3, <1>4, <1>5, <1>6, <1>7, <1>8, <1>9, <1>10, <1>11, <1>12, <1>13, <1>14, <1>15, <1>16,
     <1>17, <1>18 DEF Next, scheduling, syncing

\* The invariant of the tasks holds as long as requests do not race with launches.
THEOREM TaskInvariant == ASSUME ~RacyRequests PROVE Spec => []TaskInv
<1>1. Init => TaskInv
  <2>. SUFFICES ASSUME Init PROVE TaskInv
    OBVIOUS
  <2>1. LaunchInv
    BY Zenon, NewOrderly DEF Init, LaunchInv, IdleSched, NewJobExe
  <2>2. MesosInv
    BY DEF Init, MesosInv, NoUpdate
  <2>. QED
    BY <2>1, <2>2 DEF TaskInv
<1>2. IInv /\ IInv' /\ ReportInv /\ KillInv /\ TaskInv /\ [Next]_vars => TaskInv'
  BY TaskInvStep
<1>. QED
  BY <1>1, <1>2, InductiveInvariant, ReportInvariant, KillInvariant, PTL DEF Spec

\* Mesos runs at most one task of an execution at a time, for any executions, tasks,
\* losses and interleaving, if no request reaches Mesos while the task it names is
\* being launched (start_next_task, update_task_id_for_lost_task).
THEOREM OneTaskCorrect == ASSUME ~RacyRequests PROVE Spec => []OneTaskAtATime
<1>1. TaskInv => OneTaskAtATime
  <2>. SUFFICES ASSUME TaskInv, NEW i \in TaskIds, NEW j \in TaskIds,
                       mesos[i] = "active", mesos[j] = "active", i[1] = j[1]
                PROVE  i = j
    BY Zenon DEF OneTaskAtATime
  <2>1. CurrentTaskId(i[1], i) /\ CurrentTaskId(j[1], j)
    BY DEF TaskInv, MesosInv
  <2>. QED
    BY <2>1, TaskOfTyped DEF CurrentTaskId, TaskOf
<1>. QED
  BY <1>1, TaskInvariant, PTL

\* An execution is cleaned up only when none of its tasks is alive, under the same
\* condition (_handle_finished_job_exe, cleanup_mgr.add_job_execution).
THEOREM CleanupCorrect == ASSUME ~RacyRequests PROVE Spec => []CleanupAfterDead
<1>1. IInv /\ TaskInv => CleanupAfterDead
  <2>. SUFFICES ASSUME IInv, TaskInv, NEW id \in TaskIds, id[1] \in cleanup, mesos[id] = "active"
                PROVE  FALSE
    BY Zenon DEF CleanupAfterDead
  <2>1. exe[id[1]].current = id[2]
    BY Zenon DEF TaskInv, MesosInv, CurrentTaskId
  <2>2. exe[id[1]].current = NoTask
    BY Zenon, TaskOfTyped DEF TaskInv, LaunchInv
  <2>3. id[2] \in TaskNums
    BY TaskOfTyped
  <2>. QED
    BY <2>1, <2>2, <2>3, NumTasksAssumption DEF TaskNums, NoTask
<1>. QED
  BY <1>1, TaskInvariant, InductiveInvariant, PTL
====

---- MODULE JobMessagesProofs ----
(***************************************************************************)
(* Proofs about the messages of a job, for any limit on tries, executions, *)
(* requests and restarts. The inductive invariant says of every message,   *)
(* waiting, already executed or still in the scheduler, that what it       *)
(* reports did happen; this stays true however late it is executed.        *)
(***************************************************************************)
EXTENDS JobMessages, TLAPS

\* What a message reports or asks for is true: an execution did complete, did
\* fail or was lost, a requeue has a failure or a user behind it, and a restart
\* message names a scheduler that has started.
IsTrue(m) ==
  /\ m.type = "completed" => Completed(m.n)
  /\ m.type \in {"failed", "failed_final"} => Failed(m.n) \/ Lost(m.n)
  /\ m.type = "requeued" => Failed(m.n) \/ Lost(m.n) \/ m.n \in asked
  /\ m.type = "requeue" => m.n \in asked
  /\ m.type = "running" => m.n > 0
  /\ m.type = "restart" => m.n <= epoch

MessagesAreTrue == \A m \in pool \cup executed \cup outbox : IsTrue(m)

\* The type of everything but the job.
OthersOK ==
  /\ queue \in SUBSET QueueRows /\ picked \in SUBSET QueueRows
  /\ exes \in SUBSET ExeRows /\ ended \in SUBSET Ends
  /\ pool \in SUBSET Messages /\ executed \in SUBSET Messages /\ outbox \in SUBSET Messages
  /\ running \in SUBSET ExeNums
  /\ epoch \in 1..MaxEpoch /\ clock \in 0..MaxClock
  /\ asked \in SUBSET (0..MaxExes)
  /\ parents \in {"waiting", "blocking", "completed"}

JobOK == job \in JobRows /\ job.num_exes <= MaxExes

\* A waiting job was never queued, and one never queued is waiting or canceled.
NeverQueued ==
  /\ job.status \in {"PENDING", "BLOCKED"} => job.num_exes = 0
  /\ job.num_exes = 0 => /\ job.status \in {"PENDING", "BLOCKED", "CANCELED"}
                         /\ job.node = FALSE /\ job.error = FALSE

IInv ==
  /\ TypeOK /\ MessagesAreTrue /\ NeverQueued
  /\ EveryExecutionHasACause /\ StatusIsOfLatestExecution /\ NodeAndErrorFitStatus

\* Updates of a row that leave its number of executions alone.
LEMMA RowKept ==
  ASSUME NEW j \in JobRows, NEW w \in Nat
  PROVE  /\ update_jobs_to_blocked(j, w) \in JobRows
         /\ update_jobs_to_pending(j, w) \in JobRows
         /\ update_jobs_to_canceled(j, w) \in JobRows
         /\ update_jobs_to_completed(j) \in JobRows
         /\ update_jobs_to_failed(j) \in JobRows
         /\ update_jobs_to_running(j) \in JobRows
         /\ increment_max_tries(j) \in JobRows
         /\ supersede_jobs(j) \in JobRows
         /\ process_job_input(j) \in JobRows
         /\ update_jobs_to_queued(j) \in JobRows
<1>1. update_jobs_to_blocked(j, w) \in JobRows
  BY Zenon DEF update_jobs_to_blocked, JobRows, JobStatuses
<1>2. update_jobs_to_pending(j, w) \in JobRows
  BY Zenon DEF update_jobs_to_pending, JobRows, JobStatuses
<1>3. update_jobs_to_canceled(j, w) \in JobRows
  BY ZenonT(30) DEF update_jobs_to_canceled, JobRows, JobStatuses
<1>4. update_jobs_to_completed(j) \in JobRows
  BY DEF update_jobs_to_completed, JobRows, JobStatuses
<1>5. update_jobs_to_failed(j) \in JobRows
  BY Zenon DEF update_jobs_to_failed, JobRows, JobStatuses
<1>6. update_jobs_to_running(j) \in JobRows
  <2>. DEFINE s == IF can_be_running(j) THEN "RUNNING" ELSE j.status
  <2>1. s \in JobStatuses  BY DEF JobRows, JobStatuses
  <2>2. update_jobs_to_running(j) = [j EXCEPT !.node = TRUE, !.status = s]
    BY DEF update_jobs_to_running
  <2>. HIDE DEF s
  <2>. QED  BY Zenon, <2>1, <2>2 DEF JobRows
<1>7. increment_max_tries(j) \in JobRows
  BY MaxTriesAssumption DEF increment_max_tries, JobRows
<1>8. supersede_jobs(j) \in JobRows
  BY Zenon DEF supersede_jobs, JobRows
<1>9. process_job_input(j) \in JobRows
  BY Zenon DEF process_job_input, JobRows
<1>10. update_jobs_to_queued(j) \in JobRows
  <2>. DEFINE n == j.num_exes + 1
  <2>1. n \in Nat  BY DEF JobRows
  <2>. DEFINE a == [j EXCEPT !.status = "QUEUED", !.node = FALSE, !.error = FALSE]
  <2>2. a \in JobRows  BY Zenon DEF JobRows, JobStatuses
  <2>. DEFINE b == [a EXCEPT !.num_exes = n]
  <2>3. update_jobs_to_queued(j) = [b EXCEPT !.last_status_change = 0]
    BY DEF update_jobs_to_queued
  <2>. HIDE DEF a, n
  <2>4. b \in JobRows  BY <2>1, <2>2 DEF JobRows
  <2>. HIDE DEF b
  <2>. QED  BY <2>3, <2>4 DEF JobRows
<1>. QED  BY <1>1, <1>2, <1>3, <1>4, <1>5, <1>6, <1>7, <1>8, <1>9, <1>10

\* What the updates do to the fields the invariants are about.
LEMMA WaitingRow ==
  ASSUME NEW j \in JobRows, NEW w \in Nat, NEW r, r # j,
         r = update_jobs_to_blocked(j, w) \/ r = update_jobs_to_pending(j, w)
  PROVE  /\ j.num_exes = 0 /\ r.num_exes = 0 /\ r.status \in {"BLOCKED", "PENDING"}
         /\ r.node = j.node /\ r.error = j.error
<1>1. CASE r = update_jobs_to_blocked(j, w)
  BY <1>1 DEF JobRows, update_jobs_to_blocked, can_be_blocked, has_been_queued
<1>2. CASE r = update_jobs_to_pending(j, w)
  BY <1>2 DEF JobRows, update_jobs_to_pending, can_be_pending, has_been_queued
<1>. QED  BY <1>1, <1>2

LEMMA CanceledRow ==
  ASSUME NEW j \in JobRows, NEW w \in Nat,
         NEW r, r = update_jobs_to_canceled(j, w), r # j
  PROVE  /\ j.status # "COMPLETED"
         /\ r.num_exes = j.num_exes /\ r.status = "CANCELED" /\ r.node = FALSE /\ r.error = FALSE
BY DEF JobRows, update_jobs_to_canceled, can_be_canceled

LEMMA CompletedRow ==
  ASSUME NEW j \in JobRows, NEW r, r = update_jobs_to_completed(j), r # j
  PROVE  /\ j.status \in ActiveStatuses
         /\ r.num_exes = j.num_exes /\ r.status = "COMPLETED" /\ r.error = j.error
BY DEF JobRows, update_jobs_to_completed, can_be_completed

LEMMA FailedRow ==
  ASSUME NEW j \in JobRows, NEW r, r = update_jobs_to_failed(j), r # j
  PROVE  /\ j.status \in ActiveStatuses
         /\ r.num_exes = j.num_exes /\ r.status = "FAILED"
BY DEF JobRows, update_jobs_to_failed, can_be_failed

LEMMA RunningRow ==
  ASSUME NEW j \in JobRows, NEW r, r = update_jobs_to_running(j)
  PROVE  /\ r.num_exes = j.num_exes /\ r.error = j.error
         /\ r.status = (IF j.status = "QUEUED" THEN "RUNNING" ELSE j.status)
BY DEF JobRows, update_jobs_to_running, can_be_running

LEMMA QueuedRow ==
  ASSUME NEW j \in JobRows, NEW r, r = update_jobs_to_queued(j)
  PROVE  /\ r.num_exes = j.num_exes + 1 /\ r.status = "QUEUED"
         /\ r.node = FALSE /\ r.error = FALSE
BY DEF JobRows, update_jobs_to_queued

\* Updates of other fields.
LEMMA RowSame ==
  ASSUME NEW j \in JobRows,
         NEW r \in {increment_max_tries(j), supersede_jobs(j), process_job_input(j)}
  PROVE  r.num_exes = j.num_exes /\ r.status = j.status /\ r.node = j.node /\ r.error = j.error
BY DEF JobRows, increment_max_tries, supersede_jobs, process_job_input

\* History only grows: what was true of a message stays true.
Grows ==
  /\ exes \subseteq exes' /\ ended \subseteq ended' /\ asked \subseteq asked'
  /\ epoch \in Nat /\ epoch' \in Nat /\ epoch <= epoch'

LEMMA CauseStays ==
  ASSUME NEW e, OthersOK, Grows
  PROVE  /\ Failed(e) => Failed(e)'
         /\ Completed(e) => Completed(e)'
         /\ Lost(e) => Lost(e)'
<1>1. (Failed(e) => Failed(e)') /\ (Completed(e) => Completed(e)')
  BY DEF Failed, Completed, Grows
<1>2. ASSUME Lost(e) PROVE Lost(e)'
  <2>1. PICK x \in exes : x.exe_num = e /\ 0 < x.started /\ x.started < epoch
    BY <1>2 DEF Lost
  <2>2. x.started \in Nat
    BY DEF OthersOK, ExeRows
  <2>3. x.started < epoch' /\ x \in exes'
    BY <2>1, <2>2 DEF Grows
  <2>. QED  BY <2>1, <2>3 DEF Lost
<1>. QED  BY <1>1, <1>2

LEMMA TruthStays ==
  ASSUME NEW m \in Messages, OthersOK, Grows, IsTrue(m)
  PROVE  IsTrue(m)'
<1>1. m.n \in Nat
  BY DEF Messages
<1>. QED  BY <1>1, CauseStays DEF IsTrue, Grows

\* Executing a message that sends true messages keeps all messages true.
LEMMA ExecutesTrue ==
  ASSUME NEW m, NEW new \in SUBSET Messages, IInv, Executes(m, new),
         \A k \in new : IsTrue(k), exes' = exes, queue' \in SUBSET QueueRows,
         clock' \in 0..MaxClock
  PROVE  /\ OthersOK' /\ MessagesAreTrue' /\ Grows /\ OthersOK
         /\ ended' = ended /\ epoch' = epoch /\ asked' = asked /\ IsTrue(m)
<1>1. OthersOK
  BY DEF IInv, TypeOK, OthersOK
<1>2. /\ UNCHANGED <<ended, picked, running, outbox, epoch, asked, parents>>
      /\ m \in pool \cup executed
      /\ pool' \subseteq pool \cup new
      /\ executed' \subseteq executed \cup {m}
  BY DEF Executes
<1>3. OthersOK'
  BY <1>1, <1>2 DEF OthersOK
<1>4. Grows
  BY <1>1, <1>2 DEF OthersOK, Grows
<1>5. \A k \in pool \cup executed \cup outbox \cup new : k \in Messages /\ IsTrue(k)
  BY <1>1 DEF OthersOK, IInv, MessagesAreTrue
<1>6. ASSUME NEW k \in pool' \cup executed' \cup outbox' PROVE IsTrue(k)'
  <2>1. k \in pool \cup executed \cup outbox \cup new
    BY <1>2
  <2>. QED  BY <2>1, <1>1, <1>4, <1>5, TruthStays
<1>7. MessagesAreTrue'
  BY <1>6 DEF MessagesAreTrue
<1>. QED  BY <1>1, <1>2, <1>3, <1>4, <1>5, <1>7

JobInv ==
  /\ JobOK /\ NeverQueued
  /\ EveryExecutionHasACause /\ StatusIsOfLatestExecution /\ NodeAndErrorFitStatus

\* A step that gives the job no execution and a final status only for a reason.
LEMMA JobMoves ==
  ASSUME IInv, OthersOK, Grows, job' \in JobRows, job'.num_exes = job.num_exes,
         job'.status = "COMPLETED" => job.status = "COMPLETED" \/ Completed(job.num_exes),
         job'.status = "FAILED" => \/ job.status = "FAILED"
                                   \/ Failed(job.num_exes) \/ Lost(job.num_exes),
         NodeAndErrorFitStatus', NeverQueued'
  PROVE  JobInv'
<1>1. job \in JobRows /\ job.num_exes <= MaxExes
  BY DEF IInv, TypeOK
<1>2. JobOK'
  BY <1>1 DEF JobOK
<1>3. EveryExecutionHasACause'
  <2>1. \A e \in 1..(job.num_exes - 1) : Failed(e) \/ Lost(e) \/ e \in asked
    BY DEF IInv, EveryExecutionHasACause
  <2>2. ASSUME NEW e \in 1..(job.num_exes - 1) PROVE (Failed(e) \/ Lost(e) \/ e \in asked)'
    BY <2>1, CauseStays DEF Grows
  <2>. QED  BY <2>2 DEF EveryExecutionHasACause
<1>4. StatusIsOfLatestExecution'
  <2>1. /\ job'.status = "COMPLETED" => Completed(job.num_exes)
        /\ job'.status = "FAILED" => Failed(job.num_exes) \/ Lost(job.num_exes)
    BY DEF IInv, StatusIsOfLatestExecution
  <2>2. PICK n : n = job.num_exes /\ n = job'.num_exes
    OBVIOUS
  <2>3. /\ Completed(n) => Completed(n)'
        /\ Failed(n) \/ Lost(n) => Failed(n)' \/ Lost(n)'
    BY CauseStays
  <2>4. /\ job'.status = "COMPLETED" => Completed(n)'
        /\ job'.status = "FAILED" => Failed(n)' \/ Lost(n)'
    BY <2>1, <2>2, <2>3
  <2>. QED  BY <2>2, <2>4 DEF StatusIsOfLatestExecution, Completed, Failed, Lost
<1>. QED  BY <1>2, <1>3, <1>4 DEF JobInv

\* A step that changes neither status nor number of executions.
LEMMA JobStays ==
  ASSUME IInv, OthersOK, Grows, job' \in JobRows, job'.num_exes = job.num_exes,
         job'.status = job.status, job'.node = job.node, job'.error = job.error
  PROVE  JobInv'
<1>1. NodeAndErrorFitStatus' /\ NeverQueued'
  BY DEF IInv, NodeAndErrorFitStatus, NeverQueued
<1>. QED  BY <1>1, JobMoves

LEMMA IInvFromParts == JobInv /\ OthersOK /\ MessagesAreTrue => IInv
BY DEF JobInv, JobOK, OthersOK, IInv, TypeOK

\* Messages the handlers send are well formed.
LEMMA NewMessages ==
  /\ \A t \in MessageTypes : \A n \in Nat : Msg(t, n) \in Messages /\ Msg(t, n).type = t /\ Msg(t, n).n = n
  /\ UpdateRecipesMsgs \in SUBSET Messages
  /\ \A k \in UpdateRecipesMsgs : IsTrue(k)
BY DEF Msg, Messages, MessageTypes, UpdateRecipesMsgs, Only, IsTrue

LEMMA NowIsTime ==
  ASSUME clock \in 0..MaxClock PROVE now \in 0..MaxClock /\ now \in Nat
BY BoundsAssumption DEF now

\* The row as the invariants see it.
LEMMA RowType ==
  ASSUME IInv PROVE job \in JobRows /\ job.num_exes \in Nat /\ OthersOK
BY DEF IInv, TypeOK, OthersOK, JobRows

LEMMA ProcessJobInputInv ==
  ASSUME IInv, ProcessJobInput PROVE IInv'
<1>. DEFINE m == Msg("process_job_input", 0)
            new == Only(~has_been_queued(job), Msg("queued", 0))
<1>1. Executes(m, new) /\ job' = process_job_input(job) /\ UNCHANGED <<queue, exes, clock>>
  BY DEF ProcessJobInput
<1>2. new \in SUBSET Messages /\ \A k \in new : IsTrue(k)
  BY NewMessages DEF Only, MessageTypes, IsTrue
<1>3. OthersOK' /\ MessagesAreTrue' /\ Grows
  <2>. HIDE DEF m, new
  <2>. QED  BY <1>1, <1>2, ExecutesTrue, RowType DEF OthersOK
<1>4. JobInv'
  BY Zenon, <1>1, <1>3, RowType, RowKept, RowSame, JobStays
<1>. QED  BY <1>3, <1>4, IInvFromParts, PTL

LEMMA QueuedJobsInv ==
  ASSUME IInv, NEW m, m.type \in {"queued", "requeued"}, QueuedJobs(m) PROVE IInv'
<1>. DEFINE can == IF m.type = "requeued" THEN can_be_requeued(job) ELSE can_be_queued(job)
<1>1. Executes(m, {}) /\ UNCHANGED <<exes, clock>>
  BY DEF QueuedJobs
<1>2. \/ UNCHANGED <<job, queue>>
      \/ /\ IsCurrent(m.n) /\ can /\ job.num_exes < MaxExes
         /\ job' = update_jobs_to_queued(job)
         /\ queue' = queue \cup {[exe_num |-> job.num_exes + 1, is_canceled |-> FALSE]}
  BY DEF QueuedJobs
<1>3. job \in JobRows /\ job.num_exes \in Nat /\ OthersOK
  BY RowType
<1>4. queue' \in SUBSET QueueRows
  <2>1. CASE UNCHANGED queue
    BY <2>1, <1>3 DEF OthersOK
  <2>2. CASE /\ job.num_exes < MaxExes
             /\ queue' = queue \cup {[exe_num |-> job.num_exes + 1, is_canceled |-> FALSE]}
    <3>1. job.num_exes + 1 \in ExeNums
      BY <2>2, <1>3, BoundsAssumption DEF ExeNums
    <3>2. [exe_num |-> job.num_exes + 1, is_canceled |-> FALSE] \in QueueRows
      BY <3>1, Zenon DEF QueueRows
    <3>. QED  BY Zenon, <2>2, <3>2, <1>3 DEF OthersOK
  <2>. QED  BY <1>2, <2>1, <2>2
<1>5. /\ OthersOK' /\ MessagesAreTrue' /\ Grows /\ IsTrue(m)
      /\ ended' = ended /\ epoch' = epoch /\ asked' = asked
  BY <1>1, <1>3, <1>4, ExecutesTrue DEF OthersOK
<1>6. CASE UNCHANGED job
  <2>1. JobInv'
    BY <1>6, <1>3, <1>5, JobStays
  <2>. QED  BY <2>1, <1>5, IInvFromParts, PTL
<1>7. CASE /\ IsCurrent(m.n) /\ can /\ job.num_exes < MaxExes
           /\ job' = update_jobs_to_queued(job)
  <2>1. /\ job' \in JobRows /\ job'.num_exes = job.num_exes + 1 /\ job'.status = "QUEUED"
        /\ job'.node = FALSE /\ job'.error = FALSE
    BY Zenon, <1>3, <1>7, RowKept, QueuedRow
  <2>2. JobOK'
    BY <2>1, <1>3, <1>7, BoundsAssumption DEF JobOK
  <2>3. StatusIsOfLatestExecution' /\ NodeAndErrorFitStatus' /\ NeverQueued'
    BY <2>1, <1>3 DEF StatusIsOfLatestExecution, NodeAndErrorFitStatus, NeverQueued
  <2>4. job.num_exes > 0 => Failed(job.num_exes) \/ Lost(job.num_exes) \/ job.num_exes \in asked
    <3>1. m.n = job.num_exes
      BY <1>7 DEF IsCurrent
    <3>2. m.type = "queued" => ~(job.num_exes > 0)
      BY <1>7 DEF can_be_queued, has_been_queued
    <3>. QED  BY <3>1, <3>2, <1>5 DEF IsTrue
  <2>5. \A e \in 1..job.num_exes : Failed(e) \/ Lost(e) \/ e \in asked
    BY <2>4, <1>3 DEF IInv, EveryExecutionHasACause
  <2>6. EveryExecutionHasACause'
    <3>1. \A e \in 1..job.num_exes : (Failed(e) \/ Lost(e) \/ e \in asked)'
      BY Zenon, <2>5, <1>5, <1>1 DEF Failed, Lost
    <3>2. 1..(job'.num_exes - 1) = 1..job.num_exes
      BY <2>1, <1>3
    <3>. QED  BY Zenon, <3>1, <3>2 DEF EveryExecutionHasACause
  <2>. QED  BY <2>2, <2>3, <2>6, <1>5, IInvFromParts, PTL DEF JobInv
<1>. QED  BY <1>2, <1>6, <1>7

LEMMA RunningJobsInv ==
  ASSUME IInv, NEW m, m.type = "running", RunningJobs(m) PROVE IInv'
<1>1. Executes(m, {}) /\ UNCHANGED <<queue, exes, clock>>
  BY DEF RunningJobs
<1>2. job' = job \/ (IsCurrent(m.n) /\ job' = update_jobs_to_running(job))
  BY DEF RunningJobs
<1>3. OthersOK' /\ MessagesAreTrue' /\ Grows /\ IsTrue(m)
  BY <1>1, ExecutesTrue, RowType DEF OthersOK
<1>4. JobInv'
  <2>1. CASE job' = job
    BY <2>1, <1>3, RowType, JobStays
  <2>2. CASE IsCurrent(m.n) /\ job' = update_jobs_to_running(job)
    <3>1. /\ job' \in JobRows /\ job'.num_exes = job.num_exes /\ job'.error = job.error
          /\ job'.status = (IF job.status = "QUEUED" THEN "RUNNING" ELSE job.status)
      BY Zenon, <2>2, RowType, RowKept, RunningRow
    <3>2. job.num_exes > 0 /\ job.status \in JobStatuses \ {"PENDING", "BLOCKED"}
      <4>1. m.n > 0 /\ m.n = job.num_exes
        BY <1>3, <2>2 DEF IsCurrent, IsTrue
      <4>2. job.num_exes \in Nat /\ job.status \in JobStatuses
        BY RowType DEF JobRows
      <4>3. job.num_exes > 0 /\ job.num_exes # 0
        BY <4>1, <4>2
      <4>. QED  BY <4>2, <4>3 DEF IInv, NeverQueued
    <3>3. job'.status \in {"RUNNING"} \cup FinalStatuses
      BY <3>1, <3>2 DEF FinalStatuses, JobStatuses
    <3>4. NodeAndErrorFitStatus' /\ NeverQueued'
      BY <3>1, <3>2, <3>3 DEF IInv, NodeAndErrorFitStatus, NeverQueued, FinalStatuses
    <3>. QED  BY <3>1, <3>2, <3>4, <1>3, RowType, JobMoves
  <2>. QED  BY <1>2, <2>1, <2>2
<1>. QED  BY <1>3, <1>4, IInvFromParts, PTL

LEMMA CompletedJobsInv ==
  ASSUME IInv, NEW m, m.type = "completed", CompletedJobs(m) PROVE IInv'
<1>. DEFINE new == IF IsCurrent(m.n) /\ job'.status = "COMPLETED" THEN UpdateRecipesMsgs ELSE {}
<1>1. Executes(m, new) /\ UNCHANGED <<queue, exes, clock>>
  BY DEF CompletedJobs
<1>2. job' = job \/ (IsCurrent(m.n) /\ job' = update_jobs_to_completed(job))
  BY DEF CompletedJobs
<1>3. new \in SUBSET Messages /\ \A k \in new : IsTrue(k)
  BY NewMessages
<1>4. OthersOK' /\ MessagesAreTrue' /\ Grows /\ IsTrue(m)
  <2>. HIDE DEF new
  <2>. QED  BY <1>1, <1>3, ExecutesTrue, RowType DEF OthersOK
<1>5. JobInv'
  <2>1. CASE job' = job
    BY <2>1, <1>4, RowType, JobStays
  <2>2. CASE job' # job
    <3>1. /\ job' \in JobRows /\ job'.num_exes = job.num_exes /\ job'.status = "COMPLETED"
          /\ job'.error = job.error /\ job.status \in ActiveStatuses
      BY <1>2, <2>2, RowType, RowKept, CompletedRow
    <3>2. NodeAndErrorFitStatus' /\ NeverQueued'
      BY <3>1 DEF IInv, NodeAndErrorFitStatus, NeverQueued, FinalStatuses, ActiveStatuses
    <3>3. m.n = job.num_exes
      BY <1>2, <2>2 DEF IsCurrent
    <3>4. Completed(job.num_exes)
      BY <3>3, <1>4 DEF IsTrue
    <3>. QED  BY <3>1, <3>2, <3>4, <1>4, RowType, JobMoves
  <2>. QED  BY <2>1, <2>2
<1>. QED  BY <1>4, <1>5, IInvFromParts, PTL

LEMMA FailedJobsInv ==
  ASSUME IInv, NEW m, m.type \in {"failed", "failed_final"}, FailedJobs(m) PROVE IInv'
<1>. DEFINE fails == can_be_failed(job) /\ IsCurrent(m.n)
            retry == fails /\ should_retry(job, m.type = "failed")
            new == IF retry THEN {Msg("requeued", job.num_exes)}
                   ELSE IF fails THEN UpdateRecipesMsgs ELSE {}
<1>1. Executes(m, new) /\ UNCHANGED <<queue, exes, clock>>
  BY DEF FailedJobs
<1>2. job' = job \/ (IsCurrent(m.n) /\ job' = update_jobs_to_failed(job))
  BY DEF FailedJobs
<1>3. IsTrue(m)
  BY <1>1, RowType DEF Executes, IInv, MessagesAreTrue
<1>4. retry => IsTrue(Msg("requeued", job.num_exes))
  BY <1>3, NewMessages, RowType DEF IsTrue, IsCurrent, MessageTypes
<1>5. new \in SUBSET Messages /\ \A k \in new : IsTrue(k)
  <2>1. Msg("requeued", job.num_exes) \in Messages
    BY NewMessages, RowType DEF MessageTypes
  <2>. HIDE DEF retry, fails
  <2>. QED  BY <1>4, <2>1, NewMessages
<1>6. OthersOK' /\ MessagesAreTrue' /\ Grows
  <2>. HIDE DEF new
  <2>. QED  BY <1>1, <1>5, ExecutesTrue, RowType DEF OthersOK
<1>7. JobInv'
  <2>1. CASE job' = job
    BY <2>1, <1>6, RowType, JobStays
  <2>2. CASE job' # job
    <3>1. /\ job' \in JobRows /\ job'.num_exes = job.num_exes /\ job'.status = "FAILED"
          /\ job.status \in ActiveStatuses
      BY <1>2, <2>2, RowType, RowKept, FailedRow
    <3>2. NodeAndErrorFitStatus' /\ NeverQueued'
      BY <3>1 DEF IInv, NodeAndErrorFitStatus, NeverQueued, FinalStatuses, ActiveStatuses
    <3>3. m.n = job.num_exes
      BY <1>2, <2>2 DEF IsCurrent
    <3>4. Failed(job.num_exes) \/ Lost(job.num_exes)
      BY <3>3, <1>3 DEF IsTrue
    <3>. QED  BY <3>1, <3>2, <3>4, <1>6, RowType, JobMoves
  <2>. QED  BY <2>1, <2>2
<1>. QED  BY <1>6, <1>7, IInvFromParts, PTL

\* The updates that wait, cancel or give up waiting.
LEMMA WaitMoves ==
  ASSUME IInv, OthersOK, Grows, NEW w \in Nat,
         \/ job' = job
         \/ job' = update_jobs_to_blocked(job, w)
         \/ job' = update_jobs_to_pending(job, w)
         \/ job' = update_jobs_to_canceled(job, w)
  PROVE  JobInv'
<1>1. job \in JobRows /\ job' \in JobRows
  BY RowType, RowKept
<1>2. CASE job' = job
  BY <1>1, <1>2, JobStays
<1>3. CASE /\ job' # job
           /\ job' = update_jobs_to_blocked(job, w) \/ job' = update_jobs_to_pending(job, w)
  <2>1. /\ job.num_exes = 0 /\ job'.num_exes = 0 /\ job'.status \in {"BLOCKED", "PENDING"}
        /\ job'.node = job.node /\ job'.error = job.error
    BY <1>1, <1>3, WaitingRow
  <2>2. job'.node = FALSE /\ job'.error = FALSE
    BY <2>1 DEF IInv, NeverQueued
  <2>3. NodeAndErrorFitStatus' /\ NeverQueued'
    BY <2>1, <2>2 DEF NodeAndErrorFitStatus, NeverQueued
  <2>. QED  BY <1>1, <2>1, <2>3, JobMoves
<1>4. CASE job' # job /\ job' = update_jobs_to_canceled(job, w)
  <2>1. /\ job'.num_exes = job.num_exes /\ job'.status = "CANCELED"
        /\ job'.node = FALSE /\ job'.error = FALSE
    BY Zenon, <1>1, <1>4, CanceledRow
  <2>2. NodeAndErrorFitStatus' /\ NeverQueued'
    BY <2>1 DEF NodeAndErrorFitStatus, NeverQueued, FinalStatuses
  <2>. QED  BY <1>1, <2>1, <2>2, JobMoves
<1>. QED  BY <1>2, <1>3, <1>4

\* A message that is executed was sent and is true.
LEMMA ExecutedMessage ==
  ASSUME IInv, NEW m, NEW new, Executes(m, new) PROVE m.n \in Nat /\ IsTrue(m)
<1>1. m \in pool \cup executed /\ m \in Messages
  BY RowType DEF Executes, OthersOK
<1>. QED  BY <1>1 DEF IInv, MessagesAreTrue, Messages

LEMMA CancelJobsInv ==
  ASSUME IInv, NEW m, CancelJobs(m) PROVE IInv'
<1>1. Executes(m, UpdateRecipesMsgs) /\ UNCHANGED <<exes, clock>> /\ m.n \in Nat
  BY ExecutedMessage DEF CancelJobs
<1>2. queue' \in SUBSET QueueRows
  <2>1. \A q \in queue : [q EXCEPT !.is_canceled = TRUE] \in QueueRows
    BY Zenon, RowType DEF OthersOK, QueueRows
  <2>. QED  BY <2>1, RowType DEF CancelJobs, OthersOK
<1>3. OthersOK' /\ MessagesAreTrue' /\ Grows
  BY <1>1, <1>2, NewMessages, ExecutesTrue, RowType DEF OthersOK
<1>4. JobInv'
  BY <1>1, <1>3, RowType, WaitMoves DEF CancelJobs
<1>. QED  BY <1>3, <1>4, IInvFromParts, PTL

LEMMA WaitingJobsInv ==
  ASSUME IInv, NEW m, UncancelJobs(m) \/ PendingJobs(m) \/ BlockedJobs(m) PROVE IInv'
<1>1. /\ Executes(m, UpdateRecipesMsgs) \/ Executes(m, {})
      /\ UNCHANGED <<queue, exes, clock>> /\ m.n \in Nat
  BY ExecutedMessage DEF UncancelJobs, PendingJobs, BlockedJobs
<1>2. OthersOK' /\ MessagesAreTrue' /\ Grows
  BY <1>1, NewMessages, ExecutesTrue, RowType DEF OthersOK
<1>3. JobInv'
  BY <1>1, <1>2, RowType, WaitMoves DEF UncancelJobs, PendingJobs, BlockedJobs
<1>. QED  BY <1>2, <1>3, IInvFromParts, PTL

LEMMA RequeueJobsInv ==
  ASSUME IInv, NEW m, m.type = "requeue", RequeueJobs(m) PROVE IInv'
<1>. DEFINE requeue == can_be_requeued(job) /\ IsCurrent(m.n)
            uncancel == ~requeue /\ can_be_uncanceled(job)
            new == Only(requeue, Msg("requeued", job.num_exes)) \cup Only(uncancel, Msg("uncancel", now))
<1>1. /\ Executes(m, new) /\ UNCHANGED <<queue, exes>>
      /\ clock' = clock \/ clock' = now
      /\ job' = job \/ job' = increment_max_tries(job)
  BY DEF RequeueJobs
<1>2. now \in 0..MaxClock /\ now \in Nat
  BY NowIsTime, RowType DEF OthersOK
<1>3. requeue => IsTrue(Msg("requeued", job.num_exes))
  <2>1. requeue => job.num_exes \in asked
    BY <1>1, ExecutedMessage DEF IsTrue, IsCurrent
  <2>. HIDE DEF requeue
  <2>. QED  BY <2>1, NewMessages, RowType DEF IsTrue, MessageTypes
<1>4. IsTrue(Msg("uncancel", now))
  BY <1>2, NewMessages DEF IsTrue, MessageTypes
<1>5. Msg("requeued", job.num_exes) \in Messages /\ Msg("uncancel", now) \in Messages
  BY <1>2, NewMessages, RowType DEF MessageTypes
<1>6. new \in SUBSET Messages /\ \A k \in new : IsTrue(k)
  <2>. HIDE DEF requeue, uncancel
  <2>. QED  BY <1>3, <1>4, <1>5 DEF Only
<1>7. OthersOK' /\ MessagesAreTrue' /\ Grows
  <2>. HIDE DEF new
  <2>. QED  BY <1>1, <1>2, <1>6, ExecutesTrue, RowType DEF OthersOK
<1>8. JobInv'
  BY ZenonT(30), <1>1, <1>7, RowType, RowKept, RowSame, JobStays
<1>. QED  BY <1>7, <1>8, IInvFromParts, PTL

LEMMA RestartSchedulerInv ==
  ASSUME IInv, NEW m, m.type = "restart", RestartScheduler(m) PROVE IInv'
<1>. DEFINE lost == {y \in UnfinishedExes : y.started < m.n}
            new == {Msg("failed", x.exe_num) : x \in lost}
<1>1. Executes(m, new) /\ UNCHANGED <<job, queue, exes, clock>>
  BY DEF RestartScheduler
<1>2. m.n \in Nat /\ m.n <= epoch /\ epoch \in Nat
  BY <1>1, ExecutedMessage, RowType DEF IsTrue, OthersOK
<1>3. ASSUME NEW x \in lost PROVE Msg("failed", x.exe_num) \in Messages /\ IsTrue(Msg("failed", x.exe_num))
  <2>1. x \in exes /\ x.started # 0 /\ x.started < m.n /\ x.exe_num \in Nat /\ x.started \in Nat
    BY RowType DEF RestartScheduler, UnfinishedExes, OthersOK, ExeRows, ExeNums
  <2>2. Lost(x.exe_num)
    BY <2>1, <1>2 DEF Lost
  <2>. QED  BY <2>1, <2>2, NewMessages DEF IsTrue, MessageTypes
<1>4. new \in SUBSET Messages /\ \A k \in new : IsTrue(k)
  BY <1>3
<1>5. OthersOK' /\ MessagesAreTrue' /\ Grows
  <2>. HIDE DEF new
  <2>. QED  BY <1>1, <1>4, ExecutesTrue, RowType DEF OthersOK
<1>6. JobInv'
  BY <1>1, <1>5, RowType, JobStays
<1>. QED  BY <1>5, <1>6, IInvFromParts, PTL

LEMMA UpdateRecipesInv ==
  ASSUME IInv, NEW m, UpdateRecipes(m) PROVE IInv'
<1>. DEFINE blocks == job.status = "PENDING" /\ parents = "blocking"
            unblocks == job.status = "BLOCKED" /\ parents # "blocking"
            row == IF parents = "completed" THEN process_job_input(job) ELSE job
            queues == can_be_queued(row)
            new == Only(blocks, Msg("blocked", now)) \cup Only(unblocks, Msg("pending", now))
                   \cup Only(queues, Msg("process_job_input", 0))
<1>1. /\ Executes(m, new) /\ UNCHANGED <<queue, exes>>
      /\ clock' = clock \/ clock' = now
      /\ job' = job \/ job' = process_job_input(job)
  BY DEF UpdateRecipes
<1>2. now \in 0..MaxClock /\ now \in Nat
  BY NowIsTime, RowType DEF OthersOK
<1>3. /\ Msg("blocked", now) \in Messages /\ Msg("pending", now) \in Messages
      /\ Msg("process_job_input", 0) \in Messages
      /\ IsTrue(Msg("blocked", now)) /\ IsTrue(Msg("pending", now))
      /\ IsTrue(Msg("process_job_input", 0))
  BY <1>2, NewMessages DEF IsTrue, MessageTypes
<1>4. new \in SUBSET Messages /\ \A k \in new : IsTrue(k)
  <2>. HIDE DEF blocks, unblocks, queues
  <2>. QED  BY <1>3 DEF Only
<1>5. OthersOK' /\ MessagesAreTrue' /\ Grows
  <2>. HIDE DEF new
  <2>. QED  BY <1>1, <1>2, <1>4, ExecutesTrue, RowType DEF OthersOK
<1>6. JobInv'
  BY Zenon, <1>1, <1>5, RowType, RowKept, RowSame, JobStays
<1>. QED  BY <1>5, <1>6, IInvFromParts, PTL

LEMMA ExecuteInv ==
  ASSUME IInv, NEW m, Execute(m) PROVE IInv'
BY ProcessJobInputInv, QueuedJobsInv, RunningJobsInv, CompletedJobsInv, FailedJobsInv,
   CancelJobsInv, WaitingJobsInv, RequeueJobsInv, RestartSchedulerInv, UpdateRecipesInv
   DEF Execute

\* Steps other than the execution of a message.
LEMMA OtherStep ==
  ASSUME IInv, Grows, OthersOK', executed' = executed,
         job' \in JobRows, job'.num_exes = job.num_exes, job'.status = job.status,
         job'.node = job.node, job'.error = job.error,
         \A k \in pool' \cup outbox' : k \in pool \cup outbox \/ IsTrue(k)'
  PROVE  IInv'
<1>1. OthersOK
  BY RowType
<1>2. JobInv'
  BY <1>1, JobStays
<1>3. ASSUME NEW k \in pool' \cup executed' \cup outbox' PROVE IsTrue(k)'
  <2>1. k \in pool \cup executed \cup outbox \/ IsTrue(k)'
    OBVIOUS
  <2>2. k \in pool \cup executed \cup outbox => k \in Messages /\ IsTrue(k)
    BY <1>1 DEF IInv, MessagesAreTrue, OthersOK
  <2>. QED  BY <1>1, <2>1, <2>2, TruthStays
<1>4. MessagesAreTrue'
  BY <1>3 DEF MessagesAreTrue
<1>. QED  BY <1>2, <1>4, IInvFromParts, PTL

LEMMA UsersInv ==
  ASSUME IInv, CancelJobsBulk \/ RequeueJobsBulk \/ SupersedeRecipeNodes \/ ParentsChange
  PROVE  IInv'
<1>1. OthersOK /\ job \in JobRows /\ job.num_exes \in Nat /\ job.num_exes <= MaxExes
  BY RowType DEF IInv, TypeOK
<1>2. now \in 0..MaxClock /\ now \in Nat
  BY <1>1, NowIsTime DEF OthersOK
<1>3. Msg("cancel", now) \in Messages /\ \A k : k = Msg("cancel", now) => IsTrue(k)'
  <2>1. Msg("cancel", now) \in Messages /\ Msg("cancel", now).type = "cancel"
    BY <1>2, NewMessages DEF MessageTypes
  <2>. QED  BY <2>1 DEF IsTrue
<1>4. CASE CancelJobsBulk
  <2>1. OthersOK' /\ Grows
    BY <1>1, <1>2, <1>3, <1>4 DEF CancelJobsBulk, OthersOK, Grows, db, scheduler
  <2>. QED  BY <1>1, <1>3, <1>4, <2>1, OtherStep DEF CancelJobsBulk, db, scheduler
<1>5. CASE RequeueJobsBulk
  <2>1. Msg("requeue", job.num_exes) \in Messages /\ job.num_exes \in 0..MaxExes
    BY <1>1, NewMessages, BoundsAssumption DEF MessageTypes
  <2>3. /\ job' = job /\ executed' = executed /\ outbox' = outbox
        /\ asked' = asked \cup {job.num_exes}
        /\ pool' = pool \cup {Msg("requeue", job.num_exes)}
        /\ UNCHANGED <<queue, exes, ended, picked, running, epoch, clock, parents>>
    BY <1>5 DEF RequeueJobsBulk, db, scheduler
  <2>2. OthersOK' /\ Grows
    <3>1. pool' \in SUBSET Messages /\ asked' \in SUBSET (0..MaxExes)
      BY Zenon, <1>1, <2>1, <2>3 DEF OthersOK
    <3>. QED  BY <1>1, <2>3, <3>1 DEF OthersOK, Grows
  <2>4. \A k : k = Msg("requeue", job.num_exes) => IsTrue(k)'
    <3>1. /\ job.num_exes \in asked' /\ Msg("requeue", job.num_exes).type = "requeue"
          /\ Msg("requeue", job.num_exes).n = job.num_exes
      BY <1>1, <1>5, NewMessages DEF RequeueJobsBulk, MessageTypes
    <3>. QED  BY <3>1 DEF IsTrue
  <2>. QED  BY <1>1, <2>2, <2>3, <2>4, OtherStep
<1>6. CASE SupersedeRecipeNodes
  <2>1. OthersOK' /\ Grows
    BY <1>1, <1>2, <1>3, <1>6 DEF SupersedeRecipeNodes, OthersOK, Grows, scheduler
  <2>. QED  BY Zenon, <1>1, <1>3, <1>6, <2>1, RowKept, RowSame, OtherStep DEF SupersedeRecipeNodes, scheduler
<1>7. CASE ParentsChange
  <2>1. OthersOK' /\ Grows
    BY <1>1, <1>7, NewMessages DEF ParentsChange, OthersOK, Grows, db, scheduler
  <2>2. \A k \in UpdateRecipesMsgs : IsTrue(k)'
    BY DEF UpdateRecipesMsgs, Only, Msg, IsTrue
  <2>. QED  BY <1>1, <1>7, <2>1, <2>2, OtherStep DEF ParentsChange, db, scheduler
<1>. QED  BY <1>4, <1>5, <1>6, <1>7

LEMMA SchedulingInv ==
  ASSUME IInv, \/ _process_queue \/ _process_scheduled_job_executions
               \/ scheduling_database_error \/ send_messages
  PROVE  IInv'
<1>1. OthersOK /\ job \in JobRows
  BY RowType
<1>2. CASE _process_queue \/ scheduling_database_error
  <2>1. UNCHANGED <<db, ended, pool, executed, running, outbox, epoch, clock, asked, parents>>
    BY <1>2 DEF _process_queue, scheduling_database_error
  <2>2. picked' \in SUBSET QueueRows
    BY <1>1, <1>2 DEF _process_queue, scheduling_database_error, OthersOK
  <2>3. OthersOK' /\ Grows
    BY <1>1, <2>1, <2>2 DEF OthersOK, Grows, db
  <2>. QED  BY <1>1, <2>1, <2>3, OtherStep DEF db
<1>3. CASE _process_scheduled_job_executions
  <2>1. \A q \in picked : Row(q) \in ExeRows
    <3>1. ASSUME NEW q \in picked PROVE Row(q) \in ExeRows
      <4>1. q.exe_num \in ExeNums /\ epoch \in 0..MaxEpoch /\ 0 \in 0..MaxEpoch
        BY <1>1, BoundsAssumption DEF OthersOK, QueueRows
      <4>2. (IF q.is_canceled THEN 0 ELSE epoch) \in 0..MaxEpoch
        BY <4>1
      <4>. QED  BY <4>1, <4>2, Zenon DEF Row, ExeRows
    <3>. QED  BY <3>1
  <2>2. Started(picked) \in SUBSET ExeNums
    BY <1>1 DEF Started, OthersOK, QueueRows
  <2>3. \A e \in Started(picked) : e \in Nat /\ e > 0
    BY <2>2 DEF ExeNums
  <2>4. \A e \in Started(picked) : Msg("running", e) \in Messages /\ IsTrue(Msg("running", e))'
    <3>1. \A e \in Started(picked) : /\ Msg("running", e) \in Messages /\ e > 0
                                     /\ Msg("running", e).type = "running" /\ Msg("running", e).n = e
      BY <2>3, NewMessages DEF MessageTypes
    <3>. QED  BY <3>1 DEF IsTrue
  <2>5. /\ exes' = exes \cup {Row(q) : q \in picked}
        /\ queue' \subseteq queue /\ picked' = {}
        /\ running' = running \cup Started(picked)
        /\ outbox' = outbox \cup {Msg("running", e) : e \in Started(picked)}
        /\ UNCHANGED <<job, ended, pool, executed, epoch, clock, asked, parents>>
    BY <1>3 DEF _process_scheduled_job_executions
  <2>6. OthersOK' /\ Grows
    BY <1>1, <2>1, <2>2, <2>4, <2>5 DEF OthersOK, Grows
  <2>. QED  BY <1>1, <2>4, <2>5, <2>6, OtherStep
<1>4. CASE send_messages
  <2>1. OthersOK' /\ Grows
    BY <1>1, <1>4 DEF send_messages, OthersOK, Grows, db
  <2>. QED  BY <1>1, <1>4, <2>1, OtherStep DEF send_messages, db
<1>. QED  BY <1>2, <1>3, <1>4

LEMMA ExecutionInv ==
  ASSUME IInv, NEW e \in running,
         sync_with_database(e) \/ \E t \in EndTypes : execution_ends(e, t)
  PROVE  IInv'
<1>1. OthersOK /\ job \in JobRows /\ e \in ExeNums /\ e \in Nat
  BY RowType DEF OthersOK, ExeNums
<1>2. CASE sync_with_database(e)
  <2>1. OthersOK' /\ Grows
    BY <1>1, <1>2 DEF sync_with_database, OthersOK, Grows, db
  <2>. QED  BY <1>1, <1>2, <2>1, OtherStep DEF sync_with_database, db
<1>3. ASSUME NEW t \in EndTypes, execution_ends(e, t) PROVE IInv'
  <2>. DEFINE end == [exe_num |-> e, status |-> IF t = "completed" THEN "COMPLETED" ELSE "FAILED"]
  <2>1. end \in Ends
    BY <1>1 DEF Ends
  <2>2. Msg(t, e) \in Messages /\ Msg(t, e).type = t /\ Msg(t, e).n = e
    BY <1>1, NewMessages DEF EndTypes, MessageTypes
  <2>3. /\ running' \subseteq running /\ outbox' = outbox \cup {Msg(t, e)}
        /\ ended' = ended \cup {end}
        /\ UNCHANGED <<job, queue, exes, pool, executed, picked, epoch, clock, asked, parents>>
    BY <1>3 DEF execution_ends, db
  <2>4. IsTrue(Msg(t, e))'
    <3>1. t = "completed" => Completed(e)'
      BY <2>3 DEF Completed
    <3>2. t # "completed" => Failed(e)'
      BY <2>3 DEF Failed
    <3>. QED  BY <2>2, <3>1, <3>2 DEF IsTrue, EndTypes
  <2>. HIDE DEF end
  <2>5. OthersOK' /\ Grows
    BY <1>1, <2>1, <2>2, <2>3 DEF OthersOK, Grows
  <2>. QED  BY <1>1, <2>3, <2>4, <2>5, OtherStep
<1>. QED  BY <1>2, <1>3

LEMMA RestartInv ==
  ASSUME IInv, restart PROVE IInv'
<1>1. OthersOK /\ job \in JobRows /\ epoch \in Nat /\ epoch' = epoch + 1 /\ epoch' \in 1..MaxEpoch
  BY RowType, BoundsAssumption DEF restart, OthersOK
<1>2. /\ Msg("restart", epoch + 1) \in Messages /\ Msg("restart", epoch + 1).type = "restart"
      /\ Msg("restart", epoch + 1).n = epoch + 1
  BY <1>1, NewMessages DEF MessageTypes
<1>3. \A k : k = Msg("restart", epoch + 1) => IsTrue(k)'
  BY <1>1, <1>2 DEF IsTrue
<1>4. /\ picked' = {} /\ running' = {} /\ outbox' = {Msg("restart", epoch + 1)}
      /\ UNCHANGED <<job, queue, exes, ended, pool, executed, clock, asked, parents>>
  BY DEF restart, db
<1>5. OthersOK' /\ Grows
  BY <1>1, <1>2, <1>4 DEF OthersOK, Grows
<1>. QED  BY <1>1, <1>3, <1>4, <1>5, OtherStep

LEMMA InitInv ==
  ASSUME Init PROVE IInv
<1>1. job \in JobRows /\ job.num_exes = 0 /\ job.status = "PENDING"
      /\ job.node = FALSE /\ job.error = FALSE
  <2>1. PICK recipe \in InRecipe, long \in LongRunning : job = create_job(recipe, long)
    BY DEF Init
  <2>2. recipe \in BOOLEAN /\ (~recipe) \in BOOLEAN /\ long \in BOOLEAN
    BY InRecipeAssumption, LongRunningAssumption
  <2>. QED  BY <2>1, <2>2, MaxTriesAssumption DEF create_job, JobRows, JobStatuses
<1>2. OthersOK
  <2>1. pool \in SUBSET Messages
    BY NewMessages DEF Init, Only, MessageTypes
  <2>. QED  BY <2>1, BoundsAssumption DEF Init, OthersOK
<1>3. MessagesAreTrue
  BY NewMessages DEF Init, MessagesAreTrue, Only, MessageTypes, IsTrue
<1>4. JobInv
  BY <1>1, BoundsAssumption DEF JobInv, JobOK, NeverQueued, EveryExecutionHasACause,
     StatusIsOfLatestExecution, NodeAndErrorFitStatus
<1>. QED  BY <1>2, <1>3, <1>4, IInvFromParts

\* Every step keeps the invariant.
LEMMA NextInv == IInv /\ [Next]_vars => IInv'
<1>. SUFFICES ASSUME IInv, [Next]_vars PROVE IInv'
  OBVIOUS
<1>1. CASE Next
  BY <1>1, ExecuteInv, UsersInv, SchedulingInv, ExecutionInv, RestartInv DEF Next
<1>2. CASE UNCHANGED vars
  <2>1. OthersOK' /\ Grows
    BY <1>2, RowType DEF vars, OthersOK, Grows
  <2>. QED  BY <1>2, <2>1, RowType, OtherStep DEF vars
<1>. QED  BY <1>1, <1>2

\* In every reachable state all messages report what did happen.
THEOREM Invariance == Spec => []IInv
BY InitInv, NextInv, PTL DEF Spec

\* Every variable has its type.
THEOREM TypeCorrect == Spec => []TypeOK
<1>1. IInv => TypeOK
  BY DEF IInv
<1>. QED  BY <1>1, Invariance, PTL

\* However late or often the messages are delivered, a job has a further
\* execution only because the one before failed, was lost, or a user asked.
THEOREM CausedExecutions == Spec => []EveryExecutionHasACause
<1>1. IInv => EveryExecutionHasACause
  BY DEF IInv
<1>. QED  BY <1>1, Invariance, PTL

\* The status of a job that ended is that of its latest execution.
THEOREM LatestStatus == Spec => []StatusIsOfLatestExecution
<1>1. IInv => StatusIsOfLatestExecution
  BY DEF IInv
<1>. QED  BY <1>1, Invariance, PTL

\* The fields node and error have their documented meaning.
THEOREM FieldsFit == Spec => []NodeAndErrorFitStatus
<1>1. IInv => NodeAndErrorFitStatus
  BY DEF IInv
<1>. QED  BY <1>1, Invariance, PTL

-----------------------------------------------------------------------------
(* The messages implement JobLifecycle.                                    *)

Stutters == job'.status = job.status /\ job'.num_exes = job.num_exes

LEMMA ExecuteLifecycle ==
  ASSUME IInv, NEW m, Execute(m) PROVE Stutters \/ Lifecycle!Next
<1>1. job \in JobRows /\ job.num_exes \in Nat
  BY RowType
<1>2. m \in pool \cup executed => m.n \in Nat
  BY RowType DEF OthersOK, Messages
<1>3. CASE ProcessJobInput \/ RequeueJobs(m) \/ RestartScheduler(m) \/ UpdateRecipes(m)
  <2>1. job' = job \/ job' \in {process_job_input(job), increment_max_tries(job)}
    BY <1>3 DEF ProcessJobInput, RequeueJobs, RestartScheduler, UpdateRecipes
  <2>. QED  BY ZenonT(30), <1>1, <2>1, RowSame DEF Stutters
<1>4. CASE QueuedJobs(m)
  <2>1. CASE job' = job
    BY <2>1 DEF Stutters
  <2>2. CASE job' = update_jobs_to_queued(job) /\ (can_be_requeued(job) \/ can_be_queued(job))
    <3>1. job.status # "COMPLETED"
      BY <2>2, <1>1 DEF can_be_requeued, can_be_queued, has_been_queued, IInv, NeverQueued
    <3>2. job'.status = "QUEUED" /\ job'.num_exes = job.num_exes + 1
      BY Zenon, <2>2, <1>1, QueuedRow
    <3>. QED  BY <3>1, <3>2 DEF Lifecycle!Next, Lifecycle!Queue
  <2>. QED  BY <1>4, <2>1, <2>2 DEF QueuedJobs
<1>5. CASE RunningJobs(m)
  <2>1. CASE job' = job
    BY <2>1 DEF Stutters
  <2>2. CASE job' = update_jobs_to_running(job)
    <3>1. /\ job'.num_exes = job.num_exes
          /\ job'.status = (IF job.status = "QUEUED" THEN "RUNNING" ELSE job.status)
      BY <2>2, <1>1, RunningRow
    <3>. QED  BY <3>1 DEF Stutters, Lifecycle!Next, Lifecycle!Start
  <2>. QED  BY <1>5, <2>1, <2>2 DEF RunningJobs
<1>6. CASE CompletedJobs(m) \/ FailedJobs(m)
  <2>1. CASE job' = job
    BY <2>1 DEF Stutters
  <2>2. CASE job' # job /\ (job' = update_jobs_to_completed(job) \/ job' = update_jobs_to_failed(job))
    <3>1. /\ job.status \in ActiveStatuses /\ job'.num_exes = job.num_exes
          /\ job'.status = "COMPLETED" \/ job'.status = "FAILED"
      BY <2>2, <1>1, CompletedRow, FailedRow
    <3>. QED  BY <3>1 DEF ActiveStatuses, Lifecycle!Next, Lifecycle!End
  <2>. QED  BY <1>6, <2>1, <2>2 DEF CompletedJobs, FailedJobs
<1>7. CASE CancelJobs(m) \/ UncancelJobs(m) \/ PendingJobs(m) \/ BlockedJobs(m)
  <2>1. m.n \in Nat
    BY <1>2, <1>7 DEF CancelJobs, UncancelJobs, PendingJobs, BlockedJobs, Executes
  <2>2. CASE job' = job
    BY <2>2 DEF Stutters
  <2>3. CASE job' # job /\ job' = update_jobs_to_canceled(job, m.n)
    <3>1. job.status # "COMPLETED" /\ job'.status = "CANCELED" /\ job'.num_exes = job.num_exes
      BY Zenon, <2>1, <2>3, <1>1, CanceledRow
    <3>. QED  BY <3>1 DEF Lifecycle!Next, Lifecycle!Cancel
  <2>4. CASE /\ job' # job
             /\ job' = update_jobs_to_blocked(job, m.n) \/ job' = update_jobs_to_pending(job, m.n)
    <3>1. job.num_exes = 0 /\ job'.num_exes = 0 /\ job'.status \in {"BLOCKED", "PENDING"}
      BY <2>1, <2>4, <1>1, WaitingRow
    <3>. QED  BY <3>1 DEF Lifecycle!Next, Lifecycle!Wait
  <2>. QED  BY <1>7, <2>2, <2>3, <2>4 DEF CancelJobs, UncancelJobs, PendingJobs, BlockedJobs
<1>. QED  BY <1>3, <1>4, <1>5, <1>6, <1>7 DEF Execute

LEMMA StepLifecycle ==
  ASSUME IInv, [Next]_vars PROVE Stutters \/ Lifecycle!Next
<1>1. job \in JobRows
  BY RowType
<1>2. CASE \E m \in pool \cup executed : Execute(m)
  BY <1>2, ExecuteLifecycle
<1>3. CASE SupersedeRecipeNodes
  BY <1>1, <1>3, RowSame DEF SupersedeRecipeNodes, Stutters
<1>4. CASE UNCHANGED job
  BY ZenonT(30), <1>4 DEF Stutters
<1>5. \/ \E m \in pool \cup executed : Execute(m)
      \/ SupersedeRecipeNodes \/ UNCHANGED job
  BY DEF Next, vars, db, CancelJobsBulk, RequeueJobsBulk, ParentsChange, _process_queue,
     _process_scheduled_job_executions, scheduling_database_error, execution_ends,
     sync_with_database, send_messages, restart
<1>. QED  BY <1>2, <1>3, <1>4, <1>5

\* The messages change a job only as JobLifecycle allows.
THEOREM Refinement == Spec => FollowsLifecycle
<1>1. Init => Lifecycle!Init
  BY DEF Init, create_job, Lifecycle!Init
<1>2. IInv /\ [Next]_vars => [Lifecycle!Next]_<<job.status, job.num_exes>>
  BY StepLifecycle DEF Stutters
<1>. QED  BY <1>1, <1>2, Invariance, PTL DEF Spec, FollowsLifecycle, Lifecycle!Spec

\* No late, repeated or racing message changes a completed job.
THEOREM CompletedStays == Spec => CompletedIsFinal
<1>1. IInv /\ [Next]_vars =>
        [job.status = "COMPLETED" => job'.status = "COMPLETED" /\ job'.num_exes = job.num_exes]_vars
  <2>. SUFFICES ASSUME IInv, [Next]_vars, job.status = "COMPLETED"
                PROVE  job'.status = "COMPLETED" /\ job'.num_exes = job.num_exes
    OBVIOUS
  <2>1. job.num_exes # 0
    BY DEF IInv, NeverQueued
  <2>. QED  BY <2>1, StepLifecycle DEF Stutters, Lifecycle!Next, Lifecycle!Wait, Lifecycle!Queue,
               Lifecycle!Start, Lifecycle!End, Lifecycle!Cancel
<1>. QED  BY <1>1, Invariance, PTL DEF Spec, CompletedIsFinal

-----------------------------------------------------------------------------
(* No job is forgotten: execution numbers are used once, and something is  *)
(* always on its way for a job that is queued or running.                  *)

\* The entries the scheduling thread works on were on the queue, and the numbers of
\* entries and executions were given out by the job.
NumberInv ==
  /\ ExecutionNumbersAreUnique
  /\ \A x \in exes : x.exe_num <= job.num_exes
  /\ \A p \in picked : p.exe_num <= job.num_exes
  /\ \A p, q \in picked : p.exe_num = q.exe_num => p = q

Active == job.status \in ActiveStatuses

\* Something leads on from an unfinished execution n: it is on the queue, runs, or a
\* message will end, requeue or cancel it.
EndsIt(m, n) == m.type \in EndTypes \cup {"requeued"} /\ m.n = n
LosesIt(m, n) == m.type = "restart" /\ \E x \in exes : x.exe_num = n /\ x.started < m.n
CancelsIt(m) == m.type = "cancel" /\ job.is_superseded
Accounted(n) ==
  \/ \E q \in queue : q.exe_num = n
  \/ n \in running
  \/ \E m \in pool \cup outbox : EndsIt(m, n) \/ LosesIt(m, n) \/ CancelsIt(m)

\* What the scheduler runs, or reports the end of, has a row in the database, started by
\* this scheduler or an earlier one: RestartScheduler will find it.
RowInv ==
  /\ \A x \in exes : x.started <= epoch
  /\ \A e \in running : \E x \in exes : x.exe_num = e
  /\ \A m \in outbox : /\ m.type \in EndTypes \cup {"running", "restart"}
                       /\ m.type \in EndTypes => \E x \in exes : x.exe_num = m.n

\* A queued job can be queued again unless it is superseded, and then its
\* cancellation is on its way. A canceled entry is not that of an unfinished execution.
ActiveInv ==
  /\ has_been_queued(job) => job.has_input
  /\ Active /\ job.is_superseded => \E m \in pool : m.type = "cancel"
  /\ \A q \in queue \cup picked : q.is_canceled /\ q.exe_num = job.num_exes => ~Active
  /\ \A x \in exes : x.started = 0 /\ x.exe_num = job.num_exes => ~Active
  /\ Active => Accounted(job.num_exes)

AccountInv == NumberInv /\ RowInv /\ ActiveInv

\* The numbers stay unique while only entries and executions that were there remain.
LEMMA NumbersKept ==
  ASSUME NumberInv, job'.num_exes = job.num_exes, queue' \subseteq queue, exes' = exes,
         picked' = picked \/ picked' \subseteq queue
  PROVE  NumberInv'
<1>1. CASE picked' = picked
  BY <1>1 DEF NumberInv, ExecutionNumbersAreUnique
<1>2. CASE picked' \subseteq queue
  BY <1>2 DEF NumberInv, ExecutionNumbersAreUnique
<1>. QED  BY <1>1, <1>2

\* What accounts for an execution still does when its message is still there.
LEMMA AccountedKept ==
  ASSUME NEW n, NEW m, IInv, Accounted(n), queue' = queue, exes' = exes,
         running \subseteq running', (pool \cup outbox) \ {m} \subseteq pool' \cup outbox',
         job.is_superseded => job'.is_superseded,
         \/ m \in pool' \cup outbox'
         \/ pool \cup outbox \subseteq pool' \cup outbox'
         \/ ~EndsIt(m, n) /\ ~LosesIt(m, n) /\ ~CancelsIt(m)
  PROVE  Accounted(n)'
<1>1. CASE \E q \in queue : q.exe_num = n
  BY <1>1 DEF Accounted
<1>2. CASE n \in running
  BY <1>2 DEF Accounted
<1>3. ASSUME NEW k \in pool \cup outbox, EndsIt(k, n) \/ LosesIt(k, n) \/ CancelsIt(k)
      PROVE  Accounted(n)'
  <2>1. k \in pool' \cup outbox'
    BY <1>3
  <2>2. EndsIt(k, n)' \/ LosesIt(k, n)' \/ CancelsIt(k)'
    BY Zenon, <1>3 DEF EndsIt, LosesIt, CancelsIt
  <2>. QED  BY <2>1, <2>2 DEF Accounted
<1>. QED  BY <1>1, <1>2, <1>3 DEF Accounted

\* A message is executed that leaves the queue and the executions alone. If it was to
\* end or requeue the unfinished execution, another takes its place, or the job is
\* superseded and will be canceled. If the process stops before all has been sent, the
\* messages that were waiting are still there.
LEMMA QuietExecute ==
  ASSUME IInv, AccountInv, NEW m, NEW new, Executes(m, new), UNCHANGED <<queue, exes>>,
         job'.num_exes = job.num_exes, job.has_input => job'.has_input,
         job'.is_superseded = job.is_superseded, Active' => Active,
         Active' => m.type # "cancel",
         Active' => \/ ~EndsIt(m, job.num_exes) /\ ~LosesIt(m, job.num_exes)
                    \/ \E k \in new : EndsIt(k, job.num_exes)
                    \/ job.is_superseded
  PROVE  AccountInv'
<1>1. /\ pool \ {m} \subseteq pool' /\ (new \subseteq pool' \/ pool \subseteq pool')
      /\ UNCHANGED <<picked, running, outbox, epoch>>
  BY DEF Executes
<1>2. NumberInv'
  BY Zenon, <1>1, NumbersKept DEF AccountInv
<1>3. RowInv'
  BY Zenon, <1>1 DEF AccountInv, RowInv
<1>4. (has_been_queued(job) => job.has_input)'
  BY Zenon DEF AccountInv, ActiveInv, has_been_queued
<1>5. (Active /\ job.is_superseded => \E k \in pool : k.type = "cancel")'
  BY Zenon, <1>1 DEF AccountInv, ActiveInv
<1>6. /\ (\A q \in queue \cup picked : q.is_canceled /\ q.exe_num = job.num_exes => ~Active)'
      /\ (\A x \in exes : x.started = 0 /\ x.exe_num = job.num_exes => ~Active)'
  BY Zenon, <1>1 DEF AccountInv, ActiveInv
<1>7. ASSUME Active' PROVE Accounted(job.num_exes)'
  <2>1. PICK n : n = job.num_exes /\ n = job'.num_exes
    BY ZenonT(30)
  <2>2. CASE new \subseteq pool' /\ \E k \in new : EndsIt(k, n)
    <3>1. PICK k \in new : EndsIt(k, n)
      BY Zenon, <2>2
    <3>2. Accounted(n)'
      BY Zenon, <3>1, <2>2 DEF Accounted, EndsIt
    <3>. QED  BY <2>1, <3>2 DEF Accounted, EndsIt, LosesIt
  <2>3. CASE job.is_superseded
    <3>1. PICK k \in pool' : k.type = "cancel"
      BY <1>5, <1>7, <2>3
    <3>2. CancelsIt(k)'
      BY Zenon, <3>1, <2>3 DEF CancelsIt
    <3>. QED  BY Zenon, <3>1, <3>2 DEF Accounted
  <2>4. CASE pool \subseteq pool' \/ (~EndsIt(m, n) /\ ~LosesIt(m, n))
    <3>1. ~CancelsIt(m)
      BY Zenon, <1>7 DEF CancelsIt
    <3>2. Accounted(n)
      BY Zenon, <1>7, <2>1 DEF AccountInv, ActiveInv
    <3>3. pool \subseteq pool' => pool \cup outbox \subseteq pool' \cup outbox'
      BY <1>1
    <3>4. (pool \cup outbox) \ {m} \subseteq pool' \cup outbox'
      BY <1>1
    <3>5. Accounted(n)'
      BY Zenon, <1>1, <2>4, <3>1, <3>2, <3>3, <3>4, AccountedKept
    <3>. QED  BY Zenon, <2>1, <3>5 DEF Accounted, EndsIt, LosesIt
  <2>. QED  BY Zenon, <1>1, <1>7, <2>1, <2>2, <2>3, <2>4
<1>8. ActiveInv'
  BY ZenonT(30), <1>4, <1>5, <1>6, <1>7 DEF ActiveInv
<1>. QED  BY <1>2, <1>3, <1>8 DEF AccountInv

\* Updates of a row that keep its input, or that it is superseded.
LEMMA RowFields ==
  ASSUME NEW j \in JobRows, NEW w \in Nat,
         NEW r \in {update_jobs_to_blocked(j, w), update_jobs_to_pending(j, w),
                    update_jobs_to_canceled(j, w), update_jobs_to_completed(j),
                    update_jobs_to_failed(j), update_jobs_to_running(j),
                    update_jobs_to_queued(j), increment_max_tries(j), process_job_input(j)}
  PROVE  /\ j.has_input => r.has_input
         /\ r.is_superseded = j.is_superseded
<1>1. CASE r \in {update_jobs_to_blocked(j, w), update_jobs_to_pending(j, w)}
  BY Zenon, <1>1 DEF JobRows, update_jobs_to_blocked, update_jobs_to_pending
<1>2. CASE r = update_jobs_to_canceled(j, w)
  BY <1>2 DEF JobRows, update_jobs_to_canceled
<1>3. CASE r \in {update_jobs_to_completed(j), update_jobs_to_failed(j)}
  BY Zenon, <1>3 DEF JobRows, update_jobs_to_completed, update_jobs_to_failed
<1>4. CASE r = update_jobs_to_running(j)
  BY <1>4 DEF JobRows, update_jobs_to_running
<1>5. CASE r = update_jobs_to_queued(j)
  BY <1>5 DEF JobRows, update_jobs_to_queued
<1>6. CASE r \in {increment_max_tries(j), process_job_input(j)}
  BY <1>6 DEF JobRows, increment_max_tries, process_job_input
<1>. QED  BY <1>1, <1>2, <1>3, <1>4, <1>5, <1>6

\* A job that never was queued is not active.
LEMMA ActiveWasQueued ==
  ASSUME IInv, Active PROVE job.num_exes > 0 /\ has_been_queued(job)
<1>1. job.num_exes # 0
  BY DEF IInv, NeverQueued, Active, ActiveStatuses
<1>. QED  BY <1>1, RowType DEF has_been_queued

\* QueuedJobs.execute gives the job a new number and an entry on the queue.
LEMMA QueuedJobsAccount ==
  ASSUME IInv, AccountInv, NEW m, m.type \in {"queued", "requeued"}, QueuedJobs(m)
  PROVE  AccountInv'
<1>. DEFINE can == IF m.type = "requeued" THEN can_be_requeued(job) ELSE can_be_queued(job)
            entry == [exe_num |-> job.num_exes + 1, is_canceled |-> FALSE]
<1>1. Executes(m, {}) /\ UNCHANGED exes
  BY DEF QueuedJobs
<1>2. UNCHANGED <<picked, running, outbox, epoch>> /\ pool' = pool \ {m}
  BY <1>1 DEF Executes
<1>3. job \in JobRows /\ job.num_exes \in Nat /\ OthersOK
  BY RowType
<1>4. CASE UNCHANGED <<job, queue>> /\ ~(IsCurrent(m.n) /\ can)
  <2>1. ASSUME Active
        PROVE  ~EndsIt(m, job.num_exes) \/ job.is_superseded
    <3>1. SUFFICES ASSUME EndsIt(m, job.num_exes), ~job.is_superseded PROVE FALSE
      OBVIOUS
    <3>2. m.n = job.num_exes /\ m.type = "requeued"
      BY <3>1 DEF EndsIt, EndTypes
    <3>3. can_be_requeued(job)
      BY <2>1, <3>1, ActiveWasQueued
      DEF can_be_requeued, AccountInv, ActiveInv, Active, ActiveStatuses
    <3>. QED  BY <1>4, <3>2, <3>3 DEF IsCurrent
  <2>2. ~LosesIt(m, job.num_exes) /\ m.type # "cancel"
    BY DEF LosesIt
  <2>3. Active' => Active
    BY <1>4 DEF Active
  <2>. QED  BY Zenon, <1>1, <1>4, <2>1, <2>2, <2>3, QuietExecute
<1>5. CASE /\ can
           /\ job' = update_jobs_to_queued(job)
           /\ queue' = queue \cup {entry}
  <2>1. job'.num_exes = job.num_exes + 1 /\ job'.is_superseded = job.is_superseded
    BY ZenonT(30), <1>3, <1>5, QueuedRow, RowFields
  <2>2. job.has_input /\ ~job.is_superseded /\ (job.has_input => job'.has_input)
    BY <1>3, <1>5, RowFields DEF can_be_queued, can_be_requeued
  <2>3. entry.exe_num = job.num_exes + 1 /\ entry.is_canceled = FALSE
    OBVIOUS
  <2>4. /\ \A q \in queue \cup picked : q.exe_num \in Nat /\ q.exe_num <= job.num_exes
        /\ \A x \in exes : x.exe_num \in Nat /\ x.exe_num <= job.num_exes
    BY <1>3, BoundsAssumption
    DEF AccountInv, NumberInv, ExecutionNumbersAreUnique, OthersOK, QueueRows, ExeRows, ExeNums
  <2>5. /\ \A q \in queue \cup picked : q.exe_num <= job'.num_exes /\ q.exe_num # job'.num_exes
        /\ \A x \in exes : x.exe_num <= job'.num_exes /\ x.exe_num # job'.num_exes
    BY <1>3, <2>1, <2>4
  <2>6. NumberInv'
    <3>. HIDE DEF entry
    <3>1. entry.exe_num = job'.num_exes /\ job'.num_exes <= job'.num_exes
      BY <1>3, <2>1, <2>3
    <3>. QED  BY ZenonT(30), <1>1, <1>2, <1>5, <2>5, <3>1 DEF AccountInv, NumberInv, ExecutionNumbersAreUnique
  <2>7. RowInv'
    BY <1>1, <1>2 DEF AccountInv, RowInv
  <2>8. ActiveInv'
    <3>. HIDE DEF entry
    <3>1. Accounted(job.num_exes)'
      BY <1>5, <2>1, <2>3 DEF Accounted
    <3>2. job'.is_superseded = FALSE /\ job'.has_input
      BY <1>3, <2>1, <2>2 DEF JobRows
    <3>3. (\A q \in queue \cup picked : q.is_canceled /\ q.exe_num = job.num_exes => ~Active)'
      BY <1>2, <1>5, <2>3, <2>5
    <3>4. (\A x \in exes : x.started = 0 /\ x.exe_num = job.num_exes => ~Active)'
      BY ZenonT(30), <1>1, <2>5
    <3>. QED  BY ZenonT(30), <3>1, <3>2, <3>3, <3>4 DEF ActiveInv
  <2>. QED  BY <2>6, <2>7, <2>8 DEF AccountInv
<1>. QED  BY <1>4, <1>5 DEF QueuedJobs

\* RunningJobs.execute, and CompletedJobs.execute and FailedJobs.execute: the message
\* that reports the end of the unfinished execution ends it, or asks for the next one.
LEMMA RunningJobsAccount ==
  ASSUME IInv, AccountInv, NEW m, m.type = "running", RunningJobs(m) PROVE AccountInv'
<1>1. Executes(m, {}) /\ UNCHANGED <<queue, exes>>
  BY DEF RunningJobs
<1>2. job' = job \/ job' = update_jobs_to_running(job)
  BY DEF RunningJobs
<1>3. /\ job'.num_exes = job.num_exes /\ (job.has_input => job'.has_input)
      /\ job'.is_superseded = job.is_superseded /\ (Active' => Active)
  BY <1>2, RowType, RunningRow, RowFields DEF Active, ActiveStatuses
<1>4. ~EndsIt(m, job.num_exes) /\ ~LosesIt(m, job.num_exes)
  BY DEF EndsIt, LosesIt, EndTypes
<1>. QED  BY <1>1, <1>3, <1>4, QuietExecute

LEMMA CompletedJobsAccount ==
  ASSUME IInv, AccountInv, NEW m, m.type = "completed", CompletedJobs(m) PROVE AccountInv'
<1>1. PICK new : Executes(m, new) /\ UNCHANGED <<queue, exes>>
  BY DEF CompletedJobs
<1>2. job' = IF IsCurrent(m.n) THEN update_jobs_to_completed(job) ELSE job
  BY DEF CompletedJobs
<1>3. job' # job => job' = update_jobs_to_completed(job)
  BY <1>2
<1>4. /\ job'.num_exes = job.num_exes /\ (job.has_input => job'.has_input)
      /\ job'.is_superseded = job.is_superseded
      /\ job' # job => job'.status = "COMPLETED"
  BY <1>3, RowType, CompletedRow, RowFields
<1>5. Active' => Active /\ job' = job
  BY <1>4 DEF Active, ActiveStatuses
<1>6. ASSUME Active' PROVE ~EndsIt(m, job.num_exes) /\ ~LosesIt(m, job.num_exes)
  <2>1. ~LosesIt(m, job.num_exes)
    BY DEF LosesIt
  <2>2. ASSUME m.n = job.num_exes PROVE FALSE
    <3>1. job' = [job EXCEPT !.status = "COMPLETED"]
      BY <1>2, <1>5, <1>6, <2>2 DEF IsCurrent, update_jobs_to_completed, can_be_completed, Active
    <3>2. job'.status = "COMPLETED"
      BY <3>1, RowType DEF JobRows
    <3>. QED  BY <1>6, <3>2 DEF Active, ActiveStatuses
  <2>. QED  BY <2>1, <2>2 DEF EndsIt
<1>. QED  BY <1>1, <1>4, <1>5, <1>6, QuietExecute

LEMMA FailedJobsAccount ==
  ASSUME IInv, AccountInv, NEW m, m.type \in {"failed", "failed_final"}, FailedJobs(m)
  PROVE  AccountInv'
<1>. DEFINE fails == can_be_failed(job) /\ IsCurrent(m.n)
            retry == fails /\ should_retry(job, m.type = "failed")
            new == IF retry THEN {Msg("requeued", job.num_exes)}
                   ELSE IF fails THEN UpdateRecipesMsgs ELSE {}
<1>1. Executes(m, new) /\ UNCHANGED <<queue, exes>>
  BY DEF FailedJobs
<1>2. job' = IF fails /\ ~retry THEN update_jobs_to_failed(job) ELSE job
  BY DEF FailedJobs
<1>3. job' # job => job' = update_jobs_to_failed(job)
  BY <1>2
<1>4. /\ job'.num_exes = job.num_exes /\ (job.has_input => job'.has_input)
      /\ job'.is_superseded = job.is_superseded
      /\ job' # job => job'.status = "FAILED"
  BY <1>3, RowType, FailedRow, RowFields
<1>5. Active' => Active /\ job' = job
  BY <1>4 DEF Active, ActiveStatuses
<1>6. ~LosesIt(m, job.num_exes) /\ m.type # "cancel"
  BY DEF LosesIt
<1>7. ASSUME Active', EndsIt(m, job.num_exes) PROVE \E k \in new : EndsIt(k, job.num_exes)
  <2>1. fails
    BY <1>5, <1>7 DEF can_be_failed, Active, IsCurrent, EndsIt
  <2>2. retry
    <3>1. SUFFICES ASSUME ~retry PROVE FALSE
      OBVIOUS
    <3>2. job' = [job EXCEPT !.status = "FAILED", !.error = TRUE]
      BY <1>2, <2>1, <3>1 DEF update_jobs_to_failed
    <3>3. job'.status = "FAILED"
      BY <3>2, RowType DEF JobRows
    <3>. QED  BY <1>7, <3>3 DEF Active, ActiveStatuses
  <2>3. EndsIt(Msg("requeued", job.num_exes), job.num_exes)
    BY NewMessages, RowType DEF EndsIt, MessageTypes
  <2>. HIDE DEF retry
  <2>. QED  BY <2>2, <2>3
<1>. HIDE DEF new
<1>. QED  BY <1>1, <1>4, <1>5, <1>6, <1>7, QuietExecute

\* CancelJobs.execute cancels the job, if it is active, with its entries on the queue.
LEMMA CancelJobsAccount ==
  ASSUME IInv, AccountInv, NEW m, CancelJobs(m) PROVE AccountInv'
<1>1. Executes(m, UpdateRecipesMsgs) /\ UNCHANGED exes /\ m.n \in Nat
  BY ExecutedMessage DEF CancelJobs
<1>2. UNCHANGED <<picked, running, outbox, epoch>>
  BY <1>1 DEF Executes
<1>3. job' = update_jobs_to_canceled(job, m.n)
  BY DEF CancelJobs
<1>4. CASE ~can_be_canceled(job)
  <2>1. UNCHANGED <<job, queue>> /\ ~Active /\ ~Active'
    BY <1>3, <1>4
    DEF CancelJobs, update_jobs_to_canceled, can_be_canceled, Active, ActiveStatuses
  <2>. QED  BY <1>1, <2>1, QuietExecute
<1>5. CASE can_be_canceled(job)
  <2>1. job'.status = "CANCELED" /\ job'.num_exes = job.num_exes
    BY ZenonT(30), <1>3, <1>5, RowType DEF update_jobs_to_canceled, JobRows
  <2>2. job.has_input => job'.has_input
    BY <1>1, <1>3, RowType, RowFields
  <2>3. \A q \in queue' : \E r \in queue : q = [r EXCEPT !.is_canceled = TRUE]
    BY <1>5 DEF CancelJobs
  <2>4. \A r \in queue : [r EXCEPT !.is_canceled = TRUE].exe_num = r.exe_num
    BY RowType DEF OthersOK, QueueRows
  <2>5. \A q \in queue' : \E r \in queue : q = [r EXCEPT !.is_canceled = TRUE] /\ q.exe_num = r.exe_num
    BY Zenon, <2>3, <2>4
  <2>6. NumberInv'
    <3>1. ASSUME NEW q \in queue', NEW s \in queue', q.exe_num = s.exe_num PROVE q = s
      <4>1. PICK a \in queue : q = [a EXCEPT !.is_canceled = TRUE] /\ q.exe_num = a.exe_num
        BY <2>5
      <4>2. PICK b \in queue : s = [b EXCEPT !.is_canceled = TRUE] /\ s.exe_num = b.exe_num
        BY <2>5
      <4>3. a = b
        BY <3>1, <4>1, <4>2 DEF AccountInv, NumberInv, ExecutionNumbersAreUnique
      <4>. QED  BY <4>1, <4>2, <4>3
    <3>2. \A q \in queue' : /\ q.exe_num <= job'.num_exes
                            /\ \A x \in exes : x.exe_num # q.exe_num
      BY <2>1, <2>5 DEF AccountInv, NumberInv, ExecutionNumbersAreUnique
    <3>. QED  BY <1>1, <1>2, <2>1, <3>1, <3>2
              DEF AccountInv, NumberInv, ExecutionNumbersAreUnique
  <2>7. RowInv'
    BY <1>1, <1>2 DEF AccountInv, RowInv
  <2>8. ActiveInv'
    <3>1. ~Active'
      BY <2>1 DEF Active, ActiveStatuses
    <3>. QED  BY <2>1, <2>2, <3>1 DEF AccountInv, ActiveInv, has_been_queued
  <2>. QED  BY <2>6, <2>7, <2>8 DEF AccountInv
<1>. QED  BY <1>4, <1>5

\* The other messages do not touch an active job, or only its input or its tries.
LEMMA WaitingJobsAccount ==
  ASSUME IInv, AccountInv, NEW m, m.type \in {"uncancel", "pending", "blocked"},
         UncancelJobs(m) \/ PendingJobs(m) \/ BlockedJobs(m)
  PROVE  AccountInv'
<1>1. PICK new : Executes(m, new) /\ UNCHANGED <<queue, exes>> /\ m.n \in Nat
  BY ExecutedMessage DEF UncancelJobs, PendingJobs, BlockedJobs
<1>2. \/ job' = job
      \/ job' = update_jobs_to_blocked(job, m.n)
      \/ job' = update_jobs_to_pending(job, m.n)
  BY DEF UncancelJobs, PendingJobs, BlockedJobs
<1>3. /\ job'.num_exes = job.num_exes /\ (job.has_input => job'.has_input)
      /\ job'.is_superseded = job.is_superseded
      /\ job' # job => job'.status \in {"BLOCKED", "PENDING"}
  <2>1. CASE job' = job
    BY <2>1
  <2>2. CASE job' # job
    <3>1. /\ job.num_exes = 0 /\ job'.num_exes = 0
          /\ job'.status \in {"BLOCKED", "PENDING"}
      BY <1>1, <1>2, <2>2, RowType, WaitingRow
    <3>2. (job.has_input => job'.has_input) /\ job'.is_superseded = job.is_superseded
      BY <1>1, <1>2, <2>2, RowType, RowFields
    <3>. QED  BY <3>1, <3>2
  <2>. QED  BY <2>1, <2>2
<1>4. Active' => Active
  BY <1>3 DEF Active, ActiveStatuses
<1>5. ~EndsIt(m, job.num_exes) /\ ~LosesIt(m, job.num_exes) /\ m.type # "cancel"
  BY DEF EndsIt, LosesIt, EndTypes
<1>. QED  BY <1>1, <1>3, <1>4, <1>5, QuietExecute

LEMMA RowOnlyAccount ==
  ASSUME IInv, AccountInv, NEW m,
         \/ m = Msg("process_job_input", 0) /\ ProcessJobInput
         \/ m.type = "requeue" /\ RequeueJobs(m)
         \/ m.type = "update_recipes" /\ UpdateRecipes(m)
  PROVE  AccountInv'
<1>1. \E new : Executes(m, new)
  BY ZenonT(30) DEF ProcessJobInput, RequeueJobs, UpdateRecipes
<1>2. UNCHANGED <<queue, exes>> /\ job' \in {job, increment_max_tries(job), process_job_input(job)}
  BY DEF ProcessJobInput, RequeueJobs, UpdateRecipes
<1>3. /\ job'.num_exes = job.num_exes /\ (job.has_input => job'.has_input)
      /\ job'.is_superseded = job.is_superseded /\ job'.status = job.status
  <2>1. CASE job' = job
    BY ZenonT(30), <2>1
  <2>2. CASE job' \in {increment_max_tries(job), process_job_input(job)}
    <3>1. 0 \in Nat
      OBVIOUS
    <3>. QED  BY <2>2, <3>1, RowType, RowFields, RowSame
  <2>. QED  BY <1>2, <2>1, <2>2
<1>4. Active' => Active
  BY <1>3 DEF Active
<1>5. m.type \in {"process_job_input", "requeue", "update_recipes"}
  BY DEF Msg
<1>6. ~EndsIt(m, job.num_exes) /\ ~LosesIt(m, job.num_exes) /\ m.type # "cancel"
  BY <1>5 DEF EndsIt, LosesIt, EndTypes
<1>. QED  BY Zenon, <1>1, <1>2, <1>3, <1>4, <1>6, QuietExecute

\* RestartScheduler.execute fails the unfinished execution the message was waiting for.
LEMMA RestartSchedulerAccount ==
  ASSUME IInv, AccountInv, NEW m, m.type = "restart", RestartScheduler(m) PROVE AccountInv'
<1>. DEFINE new == {Msg("failed", x.exe_num) : x \in {y \in UnfinishedExes : y.started < m.n}}
<1>1. Executes(m, new) /\ UNCHANGED <<job, queue, exes>>
  BY DEF RestartScheduler
<1>2. ~EndsIt(m, job.num_exes) /\ m.type # "cancel"
  BY DEF EndsIt, EndTypes
<1>3. ASSUME Active, LosesIt(m, job.num_exes) PROVE \E k \in new : EndsIt(k, job.num_exes)
  <2>1. PICK x \in exes : x.exe_num = job.num_exes /\ x.started < m.n
    BY <1>3 DEF LosesIt
  <2>2. Msg("failed", job.num_exes) \in new
    BY <1>3, <2>1 DEF UnfinishedExes, Active
  <2>3. EndsIt(Msg("failed", job.num_exes), job.num_exes)
    BY DEF EndsIt, EndTypes, Msg
  <2>. QED  BY <2>2, <2>3
<1>4. Active' => Active
  BY <1>1 DEF Active
<1>. HIDE DEF new
<1>. QED  BY <1>1, <1>2, <1>3, <1>4, QuietExecute

LEMMA ExecuteAccount ==
  ASSUME IInv, AccountInv, NEW m \in pool \cup executed, Execute(m) PROVE AccountInv'
<1>1. CASE m.type = "process_job_input" /\ ProcessJobInput
  <2>. DEFINE k == Msg("process_job_input", 0)
  <2>1. k = Msg("process_job_input", 0) /\ ProcessJobInput
    BY <1>1
  <2>. HIDE DEF k
  <2>. QED  BY <2>1, RowOnlyAccount
<1>2. CASE m.type \in {"requeue", "update_recipes"}
  BY <1>2, RowOnlyAccount DEF Execute
<1>3. CASE m.type \in {"uncancel", "pending", "blocked"}
  BY <1>3, WaitingJobsAccount DEF Execute
<1>. QED  BY <1>1, <1>2, <1>3, QueuedJobsAccount, RunningJobsAccount, CompletedJobsAccount,
             FailedJobsAccount, CancelJobsAccount, RestartSchedulerAccount DEF Execute

\* Requests and the parents add messages and leave the rest alone.
LEMMA QuietStep ==
  ASSUME IInv, AccountInv, UNCHANGED <<job, queue, exes, running, epoch>>,
         picked' = picked \/ picked' \subseteq queue,
         pool \subseteq pool', pool \cup outbox \subseteq pool' \cup outbox',
         outbox' \subseteq outbox
  PROVE  AccountInv'
<1>1. NumberInv'
  BY Zenon, NumbersKept DEF AccountInv
<1>2. RowInv'
  BY ZenonT(30) DEF AccountInv, RowInv
<1>3. ActiveInv'
  <2>1. Active' = Active /\ has_been_queued(job)' = has_been_queued(job)
    BY DEF Active, has_been_queued
  <2>2. PICK n : n = job.num_exes /\ n = job'.num_exes
    OBVIOUS
  <2>3. ASSUME Active PROVE Accounted(n)'
    <3>1. Accounted(n)
      BY <2>2, <2>3 DEF AccountInv, ActiveInv
    <3>2. PICK k : k \notin pool \cup outbox /\ ~EndsIt(k, n) /\ ~LosesIt(k, n) /\ ~CancelsIt(k)
      <4>. DEFINE k == [type |-> "none", n |-> 0]
      <4>1. k \notin pool \cup outbox
        <5>1. k \notin Messages
          <6>1. k.type \notin MessageTypes
            BY DEF MessageTypes
          <6>. HIDE DEF k
          <6>. QED  BY <6>1 DEF Messages
        <5>. HIDE DEF k
        <5>. QED  BY <5>1, RowType DEF OthersOK
      <4>2. ~EndsIt(k, n) /\ ~LosesIt(k, n) /\ ~CancelsIt(k)
        BY DEF EndsIt, LosesIt, CancelsIt, EndTypes
      <4>. QED  BY <4>1, <4>2
    <3>. QED  BY <3>1, <3>2, AccountedKept
  <2>4. Active' => Accounted(job.num_exes)'
    BY ZenonT(30), <2>1, <2>2, <2>3 DEF Accounted, EndsIt, LosesIt
  <2>. QED  BY <2>1, <2>4 DEF AccountInv, ActiveInv
<1>. QED  BY <1>1, <1>2, <1>3 DEF AccountInv

LEMMA UsersAccount ==
  ASSUME IInv, AccountInv, CancelJobsBulk \/ RequeueJobsBulk \/ ParentsChange
  PROVE  AccountInv'
BY QuietStep DEF CancelJobsBulk, RequeueJobsBulk, ParentsChange, db, scheduler

\* SupersedeRecipeNodes.execute sends the message that cancels the job it supersedes.
LEMMA SupersedeAccount ==
  ASSUME IInv, AccountInv, SupersedeRecipeNodes PROVE AccountInv'
<1>1. /\ UNCHANGED <<queue, exes, picked, running, outbox, epoch>>
      /\ pool' = pool \cup {Msg("cancel", now)} /\ job' = supersede_jobs(job)
  BY DEF SupersedeRecipeNodes, scheduler
<1>2. /\ job'.num_exes = job.num_exes /\ job'.status = job.status
      /\ job'.has_input = job.has_input /\ job'.is_superseded
  BY <1>1, RowType DEF supersede_jobs, JobRows
<1>3. Msg("cancel", now) \in pool' /\ Msg("cancel", now).type = "cancel"
  BY Zenon, <1>1 DEF Msg
<1>4. NumberInv' /\ RowInv'
  BY ZenonT(30), <1>1, <1>2, NumbersKept DEF AccountInv, RowInv
<1>5. Accounted(job.num_exes)'
  <2>1. CancelsIt(Msg("cancel", now))'
    BY <1>2 DEF CancelsIt, Msg
  <2>. QED  BY <1>2, <1>3 DEF Accounted, CancelsIt
<1>6. Active' = Active /\ has_been_queued(job)' = has_been_queued(job)
  BY ZenonT(30), <1>2 DEF Active, has_been_queued
<1>7. ActiveInv'
  BY <1>1, <1>2, <1>3, <1>5, <1>6 DEF AccountInv, ActiveInv
<1>. QED  BY <1>4, <1>7 DEF AccountInv

\* The scheduling thread reads the queue, or gives up what it has read.
LEMMA ReadQueueAccount ==
  ASSUME IInv, AccountInv, _process_queue \/ scheduling_database_error PROVE AccountInv'
<1>1. picked' \subseteq queue
  BY DEF _process_queue, scheduling_database_error
<1>. QED  BY <1>1, QuietStep DEF _process_queue, scheduling_database_error, db

\* The messaging thread moves a message to the pool.
LEMMA SendAccount ==
  ASSUME IInv, AccountInv, send_messages PROVE AccountInv'
<1>1. PICK m \in outbox : pool' = pool \cup {m} /\ outbox' = outbox \ {m}
  BY DEF send_messages
<1>. QED  BY <1>1, QuietStep DEF send_messages, db

\* The scheduling thread makes executions of the entries it has read, with their numbers.
LEMMA StartAccount ==
  ASSUME IInv, AccountInv, _process_scheduled_job_executions PROVE AccountInv'
<1>1. /\ exes' = exes \cup {Row(q) : q \in picked}
      /\ queue' = {q \in queue : \A p \in picked : p.exe_num # q.exe_num}
      /\ running' = running \cup Started(picked)
      /\ outbox' = outbox \cup {Msg("running", e) : e \in Started(picked)}
      /\ picked' = {} /\ UNCHANGED <<job, pool, epoch>>
  BY DEF _process_scheduled_job_executions
<1>2. epoch \in Nat \ {0}
  BY RowType DEF OthersOK
<1>3. \A q \in picked : /\ Row(q).exe_num = q.exe_num /\ Row(q) \in exes'
                        /\ Row(q).started = IF q.is_canceled THEN 0 ELSE epoch
  BY <1>1 DEF Row
<1>4. \A x \in exes' : x \in exes \/ \E q \in picked : x = Row(q)
  BY <1>1
<1>5. NumberInv'
  <2>1. ASSUME NEW x \in exes', NEW y \in exes', x.exe_num = y.exe_num PROVE x = y
    BY <1>3, <1>4, <2>1 DEF AccountInv, NumberInv, ExecutionNumbersAreUnique
  <2>2. \A q \in queue' : \A x \in exes' : x.exe_num # q.exe_num
    BY <1>1, <1>3, <1>4 DEF AccountInv, NumberInv, ExecutionNumbersAreUnique
  <2>3. \A x \in exes' : x.exe_num <= job'.num_exes
    BY <1>1, <1>3, <1>4 DEF AccountInv, NumberInv
  <2>. QED  BY <1>1, <2>1, <2>2, <2>3 DEF AccountInv, NumberInv, ExecutionNumbersAreUnique
<1>6. RowInv'
  <2>1. \A x \in exes' : x.started <= epoch'
    BY <1>1, <1>2, <1>3, <1>4 DEF AccountInv, RowInv
  <2>2. \A e \in Started(picked) : \E x \in exes' : x.exe_num = e
    BY ZenonT(30), <1>3 DEF Started
  <2>3. \A e \in running' : \E x \in exes' : x.exe_num = e
    BY <1>1, <2>2 DEF AccountInv, RowInv
  <2>4. \A e : Msg("running", e).type = "running"
    BY DEF Msg
  <2>5. \A m \in outbox' : m \in outbox \/ m.type = "running"
    BY Zenon, <1>1, <2>4
  <2>6. \A m \in outbox' : /\ m.type \in EndTypes \cup {"running", "restart"}
                           /\ m.type \in EndTypes => \E x \in exes' : x.exe_num = m.n
    BY Zenon, <1>1, <2>5 DEF AccountInv, RowInv, EndTypes
  <2>. QED  BY <2>1, <2>3, <2>6 DEF RowInv
<1>7. ActiveInv'
  <2>1. Active' = Active /\ has_been_queued(job)' = has_been_queued(job)
    BY ZenonT(30), <1>1 DEF Active, has_been_queued
  <2>2. \A q \in queue' \cup picked' : q \in queue
    BY <1>1
  <2>3. ASSUME NEW x \in exes', x.started = 0, x.exe_num = job.num_exes PROVE ~Active
    <3>1. CASE x \in exes
      BY ZenonT(30), <2>3, <3>1 DEF AccountInv, ActiveInv
    <3>2. ASSUME NEW q \in picked, x = Row(q) PROVE ~Active
      <4>1. q.exe_num = job.num_exes /\ q.is_canceled
        BY Zenon, <1>2, <1>3, <2>3, <3>2
      <4>. QED  BY <4>1 DEF AccountInv, ActiveInv
    <3>. QED  BY ZenonT(30), <1>4, <2>3, <3>1, <3>2
  <2>4. ASSUME Active PROVE Accounted(job.num_exes)'
    <3>1. PICK n : n = job.num_exes /\ n = job'.num_exes
      BY <1>1
    <3>2. Accounted(n)
      BY ZenonT(30), <2>4, <3>1 DEF AccountInv, ActiveInv
    <3>3. CASE \E p \in picked : p.exe_num = n
      <4>1. PICK p \in picked : p.exe_num = n
        BY Zenon, <3>3
      <4>2. ~p.is_canceled
        BY Zenon, <2>4, <3>1, <4>1 DEF AccountInv, ActiveInv
      <4>3. n \in running'
        BY ZenonT(30), <1>1, <4>1, <4>2 DEF Started
      <4>. QED  BY <3>1, <4>3 DEF Accounted
    <3>4. CASE \E q \in queue : q.exe_num = n /\ ~\E p \in picked : p.exe_num = n
      BY ZenonT(30), <1>1, <3>1, <3>4 DEF Accounted
    <3>5. CASE n \in running
      BY ZenonT(30), <1>1, <3>1, <3>5 DEF Accounted
    <3>6. ASSUME NEW k \in pool \cup outbox, EndsIt(k, n) \/ LosesIt(k, n) \/ CancelsIt(k)
          PROVE  Accounted(job.num_exes)'
      <4>1. k \in pool' \cup outbox' /\ exes \subseteq exes'
        BY ZenonT(30), <1>1
      <4>2. EndsIt(k, n)' \/ LosesIt(k, n)' \/ CancelsIt(k)'
        BY ZenonT(30), <1>1, <3>6, <4>1 DEF EndsIt, LosesIt, CancelsIt
      <4>3. Accounted(n)'
        BY <4>1, <4>2 DEF Accounted
      <4>. QED  BY Zenon, <3>1, <4>3 DEF Accounted, EndsIt, LosesIt
    <3>. QED  BY ZenonT(30), <3>2, <3>3, <3>4, <3>5, <3>6 DEF Accounted
  <2>. QED  BY ZenonT(30), <1>1, <2>1, <2>2, <2>3, <2>4 DEF AccountInv, ActiveInv
<1>. QED  BY ZenonT(30), <1>5, <1>6, <1>7 DEF AccountInv

\* An execution ends, and its end is reported.
LEMMA EndAccount ==
  ASSUME IInv, AccountInv, NEW e, NEW t \in EndTypes, execution_ends(e, t) PROVE AccountInv'
<1>1. /\ e \in running /\ running' = running \ {e} /\ outbox' = outbox \cup {Msg(t, e)}
      /\ UNCHANGED <<job, queue, exes, pool, picked, epoch>>
  BY DEF execution_ends, db
<1>2. Msg(t, e).type = t /\ Msg(t, e).n = e
  BY DEF Msg
<1>3. NumberInv'
  BY ZenonT(30), <1>1, NumbersKept DEF AccountInv
<1>4. RowInv'
  BY ZenonT(30), <1>1, <1>2 DEF AccountInv, RowInv
<1>5. Active' = Active /\ has_been_queued(job)' = has_been_queued(job)
  BY <1>1 DEF Active, has_been_queued
<1>6. ASSUME Active PROVE Accounted(job.num_exes)'
  <2>1. PICK n : n = job.num_exes /\ n = job'.num_exes
    BY ZenonT(30), <1>1
  <2>2. Accounted(n)
    BY <1>6, <2>1 DEF AccountInv, ActiveInv
  <2>3. EndsIt(Msg(t, e), e)'
    BY <1>2 DEF EndsIt
  <2>4. Accounted(n)'
    <3>1. CASE n = e
      BY Zenon, <1>1, <2>3, <3>1 DEF Accounted
    <3>2. CASE n # e
      BY ZenonT(30), <1>1, <2>2, <3>2 DEF Accounted, EndsIt, LosesIt, CancelsIt
    <3>. QED  BY <3>1, <3>2
  <2>. QED  BY <2>1, <2>4 DEF Accounted, EndsIt, LosesIt
<1>7. ActiveInv'
  BY ZenonT(30), <1>1, <1>5, <1>6 DEF AccountInv, ActiveInv
<1>. QED  BY ZenonT(30), <1>3, <1>4, <1>7 DEF AccountInv

\* sync_with_database stops only executions that are not unfinished.
LEMMA SyncAccount ==
  ASSUME IInv, AccountInv, NEW e, sync_with_database(e) PROVE AccountInv'
<1>1. /\ e \in running /\ running' = running \ {e}
      /\ job.status = "CANCELED" \/ job.num_exes > e
      /\ UNCHANGED <<job, queue, exes, pool, picked, outbox, epoch>>
  BY DEF sync_with_database, db
<1>2. NumberInv' /\ RowInv'
  BY <1>1, NumbersKept DEF AccountInv, RowInv
<1>3. Active' = Active /\ has_been_queued(job)' = has_been_queued(job)
  BY <1>1 DEF Active, has_been_queued
<1>4. Active => job.num_exes # e
  <2>1. job.num_exes \in Nat /\ e \in Nat
    BY <1>1, RowType DEF OthersOK, ExeNums
  <2>. QED  BY <1>1, <2>1 DEF Active, ActiveStatuses
<1>5. ASSUME Active PROVE Accounted(job.num_exes)'
  <2>1. PICK n : n = job.num_exes /\ n = job'.num_exes
    BY Zenon, <1>1
  <2>2. Accounted(n) /\ n # e
    BY Zenon, <1>4, <1>5, <2>1 DEF AccountInv, ActiveInv
  <2>3. Accounted(n)'
    BY Zenon, <1>1, <2>2 DEF Accounted, EndsIt, LosesIt, CancelsIt
  <2>. QED  BY <2>1, <2>3 DEF Accounted, EndsIt, LosesIt
<1>6. ActiveInv'
  BY Zenon, <1>1, <1>3, <1>5 DEF AccountInv, ActiveInv
<1>. QED  BY <1>2, <1>6 DEF AccountInv

\* The scheduler stops: whatever it ran, or had to report, has a row of an earlier
\* start, so the message of its successor is about it.
LEMMA RestartAccount ==
  ASSUME IInv, AccountInv, restart PROVE AccountInv'
<1>1. /\ epoch' = epoch + 1 /\ picked' = {} /\ running' = {}
      /\ outbox' = {Msg("restart", epoch + 1)} /\ UNCHANGED <<job, queue, exes, pool>>
  BY ZenonT(30) DEF restart, db
<1>2. epoch \in Nat /\ \A x \in exes : x.started \in Nat /\ x.started < epoch + 1
  BY RowType DEF OthersOK, ExeRows, AccountInv, RowInv
<1>3. NumberInv'
  BY <1>1, NumbersKept DEF AccountInv
<1>4. Msg("restart", epoch + 1).type = "restart" /\ Msg("restart", epoch + 1).n = epoch + 1
  BY DEF Msg
<1>5. RowInv'
  <2>1. \A x \in exes' : x.started <= epoch'
    BY <1>1, <1>2
  <2>. QED  BY <1>1, <1>4, <2>1 DEF RowInv, EndTypes
<1>6. Active' = Active /\ has_been_queued(job)' = has_been_queued(job)
  BY <1>1 DEF Active, has_been_queued
<1>7. ASSUME Active PROVE Accounted(job.num_exes)'
  <2>1. PICK n : n = job.num_exes /\ n = job'.num_exes
    BY <1>1
  <2>2. Accounted(n)
    BY <1>7, <2>1 DEF AccountInv, ActiveInv
  <2>3. ASSUME \E x \in exes : x.exe_num = n PROVE Accounted(n)'
    <3>1. PICK k \in outbox' : k.type = "restart" /\ k.n = epoch + 1
      BY Zenon, <1>1, <1>4
    <3>2. LosesIt(k, n)'
      BY Zenon, <1>1, <1>2, <2>3, <3>1 DEF LosesIt
    <3>. QED  BY <3>1, <3>2 DEF Accounted
  <2>4. ASSUME \E q \in queue : q.exe_num = n PROVE Accounted(n)'
    BY <1>1, <2>4 DEF Accounted
  <2>5. ASSUME n \in running PROVE \E x \in exes : x.exe_num = n
    BY <2>5 DEF AccountInv, RowInv
  <2>6. ASSUME NEW k \in outbox, EndsIt(k, n) \/ LosesIt(k, n) \/ CancelsIt(k)
        PROVE  \E x \in exes : x.exe_num = n
    BY <2>6 DEF AccountInv, RowInv, EndsIt, LosesIt, CancelsIt, EndTypes
  <2>7. ASSUME NEW k \in pool, EndsIt(k, n) \/ LosesIt(k, n) \/ CancelsIt(k)
        PROVE  Accounted(n)'
    <3>1. EndsIt(k, n)' \/ LosesIt(k, n)' \/ CancelsIt(k)'
      BY Zenon, <1>1, <2>7 DEF EndsIt, LosesIt, CancelsIt
    <3>. QED  BY Zenon, <1>1, <3>1 DEF Accounted
  <2>8. Accounted(n)'
    BY ZenonT(30), <2>2, <2>3, <2>4, <2>5, <2>6, <2>7 DEF Accounted
  <2>. QED  BY <2>1, <2>8 DEF Accounted, EndsIt, LosesIt
<1>8. ActiveInv'
  BY <1>1, <1>6, <1>7 DEF AccountInv, ActiveInv
<1>. QED  BY <1>3, <1>5, <1>8 DEF AccountInv

LEMMA AccountInit == Init => AccountInv
<1>1. ASSUME Init PROVE AccountInv
  <2>1. job.num_exes = 0 /\ job.status = "PENDING"
    BY <1>1 DEF Init, create_job
  <2>2. ~Active /\ ~has_been_queued(job)
    BY <2>1 DEF Active, ActiveStatuses, has_been_queued
  <2>. QED  BY ZenonT(30), <1>1, <2>1, <2>2
            DEF Init, AccountInv, NumberInv, ExecutionNumbersAreUnique, RowInv, ActiveInv
<1>. QED  BY Zenon, <1>1

\* Every step keeps the invariant.
LEMMA AccountStep == IInv /\ AccountInv /\ [Next]_vars => AccountInv'
<1>. SUFFICES ASSUME IInv, AccountInv, [Next]_vars PROVE AccountInv'
  OBVIOUS
<1>1. CASE \E m \in pool \cup executed : Execute(m)
  BY <1>1, ExecuteAccount
<1>2. CASE CancelJobsBulk \/ RequeueJobsBulk \/ SupersedeRecipeNodes \/ ParentsChange
  BY <1>2, UsersAccount, SupersedeAccount
<1>3. CASE _process_queue \/ _process_scheduled_job_executions \/ scheduling_database_error
  BY <1>3, ReadQueueAccount, StartAccount
<1>4. CASE \E e \in running : (\E t \in EndTypes : execution_ends(e, t)) \/ sync_with_database(e)
  BY <1>4, EndAccount, SyncAccount
<1>5. CASE send_messages \/ restart
  BY Zenon, <1>5, SendAccount, RestartAccount
<1>6. CASE UNCHANGED vars
  BY <1>6, QuietStep DEF vars
<1>. QED  BY <1>1, <1>2, <1>3, <1>4, <1>5, <1>6 DEF Next

\* In every reachable state the numbers are used once and no job is forgotten.
THEOREM AccountInvariant == Spec => []AccountInv
BY AccountInit, AccountStep, Invariance, PTL DEF Spec

\* However often messages are repeated and transactions fail, an execution number is
\* used once (QueuedJobs.execute, _process_scheduled_job_executions).
THEOREM NumbersCorrect == Spec => []ExecutionNumbersAreUnique
<1>1. AccountInv => ExecutionNumbersAreUnique
  BY ZenonT(30) DEF AccountInv, NumberInv
<1>. QED  BY <1>1, AccountInvariant, PTL

\* A QUEUED or RUNNING job is never forgotten, however often the scheduler stops with
\* executions running and messages unsent: RestartScheduler finds its execution.
THEOREM AccountedCorrect == Spec => []UnfinishedIsAccountedFor
<1>1. AccountInv => UnfinishedIsAccountedFor
  BY DEF AccountInv, ActiveInv, Accounted, EndsIt, LosesIt, CancelsIt, Active,
         UnfinishedIsAccountedFor, UnfinishedExes
<1>. QED  BY <1>1, AccountInvariant, PTL
====

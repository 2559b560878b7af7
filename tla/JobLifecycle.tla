---- MODULE JobLifecycle ----
(***************************************************************************)
(* What the rest of the system relies on about a job, without the messages *)
(* that bring it about: the status and the number of executions, and which *)
(* changes of the two can ever be seen (the status field and the can_be_*  *)
(* methods of Job in job/models.py).                                       *)
(***************************************************************************)
EXTENDS Naturals

VARIABLES status, num_exes

Init == status = "PENDING" /\ num_exes = 0

\* Until its first execution is queued a job waits or is canceled.
Wait ==
  /\ num_exes = 0
  /\ status' \in {"PENDING", "BLOCKED", "CANCELED"}
  /\ UNCHANGED num_exes

\* Every execution is a new one, and a completed job gets no more.
Queue ==
  /\ status # "COMPLETED"
  /\ status' = "QUEUED"
  /\ num_exes' = num_exes + 1

Start ==
  /\ status = "QUEUED"
  /\ status' = "RUNNING"
  /\ UNCHANGED num_exes

\* A job may end before it was seen to run.
End ==
  /\ status \in {"QUEUED", "RUNNING"}
  /\ status' \in {"COMPLETED", "FAILED"}
  /\ UNCHANGED num_exes

Cancel ==
  /\ status # "COMPLETED"
  /\ status' = "CANCELED"
  /\ UNCHANGED num_exes

Next == Wait \/ Queue \/ Start \/ End \/ Cancel

Spec == Init /\ [][Next]_<<status, num_exes>>
====

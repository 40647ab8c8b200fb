---------------------------- MODULE JobLifecycle ----------------------------
(***************************************************************************)
(* What the queue promises about a job, with no workers, leases, clock or  *)
(* reaper: a job is QUEUED, RUNNING once at a time, or over; a start costs *)
(* one of MaxTries tries, a push-back gives it back; what is over stays    *)
(* over unless a human revives or deletes it.  JobQueue implements this    *)
(* module as long as no handler outlives its lease.                        *)
(***************************************************************************)
EXTENDS Integers

CONSTANTS Jobs, MaxTries

VARIABLES status, tries
vars == <<status, tries>>

Init ==
  /\ status = [j \in Jobs |-> "ABSENT"]
  /\ tries = [j \in Jobs |-> 0]

\* Every job of S moves from one status to another; tries change by d.
Move(S, from, to, d) ==
  /\ \A j \in S : status[j] = from
  /\ status' = [j \in Jobs |-> IF j \in S THEN to ELSE status[j]]
  /\ tries' = [j \in Jobs |-> IF j \in S THEN tries[j] + d ELSE tries[j]]

Create(j)   == Move({j}, "ABSENT", "QUEUED", 0)
Start(S)    == (\A j \in S : tries[j] < MaxTries) /\ Move(S, "QUEUED", "RUNNING", 1)
Succeed(j)  == Move({j}, "RUNNING", "SUCCEEDED", 0)
GiveUp(j)   == Move({j}, "RUNNING", "DEAD", 0)
TryAgain(j) == tries[j] < MaxTries /\ Move({j}, "RUNNING", "QUEUED", 0)
PushBack(j) == Move({j}, "RUNNING", "QUEUED", -1)
Cancel(S)   == Move(S, "QUEUED", "CANCELLED", 0)
Revive(j)   == Move({j}, "DEAD", "QUEUED", -tries[j])

Delete(j) ==
  \E from \in {"QUEUED", "SUCCEEDED", "DEAD", "CANCELLED"} :
     Move({j}, from, "DELETED", -tries[j])

Next ==
  \/ \E j \in Jobs : \/ Create(j) \/ Succeed(j) \/ GiveUp(j) \/ TryAgain(j)
                     \/ PushBack(j) \/ Revive(j) \/ Delete(j)
  \/ \E S \in SUBSET Jobs : Start(S) \/ Cancel(S)

Spec == Init /\ [][Next]_vars
=============================================================================

--------------------------- MODULE JobQueueProofs ---------------------------
(***************************************************************************)
(* Proofs about JobQueue for any sets of jobs, workers, slots and keys and *)
(* any bounds.                                                             *)
(***************************************************************************)
EXTENDS JobQueue, FiniteSetTheorems, TLAPS

USE QueueAssumption

-----------------------------------------------------------------------------
(* Facts about single definitions. *)

\* A row whose lock columns were cleared is a row.
LEMMA UnlockedType ==
  ASSUME NEW r \in Row, NEW st \in Status, NEW n \in Int, NEW d \in 0..MaxDelay
  PROVE  Unlocked(r, st, n, d) \in Row
BY DEF Unlocked, Row

\* Counting down stays in range.
LEMMA CountDownType ==
  ASSUME NEW m \in Nat, NEW n \in 0..m
  PROVE  CountDown(n) \in 0..m
BY DEF CountDown

\* A busy slot holds a claimed job.
LEMMA BusySnapshot ==
  ASSUME TypeOK, NEW s \in Busy
  PROVE  s \in Slots /\ slot[s] \in Snapshot /\ slot[s].job \in Jobs
         /\ slot[s].attempts \in Int /\ row[slot[s].job] \in Row
BY DEF TypeOK, Busy, Snapshot

\* Every action but a claim, a reset and the passing of time, seen by type.
LEMMA SettleType ==
  ASSUME TypeOK, NEW s \in Busy, NEW r \in Row, Settle(s, r)
  PROVE  TypeOK'
<1>1. slot' \in [Slots -> Snapshot \cup {Idle}]
  BY DEF Settle, TypeOK
<1>2. row' \in [Jobs -> Row]
  BY BusySnapshot DEF Settle, TypeOK
<1>. QED
  BY <1>1, <1>2 DEF Settle, TypeOK

LEMMA FinishType ==
  ASSUME TypeOK, NEW s \in Slots, Finish(s)
  PROVE  TypeOK'
<1>. DEFINE r == row[slot[s].job]
<1>0. s \in Busy
  BY DEF Finish, complete, failRetryable, failFatal, rescheduleTo, LoseOutcome
<1>1. r \in Row /\ r.attempts \in Int /\ r.wait \in 0..MaxDelay
  BY <1>0, BusySnapshot DEF Row
<1>. HIDE DEF r
<1>2. CASE complete(s)
  <2>1. Unlocked(r, "SUCCEEDED", r.attempts, r.wait) \in Row
    BY <1>1, UnlockedType DEF Status, Present, Final
  <2>. QED
    BY <1>0, <1>2, <2>1, SettleType DEF complete, r
<1>3. CASE failRetryable(s)
  <2>1. /\ Unlocked(r, "DEAD", r.attempts, r.wait) \in Row
        /\ \A d \in 0..MaxDelay : Unlocked(r, "QUEUED", r.attempts, d) \in Row
    BY <1>1, UnlockedType DEF Status, Present, Final
  <2>. QED
    BY <1>0, <1>3, <2>1, SettleType DEF failRetryable, r
<1>4. CASE failFatal(s)
  <2>1. Unlocked(r, "DEAD", r.attempts, r.wait) \in Row
    BY <1>1, UnlockedType DEF Status, Present, Final
  <2>. QED
    BY <1>0, <1>4, <2>1, SettleType DEF failFatal, r
<1>5. CASE rescheduleTo(s)
  <2>1. \A d \in 1..MaxDelay : Unlocked(r, "QUEUED", r.attempts - 1, d) \in Row
    BY <1>1, UnlockedType DEF Status, Present, Final
  <2>. QED
    BY <1>0, <1>5, <2>1, SettleType DEF rescheduleTo, r
<1>6. CASE LoseOutcome(s)
  BY <1>6 DEF LoseOutcome, TypeOK
<1>. QED
  BY <1>2, <1>3, <1>4, <1>5, <1>6 DEF Finish

\* The claim of slots S with the assignment claim, as claimJobs writes it.
Claimed(w, S, claim) ==
  /\ row' = [j \in Jobs |->
       IF \E s \in S : claim[s] = j
       THEN Leased(row[j], w)
       ELSE row[j]]
  /\ slot' = [s \in Slots |->
       IF s \in S
       THEN [job |-> claim[s], attempts |-> row[claim[s]].attempts + 1]
       ELSE slot[s]]

LEMMA ClaimType ==
  ASSUME TypeOK, NEW w \in Workers, claimJobs(w)
  PROVE  TypeOK'
<1>1. PICK S \in (SUBSET FreeSlots(w)) \ {{}} :
        \E claim \in Injection(S, Due) : Claimed(w, S, claim)
  BY DEF claimJobs, Claimed
<1>0. PICK claim \in Injection(S, Due) : Claimed(w, S, claim)
  BY <1>1
<1>2. \A s \in S : claim[s] \in Jobs /\ row[claim[s]].attempts \in Int
  BY DEF Injection, Due, TypeOK, Row
<1>3. slot' \in [Slots -> Snapshot \cup {Idle}]
  BY <1>0, <1>2 DEF TypeOK, Snapshot, Claimed
<1>4. ASSUME NEW r \in Row
      PROVE  Leased(r, w) \in Row
  BY DEF Leased, Row, Status, Present
<1>5. row' \in [Jobs -> Row]
  BY <1>0, <1>4 DEF TypeOK, Claimed
<1>. QED
  BY <1>3, <1>5 DEF TypeOK, claimJobs

LEMMA TickType ==
  ASSUME TypeOK, Tick
  PROVE  TypeOK'
<1>1. ASSUME NEW r \in Row
      PROVE  Aged(r) \in Row
  <2>1. CountDown(r.wait) \in 0..MaxDelay /\ CountDown(r.lease) \in 0..LeaseTicks
    BY CountDownType DEF Row
  <2>. QED
    BY <2>1 DEF Aged, Row
<1>. QED
  BY <1>1 DEF Tick, TypeOK

LEMMA ReaperType ==
  ASSUME TypeOK, Reaper
  PROVE  TypeOK'
<1>1. CASE findExpiredRunning
  <2>1. \A j \in Expired : j \in Jobs /\ row[j].attempts \in Int
    BY DEF Expired, TypeOK, Row
  <2>. QED
    BY <1>1, <2>1 DEF findExpiredRunning, TypeOK, Snapshot
<1>2. ASSUME NEW e \in found, resetExpiredLease(e)
      PROVE  TypeOK'
  <2>1. e.job \in Jobs
    BY DEF TypeOK, Snapshot
  <2>2. ASSUME NEW st \in {"DEAD", "QUEUED"}
        PROVE  Unlocked(row[e.job], st, row[e.job].attempts, row[e.job].wait) \in Row
    BY <2>1, UnlockedType DEF TypeOK, Row, Status, Present, Final
  <2>. QED
    BY <1>2, <2>1, <2>2 DEF resetExpiredLease, TypeOK
<1>3. CASE AbandonTick
  BY <1>3 DEF AbandonTick, TypeOK
<1>. QED
  BY <1>1, <1>2, <1>3 DEF Reaper

LEMMA HumanType ==
  ASSUME TypeOK, Human
  PROVE  TypeOK'
<1>1. ASSUME NEW j \in Jobs, runNow(j)
      PROVE  TypeOK'
  BY <1>1 DEF runNow, TypeOK, Row
<1>2. ASSUME NEW j \in Jobs, remove(j)
      PROVE  TypeOK'
  BY <1>2 DEF remove, TypeOK, Row, Blank, Status
<1>3. ASSUME NEW j \in Jobs, retryDeadJob(j)
      PROVE  TypeOK'
  <2>0. ASSUME NEW r \in Row
        PROVE  Revived(r) \in Row
    BY DEF Revived, Row, Status, Present
  <2>1. Revived(row[j]) \in Row
    BY <2>0 DEF TypeOK
  <2>. QED
    BY <1>3, <2>1 DEF retryDeadJob, TypeOK
<1>4. ASSUME NEW S, CancelQueued(S)
      PROVE  TypeOK'
  BY <1>4 DEF CancelQueued, TypeOK, Row, Status, Present, Final
<1>. QED
  BY <1>1, <1>2, <1>3, <1>4
  DEF Human, cancelQueuedForRun, cancelQueuedForAccount

LEMMA InitType == Init => TypeOK
BY DEF Init, TypeOK, Row, Blank, Status

LEMMA NextType ==
  ASSUME TypeOK, [Next]_vars
  PROVE  TypeOK'
<1>1. ASSUME NEW j \in Jobs, enqueueJob(j)
      PROVE  TypeOK'
  BY <1>1 DEF enqueueJob, TypeOK, Row, Status, Present
<1>2. ASSUME NEW w \in Workers, Lifecycle(w)
      PROVE  TypeOK'
  BY <1>2 DEF Lifecycle, requestShutdown, LeaveLoop, waitForDrain, Crash,
              Restart, TypeOK
<1>3. CASE UNCHANGED vars
  BY <1>3 DEF vars, TypeOK
<1>. QED
  BY <1>1, <1>2, <1>3, ClaimType, FinishType, ReaperType, HumanType, TickType
  DEF Next

\* The rows, the handlers' snapshots, the workers' modes and the reaper's list
\* keep their types, whatever runs past its lease.
THEOREM QueueTypeOK == Spec => []TypeOK
BY InitType, NextType, PTL DEF Spec

-----------------------------------------------------------------------------
(* The lock columns, for every value of LeaseOverrun.                       *)

\* One row's part of LockIffRunning.
RowLock(r) ==
  /\ r.status = "RUNNING" <=> r.lockedBy # None
  /\ r.status # "RUNNING" => r.lease = 0

\* A row an action wrote is the old one, an unlocked one that is not RUNNING,
\* a leased one, an aged one, or a row that was not RUNNING and still is not,
\* with its lock columns untouched.
RowStep(j) ==
  \/ row'[j] = row[j]
  \/ \E st \in Status \ {"RUNNING"}, n \in Int, d \in 0..MaxDelay :
       row'[j] = Unlocked(row[j], st, n, d)
  \/ \E w \in Workers : row'[j] = Leased(row[j], w)
  \/ row'[j] = Aged(row[j])
  \/ /\ row[j].status # "RUNNING" /\ row'[j].status # "RUNNING"
     /\ row'[j].lockedBy = row[j].lockedBy /\ row'[j].lease = row[j].lease

LEMMA FinishRowStep ==
  ASSUME TypeOK, NEW s \in Slots, Finish(s), NEW j \in Jobs
  PROVE  RowStep(j)
<1>. DEFINE r == row[slot[s].job]
<1>0. s \in Busy
  BY DEF Finish, complete, failRetryable, failFatal, rescheduleTo, LoseOutcome
<1>1. r \in Row /\ r.attempts \in Int /\ r.wait \in 0..MaxDelay /\ slot[s].job \in Jobs
  BY <1>0, BusySnapshot DEF Row
<1>2. ASSUME NEW st \in {"SUCCEEDED", "DEAD", "QUEUED"}, NEW n \in Int,
             NEW d \in 0..MaxDelay, Settle(s, Unlocked(r, st, n, d))
      PROVE  RowStep(j)
  <2>1. st \in Status \ {"RUNNING"}
    BY DEF Status, Present, Final
  <2>2. \/ row' = row
        \/ row' = [row EXCEPT ![slot[s].job] = Unlocked(r, st, n, d)]
    BY <1>2 DEF Settle
  <2>3. row'[j] = row[j] \/ (j = slot[s].job /\ row'[j] = Unlocked(r, st, n, d))
    BY <2>2, <1>1 DEF TypeOK
  <2>. QED
    BY <2>1, <2>3 DEF RowStep
<1>3. CASE LoseOutcome(s)
  BY <1>3 DEF LoseOutcome, RowStep
<1>4. CASE complete(s)
  BY <1>1, <1>2, <1>4 DEF complete
<1>5. CASE failRetryable(s)
  BY <1>1, <1>2, <1>5 DEF failRetryable
<1>6. CASE failFatal(s)
  BY <1>1, <1>2, <1>6 DEF failFatal
<1>7. CASE rescheduleTo(s)
  BY <1>1, <1>2, <1>7 DEF rescheduleTo
<1>. QED
  BY <1>3, <1>4, <1>5, <1>6, <1>7 DEF Finish

LEMMA NextRowStep ==
  ASSUME TypeOK, [Next]_vars, NEW j \in Jobs
  PROVE  RowStep(j)
<1>1. ASSUME NEW k \in Jobs, enqueueJob(k)
      PROVE  RowStep(j)
  BY <1>1 DEF enqueueJob, RowStep, TypeOK, Row
<1>2. ASSUME NEW w \in Workers, claimJobs(w)
      PROVE  RowStep(j)
  <2>1. PICK S \in (SUBSET FreeSlots(w)) \ {{}} :
          \E claim \in Injection(S, Due) : Claimed(w, S, claim)
    BY <1>2 DEF claimJobs, Claimed
  <2>2. row'[j] \in {row[j], Leased(row[j], w)}
    BY <2>1 DEF Claimed
  <2>. QED
    BY <2>2 DEF RowStep
<1>3. ASSUME NEW w \in Workers, Lifecycle(w)
      PROVE  RowStep(j)
  BY <1>3 DEF Lifecycle, requestShutdown, LeaveLoop, waitForDrain, Crash,
              Restart, RowStep
<1>4. CASE Reaper
  <2>1. ASSUME NEW e \in found, resetExpiredLease(e)
        PROVE  RowStep(j)
    <3>1. e.job \in Jobs
      BY DEF TypeOK, Snapshot
    <3>2. row[j].attempts \in Int /\ row[j].wait \in 0..MaxDelay
      BY DEF TypeOK, Row
    <3>3. {"DEAD", "QUEUED"} \subseteq Status \ {"RUNNING"}
      BY DEF Status, Present, Final
    <3>. QED
      BY <2>1, <3>1, <3>2, <3>3 DEF resetExpiredLease, RowStep, TypeOK
  <2>. QED
    BY <1>4, <2>1 DEF Reaper, findExpiredRunning, AbandonTick, RowStep
<1>5. CASE Human
  <2>1. ASSUME NEW k \in Jobs, runNow(k)
        PROVE  RowStep(j)
    BY <2>1 DEF runNow, RowStep, TypeOK, Row
  <2>2. ASSUME NEW k \in Jobs, remove(k)
        PROVE  RowStep(j)
    <3>1. [Blank EXCEPT !.status = "DELETED"] = Unlocked(row[j], "DELETED", 0, 0)
      BY DEF Blank, Unlocked
    <3>2. "DELETED" \in Status \ {"RUNNING"}
      BY DEF Status
    <3>3. row'[j] = row[j] \/ row'[j] = Unlocked(row[j], "DELETED", 0, 0)
      BY <2>2, <3>1 DEF remove, TypeOK
    <3>. QED
      BY <3>2, <3>3 DEF RowStep
  <2>3. ASSUME NEW k \in Jobs, retryDeadJob(k)
        PROVE  RowStep(j)
    BY <2>3 DEF retryDeadJob, Revived, RowStep, TypeOK, Row
  <2>4. ASSUME NEW S, CancelQueued(S)
        PROVE  RowStep(j)
    BY <2>4 DEF CancelQueued, RowStep, TypeOK, Row
  <2>. QED
    BY <1>5, <2>1, <2>2, <2>3, <2>4
    DEF Human, cancelQueuedForRun, cancelQueuedForAccount
<1>6. CASE Tick
  BY <1>6 DEF Tick, RowStep
<1>7. CASE UNCHANGED vars
  BY <1>7 DEF vars, RowStep
<1>. QED
  BY <1>1, <1>2, <1>3, <1>4, <1>5, <1>6, <1>7, FinishRowStep DEF Next

\* Whatever handler overruns, a row is locked exactly while it is RUNNING.
THEOREM QueueLockIffRunning == Spec => []LockIffRunning
<1>1. Init => LockIffRunning
  BY DEF Init, LockIffRunning, Blank
<1>2. TypeOK /\ LockIffRunning /\ [Next]_vars => LockIffRunning'
  <2>1. SUFFICES ASSUME TypeOK, LockIffRunning, [Next]_vars, NEW j \in Jobs
                 PROVE  RowLock(row'[j])
    BY DEF LockIffRunning, RowLock
  <2>2. RowStep(j) /\ RowLock(row[j]) /\ row[j] \in Row
    BY <2>1, NextRowStep DEF LockIffRunning, RowLock, TypeOK
  <2>3. RowLock(Aged(row[j]))
    BY <2>2 DEF RowLock, Aged, CountDown, Row
  <2>4. \A st \in Status \ {"RUNNING"}, n \in Int, d \in 0..MaxDelay :
          RowLock(Unlocked(row[j], st, n, d))
    BY DEF RowLock, Unlocked
  <2>5. \A w \in Workers : RowLock(Leased(row[j], w))
    BY DEF RowLock, Leased
  <2>. QED
    BY <2>2, <2>3, <2>4, <2>5 DEF RowStep, RowLock
<1>. QED
  BY <1>1, <1>2, QueueTypeOK, PTL DEF Spec

-----------------------------------------------------------------------------
(* The invariant of leases that outlast their handlers.                     *)

\* One row's part of AttemptBudget.
RowBudget(r) ==
  /\ r.attempts \in 0..MaxAttempts
  /\ r.status = "QUEUED" => r.attempts < MaxAttempts
  /\ r.status = "RUNNING" => r.attempts > 0

\* An action that leaves RUNNING rows alone, starts no handler and lists no
\* new row for the reaper keeps the invariant if the rows it writes do.
LEMMA QuietInv ==
  ASSUME TypeOK, LeaseInv, UniqueKeys', found' \subseteq found,
         \A s \in Slots : slot'[s] \in {slot[s], Idle},
         \A j \in Jobs :
            \/ row'[j] = row[j]
            \/ /\ row[j].status # "RUNNING" /\ row'[j].status # "RUNNING"
               /\ row'[j].status # "ABSENT" /\ RowBudget(row'[j])
  PROVE  LeaseInv'
<1>1. \A j \in Jobs : row[j].status = "RUNNING" => row'[j] = row[j]
  OBVIOUS
<1>2. \A s \in Busy' : s \in Busy /\ slot'[s] = slot[s] /\ slot[s].job \in Jobs
  BY BusySnapshot DEF Busy
<1>3. HandlerHoldsRow'
  BY <1>1, <1>2 DEF HandlerHoldsRow, LeaseInv
<1>4. \A s, t \in Busy' : s # t => slot'[s].job # slot'[t].job
  BY <1>2 DEF LeaseInv
<1>5. \A j \in Jobs : row'[j].status = "ABSENT" => row'[j].attempts = 0
  BY DEF LeaseInv
<1>6. AttemptBudget'
  BY DEF AttemptBudget, LeaseInv, RowBudget
<1>7. \A e \in found' : e.job \in Expired' /\ row'[e.job].attempts = e.attempts
  <2>1. \A e \in found : e.job \in Expired /\ row[e.job].attempts = e.attempts
    BY DEF ReaperListIsCurrent, LeaseInv
  <2>. QED
    BY <1>1, <2>1 DEF Expired
<1>. QED
  BY <1>3, <1>4, <1>5, <1>6, <1>7 DEF LeaseInv, ReaperListIsCurrent

\* No row comes into existence: keys stay unique.
LEMMA KeysKept ==
  ASSUME UniqueKeys,
         \A j \in Jobs : row'[j].status \in Present => row[j].status \in Present
  PROVE  UniqueKeys'
BY DEF UniqueKeys

LEMMA SettleInv ==
  ASSUME TypeOK, LeaseInv, NEW s \in Busy, NEW r \in Row, Settle(s, r),
         r.status \in Final \cup {"QUEUED"}, RowBudget(r)
  PROVE  LeaseInv'
<1>. DEFINE j == slot[s].job
<1>1. j \in Jobs /\ s \in Slots
  BY BusySnapshot
<1>2. row[j].status = "RUNNING" /\ row[j].lease > 0
  BY DEF LeaseInv, HandlerHoldsRow
<1>3. row' = [row EXCEPT ![j] = r] /\ slot' = [slot EXCEPT ![s] = Idle] /\ found' = found
  BY <1>2 DEF Settle, Present
<1>4. /\ row'[j] = r /\ \A k \in Jobs \ {j} : row'[k] = row[k]
      /\ slot'[s] = Idle /\ \A t \in Slots \ {s} : slot'[t] = slot[t]
  BY <1>1, <1>3 DEF TypeOK
<1>. HIDE DEF j
<1>5. \A t \in Busy' : /\ t \in Busy /\ t # s /\ slot'[t] = slot[t]
                       /\ slot[t].job \in Jobs /\ slot[t].job # j
  BY <1>4, BusySnapshot DEF Busy, LeaseInv, j
<1>6. HandlerHoldsRow'
  BY <1>4, <1>5 DEF HandlerHoldsRow, LeaseInv
<1>7. \A t, u \in Busy' : t # u => slot'[t].job # slot'[u].job
  BY <1>5 DEF LeaseInv
<1>8. UniqueKeys'
  BY <1>1, <1>2, <1>4, KeysKept DEF Present, LeaseInv
<1>9. \A k \in Jobs : row'[k].status = "ABSENT" => row'[k].attempts = 0
  BY <1>4 DEF LeaseInv, Final
<1>10. AttemptBudget'
  BY <1>1, <1>4 DEF AttemptBudget, LeaseInv, RowBudget
<1>11. ReaperListIsCurrent'
  <2>1. \A e \in found : /\ e.job \in Jobs /\ e.job # j /\ e.job \in Expired
                         /\ row[e.job].attempts = e.attempts
    BY <1>2 DEF ReaperListIsCurrent, LeaseInv, Expired
  <2>. QED
    BY <1>3, <1>4, <2>1 DEF ReaperListIsCurrent, Expired
<1>. QED
  BY <1>6, <1>7, <1>8, <1>9, <1>10, <1>11 DEF LeaseInv

LEMMA FinishInv ==
  ASSUME TypeOK, LeaseInv, NEW s \in Slots, Finish(s)
  PROVE  LeaseInv'
<1>. DEFINE r == row[slot[s].job]
<1>0. s \in Busy
  BY DEF Finish, complete, failRetryable, failFatal, rescheduleTo, LoseOutcome
<1>1. /\ r \in Row /\ r.attempts \in Int /\ r.wait \in 0..MaxDelay
      /\ slot[s].job \in Jobs /\ slot[s].attempts = r.attempts
      /\ r.attempts \in 1..MaxAttempts
  BY <1>0, BusySnapshot DEF Row, LeaseInv, HandlerHoldsRow, AttemptBudget
<1>. HIDE DEF r
<1>2. ASSUME NEW st \in Final \cup {"QUEUED"}, NEW n \in 0..MaxAttempts,
             NEW d \in 0..MaxDelay, st = "QUEUED" => n < MaxAttempts,
             Settle(s, Unlocked(r, st, n, d))
      PROVE  LeaseInv'
  <2>0. st \in Status /\ n \in Int
    BY DEF Status, Present
  <2>1. Unlocked(r, st, n, d) \in Row
    BY <1>1, <2>0, UnlockedType
  <2>2. /\ Unlocked(r, st, n, d).status \in Final \cup {"QUEUED"}
        /\ RowBudget(Unlocked(r, st, n, d))
    <3>1. Unlocked(r, st, n, d).status = st /\ Unlocked(r, st, n, d).attempts = n
      BY DEF Unlocked
    <3>2. st # "RUNNING"
      BY DEF Final
    <3>. QED
      BY <1>2, <3>1, <3>2 DEF RowBudget
  <2>. QED
    BY <1>0, <1>2, <2>1, <2>2, SettleInv
<1>3. CASE complete(s)
  BY <1>1, <1>2, <1>3 DEF complete, r, Final
<1>4. CASE failRetryable(s)
  BY <1>1, <1>2, <1>4 DEF failRetryable, r, Final
<1>5. CASE failFatal(s)
  BY <1>1, <1>2, <1>5 DEF failFatal, r, Final
<1>6. CASE rescheduleTo(s)
  BY <1>1, <1>2, <1>6 DEF rescheduleTo, r, Final
<1>7. CASE LoseOutcome(s)
  <2>1. UniqueKeys'
    BY <1>7, KeysKept DEF LoseOutcome, LeaseInv
  <2>. QED
    BY <1>7, <2>1, QuietInv DEF LoseOutcome, TypeOK
<1>. QED
  BY <1>3, <1>4, <1>5, <1>6, <1>7 DEF Finish

LEMMA ClaimInv ==
  ASSUME TypeOK, LeaseInv, NEW w \in Workers, claimJobs(w)
  PROVE  LeaseInv'
<1>1. PICK S \in (SUBSET FreeSlots(w)) \ {{}} :
        \E claim \in Injection(S, Due) : Claimed(w, S, claim)
  BY DEF claimJobs, Claimed
<1>2. PICK claim \in Injection(S, Due) : Claimed(w, S, claim)
  BY <1>1
<1>3. \A s \in S : /\ s \in Slots /\ WorkerOf[s] = w /\ slot[s] = Idle
                   /\ claim[s] \in Jobs /\ row[claim[s]].status = "QUEUED"
                   /\ row[claim[s]] \in Row
  BY DEF FreeSlots, Injection, Due, TypeOK
<1>4. \A s, t \in S : s # t => claim[s] # claim[t]
  BY DEF Injection, IsInjective
<1>5. \A j \in Jobs : row[j].status # "QUEUED" => row'[j] = row[j]
  BY <1>2, <1>3 DEF Claimed
<1>6. \A s \in S : /\ row'[claim[s]] = Leased(row[claim[s]], w)
                   /\ slot'[s].job = claim[s]
                   /\ slot'[s].attempts = row[claim[s]].attempts + 1
  BY <1>2, <1>3 DEF Claimed
<1>7. \A j \in Jobs :
        \/ row'[j] = row[j]
        \/ (row[j].status = "QUEUED" /\ row'[j] = Leased(row[j], w))
  BY <1>2, <1>3 DEF Claimed
<1>8. \A s \in Busy' : s \in Slots /\ (s \in S \/ (s \in Busy /\ slot'[s] = slot[s]))
  BY <1>2 DEF Claimed, Busy
<1>9. \A s \in Busy : slot[s].job \in Jobs /\ row[slot[s].job].status = "RUNNING"
  BY BusySnapshot DEF LeaseInv, HandlerHoldsRow
<1>10. HandlerHoldsRow'
  <2>1. SUFFICES ASSUME NEW s \in Busy'
                 PROVE  LET r == row'[slot'[s].job] IN
                        /\ r.status = "RUNNING" /\ r.lockedBy = WorkerOf[s]
                        /\ r.attempts = slot'[s].attempts /\ r.lease > 0
    BY DEF HandlerHoldsRow
  <2>2. CASE s \in S
    <3>1. /\ WorkerOf[s] = w /\ slot'[s].job = claim[s]
          /\ slot'[s].attempts = row[claim[s]].attempts + 1
          /\ row'[claim[s]] = Leased(row[claim[s]], w)
      BY <2>2, <1>3, <1>6
    <3>2. /\ Leased(row[claim[s]], w).status = "RUNNING"
          /\ Leased(row[claim[s]], w).lockedBy = w
          /\ Leased(row[claim[s]], w).attempts = row[claim[s]].attempts + 1
          /\ Leased(row[claim[s]], w).lease > 0
      BY DEF Leased
    <3>. QED
      BY <3>1, <3>2
  <2>3. CASE s \in Busy /\ slot'[s] = slot[s]
    BY <2>3, <1>5, <1>9 DEF LeaseInv, HandlerHoldsRow
  <2>. QED
    BY <1>8, <2>2, <2>3
<1>11. \A s, t \in Busy' : s # t => slot'[s].job # slot'[t].job
  <2>1. \A s \in S : slot'[s].job = claim[s] /\ row[claim[s]].status = "QUEUED"
    BY <1>3, <1>6
  <2>2. \A s, t \in Busy : s # t => slot[s].job # slot[t].job
    BY DEF LeaseInv
  <2>. QED
    BY <1>4, <1>8, <1>9, <2>1, <2>2
<1>12. UniqueKeys'
  <2>1. \A j \in Jobs : row'[j].status \in Present => row[j].status \in Present
    BY <1>7 DEF Present
  <2>. QED
    BY <2>1, KeysKept DEF LeaseInv
<1>13. \A j \in Jobs : row'[j].status = "ABSENT" => row'[j].attempts = 0
  <2>1. \A j \in Jobs : Leased(row[j], w).status # "ABSENT"
    BY DEF Leased
  <2>. QED
    BY <1>7, <2>1 DEF LeaseInv
<1>14. AttemptBudget'
  <2>1. \A j \in Jobs : RowBudget(row'[j])
    <3>1. ASSUME NEW j \in Jobs, row[j].status = "QUEUED"
          PROVE  RowBudget(Leased(row[j], w))
      BY <3>1 DEF LeaseInv, AttemptBudget, RowBudget, Leased
    <3>. QED
      BY <1>7, <3>1 DEF LeaseInv, AttemptBudget, RowBudget
  <2>. QED
    BY <2>1 DEF AttemptBudget, RowBudget
<1>15. ReaperListIsCurrent'
  <2>1. \A e \in found : e.job \in Expired /\ row[e.job].attempts = e.attempts
    BY DEF LeaseInv, ReaperListIsCurrent
  <2>2. found' = found
    BY DEF claimJobs
  <2>. QED
    BY <1>5, <2>1, <2>2 DEF ReaperListIsCurrent, Expired
<1>. QED
  BY <1>10, <1>11, <1>12, <1>13, <1>14, <1>15 DEF LeaseInv

LEMMA ResetInv ==
  ASSUME TypeOK, LeaseInv, NEW e \in found, resetExpiredLease(e)
  PROVE  LeaseInv'
<1>. DEFINE j == e.job
            st == IF e.attempts >= MaxAttempts THEN "DEAD" ELSE "QUEUED"
            r == Unlocked(row[j], st, row[j].attempts, row[j].wait)
<1>1. /\ j \in Jobs /\ row[j] \in Row /\ row[j].status = "RUNNING"
      /\ row[j].lease = 0 /\ e.attempts = row[j].attempts
      /\ row[j].attempts \in 0..MaxAttempts
  BY DEF TypeOK, Snapshot, LeaseInv, ReaperListIsCurrent, Expired, AttemptBudget
<1>2. row' = [row EXCEPT ![j] = r] /\ found' = found \ {e} /\ slot' = slot
  BY <1>1 DEF resetExpiredLease, Present
<1>3. row'[j] = r /\ \A k \in Jobs \ {j} : row'[k] = row[k]
  BY <1>1, <1>2 DEF TypeOK
<1>4. /\ r.status \in {"DEAD", "QUEUED"} /\ RowBudget(r)
  BY <1>1 DEF Unlocked, RowBudget
<1>. HIDE DEF r, j
<1>5. Busy' = Busy /\ \A s \in Busy : slot[s].job \in Jobs \ {j}
  BY <1>1, <1>2, BusySnapshot DEF Busy, LeaseInv, HandlerHoldsRow
<1>6. HandlerHoldsRow'
  BY <1>2, <1>3, <1>5 DEF HandlerHoldsRow, LeaseInv
<1>7. \A s, t \in Busy' : s # t => slot'[s].job # slot'[t].job
  BY <1>2, <1>5 DEF LeaseInv
<1>8. UniqueKeys'
  BY <1>1, <1>3, KeysKept DEF Present, LeaseInv
<1>9. \A k \in Jobs : row'[k].status = "ABSENT" => row'[k].attempts = 0
  BY <1>3, <1>4 DEF LeaseInv
<1>10. AttemptBudget'
  BY <1>3, <1>4 DEF AttemptBudget, RowBudget, LeaseInv
<1>11. ReaperListIsCurrent'
  <2>1. ASSUME NEW f \in found'
        PROVE  /\ f.job \in Jobs \ {j} /\ f.job \in Expired
               /\ row[f.job].attempts = f.attempts
    <3>1. f \in found /\ f # e /\ f \in Snapshot /\ e \in Snapshot
      BY <1>2 DEF TypeOK
    <3>2. f.job \in Expired /\ row[f.job].attempts = f.attempts
      BY <3>1 DEF LeaseInv, ReaperListIsCurrent
    <3>3. f.job # j
      BY <1>1, <3>1, <3>2 DEF Snapshot, j
    <3>. QED
      BY <3>1, <3>2, <3>3 DEF Snapshot
  <2>. QED
    BY <1>3, <2>1 DEF ReaperListIsCurrent, Expired
<1>. QED
  BY <1>6, <1>7, <1>8, <1>9, <1>10, <1>11 DEF LeaseInv

LEMMA EnqueueInv ==
  ASSUME TypeOK, LeaseInv, NEW j \in Jobs, enqueueJob(j)
  PROVE  LeaseInv'
<1>1. /\ row'[j].status = "QUEUED" /\ row'[j].attempts = row[j].attempts
      /\ \A k \in Jobs \ {j} : row'[k] = row[k]
  BY DEF enqueueJob, TypeOK, Row
<1>2. UniqueKeys'
  <2>1. \A k \in Jobs \ {j} : row'[k].status \in Present /\ KeyOf[j] # None
                                => KeyOf[k] # KeyOf[j]
    BY <1>1 DEF enqueueJob, KeyTaken
  <2>. QED
    BY <1>1, <2>1 DEF UniqueKeys, LeaseInv
<1>3. RowBudget(row'[j])
  BY <1>1 DEF enqueueJob, RowBudget, LeaseInv
<1>. QED
  BY <1>1, <1>2, <1>3, QuietInv DEF enqueueJob

\* What a human action may do: rows that exist and do not run are rewritten
\* within their budget, or deleted.
RestingRowsStep ==
  /\ slot' = slot /\ found' = found
  /\ \A j \in Jobs :
       \/ row'[j] = row[j]
       \/ /\ row[j].status \in Present \ {"RUNNING"}
          /\ row'[j].status \in (Present \cup {"DELETED"}) \ {"RUNNING"}
          /\ RowBudget(row'[j])

LEMMA HumanInv ==
  ASSUME TypeOK, LeaseInv, Human
  PROVE  LeaseInv'
<1>1. RestingRowsStep
  <2>0. \A j \in Jobs : RowBudget(row[j])
    BY DEF LeaseInv, AttemptBudget, RowBudget
  <2>1. ASSUME NEW k \in Jobs, runNow(k)
        PROVE  RestingRowsStep
    <3>1. /\ row'[k].status = "QUEUED" /\ row'[k].attempts = row[k].attempts
          /\ \A j \in Jobs \ {k} : row'[j] = row[j]
      BY <2>1 DEF runNow, TypeOK, Row
    <3>. QED
      BY <2>0, <2>1, <3>1 DEF runNow, RowBudget, Present, RestingRowsStep
  <2>2. ASSUME NEW k \in Jobs, remove(k)
        PROVE  RestingRowsStep
    <3>1. /\ row'[k].status = "DELETED" /\ row'[k].attempts = 0
          /\ \A j \in Jobs \ {k} : row'[j] = row[j]
      BY <2>2 DEF remove, Blank, TypeOK
    <3>. QED
      BY <2>2, <3>1 DEF remove, RowBudget, RestingRowsStep
  <2>3. ASSUME NEW k \in Jobs, retryDeadJob(k)
        PROVE  RestingRowsStep
    <3>1. /\ row'[k].status = "QUEUED" /\ row'[k].attempts = 0
          /\ \A j \in Jobs \ {k} : row'[j] = row[j]
      BY <2>3 DEF retryDeadJob, Revived, TypeOK
    <3>. QED
      BY <2>3, <3>1 DEF retryDeadJob, RowBudget, Present, Final,
                              RestingRowsStep
  <2>4. ASSUME NEW S, CancelQueued(S)
        PROVE  RestingRowsStep
    <3>1. \A j \in Jobs :
            \/ row'[j] = row[j]
            \/ /\ row[j].status = "QUEUED" /\ row'[j].status = "CANCELLED"
               /\ row'[j].attempts = row[j].attempts
      BY <2>4 DEF CancelQueued, TypeOK, Row
    <3>. QED
      BY <2>0, <2>4, <3>1 DEF CancelQueued, RowBudget, Present, Final,
                              RestingRowsStep
  <2>. QED
    BY <2>1, <2>2, <2>3, <2>4 DEF Human, cancelQueuedForRun, cancelQueuedForAccount
<1>2. UniqueKeys'
  BY <1>1, KeysKept DEF LeaseInv, RestingRowsStep
<1>. QED
  BY <1>1, <1>2, QuietInv DEF RestingRowsStep, Present, Final

LEMMA LifecycleInv ==
  ASSUME TypeOK, LeaseInv, NEW w \in Workers, Lifecycle(w)
  PROVE  LeaseInv'
<1>1. row' = row /\ found' = found /\ \A s \in Slots : slot'[s] \in {slot[s], Idle}
  BY DEF Lifecycle, requestShutdown, LeaveLoop, waitForDrain, Crash, Restart
<1>. QED
  BY <1>1, KeysKept, QuietInv DEF LeaseInv

LEMMA ReaperInv ==
  ASSUME TypeOK, LeaseInv, Reaper
  PROVE  LeaseInv'
<1>1. CASE findExpiredRunning
  <2>1. row' = row /\ slot' = slot
    BY <1>1 DEF findExpiredRunning
  <2>2. ReaperListIsCurrent'
    BY <1>1 DEF findExpiredRunning, ReaperListIsCurrent, Expired
  <2>. QED
    BY <2>1, <2>2 DEF LeaseInv, HandlerHoldsRow, AttemptBudget, UniqueKeys, Busy
<1>2. CASE AbandonTick
  BY <1>2, KeysKept, QuietInv DEF AbandonTick, LeaseInv
<1>. QED
  BY <1>1, <1>2, ResetInv DEF Reaper

LEMMA TickInv ==
  ASSUME TypeOK, LeaseInv, Tick, ~LeaseOverrun
  PROVE  LeaseInv'
<1>1. \A j \in Jobs : /\ row[j] \in Row /\ row[j].lease \in Nat
                      /\ row'[j] = Aged(row[j])
  BY DEF Tick, TypeOK, Row
<1>2. ASSUME NEW r \in Row
      PROVE  /\ Aged(r).status = r.status /\ Aged(r).attempts = r.attempts
             /\ Aged(r).lockedBy = r.lockedBy
             /\ Aged(r).lease = CountDown(r.lease)
  BY DEF Aged, Row
<1>3. \A j \in Jobs : /\ row'[j].status = row[j].status
                      /\ row'[j].attempts = row[j].attempts
                      /\ row'[j].lockedBy = row[j].lockedBy
                      /\ row'[j].lease = CountDown(row[j].lease)
  BY <1>1, <1>2
<1>4. slot' = slot /\ found' = found /\ Busy' = Busy
  BY DEF Tick, Busy
<1>5. \A s \in Busy : slot[s].job \in Jobs /\ row'[slot[s].job].lease > 0
  BY <1>1, <1>3, BusySnapshot DEF Tick, CountDown
<1>6. HandlerHoldsRow'
  BY <1>3, <1>4, <1>5 DEF HandlerHoldsRow, LeaseInv
<1>7. UniqueKeys' /\ AttemptBudget'
        /\ \A j \in Jobs : row'[j].status = "ABSENT" => row'[j].attempts = 0
  BY <1>3 DEF LeaseInv, UniqueKeys, AttemptBudget
<1>8. ReaperListIsCurrent'
  BY <1>3, <1>4 DEF LeaseInv, ReaperListIsCurrent, Expired, CountDown
<1>. QED
  BY <1>4, <1>6, <1>7, <1>8 DEF LeaseInv

LEMMA NextLeaseInv ==
  ASSUME TypeOK, LeaseInv, [Next]_vars, ~LeaseOverrun
  PROVE  LeaseInv'
<1>1. CASE UNCHANGED vars
  BY <1>1, KeysKept, QuietInv DEF vars, LeaseInv
<1>. QED
  BY <1>1, EnqueueInv, ClaimInv, LifecycleInv, FinishInv, ReaperInv, HumanInv,
     TickInv
  DEF Next

\* With leases that outlast their handlers, the invariant holds of every
\* reachable state: crashes, restarts, lost outcomes, the reaper and the human
\* actions never take a row from the handler that works on it.
THEOREM QueueLeaseInv ==
  ASSUME ~LeaseOverrun
  PROVE  Spec => [](TypeOK /\ LeaseInv)
<1>1. Init => LeaseInv
  BY DEF Init, LeaseInv, HandlerHoldsRow, UniqueKeys, AttemptBudget,
         ReaperListIsCurrent, Busy, Blank, Present, Final
<1>2. TypeOK /\ LeaseInv /\ [Next]_vars => LeaseInv'
  BY NextLeaseInv
<1>. QED
  BY <1>1, <1>2, QueueTypeOK, PTL DEF Spec

\* No job, and no idempotency key, is executed twice at once.
THEOREM QueueNoDoubleExecution ==
  ASSUME ~LeaseOverrun
  PROVE  Spec => []NoDoubleExecution
<1>1. TypeOK /\ LeaseInv => NoDoubleExecution
  <2>1. SUFFICES ASSUME TypeOK, LeaseInv, NEW s \in Busy, NEW t \in Busy, s # t
                 PROVE  /\ slot[s].job # slot[t].job
                        /\ \/ KeyOf[slot[s].job] = None
                           \/ KeyOf[slot[s].job] # KeyOf[slot[t].job]
    BY DEF NoDoubleExecution
  <2>2. /\ slot[s].job \in Jobs /\ row[slot[s].job].status \in Present
        /\ slot[t].job \in Jobs /\ row[slot[t].job].status \in Present
    BY <2>1, BusySnapshot DEF LeaseInv, HandlerHoldsRow, Present
  <2>3. slot[s].job # slot[t].job
    BY <2>1 DEF LeaseInv
  <2>. QED
    BY <2>1, <2>2, <2>3 DEF LeaseInv, UniqueKeys
<1>. QED
  BY <1>1, QueueLeaseInv, PTL

\* A running handler keeps its row, its attempt and its lease.
THEOREM QueueHandlerHoldsRow ==
  ASSUME ~LeaseOverrun
  PROVE  Spec => []HandlerHoldsRow
<1>1. LeaseInv => HandlerHoldsRow
  BY DEF LeaseInv
<1>. QED
  BY <1>1, QueueLeaseInv, PTL

\* The attempt counter stays a budget.
THEOREM QueueAttemptBudget ==
  ASSUME ~LeaseOverrun
  PROVE  Spec => []AttemptBudget
<1>1. LeaseInv => AttemptBudget
  BY DEF LeaseInv
<1>. QED
  BY <1>1, QueueLeaseInv, PTL

\* What the reaper read is still so when it writes.
THEOREM QueueReaperListIsCurrent ==
  ASSUME ~LeaseOverrun
  PROVE  Spec => []ReaperListIsCurrent
<1>1. LeaseInv => ReaperListIsCurrent
  BY DEF LeaseInv
<1>. QED
  BY <1>1, QueueLeaseInv, PTL

-----------------------------------------------------------------------------
(* The lease, as a property of steps.                                       *)

\* Only a handler's own Settle makes a row under a live lease stop RUNNING.
LEMMA SettleOnly ==
  ASSUME TypeOK, LeaseInv, [Next]_vars, NEW j \in Jobs,
         row[j].status = "RUNNING", row[j].lease > 0, row'[j].status # "RUNNING"
  PROVE  \E s \in Busy : slot[s].job = j /\ slot'[s] = Idle
<1>1. ASSUME NEW s \in Slots, Finish(s)
      PROVE  \E t \in Busy : slot[t].job = j /\ slot'[t] = Idle
  <2>1. /\ s \in Busy /\ slot' = [slot EXCEPT ![s] = Idle]
        /\ row' = row \/ \E r \in {row'[slot[s].job]} :
                           row' = [row EXCEPT ![slot[s].job] = r]
    <3>1. s \in Busy
      BY <1>1 DEF Finish, complete, failRetryable, failFatal, rescheduleTo,
                  LoseOutcome
    <3>2. slot[s].job \in Jobs
      BY <3>1, BusySnapshot
    <3>3. ASSUME NEW r, Settle(s, r)
          PROVE  /\ slot' = [slot EXCEPT ![s] = Idle]
                 /\ row' = row \/ row' = [row EXCEPT ![slot[s].job] = r]
      BY <3>3 DEF Settle
    <3>4. \/ slot' = [slot EXCEPT ![s] = Idle] /\ row' = row
          \/ \E r : Settle(s, r)
      BY <1>1 DEF Finish, complete, failRetryable, failFatal, rescheduleTo,
                  LoseOutcome
    <3>. QED
      BY <3>1, <3>2, <3>3, <3>4 DEF TypeOK
  <2>2. slot[s].job = j
    BY <2>1 DEF TypeOK
  <2>. QED
    BY <2>1, <2>2 DEF TypeOK, Busy
<1>2. ASSUME NEW k \in Jobs, enqueueJob(k)
      PROVE  FALSE
  BY <1>2 DEF enqueueJob, TypeOK
<1>3. ASSUME NEW w \in Workers, claimJobs(w)
      PROVE  FALSE
  <2>1. PICK S \in (SUBSET FreeSlots(w)) \ {{}} :
          \E claim \in Injection(S, Due) : Claimed(w, S, claim)
    BY <1>3 DEF claimJobs, Claimed
  <2>2. row'[j] = row[j] \/ row'[j] = Leased(row[j], w)
    BY <2>1 DEF Claimed
  <2>. QED
    BY <2>2 DEF Leased
<1>4. ASSUME NEW w \in Workers, Lifecycle(w)
      PROVE  FALSE
  BY <1>4 DEF Lifecycle, requestShutdown, LeaveLoop, waitForDrain, Crash, Restart
<1>5. CASE Reaper
  <2>1. ASSUME NEW e \in found, resetExpiredLease(e)
        PROVE  FALSE
    <3>1. e.job \in Expired
      BY DEF LeaseInv, ReaperListIsCurrent
    <3>2. e.job # j
      BY <3>1 DEF Expired
    <3>. QED
      BY <2>1, <3>1, <3>2 DEF resetExpiredLease, TypeOK, Expired
  <2>. QED
    BY <1>5, <2>1 DEF Reaper, findExpiredRunning, AbandonTick
<1>6. CASE Human
  <2>1. ASSUME NEW k \in Jobs, runNow(k) \/ remove(k) \/ retryDeadJob(k)
        PROVE  FALSE
    BY <2>1 DEF runNow, remove, retryDeadJob, TypeOK
  <2>2. ASSUME NEW S, CancelQueued(S)
        PROVE  FALSE
    BY <2>2 DEF CancelQueued
  <2>. QED
    BY <1>6, <2>1, <2>2 DEF Human, cancelQueuedForRun, cancelQueuedForAccount
<1>7. CASE Tick
  BY <1>7 DEF Tick, Aged, TypeOK, Row
<1>8. CASE UNCHANGED vars
  BY <1>8 DEF vars
<1>. QED
  BY <1>1, <1>2, <1>3, <1>4, <1>5, <1>6, <1>7, <1>8 DEF Next

\* Nothing but the handler of that claim ends a live lease.
THEOREM QueueLiveLeaseIsRespected ==
  ASSUME ~LeaseOverrun
  PROVE  Spec => LiveLeaseIsRespected
<1>1. TypeOK /\ LeaseInv /\ [Next]_vars => [LiveLeaseStep]_vars
  BY SettleOnly DEF LeaseInv, HandlerHoldsRow, LiveLeaseStep
<1>. QED
  BY <1>1, QueueLeaseInv, PTL DEF Spec, LiveLeaseIsRespected

-----------------------------------------------------------------------------
(* Refinement of JobLifecycle.                                              *)

\* The jobs of S go from one status to another and the attempts of each change
\* by d; the other jobs keep both.
Moves(S, from, to, d) ==
  \A j \in Jobs :
    /\ j \in S => /\ row[j].status = from /\ row'[j].status = to
                  /\ row'[j].attempts = row[j].attempts + d
    /\ j \notin S => /\ row'[j].status = row[j].status
                     /\ row'[j].attempts = row[j].attempts

LEMMA MovesMap ==
  ASSUME TypeOK, NEW S \in SUBSET Jobs, NEW from, NEW to, NEW d \in Int,
         Moves(S, from, to, d)
  PROVE  Lifecycles!Move(S, from, to, d)
<1>1. \A j \in Jobs : row'[j].status = IF j \in S THEN to ELSE row[j].status
  BY DEF Moves
<1>2. \A j \in Jobs : row'[j].attempts = IF j \in S THEN row[j].attempts + d
                                         ELSE row[j].attempts
  BY DEF Moves
<1>. QED
  BY <1>1, <1>2 DEF Moves, Lifecycles!Move

LEMMA StutterMap ==
  ASSUME \A j \in Jobs : /\ row'[j].status = row[j].status
                         /\ row'[j].attempts = row[j].attempts
  PROVE  UNCHANGED Lifecycles!vars
BY DEF Lifecycles!vars

\* A handler's Settle moves its own job out of RUNNING.
LEMMA SettleMoves ==
  ASSUME TypeOK, LeaseInv, NEW s \in Busy, NEW st, NEW n \in Int, NEW d,
         Settle(s, Unlocked(row[slot[s].job], st, n, d))
  PROVE  Moves({slot[s].job}, "RUNNING", st, n - row[slot[s].job].attempts)
<1>1. /\ slot[s].job \in Jobs /\ row[slot[s].job].status = "RUNNING"
      /\ row[slot[s].job].attempts \in Int
  BY BusySnapshot DEF LeaseInv, HandlerHoldsRow, Row
<1>2. row' = [row EXCEPT ![slot[s].job] = Unlocked(row[slot[s].job], st, n, d)]
  BY <1>1 DEF Settle, Present
<1>3. /\ row'[slot[s].job] = Unlocked(row[slot[s].job], st, n, d)
      /\ \A j \in Jobs \ {slot[s].job} : row'[j] = row[j]
  BY <1>1, <1>2 DEF TypeOK
<1>4. /\ row'[slot[s].job].status = st
      /\ row'[slot[s].job].attempts = n
  BY <1>3 DEF Unlocked
<1>. QED
  BY <1>1, <1>3, <1>4 DEF Moves

\* A step of one job is a step of the abstract specification.
LEMMA StepOfOne ==
  ASSUME NEW k \in Jobs,
         \/ Lifecycles!Create(k) \/ Lifecycles!Succeed(k) \/ Lifecycles!GiveUp(k)
         \/ Lifecycles!TryAgain(k) \/ Lifecycles!PushBack(k)
         \/ Lifecycles!Revive(k) \/ Lifecycles!Delete(k)
  PROVE  Lifecycles!Next
BY DEF Lifecycles!Next

LEMMA FinishMap ==
  ASSUME TypeOK, LeaseInv, NEW s \in Slots, Finish(s)
  PROVE  Lifecycles!Next \/ UNCHANGED Lifecycles!vars
<1>0. s \in Busy
  BY DEF Finish, complete, failRetryable, failFatal, rescheduleTo, LoseOutcome
<1>1. PICK k \in Jobs : k = slot[s].job
  BY <1>0, BusySnapshot
<1>2. row[k].attempts \in Int /\ slot[s].attempts = row[k].attempts
        /\ row[k].wait \in Int
  BY <1>0, <1>1 DEF LeaseInv, HandlerHoldsRow, TypeOK, Row
<1>a. PICK n \in Int, d \in Int : n = row[k].attempts /\ d = row[k].wait
  BY <1>2
<1>3. ASSUME NEW st, NEW m \in Int, NEW e,
             Settle(s, Unlocked(row[k], st, m, e))
      PROVE  Lifecycles!Move({k}, "RUNNING", st, m - n)
  <2>1. Moves({k}, "RUNNING", st, m - n)
    BY <1>0, <1>1, <1>a, <1>3, SettleMoves
  <2>. QED
    BY <1>a, <2>1, MovesMap
<1>4. n - n = 0 /\ (n - 1) - n = -1 /\ n - 1 \in Int
  OBVIOUS
<1>5. CASE complete(s)
  <2>1. Settle(s, Unlocked(row[k], "SUCCEEDED", n, d))
    BY <1>1, <1>a, <1>5 DEF complete
  <2>2. Lifecycles!Succeed(k)
    BY <1>3, <1>4, <2>1 DEF Lifecycles!Succeed
  <2>. QED
    BY <2>2, StepOfOne
<1>6. CASE failRetryable(s)
  <2>1. CASE slot[s].attempts >= MaxAttempts
    <3>1. Settle(s, Unlocked(row[k], "DEAD", n, d))
      BY <1>1, <1>a, <1>6, <2>1 DEF failRetryable
    <3>2. Lifecycles!GiveUp(k)
      BY <1>3, <1>4, <3>1 DEF Lifecycles!GiveUp
    <3>. QED
      BY <3>2, StepOfOne
  <2>2. CASE ~(slot[s].attempts >= MaxAttempts)
    <3>1. PICK e \in 0..MaxDelay :
            Settle(s, Unlocked(row[k], "QUEUED", n, e))
      BY <1>1, <1>a, <1>6, <2>2 DEF failRetryable
    <3>2. Lifecycles!Move({k}, "RUNNING", "QUEUED", 0)
      BY <1>3, <1>4, <3>1
    <3>3. row[k].attempts < MaxAttempts
      BY <1>2, <2>2
    <3>4. Lifecycles!TryAgain(k)
      BY <3>2, <3>3 DEF Lifecycles!TryAgain
    <3>. QED
      BY <3>4, StepOfOne
  <2>. QED
    BY <2>1, <2>2
<1>7. CASE failFatal(s)
  <2>1. Settle(s, Unlocked(row[k], "DEAD", n, d))
    BY <1>1, <1>a, <1>7 DEF failFatal
  <2>2. Lifecycles!GiveUp(k)
    BY <1>3, <1>4, <2>1 DEF Lifecycles!GiveUp
  <2>. QED
    BY <2>2, StepOfOne
<1>8. CASE rescheduleTo(s)
  <2>1. PICK e \in 1..MaxDelay :
          Settle(s, Unlocked(row[k], "QUEUED", n - 1, e))
    BY <1>1, <1>a, <1>8 DEF rescheduleTo
  <2>2. Lifecycles!PushBack(k)
    BY <1>3, <1>4, <2>1 DEF Lifecycles!PushBack
  <2>. QED
    BY <2>2, StepOfOne
<1>9. CASE LoseOutcome(s)
  BY <1>9, StutterMap DEF LoseOutcome
<1>. QED
  BY <1>5, <1>6, <1>7, <1>8, <1>9 DEF Finish

LEMMA ClaimMap ==
  ASSUME TypeOK, LeaseInv, NEW w \in Workers, claimJobs(w)
  PROVE  Lifecycles!Next
<1>1. PICK S \in (SUBSET FreeSlots(w)) \ {{}} :
        \E claim \in Injection(S, Due) : Claimed(w, S, claim)
  BY DEF claimJobs, Claimed
<1>2. PICK claim \in Injection(S, Due) : Claimed(w, S, claim)
  BY <1>1
<1>. DEFINE D == {j \in Jobs : \E s \in S : claim[s] = j}
<1>3. \A j \in D : row[j].status = "QUEUED" /\ row[j].attempts < MaxAttempts
  BY DEF Injection, Due, LeaseInv, AttemptBudget
<1>4. \A j \in Jobs : row'[j] = IF j \in D THEN Leased(row[j], w) ELSE row[j]
  BY <1>2 DEF Claimed
<1>5. \A j \in Jobs : /\ Leased(row[j], w).status = "RUNNING"
                      /\ Leased(row[j], w).attempts = row[j].attempts + 1
  BY DEF Leased
<1>. HIDE DEF D
<1>6. Moves(D, "QUEUED", "RUNNING", 1)
  BY <1>3, <1>4, <1>5 DEF Moves
<1>7. D \in SUBSET Jobs
  BY DEF D
<1>8. Lifecycles!Start(D)
  BY <1>3, <1>6, <1>7, MovesMap DEF Lifecycles!Start
<1>. QED
  BY <1>7, <1>8 DEF Lifecycles!Next

LEMMA EnqueueMap ==
  ASSUME TypeOK, LeaseInv, NEW k \in Jobs, enqueueJob(k)
  PROVE  Lifecycles!Next
<1>1. Moves({k}, "ABSENT", "QUEUED", 0)
  BY DEF enqueueJob, Moves, TypeOK, Row
<1>2. Lifecycles!Create(k)
  BY <1>1, MovesMap DEF Lifecycles!Create
<1>. QED
  BY <1>2, StepOfOne

\* A step that leaves the Job table alone.
LEMMA QuietMap ==
  ASSUME row' = row
  PROVE  UNCHANGED Lifecycles!vars
BY StutterMap

LEMMA ReaperMap ==
  ASSUME TypeOK, LeaseInv, Reaper
  PROVE  Lifecycles!Next \/ UNCHANGED Lifecycles!vars
<1>1. CASE findExpiredRunning \/ AbandonTick
  BY <1>1, QuietMap DEF findExpiredRunning, AbandonTick
<1>2. ASSUME NEW e \in found, resetExpiredLease(e)
      PROVE  Lifecycles!Next
  <2>1. PICK k \in Jobs : k = e.job
    BY DEF TypeOK, Snapshot
  <2>2. /\ row[k].status = "RUNNING" /\ e.attempts = row[k].attempts
        /\ row[k].attempts \in Int /\ row[k].attempts + 0 = row[k].attempts
    BY <2>1 DEF LeaseInv, ReaperListIsCurrent, Expired, TypeOK, Row
  <2>3. PICK st \in {"DEAD", "QUEUED"} :
          /\ st = IF e.attempts >= MaxAttempts THEN "DEAD" ELSE "QUEUED"
          /\ row' = [row EXCEPT ![k] = Unlocked(row[k], st, row[k].attempts,
                                                row[k].wait)]
    BY <1>2, <2>1, <2>2 DEF resetExpiredLease, Present
  <2>4. /\ row'[k] = Unlocked(row[k], st, row[k].attempts, row[k].wait)
        /\ \A j \in Jobs \ {k} : row'[j] = row[j]
    BY <2>3 DEF TypeOK
  <2>5. row'[k].status = st /\ row'[k].attempts = row[k].attempts
    BY <2>4 DEF Unlocked
  <2>6. Moves({k}, "RUNNING", st, 0)
    BY <2>2, <2>4, <2>5 DEF Moves, TypeOK, Row
  <2>7. Lifecycles!Move({k}, "RUNNING", st, 0)
    BY <2>6, MovesMap
  <2>8. CASE st = "DEAD"
    <3>1. Lifecycles!GiveUp(k)
      BY <2>7, <2>8 DEF Lifecycles!GiveUp
    <3>. QED
      BY <3>1, StepOfOne
  <2>9. CASE st = "QUEUED"
    <3>1. row[k].attempts < MaxAttempts
      BY <2>2, <2>3, <2>9
    <3>2. Lifecycles!TryAgain(k)
      BY <2>7, <2>9, <3>1 DEF Lifecycles!TryAgain
    <3>. QED
      BY <3>2, StepOfOne
  <2>. QED
    BY <2>8, <2>9
<1>. QED
  BY <1>1, <1>2 DEF Reaper

LEMMA HumanMap ==
  ASSUME TypeOK, LeaseInv, Human
  PROVE  Lifecycles!Next \/ UNCHANGED Lifecycles!vars
<1>1. ASSUME NEW k \in Jobs, runNow(k)
      PROVE  UNCHANGED Lifecycles!vars
  BY <1>1, StutterMap DEF runNow, TypeOK, Row
<1>2. ASSUME NEW k \in Jobs
      PROVE  \E d \in Int : d = -row[k].attempts /\ row[k].attempts + d = 0
  BY DEF TypeOK, Row
<1>3. ASSUME NEW k \in Jobs, remove(k)
      PROVE  Lifecycles!Next
  <2>1. PICK d \in Int : d = -row[k].attempts /\ row[k].attempts + d = 0
    BY <1>2
  <2>2. PICK from \in {"QUEUED", "SUCCEEDED", "DEAD", "CANCELLED"} :
          from = row[k].status
    BY <1>3 DEF remove, Present, Final
  <2>3. Moves({k}, from, "DELETED", d)
    BY <1>3, <2>1, <2>2 DEF remove, Blank, Moves, TypeOK, Row
  <2>4. Lifecycles!Move({k}, from, "DELETED", d)
    BY <2>3, MovesMap
  <2>5. Lifecycles!Delete(k)
    BY <2>1, <2>4 DEF Lifecycles!Delete, Lifecycles!Move
  <2>. QED
    BY <2>5, StepOfOne
<1>4. ASSUME NEW k \in Jobs, retryDeadJob(k)
      PROVE  Lifecycles!Next
  <2>1. PICK d \in Int : d = -row[k].attempts /\ row[k].attempts + d = 0
    BY <1>2
  <2>2. Moves({k}, "DEAD", "QUEUED", d)
    BY <1>4, <2>1 DEF retryDeadJob, Revived, Moves, TypeOK, Row
  <2>3. Lifecycles!Move({k}, "DEAD", "QUEUED", d)
    BY <2>2, MovesMap
  <2>4. Lifecycles!Revive(k)
    BY <2>1, <2>3 DEF Lifecycles!Revive, Lifecycles!Move
  <2>. QED
    BY <2>4, StepOfOne
<1>5. ASSUME NEW S, CancelQueued(S)
      PROVE  Lifecycles!Next
  <2>. DEFINE Q == {j \in Jobs : j \in S /\ row[j].status = "QUEUED"}
  <2>1. PICK D \in SUBSET Jobs : D = Q
    OBVIOUS
  <2>2. Moves(D, "QUEUED", "CANCELLED", 0)
    BY <1>5, <2>1 DEF CancelQueued, Moves, TypeOK, Row
  <2>3. Lifecycles!Cancel(D)
    BY <2>2, MovesMap DEF Lifecycles!Cancel
  <2>. QED
    BY <2>3 DEF Lifecycles!Next
<1>. QED
  BY <1>1, <1>3, <1>4, <1>5 DEF Human, cancelQueuedForRun, cancelQueuedForAccount

LEMMA NextMap ==
  ASSUME TypeOK, LeaseInv, [Next]_vars
  PROVE  [Lifecycles!Next]_(Lifecycles!vars)
<1>1. ASSUME NEW w \in Workers, Lifecycle(w)
      PROVE  UNCHANGED Lifecycles!vars
  BY <1>1, QuietMap DEF Lifecycle, requestShutdown, LeaveLoop, waitForDrain,
                        Crash, Restart
<1>2. CASE Tick
  BY <1>2, StutterMap DEF Tick, Aged, TypeOK, Row
<1>3. CASE UNCHANGED vars
  BY <1>3, QuietMap DEF vars
<1>. QED
  BY <1>1, <1>2, <1>3, EnqueueMap, ClaimMap, FinishMap, ReaperMap, HumanMap
  DEF Next

\* The queue implements JobLifecycle: whatever workers, reaper, clock and
\* humans do, each job is started at most MaxAttempts times between two human
\* revivals, and what is over stays over.
THEOREM QueueImplementsLifecycle ==
  ASSUME ~LeaseOverrun
  PROVE  Spec => ImplementsLifecycle
<1>1. Init => Lifecycles!Init
  BY DEF Init, Blank, Lifecycles!Init
<1>2. TypeOK /\ LeaseInv /\ [Next]_vars => [Lifecycles!Next]_(Lifecycles!vars)
  BY NextMap
<1>. QED
  BY <1>1, <1>2, QueueLeaseInv, PTL DEF Spec, ImplementsLifecycle, Lifecycles!Spec

-----------------------------------------------------------------------------
(* Refinement of WorkerLife.                                                *)

\* A process that is down runs nothing.
DownIsIdle == \A w \in Workers : mode[w] = "down" => Busy \cap SlotsOf(w) = {}

\* A step that frees or takes no slot of w and leaves w's main() where it is.
LEMMA OthersMap ==
  ASSUME NEW w \in Workers, mode'[w] = mode[w],
         \A s \in SlotsOf(w) : slot'[s] = slot[s]
  PROVE  UNCHANGED Worker(w)!vars
<1>1. Busy' \cap SlotsOf(w) = Busy \cap SlotsOf(w)
  BY DEF Busy, SlotsOf
<1>. QED
  BY <1>1 DEF Worker!vars

\* A claim of w's takes free slots of w, of which there are finitely many.
LEMMA TakeMap ==
  ASSUME TypeOK, NEW w \in Workers, claimJobs(w)
  PROVE  Worker(w)!Next
<1>1. PICK S \in (SUBSET FreeSlots(w)) \ {{}} :
        \E claim \in Injection(S, Due) : Claimed(w, S, claim)
  BY DEF claimJobs, Claimed
<1>2. PICK claim \in Injection(S, Due) : Claimed(w, S, claim)
  BY <1>1
<1>3. S \subseteq SlotsOf(w) /\ S \cap Busy = {}
  BY DEF FreeSlots, SlotsOf, Busy
<1>4. \A s \in Slots : s \in S => slot'[s].job \in Jobs
  BY <1>2 DEF Claimed, Injection, Due
<1>5. \A s \in Slots : s \in S => slot'[s] # Idle
  BY <1>4 DEF Idle
<1>6. \A s \in Slots : s \notin S => slot'[s] = slot[s]
  BY <1>2 DEF Claimed
<1>7. Busy' \cap SlotsOf(w) = (Busy \cap SlotsOf(w)) \cup S
  BY <1>3, <1>5, <1>6 DEF Busy, SlotsOf
<1>8. Cardinality((Busy \cap SlotsOf(w)) \cup S) <= Cardinality(SlotsOf(w))
  <2>1. IsFiniteSet(SlotsOf(w))
    BY FS_Subset DEF SlotsOf
  <2>. QED
    BY <1>3, <2>1, FS_Subset
<1>9. \A T : Worker(w)!Cardinality(T) = Cardinality(T)
  BY DEF Worker!Cardinality, Cardinality
<1>10. Worker(w)!Claim(S)
  BY <1>3, <1>7, <1>8, <1>9 DEF Worker!Claim, claimJobs
<1>. QED
  BY <1>3, <1>10 DEF Worker!Next

\* The end of a handler frees its slot and no other, in a process that is not down.
LEMMA FreeMap ==
  ASSUME TypeOK, DownIsIdle, NEW w \in Workers, NEW s \in SlotsOf(w), Finish(s)
  PROVE  Worker(w)!Next
<1>1. s \in Busy /\ mode' = mode /\ slot' = [slot EXCEPT ![s] = Idle]
  BY DEF Finish, complete, failRetryable, failFatal, rescheduleTo, LoseOutcome, Settle
<1>2. Busy' \cap SlotsOf(w) = (Busy \cap SlotsOf(w)) \ {s}
  BY <1>1 DEF Busy, SlotsOf, TypeOK
<1>3. mode[w] # "down"
  BY <1>1 DEF DownIsIdle
<1>4. Worker(w)!Settle(s)
  BY <1>1, <1>2, <1>3 DEF Worker!Settle
<1>. QED
  BY <1>4 DEF Worker!Next

\* What becomes of w's process.
LEMMA LifeMap ==
  ASSUME TypeOK, NEW w \in Workers, Lifecycle(w)
  PROVE  Worker(w)!Next \/ UNCHANGED Worker(w)!vars
<1>1. CASE requestShutdown(w)
  <2>1. Busy' = Busy /\ mode[w] = "up" /\ mode'[w] = "stopping"
    BY <1>1 DEF requestShutdown, Busy, TypeOK
  <2>. QED
    BY <2>1 DEF Worker!vars
<1>2. CASE LeaveLoop(w)
  <2>1. Busy' = Busy /\ mode[w] = "stopping" /\ mode'[w] = "draining"
    BY <1>2 DEF LeaveLoop, Busy, TypeOK
  <2>2. Worker(w)!Drain
    BY <2>1 DEF Worker!Drain
  <2>. QED
    BY <2>2 DEF Worker!Next
<1>3. CASE waitForDrain(w)
  <2>1. Busy' = Busy /\ mode[w] = "draining" /\ mode'[w] = "down"
        /\ Busy \cap SlotsOf(w) = {}
    BY <1>3 DEF waitForDrain, Busy, TypeOK, SlotsOf
  <2>2. Worker(w)!Exit
    BY <2>1 DEF Worker!Exit
  <2>. QED
    BY <2>2 DEF Worker!Next
<1>4. CASE Crash(w)
  <2>1. Busy' \cap SlotsOf(w) = {} /\ mode[w] # "down" /\ mode'[w] = "down"
    BY <1>4 DEF Crash, Busy, TypeOK, SlotsOf
  <2>2. Worker(w)!Crash
    BY <2>1 DEF Worker!Crash
  <2>. QED
    BY <2>2 DEF Worker!Next
<1>5. CASE Restart(w)
  <2>1. Busy' = Busy /\ mode[w] = "down" /\ mode'[w] = "up"
    BY <1>5 DEF Restart, Busy, TypeOK
  <2>2. Worker(w)!Restart
    BY <2>1 DEF Worker!Restart
  <2>. QED
    BY <2>2 DEF Worker!Next
<1>. QED
  BY <1>1, <1>2, <1>3, <1>4, <1>5 DEF Lifecycle

\* Every step is a step of w's or none.
LEMMA WorkerStep ==
  ASSUME TypeOK, DownIsIdle, [Next]_vars, NEW w \in Workers
  PROVE  Worker(w)!Next \/ UNCHANGED Worker(w)!vars
<1>1. CASE slot' = slot /\ mode' = mode
  BY <1>1, OthersMap
<1>2. CASE (\E j \in Jobs : enqueueJob(j)) \/ Reaper \/ Human \/ Tick \/ UNCHANGED vars
  <2>1. slot' = slot /\ mode' = mode
    BY <1>2 DEF enqueueJob, Reaper, findExpiredRunning, resetExpiredLease, AbandonTick,
       Human, runNow, remove, retryDeadJob, cancelQueuedForRun, cancelQueuedForAccount,
       CancelQueued, Tick, vars
  <2>. QED
    BY <1>1, <2>1
<1>3. ASSUME NEW v \in Workers, claimJobs(v)
      PROVE  Worker(w)!Next \/ UNCHANGED Worker(w)!vars
  <2>1. CASE v = w
    BY <1>3, <2>1, TakeMap
  <2>2. CASE v # w
    <3>1. \A s \in SlotsOf(w) : slot'[s] = slot[s]
      BY <1>3, <2>2 DEF claimJobs, FreeSlots, SlotsOf
    <3>. QED
      BY <1>3, <3>1, OthersMap DEF claimJobs
  <2>. QED
    BY <2>1, <2>2
<1>4. ASSUME NEW v \in Workers, Lifecycle(v)
      PROVE  Worker(w)!Next \/ UNCHANGED Worker(w)!vars
  <2>1. CASE v = w
    BY <1>4, <2>1, LifeMap
  <2>2. CASE v # w
    <3>1. mode'[w] = mode[w] /\ \A s \in SlotsOf(w) : slot'[s] = slot[s]
      BY <1>4, <2>2 DEF Lifecycle, requestShutdown, LeaveLoop, waitForDrain, Crash,
         Restart, SlotsOf, TypeOK
    <3>. QED
      BY <3>1, OthersMap
  <2>. QED
    BY <2>1, <2>2
<1>5. ASSUME NEW s \in Slots, Finish(s)
      PROVE  Worker(w)!Next \/ UNCHANGED Worker(w)!vars
  <2>1. CASE s \in SlotsOf(w)
    BY <1>5, <2>1, FreeMap
  <2>2. CASE s \notin SlotsOf(w)
    <3>1. mode' = mode /\ slot' = [slot EXCEPT ![s] = Idle]
      BY <1>5 DEF Finish, complete, failRetryable, failFatal, rescheduleTo, LoseOutcome,
         Settle
    <3>2. \A t \in SlotsOf(w) : slot'[t] = slot[t]
      BY <2>2, <3>1 DEF TypeOK, SlotsOf
    <3>. QED
      BY <3>1, <3>2, OthersMap
  <2>. QED
    BY <2>1, <2>2
<1>. QED
  BY <1>2, <1>3, <1>4, <1>5 DEF Next

\* What WorkerLife says of a process that is down.
LEMMA DownStays ==
  ASSUME NEW w \in Workers, mode[w] = "down" => Busy \cap SlotsOf(w) = {},
         Worker(w)!Next \/ UNCHANGED Worker(w)!vars, mode'[w] = "down"
  PROVE  Busy' \cap SlotsOf(w) = {}
  BY DEF Worker!Next, Worker!vars, Worker!Claim, Worker!Settle, Worker!SetLimit,
     Worker!Drain, Worker!Exit, Worker!Crash, Worker!Restart

\* Whatever the queue, the reaper and humans do to its rows, and whether or not leases
\* outlast handlers, a worker runs no more handlers than it may, starts none while it
\* drains, and exits by itself only when none is left.
THEOREM QueueImplementsWorkers == Spec => ImplementsWorkers
<1>1. Init => TypeOK /\ DownIsIdle /\ \A w \in Workers : Worker(w)!Init
  <2>. SUFFICES ASSUME Init
                PROVE  TypeOK /\ DownIsIdle /\ \A w \in Workers : Worker(w)!Init
    OBVIOUS
  <2>1. Busy = {} /\ \A w \in Workers : mode[w] = "up"
    BY DEF Init, Busy
  <2>. QED
    BY <2>1, InitType DEF DownIsIdle, Worker!Init
<1>2. TypeOK /\ DownIsIdle /\ [Next]_vars =>
        /\ TypeOK' /\ DownIsIdle'
        /\ [\A w \in Workers : Worker(w)!Next \/ UNCHANGED Worker(w)!vars]_vars
  <2>. SUFFICES ASSUME TypeOK, DownIsIdle, [Next]_vars
                PROVE  /\ TypeOK' /\ DownIsIdle'
                       /\ \A w \in Workers : Worker(w)!Next \/ UNCHANGED Worker(w)!vars
    OBVIOUS
  <2>1. \A w \in Workers : Worker(w)!Next \/ UNCHANGED Worker(w)!vars
    BY WorkerStep
  <2>2. \A w \in Workers : SlotsOf(w)' = SlotsOf(w)
    BY DEF SlotsOf
  <2>3. DownIsIdle'
    BY <2>1, <2>2, DownStays DEF DownIsIdle
  <2>. QED
    BY <2>1, <2>3, NextType
<1>. QED
  BY <1>1, <1>2, PTL DEF Spec, ImplementsWorkers
=============================================================================

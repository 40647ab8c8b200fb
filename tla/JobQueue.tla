------------------------------ MODULE JobQueue ------------------------------
(***************************************************************************)
(* The Postgres job queue: the rows of the Job table, the worker processes *)
(* that claim and settle them, the scheduler's reaper and the human        *)
(* actions of the /jobs page.                                              *)
(*                                                                         *)
(* One action is one SQL statement, since every transition of a row is a   *)
(* single UPDATE/INSERT/DELETE.  What is read before a statement and used  *)
(* in a later one (the ClaimedJob a handler runs with, the reaper's list)  *)
(* is state of its own, so the interleavings between the two are explored. *)
(*                                                                         *)
(* Time is counted down: wait is what is left until runAt, lease what is   *)
(* left until leaseExpiresAt, and Tick lets one unit pass.  No caller sets *)
(* queue, priority or runAt on enqueue, so there is one queue of equal     *)
(* priorities and the claim order among due rows is left open.             *)
(***************************************************************************)
EXTENDS Integers, FiniteSets, Functions

CONSTANTS
  Jobs,          \* ids of Job rows; an id is never used twice
  Workers,       \* worker processes
  Slots,         \* places for a running handler in the workers' processes
  WorkerOf,      \* [Slots -> Workers]; w runs at most its slots at once
  KeyOf,         \* [Jobs -> idempotency key or None]
  RunOf,         \* [Jobs -> scrape run or None]
  AccountOf,     \* [Jobs -> LinkedIn account or None]
  MaxAttempts,   \* Job.maxAttempts
  LeaseTicks,    \* SystemSetting.leaseSeconds, in ticks
  MaxDelay,      \* the longest backoff or push-back, in ticks
  LeaseOverrun,  \* TRUE: a handler may still run when its lease is over
  None

ASSUME QueueAssumption ==
  /\ IsFiniteSet(Slots) /\ WorkerOf \in [Slots -> Workers]
  /\ MaxAttempts \in Nat \ {0}
  /\ LeaseTicks \in Nat \ {0}
  /\ MaxDelay \in Nat \ {0}
  /\ LeaseOverrun \in BOOLEAN
  /\ None \notin Workers \cup Jobs

VARIABLES
  row,     \* the Job table
  slot,    \* the ClaimedJob each running handler works from
  mode,    \* where each worker process is in main()
  found    \* the reaper's list: rows it read as expired and has yet to reset

vars == <<row, slot, mode, found>>

Final   == {"SUCCEEDED", "DEAD", "CANCELLED"}
Present == {"QUEUED", "RUNNING"} \cup Final
Status  == Present \cup {"ABSENT", "DELETED"}

Row      == [status: Status, attempts: Int, wait: 0..MaxDelay,
             lease: 0..LeaseTicks, lockedBy: Workers \cup {None}]
Snapshot == [job: Jobs, attempts: Int]
Idle     == [job |-> None, attempts |-> 0]

\* The shape of the tables and of what the processes keep in memory; attempts
\* is an integer column without a bound, which AttemptBudget gives it.
TypeOK ==
  /\ row \in [Jobs -> Row]
  /\ slot \in [Slots -> Snapshot \cup {Idle}]
  /\ mode \in [Workers -> {"up", "stopping", "draining", "down"}]
  /\ found \subseteq Snapshot

-----------------------------------------------------------------------------
(* State predicates and row values. *)

Busy         == {s \in Slots : slot[s] # Idle}
FreeSlots(w) == {s \in Slots : WorkerOf[s] = w /\ slot[s] = Idle}
\* Mutant: a job with one attempt left is not taken.
Due_SparesLast == {j \in Jobs : /\ row[j].status = "QUEUED" /\ row[j].wait = 0
                                /\ row[j].attempts < MaxAttempts - 1}
Due          == {j \in Jobs : row[j].status = "QUEUED" /\ row[j].wait = 0}
\* Mutant: every RUNNING row is reaped.
Expired_AnyLease == {j \in Jobs : row[j].status = "RUNNING"}
\* Mutant: only the rows of dead workers are reaped.
Expired_DeadWorker == {j \in Jobs : /\ row[j].status = "RUNNING"
                                    /\ row[j].lease = 0
                                    /\ mode[row[j].lockedBy] = "down"}
Expired      == {j \in Jobs : row[j].status = "RUNNING" /\ row[j].lease = 0}
KeyTaken(j)  == \E k \in Jobs : /\ row[k].status \in Present
                                /\ KeyOf[k] = KeyOf[j] /\ KeyOf[j] # None

\* Mutant: the lease column is left as it was.
Unlocked_KeepsLease(r, status, attempts, wait) ==
  [status |-> status, attempts |-> attempts, wait |-> wait,
   lease |-> r.lease, lockedBy |-> None]

\* The columns of row r after an update that clears the lock columns.
Unlocked(r, status, attempts, wait) ==
  [status |-> status, attempts |-> attempts, wait |-> wait,
   lease |-> 0, lockedBy |-> None]

\* The columns of row r after worker w claimed it.
Leased(r, w) ==
  [status |-> "RUNNING", attempts |-> r.attempts + 1, wait |-> r.wait,
   lease |-> LeaseTicks, lockedBy |-> w]

Blank == [status |-> "ABSENT", attempts |-> 0, wait |-> 0,
          lease |-> 0, lockedBy |-> None]

Init ==
  /\ row = [j \in Jobs |-> Blank]
  /\ slot = [s \in Slots |-> Idle]
  /\ mode = [w \in Workers |-> "up"]
  /\ found = {}

-----------------------------------------------------------------------------
(* Producers.  An enqueue whose key is taken is a no-op, hence no step. *)

enqueueJob(j) ==
  /\ row[j].status = "ABSENT"
  /\ ~KeyTaken(j)
  /\ row' = [row EXCEPT ![j].status = "QUEUED"]
  /\ UNCHANGED <<slot, mode, found>>

(* Workers. *)

\* claimJobs: one statement claims as many due rows as the round's limit
\* allows, and each claimed row starts a handler at once.
claimJobs(w) ==
  /\ mode[w] \in {"up", "stopping"}
  /\ \E S \in (SUBSET FreeSlots(w)) \ {{}} : \E claim \in Injection(S, Due) :
       /\ row' = [j \in Jobs |->
            IF \E s \in S : claim[s] = j
            THEN Leased(row[j], w)
            ELSE row[j]]
       /\ slot' = [s \in Slots |->
            IF s \in S
            THEN [job |-> claim[s], attempts |-> row[claim[s]].attempts + 1]
            ELSE slot[s]]
  /\ UNCHANGED <<mode, found>>

\* The handler in slot s ends and finishJob writes r to its row by id alone.
\* A row that is gone makes the write throw (P2025); runJob frees the slot.
Settle(s, r) ==
  LET j == slot[s].job IN
  /\ slot' = [slot EXCEPT ![s] = Idle]
  /\ row' = IF row[j].status \in Present THEN [row EXCEPT ![j] = r] ELSE row
  /\ UNCHANGED <<mode, found>>

complete(s) ==
  /\ s \in Busy
  /\ LET r == row[slot[s].job]
     IN  Settle(s, Unlocked(r, "SUCCEEDED", r.attempts, r.wait))

\* Mutant: the backoff exceeds its cap.
failRetryable_NoCap(s) ==
  /\ s \in Busy
  /\ LET r == row[slot[s].job]
     IN  IF slot[s].attempts >= MaxAttempts
         THEN Settle(s, Unlocked(r, "DEAD", r.attempts, r.wait))
         ELSE \E delay \in 0..(MaxDelay + 1) :
                Settle(s, Unlocked(r, "QUEUED", r.attempts, delay))

\* DEAD or QUEUED is decided from the attempts the claim returned.
failRetryable(s) ==
  /\ s \in Busy
  /\ LET r == row[slot[s].job]
     IN  IF slot[s].attempts >= MaxAttempts
         THEN Settle(s, Unlocked(r, "DEAD", r.attempts, r.wait))
         ELSE \E delay \in 0..MaxDelay :
                Settle(s, Unlocked(r, "QUEUED", r.attempts, delay))

\* failFatal and failRiskSignal write the same columns.
failFatal(s) ==
  /\ s \in Busy
  /\ LET r == row[slot[s].job]
     IN  Settle(s, Unlocked(r, "DEAD", r.attempts, r.wait))

\* A push-back gives the claim's attempt back.
rescheduleTo(s) ==
  /\ s \in Busy
  /\ LET r == row[slot[s].job]
     IN  \E delay \in 1..MaxDelay :
           Settle(s, Unlocked(r, "QUEUED", r.attempts - 1, delay))

\* The outcome cannot be written (database error on finishJob): the promise
\* rejects, the rejection is swallowed and only the slot is freed.
LoseOutcome(s) ==
  /\ s \in Busy
  /\ slot' = [slot EXCEPT ![s] = Idle]
  /\ UNCHANGED <<row, mode, found>>

\* SIGTERM may find the poll loop between its test of isShuttingDown and a
\* claim, so the round in progress may claim once more.
requestShutdown(w) ==
  /\ mode[w] = "up"
  /\ mode' = [mode EXCEPT ![w] = "stopping"]
  /\ UNCHANGED <<row, slot, found>>

LeaveLoop(w) ==
  /\ mode[w] = "stopping"
  /\ mode' = [mode EXCEPT ![w] = "draining"]
  /\ UNCHANGED <<row, slot, found>>

waitForDrain(w) ==
  /\ mode[w] = "draining"
  /\ \A s \in Busy : WorkerOf[s] # w
  /\ mode' = [mode EXCEPT ![w] = "down"]
  /\ UNCHANGED <<row, slot, found>>

\* kill -9, an uncaught error in main, or the hard exit after the grace
\* period: the process and its handlers are gone, the rows stay.
Crash(w) ==
  /\ mode[w] # "down"
  /\ mode' = [mode EXCEPT ![w] = "down"]
  /\ slot' = [s \in Slots |-> IF WorkerOf[s] = w THEN Idle ELSE slot[s]]
  /\ UNCHANGED <<row, found>>

Restart(w) ==
  /\ mode[w] = "down"
  /\ mode' = [mode EXCEPT ![w] = "up"]
  /\ UNCHANGED <<row, slot, found>>

(* The scheduler. *)

findExpiredRunning ==
  /\ found = {}
  /\ Expired # {}
  /\ found' = {[job |-> j, attempts |-> row[j].attempts] : j \in Expired}
  /\ UNCHANGED <<row, slot, mode>>

\* Mutant: the reaper does not look at the attempts.
resetExpiredLease_NeverDead(e) ==
  LET j == e.job IN
  /\ e \in found
  /\ IF row[j].status \in Present
     THEN /\ row' = [row EXCEPT ![j] =
               Unlocked(@, "QUEUED", @.attempts, @.wait)]
          /\ found' = found \ {e}
     ELSE /\ found' = {}
          /\ UNCHANGED row
  /\ UNCHANGED <<slot, mode>>

\* Mutant: the reaper grants a fresh budget, as a human retry does.
resetExpiredLease_FreshBudget(e) ==
  LET j == e.job IN
  /\ e \in found
  /\ IF row[j].status \in Present
     THEN /\ row' = [row EXCEPT ![j] =
               Unlocked(@, IF e.attempts >= MaxAttempts THEN "DEAD" ELSE "QUEUED",
                        0, @.wait)]
          /\ found' = found \ {e}
     ELSE /\ found' = {}
          /\ UNCHANGED row
  /\ UNCHANGED <<slot, mode>>

\* The reset tests neither status nor lease again.  A row deleted since the
\* read makes it throw, which ends the tick and drops the rest of the list.
resetExpiredLease(e) ==
  LET j == e.job IN
  /\ e \in found
  /\ IF row[j].status \in Present
     THEN /\ row' = [row EXCEPT ![j] =
               Unlocked(@, IF e.attempts >= MaxAttempts THEN "DEAD" ELSE "QUEUED",
                        @.attempts, @.wait)]
          /\ found' = found \ {e}
     ELSE /\ found' = {}
          /\ UNCHANGED row
  /\ UNCHANGED <<slot, mode>>

\* The scheduler dies, or a database error ends its tick.
AbandonTick ==
  /\ found # {}
  /\ found' = {}
  /\ UNCHANGED <<row, slot, mode>>

(* Humans, and the services that act for them. *)

runNow(j) ==
  /\ row[j].status = "QUEUED"
  /\ row' = [row EXCEPT ![j].wait = 0]
  /\ UNCHANGED <<slot, mode, found>>

\* Mutant: a running job can be deleted.
remove_AnyStatus(j) ==
  /\ row[j].status \in Present
  /\ row' = [row EXCEPT ![j] = [Blank EXCEPT !.status = "DELETED"]]
  /\ UNCHANGED <<slot, mode, found>>

\* The DELETE spares a RUNNING row.
remove(j) ==
  /\ row[j].status \in Present \ {"RUNNING"}
  /\ row' = [row EXCEPT ![j] = [Blank EXCEPT !.status = "DELETED"]]
  /\ UNCHANGED <<slot, mode, found>>

\* A human retry grants a fresh budget.
Revived(r) == [status |-> "QUEUED", attempts |-> 0, wait |-> 0,
               lease |-> r.lease, lockedBy |-> r.lockedBy]

retryDeadJob(j) ==
  /\ row[j].status = "DEAD"
  /\ row' = [row EXCEPT ![j] = Revived(@)]
  /\ UNCHANGED <<slot, mode, found>>

\* Mutant: a cancel does not look at the status.
CancelQueued_AnyStatus(S) ==
  /\ \E j \in S : row[j].status \in Present
  /\ row' = [j \in Jobs |-> IF j \in S /\ row[j].status \in Present
                            THEN Unlocked(row[j], "CANCELLED", row[j].attempts, 0)
                            ELSE row[j]]
  /\ UNCHANGED <<slot, mode, found>>

\* cancelQueuedForRun and cancelQueuedForAccount: the QUEUED rows of one run
\* (cancelRun) or of one account (deleteAccount), in one statement.
CancelQueued(S) ==
  /\ \E j \in S : row[j].status = "QUEUED"
  /\ row' = [j \in Jobs |-> IF j \in S /\ row[j].status = "QUEUED"
                            THEN [row[j] EXCEPT !.status = "CANCELLED"]
                            ELSE row[j]]
  /\ UNCHANGED <<slot, mode, found>>

cancelQueuedForRun(r) ==
  r # None /\ CancelQueued({j \in Jobs : RunOf[j] = r})

cancelQueuedForAccount(a) ==
  a # None /\ CancelQueued({j \in Jobs : AccountOf[j] = a})

-----------------------------------------------------------------------------
(* Time.  Without LeaseOverrun a lease is configured longer than the        *)
(* slowest handler, so no lease ends under a handler that still runs.       *)
CountDown(n) == IF n > 0 THEN n - 1 ELSE 0

Aged(r) == [r EXCEPT !.wait = CountDown(@), !.lease = CountDown(@)]

Tick ==
  /\ LeaseOverrun \/ \A s \in Busy : row[slot[s].job].lease > 1
  /\ row' = [j \in Jobs |-> Aged(row[j])]
  /\ UNCHANGED <<slot, mode, found>>

Finish(s) == complete(s) \/ failRetryable(s) \/ failFatal(s)
                \/ rescheduleTo(s) \/ LoseOutcome(s)

Lifecycle(w) == requestShutdown(w) \/ LeaveLoop(w) \/ waitForDrain(w)
                  \/ Crash(w) \/ Restart(w)

Reaper == findExpiredRunning \/ (\E e \in found : resetExpiredLease(e))
            \/ AbandonTick

Human ==
  \/ \E j \in Jobs : runNow(j) \/ remove(j) \/ retryDeadJob(j)
  \/ \E r \in Range(RunOf) : cancelQueuedForRun(r)
  \/ \E a \in Range(AccountOf) : cancelQueuedForAccount(a)

Next ==
  \/ \E j \in Jobs : enqueueJob(j)
  \/ \E w \in Workers : claimJobs(w) \/ Lifecycle(w)
  \/ \E s \in Slots : Finish(s)
  \/ Reaper
  \/ Human
  \/ Tick

Spec == Init /\ [][Next]_vars

\* The poll loop, the handlers and the scheduler keep going.  Handlers end:
\* every browser call they wait on has a timeout.  A claim of a due row is
\* strongly fair because the query takes the oldest runAt first and every
\* row put back gets a later one; so are the reset, which a failing tick
\* repeats, and a restart by the process supervisor.
ClaimOf(j) ==
  /\ row[j].status = "QUEUED"
  /\ \E w \in Workers : claimJobs(w)
  /\ row'[j].status = "RUNNING"

ResetOf(j) == \E e \in found : e.job = j /\ resetExpiredLease(e)

Fairness ==
  /\ SF_vars(Tick)
  /\ WF_vars(findExpiredRunning)
  /\ \A j \in Jobs : SF_vars(ClaimOf(j)) /\ SF_vars(ResetOf(j))
  /\ \A s \in Slots : WF_vars(Finish(s))
  /\ \A w \in Workers : /\ WF_vars(LeaveLoop(w))
                        /\ WF_vars(waitForDrain(w))
                        /\ WF_vars(Restart(w))

FairSpec == Spec /\ Fairness

-----------------------------------------------------------------------------
(* Properties that need leases to outlast their handlers.                   *)

\* A running handler works on a row that is RUNNING under its worker's name,
\* with the attempt it was started for and time left on the lease: nothing
\* another actor did meanwhile (reaper, human, second worker) took it away.
HandlerHoldsRow ==
  \A s \in Busy :
    LET r == row[slot[s].job] IN
    /\ r.status = "RUNNING"
    /\ r.lockedBy = WorkerOf[s]
    /\ r.attempts = slot[s].attempts
    /\ r.lease > 0

\* No piece of work is executed twice at once: two running handlers never
\* share a row, nor an idempotency key (a row deleted under its handler would
\* free the key for a second enqueue).
NoDoubleExecution ==
  \A s, t \in Busy : s # t =>
    /\ slot[s].job # slot[t].job
    /\ KeyOf[slot[s].job] = None \/ KeyOf[slot[s].job] # KeyOf[slot[t].job]

\* The attempt counter is the retry budget: never negative, never above
\* maxAttempts, and a job back in the queue still has an attempt to spend.
AttemptBudget ==
  \A j \in Jobs :
    /\ row[j].attempts \in 0..MaxAttempts
    /\ row[j].status = "QUEUED" => row[j].attempts < MaxAttempts
    /\ row[j].status = "RUNNING" => row[j].attempts > 0

\* Whatever the reaper read as expired is still expired, with the same
\* attempts, when the reset is written: find-then-reset loses no update.
ReaperListIsCurrent ==
  \A e \in found : e.job \in Expired /\ row[e.job].attempts = e.attempts

\* Two rows that exist never carry the same idempotency key.
UniqueKeys ==
  \A j, k \in Jobs :
    /\ j # k /\ KeyOf[j] # None
    /\ row[j].status \in Present /\ row[k].status \in Present
    => KeyOf[j] # KeyOf[k]

\* The inductive invariant of an instance whose leases outlast its handlers:
\* the invariants above, with what their preservation rests on.
LeaseInv ==
  /\ HandlerHoldsRow
  /\ \A s, t \in Busy : s # t => slot[s].job # slot[t].job
  /\ UniqueKeys
  /\ \A j \in Jobs : row[j].status = "ABSENT" => row[j].attempts = 0
  /\ AttemptBudget
  /\ ReaperListIsCurrent

\* A row under a live lease leaves RUNNING only when the handler of that very
\* claim ends: no human action, reaper or other handler takes it away.
LiveLeaseStep ==
  \A j \in Jobs :
    row[j].status = "RUNNING" /\ row[j].lease > 0 /\ row'[j].status # "RUNNING"
      => \E s \in Busy : /\ slot[s].job = j
                        /\ WorkerOf[s] = row[j].lockedBy
                        /\ slot[s].attempts = row[j].attempts
                        /\ slot'[s] = Idle

\* Every step respects live leases: runJob alone ends what it claimed.
LiveLeaseIsRespected == [][LiveLeaseStep]_vars

\* The queue keeps JobLifecycle's promises: at most MaxAttempts tries, and
\* SUCCEEDED, CANCELLED and DEAD are undone only by a human.
Lifecycles == INSTANCE JobLifecycle
  WITH status <- [j \in Jobs |-> row[j].status],
       tries  <- [j \in Jobs |-> row[j].attempts],
       MaxTries <- MaxAttempts

\* Every behaviour of the queue is one of JobLifecycle.
ImplementsLifecycle == Lifecycles!Spec

(* Properties that hold even when handlers outlive their leases.            *)

SlotsOf(w) == {s \in Slots : WorkerOf[s] = w}

\* Each worker process is WorkerLife's; until it leaves its loop it may claim.
Worker(w) == INSTANCE WorkerLife
  WITH Handlers <- SlotsOf(w), Limits <- {Cardinality(SlotsOf(w))},
       limit <- Cardinality(SlotsOf(w)), held <- Busy \cap SlotsOf(w),
       mode <- IF mode[w] = "stopping" THEN "up" ELSE mode[w]

\* Whatever the queue, the reaper and humans do to its rows, a worker runs no more
\* handlers than it may, and starts none while it drains.
ImplementsWorkers ==
  /\ \A w \in Workers : Worker(w)!Init
  /\ [][\A w \in Workers : Worker(w)!Next \/ UNCHANGED Worker(w)!vars]_vars

\* The lock columns are set exactly while a row is RUNNING: every outcome clears
\* them, leaseExpiresAt too (jobs.prisma:66 and ARCHITECTURE.md:321-322 have that
\* one stay), so the reaper's scan of RUNNING rows finds every lease and no stale
\* one.
LockIffRunning ==
  \A j \in Jobs :
    /\ row[j].status = "RUNNING" <=> row[j].lockedBy # None
    /\ row[j].status # "RUNNING" => row[j].lease = 0

\* Whatever happens to its worker, a job does not stay RUNNING for ever.
RunningIsReleased ==
  \A j \in Jobs : row[j].status = "RUNNING" ~> row[j].status # "RUNNING"

\* A queued job does not wait for ever: it is claimed, cancelled or deleted.
QueuedIsServed ==
  \A j \in Jobs : row[j].status = "QUEUED" ~> row[j].status # "QUEUED"

\* The retry budget ends every job: once handlers stop pushing it back and
\* humans stop reviving it, a job that exists is over and stays over.
BudgetEndsJob ==
  \A j \in Jobs :
    <>[][/\ \A s \in Slots : ~(rescheduleTo(s) /\ slot[s].job = j)
         /\ ~retryDeadJob(j)]_vars
      => (row[j].status = "QUEUED" ~> row[j].status \in Final \cup {"DELETED"})
=============================================================================

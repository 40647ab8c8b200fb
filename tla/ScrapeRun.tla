----------------------------- MODULE ScrapeRun -----------------------------
(***************************************************************************)
(* The scraping pipeline of one LinkedIn account: the job handlers that    *)
(* carry a run from run.start over session.ensure and its result pages to  *)
(* run.finalize, the account's status and session, and the two web         *)
(* requests that start and cancel a run.                                   *)
(*                                                                         *)
(* The queue is taken as JobLifecycle specifies it: a job has at most one  *)
(* handler, a start costs an attempt, a push-back returns it.  Each step   *)
(* of a handler ends in one database statement or one navigation, and the  *)
(* handlers, their crashes and the web requests interleave between steps.  *)
(* What LinkedIn answers, the active hours and the quota are left open.    *)
(***************************************************************************)
EXTENDS Integers, FiniteSets

CONSTANTS
  Runs,          \* ScrapeRun ids, all of one account
  MaxPages,      \* ScrapeRun.maxPages
  Leads,         \* profiles a result page may show
  MaxAttempts,   \* Job.maxAttempts
  Concurrency,   \* handlers the workers run at once, all together
  CancelRuns,    \* runs somebody may cancel
  OwnProfile,    \* TRUE: a login may discover the account's own profile
  RevivalBound,  \* bound: no retryDeadJob once a run counted that many pages
  None

ASSUME RunAssumption ==
  /\ MaxPages \in Nat \ {0}
  /\ MaxAttempts \in Nat \ {0}
  /\ Concurrency \in Nat \ {0}
  /\ RevivalBound \in Nat
  /\ CancelRuns \subseteq Runs
  /\ OwnProfile \in BOOLEAN

VARIABLES
  run,       \* the ScrapeRun table
  account,   \* the account's status and whether it has a stored session
  job,       \* the Job table, by idempotency key
  pc,        \* the step each running handler is about to take
  seen,      \* the status a handler read and is about to act on
  rows,      \* the results on the page a handler fetched: leads, and None for
             \* results without a publicIdentifier
  holder,    \* the job whose handler holds the account lock
  starting,  \* the step of each run's startRun request
  cancel     \* the step of each run's cancelRun request, and the status it read

vars == <<run, account, job, pc, seen, rows, holder, starting, cancel>>

(* Jobs by idempotency key.                                                 *)
Key(type, r, arg) == [type |-> type, run |-> r, arg |-> arg]

Start(r)      == Key("run.start", r, None)
Session(r)    == Key("session.ensure", r, None)
Page(r, n)    == Key("search.page", r, n)
Profile(r, l) == Key("profile", r, l)
Final(r)      == Key("run.finalize", r, None)
Self          == Key("profile-self", None, None)

Pages(r)  == {Page(r, n) : n \in 1..MaxPages}
Chain(r)  == {Start(r), Final(r)} \cup Pages(r)
JobsOf(r) == Chain(r) \cup {Profile(r, l) : l \in Leads}   \* with runId = r
Jobs      == {j \in {Self} : OwnProfile}
               \cup UNION {JobsOf(r) \cup {Session(r)} : r \in Runs}
Browsing  == {j \in Jobs : j.type \notin {"run.start", "run.finalize"}}

ASSUME NoneAssumption == None \notin Jobs \cup Leads

Results == Leads \cup {None}

Terminal      == {"SUCCEEDED", "HALTED", "CANCELLED"}
RunStatus     == {"ABSENT", "QUEUED", "RUNNING"} \cup Terminal
Blocked       == {"RESTRICTED", "DISABLED", "CHALLENGED"}
AccountStatus == {"UNVERIFIED", "ACTIVE", "COOLING_DOWN"} \cup Blocked
Live          == {"QUEUED", "RUNNING"}
JobStatus     == {"ABSENT", "SUCCEEDED", "DEAD", "CANCELLED"} \cup Live

\* Steps taken under the account lock, and the others.
Locked == {"prepare", "visit", "halt", "contain", "challenge",
           "leads", "count", "next", "seal", "activate", "self"}
Step   == Locked \cup {"idle", "read", "mark", "ensure", "first", "close", "lock",
                       "write", "done", "fatal"}

\* The shape of the tables and of the handlers' progress; no job has more
\* attempts behind it than Job.maxAttempts.
TypeOK ==
  /\ run \in [Runs -> [status: RunStatus, pagesDone: Nat]]
  /\ account \in [status: AccountStatus, session: BOOLEAN]
  /\ job \in [Jobs -> [status: JobStatus, attempts: 0..MaxAttempts]]
  /\ pc \in [Jobs -> Step]
  /\ seen \in [Jobs -> AccountStatus \cup RunStatus \cup {None}]
  /\ rows \in [Jobs -> SUBSET Results]
  /\ holder \in Jobs \cup {None}
  /\ starting \in [Runs -> {"idle", "create", "enqueue", "over"}]
  /\ cancel \in [Runs -> [at: {"idle", "sweep", "settle", "over", "lost"},
                          saw: RunStatus \cup {None}]]

canTransition(from, to) ==
  CASE from = "UNVERIFIED"   -> to \in {"ACTIVE", "CHALLENGED", "DISABLED"}
    [] from = "ACTIVE"       -> to \in {"CHALLENGED", "COOLING_DOWN", "RESTRICTED",
                                        "DISABLED"}
    [] from = "COOLING_DOWN" -> to \in {"ACTIVE", "CHALLENGED", "RESTRICTED",
                                        "DISABLED"}
    [] from = "CHALLENGED"   -> to \in {"ACTIVE", "RESTRICTED", "DISABLED"}
    [] from = "RESTRICTED"   -> to = "DISABLED"
    [] from = "DISABLED"     -> to = "ACTIVE"

Init ==
  /\ run = [r \in Runs |-> [status |-> "ABSENT", pagesDone |-> 0]]
  /\ account = [status |-> "UNVERIFIED", session |-> FALSE]
  /\ job = [j \in Jobs |-> [status |-> "ABSENT", attempts |-> 0]]
  /\ pc = [j \in Jobs |-> "idle"]
  /\ seen = [j \in Jobs |-> None]
  /\ rows = [j \in Jobs |-> {}]
  /\ holder = None
  /\ starting = [r \in Runs |-> "idle"]
  /\ cancel = [r \in Runs |-> [at |-> "idle", saw |-> None]]

-----------------------------------------------------------------------------
(* Queue operations, as JobLifecycle has them.                              *)

\* The table after enqueueJob: a key that exists makes it a no-op.
Enqueued(k) ==
  IF job[k].status = "ABSENT" THEN [job EXCEPT ![k].status = "QUEUED"] ELSE job

Goto(j, step) == pc' = [pc EXCEPT ![j] = step]

Forget(j) == /\ seen' = [seen EXCEPT ![j] = None]
             /\ rows' = [rows EXCEPT ![j] = {}]

Unlock(j) == holder' = IF holder = j THEN None ELSE holder

web == <<starting, cancel>>

claim(j) ==
  /\ job[j].status = "QUEUED"
  /\ Cardinality({k \in Jobs : pc[k] # "idle"}) < Concurrency
  /\ job' = [job EXCEPT ![j] = [status |-> "RUNNING", attempts |-> @.attempts + 1]]
  /\ Goto(j, IF j \in Browsing THEN "lock" ELSE "read")
  /\ UNCHANGED <<run, account, seen, rows, holder, web>>

\* A RescheduleError: the lock is released and the attempt given back.
reschedule(j) ==
  /\ job' = [job EXCEPT ![j] = [status |-> "QUEUED", attempts |-> @.attempts - 1]]
  /\ Goto(j, "idle")
  /\ Unlock(j)
  /\ UNCHANGED <<run, account, seen, rows, web>>

\* Mutant: one attempt too many.
fail_OffByOne(j) ==
  /\ pc[j] # "idle"
  /\ job' = [job EXCEPT ![j].status =
                IF job[j].attempts <= MaxAttempts THEN "QUEUED" ELSE "DEAD"]
  /\ Goto(j, "idle")
  /\ Forget(j)
  /\ Unlock(j)
  /\ UNCHANGED <<run, account, web>>

\* A handler throws, or its worker dies: the lock goes with it, and finishJob
\* or the reaper queues the row again while it has attempts left.
fail(j) ==
  /\ pc[j] # "idle"
  /\ job' = [job EXCEPT ![j].status =
                IF job[j].attempts < MaxAttempts THEN "QUEUED" ELSE "DEAD"]
  /\ Goto(j, "idle")
  /\ Forget(j)
  /\ Unlock(j)
  /\ UNCHANGED <<run, account, web>>

finishJob(j) ==
  /\ \/ pc[j] = "done" /\ job' = [job EXCEPT ![j].status = "SUCCEEDED"]
     \/ pc[j] = "fatal" /\ job' = [job EXCEPT ![j].status = "DEAD"]
  /\ Goto(j, "idle")
  /\ UNCHANGED <<run, account, seen, rows, holder, web>>

-----------------------------------------------------------------------------
(* run.start                                                                *)

runStartRead(j) ==
  /\ j.type = "run.start" /\ pc[j] = "read"
  /\ \/ /\ account.status \in Blocked
        /\ Goto(j, "close")
        /\ UNCHANGED <<run, account, job, seen, rows, holder, web>>
     \/ /\ account.status \notin Blocked
        /\ Goto(j, "mark")
        /\ UNCHANGED <<run, account, job, seen, rows, holder, web>>
     \/ account.status \notin Blocked /\ reschedule(j)

runStartHalt(j) ==
  /\ pc[j] = "close"
  /\ run' = [run EXCEPT ![j.run].status = "HALTED"]
  /\ Goto(j, "fatal")
  /\ UNCHANGED <<account, job, seen, rows, holder, web>>

markRunning(j) ==
  /\ pc[j] = "mark"
  /\ run' = [run EXCEPT ![j.run].status = "RUNNING"]
  /\ Goto(j, "ensure")
  /\ UNCHANGED <<account, job, seen, rows, holder, web>>

runStartEnqueue(j) ==
  /\ \/ pc[j] = "ensure" /\ job' = Enqueued(Session(j.run)) /\ Goto(j, "first")
     \/ pc[j] = "first" /\ job' = Enqueued(Page(j.run, 1)) /\ Goto(j, "done")
  /\ UNCHANGED <<run, account, seen, rows, holder, web>>

-----------------------------------------------------------------------------
(* The handlers that open a browser.                                        *)

\* Mutant: the lock is taken whoever holds it.
withAccountLock_NoTest(j) ==
  /\ pc[j] = "lock"
  /\ holder' = j
  /\ Goto(j, "prepare")
  /\ UNCHANGED <<run, account, job, seen, rows, web>>

withAccountLock(j) ==
  /\ pc[j] = "lock"
  /\ holder = None
  /\ holder' = j
  /\ Goto(j, "prepare")
  /\ UNCHANGED <<run, account, job, seen, rows, web>>

lockUnavailable(j) ==
  /\ pc[j] = "lock"
  /\ holder # None
  /\ reschedule(j)

\* prepareAccountSession and the quota.  The account's status is not read.
prepare(j) ==
  /\ pc[j] = "prepare"
  /\ account.session \/ j.type = "session.ensure"
  /\ Goto(j, "visit")
  /\ UNCHANGED <<run, account, job, seen, rows, holder, web>>

notYet(j) ==   \* outside active hours, no session, or over quota
  /\ pc[j] = "prepare"
  /\ reschedule(j)

\* No account row or no usable proxy is fatal, and so is no session for
\* profile.self.scrape.
cannotPrepare(j) ==
  /\ pc[j] = "prepare"
  /\ Goto(j, "fatal")
  /\ Unlock(j)
  /\ UNCHANGED <<run, account, job, seen, rows, web>>

\* The stored session serves or a login does, or LinkedIn shows a risk signal.
ensureSession(j) ==
  /\ j.type = "session.ensure" /\ pc[j] = "visit"
  /\ Goto(j, "seal") \/ Goto(j, "contain")
  /\ UNCHANGED <<run, account, job, seen, rows, holder, web>>

\* The navigation to a result page or a profile, and what classifyResponse makes
\* of it.
visit(j) ==
  /\ j.type # "session.ensure" /\ pc[j] = "visit"
  /\ \/ /\ Goto(j, IF j.type = "search.page" THEN "leads" ELSE "seal")
        /\ \E found \in SUBSET Results :
             /\ j.type # "search.page" => found = {}
             /\ rows' = [rows EXCEPT ![j] = found]
     \/ /\ Goto(j, IF j.type = "search.page" THEN "halt" ELSE "contain")
        /\ UNCHANGED rows
  /\ UNCHANGED <<run, account, job, seen, holder, web>>

\* session.ensure turns what is thrown inside its try block into a FatalError,
\* an aborted delay at shutdown included.
sessionFatal(j) ==
  /\ j.type = "session.ensure"
  /\ pc[j] \in {"visit", "contain", "challenge", "seal", "activate", "self"}
  /\ Goto(j, "fatal")
  /\ Forget(j)
  /\ Unlock(j)
  /\ UNCHANGED <<run, account, job, web>>

(* A risk signal: handleRiskSignal, in search.page.fetch after the halt.    *)

haltRun(j) ==
  /\ pc[j] = "halt"
  /\ run' = [run EXCEPT ![j.run].status = "HALTED"]
  /\ Goto(j, "contain")
  /\ UNCHANGED <<account, job, seen, rows, holder, web>>

\* containBreach, whose sealing may fail, and the read at the head of transition.
containBreach(j) ==
  /\ pc[j] = "contain"
  /\ \E sealed \in BOOLEAN : account' = [account EXCEPT !.session = @ \/ sealed]
  /\ seen' = [seen EXCEPT ![j] = account.status]
  /\ Goto(j, "challenge")
  /\ UNCHANGED <<run, job, rows, holder, web>>

\* transition tests canTransition on the status it has read and writes by id.
transition(j, to) ==
  account' = IF canTransition(seen[j], to) THEN [account EXCEPT !.status = to] ELSE account

markChallenged(j) ==
  /\ pc[j] = "challenge"
  /\ transition(j, "CHALLENGED")
  /\ Goto(j, "fatal")
  /\ Forget(j)
  /\ Unlock(j)
  /\ UNCHANGED <<run, job, web>>

(* Success.                                                                 *)

\* One enqueue per result row that names a lead, in any order; a lead known to
\* the run has a profile job already.
enqueueProfile(j) ==
  /\ pc[j] = "leads"
  /\ \/ \E l \in rows[j] \cap Leads :
          /\ job[Profile(j.run, l)].status = "ABSENT"
          /\ job' = Enqueued(Profile(j.run, l))
          /\ UNCHANGED pc
     \/ /\ \A l \in rows[j] \cap Leads : job[Profile(j.run, l)].status # "ABSENT"
        /\ Goto(j, "count")
        /\ UNCHANGED job
  /\ UNCHANGED <<run, account, seen, rows, holder, web>>

\* Mutant: a page without results is not counted.
incrementCounters_ResultsOnly(j) ==
  /\ pc[j] = "count"
  /\ run' = [run EXCEPT ![j.run].pagesDone = IF rows[j] = {} THEN @ ELSE @ + 1]
  /\ Goto(j, "next")
  /\ UNCHANGED <<account, job, seen, rows, holder, web>>

incrementCounters(j) ==
  /\ pc[j] = "count"
  /\ run' = [run EXCEPT ![j.run].pagesDone = @ + 1]
  /\ Goto(j, "next")
  /\ UNCHANGED <<account, job, seen, rows, holder, web>>

\* Mutant: a page without results ends the chain without a run.finalize.
enqueueNextPageOrFinalize_EmptyStops(j) ==
  /\ pc[j] = "next"
  /\ job' = IF rows[j] = {} THEN job
            ELSE Enqueued(IF j.arg < MaxPages THEN Page(j.run, j.arg + 1)
                                              ELSE Final(j.run))
  /\ Goto(j, "seal")
  /\ UNCHANGED <<run, account, seen, rows, holder, web>>

enqueueNextPageOrFinalize(j) ==
  /\ pc[j] = "next"
  /\ job' = Enqueued(IF rows[j] # {} /\ j.arg < MaxPages
                     THEN Page(j.run, j.arg + 1) ELSE Final(j.run))
  /\ Goto(j, "seal")
  /\ UNCHANGED <<run, account, seen, rows, holder, web>>

\* Mutant: session.ensure does not store the session it has opened.
updateStorageState_ScrapersOnly(j) ==
  /\ pc[j] = "seal"
  /\ account' = [account EXCEPT !.session = @ \/ j.type # "session.ensure"]
  /\ IF j.type = "session.ensure"
     THEN /\ Goto(j, "activate") /\ UNCHANGED <<rows, holder>>
          /\ seen' = [seen EXCEPT ![j] = account.status]
     ELSE Goto(j, "done") /\ Forget(j) /\ Unlock(j)
  /\ UNCHANGED <<run, job, web>>

\* The last statement of the scrapers; session.ensure goes on to markActive.
updateStorageState(j) ==
  /\ pc[j] = "seal"
  /\ account' = [account EXCEPT !.session = TRUE]
  /\ IF j.type = "session.ensure"
     THEN /\ Goto(j, "activate") /\ UNCHANGED <<rows, holder>>
          /\ seen' = [seen EXCEPT ![j] = account.status]
     ELSE Goto(j, "done") /\ Forget(j) /\ Unlock(j)
  /\ UNCHANGED <<run, job, web>>

markActive(j) ==
  /\ pc[j] = "activate"
  /\ transition(j, "ACTIVE")
  /\ Goto(j, "self")
  /\ Forget(j)
  /\ UNCHANGED <<run, job, holder, web>>

\* profile.self.scrape, if the login has found the account's own profile.
enqueueSelf(j) ==
  /\ pc[j] = "self"
  /\ \/ UNCHANGED job
     \/ OwnProfile /\ job' = Enqueued(Self)
  /\ Goto(j, "done")
  /\ Unlock(j)
  /\ UNCHANGED <<run, account, seen, rows, web>>

-----------------------------------------------------------------------------
(* run.finalize                                                             *)

runFinalizeRead(j) ==
  /\ j.type = "run.finalize" /\ pc[j] = "read"
  /\ Goto(j, IF run[j.run].status \in Terminal THEN "done" ELSE "write")
  /\ UNCHANGED <<run, account, job, seen, rows, holder, web>>

runFinalize(j) ==
  /\ pc[j] = "write"
  /\ run' = [run EXCEPT ![j.run].status = "SUCCEEDED"]
  /\ Goto(j, "done")
  /\ UNCHANGED <<account, job, seen, rows, holder, web>>

-----------------------------------------------------------------------------
(* Web requests.                                                            *)

\* The preflight, the new row and its run.start are three statements.
startRun(r) ==
  /\ starting[r] = "idle" /\ account.status \notin Blocked
  /\ starting' = [starting EXCEPT ![r] = "create"]
  /\ UNCHANGED <<run, account, job, pc, seen, rows, holder, cancel>>

startRunCreate(r) ==
  /\ starting[r] = "create"
  /\ run' = [run EXCEPT ![r].status = "QUEUED"]
  /\ starting' = [starting EXCEPT ![r] = "enqueue"]
  /\ UNCHANGED <<account, job, pc, seen, rows, holder, cancel>>

startRunEnqueue(r) ==
  /\ starting[r] = "enqueue"
  /\ job' = Enqueued(Start(r))
  /\ starting' = [starting EXCEPT ![r] = "over"]
  /\ UNCHANGED <<run, account, pc, seen, rows, holder, cancel>>

\* findById and requestCancel; nothing reads ScrapeRun.cancelRequestedAt.
\* Bound: one request per run, since a second one repeats the same statements.
cancelRun(r) ==
  /\ r \in CancelRuns /\ run[r].status # "ABSENT" /\ cancel[r].at = "idle"
  /\ cancel' = [cancel EXCEPT ![r] = [at |-> "sweep", saw |-> run[r].status]]
  /\ UNCHANGED <<run, account, job, pc, seen, rows, holder, starting>>

\* Mutant: the jobs that are running are cancelled too.
cancelRunJobs_AnyStatus(r) ==
  /\ cancel[r].at = "sweep"
  /\ job' = [j \in Jobs |-> IF j \in JobsOf(r) /\ job[j].status # "ABSENT"
                            THEN [job[j] EXCEPT !.status = "CANCELLED"] ELSE job[j]]
  /\ cancel' = [cancel EXCEPT ![r].at = "settle"]
  /\ UNCHANGED <<run, account, pc, seen, rows, holder, starting>>

cancelRunJobs(r) ==
  /\ cancel[r].at = "sweep"
  /\ job' = [j \in Jobs |-> IF j \in JobsOf(r) /\ job[j].status = "QUEUED"
                            THEN [job[j] EXCEPT !.status = "CANCELLED"] ELSE job[j]]
  /\ cancel' = [cancel EXCEPT ![r].at = "settle"]
  /\ UNCHANGED <<run, account, pc, seen, rows, holder, starting>>

cancelRunSettle(r) ==
  /\ cancel[r].at = "settle"
  /\ run' = IF cancel[r].saw = "QUEUED"
            THEN [run EXCEPT ![r].status = "CANCELLED"] ELSE run
  /\ cancel' = [cancel EXCEPT ![r] = [at |-> "over", saw |-> None]]
  /\ UNCHANGED <<account, job, pc, seen, rows, holder, starting>>

\* The web process dies between two statements of a request.
webCrash(r) ==
  /\ \/ /\ starting[r] \in {"create", "enqueue"}
        /\ starting' = [starting EXCEPT ![r] = "over"]
        /\ UNCHANGED cancel
     \/ /\ cancel[r].at \in {"sweep", "settle"}
        /\ cancel' = [cancel EXCEPT ![r] = [at |-> "lost", saw |-> None]]
        /\ UNCHANGED starting
  /\ UNCHANGED <<run, account, job, pc, seen, rows, holder>>

retryDeadJob(j) ==
  /\ job[j].status = "DEAD"
  /\ \A r \in Runs : run[r].pagesDone < RevivalBound
  /\ job' = [job EXCEPT ![j] = [status |-> "QUEUED", attempts |-> 0]]
  /\ UNCHANGED <<run, account, pc, seen, rows, holder, web>>

-----------------------------------------------------------------------------
Work(j) ==
  \/ runStartRead(j) \/ runStartHalt(j) \/ markRunning(j) \/ runStartEnqueue(j)
  \/ withAccountLock(j) \/ lockUnavailable(j)
  \/ prepare(j) \/ notYet(j) \/ cannotPrepare(j)
  \/ ensureSession(j) \/ visit(j)
  \/ haltRun(j) \/ containBreach(j) \/ markChallenged(j)
  \/ enqueueProfile(j) \/ incrementCounters(j) \/ enqueueNextPageOrFinalize(j)
  \/ updateStorageState(j) \/ markActive(j) \/ enqueueSelf(j)
  \/ runFinalizeRead(j) \/ runFinalize(j)
  \/ finishJob(j)

Request(r) == \/ startRun(r) \/ startRunCreate(r) \/ startRunEnqueue(r)
              \/ cancelRun(r) \/ cancelRunJobs(r) \/ cancelRunSettle(r)

Next ==
  \/ \E j \in Jobs : claim(j) \/ Work(j) \/ fail(j) \/ sessionFatal(j)
                       \/ retryDeadJob(j)
  \/ \E r \in Runs : Request(r) \/ webCrash(r)

Spec == Init /\ [][Next]_vars

\* Workers claim and handlers advance.  A job pushed back sits out a delay of
\* its own, so others find the lock free meanwhile; active hours come round and
\* quotas are renewed every day.  A profile job gets no such help: whether a run
\* ends does not depend on one.
Fairness ==
  /\ \A j \in Jobs : WF_vars(claim(j)) /\ WF_vars(Work(j))
  /\ \A r \in Runs :
       /\ SF_vars(runStartRead(Start(r)) /\ pc'[Start(r)] # "idle")
       /\ \A j \in {Session(r)} \cup Pages(r) : /\ SF_vars(claim(j) /\ holder = None)
                                              /\ SF_vars(withAccountLock(j))
                                              /\ SF_vars(prepare(j))

FairSpec == Spec /\ Fairness

-----------------------------------------------------------------------------
(* Properties.                                                              *)

\* A status change by a worker acts on the status it read: the account lock
\* keeps every other handler out between transition()'s read and its write.
StatusReadIsCurrent ==
  \A j \in Jobs : pc[j] \in {"challenge", "activate"} => seen[j] = account.status

\* pagesDone never understates what was fetched: when a page or the finalize
\* job is queued, every page before it has been counted, retries and crashes
\* between the two statements included.
CountersCoverPages ==
  \A r \in Runs :
    LET queued == {n \in 1..MaxPages : job[Page(r, n)].status # "ABSENT"} IN
    /\ \A n \in queued : run[r].pagesDone >= n - 1
    /\ job[Final(r)].status # "ABSENT" => \A n \in queued : run[r].pagesDone >= n

\* A run that is RUNNING has a job that will move it on, unless one of its jobs
\* is DEAD or CANCELLED, or a run.start that ran again revived a finished run.
StalledRunIsExplained ==
  \A r \in Runs :
    run[r].status = "RUNNING" =>
      \/ \E j \in Chain(r) : job[j].status \in Live
      \/ \E j \in Chain(r) : job[j].status \in {"DEAD", "CANCELLED"}
      \/ job[Final(r)].status = "SUCCEEDED"

\* The handlers, and the people at the web interface, use the queue as
\* JobLifecycle specifies it.
Queue == INSTANCE JobLifecycle
  WITH status <- [j \in Jobs |-> job[j].status],
       tries  <- [j \in Jobs |-> job[j].attempts],
       MaxTries <- MaxAttempts

UsesQueueAsSpecified == Queue!Spec

\* They use the account's lock as AccountLock specifies it: whatever a handler does
\* under the lock, and however it ends there, it does alone.
Lock == INSTANCE AccountLock
  WITH Handlers <- Jobs,
       Accounts <- {"account"},
       inside   <- [a \in {"account"} |-> {j \in Jobs : pc[j] \in Locked}],
       broken   <- {}

UsesLockAsSpecified == Lock!Spec

\* A run whose run.start is queued comes to an end, or one of its jobs does not
\* succeed: no job waits for the lock, the session or the quota for ever.
RunEnds ==
  \A r \in Runs :
    job[Start(r)].status = "QUEUED"
      ~> \/ run[r].status \in Terminal
         \/ \E j \in JobsOf(r) \cup {Session(r)} :
              job[j].status \in {"DEAD", "CANCELLED"}

(* What comments and documents say of a run, and the code does not keep.    *)

\* While an account is CHALLENGED no page and no profile is visited with it: the
\* breaker stops the account's other jobs too.
NoVisitWhileChallenged ==
  \A j \in Jobs : j.type \in {"search.page", "profile"} /\ pc[j] = "visit"
                    => account.status # "CHALLENGED"

\* run.finalize never overwrites the HALTED that a page fetch, still busy with its
\* risk signal, has written.
FinalizeKeepsHalted ==
  [][\A r \in Runs :
       run[r].status = "HALTED" /\ (\E j \in Pages(r) : pc[j] = "contain")
         => run'[r].status # "SUCCEEDED"]_vars

\* Once a cancelRun request is through, no page that a page fetch queues after
\* the request's sweep is visited.
CancelStopsTheRun ==
  [][\A r \in Runs, n \in 2..MaxPages :
       cancel[r].at = "over" => ~claim(Page(r, n))]_vars
=============================================================================

-------------------------- MODULE ScrapeRunProofs --------------------------
(***************************************************************************)
(* Proofs about ScrapeRun, for any runs, leads, page limits, attempts and  *)
(* concurrency, with cancel requests, crashes and retries.  The invariant  *)
(* has three parts: what queue and lock give a handler (CoreInv), how the  *)
(* counter of a run follows its pages (CountInv), and which page of a run  *)
(* is its last (ChainInv).  With the first, the pipeline is shown to use   *)
(* queue and lock as JobLifecycle and AccountLock specify them.            *)
(***************************************************************************)
EXTENDS ScrapeRun, TLAPS

JobRows == [status : JobStatus, attempts : 0..MaxAttempts]

\* The steps of a handler, by the type of its job.
StepsOf(type) ==
  {"idle", "done", "fatal"} \cup
  CASE type = "run.start"    -> {"read", "mark", "ensure", "first", "close"}
    [] type = "run.finalize" -> {"read", "write"}
    [] OTHER -> {"lock", "prepare", "visit", "contain", "challenge", "seal"}
                  \cup (IF type = "search.page"
                          THEN {"halt", "leads", "count", "next"} ELSE {})
                  \cup (IF type = "session.ensure" THEN {"activate", "self"} ELSE {})

\* A job has a handler while it is RUNNING, and an attempt left while it is QUEUED.
JobInv ==
  \A j \in Jobs :
    /\ pc[j] # "idle" <=> job[j].status = "RUNNING"
    /\ job[j].status = "ABSENT" => job[j].attempts = 0
    /\ job[j].status = "QUEUED" => job[j].attempts < MaxAttempts
    /\ job[j].status = "RUNNING" => job[j].attempts >= 1

StepInv == \A j \in Jobs : pc[j] \in StepsOf(j.type)

LockInv == \A j \in Jobs : pc[j] \in Locked => holder = j

\* The shape of what is not the Job table.
RestOK ==
  /\ run \in [Runs -> [status: RunStatus, pagesDone: Nat]]
  /\ account \in [status: AccountStatus, session: BOOLEAN]
  /\ seen \in [Jobs -> AccountStatus \cup RunStatus \cup {None}]
  /\ rows \in [Jobs -> SUBSET Results]
  /\ holder \in Jobs \cup {None}
  /\ starting \in [Runs -> {"idle", "create", "enqueue", "over"}]
  /\ cancel \in [Runs -> [at: {"idle", "sweep", "settle", "over", "lost"},
                          saw: RunStatus \cup {None}]]

CoreInv == TypeOK /\ JobInv /\ StepInv /\ LockInv

-----------------------------------------------------------------------------
(* The keys of a run's jobs.                                                *)

\* The keys are told apart by their fields.
LEMMA KeyFields ==
  ASSUME NEW r, NEW x
  PROVE  /\ Start(r).type = "run.start" /\ Start(r).run = r
         /\ Session(r).type = "session.ensure" /\ Session(r).run = r
         /\ Final(r).type = "run.finalize" /\ Final(r).run = r
         /\ Page(r, x).type = "search.page" /\ Page(r, x).run = r /\ Page(r, x).arg = x
         /\ Profile(r, x).type = "profile" /\ Profile(r, x).run = r
         /\ Self.type = "profile-self"
  BY DEF Key, Start, Session, Final, Page, Profile, Self

\* The jobs of a run have their rows.
LEMMA KeysAreJobs ==
  ASSUME NEW r \in Runs
  PROVE  /\ Start(r) \in Jobs /\ Session(r) \in Jobs /\ Final(r) \in Jobs
         /\ \A n \in 1..MaxPages : Page(r, n) \in Jobs
         /\ 1 \in 1..MaxPages
  BY RunAssumption DEF Jobs, JobsOf, Chain, Pages, RunAssumption

\* Every job is of one of the types, and its fields name it.
LEMMA JobKinds ==
  ASSUME NEW j \in Jobs
  PROVE  /\ j.type = "run.start" => j.run \in Runs /\ j = Start(j.run)
         /\ j.type = "run.finalize" => j.run \in Runs /\ j = Final(j.run)
         /\ j.type = "session.ensure" => j.run \in Runs /\ j = Session(j.run)
         /\ j.type = "search.page" => /\ j.run \in Runs /\ j.arg \in 1..MaxPages
                                      /\ j = Page(j.run, j.arg)
         /\ j \in Browsing <=> j.type \notin {"run.start", "run.finalize"}
<1>1. \/ j = Self
      \/ \E r \in Runs : \/ j = Start(r) \/ j = Final(r) \/ j = Session(r)
                         \/ \E n \in 1..MaxPages : j = Page(r, n)
                         \/ \E l \in Leads : j = Profile(r, l)
  BY DEF Jobs, JobsOf, Chain, Pages
<1>2. j \in Browsing <=> j.type \notin {"run.start", "run.finalize"}
  BY DEF Browsing
<1> QED  BY <1>1, <1>2, KeyFields

-----------------------------------------------------------------------------
(* Rows of the Job table.                                                   *)

\* A row of the Job table is a record of a status and a number of attempts.
LEMMA RowTypes ==
  ASSUME TypeOK, NEW j \in Jobs
  PROVE  /\ job[j] \in JobRows /\ job[j].status \in JobStatus
         /\ job[j].attempts \in 0..MaxAttempts /\ job[j].attempts \in Nat
         /\ MaxAttempts \in Nat /\ 0 < MaxAttempts
         /\ job[j] = [status |-> job[j].status, attempts |-> job[j].attempts]
  BY RunAssumption DEF TypeOK, JobRows, RunAssumption

\* A status written into a row leaves its attempts.
LEMMA RowUpdates ==
  ASSUME NEW x \in JobRows, NEW st
  PROVE  [x EXCEPT !.status = st] = [status |-> st, attempts |-> x.attempts]
  BY DEF JobRows

\* The row of one job is replaced.
LEMMA RowReplaced ==
  ASSUME TypeOK, NEW j \in Jobs, NEW x \in JobRows, job' = [job EXCEPT ![j] = x]
  PROVE  /\ job' \in [Jobs -> JobRows]
         /\ job'[j] = x
         /\ \A k \in Jobs \ {j} : job'[k] = job[k]
  BY DEF TypeOK, JobRows

\* What an enqueue may do to a row: nothing, or make it.
Created(k) ==
  /\ job[k].status = "ABSENT"
  /\ job'[k] = [status |-> "QUEUED", attempts |-> 0]

\* An enqueue makes a row for its key, if there is none, and leaves the others.
LEMMA EnqueueRow ==
  ASSUME TypeOK, JobInv, NEW k, job' = Enqueued(k)
  PROVE  /\ job' \in [Jobs -> JobRows]
         /\ \A j \in Jobs \ {k} : job'[j] = job[j]
         /\ k \in Jobs => /\ \/ job'[k] = job[k] /\ job[k].status # "ABSENT"
                             \/ Created(k)
                          /\ job'[k].status # "ABSENT"
<1>1. job \in [Jobs -> JobRows]
  BY DEF TypeOK, JobRows
<1>2. [status |-> "QUEUED", attempts |-> 0] \in JobRows
  BY RunAssumption DEF RunAssumption, JobRows, JobStatus, Live
<1>3. CASE k \in Jobs /\ job[k].status = "ABSENT"
  <2>1. job' = [job EXCEPT ![k].status = "QUEUED"]
    BY <1>3 DEF Enqueued
  <2>2. job[k].attempts = 0 /\ job[k] \in JobRows
    BY <1>1, <1>3 DEF JobInv
  <2>3. [job[k] EXCEPT !.status = "QUEUED"] = [status |-> "QUEUED", attempts |-> 0]
    BY <2>2, RowUpdates
  <2>4. job' = [job EXCEPT ![k] = [status |-> "QUEUED", attempts |-> 0]]
    BY <2>1, <2>3
  <2>5. job'[k] = [status |-> "QUEUED", attempts |-> 0]
        /\ job' \in [Jobs -> JobRows] /\ \A j \in Jobs \ {k} : job'[j] = job[j]
    BY <1>2, <1>3, <2>4, RowReplaced
  <2>6. Created(k)
    BY <1>3, <2>5 DEF Created
  <2> QED  BY <2>5, <2>6
<1>4. CASE k \in Jobs /\ job[k].status # "ABSENT"
  BY <1>1, <1>4 DEF Enqueued
<1>5. CASE k \notin Jobs
  BY <1>1, <1>5 DEF Enqueued
<1> QED  BY <1>3, <1>4, <1>5

-----------------------------------------------------------------------------
(* A handler goes on, ends or begins; each keeps the core invariant.        *)

\* Its job stays RUNNING, other rows may be made, and the lock may be taken while
\* it is free, kept, or released.
GoesOn(j, step) ==
  /\ pc[j] # "idle" /\ step \in StepsOf(j.type) \ {"idle"}
  /\ pc' = [pc EXCEPT ![j] = step]
  /\ job' \in [Jobs -> JobRows]
  /\ \A k \in Jobs : job'[k] = job[k] \/ Created(k)
  /\ step \in Locked => holder' = j
  /\ \A k \in Jobs \ {j} : holder = k => holder' = k

\* A handler's steps are steps.
LEMMA StepTypes ==
  ASSUME NEW type
  PROVE  StepsOf(type) \subseteq Step /\ "idle" \in StepsOf(type)
  BY DEF StepsOf, Step, Locked

\* A handler that goes on keeps the core invariant.
LEMMA GoesOnKeepsCore ==
  ASSUME CoreInv, NEW j \in Jobs, NEW step, GoesOn(j, step), RestOK'
  PROVE  CoreInv'
<1>1. pc \in [Jobs -> Step] /\ step \in Step
  BY StepTypes DEF CoreInv, TypeOK, GoesOn
<1>2. pc'[j] = step /\ \A k \in Jobs \ {j} : pc'[k] = pc[k]
  BY <1>1 DEF GoesOn
<1>3. TypeOK'
  BY <1>1 DEF TypeOK, RestOK, GoesOn, JobRows
<1>4. JobInv'
  <2> SUFFICES ASSUME NEW k \in Jobs
               PROVE  /\ pc'[k] # "idle" <=> job'[k].status = "RUNNING"
                      /\ job'[k].status = "ABSENT" => job'[k].attempts = 0
                      /\ job'[k].status = "QUEUED" => job'[k].attempts < MaxAttempts
                      /\ job'[k].status = "RUNNING" => job'[k].attempts >= 1
    BY DEF JobInv
  <2>1. pc'[k] # "idle" <=> pc[k] # "idle"
    BY <1>2 DEF GoesOn
  <2>2. CASE job'[k] = job[k]
    BY <2>1, <2>2 DEF CoreInv, JobInv
  <2>3. CASE Created(k)
    <3>1. 0 < MaxAttempts /\ pc[k] = "idle"
      BY <2>3, RowTypes DEF CoreInv, JobInv, Created
    <3>2. job'[k].status = "QUEUED" /\ job'[k].attempts = 0
      BY <2>3 DEF Created
    <3> QED  BY <2>1, <3>1, <3>2
  <2> QED  BY <2>2, <2>3 DEF GoesOn
<1>5. StepInv'
  BY <1>2 DEF CoreInv, StepInv, GoesOn
<1>6. LockInv'
  BY <1>2 DEF CoreInv, LockInv, GoesOn
<1> QED  BY <1>3, <1>4, <1>5, <1>6 DEF CoreInv

\* Its job is settled, or queued with an attempt left, and its lock released.
Ends(j, x) ==
  /\ pc[j] # "idle"
  /\ pc' = [pc EXCEPT ![j] = "idle"]
  /\ x \in JobRows /\ x.status \in {"QUEUED", "SUCCEEDED", "DEAD"}
  /\ x.status = "QUEUED" => x.attempts < MaxAttempts
  /\ job' = [job EXCEPT ![j] = x]
  /\ \A k \in Jobs \ {j} : holder = k => holder' = k

\* And so does one that ends.
LEMMA EndsKeepsCore ==
  ASSUME CoreInv, NEW j \in Jobs, NEW x, Ends(j, x), RestOK'
  PROVE  CoreInv'
<1>1. pc \in [Jobs -> Step] /\ "idle" \in Step
  BY DEF CoreInv, TypeOK, Step
<1>2. pc'[j] = "idle" /\ \A k \in Jobs \ {j} : pc'[k] = pc[k]
  BY <1>1 DEF Ends
<1>3. job'[j] = x /\ (\A k \in Jobs \ {j} : job'[k] = job[k])
      /\ job' \in [Jobs -> JobRows]
  BY RowReplaced DEF CoreInv, Ends
<1>4. TypeOK'
  BY <1>1, <1>3 DEF TypeOK, RestOK, Ends, JobRows
<1>5. JobInv'
  BY <1>2, <1>3 DEF CoreInv, JobInv, Ends
<1>6. StepInv'
  BY <1>2, StepTypes DEF CoreInv, StepInv
<1>7. LockInv'
  BY <1>2 DEF CoreInv, LockInv, Ends, Locked
<1> QED  BY <1>4, <1>5, <1>6, <1>7 DEF CoreInv

-----------------------------------------------------------------------------
(* The tables besides Job.                                                  *)

\* A handler's step tells the type of its job.
LEMMA StepKinds ==
  ASSUME StepInv, NEW j \in Jobs
  PROVE  /\ pc[j] \in {"mark", "ensure", "first", "close"} => j.type = "run.start"
         /\ pc[j] = "write" => j.type = "run.finalize"
         /\ pc[j] = "read" => j.type \in {"run.start", "run.finalize"}
         /\ pc[j] \in {"halt", "leads", "count", "next"} => j.type = "search.page"
         /\ pc[j] \in {"activate", "self"} => j.type = "session.ensure"
         /\ pc[j] \in Locked \cup {"lock"} => j.type \notin {"run.start", "run.finalize"}
         /\ pc[j] = "seal" => j.type \notin {"run.start", "run.finalize"}
  BY DEF StepInv, StepsOf, Locked

RunRows == [status : RunStatus, pagesDone : Nat]

\* The status of one run is written, and nothing else of it or of other runs.
LEMMA RunStatusWritten ==
  ASSUME TypeOK, NEW r, NEW st \in RunStatus, run' = [run EXCEPT ![r].status = st]
  PROVE  /\ run' \in [Runs -> RunRows]
         /\ \A q \in Runs : /\ run'[q].pagesDone = run[q].pagesDone
                            /\ run'[q].status = IF q = r THEN st ELSE run[q].status
<1>1. run \in [Runs -> RunRows]
  BY DEF TypeOK, RunRows
<1>2. \A q \in Runs : [run[q] EXCEPT !.status = st] =
                         [status |-> st, pagesDone |-> run[q].pagesDone]
  BY <1>1 DEF RunRows
<1>3. \A q \in Runs : run'[q] = IF q = r THEN [status |-> st, pagesDone |-> run[q].pagesDone]
                                         ELSE run[q]
  BY <1>1, <1>2
<1>4. \A q \in Runs : run[q].pagesDone \in Nat
  BY <1>1 DEF RunRows
<1>5. \A q \in Runs : run'[q] \in RunRows
  BY <1>1, <1>3, <1>4 DEF RunRows
<1>6. run' \in [Runs -> RunRows]
  BY <1>1, <1>5
<1> QED  BY <1>1, <1>3, <1>6 DEF RunRows

\* An unlock releases no other handler's lock.
LEMMA Unlocks ==
  ASSUME TypeOK, NEW j \in Jobs, Unlock(j)
  PROVE  /\ holder' \in Jobs \cup {None}
         /\ \A k \in Jobs \ {j} : holder = k => holder' = k
  BY DEF TypeOK, Unlock

\* What a handler read and fetched is forgotten with it.
LEMMA Forgets ==
  ASSUME TypeOK, NEW j \in Jobs, Forget(j)
  PROVE  /\ seen' \in [Jobs -> AccountStatus \cup RunStatus \cup {None}]
         /\ rows' \in [Jobs -> SUBSET Results]
         /\ \A k \in Jobs \ {j} : seen'[k] = seen[k]
  BY DEF TypeOK, Forget

\* An unchanged Job table is as it was.
LEMMA SameJobs ==
  ASSUME TypeOK, job' = job
  PROVE  job' \in [Jobs -> JobRows] /\ \A k \in Jobs : job'[k] = job[k]
  BY DEF TypeOK, JobRows

\* The transitions of an account.
LEMMA AccountWritten ==
  ASSUME TypeOK, NEW j, NEW to \in AccountStatus, transition(j, to)
  PROVE  account' \in [status : AccountStatus, session : BOOLEAN]
<1>1. [account EXCEPT !.status = to] = [status |-> to, session |-> account.session]
  BY DEF TypeOK
<1> QED  BY <1>1 DEF TypeOK, transition

-----------------------------------------------------------------------------
(* The core invariant, action by action.                                    *)

\* A push-back.
LEMMA RescheduleCore ==
  ASSUME CoreInv, NEW j \in Jobs, pc[j] # "idle", reschedule(j)
  PROVE  CoreInv'
<1> DEFINE x == [status |-> "QUEUED", attempts |-> job[j].attempts - 1]
<1>1. job[j].attempts \in 1..MaxAttempts /\ MaxAttempts \in Nat
  <2>1. job[j].attempts >= 1
    BY DEF CoreInv, JobInv
  <2>2. TypeOK
    BY DEF CoreInv
  <2>3. job[j].attempts \in 0..MaxAttempts /\ MaxAttempts \in Nat
    BY <2>2, RowTypes
  <2> QED  BY <2>1, <2>3
<1>2. x \in JobRows /\ x.status = "QUEUED" /\ x.attempts < MaxAttempts
  BY <1>1 DEF JobRows, JobStatus, Live
<1>3. job' = [job EXCEPT ![j] = x]
  BY DEF reschedule
<1>4. Ends(j, x)
  BY <1>2, <1>3, Unlocks DEF Ends, reschedule, Goto, CoreInv
<1>5. RestOK'
  BY Unlocks DEF CoreInv, TypeOK, RestOK, reschedule, web
<1> QED  BY <1>4, <1>5, EndsKeepsCore

\* run.start up to its last enqueue, and run.finalize.
LEMMA RunHandlersCore ==
  ASSUME CoreInv, NEW j \in Jobs,
         \/ runStartRead(j) \/ runStartHalt(j) \/ markRunning(j) \/ runStartEnqueue(j)
         \/ runFinalizeRead(j) \/ runFinalize(j)
  PROVE  CoreInv'
<1> USE DEF Goto
<1>1. CASE runStartRead(j)
  <2>1. CASE reschedule(j)
    BY <1>1, <2>1, RescheduleCore DEF runStartRead
  <2>2. ASSUME NEW step \in {"close", "mark"}, Goto(j, step),
               UNCHANGED <<run, account, job, seen, rows, holder, web>>
        PROVE  CoreInv'
    <3>1. GoesOn(j, step)
      BY <1>1, <2>2, SameJobs DEF runStartRead, GoesOn, StepsOf, CoreInv, Locked
    <3>2. RestOK'
      BY <2>2 DEF CoreInv, TypeOK, RestOK, web
    <3> QED  BY <3>1, <3>2, GoesOnKeepsCore
  <2> QED  BY <1>1, <2>1, <2>2 DEF runStartRead
<1>2. ASSUME NEW st \in {"HALTED", "RUNNING", "SUCCEEDED"},
             NEW step \in StepsOf(j.type) \ {"idle"}, step \notin Locked, pc[j] # "idle",
             run' = [run EXCEPT ![j.run].status = st], Goto(j, step),
             UNCHANGED <<account, job, seen, rows, holder, web>>
      PROVE  CoreInv'
  <2>1. GoesOn(j, step)
    BY <1>2, SameJobs DEF GoesOn, CoreInv
  <2>2. run' \in [Runs -> RunRows]
    BY <1>2, RunStatusWritten DEF CoreInv, RunStatus, Live, Terminal
  <2>3. RestOK'
    BY <1>2, <2>2 DEF CoreInv, TypeOK, RestOK, RunRows, web
  <2> QED  BY <2>1, <2>3, GoesOnKeepsCore
<1>3. CASE runStartHalt(j)
  BY <1>2, <1>3, StepKinds DEF runStartHalt, CoreInv, StepsOf, Locked
<1>4. CASE markRunning(j)
  BY <1>2, <1>4, StepKinds DEF markRunning, CoreInv, StepsOf, Locked
<1>5. CASE runFinalize(j)
  BY <1>2, <1>5, StepKinds DEF runFinalize, CoreInv, StepsOf, Locked
<1>6. CASE runStartEnqueue(j)
  <2>1. PICK k \in {Session(j.run), Page(j.run, 1)}, step \in {"first", "done"} :
          job' = Enqueued(k) /\ Goto(j, step) /\ pc[j] \in {"ensure", "first"}
    <3>1. CASE pc[j] = "ensure" /\ job' = Enqueued(Session(j.run)) /\ Goto(j, "first")
      BY <3>1
    <3>2. CASE pc[j] = "first" /\ job' = Enqueued(Page(j.run, 1)) /\ Goto(j, "done")
      BY <3>2
    <3> QED  BY <1>6, <3>1, <3>2 DEF runStartEnqueue
  <2>2. GoesOn(j, step)
    BY <1>6, <2>1, EnqueueRow, StepKinds
       DEF runStartEnqueue, GoesOn, StepsOf, CoreInv, Locked
  <2>3. RestOK'
    BY <1>6 DEF CoreInv, TypeOK, RestOK, runStartEnqueue, web
  <2> QED  BY <2>2, <2>3, GoesOnKeepsCore
<1>7. CASE runFinalizeRead(j)
  <2>1. PICK step \in {"done", "write"} : Goto(j, step)
    BY <1>7 DEF runFinalizeRead
  <2>2. GoesOn(j, step)
    BY <1>7, <2>1, SameJobs DEF runFinalizeRead, GoesOn, StepsOf, CoreInv, Locked
  <2>3. RestOK'
    BY <1>7 DEF CoreInv, TypeOK, RestOK, runFinalizeRead, web
  <2> QED  BY <2>2, <2>3, GoesOnKeepsCore
<1> QED  BY <1>1, <1>3, <1>4, <1>5, <1>6, <1>7

\* The handlers that open a browser, up to what they find there.
LEMMA BrowserHandlersCore ==
  ASSUME CoreInv, NEW j \in Jobs,
         \/ withAccountLock(j) \/ lockUnavailable(j)
         \/ prepare(j) \/ notYet(j) \/ cannotPrepare(j)
         \/ ensureSession(j) \/ visit(j) \/ haltRun(j) \/ containBreach(j)
  PROVE  CoreInv'
<1> USE DEF Goto
<1>1. ASSUME NEW step \in StepsOf(j.type) \ {"idle"}, pc[j] # "idle", Goto(j, step),
             UNCHANGED job, holder' = holder, RestOK',
             step \in Locked => pc[j] \in Locked
      PROVE  CoreInv'
  <2>1. GoesOn(j, step)
    BY <1>1, SameJobs DEF GoesOn, CoreInv, LockInv
  <2> QED  BY <1>1, <2>1, GoesOnKeepsCore
<1>2. CASE withAccountLock(j)
  <2>1. holder # j /\ \A k \in Jobs : holder # k
    BY <1>2, NoneAssumption DEF withAccountLock
  <2>2. "prepare" \in StepsOf(j.type) \ {"idle"}
    BY <1>2, StepKinds DEF withAccountLock, CoreInv, StepsOf
  <2>3. GoesOn(j, "prepare")
    BY <1>2, <2>1, <2>2, SameJobs DEF withAccountLock, GoesOn, CoreInv
  <2>4. RestOK'
    BY <1>2 DEF CoreInv, TypeOK, RestOK, withAccountLock, web
  <2> QED  BY <2>3, <2>4, GoesOnKeepsCore
<1>3. CASE lockUnavailable(j) \/ notYet(j)
  BY <1>3, RescheduleCore DEF lockUnavailable, notYet
<1>4. CASE prepare(j)
  <2>1. "visit" \in StepsOf(j.type) \ {"idle"}
    BY <1>4, StepKinds DEF prepare, CoreInv, StepsOf, Locked
  <2>2. RestOK'
    BY <1>4 DEF CoreInv, TypeOK, RestOK, prepare, web
  <2> QED  BY <1>1, <1>4, <2>1, <2>2 DEF prepare, Locked
<1>5. CASE cannotPrepare(j)
  <2>1. GoesOn(j, "fatal")
    BY <1>5, SameJobs, Unlocks DEF cannotPrepare, GoesOn, CoreInv, StepsOf, Locked
  <2>2. RestOK'
    BY <1>5, Unlocks DEF CoreInv, TypeOK, RestOK, cannotPrepare, web
  <2> QED  BY <2>1, <2>2, GoesOnKeepsCore
<1>6. CASE ensureSession(j)
  <2>1. PICK step \in {"seal", "contain"} : Goto(j, step)
    BY <1>6 DEF ensureSession
  <2>2. step \in StepsOf(j.type) \ {"idle"}
    BY <1>6, <2>1 DEF ensureSession, StepsOf
  <2>3. RestOK'
    BY <1>6 DEF CoreInv, TypeOK, RestOK, ensureSession, web
  <2> QED  BY <1>1, <1>6, <2>1, <2>2, <2>3 DEF ensureSession, Locked
<1>7. CASE visit(j)
  <2>1. PICK step \in {"leads", "seal", "halt", "contain"} :
          /\ Goto(j, step)
          /\ step \in {"leads", "halt"} => j.type = "search.page"
    BY <1>7 DEF visit
  <2>2. step \in StepsOf(j.type) \ {"idle"}
    BY <1>7, <2>1, StepKinds DEF visit, CoreInv, StepsOf, Locked
  <2>3. rows' \in [Jobs -> SUBSET Results]
    BY <1>7 DEF visit, CoreInv, TypeOK
  <2>4. RestOK'
    BY <1>7, <2>3 DEF CoreInv, TypeOK, RestOK, visit, web
  <2> QED  BY <1>1, <1>7, <2>1, <2>2, <2>4 DEF visit, Locked
<1>8. CASE haltRun(j)
  <2>1. run' \in [Runs -> RunRows]
    BY <1>8, RunStatusWritten DEF haltRun, CoreInv, RunStatus, Terminal
  <2>2. RestOK'
    BY <1>8, <2>1 DEF CoreInv, TypeOK, RestOK, RunRows, haltRun, web
  <2>3. "contain" \in StepsOf(j.type) \ {"idle"}
    BY <1>8, StepKinds DEF haltRun, CoreInv, StepsOf
  <2> QED  BY <1>1, <1>8, <2>2, <2>3 DEF haltRun, Locked
<1>9. CASE containBreach(j)
  <2>1. PICK sealed \in BOOLEAN : account' = [account EXCEPT !.session = @ \/ sealed]
    BY <1>9 DEF containBreach
  <2>2. account.session \/ sealed \in BOOLEAN
    BY DEF CoreInv, TypeOK
  <2>3. account' = [account EXCEPT !.session = account.session \/ sealed]
    BY <2>1
  <2>4. account' \in [status : AccountStatus, session : BOOLEAN]
    BY <2>2, <2>3 DEF CoreInv, TypeOK
  <2>5. account.status \in AccountStatus
    BY DEF CoreInv, TypeOK
  <2>6. RestOK'
    BY <1>9, <2>4, <2>5 DEF CoreInv, TypeOK, RestOK, containBreach, web
  <2>7. "challenge" \in StepsOf(j.type) \ {"idle"}
    BY <1>9, StepKinds DEF containBreach, CoreInv, StepsOf, Locked
  <2> QED  BY <1>1, <1>9, <2>6, <2>7 DEF containBreach, Locked
<1> QED  BY <1>2, <1>3, <1>4, <1>5, <1>6, <1>7, <1>8, <1>9

\* The session is stored or kept as it was.
LEMMA SessionWritten ==
  ASSUME TypeOK, NEW b \in BOOLEAN, account' = [account EXCEPT !.session = b]
  PROVE  /\ account' \in [status : AccountStatus, session : BOOLEAN]
         /\ account'.status = account.status
  BY DEF TypeOK

\* The handlers that open a browser, once they have found something.
LEMMA ResultHandlersCore ==
  ASSUME CoreInv, NEW j \in Jobs,
         \/ markChallenged(j) \/ enqueueProfile(j) \/ incrementCounters(j)
         \/ enqueueNextPageOrFinalize(j) \/ updateStorageState(j) \/ markActive(j)
         \/ enqueueSelf(j) \/ sessionFatal(j)
  PROVE  CoreInv'
<1> USE DEF Goto
<1>1. CASE markChallenged(j)
  <2>1. account' \in [status : AccountStatus, session : BOOLEAN]
    BY <1>1, AccountWritten DEF markChallenged, CoreInv, AccountStatus, Blocked
  <2>2. RestOK'
    BY <1>1, <2>1, Forgets, Unlocks DEF CoreInv, TypeOK, RestOK, markChallenged, web
  <2>3. GoesOn(j, "fatal")
    BY <1>1, SameJobs, Unlocks DEF markChallenged, GoesOn, CoreInv, StepsOf, Locked
  <2> QED  BY <2>2, <2>3, GoesOnKeepsCore
<1>2. CASE enqueueProfile(j)
  <2>1. holder = j /\ j.type = "search.page"
    BY <1>2, StepKinds DEF enqueueProfile, CoreInv, LockInv, Locked
  <2>2. RestOK'
    BY <1>2 DEF CoreInv, TypeOK, RestOK, enqueueProfile, web
  <2>3. CASE job' = job /\ Goto(j, "count")
    <3>1. GoesOn(j, "count")
      BY <1>2, <2>1, <2>3, SameJobs DEF enqueueProfile, GoesOn, CoreInv, StepsOf
    <3> QED  BY <2>2, <3>1, GoesOnKeepsCore
  <2>4. ASSUME NEW l \in rows[j] \cap Leads, job' = Enqueued(Profile(j.run, l)), pc' = pc
        PROVE  CoreInv'
    <3>1. pc' = [pc EXCEPT ![j] = "leads"]
      BY <1>2, <2>4 DEF enqueueProfile, CoreInv, TypeOK
    <3>2. GoesOn(j, "leads")
      BY <1>2, <2>1, <2>4, <3>1, EnqueueRow
         DEF enqueueProfile, GoesOn, CoreInv, StepsOf
    <3> QED  BY <2>2, <3>2, GoesOnKeepsCore
  <2> QED  BY <1>2, <2>3, <2>4 DEF enqueueProfile
<1>3. CASE incrementCounters(j)
  <2>1. holder = j /\ j.type = "search.page" /\ j.run \in Runs
    BY <1>3, StepKinds, JobKinds DEF incrementCounters, CoreInv, LockInv, Locked
  <2>2. run' \in [Runs -> RunRows]
    BY <1>3, <2>1 DEF incrementCounters, CoreInv, TypeOK, RunRows
  <2>3. RestOK'
    BY <1>3, <2>2 DEF CoreInv, TypeOK, RestOK, RunRows, incrementCounters, web
  <2>4. GoesOn(j, "next")
    BY <1>3, <2>1, SameJobs DEF incrementCounters, GoesOn, CoreInv, StepsOf
  <2> QED  BY <2>3, <2>4, GoesOnKeepsCore
<1>4. CASE enqueueNextPageOrFinalize(j)
  <2>1. holder = j /\ j.type = "search.page"
    BY <1>4, StepKinds DEF enqueueNextPageOrFinalize, CoreInv, LockInv, Locked
  <2>2. RestOK'
    BY <1>4 DEF CoreInv, TypeOK, RestOK, enqueueNextPageOrFinalize, web
  <2>3. GoesOn(j, "seal")
    BY <1>4, <2>1, EnqueueRow DEF enqueueNextPageOrFinalize, GoesOn, CoreInv, StepsOf
  <2> QED  BY <2>2, <2>3, GoesOnKeepsCore
<1>5. CASE updateStorageState(j)
  <2>1. account' \in [status : AccountStatus, session : BOOLEAN]
    BY <1>5, SessionWritten DEF updateStorageState, CoreInv
  <2>2. holder = j
    BY <1>5 DEF updateStorageState, CoreInv, LockInv, Locked
  <2>3. CASE j.type = "session.ensure"
    <3>1. account.status \in AccountStatus
      BY DEF CoreInv, TypeOK
    <3>2. RestOK'
      BY <1>5, <2>1, <2>3, <3>1 DEF CoreInv, TypeOK, RestOK, updateStorageState, web
    <3>3. GoesOn(j, "activate")
      BY <1>5, <2>2, <2>3, SameJobs DEF updateStorageState, GoesOn, CoreInv, StepsOf
    <3> QED  BY <3>2, <3>3, GoesOnKeepsCore
  <2>4. CASE j.type # "session.ensure"
    <3>1. RestOK'
      BY <1>5, <2>1, <2>4, Forgets, Unlocks
         DEF CoreInv, TypeOK, RestOK, updateStorageState, web
    <3>2. GoesOn(j, "done")
      BY <1>5, <2>4, SameJobs, Unlocks DEF updateStorageState, GoesOn, CoreInv, StepsOf, Locked
    <3> QED  BY <3>1, <3>2, GoesOnKeepsCore
  <2> QED  BY <2>3, <2>4
<1>6. CASE markActive(j)
  <2>1. account' \in [status : AccountStatus, session : BOOLEAN]
    BY <1>6, AccountWritten DEF markActive, CoreInv, AccountStatus
  <2>2. RestOK'
    BY <1>6, <2>1, Forgets DEF CoreInv, TypeOK, RestOK, markActive, web
  <2>3. holder = j /\ j.type = "session.ensure"
    BY <1>6, StepKinds DEF markActive, CoreInv, LockInv, Locked
  <2>4. GoesOn(j, "self")
    BY <1>6, <2>3, SameJobs DEF markActive, GoesOn, CoreInv, StepsOf
  <2> QED  BY <2>2, <2>4, GoesOnKeepsCore
<1>7. CASE sessionFatal(j)
  <2>1. RestOK'
    BY <1>7, Forgets, Unlocks DEF CoreInv, TypeOK, RestOK, sessionFatal, web
  <2>2. GoesOn(j, "fatal")
    BY <1>7, SameJobs, Unlocks DEF sessionFatal, GoesOn, CoreInv, StepsOf, Locked
  <2> QED  BY <2>1, <2>2, GoesOnKeepsCore
<1>8. CASE enqueueSelf(j)
  <2>1. RestOK'
    BY <1>8, Unlocks DEF CoreInv, TypeOK, RestOK, enqueueSelf, web
  <2>2. job' \in [Jobs -> JobRows] /\ \A k \in Jobs : job'[k] = job[k] \/ Created(k)
    BY <1>8, SameJobs, EnqueueRow DEF enqueueSelf, CoreInv
  <2>3. GoesOn(j, "done")
    BY <1>8, <2>2, Unlocks DEF enqueueSelf, GoesOn, CoreInv, StepsOf, Locked
  <2> QED  BY <2>1, <2>3, GoesOnKeepsCore
<1> QED  BY <1>1, <1>2, <1>3, <1>4, <1>5, <1>6, <1>7, <1>8

\* The queue begins and ends a handler, and a person revives a job.
LEMMA QueueCore ==
  ASSUME CoreInv, NEW j \in Jobs,
         claim(j) \/ fail(j) \/ finishJob(j) \/ retryDeadJob(j)
  PROVE  CoreInv'
<1> USE DEF Goto
<1> DEFINE a == job[j].attempts
<1>1. a \in 0..MaxAttempts /\ a \in Nat /\ MaxAttempts \in Nat /\ 0 < MaxAttempts
  BY RowTypes DEF CoreInv
<1>2. ASSUME NEW st \in {"QUEUED", "SUCCEEDED", "DEAD"},
             st = "QUEUED" => a < MaxAttempts,
             job' = [job EXCEPT ![j].status = st], pc[j] # "idle", Goto(j, "idle"),
             \A k \in Jobs \ {j} : holder = k => holder' = k, RestOK'
      PROVE  CoreInv'
  <2> DEFINE x == [status |-> st, attempts |-> a]
  <2>1. x \in JobRows
    BY <1>1 DEF JobRows, JobStatus, Live
  <2>2. job[j] \in JobRows
    BY RowTypes DEF CoreInv
  <2>3. [job[j] EXCEPT !.status = st] = x
    BY <2>2, RowUpdates
  <2>4. job' = [job EXCEPT ![j] = x]
    BY <1>2, <2>3
  <2>5. Ends(j, x)
    BY <1>2, <2>1, <2>4 DEF Ends
  <2> QED  BY <1>2, <2>5, EndsKeepsCore
<1>3. CASE fail(j)
  <2>1. RestOK'
    BY <1>3, Forgets, Unlocks DEF CoreInv, TypeOK, RestOK, fail, web
  <2>2. CASE a < MaxAttempts
    BY <1>2, <1>3, <2>1, <2>2, Unlocks DEF fail, CoreInv
  <2>3. CASE ~(a < MaxAttempts)
    BY <1>2, <1>3, <2>1, <2>3, Unlocks DEF fail, CoreInv
  <2> QED  BY <2>2, <2>3
<1>4. CASE finishJob(j)
  <2>1. RestOK'
    BY <1>4 DEF CoreInv, TypeOK, RestOK, finishJob, web
  <2> QED  BY <1>2, <1>4, <2>1 DEF finishJob
<1>5. ASSUME NEW x \in JobRows, job' = [job EXCEPT ![j] = x], pc[j] = "idle",
             NEW step \in {"lock", "read", "idle"}, Goto(j, step),
             step \in StepsOf(j.type),
             step # "idle" <=> x.status = "RUNNING", x.status \in {"QUEUED", "RUNNING"},
             x.status = "QUEUED" => x.attempts < MaxAttempts,
             x.status = "RUNNING" => x.attempts >= 1,
             UNCHANGED <<run, account, seen, rows, holder, web>>
      PROVE  CoreInv'
  <2>1. pc \in [Jobs -> Step] /\ step \in Step
    BY <1>5 DEF CoreInv, TypeOK, Step
  <2>2. pc'[j] = step /\ pc' \in [Jobs -> Step] /\ \A k \in Jobs \ {j} : pc'[k] = pc[k]
    BY <1>5, <2>1
  <2>3. job'[j] = x /\ (\A k \in Jobs \ {j} : job'[k] = job[k])
        /\ job' \in [Jobs -> JobRows]
    BY <1>5, RowReplaced DEF CoreInv
  <2>4. TypeOK'
    BY <1>5, <2>2, <2>3 DEF CoreInv, TypeOK, JobRows, web
  <2>5. JobInv'
    BY <1>5, <2>2, <2>3 DEF CoreInv, JobInv
  <2>6. StepInv'
    BY <1>5, <2>2 DEF CoreInv, StepInv
  <2>7. LockInv'
    BY <1>5, <2>2 DEF CoreInv, LockInv, Locked
  <2> QED  BY <2>4, <2>5, <2>6, <2>7 DEF CoreInv
<1>6. CASE claim(j)
  <2> DEFINE x == [status |-> "RUNNING", attempts |-> a + 1]
  <2>1. a < MaxAttempts /\ pc[j] = "idle"
    BY <1>6 DEF claim, CoreInv, JobInv
  <2>2. x \in JobRows /\ x.attempts >= 1 /\ x.status = "RUNNING"
    BY <1>1, <2>1 DEF JobRows, JobStatus, Live
  <2>3. CASE j \in Browsing
    <3>1. "lock" \in StepsOf(j.type)
      BY <2>3 DEF Browsing, StepsOf
    <3> QED  BY <1>5, <1>6, <2>1, <2>2, <2>3, <3>1 DEF claim
  <2>4. CASE j \notin Browsing
    <3>1. "read" \in StepsOf(j.type)
      BY <2>4 DEF Browsing, StepsOf
    <3> QED  BY <1>5, <1>6, <2>1, <2>2, <2>4, <3>1 DEF claim
  <2> QED  BY <2>3, <2>4
<1>7. CASE retryDeadJob(j)
  <2> DEFINE x == [status |-> "QUEUED", attempts |-> 0]
  <2>1. x \in JobRows /\ x.attempts < MaxAttempts /\ x.status = "QUEUED"
    BY <1>1 DEF JobRows, JobStatus, Live
  <2>2. pc[j] = "idle"
    BY <1>7 DEF retryDeadJob, CoreInv, JobInv
  <2>3. pc' = [pc EXCEPT ![j] = "idle"] /\ "idle" \in StepsOf(j.type)
    BY <1>7, <2>2 DEF retryDeadJob, CoreInv, TypeOK, StepsOf
  <2> QED  BY <1>5, <1>7, <2>1, <2>2, <2>3 DEF retryDeadJob
<1> QED  BY <1>3, <1>4, <1>6, <1>7

\* The web requests.
LEMMA RequestCore ==
  ASSUME CoreInv, NEW r \in Runs, Request(r) \/ webCrash(r)
  PROVE  CoreInv'
<1>1. ASSUME pc' = pc, holder' = holder, job' \in [Jobs -> JobRows], RestOK',
             \A j \in Jobs : \/ job'[j] = job[j]
                             \/ Created(j)
                             \/ job[j].status = "QUEUED" /\ job'[j].status = "CANCELLED"
      PROVE  CoreInv'
  <2>1. TypeOK'
    BY <1>1 DEF CoreInv, TypeOK, RestOK, JobRows
  <2>2. JobInv'
    <3> SUFFICES ASSUME NEW j \in Jobs
                 PROVE  /\ pc'[j] # "idle" <=> job'[j].status = "RUNNING"
                        /\ job'[j].status = "ABSENT" => job'[j].attempts = 0
                        /\ job'[j].status = "QUEUED" => job'[j].attempts < MaxAttempts
                        /\ job'[j].status = "RUNNING" => job'[j].attempts >= 1
      BY DEF JobInv
    <3>1. CASE job'[j] = job[j]
      BY <1>1, <3>1 DEF CoreInv, JobInv
    <3>2. CASE Created(j)
      <4>1. job'[j].attempts = 0 /\ job'[j].status = "QUEUED"
        BY <3>2 DEF Created
      <4>2. pc'[j] = "idle"
        BY <1>1, <3>2 DEF CoreInv, JobInv, Created
      <4>3. 0 < MaxAttempts
        BY RowTypes DEF CoreInv
      <4> QED  BY <4>1, <4>2, <4>3
    <3>3. CASE job[j].status = "QUEUED" /\ job'[j].status = "CANCELLED"
      BY <1>1, <3>3 DEF CoreInv, JobInv
    <3> QED  BY <1>1, <3>1, <3>2, <3>3
  <2>3. StepInv' /\ LockInv'
    BY <1>1 DEF CoreInv, StepInv, LockInv
  <2> QED  BY <2>1, <2>2, <2>3 DEF CoreInv
<1>2. CASE startRun(r) \/ cancelRun(r) \/ webCrash(r)
  <2>1. run[r].status \in RunStatus
    BY DEF CoreInv, TypeOK
  <2>2. UNCHANGED <<run, account, job, pc, seen, rows, holder>>
    BY <1>2 DEF startRun, cancelRun, webCrash
  <2>3. starting' \in [Runs -> {"idle", "create", "enqueue", "over"}]
    BY <1>2 DEF CoreInv, TypeOK, startRun, cancelRun, webCrash
  <2>4. cancel' \in [Runs -> [at: {"idle", "sweep", "settle", "over", "lost"},
                             saw: RunStatus \cup {None}]]
    BY <1>2, <2>1 DEF CoreInv, TypeOK, startRun, cancelRun, webCrash
  <2>5. RestOK'
    BY <2>2, <2>3, <2>4 DEF CoreInv, TypeOK, RestOK
  <2> QED  BY <1>1, <2>2, <2>5, SameJobs DEF CoreInv
<1>3. CASE startRunCreate(r) \/ cancelRunSettle(r)
  <2>1. run' \in [Runs -> RunRows]
    BY <1>3, RunStatusWritten
       DEF CoreInv, TypeOK, RunRows, RunStatus, Terminal, startRunCreate, cancelRunSettle
  <2>2. UNCHANGED <<account, job, pc, seen, rows, holder>>
    BY <1>3 DEF startRunCreate, cancelRunSettle
  <2>3. starting' \in [Runs -> {"idle", "create", "enqueue", "over"}]
    BY <1>3 DEF CoreInv, TypeOK, startRunCreate, cancelRunSettle
  <2>4. cancel' \in [Runs -> [at: {"idle", "sweep", "settle", "over", "lost"},
                             saw: RunStatus \cup {None}]]
    <3>1. CASE startRunCreate(r)
      BY <3>1 DEF CoreInv, TypeOK, startRunCreate
    <3>2. CASE cancelRunSettle(r)
      BY <3>2 DEF CoreInv, TypeOK, cancelRunSettle
    <3> QED  BY <1>3, <3>1, <3>2
  <2>5. RestOK'
    BY <2>1, <2>2, <2>3, <2>4 DEF CoreInv, TypeOK, RestOK, RunRows
  <2> QED  BY <1>1, <2>2, <2>5, SameJobs DEF CoreInv
<1>4. CASE startRunEnqueue(r)
  <2>1. RestOK'
    BY <1>4 DEF CoreInv, TypeOK, RestOK, startRunEnqueue
  <2> QED  BY <1>1, <1>4, <2>1, EnqueueRow DEF CoreInv, startRunEnqueue
<1>5. CASE cancelRunJobs(r)
  <2>1. RestOK'
    BY <1>5 DEF CoreInv, TypeOK, RestOK, cancelRunJobs
  <2>2. \A j \in Jobs :
          /\ job[j] \in JobRows
          /\ [job[j] EXCEPT !.status = "CANCELLED"] \in JobRows
          /\ [job[j] EXCEPT !.status = "CANCELLED"].status = "CANCELLED"
    BY DEF CoreInv, TypeOK, JobRows, JobStatus
  <2>3. job' \in [Jobs -> JobRows]
    BY <1>5, <2>2 DEF cancelRunJobs
  <2>4. \A j \in Jobs : \/ job'[j] = job[j]
                        \/ job[j].status = "QUEUED" /\ job'[j].status = "CANCELLED"
    BY <1>5, <2>2 DEF cancelRunJobs
  <2> QED  BY <1>1, <1>5, <2>1, <2>3, <2>4 DEF cancelRunJobs
<1> QED  BY <1>2, <1>3, <1>4, <1>5 DEF Request

\* Initially there is no job and no handler.
LEMMA InitCore == Init => CoreInv
<1> SUFFICES ASSUME Init PROVE CoreInv
  OBVIOUS
<1>1. TypeOK
  BY RunAssumption
     DEF Init, TypeOK, RunStatus, AccountStatus, JobStatus, Step, RunAssumption
<1>2. JobInv /\ StepInv /\ LockInv
  BY DEF Init, JobInv, StepInv, LockInv, StepsOf, Locked
<1> QED  BY <1>1, <1>2 DEF CoreInv

\* Every step keeps the core invariant.
LEMMA NextCore == CoreInv /\ [Next]_vars => CoreInv'
<1> SUFFICES ASSUME CoreInv, [Next]_vars PROVE CoreInv'
  OBVIOUS
<1>1. CASE UNCHANGED vars
  BY <1>1 DEF vars, CoreInv, TypeOK, JobInv, StepInv, LockInv
<1>2. ASSUME NEW j \in Jobs, Work(j) PROVE CoreInv'
  BY <1>2, RunHandlersCore, BrowserHandlersCore, ResultHandlersCore, QueueCore DEF Work
<1>3. ASSUME NEW j \in Jobs, claim(j) \/ fail(j) \/ sessionFatal(j) \/ retryDeadJob(j)
      PROVE  CoreInv'
  BY <1>3, ResultHandlersCore, QueueCore
<1>4. ASSUME NEW r \in Runs, Request(r) \/ webCrash(r) PROVE CoreInv'
  BY <1>4, RequestCore
<1> QED  BY <1>1, <1>2, <1>3, <1>4 DEF Next

\* In every behaviour, a job has a handler exactly while it is RUNNING, a QUEUED
\* job has an attempt left, and a handler at a step under the lock holds the lock.
THEOREM CoreInvariant == Spec => []CoreInv
  BY InitCore, NextCore, PTL DEF Spec

\* The tables and the handlers keep their shape, and no job is tried more often
\* than Job.maxAttempts.
THEOREM RunTypeOK == Spec => []TypeOK
<1>1. CoreInv => TypeOK
  BY DEF CoreInv
<1> QED  BY <1>1, CoreInvariant, PTL

-----------------------------------------------------------------------------
(* The status a handler acts on.                                            *)

\* A handler's next step is one job's, and leaves the others where they were.
LEMMA OneHandler ==
  ASSUME TypeOK, NEW j \in Jobs, NEW step, Goto(j, step)
  PROVE  pc'[j] = step /\ \A k \in Jobs \ {j} : pc'[k] = pc[k]
  BY DEF TypeOK, Goto

\* The handler at a step under the lock is the only one.
LEMMA OneLocked ==
  ASSUME LockInv, NEW j \in Jobs, NEW k \in Jobs, pc[j] \in Locked, pc[k] \in Locked
  PROVE  j = k
  BY DEF LockInv

Reading == {"challenge", "activate"}

\* A step of one handler that does not write the status, nor begins a transition.
LEMMA StatusKept ==
  ASSUME StatusReadIsCurrent, NEW j \in Jobs,
         account'.status = account.status, pc'[j] \notin Reading,
         \A k \in Jobs \ {j} : pc'[k] = pc[k] /\ seen'[k] = seen[k]
  PROVE  StatusReadIsCurrent'
  BY DEF StatusReadIsCurrent, Reading

\* A handler's step keeps what the others have read.
LEMMA WorkKeepsStatus ==
  ASSUME CoreInv, StatusReadIsCurrent, NEW j \in Jobs, Work(j)
  PROVE  StatusReadIsCurrent'
<1> USE DEF Reading
<1>1. TypeOK /\ LockInv
  BY DEF CoreInv
<1>2. ASSUME reschedule(j) PROVE StatusReadIsCurrent'
  BY <1>1, <1>2, OneHandler, StatusKept DEF reschedule
<1>3. CASE \/ runStartRead(j) \/ runStartHalt(j) \/ markRunning(j) \/ runStartEnqueue(j)
           \/ runFinalizeRead(j) \/ runFinalize(j)
  <2>1. CASE reschedule(j)
    BY <1>2, <2>1
  <2>2. ASSUME NEW step \in Step \ Reading, Goto(j, step), seen' = seen, account' = account
        PROVE  StatusReadIsCurrent'
    BY <1>1, <2>2, OneHandler, StatusKept
  <2>3. \/ reschedule(j)
        \/ \E step \in Step \ Reading : Goto(j, step) /\ seen' = seen /\ account' = account
    BY <1>3 DEF runStartRead, runStartHalt, markRunning, runStartEnqueue, runFinalizeRead,
                runFinalize, Step, Locked
  <2> QED  BY <2>1, <2>2, <2>3
<1>4. CASE \/ withAccountLock(j) \/ prepare(j) \/ cannotPrepare(j) \/ ensureSession(j)
           \/ visit(j) \/ haltRun(j) \/ enqueueNextPageOrFinalize(j) \/ incrementCounters(j)
           \/ finishJob(j)
  <2>1. \E step \in Step \ Reading : Goto(j, step) /\ seen' = seen /\ account' = account
    BY <1>4 DEF withAccountLock, prepare, cannotPrepare, ensureSession, visit, haltRun,
                enqueueNextPageOrFinalize, incrementCounters, finishJob, Step, Locked
  <2> QED  BY <1>1, <2>1, OneHandler, StatusKept
<1>5. CASE lockUnavailable(j) \/ notYet(j)
  BY <1>2, <1>5 DEF lockUnavailable, notYet
<1>6. CASE containBreach(j)
  <2>1. pc'[j] = "challenge" /\ \A k \in Jobs \ {j} : pc'[k] = pc[k]
    BY <1>1, <1>6, OneHandler DEF containBreach
  <2>2. seen'[j] = account.status /\ \A k \in Jobs \ {j} : seen'[k] = seen[k]
    BY <1>1, <1>6 DEF containBreach, TypeOK
  <2>3. account'.status = account.status
    BY <1>1, <1>6 DEF containBreach, TypeOK
  <2> QED  BY <2>1, <2>2, <2>3 DEF StatusReadIsCurrent
<1>7. CASE markChallenged(j) \/ markActive(j)
  <2>1. pc[j] \in Locked
    BY <1>7 DEF markChallenged, markActive, Locked
  <2>2. PICK step \in {"fatal", "self"} : Goto(j, step)
    BY <1>7 DEF markChallenged, markActive
  <2>3. \A k \in Jobs : pc'[k] \notin Reading
    <3> SUFFICES ASSUME NEW k \in Jobs, pc'[k] \in Reading PROVE FALSE
      OBVIOUS
    <3>1. k # j /\ pc[k] \in Locked
      BY <1>1, <2>2, OneHandler DEF Locked
    <3> QED  BY <1>1, <2>1, <3>1, OneLocked
  <2> QED  BY <2>3 DEF StatusReadIsCurrent
<1>8. CASE enqueueProfile(j)
  <2>1. (pc' = pc \/ Goto(j, "count")) /\ seen' = seen /\ account' = account
        /\ pc[j] = "leads"
    BY <1>8 DEF enqueueProfile
  <2>2. pc'[j] \notin Reading /\ \A k \in Jobs \ {j} : pc'[k] = pc[k]
    BY <1>1, <2>1, OneHandler
  <2> QED  BY <2>1, <2>2, StatusKept
<1>9. CASE updateStorageState(j)
  <2>1. account'.status = account.status
    BY <1>1, <1>9, SessionWritten DEF updateStorageState
  <2>2. CASE j.type = "session.ensure"
    <3>1. pc'[j] = "activate" /\ \A k \in Jobs \ {j} : pc'[k] = pc[k]
      BY <1>1, <1>9, <2>2, OneHandler DEF updateStorageState
    <3>2. seen'[j] = account.status /\ \A k \in Jobs \ {j} : seen'[k] = seen[k]
      BY <1>1, <1>9, <2>2 DEF updateStorageState, TypeOK
    <3> QED  BY <2>1, <3>1, <3>2 DEF StatusReadIsCurrent
  <2>3. CASE j.type # "session.ensure"
    BY <1>1, <1>9, <2>1, <2>3, OneHandler, Forgets, StatusKept DEF updateStorageState
  <2> QED  BY <2>2, <2>3
<1>10. CASE enqueueSelf(j)
  <2>1. pc'[j] \notin Reading /\ \A k \in Jobs \ {j} : pc'[k] = pc[k]
    BY <1>1, <1>10, OneHandler DEF enqueueSelf
  <2> QED  BY <1>10, <2>1, StatusKept DEF enqueueSelf
<1> QED  BY <1>3, <1>4, <1>5, <1>6, <1>7, <1>8, <1>9, <1>10 DEF Work

\* Every step keeps what the handlers have read.
LEMMA NextStatus == CoreInv /\ StatusReadIsCurrent /\ [Next]_vars => StatusReadIsCurrent'
<1> SUFFICES ASSUME CoreInv, StatusReadIsCurrent, [Next]_vars PROVE StatusReadIsCurrent'
  OBVIOUS
<1>1. TypeOK
  BY DEF CoreInv
<1>2. CASE UNCHANGED <<account, pc, seen>>
  BY <1>2 DEF StatusReadIsCurrent
<1>3. ASSUME NEW j \in Jobs, fail(j) \/ sessionFatal(j) PROVE StatusReadIsCurrent'
  BY <1>1, <1>3, OneHandler, Forgets, StatusKept DEF fail, sessionFatal, Reading
<1>4. ASSUME NEW j \in Jobs, claim(j) PROVE StatusReadIsCurrent'
  BY <1>1, <1>4, OneHandler, StatusKept DEF claim, Reading
<1>5. ASSUME NEW j \in Jobs, retryDeadJob(j) PROVE StatusReadIsCurrent'
  BY <1>2, <1>5 DEF retryDeadJob
<1>6. ASSUME NEW r \in Runs, Request(r) \/ webCrash(r) PROVE StatusReadIsCurrent'
  BY <1>2, <1>6 DEF Request, startRun, startRunCreate, startRunEnqueue, cancelRun,
                    cancelRunJobs, cancelRunSettle, webCrash
<1> QED  BY <1>2, <1>3, <1>4, <1>5, <1>6, WorkKeepsStatus DEF Next, vars

\* A worker never writes an account's status upon a status that has changed since it
\* was read: transition's read and its write are two statements, and the account lock
\* keeps every other handler from coming between them.
THEOREM RunStatusReadIsCurrent == Spec => []StatusReadIsCurrent
<1>1. Init => StatusReadIsCurrent
  BY DEF Init, StatusReadIsCurrent
<1> QED  BY <1>1, CoreInvariant, NextStatus, PTL DEF Spec

-----------------------------------------------------------------------------
(* The counter and the last page of a run.                                  *)

Present(j) == job[j].status # "ABSENT"

\* A run's counter.  The page whose handler has counted and not yet enqueued is
\* covered already, and by one more once run.finalize is there.
CountInv ==
  /\ \A r \in Runs : \A n \in 1..MaxPages : Present(Page(r, n)) =>
       /\ run[r].pagesDone >= n - 1
       /\ Present(Final(r)) => run[r].pagesDone >= n
       /\ \A m \in 1..MaxPages : pc[Page(r, m)] = "next" =>
            /\ run[r].pagesDone >= n
            /\ Present(Final(r)) => run[r].pagesDone >= n + 1
  /\ \A r \in Runs : Present(Final(r)) => run[r].pagesDone >= 1

\* A handler of the chain has enqueued what comes after its job.
Past(j) == job[j].status = "SUCCEEDED" \/ pc[j] \in {"seal", "done"}

\* The last page of a run that has a row.
Last(r, n) == /\ Present(Page(r, n))
              /\ \A m \in 1..MaxPages : m > n => ~Present(Page(r, m))

\* A start that is over made the first page, and behind the last page stands
\* run.finalize, unless its handler has yet to enqueue what comes next.
ChainInv ==
  \A r \in Runs :
    /\ Past(Start(r)) => Present(Page(r, 1))
    /\ (\E n \in 1..MaxPages : Present(Page(r, n))) =>
         \E n \in 1..MaxPages : Last(r, n) /\ (Present(Final(r)) \/ ~Past(Page(r, n)))

\* A run that is RUNNING was started by its run.start.
StartInv == \A r \in Runs : run[r].status = "RUNNING" => Present(Start(r))

\* A step that counts no page, makes no job of the chain but its start, and takes no
\* handler past its enqueue.
Quiet ==
  /\ \A r \in Runs : run'[r].pagesDone = run[r].pagesDone
  /\ \A j \in Jobs :
       /\ Present(j) => Present(j)'
       /\ j.type \in {"search.page", "run.finalize"} => (Present(j)' => Present(j))
       /\ pc'[j] = "next" => pc[j] = "next"
       /\ j.type \in {"run.start", "search.page"} => (Past(j)' => Past(j))

\* The jobs the two invariants are about.
LEMMA ChainJobs ==
  ASSUME NEW r \in Runs
  PROVE  /\ Start(r) \in Jobs /\ Start(r).type = "run.start"
         /\ Final(r) \in Jobs /\ Final(r).type = "run.finalize"
         /\ \A n \in 1..MaxPages : Page(r, n) \in Jobs /\ Page(r, n).type = "search.page"
         /\ 1 \in 1..MaxPages
  BY KeysAreJobs, KeyFields

\* A quiet step changes nothing the counter's invariant is about.
LEMMA QuietKeepsCount ==
  ASSUME CountInv, Quiet
  PROVE  CountInv'
<1> SUFFICES ASSUME NEW r \in Runs
             PROVE  /\ \A n \in 1..MaxPages : Present(Page(r, n))' =>
                         /\ run'[r].pagesDone >= n - 1
                         /\ Present(Final(r))' => run'[r].pagesDone >= n
                         /\ \A m \in 1..MaxPages : pc'[Page(r, m)] = "next" =>
                              /\ run'[r].pagesDone >= n
                              /\ Present(Final(r))' => run'[r].pagesDone >= n + 1
                    /\ Present(Final(r))' => run'[r].pagesDone >= 1
  BY DEF CountInv
<1>1. run'[r].pagesDone = run[r].pagesDone
  BY DEF Quiet
<1>2. Present(Final(r))' => Present(Final(r))
  BY ChainJobs DEF Quiet
<1>3. \A n \in 1..MaxPages : /\ Present(Page(r, n))' => Present(Page(r, n))
                             /\ pc'[Page(r, n)] = "next" => pc[Page(r, n)] = "next"
  BY ChainJobs DEF Quiet
<1> QED  BY <1>1, <1>2, <1>3 DEF CountInv

\* A quiet step leaves the last page where it is.
LEMMA QuietKeepsChain ==
  ASSUME ChainInv, Quiet
  PROVE  ChainInv'
<1> SUFFICES ASSUME NEW r \in Runs
             PROVE  /\ Past(Start(r))' => Present(Page(r, 1))'
                    /\ (\E n \in 1..MaxPages : Present(Page(r, n))') =>
                         \E n \in 1..MaxPages :
                           Last(r, n)' /\ (Present(Final(r))' \/ ~Past(Page(r, n))')
  BY DEF ChainInv
<1>1. Past(Start(r))' => Present(Page(r, 1))'
  BY ChainJobs DEF Quiet, ChainInv
<1>2. Present(Final(r)) => Present(Final(r))'
  BY ChainJobs DEF Quiet
<1>3. \A n \in 1..MaxPages : /\ Present(Page(r, n))' <=> Present(Page(r, n))
                             /\ Past(Page(r, n))' => Past(Page(r, n))
  BY ChainJobs DEF Quiet
<1>4. \A n \in 1..MaxPages : Last(r, n) => Last(r, n)'
  BY <1>3 DEF Last
<1> QED  BY <1>1, <1>2, <1>3, <1>4 DEF ChainInv

\* One handler, or the queue on one job, makes a quiet step.
LEMMA OneJobQuiet ==
  ASSUME CoreInv, NEW j \in Jobs,
         \A r \in Runs : run'[r].pagesDone = run[r].pagesDone,
         \A k \in Jobs \ {j} :
           /\ pc'[k] = pc[k]
           /\ \/ job'[k] = job[k]
              \/ Created(k) /\ k.type \notin {"search.page", "run.finalize"},
         Present(j), Present(j)', pc'[j] # "next",
         j.type \in {"run.start", "search.page"} => (Past(j)' => Past(j))
  PROVE  Quiet
<1> SUFFICES ASSUME NEW k \in Jobs \ {j}
             PROVE  /\ Present(k) => Present(k)'
                    /\ k.type \in {"search.page", "run.finalize"} =>
                         (Present(k)' => Present(k))
                    /\ Past(k)' => Past(k)
  BY DEF Quiet
<1>1. pc'[k] = pc[k]
  OBVIOUS
<1>2. CASE job'[k] = job[k]
  BY <1>1, <1>2 DEF Present, Past
<1>3. CASE Created(k) /\ k.type \notin {"search.page", "run.finalize"}
  <2>1. pc[k] = "idle"
    BY <1>3 DEF CoreInv, JobInv, Created
  <2> QED  BY <1>1, <1>3, <2>1 DEF Created, Present, Past
<1> QED  BY <1>2, <1>3

SameCounters == \A r \in Runs : run'[r].pagesDone = run[r].pagesDone

\* A handler that makes no job and does not get past its enqueue makes a quiet step.
LEMMA OnwardQuiet ==
  ASSUME CoreInv, NEW j \in Jobs, pc[j] # "idle", NEW step, Goto(j, step), step # "next",
         job' = job, SameCounters,
         j.type \in {"run.start", "search.page"} /\ step \in {"seal", "done"} => Past(j)
  PROVE  Quiet
<1>1. pc'[j] = step /\ \A k \in Jobs \ {j} : pc'[k] = pc[k]
  BY OneHandler DEF CoreInv
<1>2. Present(j) /\ Present(j)'
  BY DEF CoreInv, JobInv, Present
<1>3. j.type \in {"run.start", "search.page"} => (Past(j)' => Past(j))
  BY <1>1 DEF Past
<1> QED  BY <1>1, <1>2, <1>3, OneJobQuiet DEF SameCounters

\* A push-back is quiet.
LEMMA RescheduleQuiet ==
  ASSUME CoreInv, NEW j \in Jobs, pc[j] # "idle", reschedule(j)
  PROVE  Quiet
<1> DEFINE x == [status |-> "QUEUED", attempts |-> job[j].attempts - 1]
<1>1. pc'[j] = "idle" /\ \A k \in Jobs \ {j} : pc'[k] = pc[k]
  BY OneHandler DEF CoreInv, reschedule
<1>2. job' = [job EXCEPT ![j] = x]
  BY DEF reschedule
<1>3. job'[j].status = "QUEUED" /\ \A k \in Jobs \ {j} : job'[k] = job[k]
  BY <1>2 DEF CoreInv, TypeOK
<1>4. Present(j) /\ Present(j)' /\ ~Past(j)'
  BY <1>1, <1>3 DEF CoreInv, JobInv, Present, Past
<1>5. \A r \in Runs : run'[r].pagesDone = run[r].pagesDone
  BY DEF reschedule
<1> QED  BY <1>1, <1>3, <1>4, <1>5, OneJobQuiet

\* Every step of a handler is quiet but three: run.start makes the first page, a page
\* is counted, and a page's handler enqueues the next one or run.finalize.
LEMMA WorkQuiet ==
  ASSUME CoreInv, NEW j \in Jobs, Work(j), pc[j] \notin {"first", "count", "next"}
  PROVE  Quiet
<1> USE DEF Goto
<1>1. ASSUME NEW st \in RunStatus, run' = [run EXCEPT ![j.run].status = st]
      PROVE  SameCounters
  BY <1>1, RunStatusWritten DEF CoreInv, SameCounters
<1>2. CASE runStartRead(j)
  <2>1. CASE reschedule(j)
    BY <1>2, <2>1, RescheduleQuiet DEF runStartRead
  <2>2. CASE ~reschedule(j)
    BY <1>2, <2>2, OnwardQuiet DEF runStartRead, SameCounters
  <2> QED  BY <2>1, <2>2
<1>3. CASE runStartHalt(j) \/ markRunning(j) \/ haltRun(j)
  <2>1. SameCounters
    BY <1>1, <1>3 DEF runStartHalt, markRunning, haltRun, RunStatus, Live, Terminal
  <2> QED  BY <1>3, <2>1, OnwardQuiet DEF runStartHalt, markRunning, haltRun
<1>4. CASE runStartEnqueue(j)
  <2>1. job' = Enqueued(Session(j.run)) /\ Goto(j, "first") /\ pc[j] = "ensure"
        /\ SameCounters
    BY <1>4 DEF runStartEnqueue, SameCounters
  <2>2. pc'[j] = "first" /\ \A k \in Jobs \ {j} : pc'[k] = pc[k]
    BY <2>1, OneHandler DEF CoreInv
  <2>3. Session(j.run).type = "session.ensure" /\ j.type = "run.start"
    BY <2>1, StepKinds, KeyFields DEF CoreInv
  <2>4. \A k \in Jobs \ {j} : \/ job'[k] = job[k]
                              \/ Created(k) /\ k.type = "session.ensure"
    BY <2>1, <2>3, EnqueueRow DEF CoreInv
  <2>5. job'[j] = job[j]
    BY <2>1, <2>3, EnqueueRow DEF CoreInv
  <2>6. Present(j) /\ Present(j)' /\ ~Past(j)'
    BY <2>1, <2>2, <2>5 DEF CoreInv, JobInv, Present, Past
  <2> QED  BY <2>1, <2>2, <2>4, <2>6, OneJobQuiet DEF SameCounters
<1>5. CASE withAccountLock(j) \/ prepare(j) \/ cannotPrepare(j) \/ containBreach(j)
           \/ markChallenged(j)
  BY <1>5, OnwardQuiet
     DEF withAccountLock, prepare, cannotPrepare, containBreach, markChallenged, SameCounters
<1>6. CASE lockUnavailable(j) \/ notYet(j)
  BY <1>6, RescheduleQuiet DEF lockUnavailable, notYet
<1>7. CASE ensureSession(j)
  BY <1>7, OnwardQuiet DEF ensureSession, SameCounters
<1>8. CASE visit(j)
  <2>1. j.type # "run.start"
    BY <1>8, StepKinds DEF visit, CoreInv, Locked
  <2> QED  BY <1>8, <2>1, OnwardQuiet DEF visit, SameCounters
<1>9. CASE enqueueProfile(j)
  <2>1. j.type = "search.page" /\ SameCounters
    BY <1>9, StepKinds DEF enqueueProfile, CoreInv, SameCounters
  <2>2. CASE job' = job /\ Goto(j, "count")
    BY <1>9, <2>1, <2>2, OnwardQuiet DEF enqueueProfile
  <2>3. ASSUME NEW l \in rows[j] \cap Leads, job' = Enqueued(Profile(j.run, l)), pc' = pc
        PROVE  Quiet
    <3>1. Profile(j.run, l).type = "profile"
      BY KeyFields
    <3>2. \A k \in Jobs : \/ job'[k] = job[k]
                          \/ Created(k) /\ k.type = "profile"
      BY <2>3, <3>1, EnqueueRow DEF CoreInv
    <3>3. job'[j] = job[j] /\ pc'[j] = "leads"
      BY <1>9, <2>1, <2>3, <3>2 DEF enqueueProfile
    <3>4. Present(j) /\ Present(j)' /\ ~Past(j)'
      BY <1>9, <3>3 DEF CoreInv, JobInv, Present, Past, enqueueProfile
    <3> QED  BY <2>1, <2>3, <3>2, <3>3, <3>4, OneJobQuiet DEF SameCounters
  <2> QED  BY <1>9, <2>2, <2>3 DEF enqueueProfile
<1>10. CASE updateStorageState(j)
  <2>1. pc[j] = "seal" /\ job' = job /\ SameCounters
    BY <1>10 DEF updateStorageState, SameCounters
  <2>2. PICK step \in {"activate", "done"} : Goto(j, step)
    BY <1>10 DEF updateStorageState
  <2> QED  BY <2>1, <2>2, OnwardQuiet DEF Past
<1>11. CASE enqueueSelf(j)
  <2>1. j.type = "session.ensure" /\ SameCounters /\ pc[j] # "idle"
    BY <1>11, StepKinds DEF enqueueSelf, CoreInv, SameCounters
  <2>2. pc'[j] = "done" /\ \A k \in Jobs \ {j} : pc'[k] = pc[k]
    BY <1>11, OneHandler DEF CoreInv, enqueueSelf
  <2>3. Self.type = "profile-self"
    BY DEF Self, Key
  <2>4. \A k \in Jobs : \/ job'[k] = job[k]
                        \/ Created(k) /\ k.type = "profile-self"
    BY <1>11, <2>3, EnqueueRow DEF CoreInv, enqueueSelf
  <2>5. Present(j) /\ Present(j)'
    BY <2>1, <2>4 DEF CoreInv, JobInv, Present
  <2> QED  BY <2>1, <2>2, <2>4, <2>5, OneJobQuiet DEF SameCounters
<1>12. CASE runFinalizeRead(j)
  BY <1>12, OnwardQuiet DEF runFinalizeRead, SameCounters
<1>13. CASE runFinalize(j)
  <2>1. SameCounters /\ j.type = "run.finalize"
    BY <1>1, <1>13, StepKinds DEF runFinalize, CoreInv, RunStatus, Terminal
  <2> QED  BY <1>13, <2>1, OnwardQuiet DEF runFinalize
<1>14. CASE finishJob(j)
  <2>1. PICK st \in {"SUCCEEDED", "DEAD"} : /\ job' = [job EXCEPT ![j].status = st]
                                            /\ st = "SUCCEEDED" => pc[j] = "done"
    BY <1>14 DEF finishJob
  <2>2. pc'[j] = "idle" /\ \A k \in Jobs \ {j} : pc'[k] = pc[k]
    BY <1>14, OneHandler DEF CoreInv, finishJob
  <2>3. job'[j].status = st /\ \A k \in Jobs \ {j} : job'[k] = job[k]
    BY <2>1 DEF CoreInv, TypeOK
  <2>4. Present(j) /\ Present(j)' /\ (Past(j)' => Past(j))
    BY <1>14, <2>1, <2>2, <2>3 DEF finishJob, CoreInv, JobInv, Present, Past
  <2>5. SameCounters
    BY <1>14 DEF finishJob, SameCounters
  <2> QED  BY <2>2, <2>3, <2>4, <2>5, OneJobQuiet DEF SameCounters
<1>15. CASE incrementCounters(j) \/ enqueueNextPageOrFinalize(j)
  BY <1>15 DEF incrementCounters, enqueueNextPageOrFinalize
<1>16. CASE markActive(j)
  BY <1>16, StepKinds, OnwardQuiet DEF markActive, CoreInv, SameCounters
<1> QED  BY <1>2, <1>3, <1>4, <1>5, <1>6, <1>7, <1>8, <1>9, <1>10, <1>11, <1>12, <1>13,
            <1>14, <1>15, <1>16 DEF Work

\* The queue's own steps are quiet.
LEMMA QueueQuiet ==
  ASSUME CoreInv, NEW j \in Jobs,
         claim(j) \/ fail(j) \/ sessionFatal(j) \/ retryDeadJob(j)
  PROVE  Quiet
<1>1. CASE sessionFatal(j)
  BY <1>1, OnwardQuiet DEF sessionFatal, SameCounters
<1>2. ASSUME NEW st \in {"RUNNING", "QUEUED", "DEAD"}, job'[j].status = st,
             \A k \in Jobs \ {j} : job'[k] = job[k] /\ pc'[k] = pc[k],
             pc'[j] \in {"idle", "lock", "read"}, run' = run, Present(j)
      PROVE  Quiet
  <2>1. Present(j)' /\ ~Past(j)'
    BY <1>2 DEF Present, Past
  <2> QED  BY <1>2, <2>1, OneJobQuiet
<1>3. CASE claim(j)
  <2>1. pc'[j] \in {"lock", "read"} /\ \A k \in Jobs \ {j} : pc'[k] = pc[k]
    BY <1>3, OneHandler DEF claim, CoreInv
  <2>2. job'[j].status = "RUNNING" /\ \A k \in Jobs \ {j} : job'[k] = job[k]
    BY <1>3 DEF claim, CoreInv, TypeOK
  <2> QED  BY <1>2, <1>3, <2>1, <2>2 DEF claim, Present
<1>4. CASE fail(j)
  <2>1. pc'[j] = "idle" /\ \A k \in Jobs \ {j} : pc'[k] = pc[k]
    BY <1>4, OneHandler DEF fail, CoreInv
  <2>2. job'[j].status \in {"QUEUED", "DEAD"} /\ \A k \in Jobs \ {j} : job'[k] = job[k]
    BY <1>4 DEF fail, CoreInv, TypeOK
  <2>3. Present(j) /\ run' = run
    BY <1>4 DEF fail, CoreInv, JobInv, Present
  <2> QED  BY <1>2, <2>1, <2>2, <2>3
<1>5. CASE retryDeadJob(j)
  <2>1. job'[j].status = "QUEUED" /\ \A k \in Jobs \ {j} : job'[k] = job[k]
    BY <1>5 DEF retryDeadJob, CoreInv, TypeOK
  <2>2. pc' = pc /\ pc[j] = "idle" /\ run' = run /\ Present(j)
    BY <1>5 DEF retryDeadJob, CoreInv, JobInv, Present
  <2> QED  BY <1>2, <2>1, <2>2
<1> QED  BY <1>1, <1>3, <1>4, <1>5

\* A web request, and a stuttering step, is quiet.
LEMMA RequestQuiet ==
  ASSUME CoreInv, \/ \E r \in Runs : Request(r) \/ webCrash(r)
                  \/ UNCHANGED vars
  PROVE  Quiet
<1>1. ASSUME pc' = pc, SameCounters,
             \A k \in Jobs : \/ job'[k] = job[k]
                             \/ Created(k) /\ k.type = "run.start"
                             \/ job[k].status = "QUEUED" /\ job'[k].status = "CANCELLED"
      PROVE  Quiet
  <2> SUFFICES ASSUME NEW k \in Jobs
               PROVE  /\ Present(k) => Present(k)'
                      /\ k.type \in {"search.page", "run.finalize"} =>
                           (Present(k)' => Present(k))
                      /\ Past(k)' => Past(k)
    BY <1>1 DEF Quiet, SameCounters
  <2>1. CASE job'[k] = job[k]
    BY <1>1, <2>1 DEF Present, Past
  <2>2. CASE Created(k) /\ k.type = "run.start"
    <3>1. pc[k] = "idle"
      BY <2>2 DEF CoreInv, JobInv, Created
    <3> QED  BY <1>1, <2>2, <3>1 DEF Created, Present, Past
  <2>3. CASE job[k].status = "QUEUED" /\ job'[k].status = "CANCELLED"
    BY <1>1, <2>3 DEF Present, Past
  <2> QED  BY <1>1, <2>1, <2>2, <2>3
<1>2. CASE UNCHANGED vars
  BY <1>1, <1>2 DEF vars, SameCounters
<1>3. ASSUME NEW r \in Runs, Request(r) \/ webCrash(r) PROVE Quiet
  <2>1. pc' = pc
    BY <1>3 DEF Request, startRun, startRunCreate, startRunEnqueue, cancelRun,
                cancelRunJobs, cancelRunSettle, webCrash
  <2>2. SameCounters
    <3>1. CASE run' = run
      BY <3>1 DEF SameCounters
    <3>2. CASE startRunCreate(r) \/ cancelRunSettle(r)
      BY <3>1, <3>2, RunStatusWritten
         DEF startRunCreate, cancelRunSettle, CoreInv, RunStatus, Terminal, SameCounters
    <3> QED  BY <1>3, <3>1, <3>2 DEF Request, startRun, startRunEnqueue, cancelRun,
                                     cancelRunJobs, webCrash
  <2>3. CASE startRunEnqueue(r)
    <3>1. \A k \in Jobs : \/ job'[k] = job[k]
                          \/ Created(k) /\ k.type = "run.start"
      <4>1. Start(r) \in Jobs /\ Start(r).type = "run.start"
        BY ChainJobs
      <4>2. job' = Enqueued(Start(r)) /\ TypeOK /\ JobInv
        BY <2>3 DEF startRunEnqueue, CoreInv
      <4>3. \A k \in Jobs : \/ job'[k] = job[k]
                            \/ k = Start(r) /\ Created(k)
        BY <4>1, <4>2, EnqueueRow
      <4> QED  BY <4>1, <4>3
    <3> QED  BY <1>1, <2>1, <2>2, <3>1
  <2>4. CASE cancelRunJobs(r)
    <3>1. \A k \in Jobs : [job[k] EXCEPT !.status = "CANCELLED"].status = "CANCELLED"
      BY DEF CoreInv, TypeOK
    <3>2. \A k \in Jobs : \/ job'[k] = job[k]
                          \/ job[k].status = "QUEUED" /\ job'[k].status = "CANCELLED"
      BY <2>4, <3>1 DEF cancelRunJobs
    <3> QED  BY <1>1, <2>1, <2>2, <3>2
  <2>5. CASE job' = job
    BY <1>1, <2>1, <2>2, <2>5
  <2> QED  BY <1>3, <2>3, <2>4, <2>5
              DEF Request, startRun, startRunCreate, cancelRun, cancelRunSettle, webCrash
<1> QED  BY <1>2, <1>3

\* run.start makes the first page.
LEMMA FirstPage ==
  ASSUME CoreInv, CountInv, ChainInv, NEW j \in Jobs, runStartEnqueue(j), pc[j] = "first"
  PROVE  CountInv' /\ ChainInv'
<1> DEFINE r == j.run
           p == Page(r, 1)
<1>1. job' = Enqueued(p) /\ Goto(j, "done") /\ run' = run
  BY DEF runStartEnqueue
<1>2. r \in Runs /\ j = Start(r) /\ j.type = "run.start"
  BY StepKinds, JobKinds DEF CoreInv
<1>3. p \in Jobs /\ p.type = "search.page"
  BY <1>2, ChainJobs
<1>4. pc'[j] = "done" /\ \A k \in Jobs \ {j} : pc'[k] = pc[k]
  BY <1>1, OneHandler DEF CoreInv
<1>5. /\ \A k \in Jobs \ {p} : job'[k] = job[k]
      /\ \/ job'[p] = job[p] /\ Present(p)
         \/ Created(p)
      /\ Present(p)'
  BY <1>1, <1>3, EnqueueRow DEF CoreInv, Present
<1>6. \A q \in Runs : /\ run'[q].pagesDone = run[q].pagesDone
                      /\ Present(Final(q))' <=> Present(Final(q))
                      /\ run[q].pagesDone \in Nat
  BY <1>1, <1>3, <1>5, ChainJobs DEF Present, CoreInv, TypeOK
<1>7. \A q \in Runs : \A n \in 1..MaxPages :
        /\ pc'[Page(q, n)] = pc[Page(q, n)]
        /\ Present(Page(q, n))' <=> Present(Page(q, n)) \/ (q = r /\ n = 1)
        /\ Past(Page(q, n))' => Past(Page(q, n))
        /\ pc[Page(q, n)] = "next" => Present(Page(q, n))
  <2> SUFFICES ASSUME NEW q \in Runs, NEW n \in 1..MaxPages
               PROVE  /\ pc'[Page(q, n)] = pc[Page(q, n)]
                      /\ Present(Page(q, n))' <=> Present(Page(q, n)) \/ (q = r /\ n = 1)
                      /\ Past(Page(q, n))' => Past(Page(q, n))
                      /\ pc[Page(q, n)] = "next" => Present(Page(q, n))
    OBVIOUS
  <2> DEFINE k == Page(q, n)
  <2>1. k \in Jobs /\ k.type = "search.page" /\ k.run = q /\ k.arg = n
    BY ChainJobs, KeyFields
  <2>2. pc'[k] = pc[k]
    BY <1>2, <1>4, <2>1
  <2>3. pc[k] = "next" => Present(k)
    BY <2>1 DEF CoreInv, JobInv, Present
  <2>4. CASE k = p
    <3>1. q = r /\ n = 1
      BY <2>1, <2>4, KeyFields
    <3>2. Past(k)' => Past(k)
      BY <1>3, <1>5, <2>2, <2>4 DEF Past, Created
    <3> QED  BY <1>5, <2>2, <2>3, <2>4, <3>1, <3>2
  <2>5. CASE k # p
    <3>1. ~(q = r /\ n = 1)
      BY <2>5
    <3>2. job'[k] = job[k]
      BY <1>5, <2>1, <2>5
    <3> QED  BY <2>2, <2>3, <3>1, <3>2 DEF Present, Past
  <2> QED  BY <2>4, <2>5
<1>8. CountInv'
  <2>1. ASSUME NEW q \in Runs, NEW n \in 1..MaxPages, Present(Page(q, n))'
        PROVE  /\ run'[q].pagesDone >= n - 1
               /\ Present(Final(q))' => run'[q].pagesDone >= n
               /\ \A m \in 1..MaxPages : pc'[Page(q, m)] = "next" =>
                    /\ run'[q].pagesDone >= n
                    /\ Present(Final(q))' => run'[q].pagesDone >= n + 1
    <3>1. CASE Present(Page(q, n))
      BY <1>6, <1>7, <3>1 DEF CountInv
    <3>2. CASE n = 1
      <4>1. run'[q].pagesDone >= n - 1
        BY <1>6, <3>2
      <4>2. Present(Final(q))' => run'[q].pagesDone >= n
        BY <1>6, <3>2 DEF CountInv
      <4>3. ASSUME NEW m \in 1..MaxPages, pc'[Page(q, m)] = "next"
            PROVE  /\ run'[q].pagesDone >= n
                   /\ Present(Final(q))' => run'[q].pagesDone >= n + 1
        <5>1. pc[Page(q, m)] = "next" /\ Present(Page(q, m)) /\ m >= 1 /\ m \in Int
          BY <1>7, <4>3
        <5>2. /\ run[q].pagesDone >= m
              /\ Present(Final(q)) => run[q].pagesDone >= m + 1
          BY <5>1 DEF CountInv
        <5> QED  BY <1>6, <3>2, <5>1, <5>2
      <4> QED  BY <4>1, <4>2, <4>3
    <3> QED  BY <1>7, <2>1, <3>1, <3>2
  <2>2. \A q \in Runs : Present(Final(q))' => run'[q].pagesDone >= 1
    BY <1>6 DEF CountInv
  <2> QED  BY <2>1, <2>2 DEF CountInv
<1>9. ChainInv'
  <2> SUFFICES ASSUME NEW q \in Runs
               PROVE  /\ Past(Start(q))' => Present(Page(q, 1))'
                      /\ (\E n \in 1..MaxPages : Present(Page(q, n))') =>
                           \E n \in 1..MaxPages :
                             Last(q, n)' /\ (Present(Final(q))' \/ ~Past(Page(q, n))')
    BY DEF ChainInv
  <2>0. 1 \in 1..MaxPages
    BY ChainJobs
  <2>1. Past(Start(q))' => Present(Page(q, 1))'
    <3>1. CASE q = r
      BY <1>5, <3>1
    <3>2. CASE q # r
      <4>1. Start(q) # j /\ Start(q) # p /\ Start(q) \in Jobs
        BY <1>2, <1>3, <3>2, ChainJobs, KeyFields
      <4>2. Past(Start(q))' => Past(Start(q))
        BY <1>4, <1>5, <4>1 DEF Past
      <4> QED  BY <1>7, <2>0, <4>2 DEF ChainInv
    <3> QED  BY <3>1, <3>2
  <2>2. CASE \E n \in 1..MaxPages : Present(Page(q, n))
    <3>1. PICK n \in 1..MaxPages : Last(q, n) /\ (Present(Final(q)) \/ ~Past(Page(q, n)))
      BY <2>2 DEF ChainInv
    <3>2. \A m \in 1..MaxPages : m > n => m # 1
      OBVIOUS
    <3>3. Last(q, n)'
      BY <1>7, <3>1, <3>2 DEF Last
    <3> QED  BY <1>6, <1>7, <2>1, <3>1, <3>3
  <2>3. CASE q = r /\ ~\E n \in 1..MaxPages : Present(Page(q, n))
    <3>1. Last(q, 1)'
      BY <1>7, <2>0, <2>3 DEF Last
    <3>2. Created(p) /\ pc[p] = "idle"
      BY <1>5, <2>0, <2>3, <1>3 DEF CoreInv, JobInv, Created
    <3>3. ~Past(p)'
      BY <1>7, <2>0, <1>2, <3>2 DEF Past, Created
    <3> QED  BY <2>0, <2>1, <2>3, <3>1, <3>3
  <2> QED  BY <1>7, <2>1, <2>2, <2>3
<1> QED  BY <1>8, <1>9

\* A page is counted.
LEMMA PageCounted ==
  ASSUME CoreInv, CountInv, ChainInv, NEW j \in Jobs, incrementCounters(j)
  PROVE  CountInv' /\ ChainInv'
<1> DEFINE r == j.run
           a == j.arg
<1>1. j.type = "search.page" /\ r \in Runs /\ a \in 1..MaxPages /\ j = Page(r, a)
  BY StepKinds, JobKinds DEF incrementCounters, CoreInv
<1>2. job' = job /\ Goto(j, "next")
  BY DEF incrementCounters
<1>3. pc'[j] = "next" /\ (\A k \in Jobs \ {j} : pc'[k] = pc[k])
      /\ \A k \in Jobs : Past(k)' => Past(k)
  BY <1>2, OneHandler DEF CoreInv, Past
<1>4. \A q \in Runs : /\ run[q].pagesDone \in Nat
                      /\ run'[q].pagesDone = run[q].pagesDone + (IF q = r THEN 1 ELSE 0)
  BY DEF incrementCounters, CoreInv, TypeOK
<1>5. \A k : Present(k)' <=> Present(k)
  BY <1>2 DEF Present
<1>6. \A q \in Runs : \A m \in 1..MaxPages :
        pc'[Page(q, m)] = "next" => pc[Page(q, m)] = "next" \/ q = r
  <2> SUFFICES ASSUME NEW q \in Runs, NEW m \in 1..MaxPages, q # r
               PROVE  pc'[Page(q, m)] = pc[Page(q, m)]
    OBVIOUS
  <2>1. Page(q, m) \in Jobs /\ Page(q, m) # j
    BY <1>1, ChainJobs, KeyFields
  <2> QED  BY <1>3, <2>1
<1>7. CountInv'
  <2>1. ASSUME NEW q \in Runs, NEW n \in 1..MaxPages, Present(Page(q, n))'
        PROVE  /\ run'[q].pagesDone >= n - 1
               /\ Present(Final(q))' => run'[q].pagesDone >= n
               /\ \A m \in 1..MaxPages : pc'[Page(q, m)] = "next" =>
                    /\ run'[q].pagesDone >= n
                    /\ Present(Final(q))' => run'[q].pagesDone >= n + 1
    <3>1. /\ run[q].pagesDone >= n - 1
          /\ Present(Final(q)) => run[q].pagesDone >= n
          /\ \A m \in 1..MaxPages : pc[Page(q, m)] = "next" =>
               /\ run[q].pagesDone >= n
               /\ Present(Final(q)) => run[q].pagesDone >= n + 1
      BY <1>5, <2>1 DEF CountInv
    <3>2. CASE q = r
      <4>1. run'[q].pagesDone = run[q].pagesDone + 1 /\ run[q].pagesDone \in Nat /\ n \in Nat
        BY <1>4, <3>2
      <4> QED  BY <1>5, <3>1, <4>1
    <3>3. CASE q # r
      <4>1. run'[q].pagesDone = run[q].pagesDone
        BY <1>4, <3>3
      <4> QED  BY <1>5, <1>6, <3>1, <3>3, <4>1
    <3> QED  BY <3>2, <3>3
  <2>2. \A q \in Runs : Present(Final(q))' => run'[q].pagesDone >= 1
    BY <1>4, <1>5 DEF CountInv
  <2> QED  BY <2>1, <2>2 DEF CountInv
<1>8. ChainInv'
  <2>1. \A q \in Runs : Past(Start(q))' => Present(Page(q, 1))'
    BY <1>3, <1>5, ChainJobs DEF ChainInv
  <2>2. \A q \in Runs : \A n \in 1..MaxPages :
          /\ Last(q, n)' <=> Last(q, n)
          /\ Past(Page(q, n))' => Past(Page(q, n))
    BY <1>3, <1>5, ChainJobs DEF Last
  <2> QED  BY <1>5, <2>1, <2>2 DEF ChainInv
<1> QED  BY <1>7, <1>8

\* A page's handler enqueues the page after it, or run.finalize.
LEMMA NextPage ==
  ASSUME CoreInv, CountInv, ChainInv, NEW j \in Jobs, enqueueNextPageOrFinalize(j)
  PROVE  CountInv' /\ ChainInv'
<1> DEFINE r == j.run
           a == j.arg
<1>1. j.type = "search.page" /\ r \in Runs /\ a \in 1..MaxPages /\ j = Page(r, a)
  BY StepKinds, JobKinds DEF enqueueNextPageOrFinalize, CoreInv
<1>2. pc[j] = "next" /\ Present(j) /\ Goto(j, "seal") /\ run' = run
  BY DEF enqueueNextPageOrFinalize, CoreInv, JobInv, Present
<1>3. pc'[j] = "seal" /\ \A k \in Jobs \ {j} : pc'[k] = pc[k]
  BY <1>2, OneHandler DEF CoreInv
<1>4. PICK k \in Jobs : /\ job' = Enqueued(k)
                        /\ \/ a < MaxPages /\ k = Page(r, a + 1)
                           \/ k = Final(r)
  <2>1. CASE a < MaxPages
    <3>1. a + 1 \in 1..MaxPages
      BY <1>1, <2>1, RunAssumption DEF RunAssumption
    <3> QED  BY <1>1, <2>1, <3>1, ChainJobs DEF enqueueNextPageOrFinalize
  <2>2. CASE ~(a < MaxPages)
    BY <1>1, <2>2, ChainJobs DEF enqueueNextPageOrFinalize
  <2> QED  BY <2>1, <2>2
<1>5. /\ \A i \in Jobs \ {k} : job'[i] = job[i]
      /\ \/ job'[k] = job[k] /\ Present(k)
         \/ Created(k)
      /\ Present(k)'
  BY <1>4, EnqueueRow DEF CoreInv, Present
<1>6. \A i \in Jobs : Present(i)' <=> Present(i) \/ i = k
  BY <1>5 DEF Present
<1>7. \A i \in Jobs : pc'[i] # "next"
  <2> SUFFICES ASSUME NEW i \in Jobs, pc[i] = "next" PROVE i = j
    BY <1>3
  <2> QED  BY <1>2, OneLocked DEF CoreInv, Locked
<1>8. \A i \in Jobs \ {j} : Past(i)' => Past(i)
  <2> SUFFICES ASSUME NEW i \in Jobs \ {j} PROVE Past(i)' => Past(i)
    OBVIOUS
  <2>1. CASE i = k /\ Created(k)
    <3>1. pc[i] = "idle"
      BY <2>1 DEF CoreInv, JobInv, Created
    <3> QED  BY <1>3, <2>1, <3>1 DEF Past, Created
  <2>2. CASE job'[i] = job[i]
    BY <1>3, <2>2 DEF Past
  <2> QED  BY <1>5, <2>1, <2>2
<1>9. CountInv'
  <2>1. ASSUME NEW q \in Runs, NEW n \in 1..MaxPages, Present(Page(q, n))'
        PROVE  /\ run[q].pagesDone >= n - 1
               /\ Present(Final(q))' => run[q].pagesDone >= n
    <3> DEFINE p == Page(q, n)
    <3>0. p \in Jobs /\ Final(q) \in Jobs /\ p.type = "search.page" /\ p.run = q /\ p.arg = n
      BY ChainJobs, KeyFields
    <3>1. Present(p) \/ p = k
      BY <1>6, <2>1, <3>0
    <3>2. CASE q # r
      <4>1. p # k /\ Final(q) # k
        BY <1>4, <3>0, <3>2, KeyFields
      <4> QED  BY <1>6, <3>0, <3>1, <4>1 DEF CountInv
    <3>3. CASE q = r /\ Present(p)
      <4>1. run[r].pagesDone >= n /\ run[r].pagesDone >= n - 1
        BY <1>1, <1>2, <3>3 DEF CountInv
      <4> QED  BY <3>3, <4>1
    <3>4. CASE q = r /\ p = k
      <4>1. n = a + 1 /\ k # Final(r)
        BY <1>4, <3>0, <3>4, KeyFields
      <4>2. /\ run[r].pagesDone >= a
            /\ Present(Final(r)) => run[r].pagesDone >= a + 1
        BY <1>1, <1>2 DEF CountInv
      <4>3. n - 1 = a
        BY <1>1, <4>1
      <4> QED  BY <1>6, <3>0, <3>4, <4>1, <4>2, <4>3
    <3> QED  BY <3>1, <3>2, <3>3, <3>4
  <2>2. \A q \in Runs : Present(Final(q))' => run[q].pagesDone >= 1
    <3> SUFFICES ASSUME NEW q \in Runs, Present(Final(q))' PROVE run[q].pagesDone >= 1
      OBVIOUS
    <3>1. CASE Present(Final(q))
      BY <3>1 DEF CountInv
    <3>2. CASE Final(q) = k
      <4>1. q = r
        BY <1>4, <3>2, KeyFields
      <4>2. run[r].pagesDone >= a /\ run[r].pagesDone \in Nat
        BY <1>1, <1>2 DEF CountInv, CoreInv, TypeOK
      <4> QED  BY <1>1, <4>1, <4>2
    <3> QED  BY <1>6, <3>1, <3>2, ChainJobs
  <2> QED  BY <1>2, <1>7, <2>1, <2>2, ChainJobs DEF CountInv
<1>10. ASSUME NEW q \in Runs
       PROVE  (\E n \in 1..MaxPages : Present(Page(q, n))') =>
                \E n \in 1..MaxPages :
                  Last(q, n)' /\ (Present(Final(q))' \/ ~Past(Page(q, n))')
  <2>0. /\ Final(q) \in Jobs
        /\ \A n \in 1..MaxPages : /\ Page(q, n) \in Jobs
                                  /\ Page(q, n).run = q /\ Page(q, n).arg = n
                                  /\ Page(q, n).type = "search.page"
    BY ChainJobs, KeyFields
  <2>1. CASE q # r
    <3>1. \A n \in 1..MaxPages : Page(q, n) # k /\ Page(q, n) # j
      BY <1>1, <1>4, <2>0, <2>1, KeyFields
    <3>2. \A n \in 1..MaxPages : /\ Present(Page(q, n))' <=> Present(Page(q, n))
                                 /\ Past(Page(q, n))' => Past(Page(q, n))
      BY <1>6, <1>8, <2>0, <3>1
    <3>3. \A n \in 1..MaxPages : Last(q, n) => Last(q, n)'
      BY <3>2 DEF Last
    <3> QED  BY <1>6, <2>0, <3>2, <3>3 DEF ChainInv
  <2>2. CASE q = r
    <3>1. PICK n \in 1..MaxPages : Last(r, n) /\ (Present(Final(r)) \/ ~Past(Page(r, n)))
      BY <1>1, <1>2 DEF ChainInv
    <3>2. a \in Int /\ n \in Int /\ MaxPages \in Int /\ a <= n
      BY <1>1, <1>2, <3>1, RunAssumption DEF Last, RunAssumption
    <3>3. CASE k = Final(r)
      <4>1. \A m \in 1..MaxPages : Page(r, m) # k
        BY <2>0, <2>2, <3>3, KeyFields
      <4>2. Last(r, n)'
        BY <1>6, <2>0, <2>2, <3>1, <4>1 DEF Last
      <4> QED  BY <1>6, <2>2, <3>3, <4>2, <2>0
    <3>4. CASE a < MaxPages /\ k = Page(r, a + 1)
      <4>1. a + 1 \in 1..MaxPages
        BY <1>1, <3>2, <3>4
      <4>2. \A m \in 1..MaxPages : Present(Page(r, m))' <=> Present(Page(r, m)) \/ m = a + 1
        BY <1>6, <2>0, <2>2, <3>4, <4>1
      <4>3. Present(Final(r)) => Present(Final(r))'
        BY <1>6, <2>0, <2>2
      <4>4. CASE a < n
        <5>1. Last(r, n)'
          <6>1. \A m \in 1..MaxPages : m > n => m # a + 1
            BY <3>2, <4>4
          <6> QED  BY <3>1, <4>2, <6>1 DEF Last
        <5>2. Past(Page(r, n))' => Past(Page(r, n))
          BY <1>1, <1>8, <2>0, <2>2, <3>2, <4>4
        <5> QED  BY <2>2, <3>1, <4>3, <5>1, <5>2
      <4>5. CASE a = n
        <5>1. Last(r, a + 1)'
          <6>1. \A m \in 1..MaxPages : m > a + 1 => ~Present(Page(r, m)) /\ m # a + 1
            BY <3>1, <3>2, <4>5 DEF Last
          <6> QED  BY <4>1, <4>2, <6>1 DEF Last
        <5>2. ~Present(k) /\ k # j
          BY <1>1, <2>0, <2>2, <3>1, <3>2, <3>4, <4>1, <4>5 DEF Last
        <5>3. Created(k) /\ pc[k] = "idle"
          BY <1>5, <5>2 DEF CoreInv, JobInv, Created
        <5>4. ~Past(k)'
          BY <1>3, <5>2, <5>3 DEF Past, Created
        <5> QED  BY <2>2, <3>4, <4>1, <5>1, <5>4
      <4> QED  BY <3>2, <4>4, <4>5
    <3> QED  BY <1>4, <3>3, <3>4
  <2> QED  BY <2>1, <2>2
<1>11. ASSUME NEW q \in Runs, Past(Start(q))' PROVE Present(Page(q, 1))'
  <2>1. Start(q) \in Jobs /\ Start(q) # j /\ Page(q, 1) \in Jobs
    BY <1>1, ChainJobs
  <2> QED  BY <1>6, <1>8, <1>11, <2>1 DEF ChainInv
<1> QED  BY <1>9, <1>10, <1>11 DEF ChainInv

\* Every step keeps the counter and the chain.
LEMMA NextCountChain ==
  CoreInv /\ CountInv /\ ChainInv /\ [Next]_vars => CountInv' /\ ChainInv'
<1> SUFFICES ASSUME CoreInv, CountInv, ChainInv, [Next]_vars PROVE CountInv' /\ ChainInv'
  OBVIOUS
<1>1. CASE Quiet
  BY <1>1, QuietKeepsCount, QuietKeepsChain
<1>2. ASSUME NEW j \in Jobs, Work(j) PROVE CountInv' /\ ChainInv'
  <2>1. CASE pc[j] \notin {"first", "count", "next"}
    BY <1>1, <1>2, <2>1, WorkQuiet
  <2>2. CASE pc[j] = "first"
    <3>1. runStartEnqueue(j)
      BY <1>2, <2>2
         DEF Work, runStartRead, runStartHalt, markRunning, withAccountLock, lockUnavailable,
             prepare, notYet, cannotPrepare, ensureSession, visit, haltRun, containBreach,
             markChallenged, enqueueProfile, incrementCounters, enqueueNextPageOrFinalize,
             updateStorageState, markActive, enqueueSelf, runFinalizeRead, runFinalize, finishJob
    <3> QED  BY <2>2, <3>1, FirstPage
  <2>3. CASE pc[j] \in {"count", "next"}
    <3>1. incrementCounters(j) \/ enqueueNextPageOrFinalize(j)
      BY <1>2, <2>3
         DEF Work, runStartRead, runStartHalt, markRunning, runStartEnqueue, withAccountLock,
             lockUnavailable, prepare, notYet, cannotPrepare, ensureSession, visit, haltRun,
             containBreach, markChallenged, enqueueProfile, updateStorageState, markActive,
             enqueueSelf, runFinalizeRead, runFinalize, finishJob
    <3> QED  BY <3>1, PageCounted, NextPage
  <2> QED  BY <2>1, <2>2, <2>3
<1>3. ASSUME NEW j \in Jobs, claim(j) \/ fail(j) \/ sessionFatal(j) \/ retryDeadJob(j)
      PROVE  CountInv' /\ ChainInv'
  BY <1>1, <1>3, QueueQuiet
<1>4. CASE (\E r \in Runs : Request(r) \/ webCrash(r)) \/ UNCHANGED vars
  BY <1>1, <1>4, RequestQuiet
<1> QED  BY <1>2, <1>3, <1>4 DEF Next

\* Every step keeps a RUNNING run started: only run.start's handler writes RUNNING, and
\* no job loses its row.
LEMMA NextStart == CoreInv /\ StartInv /\ [Next]_vars => StartInv'
<1> SUFFICES ASSUME CoreInv, StartInv, [Next]_vars PROVE StartInv'
  OBVIOUS
<1>1. ASSUME \A j \in Jobs : Present(j) => Present(j)',
             \A r \in Runs : run'[r].status = "RUNNING" =>
               run[r].status = "RUNNING" \/ Present(Start(r))
      PROVE  StartInv'
  BY <1>1, ChainJobs DEF StartInv
<1>2. \A j \in Jobs : Present(j) => Present(j)'
  <2>1. CASE Quiet
    BY <2>1 DEF Quiet
  <2>2. ASSUME NEW j \in Jobs, Work(j), pc[j] \in {"first", "count", "next"}
        PROVE  \A k \in Jobs : Present(k) => Present(k)'
    <3>1. job' = job \/ \E k : job' = Enqueued(k)
      BY <2>2 DEF Work, runStartRead, runStartHalt, markRunning, runStartEnqueue,
             withAccountLock, lockUnavailable, prepare, notYet, cannotPrepare, ensureSession,
             visit, haltRun, containBreach, markChallenged, enqueueProfile,
             incrementCounters, enqueueNextPageOrFinalize, updateStorageState, markActive,
             enqueueSelf, runFinalizeRead, runFinalize, finishJob
    <3>2. CASE job' = job
      BY <3>2 DEF Present
    <3>3. ASSUME NEW k, job' = Enqueued(k)
          PROVE  \A i \in Jobs : Present(i) => Present(i)'
      BY <3>3, EnqueueRow DEF CoreInv, Present
    <3> QED  BY <3>1, <3>2, <3>3
  <2> QED  BY <2>1, <2>2, WorkQuiet, QueueQuiet, RequestQuiet DEF Next
<1>3. ASSUME NEW r \in Runs, run'[r].status = "RUNNING"
      PROVE  run[r].status = "RUNNING" \/ Present(Start(r))
  <2>1. CASE run' = run
    BY <1>3, <2>1
  <2>2. ASSUME NEW q, NEW st \in RunStatus \ {"RUNNING"},
               run' = [run EXCEPT ![q].status = st]
        PROVE  run[r].status = "RUNNING"
    BY <1>3, <2>2, RunStatusWritten DEF CoreInv
  <2>3. ASSUME NEW j \in Jobs, markRunning(j)
        PROVE  run[r].status = "RUNNING" \/ Present(Start(r))
    <3>1. j = Start(j.run) /\ Present(j)
      BY <2>3, StepKinds, JobKinds DEF markRunning, CoreInv, JobInv, Present
    <3>2. run'[r].status = IF r = j.run THEN "RUNNING" ELSE run[r].status
      BY <2>3, RunStatusWritten DEF markRunning, CoreInv, RunStatus, Live
    <3> QED  BY <1>3, <3>1, <3>2
  <2>4. ASSUME NEW j \in Jobs, incrementCounters(j) PROVE run[r].status = "RUNNING"
    BY <1>3, <2>4 DEF incrementCounters, CoreInv, TypeOK
  <2>5. ASSUME NEW j \in Jobs, Work(j)
        PROVE  \/ run' = run \/ markRunning(j) \/ incrementCounters(j)
               \/ runStartHalt(j) \/ haltRun(j) \/ runFinalize(j)
    BY <2>5 DEF Work, runStartRead, reschedule, runStartEnqueue, withAccountLock,
             lockUnavailable, prepare, notYet, cannotPrepare, ensureSession, visit,
             containBreach, markChallenged, enqueueProfile, enqueueNextPageOrFinalize,
             updateStorageState, markActive, enqueueSelf, runFinalizeRead, finishJob
  <2>6. ASSUME NEW j \in Jobs, runStartHalt(j) \/ haltRun(j) \/ runFinalize(j)
        PROVE  run[r].status = "RUNNING"
    BY <2>2, <2>6 DEF runStartHalt, haltRun, runFinalize, RunStatus, Live, Terminal
  <2>7. ASSUME NEW j \in Jobs, claim(j) \/ fail(j) \/ sessionFatal(j) \/ retryDeadJob(j)
        PROVE  run' = run
    BY <2>7 DEF claim, fail, sessionFatal, retryDeadJob
  <2>8. ASSUME NEW q \in Runs, Request(q) \/ webCrash(q)
        PROVE  run' = run \/ startRunCreate(q) \/ cancelRunSettle(q)
    BY <2>8 DEF Request, startRun, startRunEnqueue, cancelRun, cancelRunJobs, webCrash
  <2>9. ASSUME NEW q \in Runs, startRunCreate(q) \/ cancelRunSettle(q)
        PROVE  run[r].status = "RUNNING"
    BY <1>3, <2>2, <2>9 DEF startRunCreate, cancelRunSettle, RunStatus, Live, Terminal
  <2> QED  BY <2>1, <2>3, <2>4, <2>5, <2>6, <2>7, <2>8, <2>9 DEF Next, vars
<1> QED  BY <1>1, <1>2, <1>3

\* Initially no run has started.
LEMMA InitCountChain == Init => CountInv /\ ChainInv /\ StartInv
<1> SUFFICES ASSUME Init PROVE CountInv /\ ChainInv /\ StartInv
  OBVIOUS
<1>1. \A j \in Jobs : ~Present(j) /\ ~Past(j)
  BY DEF Init, Present, Past
<1> QED  BY <1>1, ChainJobs DEF Init, CountInv, ChainInv, StartInv

\* In every behaviour the three hold.
LEMMA CountChain == Spec => [](CountInv /\ ChainInv /\ StartInv)
  BY InitCountChain, CoreInvariant, NextCountChain, NextStart, PTL DEF Spec

\* pagesDone never understates what was fetched, whatever is retried, crashes or is
\* revived: when a page is queued every page before it has been counted, and when
\* run.finalize is queued every page has.
THEOREM RunCountersCoverPages == Spec => []CountersCoverPages
<1>1. CountInv => CountersCoverPages
  BY DEF CountInv, CountersCoverPages, Present
<1> QED  BY <1>1, CountChain, PTL

\* A run that is RUNNING has a job that will move it on, or a job of its chain is DEAD
\* or CANCELLED, or its run.finalize has succeeded before: no crash or retry drops the
\* chain without a trace.
THEOREM RunStalledIsExplained == Spec => []StalledRunIsExplained
<1>1. TypeOK /\ ChainInv /\ StartInv => StalledRunIsExplained
  <2> SUFFICES ASSUME TypeOK, ChainInv, StartInv,
                      NEW r \in Runs, run[r].status = "RUNNING",
                      \A j \in Chain(r) : job[j].status \notin Live \cup {"DEAD", "CANCELLED"}
               PROVE  job[Final(r)].status = "SUCCEEDED"
    BY DEF StalledRunIsExplained
  <2>1. \A j \in Chain(r) : Present(j) => job[j].status = "SUCCEEDED"
    <3> SUFFICES ASSUME NEW j \in Chain(r), Present(j) PROVE job[j].status = "SUCCEEDED"
      OBVIOUS
    <3>1. j \in Jobs
      BY DEF Jobs, JobsOf
    <3>2. job[j].status \in JobStatus
      BY <3>1, RowTypes
    <3> QED  BY <3>2 DEF JobStatus, Present
  <2>2. Start(r) \in Chain(r) /\ Final(r) \in Chain(r)
        /\ \A n \in 1..MaxPages : Page(r, n) \in Chain(r)
    BY DEF Chain, Pages
  <2>3. job[Start(r)].status = "SUCCEEDED"
    BY <2>1, <2>2 DEF StartInv
  <2>4. \E n \in 1..MaxPages : Present(Page(r, n))
    BY <2>3, ChainJobs DEF ChainInv, Past
  <2>5. PICK n \in 1..MaxPages : Last(r, n) /\ (Present(Final(r)) \/ ~Past(Page(r, n)))
    BY <2>4 DEF ChainInv
  <2>6. Past(Page(r, n))
    BY <2>1, <2>2, <2>5 DEF Last, Past
  <2> QED  BY <2>1, <2>2, <2>5, <2>6
<1> QED  BY <1>1, RunTypeOK, CountChain, PTL

-----------------------------------------------------------------------------
(* Refinement of JobLifecycle.                                              *)

\* The jobs of S change their status, and their attempts by d; the others keep both.
Moves(S, from, to, d) ==
  /\ \A j \in S : job[j].status = from
  /\ \A j \in Jobs :
       /\ job'[j].status = IF j \in S THEN to ELSE job[j].status
       /\ job'[j].attempts = IF j \in S THEN job[j].attempts + d ELSE job[j].attempts

\* Such a change is a move of the abstract specification.
LEMMA MovesMap ==
  ASSUME TypeOK, NEW S \in SUBSET Jobs, NEW from, NEW to, NEW d \in Int,
         Moves(S, from, to, d)
  PROVE  Queue!Move(S, from, to, d)
<1>1. \A j \in Jobs : job'[j].status = IF j \in S THEN to ELSE job[j].status
  BY DEF Moves
<1>2. \A j \in Jobs : job'[j].attempts = IF j \in S THEN job[j].attempts + d
                                         ELSE job[j].attempts
  BY DEF Moves
<1>3. \A j \in S : [k \in Jobs |-> job[k].status][j] = from
  BY DEF Moves
<1> QED  BY <1>1, <1>2, <1>3 DEF Queue!Move

\* A step that leaves the Job table alone is a stuttering step.
LEMMA StutterMap ==
  ASSUME job' = job
  PROVE  UNCHANGED Queue!vars
  BY DEF Queue!vars

\* A step of one job is a step of the abstract specification.
LEMMA StepOfOne ==
  ASSUME NEW k \in Jobs,
         \/ Queue!Create(k) \/ Queue!Succeed(k) \/ Queue!GiveUp(k)
         \/ Queue!TryAgain(k) \/ Queue!PushBack(k) \/ Queue!Revive(k)
  PROVE  Queue!Next
  BY DEF Queue!Next

\* Attempts are counted in integers.
LEMMA AttemptsAreInt ==
  ASSUME CoreInv, NEW k \in Jobs
  PROVE  job[k].attempts \in Int
<1>1. TypeOK
  BY DEF CoreInv
<1>2. job[k].attempts \in Nat
  BY <1>1, RowTypes
<1> QED  BY <1>2

\* An enqueue creates a job, or none.
LEMMA EnqueueMap ==
  ASSUME CoreInv, NEW k, job' = Enqueued(k)
  PROVE  Queue!Next \/ UNCHANGED Queue!vars
<1>1. CASE job[k].status # "ABSENT"
  BY <1>1, StutterMap DEF Enqueued
<1>2. CASE k \notin Jobs
  BY <1>2, StutterMap DEF Enqueued, CoreInv, TypeOK
<1>3. CASE k \in Jobs /\ job[k].status = "ABSENT"
  <2>1. Created(k) /\ \A j \in Jobs \ {k} : job'[j] = job[j]
    BY <1>3, EnqueueRow DEF CoreInv
  <2>2. job[k].attempts = 0
    BY <1>3 DEF CoreInv, JobInv
  <2>3. Moves({k}, "ABSENT", "QUEUED", 0)
    <3>1. \A j \in Jobs : job[j].attempts \in Int
      BY AttemptsAreInt
    <3> QED  BY <1>3, <2>1, <2>2, <3>1 DEF Created, Moves
  <2>4. Queue!Create(k)
    BY <1>3, <2>3, MovesMap DEF Queue!Create, CoreInv
  <2> QED  BY <1>3, <2>4, StepOfOne
<1> QED  BY <1>1, <1>2, <1>3

\* A handler that gives up its job pushes it back, fails it or completes it.
LEMMA EndMap ==
  ASSUME CoreInv, NEW k \in Jobs, pc[k] # "idle",
         reschedule(k) \/ fail(k) \/ finishJob(k)
  PROVE  Queue!Next
<1> DEFINE a == job[k].attempts
<1>1. job[k].status = "RUNNING" /\ TypeOK
  BY DEF CoreInv, JobInv
<1>0. a \in Int /\ a + 0 = a /\ a + (-1) = a - 1
  BY AttemptsAreInt
<1>2. ASSUME NEW st \in {"QUEUED", "SUCCEEDED", "DEAD"}, job' = [job EXCEPT ![k].status = st]
      PROVE  Queue!Move({k}, "RUNNING", st, 0)
  <2>1. job'[k].status = st /\ job'[k].attempts = a /\ \A j \in Jobs \ {k} : job'[j] = job[j]
    BY <1>1, <1>2 DEF TypeOK
  <2>2. Moves({k}, "RUNNING", st, 0)
    BY <1>0, <1>1, <2>1, AttemptsAreInt DEF Moves
  <2> QED  BY <1>1, <2>2, MovesMap
<1>3. CASE reschedule(k)
  <2>1. /\ job'[k].status = "QUEUED" /\ job'[k].attempts = a - 1
        /\ \A j \in Jobs \ {k} : job'[j] = job[j]
    BY <1>1, <1>3 DEF TypeOK, reschedule
  <2>2. Moves({k}, "RUNNING", "QUEUED", -1)
    BY <1>0, <1>1, <2>1 DEF Moves
  <2>3. Queue!PushBack(k)
    BY <1>1, <2>2, MovesMap DEF Queue!PushBack
  <2> QED  BY <2>3, StepOfOne
<1>4. CASE fail(k)
  <2>1. CASE a < MaxAttempts
    <3>1. Queue!Move({k}, "RUNNING", "QUEUED", 0)
      BY <1>2, <1>4, <2>1 DEF fail
    <3>2. Queue!TryAgain(k)
      BY <2>1, <3>1 DEF Queue!TryAgain
    <3> QED  BY <3>2, StepOfOne
  <2>2. CASE ~(a < MaxAttempts)
    <3>1. Queue!Move({k}, "RUNNING", "DEAD", 0)
      BY <1>2, <1>4, <2>2 DEF fail
    <3>2. Queue!GiveUp(k)
      BY <3>1 DEF Queue!GiveUp
    <3> QED  BY <3>2, StepOfOne
  <2> QED  BY <2>1, <2>2
<1>5. CASE finishJob(k)
  <2>1. CASE job' = [job EXCEPT ![k].status = "SUCCEEDED"]
    <3>1. Queue!Succeed(k)
      BY <1>2, <2>1 DEF Queue!Succeed
    <3> QED  BY <3>1, StepOfOne
  <2>2. CASE job' = [job EXCEPT ![k].status = "DEAD"]
    <3>1. Queue!GiveUp(k)
      BY <1>2, <2>2 DEF Queue!GiveUp
    <3> QED  BY <3>1, StepOfOne
  <2> QED  BY <1>5, <2>1, <2>2 DEF finishJob
<1> QED  BY <1>3, <1>4, <1>5

\* A claim starts one job.
LEMMA ClaimMap ==
  ASSUME CoreInv, NEW k \in Jobs, claim(k)
  PROVE  Queue!Next
<1> DEFINE a == job[k].attempts
<1>1. job[k].status = "QUEUED" /\ a < MaxAttempts /\ TypeOK
  BY DEF claim, CoreInv, JobInv
<1>2. /\ job'[k].status = "RUNNING" /\ job'[k].attempts = a + 1
      /\ \A j \in Jobs \ {k} : job'[j] = job[j]
  BY <1>1 DEF claim, TypeOK
<1>3. Moves({k}, "QUEUED", "RUNNING", 1)
  BY <1>1, <1>2 DEF Moves
<1>4. Queue!Start({k})
  BY <1>1, <1>3, MovesMap DEF Queue!Start
<1> QED  BY <1>4 DEF Queue!Next

\* A person revives a job.
LEMMA ReviveMap ==
  ASSUME CoreInv, NEW k \in Jobs, retryDeadJob(k)
  PROVE  Queue!Next
<1>1. job[k].attempts \in Int /\ TypeOK
  BY AttemptsAreInt DEF CoreInv
<1>2. PICK d \in Int : d = -job[k].attempts /\ job[k].attempts + d = 0
  BY <1>1
<1>3. /\ job'[k].status = "QUEUED" /\ job'[k].attempts = 0
      /\ \A j \in Jobs \ {k} : job'[j] = job[j]
  BY <1>1 DEF retryDeadJob, TypeOK
<1>4. job[k].status = "DEAD" /\ job'[k].attempts = job[k].attempts + d
  BY <1>2, <1>3 DEF retryDeadJob
<1>5. Moves({k}, "DEAD", "QUEUED", d)
  BY <1>3, <1>4 DEF Moves
<1>6. Queue!Move({k}, "DEAD", "QUEUED", d)
  BY <1>1, <1>5, MovesMap
<1>7. Queue!Revive(k)
  BY <1>2, <1>6 DEF Queue!Revive, Queue!Move
<1> QED  BY <1>7, StepOfOne

\* A cancel request cancels the QUEUED jobs of its run.
LEMMA CancelMap ==
  ASSUME CoreInv, NEW r \in Runs, cancelRunJobs(r)
  PROVE  Queue!Next
<1>0. PICK S \in SUBSET Jobs :
        S = {j \in Jobs : j \in JobsOf(r) /\ job[j].status = "QUEUED"}
  OBVIOUS
<1>1. \A j \in Jobs : LET x == [job[j] EXCEPT !.status = "CANCELLED"] IN
                        x.status = "CANCELLED" /\ x.attempts = job[j].attempts
  BY DEF CoreInv, TypeOK
<1>2. \A j \in Jobs : job[j].attempts + 0 = job[j].attempts
  BY AttemptsAreInt
<1>3. \A j \in Jobs : job'[j] = IF j \in S THEN [job[j] EXCEPT !.status = "CANCELLED"]
                                           ELSE job[j]
  BY <1>0 DEF cancelRunJobs
<1>4. \A j \in Jobs :
        /\ job'[j].status = IF j \in S THEN "CANCELLED" ELSE job[j].status
        /\ job'[j].attempts = IF j \in S THEN job[j].attempts + 0 ELSE job[j].attempts
  BY <1>1, <1>2, <1>3
<1>5. Moves(S, "QUEUED", "CANCELLED", 0)
  BY <1>0, <1>4 DEF Moves
<1>6. Queue!Cancel(S)
  BY <1>5, MovesMap DEF Queue!Cancel, CoreInv
<1> QED  BY <1>6 DEF Queue!Next

\* The pipeline uses the queue as JobLifecycle specifies it: its enqueues, push-backs,
\* failures, cancellations and revivals are moves JobLifecycle allows, and no other step
\* of a handler or of a request touches a job's status or attempts.
THEOREM RunUsesQueue == Spec => UsesQueueAsSpecified
<1>1. Init => Queue!Init
  BY DEF Init, Queue!Init
<1>2. CoreInv /\ [Next]_vars => [Queue!Next]_(Queue!vars)
  <2> SUFFICES ASSUME CoreInv, [Next]_vars PROVE Queue!Next \/ UNCHANGED Queue!vars
    OBVIOUS
  <2>1. CASE UNCHANGED vars
    BY <2>1, StutterMap DEF vars
  <2>2. ASSUME NEW j \in Jobs, Work(j) PROVE Queue!Next \/ UNCHANGED Queue!vars
    <3>1. CASE job' = job
      BY <3>1, StutterMap
    <3>2. CASE \E k : job' = Enqueued(k)
      BY <3>2, EnqueueMap
    <3>3. CASE pc[j] # "idle" /\ (reschedule(j) \/ finishJob(j))
      BY <3>3, EndMap
    <3>4. \/ job' = job
          \/ \E k : job' = Enqueued(k)
          \/ pc[j] # "idle" /\ (reschedule(j) \/ finishJob(j))
      BY <2>2 DEF Work, runStartRead, runStartHalt, markRunning, runStartEnqueue,
             withAccountLock, lockUnavailable, prepare, notYet, cannotPrepare, ensureSession,
             visit, haltRun, containBreach, markChallenged, enqueueProfile,
             incrementCounters, enqueueNextPageOrFinalize, updateStorageState, markActive,
             enqueueSelf, runFinalizeRead, runFinalize, finishJob
    <3> QED  BY <3>1, <3>2, <3>3, <3>4
  <2>3. ASSUME NEW j \in Jobs, claim(j) \/ fail(j) \/ sessionFatal(j) \/ retryDeadJob(j)
        PROVE  Queue!Next \/ UNCHANGED Queue!vars
    BY <2>3, ClaimMap, EndMap, ReviveMap, StutterMap DEF fail, sessionFatal
  <2>4. ASSUME NEW r \in Runs, Request(r) \/ webCrash(r)
        PROVE  Queue!Next \/ UNCHANGED Queue!vars
    BY <2>4, EnqueueMap, CancelMap, StutterMap
       DEF Request, startRun, startRunCreate, startRunEnqueue, cancelRun, cancelRunSettle,
           webCrash
  <2> QED  BY <2>1, <2>2, <2>3, <2>4 DEF Next
<1> QED  BY <1>1, <1>2, CoreInvariant, PTL DEF Spec, UsesQueueAsSpecified, Queue!Spec

-----------------------------------------------------------------------------
(* Refinement of AccountLock.                                               *)

\* The handlers at a step under the lock.
UnderLock == {j \in Jobs : pc[j] \in Locked}

\* A handler comes in, goes, or stays on its side of the lock.
LEMMA LockMap ==
  ASSUME CoreInv, NEW j \in Jobs, \A k \in Jobs \ {j} : pc'[k] = pc[k],
         pc[j] \notin Locked /\ pc'[j] \in Locked => holder = None
  PROVE  Lock!Next \/ UNCHANGED Lock!vars
<1>1. CASE pc[j] \in Locked <=> pc'[j] \in Locked
  <2>1. UnderLock' = UnderLock
    BY <1>1 DEF UnderLock
  <2> QED  BY <2>1 DEF Lock!vars, UnderLock
<1>2. CASE pc[j] \notin Locked /\ pc'[j] \in Locked
  <2>1. UnderLock = {}
    BY <1>2, NoneAssumption DEF CoreInv, LockInv, UnderLock
  <2>2. UnderLock' = UnderLock \cup {j}
    BY <1>2 DEF UnderLock
  <2>3. [a \in {"account"} |-> UnderLock]' =
          [[a \in {"account"} |-> UnderLock] EXCEPT !["account"] = @ \cup {j}]
    BY <2>2
  <2>4. Lock!Enter(j, "account")
    BY <2>1, <2>3 DEF Lock!Enter, UnderLock
  <2> QED  BY <2>4 DEF Lock!Next
<1>3. CASE pc[j] \in Locked /\ pc'[j] \notin Locked
  <2>1. UnderLock' = UnderLock \ {j}
    BY <1>3 DEF UnderLock
  <2>2. [a \in {"account"} |-> UnderLock]' =
          [[a \in {"account"} |-> UnderLock] EXCEPT !["account"] = @ \ {j}]
    BY <2>1
  <2>3. Lock!Leave(j, "account")
    BY <1>3, <2>2 DEF Lock!Leave, UnderLock
  <2> QED  BY <2>3 DEF Lock!Next
<1> QED  BY <1>1, <1>2, <1>3

\* A handler's step leaves the others where they are, and takes its own under the lock
\* only when it finds it free.
LEMMA WorkUsesLock ==
  ASSUME CoreInv, NEW j \in Jobs, Work(j)
  PROVE  /\ \A k \in Jobs \ {j} : pc'[k] = pc[k]
         /\ pc[j] \notin Locked /\ pc'[j] \in Locked => holder = None
<1>1. pc' = pc \/ \E step : Goto(j, step)
  BY DEF Work, runStartRead, reschedule, runStartHalt, markRunning, runStartEnqueue,
         withAccountLock, lockUnavailable, prepare, notYet, cannotPrepare, ensureSession,
         visit, haltRun, containBreach, markChallenged, enqueueProfile, incrementCounters,
         enqueueNextPageOrFinalize, updateStorageState, markActive, enqueueSelf, runFinalizeRead,
         runFinalize, finishJob
<1>2. \A k \in Jobs \ {j} : pc'[k] = pc[k]
  BY <1>1, OneHandler DEF CoreInv
<1>3. ASSUME pc[j] \notin Locked, holder # None PROVE pc'[j] \notin Locked
  <2>1. ASSUME NEW step \in Step \ Locked, Goto(j, step) PROVE pc'[j] \notin Locked
    BY <2>1, OneHandler DEF CoreInv
  <2>2. \E step \in Step \ Locked : Goto(j, step)
    BY <1>3 DEF Work, runStartRead, reschedule, runStartHalt, markRunning, runStartEnqueue,
         withAccountLock, lockUnavailable, prepare, notYet, cannotPrepare, ensureSession,
         visit, haltRun, containBreach, markChallenged, enqueueProfile, incrementCounters,
         enqueueNextPageOrFinalize, updateStorageState, markActive, enqueueSelf, runFinalizeRead,
         runFinalize, finishJob, Step, Locked
  <2> QED  BY <2>1, <2>2
<1> QED  BY <1>2, <1>3

\* The pipeline's handlers use the account's lock as AccountLock specifies it: they come
\* under it one at a time, and another comes in only once the one before it has left.
THEOREM RunUsesLock == Spec => UsesLockAsSpecified
<1>1. Init => Lock!Init
  BY DEF Init, Lock!Init, Locked
<1>2. CoreInv /\ [Next]_vars => [Lock!Next]_(Lock!vars)
  <2> SUFFICES ASSUME CoreInv, [Next]_vars PROVE Lock!Next \/ UNCHANGED Lock!vars
    OBVIOUS
  <2>1. CASE pc' = pc
    <3>1. UnderLock' = UnderLock
      BY <2>1 DEF UnderLock
    <3> QED  BY <3>1 DEF Lock!vars, UnderLock
  <2>2. ASSUME NEW j \in Jobs, Work(j) PROVE Lock!Next \/ UNCHANGED Lock!vars
    BY <2>2, WorkUsesLock, LockMap
  <2>3. ASSUME NEW j \in Jobs, claim(j) \/ fail(j) \/ sessionFatal(j)
        PROVE  Lock!Next \/ UNCHANGED Lock!vars
    <3>1. \E step \in {"lock", "read", "idle", "fatal"} : Goto(j, step)
      BY <2>3 DEF claim, fail, sessionFatal
    <3>2. pc'[j] \notin Locked /\ \A k \in Jobs \ {j} : pc'[k] = pc[k]
      BY <3>1, OneHandler DEF CoreInv, Locked
    <3> QED  BY <3>2, LockMap
  <2>4. ASSUME NEW j \in Jobs, retryDeadJob(j) PROVE pc' = pc
    BY <2>4 DEF retryDeadJob
  <2>5. ASSUME NEW r \in Runs, Request(r) \/ webCrash(r) PROVE pc' = pc
    BY <2>5 DEF Request, startRun, startRunCreate, startRunEnqueue, cancelRun,
                cancelRunJobs, cancelRunSettle, webCrash
  <2> QED  BY <2>1, <2>2, <2>3, <2>4, <2>5 DEF Next, vars
<1> QED  BY <1>1, <1>2, CoreInvariant, PTL DEF Spec, UsesLockAsSpecified, Lock!Spec
=============================================================================

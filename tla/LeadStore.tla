----------------------------- MODULE LeadStore -----------------------------
(***************************************************************************)
(* What the page and profile handlers leave in the database: leads, the    *)
(* evidence behind their fields (LeadSnapshot), the leads of each run, and *)
(* the profile jobs a page queues - while an account, and with it its run, *)
(* may be deleted, and any step may throw or lose its worker.              *)
(*                                                                         *)
(* Each account has one run here, so a run stands for its account too; the *)
(* account's lock lets one of its handlers work at a time.  Runs of two    *)
(* accounts interleave on the same leads.  A handler's steps are its       *)
(* queries; charging, browsing and risk signals are in AccountGuards and   *)
(* ScrapeRun.                                                              *)
(***************************************************************************)
EXTENDS Naturals, FiniteSets

CONSTANTS
  Runs,         \* ScrapeRun ids, each with an account of its own
  Slugs,        \* publicIdentifiers
  Searches,     \* the choices of runs under way, with their searches
  MaxPages,     \* the largest SearchDefinition.maxPages
  MaxTries,     \* Job.maxAttempts
  MaxFailures,  \* bound: attempts that fail with their account still there
  MaxDeletions  \* bound: accounts deleted, or half deleted

ASSUME LeadAssumption ==
  /\ IsFiniteSet(Slugs)
  /\ \A choice \in Searches :
       /\ DOMAIN choice \subseteq Runs
       /\ choice \in [DOMAIN choice -> [leads : SUBSET Slugs, maxPages : 1..MaxPages]]
  /\ MaxPages \in Nat \ {0} /\ MaxTries \in Nat \ {0} /\ MaxFailures \in Nat
  /\ MaxDeletions \in Nat
  /\ Slugs \cap (1..MaxPages) = {}

VARIABLES
  search,     \* maxPages, and the leads LinkedIn may show, of each run under way
  there,      \* the runs, and accounts, that are in the database
  deleting,   \* how far deleteAccount has come, by run
  task,       \* the Job rows: page jobs by page, profile jobs by lead
  hand,       \* the handler at work for each run
  lead,       \* the Lead rows
  evidence,   \* the kinds of LeadSnapshot each lead has
  runLead,    \* the RunLead rows: the leads attached to each run
  fresh,      \* ScrapeRun.leadsNew
  failures,   \* counts them
  torn        \* history: leads an attempt left between their two writes

leadVars ==
  <<search, there, deleting, task, hand, lead, evidence, runLead, fresh,
    failures, torn>>
database == <<search, lead, evidence, runLead, fresh, failures, torn>>

PageNumbers == 1..MaxPages
Tasks == PageNumbers \cup Slugs
Open == {"QUEUED", "RUNNING"}

\* new: leads this attempt found new; contact: the contact panel was recorded.
Free == [at |-> "idle", task |-> 0, rows |-> {}, row |-> {}, known |-> FALSE,
         new |-> 0, more |-> FALSE, contact |-> FALSE]
HandSteps ==
  {"idle", "open", "visit", "rows", "upsert", "attach", "snapshot", "enqueue",
   "next", "profile", "contact", "record", "seal"}

\* The shape of the state; no run has more new leads than there are leads.
LeadTypeOK ==
  /\ search \in [DOMAIN search -> [leads : SUBSET Slugs, maxPages : PageNumbers]]
  /\ there \subseteq DOMAIN search
  /\ deleting \in [Runs -> {"no", "cancelled", "erased", "failed", "done"}]
  /\ task \in [Runs -> [Tasks ->
               [status : Open \cup {"ABSENT", "SUCCEEDED", "DEAD", "CANCELLED"},
                tries : 0..MaxTries]]]
  /\ hand \in [Runs -> [at : HandSteps, task : Tasks \cup {0}, rows : SUBSET Slugs,
                        row : SUBSET Slugs, known : BOOLEAN,
                        new : 0..Cardinality(Slugs), more : BOOLEAN,
                        contact : BOOLEAN]]
  /\ lead \in [Slugs -> [stage : {"none", "STUB", "SCRAPED"}, email : BOOLEAN]]
  /\ evidence \in [Slugs -> SUBSET {"SEARCH_RESULT", "PROFILE", "CONTACT_INFO"}]
  /\ runLead \in [Runs -> SUBSET Slugs]
  /\ fresh \in [Runs -> 0..Cardinality(Slugs)]
  /\ failures \in 0..MaxFailures
  /\ torn \subseteq Slugs

LeadInit ==
  /\ search \in Searches
  /\ there = DOMAIN search
  /\ deleting = [r \in Runs |-> "no"]
  /\ task = [r \in Runs |-> [t \in Tasks |-> [status |-> "ABSENT", tries |-> 0]]]
  /\ hand = [r \in Runs |-> Free]
  /\ lead = [s \in Slugs |-> [stage |-> "none", email |-> FALSE]]
  /\ evidence = [s \in Slugs |-> {}]
  /\ runLead = [r \in Runs |-> {}]
  /\ fresh = [r \in Runs |-> 0]
  /\ failures = 0
  /\ torn = {}

\* run.start queues page 1; when it runs again, the key is taken.
enqueueFirstPage(r) ==
  /\ r \in there /\ task[r][1].status = "ABSENT"
  /\ task' = [task EXCEPT ![r][1].status = "QUEUED"]
  /\ UNCHANGED <<there, deleting, hand, database>>

-----------------------------------------------------------------------------
(* A handler's way in and out.                                              *)

At(r, step) == hand[r].at = step
Goto(r, step) == hand' = [hand EXCEPT ![r].at = step]
EndAs(r, status) ==
  /\ task' = [task EXCEPT ![r][hand[r].task].status = status]
  /\ hand' = [hand EXCEPT ![r] = Free]

\* The lead r's handler has written and not yet recorded the row for.
Half(r) == IF hand[r].at \in {"attach", "snapshot"} THEN hand[r].row ELSE {}

claimTask(r, t) ==
  /\ At(r, "idle") /\ task[r][t].status = "QUEUED"
  /\ task' = [task EXCEPT ![r][t] = [status |-> "RUNNING", tries |-> @.tries + 1]]
  /\ hand' = [hand EXCEPT ![r] = [Free EXCEPT !.at = "open", !.task = t]]
  /\ UNCHANGED <<there, deleting, database>>

\* A bug: a missing account is waited for.
notFound_WaitsForIt(r) ==
  /\ At(r, "open") /\ r \notin there
  /\ task' = [task EXCEPT ![r][hand[r].task] =
                [status |-> "QUEUED", tries |-> @.tries - 1]]
  /\ hand' = [hand EXCEPT ![r] = Free]
  /\ UNCHANGED <<there, deleting, database>>

\* The run or the account is looked up and not found: a FatalError.
notFound(r) ==
  /\ At(r, "open") /\ r \notin there
  /\ EndAs(r, "DEAD")
  /\ UNCHANGED <<there, deleting, database>>

prepare(r) ==
  /\ At(r, "open") /\ r \in there
  /\ Goto(r, "visit")
  /\ UNCHANGED <<there, deleting, task, database>>

\* No session, no quota, or outside the active hours: a RescheduleError.
putOff(r) ==
  /\ At(r, "visit")
  /\ task' = [task EXCEPT ![r][hand[r].task] =
                [status |-> "QUEUED", tries |-> @.tries - 1]]
  /\ hand' = [hand EXCEPT ![r] = Free]
  /\ UNCHANGED <<there, deleting, database>>

\* A bug: the attempts are not counted against their limit.
attemptFails_Unlimited(r) ==
  /\ ~At(r, "idle")
  /\ r \in there => failures < MaxFailures
  /\ failures' = IF r \in there THEN failures + 1 ELSE failures
  /\ EndAs(r, "QUEUED")
  /\ torn' = torn \cup Half(r)
  /\ UNCHANGED <<search, there, deleting, lead, evidence, runLead, fresh>>

\* An exception, or a worker's death found by the reaper: another attempt while
\* there are some left.
attemptFails(r) ==
  /\ ~At(r, "idle")
  /\ r \in there => failures < MaxFailures
  /\ failures' = IF r \in there THEN failures + 1 ELSE failures
  /\ EndAs(r, IF task[r][hand[r].task].tries < MaxTries THEN "QUEUED" ELSE "DEAD")
  /\ torn' = torn \cup Half(r)
  /\ UNCHANGED <<search, there, deleting, lead, evidence, runLead, fresh>>

-----------------------------------------------------------------------------
(* search.page.fetch, with upsertLeadFromSearchResult for each row.  A query *)
(* that refers to a run that is gone throws: attemptFails.                   *)

\* A row without a publicIdentifier is passed over, but makes the page a page
\* with results.
visitPage(r) ==
  /\ At(r, "visit") /\ hand[r].task \in PageNumbers
  /\ \E rows \in SUBSET search[r].leads, hasResults \in BOOLEAN :
       /\ rows # {} => hasResults
       /\ hand' = [hand EXCEPT
            ![r].at = "rows", ![r].rows = rows,
            ![r].more = hasResults /\ hand[r].task < search[r].maxPages]
  /\ UNCHANGED <<there, deleting, task, database>>

findBefore(r, s) ==
  /\ At(r, "rows") /\ s \in hand[r].rows
  /\ hand' = [hand EXCEPT ![r].at = "upsert", ![r].row = {s},
                          ![r].known = (lead[s].stage # "none")]
  /\ UNCHANGED <<there, deleting, task, database>>

\* A bug: the update writes the default stage again.
upsertStub_Resets(r, s) ==
  /\ At(r, "upsert") /\ hand[r].row = {s}
  /\ lead[s].stage = "none" => r \in there
  /\ lead' = [lead EXCEPT ![s].stage = "STUB"]
  /\ Goto(r, "attach")
  /\ UNCHANGED <<search, there, deleting, task, evidence, runLead, fresh,
                 failures, torn>>

\* Only the insert refers to the run.
upsertStub(r, s) ==
  /\ At(r, "upsert") /\ hand[r].row = {s}
  /\ lead[s].stage = "none" => r \in there
  /\ lead' = [lead EXCEPT ![s].stage = IF @ = "none" THEN "STUB" ELSE @]
  /\ Goto(r, "attach")
  /\ UNCHANGED <<search, there, deleting, task, evidence, runLead, fresh,
                 failures, torn>>

attachToRun(r, s) ==
  /\ At(r, "attach") /\ hand[r].row = {s} /\ r \in there
  /\ runLead' = [runLead EXCEPT ![r] = @ \cup {s}]
  /\ Goto(r, "snapshot")
  /\ UNCHANGED <<search, there, deleting, task, lead, evidence, fresh,
                 failures, torn>>

\* A bug: evidence is kept for new leads only.
createSearchResult_NewOnly(r, s) ==
  /\ At(r, "snapshot") /\ hand[r].row = {s} /\ r \in there
  /\ evidence' = IF hand[r].known THEN evidence
                 ELSE [evidence EXCEPT ![s] = @ \cup {"SEARCH_RESULT"}]
  /\ torn' = torn \ {s}
  /\ hand' = [hand EXCEPT ![r].at = "enqueue", ![r].known = FALSE,
                          ![r].new = IF hand[r].known THEN @ ELSE @ + 1]
  /\ UNCHANGED <<search, there, deleting, task, lead, runLead, fresh, failures>>

\* A bug: every row counts as new.
createSearchResult_AllNew(r, s) ==
  /\ At(r, "snapshot") /\ hand[r].row = {s} /\ r \in there
  /\ evidence' = [evidence EXCEPT ![s] = @ \cup {"SEARCH_RESULT"}]
  /\ torn' = torn \ {s}
  /\ hand' = [hand EXCEPT ![r].at = "enqueue", ![r].known = FALSE,
                          ![r].new = @ + 1]
  /\ UNCHANGED <<search, there, deleting, task, lead, runLead, fresh, failures>>

createSearchResult(r, s) ==
  /\ At(r, "snapshot") /\ hand[r].row = {s} /\ r \in there
  /\ evidence' = [evidence EXCEPT ![s] = @ \cup {"SEARCH_RESULT"}]
  /\ torn' = torn \ {s}
  /\ hand' = [hand EXCEPT ![r].at = "enqueue", ![r].known = FALSE,
                          ![r].new = IF hand[r].known THEN @ ELSE @ + 1]
  /\ UNCHANGED <<search, there, deleting, task, lead, runLead, fresh, failures>>

\* The key is taken when the run has queued this profile before, and is looked
\* at before the reference to the run: the insert throws only when it is free.
enqueueProfile(r, s) ==
  /\ At(r, "enqueue") /\ hand[r].row = {s}
  /\ task[r][s].status = "ABSENT" => r \in there
  /\ task' = IF task[r][s].status = "ABSENT"
               THEN [task EXCEPT ![r][s].status = "QUEUED"] ELSE task
  /\ hand' = [hand EXCEPT ![r].at = "rows", ![r].rows = @ \ {s}, ![r].row = {}]
  /\ UNCHANGED <<there, deleting, database>>

incrementCounters(r) ==
  /\ At(r, "rows") /\ hand[r].rows = {} /\ r \in there
  /\ fresh' = [fresh EXCEPT ![r] = @ + hand[r].new]
  /\ hand' = [hand EXCEPT ![r].at = "next", ![r].new = 0]
  /\ UNCHANGED <<search, there, deleting, task, lead, evidence, runLead,
                 failures, torn>>

\* run.finalize, queued instead after the last page, is in ScrapeRun.
enqueueNextPage(r) ==
  /\ At(r, "next")
  /\ LET next == hand[r].task + 1
         free == hand[r].more /\ task[r][next].status = "ABSENT"
     IN  /\ free => r \in there
         /\ task' = IF free THEN [task EXCEPT ![r][next].status = "QUEUED"] ELSE task
  /\ Goto(r, "seal")
  /\ UNCHANGED <<there, deleting, database>>

-----------------------------------------------------------------------------
(* profile.scrape, with recordProfileScrape.                                *)

\* A lead that is not there would end the handler without an error: a profile
\* job is queued after its lead, and no code deletes a lead.
visitProfile(r) ==
  /\ At(r, "visit") /\ hand[r].task \in Slugs
  /\ hand' = [hand EXCEPT ![r].at = "profile", ![r].row = {hand[r].task}]
  /\ UNCHANGED <<there, deleting, task, database>>

\* A bug: the promise is not awaited, and its error goes unnoticed.
createProfile_NotAwaited(r, s) ==
  /\ At(r, "profile") /\ hand[r].row = {s}
  /\ evidence' = IF r \in there THEN [evidence EXCEPT ![s] = @ \cup {"PROFILE"}]
                                ELSE evidence
  /\ \E step \in {"contact", "record"} : Goto(r, step)
  /\ UNCHANGED <<search, there, deleting, task, lead, runLead, fresh,
                 failures, torn>>

createProfile(r, s) ==
  /\ At(r, "profile") /\ hand[r].row = {s} /\ r \in there
  /\ evidence' = [evidence EXCEPT ![s] = @ \cup {"PROFILE"}]
  /\ \E step \in {"contact", "record"} : Goto(r, step)
  /\ UNCHANGED <<search, there, deleting, task, lead, runLead, fresh,
                 failures, torn>>

createContactInfo(r, s) ==
  /\ At(r, "contact") /\ hand[r].row = {s} /\ r \in there
  /\ evidence' = [evidence EXCEPT ![s] = @ \cup {"CONTACT_INFO"}]
  /\ hand' = [hand EXCEPT ![r].at = "record", ![r].contact = TRUE]
  /\ UNCHANGED <<search, there, deleting, task, lead, runLead, fresh,
                 failures, torn>>

\* The lead's own row refers to no run.  The contact panel may show no address.
recordScrape(r, s) ==
  /\ At(r, "record") /\ hand[r].row = {s}
  /\ \E shown \in {FALSE, hand[r].contact} :
       lead' = [lead EXCEPT ![s] = [stage |-> "SCRAPED",
                                    email |-> @.email \/ shown]]
  /\ hand' = [hand EXCEPT ![r].at = "seal", ![r].contact = FALSE]
  /\ UNCHANGED <<search, there, deleting, task, evidence, runLead, fresh,
                 failures, torn>>

\* The account's storage state is written, and the job settled.
updateStorageState(r) ==
  /\ At(r, "seal") /\ r \in there
  /\ EndAs(r, "SUCCEEDED")
  /\ UNCHANGED <<there, deleting, database>>

-----------------------------------------------------------------------------
(* deleteAccount.                                                           *)

\* The account is found.
cancelQueued(r) ==
  /\ deleting[r] \in {"no", "failed"}
  /\ Cardinality({q \in Runs \ {r} : deleting[q] # "no"}) < MaxDeletions
  /\ deleting' = [deleting EXCEPT ![r] = "cancelled"]
  /\ task' = [task EXCEPT ![r] = [t \in Tasks |->
                IF task[r][t].status = "QUEUED"
                  THEN [task[r][t] EXCEPT !.status = "CANCELLED"]
                  ELSE task[r][t]]]
  /\ UNCHANGED <<there, hand, database>>

\* The account's RateBudget rows go, which AccountGuards has.
deleteRateBudgets(r) ==
  /\ deleting[r] = "cancelled"
  /\ deleting' = [deleting EXCEPT ![r] = "erased"]
  /\ UNCHANGED <<there, task, hand, database>>

\* The cascade takes the run and its RunLead rows; leads, snapshots and jobs
\* stay and lose their reference.
removeAccount(r) ==
  /\ deleting[r] = "erased"
  /\ deleting' = [deleting EXCEPT ![r] = "done"]
  /\ there' = there \ {r}
  /\ runLead' = [runLead EXCEPT ![r] = {}]
  /\ fresh' = [fresh EXCEPT ![r] = 0]
  /\ UNCHANGED <<search, task, hand, lead, evidence, failures, torn>>

\* The web process dies, or a query throws.
deletionFails(r) ==
  /\ deleting[r] \in {"cancelled", "erased"}
  /\ deleting' = [deleting EXCEPT ![r] = "failed"]
  /\ UNCHANGED <<there, task, hand, database>>

-----------------------------------------------------------------------------
handlePage(r) ==
  \/ visitPage(r)
  \/ \E s \in Slugs :
       \/ findBefore(r, s)
       \/ upsertStub(r, s)
       \/ attachToRun(r, s)
       \/ createSearchResult(r, s)
       \/ enqueueProfile(r, s)
  \/ incrementCounters(r)
  \/ enqueueNextPage(r)

handleProfile(r) ==
  \/ visitProfile(r)
  \/ \E s \in Slugs :
       createProfile(r, s) \/ createContactInfo(r, s) \/ recordScrape(r, s)

handle(r) ==
  \/ notFound(r)
  \/ prepare(r)
  \/ putOff(r)
  \/ handlePage(r)
  \/ handleProfile(r)
  \/ updateStorageState(r)
  \/ attemptFails(r)

deleteAccount(r) ==
  cancelQueued(r) \/ deleteRateBudgets(r) \/ removeAccount(r) \/ deletionFails(r)

work(r) == (\E t \in Tasks : claimTask(r, t)) \/ handle(r)

LeadNext == \E r \in Runs : enqueueFirstPage(r) \/ work(r) \/ deleteAccount(r)

\* Due jobs are claimed, and no handler stands still.
LeadFairness == \A r \in Runs : WF_leadVars(work(r))

LeadSpec == LeadInit /\ [][LeadNext]_leadVars
FairLeadSpec == LeadSpec /\ LeadFairness

-----------------------------------------------------------------------------
\* Every field a profile visit wrote has the snapshot it was parsed from, also
\* when the visit was broken off or its run deleted (invariant 7 of
\* upsertLeadFromSearchResult.ts, for recordProfileScrape).
ScrapedHasEvidence ==
  \A s \in Slugs :
    /\ lead[s].stage = "SCRAPED" => "PROFILE" \in evidence[s]
    /\ lead[s].email => "CONTACT_INFO" \in evidence[s]

\* A lead without its search row is one a handler is writing right now, or one
\* whose last writer was broken off; an attempt that gets past the row mends it.
EvidenceGapIsABrokenAttempt ==
  \A s \in Slugs :
    lead[s].stage # "none" /\ "SEARCH_RESULT" \notin evidence[s] =>
      s \in torn \/ \E r \in Runs : s \in Half(r)

\* However often its pages are tried, a run counts no lead as new twice: leadsNew
\* never exceeds the leads attached to the run.
NewLeadsCountedOnce == \A r \in Runs : fresh[r] <= Cardinality(runLead[r])

\* "Leads outlive runs" (lead.prisma): no page visited later, failure or deletion
\* takes away a lead, its stage or its evidence.
LeadsOutliveRuns ==
  [][\A s \in Slugs :
       /\ lead[s].stage # "none" => lead'[s].stage \in {lead[s].stage, "SCRAPED"}
       /\ evidence[s] \subseteq evidence'[s]]_leadVars

\* Handlers, retries and a deletion use the queue as JobLifecycle specifies it.
Queue == INSTANCE JobLifecycle
  WITH Jobs   <- Runs \X Tasks,
       status <- [j \in Runs \X Tasks |-> task[j[1]][j[2]].status],
       tries  <- [j \in Runs \X Tasks |-> task[j[1]][j[2]].tries]

UsesQueueAsSpecified == Queue!Spec

\* The jobs an account leaves behind come to an end, those that a handler queued
\* after deleteAccount cancelled the queue included.
JobsOfDeletedAccountEnd ==
  \A r \in Runs : r \notin there ~> \A t \in Tasks : task[r][t].status \notin Open
=============================================================================

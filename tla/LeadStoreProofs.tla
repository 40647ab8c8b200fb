-------------------------- MODULE LeadStoreProofs --------------------------
(***************************************************************************)
(* Proofs about LeadStore, for any runs, leads, searches, page limits and  *)
(* attempts.  The invariant says of each handler what the database holds   *)
(* for it at each of its steps; whatever other handlers and deletions do,  *)
(* leads and evidence only grow, so none of it is taken back.              *)
(***************************************************************************)
EXTENDS LeadStore, FiniteSetTheorems, TLAPS

Hands == [at : HandSteps, task : Tasks \cup {0}, rows : SUBSET Slugs,
          row : SUBSET Slugs, known : BOOLEAN, new : 0..Cardinality(Slugs),
          more : BOOLEAN, contact : BOOLEAN]
Statuses == Open \cup {"ABSENT", "SUCCEEDED", "DEAD", "CANCELLED"}
Jobs == [status : Statuses, tries : 0..MaxTries]
LeadRows == [stage : {"none", "STUB", "SCRAPED"}, email : BOOLEAN]

\* What a handler's step takes for granted.
HandInv(r) ==
  LET h == hand[r] IN
  /\ h.at # "idle" => /\ h.task \in Tasks
                      /\ task[r][h.task].status = "RUNNING"
                      /\ task[r][h.task].tries >= 1
  /\ h.at \notin {"idle", "open"} => r \in DOMAIN search
  /\ h.more => h.task \in PageNumbers /\ h.task + 1 \in PageNumbers
  /\ h.at \in {"attach", "snapshot", "enqueue", "profile", "contact", "record"} =>
       \A s \in h.row : lead[s].stage # "none"
  /\ h.at \in {"contact", "record"} => \A s \in h.row : "PROFILE" \in evidence[s]
  /\ h.contact => /\ h.at = "record"
                  /\ \A s \in h.row : "CONTACT_INFO" \in evidence[s]

\* A job's attempts, and the lead a profile job is about.
JobInv(r) ==
  \A t \in Tasks :
    /\ task[r][t].status = "ABSENT" => task[r][t].tries = 0
    /\ task[r][t].status = "QUEUED" => task[r][t].tries < MaxTries
    /\ t \in Slugs /\ task[r][t].status # "ABSENT" => lead[t].stage # "none"

Pending(r) == IF hand[r].at = "snapshot" /\ ~hand[r].known THEN 1 ELSE 0

\* What has been, and will be, counted as new has been attached to the run.
CountInv(r) ==
  /\ r \notin there => fresh[r] = 0
  /\ \A s \in runLead[r] : lead[s].stage # "none"
  /\ hand[r].at \in {"upsert", "attach"} /\ ~hand[r].known =>
       hand[r].row \cap runLead[r] = {}
  /\ r \in there => fresh[r] + hand[r].new + Pending(r) <= Cardinality(runLead[r])

RunInv(r) == HandInv(r) /\ JobInv(r) /\ CountInv(r)

LeadInv ==
  /\ LeadTypeOK
  /\ search \in Searches
  /\ \A r \in Runs : RunInv(r)
  /\ ScrapedHasEvidence
  /\ EvidenceGapIsABrokenAttempt

\* Leads and evidence are never taken away.
Grows ==
  \A s \in Slugs : /\ lead[s].stage # "none" => lead'[s].stage \in {lead[s].stage, "SCRAPED"}
                   /\ evidence[s] \subseteq evidence'[s]

\* The types, run by run.
LEMMA Types ==
  ASSUME LeadTypeOK, search \in Searches
  PROVE  /\ \A r \in Runs : /\ hand[r] \in Hands /\ task[r] \in [Tasks -> Jobs]
                            /\ runLead[r] \in SUBSET Slugs
                            /\ fresh[r] \in 0..Cardinality(Slugs)
         /\ \A s \in Slugs : lead[s] \in LeadRows /\ evidence[s] \in
                               SUBSET {"SEARCH_RESULT", "PROFILE", "CONTACT_INFO"}
         /\ there \subseteq Runs /\ there \subseteq DOMAIN search
         /\ \A r \in DOMAIN search : search[r].leads \in SUBSET Slugs
                                     /\ search[r].maxPages \in PageNumbers
  BY LeadAssumption DEF LeadTypeOK, Hands, Jobs, Statuses, LeadRows, LeadAssumption

\* Sets of leads can be counted.
LEMMA LeadsAreFinite ==
  ASSUME NEW S \in SUBSET Slugs
  PROVE  /\ IsFiniteSet(S) /\ Cardinality(S) \in Nat
         /\ Cardinality(Slugs) \in Nat /\ Cardinality(S) <= Cardinality(Slugs)
  BY LeadAssumption, FS_Subset, FS_CardinalityType DEF LeadAssumption

\* A run that no step touches keeps its invariant while leads and evidence grow.
LEMMA UntouchedRun ==
  ASSUME NEW q \in Runs, RunInv(q), LeadTypeOK, Grows, search \in Searches,
         hand'[q] = hand[q], task'[q] = task[q], runLead'[q] = runLead[q],
         fresh'[q] = fresh[q], q \in there' <=> q \in there, search' = search
  PROVE  RunInv(q)'
<1>1. hand[q].row \subseteq Slugs /\ runLead[q] \subseteq Slugs
  BY Types DEF Hands
<1>2. \A s \in Slugs : /\ lead[s].stage # "none" => lead'[s].stage # "none"
                       /\ evidence[s] \subseteq evidence'[s]
  BY DEF Grows
<1>3. HandInv(q)'
  BY <1>1, <1>2 DEF RunInv, HandInv
<1>4. JobInv(q)'
  BY <1>2 DEF RunInv, JobInv
<1>5. CountInv(q)'
  BY <1>1, <1>2 DEF RunInv, CountInv, Pending
<1> QED  BY <1>3, <1>4, <1>5 DEF RunInv

\* What has to be shown of a step that is one run's.
LEMMA StepOfRun ==
  ASSUME LeadInv, NEW r \in Runs, LeadTypeOK', Grows, search' = search,
         \A q \in Runs \ {r} :
           /\ hand'[q] = hand[q] /\ task'[q] = task[q]
           /\ runLead'[q] = runLead[q] /\ fresh'[q] = fresh[q]
           /\ q \in there' <=> q \in there,
         RunInv(r)', ScrapedHasEvidence', EvidenceGapIsABrokenAttempt'
  PROVE  LeadInv'
<1>1. ASSUME NEW q \in Runs PROVE RunInv(q)'
  <2>1. CASE q = r
    BY <2>1
  <2>2. CASE q # r
    BY <2>2, UntouchedRun DEF LeadInv
  <2> QED  BY <2>1, <2>2
<1> QED  BY <1>1 DEF LeadInv

\* A step that writes neither leads nor evidence: its handler leaves no gap behind
\* unless it says so in torn.
LEMMA StepOfHand ==
  ASSUME LeadInv, NEW r \in Runs, LeadTypeOK', RunInv(r)',
         UNCHANGED <<search, lead, evidence>>,
         \A q \in Runs \ {r} :
           /\ hand'[q] = hand[q] /\ task'[q] = task[q]
           /\ runLead'[q] = runLead[q] /\ fresh'[q] = fresh[q]
           /\ q \in there' <=> q \in there,
         torn \subseteq torn', Half(r) \subseteq torn' \cup Half(r)'
  PROVE  LeadInv'
<1>1. Grows
  BY DEF Grows
<1>2. ScrapedHasEvidence'
  BY DEF LeadInv, ScrapedHasEvidence
<1>3. \A q \in Runs \ {r} : Half(q)' = Half(q)
  BY DEF Half
<1>4. EvidenceGapIsABrokenAttempt'
  <2> SUFFICES ASSUME NEW s \in Slugs, lead[s].stage # "none",
                      "SEARCH_RESULT" \notin evidence[s]
               PROVE  s \in torn' \/ \E q \in Runs : s \in Half(q)'
    BY DEF EvidenceGapIsABrokenAttempt
  <2>1. s \in torn \/ \E q \in Runs : s \in Half(q)
    BY DEF LeadInv, EvidenceGapIsABrokenAttempt
  <2> QED  BY <2>1, <1>3
<1> QED  BY <1>1, <1>2, <1>4, StepOfRun

\* The initial states satisfy the invariant: no handler works, nothing is stored.
LEMMA LeadInitInv == LeadInit => LeadInv
<1> SUFFICES ASSUME LeadInit PROVE LeadInv
  OBVIOUS
<1>0. Cardinality({}) = 0 /\ Cardinality(Slugs) \in Nat
  BY LeadAssumption, FS_EmptySet, FS_CardinalityType DEF LeadAssumption
<1>1. search \in Searches
      /\ search \in [DOMAIN search -> [leads : SUBSET Slugs, maxPages : PageNumbers]]
  BY LeadAssumption DEF LeadInit, LeadAssumption, PageNumbers
<1>2. hand \in [Runs -> Hands]
  BY <1>0 DEF LeadInit, Free, Hands, HandSteps
<1>3. task \in [Runs -> [Tasks -> Jobs]]
  BY LeadAssumption DEF LeadInit, Jobs, Statuses, Open, LeadAssumption
<1>4. lead \in [Slugs -> LeadRows] /\ fresh \in [Runs -> 0..Cardinality(Slugs)]
  BY <1>0 DEF LeadInit, LeadRows
<1>5. LeadTypeOK
  BY <1>1, <1>2, <1>3, <1>4, LeadAssumption
     DEF LeadInit, LeadTypeOK, Hands, Jobs, Statuses, LeadRows, LeadAssumption
<1>6. ASSUME NEW r \in Runs PROVE RunInv(r)
  <2>1. hand[r].at = "idle" /\ ~hand[r].contact /\ ~hand[r].more /\ hand[r].new = 0
    BY DEF LeadInit, Free
  <2>2. HandInv(r)
    BY <2>1 DEF HandInv
  <2>3. JobInv(r)
    <3>1. \A t \in Tasks : task[r][t].tries = 0 /\ task[r][t].status = "ABSENT"
      BY DEF LeadInit
    <3> QED  BY <3>1 DEF JobInv
  <2>4. CountInv(r)
    BY <2>1, <1>0 DEF LeadInit, CountInv, Pending
  <2> QED  BY <2>2, <2>3, <2>4 DEF RunInv
<1>7. \A s \in Slugs : lead[s].stage = "none" /\ ~lead[s].email
  BY DEF LeadInit
<1> QED
  BY <1>1, <1>5, <1>6, <1>7
     DEF LeadInv, ScrapedHasEvidence, EvidenceGapIsABrokenAttempt

\* A step that writes only its handler's record.
LEMMA HandOnly ==
  ASSUME LeadInv, NEW r \in Runs, NEW h \in Hands,
         hand' = [q \in Runs |-> IF q = r THEN h ELSE hand[q]],
         UNCHANGED <<there, deleting, task, database>>,
         HandInv(r)', CountInv(r)', Half(r) \subseteq Half(r)'
  PROVE  LeadInv'
<1>1. hand' \in [Runs -> Hands] /\ hand'[r] = h /\ \A q \in Runs \ {r} : hand'[q] = hand[q]
  BY DEF LeadInv, LeadTypeOK, Hands
<1>2. LeadTypeOK'
  BY <1>1 DEF LeadInv, LeadTypeOK, Hands, database
<1>3. RunInv(r)'
  BY DEF LeadInv, RunInv, JobInv, database
<1> QED  BY <1>1, <1>2, <1>3, StepOfHand DEF database

\* A handler that only goes on.
LEMMA Gone ==
  ASSUME LeadTypeOK, search \in Searches, NEW r \in Runs, NEW step \in HandSteps,
         Goto(r, step)
  PROVE  hand' = [q \in Runs |-> IF q = r
                   THEN [at |-> step, task |-> hand[r].task, rows |-> hand[r].rows,
                         row |-> hand[r].row, known |-> hand[r].known,
                         new |-> hand[r].new, more |-> hand[r].more,
                         contact |-> hand[r].contact]
                   ELSE hand[q]]
<1>1. hand[r] \in Hands
  BY Types
<1>2. hand'[r] = [at |-> step, task |-> hand[r].task, rows |-> hand[r].rows,
                  row |-> hand[r].row, known |-> hand[r].known,
                  new |-> hand[r].new, more |-> hand[r].more,
                  contact |-> hand[r].contact]
  BY <1>1 DEF Goto, LeadTypeOK, Hands
<1> QED  BY <1>2 DEF Goto, LeadTypeOK

\* The run and the account are found.
LEMMA PrepareStep ==
  ASSUME LeadInv, NEW r \in Runs, prepare(r)
  PROVE  LeadInv'
<1> DEFINE h == [at |-> "visit", task |-> hand[r].task, rows |-> hand[r].rows,
                 row |-> hand[r].row, known |-> hand[r].known, new |-> hand[r].new,
                 more |-> hand[r].more, contact |-> hand[r].contact]
<1>1. hand' = [q \in Runs |-> IF q = r THEN h ELSE hand[q]]
  BY Gone DEF prepare, LeadInv, HandSteps
<1>2. h \in Hands
  BY Types DEF LeadInv, Hands, HandSteps
<1>3. RunInv(r) /\ hand'[r] = h /\ r \in DOMAIN search /\ hand[r].at = "open"
  BY <1>1, Types DEF LeadInv, prepare, At
<1>4. UNCHANGED <<there, deleting, task, database>>
  BY DEF prepare
<1>5. HandInv(r)' /\ CountInv(r)' /\ Half(r) \subseteq Half(r)'
  BY <1>3, <1>4 DEF RunInv, HandInv, CountInv, Pending, Half, database
<1> QED  BY <1>1, <1>2, <1>4, <1>5, HandOnly

\* A page is read: rows that may be shown, and a next page only within the limit.
LEMMA VisitPageStep ==
  ASSUME LeadInv, NEW r \in Runs, visitPage(r)
  PROVE  LeadInv'
<1>1. PICK rows \in SUBSET search[r].leads, hasResults \in BOOLEAN :
        hand' = [hand EXCEPT
          ![r].at = "rows", ![r].rows = rows,
          ![r].more = hasResults /\ hand[r].task < search[r].maxPages]
  BY DEF visitPage
<1> DEFINE more == hasResults /\ hand[r].task < search[r].maxPages
           h == [at |-> "rows", task |-> hand[r].task, rows |-> rows,
                 row |-> hand[r].row, known |-> hand[r].known, new |-> hand[r].new,
                 more |-> more, contact |-> hand[r].contact]
<1>2. RunInv(r) /\ hand[r] \in Hands /\ hand[r].at = "visit"
      /\ hand[r].task \in PageNumbers /\ r \in DOMAIN search
  BY Types DEF LeadInv, RunInv, HandInv, visitPage, At
<1>3. rows \subseteq Slugs /\ more \in BOOLEAN
      /\ (more => hand[r].task + 1 \in PageNumbers)
  <2>1. search[r].maxPages \in PageNumbers /\ search[r].leads \subseteq Slugs
    BY <1>2, Types DEF LeadInv
  <2> QED  BY <2>1, <1>2, LeadAssumption DEF PageNumbers, LeadAssumption
<1>4. h \in Hands
  BY <1>2, <1>3 DEF Hands, HandSteps
<1>5. hand'[r] = h
  BY <1>1, <1>2, <1>3 DEF LeadInv, LeadTypeOK, Hands
<1>6. hand' = [q \in Runs |-> IF q = r THEN h ELSE hand[q]]
  BY <1>1, <1>5 DEF LeadInv, LeadTypeOK
<1>7. UNCHANGED <<there, deleting, task, database>>
  BY DEF visitPage
<1>8. HandInv(r)'
  <2>1. ~hand[r].contact
    BY <1>2 DEF RunInv, HandInv
  <2> HIDE DEF more
  <2> QED  BY <2>1, <1>2, <1>3, <1>5, <1>7 DEF RunInv, HandInv, database
<1>9. CountInv(r)' /\ Half(r) \subseteq Half(r)'
  BY <1>2, <1>5, <1>7 DEF RunInv, CountInv, Pending, Half, database
<1> QED  BY <1>4, <1>6, <1>7, <1>8, <1>9, HandOnly

\* A lead of the page is looked up; one that is not there is attached to no run.
LEMMA FindBeforeStep ==
  ASSUME LeadInv, NEW r \in Runs, NEW s \in Slugs, findBefore(r, s)
  PROVE  LeadInv'
<1> DEFINE known == lead[s].stage # "none"
           h == [at |-> "upsert", task |-> hand[r].task, rows |-> hand[r].rows,
                 row |-> {s}, known |-> known, new |-> hand[r].new,
                 more |-> hand[r].more, contact |-> hand[r].contact]
<1>1. RunInv(r) /\ hand[r] \in Hands /\ hand[r].at = "rows"
  BY Types DEF LeadInv, findBefore, At
<1>2. h \in Hands
  BY <1>1 DEF Hands, HandSteps
<1>3. hand'[r] = h
  BY <1>1 DEF LeadInv, LeadTypeOK, Hands, findBefore
<1>4. hand' = [q \in Runs |-> IF q = r THEN h ELSE hand[q]]
  BY <1>3 DEF LeadInv, LeadTypeOK, findBefore
<1>5. UNCHANGED <<there, deleting, task, database>>
  BY DEF findBefore
<1>6. HandInv(r)'
  <2>1. ~hand[r].contact
    BY <1>1 DEF RunInv, HandInv
  <2> HIDE DEF known
  <2> QED  BY <2>1, <1>1, <1>3, <1>5 DEF RunInv, HandInv, database
<1>7. CountInv(r)'
  <2>1. ~known => s \notin runLead[r]
    BY <1>1 DEF RunInv, CountInv
  <2> HIDE DEF known
  <2> QED  BY <2>1, <1>1, <1>3, <1>5 DEF RunInv, CountInv, Pending, database
<1>8. Half(r) \subseteq Half(r)'
  BY <1>1 DEF Half
<1> QED  BY <1>2, <1>4, <1>5, <1>6, <1>7, <1>8, HandOnly

\* A profile job is about a lead that is there.
LEMMA VisitProfileStep ==
  ASSUME LeadInv, NEW r \in Runs, visitProfile(r)
  PROVE  LeadInv'
<1> DEFINE h == [at |-> "profile", task |-> hand[r].task, rows |-> hand[r].rows,
                 row |-> {hand[r].task}, known |-> hand[r].known,
                 new |-> hand[r].new, more |-> hand[r].more,
                 contact |-> hand[r].contact]
<1>1. RunInv(r) /\ hand[r] \in Hands /\ hand[r].at = "visit" /\ hand[r].task \in Slugs
  BY Types DEF LeadInv, visitProfile, At
<1>2. h \in Hands
  BY <1>1 DEF Hands, HandSteps
<1>3. hand'[r] = h
  BY <1>1 DEF LeadInv, LeadTypeOK, Hands, visitProfile
<1>4. hand' = [q \in Runs |-> IF q = r THEN h ELSE hand[q]]
  BY <1>3 DEF LeadInv, LeadTypeOK, visitProfile
<1>5. UNCHANGED <<there, deleting, task, database>>
  BY DEF visitProfile
<1>6. lead[hand[r].task].stage # "none" /\ ~hand[r].contact
  BY <1>1 DEF RunInv, HandInv, JobInv
<1>7. HandInv(r)'
  BY <1>1, <1>3, <1>5, <1>6 DEF RunInv, HandInv, database
<1>8. CountInv(r)' /\ Half(r) \subseteq Half(r)'
  BY <1>1, <1>3, <1>5 DEF RunInv, CountInv, Pending, Half, database
<1> QED  BY <1>2, <1>4, <1>5, <1>7, <1>8, HandOnly

\* The job of the handler at work gets a status and a count of attempts.
SetJob(r, status, n) ==
  task' = [q \in Runs |-> [t \in Tasks |->
            IF q = r /\ t = hand[r].task THEN [status |-> status, tries |-> n]
                                        ELSE task[q][t]]]

\* A handler that ends, however it does, gives up its claim to nothing but what it
\* has written.
LEMMA EndStep ==
  ASSUME LeadInv, NEW r \in Runs, NEW status \in {"SUCCEEDED", "DEAD", "QUEUED"},
         NEW n \in 0..MaxTries, status = "QUEUED" => n < MaxTries,
         ~At(r, "idle"), SetJob(r, status, n), hand' = [hand EXCEPT ![r] = Free],
         UNCHANGED <<search, there, deleting, lead, evidence, runLead, fresh>>,
         failures' \in 0..MaxFailures, torn' \in SUBSET Slugs,
         torn \cup Half(r) \subseteq torn'
  PROVE  LeadInv'
<1>1. RunInv(r) /\ hand[r] \in Hands /\ hand[r].task \in Tasks
      /\ task[r][hand[r].task].status = "RUNNING"
  BY Types DEF LeadInv, RunInv, HandInv, At
<1>2. Free \in Hands
  <2>1. Cardinality(Slugs) \in Nat
    BY LeadsAreFinite
  <2> QED  BY <2>1 DEF Free, Hands, HandSteps
<1>3. Free.at = "idle" /\ Free.new = 0 /\ ~Free.contact /\ ~Free.more
  BY DEF Free
<1>4. hand' \in [Runs -> Hands] /\ hand'[r] = Free
  BY <1>2 DEF LeadInv, LeadTypeOK, Hands
<1>5. \A q \in Runs \ {r} : hand'[q] = hand[q]
  BY DEF LeadInv, LeadTypeOK
<1>6. /\ \A q \in Runs \ {r} : task'[q] = task[q]
      /\ \A t \in Tasks : task'[r][t] = IF t = hand[r].task
           THEN [status |-> status, tries |-> n] ELSE task[r][t]
  BY DEF SetJob, LeadInv, LeadTypeOK
<1>7. task' \in [Runs -> [Tasks -> Jobs]]
  <2>1. [status |-> status, tries |-> n] \in Jobs
    BY DEF Jobs, Statuses, Open
  <2>2. task \in [Runs -> [Tasks -> Jobs]]
    BY DEF LeadInv, LeadTypeOK, Jobs, Statuses
  <2> QED  BY <2>1, <2>2 DEF SetJob
<1>8. LeadTypeOK'
  BY <1>4, <1>7 DEF LeadInv, LeadTypeOK, Hands, Jobs, Statuses
<1>9. RunInv(r)'
  <2>1. HandInv(r)'
    BY <1>3, <1>4 DEF HandInv
  <2>2. JobInv(r)'
    BY <1>1, <1>6 DEF RunInv, JobInv
  <2>3. CountInv(r)'
    <3>1. Pending(r) \in {0, 1} /\ Pending(r)' = 0
      BY <1>3, <1>4 DEF Pending
    <3>2. hand[r].new \in Nat /\ fresh[r] \in Nat /\ Cardinality(runLead[r]) \in Nat
      BY <1>1, Types, LeadsAreFinite DEF LeadInv, Hands
    <3> QED
      BY <3>1, <3>2, <1>1, <1>3, <1>4 DEF RunInv, CountInv
  <2> QED  BY <2>1, <2>2, <2>3 DEF RunInv
<1> QED  BY <1>5, <1>6, <1>8, <1>9, StepOfHand

\* The ways a handler ends.
LEMMA EndSteps ==
  ASSUME LeadInv, NEW r \in Runs,
         notFound(r) \/ putOff(r) \/ updateStorageState(r) \/ attemptFails(r)
  PROVE  LeadInv'
<1>1. /\ hand[r] \in Hands /\ hand[r].at # "idle" /\ hand[r].task \in Tasks
      /\ task[r] \in [Tasks -> Jobs] /\ task[r][hand[r].task].tries \in 1..MaxTries
  <2>1. hand[r] \in Hands /\ task[r] \in [Tasks -> Jobs] /\ RunInv(r)
        /\ hand[r].at # "idle"
    BY Types DEF LeadInv, notFound, putOff, updateStorageState, attemptFails, At
  <2>2. hand[r].task \in Tasks /\ task[r][hand[r].task].tries >= 1
    BY <2>1 DEF RunInv, HandInv
  <2> QED  BY <2>1, <2>2 DEF Jobs
<1>2. Half(r) \subseteq Slugs
  BY <1>1 DEF Half, Hands
<1>3. ASSUME NEW status \in Statuses, EndAs(r, status)
      PROVE  SetJob(r, status, task[r][hand[r].task].tries)
  <2> DEFINE job == [status |-> status, tries |-> task[r][hand[r].task].tries]
  <2>1. [task[r][hand[r].task] EXCEPT !.status = status] = job
    BY <1>1 DEF Jobs
  <2>2. task \in [Runs -> [Tasks -> Jobs]]
    BY DEF LeadInv, LeadTypeOK, Jobs, Statuses
  <2>3. task' = [task EXCEPT ![r] = [task[r] EXCEPT ![hand[r].task] = job]]
    BY <2>1, <2>2, <1>3 DEF EndAs
  <2> HIDE DEF job
  <2>4. task' = [q \in Runs |-> [t \in Tasks |->
                  IF q = r /\ t = hand[r].task THEN job ELSE task[q][t]]]
    BY <2>2, <2>3
  <2> QED  BY <2>4 DEF SetJob, job
<1>4. CASE notFound(r)
  <2>1. SetJob(r, "DEAD", task[r][hand[r].task].tries) /\ Half(r) = {}
    BY <1>3, <1>4 DEF notFound, Statuses, Half, At
  <2> QED
    <3>1. failures' \in 0..MaxFailures /\ torn' \in SUBSET Slugs /\ torn' = torn
      BY <1>4 DEF notFound, database, LeadInv, LeadTypeOK
    <3>2. /\ ~At(r, "idle") /\ hand' = [hand EXCEPT ![r] = Free]
          /\ UNCHANGED <<search, there, deleting, lead, evidence, runLead, fresh>>
      BY <1>4, <1>1 DEF notFound, EndAs, database, At
    <3>3. task[r][hand[r].task].tries \in 0..MaxTries
      BY <1>1
    <3> QED  BY <2>1, <3>1, <3>2, <3>3, EndStep
<1>5. CASE updateStorageState(r)
  <2>1. SetJob(r, "SUCCEEDED", task[r][hand[r].task].tries) /\ Half(r) = {}
    BY <1>3, <1>5 DEF updateStorageState, Statuses, Half, At
  <2> QED
    <3>1. failures' \in 0..MaxFailures /\ torn' \in SUBSET Slugs /\ torn' = torn
      BY <1>5 DEF updateStorageState, database, LeadInv, LeadTypeOK
    <3>2. /\ ~At(r, "idle") /\ hand' = [hand EXCEPT ![r] = Free]
          /\ UNCHANGED <<search, there, deleting, lead, evidence, runLead, fresh>>
      BY <1>5, <1>1 DEF updateStorageState, EndAs, database, At
    <3>3. task[r][hand[r].task].tries \in 0..MaxTries
      BY <1>1
    <3> QED  BY <2>1, <3>1, <3>2, <3>3, EndStep
<1>6. CASE putOff(r)
  <2>1. Half(r) = {} /\ task[r][hand[r].task].tries - 1 \in 0..MaxTries
        /\ task[r][hand[r].task].tries - 1 < MaxTries
    BY <1>1, <1>6, LeadAssumption DEF putOff, Half, At, LeadAssumption
  <2>2. SetJob(r, "QUEUED", task[r][hand[r].task].tries - 1)
    BY <1>1, <1>6 DEF putOff, SetJob, LeadInv, LeadTypeOK
  <2> QED
    BY <1>1, <1>6, <2>1, <2>2, EndStep
       DEF putOff, database, LeadInv, LeadTypeOK, At
<1>7. CASE attemptFails(r)
  <2> DEFINE status == IF task[r][hand[r].task].tries < MaxTries THEN "QUEUED" ELSE "DEAD"
  <2>1. status \in {"DEAD", "QUEUED"} /\ status \in Statuses /\ EndAs(r, status)
    BY <1>7 DEF attemptFails, Statuses, Open
  <2>2. SetJob(r, status, task[r][hand[r].task].tries)
    BY <2>1, <1>3
  <2>3. failures' \in 0..MaxFailures
    BY <1>7, LeadAssumption
       DEF attemptFails, LeadInv, LeadTypeOK, LeadAssumption
  <2>4. torn' = torn \cup Half(r) /\ torn \subseteq Slugs
    BY <1>7 DEF attemptFails, LeadInv, LeadTypeOK
  <2>5. status = "QUEUED" => task[r][hand[r].task].tries < MaxTries
    OBVIOUS
  <2>6. /\ ~At(r, "idle") /\ hand' = [hand EXCEPT ![r] = Free]
        /\ UNCHANGED <<search, there, deleting, lead, evidence, runLead, fresh>>
    BY <1>7 DEF attemptFails, EndAs
  <2>7. task[r][hand[r].task].tries \in 0..MaxTries
    BY <1>1
  <2> HIDE DEF status
  <2> QED  BY <1>2, <2>1, <2>2, <2>3, <2>4, <2>5, <2>6, <2>7, EndStep
<1> QED  BY <1>4, <1>5, <1>6, <1>7

\* A queued job has an attempt left.
LEMMA ClaimStep ==
  ASSUME LeadInv, NEW r \in Runs, NEW t \in Tasks, claimTask(r, t)
  PROVE  LeadInv'
<1> DEFINE job == [status |-> "RUNNING", tries |-> task[r][t].tries + 1]
<1>1. /\ RunInv(r) /\ hand[r] \in Hands /\ hand[r].at = "idle"
      /\ task[r][t] \in Jobs /\ task[r][t].status = "QUEUED"
      /\ task[r][t].tries < MaxTries
  BY Types DEF LeadInv, claimTask, At, RunInv, JobInv
<1>2. job \in Jobs /\ job.tries >= 1
  BY <1>1, LeadAssumption DEF Jobs, Statuses, Open, LeadAssumption
<1>3. task \in [Runs -> [Tasks -> Jobs]] /\ hand \in [Runs -> Hands]
  BY DEF LeadInv, LeadTypeOK, Jobs, Statuses, Hands
<1>4. /\ hand' \in [Runs -> Hands]
      /\ \A q \in Runs \ {r} : hand'[q] = hand[q]
      /\ hand'[r].at = "open" /\ hand'[r].task = t /\ hand'[r].new = 0
      /\ ~hand'[r].more /\ ~hand'[r].contact
  <2>1. 0 \in 0..Cardinality(Slugs)
    BY LeadsAreFinite
  <2>2. hand' = [hand EXCEPT ![r] = [Free EXCEPT !.at = "open", !.task = t]]
    BY DEF claimTask
  <2>3. hand' \in [Runs -> Hands]
    BY <1>3, <2>1, <2>2 DEF Hands, HandSteps, Free
  <2>4. /\ hand'[r].at = "open" /\ hand'[r].task = t /\ hand'[r].new = 0
        /\ ~hand'[r].more /\ ~hand'[r].contact
    BY <1>3, <2>2 DEF Free
  <2>5. \A q \in Runs \ {r} : hand'[q] = hand[q]
    BY <1>3, <2>2
  <2> QED  BY <2>3, <2>4, <2>5
<1>5. task' = [task EXCEPT ![r] = [task[r] EXCEPT ![t] = job]]
  BY <1>3 DEF claimTask
<1> HIDE DEF job
<1>6. /\ \A q \in Runs \ {r} : task'[q] = task[q]
      /\ task' \in [Runs -> [Tasks -> Jobs]]
      /\ \A u \in Tasks : task'[r][u] = IF u = t THEN job ELSE task[r][u]
  BY <1>2, <1>3, <1>5
<1>7. LeadTypeOK'
  BY <1>4, <1>6 DEF LeadInv, LeadTypeOK, Hands, Jobs, Statuses, claimTask, database
<1>8. RunInv(r)'
  <2>1. HandInv(r)'
    BY <1>2, <1>4, <1>6 DEF HandInv, job
  <2>2. JobInv(r)'
    BY <1>1, <1>6 DEF RunInv, JobInv, job, claimTask, database
  <2>3. CountInv(r)'
    <3>1. Pending(r) = 0 /\ Pending(r)' = 0 /\ hand'[r].new = 0
          /\ hand'[r].at = "open"
      BY <1>1, <1>4 DEF Pending
    <3>2. hand[r].new \in Nat /\ fresh[r] \in Nat /\ Cardinality(runLead[r]) \in Nat
      BY <1>1, Types, LeadsAreFinite DEF LeadInv, Hands
    <3> QED
      BY <3>1, <3>2, <1>1 DEF RunInv, CountInv, claimTask, database
  <2> QED  BY <2>1, <2>2, <2>3 DEF RunInv
<1> QED
  BY <1>1, <1>4, <1>6, <1>7, <1>8, StepOfHand DEF claimTask, database, Half

\* A lead that is new is attached for the first time.
LEMMA AttachStep ==
  ASSUME LeadInv, NEW r \in Runs, NEW s \in Slugs, attachToRun(r, s)
  PROVE  LeadInv'
<1> DEFINE h == [at |-> "snapshot", task |-> hand[r].task, rows |-> hand[r].rows,
                 row |-> hand[r].row, known |-> hand[r].known, new |-> hand[r].new,
                 more |-> hand[r].more, contact |-> hand[r].contact]
<1>1. RunInv(r) /\ hand[r] \in Hands /\ hand[r].at = "attach" /\ hand[r].row = {s}
      /\ r \in there
  BY Types DEF LeadInv, attachToRun, At
<1>2. hand' = [q \in Runs |-> IF q = r THEN h ELSE hand[q]] /\ h \in Hands
  <2>1. h \in Hands
    BY <1>1 DEF Hands, HandSteps
  <2> QED  BY <2>1, Gone DEF attachToRun, LeadInv, HandSteps
<1>3. hand' \in [Runs -> Hands] /\ hand'[r] = h
      /\ \A q \in Runs \ {r} : hand'[q] = hand[q] /\ runLead'[q] = runLead[q]
  BY <1>2 DEF LeadInv, LeadTypeOK, Hands, attachToRun
<1>4. runLead' \in [Runs -> SUBSET Slugs] /\ runLead'[r] = runLead[r] \cup {s}
  BY DEF LeadInv, LeadTypeOK, attachToRun
<1>5. LeadTypeOK'
  BY <1>3, <1>4 DEF LeadInv, LeadTypeOK, Hands, attachToRun
<1>6. RunInv(r)'
  <2>1. HandInv(r)'
    BY <1>1, <1>3 DEF RunInv, HandInv, attachToRun
  <2>2. JobInv(r)'
    BY <1>1 DEF RunInv, JobInv, attachToRun
  <2>3. CountInv(r)'
    <3>1. /\ IsFiniteSet(runLead[r]) /\ Cardinality(runLead[r]) \in Nat
          /\ hand[r].new \in Nat /\ fresh[r] \in Nat
      BY <1>1, Types, LeadsAreFinite DEF LeadInv, Hands
    <3>2. Cardinality(runLead'[r]) =
            IF s \in runLead[r] THEN Cardinality(runLead[r])
                                ELSE Cardinality(runLead[r]) + 1
      BY <3>1, <1>4, FS_AddElement
    <3>3. fresh[r] + hand[r].new <= Cardinality(runLead[r])
      BY <3>1, <1>1 DEF RunInv, CountInv, Pending
    <3>4. ~hand[r].known => s \notin runLead[r]
      BY <1>1 DEF RunInv, CountInv
    <3>5. hand'[r].at = "snapshot" /\ hand'[r].known = hand[r].known
          /\ hand'[r].new = hand[r].new /\ fresh' = fresh /\ there' = there
      BY <1>3 DEF attachToRun
    <3>6. fresh'[r] + hand'[r].new + Pending(r)' <= Cardinality(runLead'[r])
      BY <3>1, <3>2, <3>3, <3>4, <3>5 DEF Pending
    <3>7. lead[s].stage # "none" /\ lead' = lead
      BY <1>1 DEF RunInv, HandInv, attachToRun
    <3> QED
      BY <3>5, <3>6, <3>7, <1>1, <1>4 DEF RunInv, CountInv
  <2> QED  BY <2>1, <2>2, <2>3 DEF RunInv
<1>7. Half(r) \subseteq Half(r)'
  BY <1>1, <1>3 DEF Half
<1> QED  BY <1>3, <1>5, <1>6, <1>7, StepOfHand DEF attachToRun

\* The counter takes over what the attempt has counted.
LEMMA IncrementStep ==
  ASSUME LeadInv, NEW r \in Runs, incrementCounters(r)
  PROVE  LeadInv'
<1> DEFINE h == [at |-> "next", task |-> hand[r].task, rows |-> hand[r].rows,
                 row |-> hand[r].row, known |-> hand[r].known, new |-> 0,
                 more |-> hand[r].more, contact |-> hand[r].contact]
<1>1. RunInv(r) /\ hand[r] \in Hands /\ hand[r].at = "rows" /\ r \in there
      /\ fresh[r] \in Nat /\ runLead[r] \in SUBSET Slugs
      /\ Cardinality(runLead[r]) \in Nat /\ Cardinality(Slugs) \in Nat
      /\ Cardinality(runLead[r]) <= Cardinality(Slugs)
  BY Types, LeadsAreFinite DEF LeadInv, incrementCounters, At
<1>2. h \in Hands
  BY <1>1 DEF Hands, HandSteps
<1>3. hand'[r] = h
  BY <1>1 DEF LeadInv, LeadTypeOK, Hands, incrementCounters
<1>4. hand' \in [Runs -> Hands]
      /\ \A q \in Runs \ {r} : hand'[q] = hand[q] /\ fresh'[q] = fresh[q]
  <2>1. hand' = [q \in Runs |-> IF q = r THEN h ELSE hand[q]]
    BY <1>3 DEF LeadInv, LeadTypeOK, incrementCounters
  <2>2. hand \in [Runs -> Hands]
    BY DEF LeadInv, LeadTypeOK, Hands
  <2>3. \A q \in Runs \ {r} : fresh'[q] = fresh[q]
    BY DEF LeadInv, LeadTypeOK, incrementCounters
  <2> HIDE DEF h
  <2> QED  BY <2>1, <2>2, <2>3, <1>2
<1>5. /\ fresh'[r] = fresh[r] + hand[r].new /\ hand[r].new \in Nat
      /\ fresh[r] + hand[r].new <= Cardinality(runLead[r])
  <2>1. Pending(r) = 0 /\ hand[r].new \in Nat
    BY <1>1 DEF Pending, Hands
  <2> QED
    BY <2>1, <1>1 DEF RunInv, CountInv, LeadInv, LeadTypeOK, incrementCounters
<1>6. fresh' \in [Runs -> 0..Cardinality(Slugs)]
  BY <1>1, <1>5 DEF LeadInv, LeadTypeOK, incrementCounters
<1>7. LeadTypeOK'
  BY <1>4, <1>6 DEF LeadInv, LeadTypeOK, Hands, incrementCounters
<1>8. RunInv(r)'
  <2>1. ~hand[r].contact
    BY <1>1 DEF RunInv, HandInv
  <2>2. HandInv(r)'
    <3>1. /\ hand'[r].at = "next" /\ hand'[r].task = hand[r].task
          /\ hand'[r].more = hand[r].more /\ hand'[r].contact = hand[r].contact
          /\ task' = task /\ search' = search
      BY <1>3 DEF incrementCounters
    <3> QED  BY <3>1, <2>1, <1>1 DEF RunInv, HandInv
  <2>3. JobInv(r)'
    BY <1>1 DEF RunInv, JobInv, incrementCounters
  <2>4. CountInv(r)'
    <3>1. hand'[r].at = "next" /\ hand'[r].new = 0 /\ Pending(r)' = 0
      BY <1>3 DEF Pending
    <3> QED
      BY <3>1, <1>1, <1>5 DEF RunInv, CountInv, incrementCounters
  <2> QED  BY <2>2, <2>3, <2>4 DEF RunInv
<1> QED
  BY <1>1, <1>4, <1>7, <1>8, StepOfHand DEF incrementCounters, Half

\* A new job is queued under a key that is free, or nothing is.
LEMMA Queues ==
  ASSUME LeadInv, NEW r \in Runs, NEW u \in Tasks, NEW wanted \in BOOLEAN,
         task' = IF wanted /\ task[r][u].status = "ABSENT"
                   THEN [task EXCEPT ![r][u].status = "QUEUED"] ELSE task
  PROVE  /\ task' \in [Runs -> [Tasks -> Jobs]]
         /\ \A q \in Runs \ {r} : task'[q] = task[q]
         /\ \A t \in Tasks :
              \/ task'[r][t] = task[r][t]
              \/ /\ t = u /\ task[r][t].status = "ABSENT"
                 /\ task'[r][t] = [status |-> "QUEUED", tries |-> 0]
<1> DEFINE job == [status |-> "QUEUED", tries |-> 0]
<1>1. task \in [Runs -> [Tasks -> Jobs]]
  BY DEF LeadInv, LeadTypeOK, Jobs, Statuses
<1>2. CASE ~(wanted /\ task[r][u].status = "ABSENT")
  BY <1>1, <1>2
<1>3. CASE wanted /\ task[r][u].status = "ABSENT"
  <2>1. task[r][u] \in Jobs /\ task[r][u].tries = 0
    BY <1>1, <1>3 DEF LeadInv, RunInv, JobInv
  <2>2. [task[r][u] EXCEPT !.status = "QUEUED"] = job
    BY <2>1 DEF Jobs
  <2>3. job \in Jobs
    BY LeadAssumption DEF Jobs, Statuses, Open, LeadAssumption
  <2>4. task' = [task EXCEPT ![r] = [task[r] EXCEPT ![u] = job]]
    BY <1>1, <1>3, <2>2
  <2> HIDE DEF job
  <2>5. /\ task' \in [Runs -> [Tasks -> Jobs]]
        /\ \A q \in Runs \ {r} : task'[q] = task[q]
        /\ \A t \in Tasks : task'[r][t] = IF t = u THEN job ELSE task[r][t]
    BY <1>1, <2>3, <2>4
  <2> QED  BY <1>3, <2>5 DEF job
<1> QED  BY <1>2, <1>3

\* The next page's job is queued, if there is a next page.
LEMMA NextPageStep ==
  ASSUME LeadInv, NEW r \in Runs, enqueueNextPage(r)
  PROVE  LeadInv'
<1> DEFINE u == IF hand[r].more THEN hand[r].task + 1 ELSE 1
           h == [at |-> "seal", task |-> hand[r].task, rows |-> hand[r].rows,
                 row |-> hand[r].row, known |-> hand[r].known, new |-> hand[r].new,
                 more |-> hand[r].more, contact |-> hand[r].contact]
<1>1. RunInv(r) /\ hand[r] \in Hands /\ hand[r].at = "next"
  BY Types DEF LeadInv, enqueueNextPage, At
<1>2. u \in PageNumbers /\ u \in Tasks /\ u \notin Slugs /\ hand[r].more \in BOOLEAN
  <2>1. 1 \in PageNumbers /\ Slugs \cap PageNumbers = {}
    BY LeadAssumption DEF LeadAssumption, PageNumbers
  <2>2. hand[r].more => hand[r].task + 1 \in PageNumbers
    BY <1>1 DEF RunInv, HandInv
  <2> QED  BY <2>1, <2>2, <1>1 DEF Tasks, Hands
<1>3. task' = IF hand[r].more /\ task[r][u].status = "ABSENT"
                THEN [task EXCEPT ![r][u].status = "QUEUED"] ELSE task
  BY DEF enqueueNextPage
<1>4. hand' = [q \in Runs |-> IF q = r THEN h ELSE hand[q]] /\ h \in Hands
  <2>1. h \in Hands
    BY <1>1 DEF Hands, HandSteps
  <2> QED  BY <2>1, Gone DEF enqueueNextPage, LeadInv, HandSteps
<1>5. hand' \in [Runs -> Hands] /\ hand'[r] = h
      /\ \A q \in Runs \ {r} : hand'[q] = hand[q]
  BY <1>4 DEF LeadInv, LeadTypeOK, Hands
<1> HIDE DEF u
<1>6. /\ task' \in [Runs -> [Tasks -> Jobs]]
      /\ \A q \in Runs \ {r} : task'[q] = task[q]
      /\ \A t \in Tasks :
           \/ task'[r][t] = task[r][t]
           \/ /\ t = u /\ task[r][t].status = "ABSENT"
              /\ task'[r][t] = [status |-> "QUEUED", tries |-> 0]
  BY <1>2, <1>3, Queues
<1>7. LeadTypeOK'
  BY <1>5, <1>6 DEF LeadInv, LeadTypeOK, Hands, Jobs, Statuses, enqueueNextPage, database
<1>8. RunInv(r)'
  <2>1. HandInv(r)'
    <3>1. /\ hand[r].task \in Tasks /\ task[r][hand[r].task].status = "RUNNING"
          /\ task[r][hand[r].task].tries >= 1 /\ ~hand[r].contact
      BY <1>1 DEF RunInv, HandInv
    <3>2. task'[r][hand[r].task] = task[r][hand[r].task]
      BY <3>1, <1>6
    <3> QED
      BY <3>1, <3>2, <1>1, <1>5 DEF RunInv, HandInv, enqueueNextPage, database
  <2>2. JobInv(r)'
    <3>1. MaxTries \in Nat /\ 0 < MaxTries /\ lead' = lead
      BY LeadAssumption DEF LeadAssumption, enqueueNextPage, database
    <3> SUFFICES ASSUME NEW t \in Tasks
                 PROVE  /\ task'[r][t].status = "ABSENT" => task'[r][t].tries = 0
                        /\ task'[r][t].status = "QUEUED" => task'[r][t].tries < MaxTries
                        /\ t \in Slugs /\ task'[r][t].status # "ABSENT" =>
                             lead[t].stage # "none"
      BY <3>1 DEF JobInv
    <3>2. CASE task'[r][t] = task[r][t]
      BY <3>2, <1>1 DEF RunInv, JobInv
    <3>3. CASE t = u /\ task'[r][t] = [status |-> "QUEUED", tries |-> 0]
      BY <3>1, <3>3, <1>2
    <3> QED  BY <3>2, <3>3, <1>6
  <2>3. CountInv(r)'
    BY <1>1, <1>5 DEF RunInv, CountInv, Pending, enqueueNextPage, database
  <2> QED  BY <2>1, <2>2, <2>3 DEF RunInv
<1> QED
  BY <1>1, <1>5, <1>6, <1>7, <1>8, StepOfHand DEF enqueueNextPage, database, Half

\* run.start's page is a job nobody works on yet.
LEMMA FirstPageStep ==
  ASSUME LeadInv, NEW r \in Runs, enqueueFirstPage(r)
  PROVE  LeadInv'
<1>1. /\ RunInv(r) /\ 1 \in Tasks /\ 1 \notin Slugs
      /\ UNCHANGED <<there, deleting, hand, search, lead, evidence, runLead, fresh,
                     failures, torn>>
  <2>1. 1 \in PageNumbers /\ Slugs \cap PageNumbers = {}
    BY LeadAssumption DEF LeadAssumption, PageNumbers
  <2> QED  BY <2>1 DEF LeadInv, Tasks, enqueueFirstPage, database
<1>2. /\ task' \in [Runs -> [Tasks -> Jobs]]
      /\ \A q \in Runs \ {r} : task'[q] = task[q]
      /\ \A t \in Tasks :
           \/ task'[r][t] = task[r][t]
           \/ /\ t = 1 /\ task[r][t].status = "ABSENT"
              /\ task'[r][t] = [status |-> "QUEUED", tries |-> 0]
  <2>1. task' = IF TRUE /\ task[r][1].status = "ABSENT"
                  THEN [task EXCEPT ![r][1].status = "QUEUED"] ELSE task
    BY DEF enqueueFirstPage
  <2> QED  BY <1>1, <2>1, Queues
<1>3. LeadTypeOK'
  BY <1>1, <1>2 DEF LeadInv, LeadTypeOK, Jobs, Statuses
<1>4. HandInv(r)'
  <2>1. hand[r].at # "idle" => task'[r][hand[r].task] = task[r][hand[r].task]
    BY <1>1, <1>2 DEF RunInv, HandInv
  <2> QED  BY <2>1, <1>1 DEF RunInv, HandInv
<1>5. JobInv(r)'
  <2>1. MaxTries \in Nat /\ 0 < MaxTries
    BY LeadAssumption DEF LeadAssumption
  <2> QED  BY <2>1, <1>1, <1>2 DEF RunInv, JobInv
<1>6. CountInv(r)'
  BY <1>1 DEF RunInv, CountInv, Pending
<1> QED
  BY <1>1, <1>2, <1>3, <1>4, <1>5, <1>6, StepOfHand DEF Half, RunInv

\* A profile job is queued for a lead that is there.
LEMMA EnqueueProfileStep ==
  ASSUME LeadInv, NEW r \in Runs, NEW s \in Slugs, enqueueProfile(r, s)
  PROVE  LeadInv'
<1> DEFINE h == [at |-> "rows", task |-> hand[r].task, rows |-> hand[r].rows \ {s},
                 row |-> {}, known |-> hand[r].known, new |-> hand[r].new,
                 more |-> hand[r].more, contact |-> hand[r].contact]
<1>1. RunInv(r) /\ hand[r] \in Hands /\ hand[r].at = "enqueue"
      /\ hand[r].row = {s} /\ s \in Tasks
  BY Types DEF LeadInv, enqueueProfile, At, Tasks
<1>2. h \in Hands
  BY <1>1 DEF Hands, HandSteps
<1>3. hand'[r] = h
  BY <1>1 DEF LeadInv, LeadTypeOK, Hands, enqueueProfile
<1>4. hand' \in [Runs -> Hands] /\ \A q \in Runs \ {r} : hand'[q] = hand[q]
  <2>1. hand' = [q \in Runs |-> IF q = r THEN h ELSE hand[q]]
    BY <1>3 DEF LeadInv, LeadTypeOK, enqueueProfile
  <2>2. hand \in [Runs -> Hands]
    BY DEF LeadInv, LeadTypeOK, Hands
  <2> HIDE DEF h
  <2> QED  BY <2>1, <2>2, <1>2
<1>5. /\ task' \in [Runs -> [Tasks -> Jobs]]
      /\ \A q \in Runs \ {r} : task'[q] = task[q]
      /\ \A t \in Tasks :
           \/ task'[r][t] = task[r][t]
           \/ /\ t = s /\ task[r][t].status = "ABSENT"
              /\ task'[r][t] = [status |-> "QUEUED", tries |-> 0]
  <2>1. task' = IF TRUE /\ task[r][s].status = "ABSENT"
                  THEN [task EXCEPT ![r][s].status = "QUEUED"] ELSE task
    BY DEF enqueueProfile
  <2> QED  BY <1>1, <2>1, Queues
<1>6. LeadTypeOK'
  BY <1>4, <1>5 DEF LeadInv, LeadTypeOK, Hands, Jobs, Statuses, enqueueProfile, database
<1>7. RunInv(r)'
  <2>1. HandInv(r)'
    <3>1. /\ hand[r].task \in Tasks /\ task[r][hand[r].task].status = "RUNNING"
          /\ task[r][hand[r].task].tries >= 1 /\ ~hand[r].contact
      BY <1>1 DEF RunInv, HandInv
    <3>2. task'[r][hand[r].task] = task[r][hand[r].task]
      BY <3>1, <1>5
    <3> QED
      BY <3>1, <3>2, <1>1, <1>3 DEF RunInv, HandInv, enqueueProfile, database
  <2>2. JobInv(r)'
    <3>1. lead[s].stage # "none"
      BY <1>1 DEF RunInv, HandInv
    <3> QED
      BY <3>1, <1>1, <1>5, LeadAssumption
         DEF RunInv, JobInv, enqueueProfile, database, LeadAssumption
  <2>3. CountInv(r)'
    BY <1>1, <1>3 DEF RunInv, CountInv, Pending, enqueueProfile, database
  <2> QED  BY <2>1, <2>2, <2>3 DEF RunInv
<1> QED
  BY <1>1, <1>4, <1>5, <1>6, <1>7, StepOfHand DEF enqueueProfile, database, Half

\* The lead is there once its row is written, and half-written until its snapshot.
LEMMA UpsertStep ==
  ASSUME LeadInv, NEW r \in Runs, NEW s \in Slugs, upsertStub(r, s)
  PROVE  LeadInv'
<1> DEFINE h == [at |-> "attach", task |-> hand[r].task, rows |-> hand[r].rows,
                 row |-> hand[r].row, known |-> hand[r].known, new |-> hand[r].new,
                 more |-> hand[r].more, contact |-> hand[r].contact]
<1>1. RunInv(r) /\ hand[r] \in Hands /\ hand[r].at = "upsert" /\ hand[r].row = {s}
  BY Types DEF LeadInv, upsertStub, At
<1>2. h \in Hands
  BY <1>1 DEF Hands, HandSteps
<1>3. hand' = [q \in Runs |-> IF q = r THEN h ELSE hand[q]]
  BY Gone DEF upsertStub, LeadInv, HandSteps
<1>4. hand' \in [Runs -> Hands] /\ hand'[r] = h
      /\ \A q \in Runs \ {r} : hand'[q] = hand[q]
  BY <1>2, <1>3 DEF LeadInv, LeadTypeOK, Hands
<1>5. /\ lead' \in [Slugs -> LeadRows]
      /\ \A x \in Slugs \ {s} : lead'[x] = lead[x]
      /\ lead'[s].stage = IF lead[s].stage = "none" THEN "STUB" ELSE lead[s].stage
      /\ lead'[s].email = lead[s].email
  BY DEF LeadInv, LeadTypeOK, LeadRows, upsertStub
<1>6. LeadTypeOK'
  BY <1>4, <1>5 DEF LeadInv, LeadTypeOK, Hands, LeadRows, upsertStub
<1>7. Grows
  BY <1>5 DEF Grows, upsertStub
<1>8. \A x \in Slugs : lead[x].stage # "none" => lead'[x].stage # "none"
  BY <1>5
<1>9. RunInv(r)'
  <2>1. ~hand[r].contact /\ runLead[r] \subseteq Slugs
    BY <1>1, Types DEF LeadInv, RunInv, HandInv
  <2>2. lead'[s].stage # "none"
    BY <1>5
  <2>3. HandInv(r)'
    BY <2>1, <2>2, <1>1, <1>4 DEF RunInv, HandInv, upsertStub
  <2>4. JobInv(r)'
    BY <1>1, <1>8 DEF RunInv, JobInv, upsertStub
  <2>5. CountInv(r)'
    BY <2>1, <1>1, <1>4, <1>8 DEF RunInv, CountInv, Pending, upsertStub
  <2> QED  BY <2>3, <2>4, <2>5 DEF RunInv
<1>10. ScrapedHasEvidence'
  BY <1>5 DEF LeadInv, ScrapedHasEvidence, upsertStub
<1>11. EvidenceGapIsABrokenAttempt'
  <2>1. Half(r) = {} /\ Half(r)' = {s}
    BY <1>1, <1>4 DEF Half
  <2>2. \A q \in Runs \ {r} : Half(q)' = Half(q)
    BY <1>4 DEF Half
  <2> QED
    BY <2>1, <2>2, <1>5 DEF LeadInv, EvidenceGapIsABrokenAttempt, upsertStub
<1> QED
  BY <1>4, <1>6, <1>7, <1>9, <1>10, <1>11, StepOfRun DEF upsertStub

\* The row's snapshot closes the gap, and counts a lead that was new.
LEMMA SearchResultStep ==
  ASSUME LeadInv, NEW r \in Runs, NEW s \in Slugs, createSearchResult(r, s)
  PROVE  LeadInv'
<1> DEFINE new == IF hand[r].known THEN hand[r].new ELSE hand[r].new + 1
           h == [at |-> "enqueue", task |-> hand[r].task, rows |-> hand[r].rows,
                 row |-> hand[r].row, known |-> FALSE, new |-> new,
                 more |-> hand[r].more, contact |-> hand[r].contact]
<1>1. /\ RunInv(r) /\ hand[r] \in Hands /\ hand[r].at = "snapshot" /\ hand[r].row = {s}
      /\ r \in there /\ fresh[r] \in Nat /\ Cardinality(runLead[r]) \in Nat
      /\ Cardinality(Slugs) \in Nat /\ Cardinality(runLead[r]) <= Cardinality(Slugs)
      /\ hand[r].new \in Nat
  BY Types, LeadsAreFinite DEF LeadInv, createSearchResult, At, Hands
<1>2. new \in Nat /\ fresh[r] + new <= Cardinality(runLead[r])
  BY <1>1 DEF RunInv, CountInv, Pending
<1>3. h \in Hands
  BY <1>1, <1>2 DEF Hands, HandSteps
<1>4. hand'[r] = h
  BY <1>1 DEF LeadInv, LeadTypeOK, Hands, createSearchResult
<1>5. hand' \in [Runs -> Hands] /\ \A q \in Runs \ {r} : hand'[q] = hand[q]
  <2>1. hand' = [q \in Runs |-> IF q = r THEN h ELSE hand[q]]
    BY <1>4 DEF LeadInv, LeadTypeOK, createSearchResult
  <2>2. hand \in [Runs -> Hands]
    BY DEF LeadInv, LeadTypeOK, Hands
  <2> HIDE DEF h
  <2> QED  BY <2>1, <2>2, <1>3
<1> HIDE DEF new
<1>6. /\ evidence' \in [Slugs -> SUBSET {"SEARCH_RESULT", "PROFILE", "CONTACT_INFO"}]
      /\ evidence'[s] = evidence[s] \cup {"SEARCH_RESULT"}
      /\ \A x \in Slugs \ {s} : evidence'[x] = evidence[x]
  BY DEF LeadInv, LeadTypeOK, createSearchResult
<1>7. LeadTypeOK'
  BY <1>5, <1>6 DEF LeadInv, LeadTypeOK, Hands, createSearchResult
<1>8. \A x \in Slugs : evidence[x] \subseteq evidence'[x]
  BY <1>6
<1>9. Grows
  BY <1>8 DEF Grows, createSearchResult
<1>10. RunInv(r)'
  <2>1. ~hand[r].contact
    BY <1>1 DEF RunInv, HandInv
  <2>2. HandInv(r)'
    <3>1. /\ hand'[r].at = "enqueue" /\ hand'[r].task = hand[r].task
          /\ hand'[r].row = hand[r].row /\ hand'[r].more = hand[r].more
          /\ hand'[r].contact = hand[r].contact
      BY <1>4
    <3>2. task' = task /\ search' = search /\ lead' = lead
      BY DEF createSearchResult
    <3> QED  BY <3>1, <3>2, <2>1, <1>1 DEF RunInv, HandInv
  <2>3. JobInv(r)'
    BY <1>1 DEF RunInv, JobInv, createSearchResult
  <2>4. CountInv(r)'
    <3>1. hand'[r].new = new /\ hand'[r].at = "enqueue" /\ Pending(r)' = 0
      BY <1>4 DEF Pending
    <3> QED
      BY <3>1, <1>1, <1>2 DEF RunInv, CountInv, createSearchResult
  <2> QED  BY <2>2, <2>3, <2>4 DEF RunInv
<1>11. ScrapedHasEvidence'
  BY <1>8 DEF LeadInv, ScrapedHasEvidence, createSearchResult
<1>12. EvidenceGapIsABrokenAttempt'
  <2>1. Half(r) = {s} /\ torn' = torn \ {s} /\ lead' = lead
    BY <1>1 DEF Half, createSearchResult
  <2>2. \A q \in Runs \ {r} : Half(q)' = Half(q)
    BY <1>5 DEF Half
  <2> SUFFICES ASSUME NEW x \in Slugs, lead[x].stage # "none",
                      "SEARCH_RESULT" \notin evidence'[x]
               PROVE  x \in torn' \/ \E q \in Runs : x \in Half(q)'
    BY <2>1 DEF EvidenceGapIsABrokenAttempt
  <2>3. x # s /\ "SEARCH_RESULT" \notin evidence[x]
    BY <1>6
  <2>4. x \in torn \/ \E q \in Runs : x \in Half(q)
    BY <2>3 DEF LeadInv, EvidenceGapIsABrokenAttempt
  <2> QED  BY <2>1, <2>2, <2>3, <2>4
<1> QED
  BY <1>5, <1>7, <1>9, <1>10, <1>11, <1>12, StepOfRun DEF createSearchResult

\* Evidence of a profile visit: the handler goes on with what it needs on record.
LEMMA ProfileEvidenceStep ==
  ASSUME LeadInv, NEW r \in Runs, NEW s \in Slugs,
         createProfile(r, s) \/ createContactInfo(r, s)
  PROVE  LeadInv'
<1>1. /\ RunInv(r) /\ hand[r] \in Hands /\ hand[r].row = {s}
      /\ hand[r].at \in {"profile", "contact"} /\ lead[s].stage # "none"
      /\ ~hand[r].contact /\ r \in DOMAIN search
      /\ hand[r].task \in Tasks /\ task[r][hand[r].task].status = "RUNNING"
      /\ task[r][hand[r].task].tries >= 1
      /\ UNCHANGED <<search, there, deleting, task, lead, runLead, fresh, failures, torn>>
  <2>1. RunInv(r) /\ hand[r] \in Hands /\ hand[r].row = {s}
        /\ hand[r].at \in {"profile", "contact"}
    BY Types DEF LeadInv, createProfile, createContactInfo, At
  <2> QED
    BY <2>1 DEF RunInv, HandInv, createProfile, createContactInfo
<1>2. /\ hand'[r] \in Hands /\ hand'[r].at \in {"contact", "record"}
      /\ hand'[r].row = hand[r].row /\ hand'[r].task = hand[r].task
      /\ hand'[r].more = hand[r].more /\ hand'[r].known = hand[r].known
      /\ hand'[r].new = hand[r].new
      /\ hand'[r].contact =>
           hand'[r].at = "record" /\ "CONTACT_INFO" \in evidence'[s]
      /\ "PROFILE" \in evidence'[s]
      /\ hand' = [q \in Runs |-> IF q = r THEN hand'[r] ELSE hand[q]]
  <2>1. CASE createProfile(r, s)
    <3>1. PICK step \in {"contact", "record"} : Goto(r, step)
      BY <2>1 DEF createProfile
    <3> DEFINE h == [at |-> step, task |-> hand[r].task, rows |-> hand[r].rows,
                     row |-> hand[r].row, known |-> hand[r].known, new |-> hand[r].new,
                     more |-> hand[r].more, contact |-> hand[r].contact]
    <3>2. hand' = [q \in Runs |-> IF q = r THEN h ELSE hand[q]]
      BY <3>1, Gone DEF LeadInv, HandSteps
    <3>3. h \in Hands
      BY <1>1 DEF Hands, HandSteps
    <3>4. "PROFILE" \in evidence'[s]
      BY <2>1 DEF createProfile, LeadInv, LeadTypeOK
    <3>5. hand'[r] = h
      BY <3>2
    <3> QED  BY <3>2, <3>3, <3>4, <3>5, <1>1
  <2>2. CASE createContactInfo(r, s)
    <3> DEFINE h == [at |-> "record", task |-> hand[r].task, rows |-> hand[r].rows,
                     row |-> hand[r].row, known |-> hand[r].known, new |-> hand[r].new,
                     more |-> hand[r].more, contact |-> TRUE]
    <3>1. hand'[r] = h
      BY <1>1, <2>2 DEF createContactInfo, LeadInv, LeadTypeOK, Hands
    <3>2. hand' = [q \in Runs |-> IF q = r THEN hand'[r] ELSE hand[q]]
      BY <2>2 DEF createContactInfo, LeadInv, LeadTypeOK
    <3>3. h \in Hands
      BY <1>1 DEF Hands, HandSteps
    <3>4. "PROFILE" \in evidence[s]
      BY <1>1, <2>2 DEF RunInv, HandInv, createContactInfo, At
    <3>5. evidence'[s] = evidence[s] \cup {"CONTACT_INFO"}
      BY <2>2 DEF createContactInfo, LeadInv, LeadTypeOK
    <3> QED  BY <3>1, <3>2, <3>3, <3>4, <3>5
  <2> QED  BY <2>1, <2>2
<1>3. hand' \in [Runs -> Hands] /\ \A q \in Runs \ {r} : hand'[q] = hand[q]
  BY <1>2 DEF LeadInv, LeadTypeOK, Hands
<1>4. /\ evidence' \in [Slugs -> SUBSET {"SEARCH_RESULT", "PROFILE", "CONTACT_INFO"}]
      /\ \A x \in Slugs : evidence[x] \subseteq evidence'[x]
  <2>1. CASE createProfile(r, s)
    BY <2>1 DEF LeadInv, LeadTypeOK, createProfile
  <2>2. CASE createContactInfo(r, s)
    BY <2>2 DEF LeadInv, LeadTypeOK, createContactInfo
  <2> QED  BY <2>1, <2>2
<1>5. LeadTypeOK'
  BY <1>1, <1>3, <1>4 DEF LeadInv, LeadTypeOK, Hands
<1>6. Grows
  BY <1>1, <1>4 DEF Grows
<1>7. RunInv(r)'
  <2>1. HandInv(r)'
    BY <1>1, <1>2 DEF RunInv, HandInv
  <2>2. JobInv(r)'
    BY <1>1 DEF RunInv, JobInv
  <2>3. CountInv(r)'
    BY <1>1, <1>2 DEF RunInv, CountInv, Pending
  <2> QED  BY <2>1, <2>2, <2>3 DEF RunInv
<1>8. ScrapedHasEvidence'
  BY <1>1, <1>4 DEF LeadInv, ScrapedHasEvidence
<1>9. EvidenceGapIsABrokenAttempt'
  <2>1. \A q \in Runs : Half(q) \subseteq Half(q)'
    BY <1>1, <1>3 DEF Half
  <2> QED
    BY <2>1, <1>1, <1>4 DEF LeadInv, EvidenceGapIsABrokenAttempt
<1> QED
  BY <1>1, <1>3, <1>5, <1>6, <1>7, <1>8, <1>9, StepOfRun

\* The parsed fields are written when their snapshots are there.
LEMMA RecordStep ==
  ASSUME LeadInv, NEW r \in Runs, NEW s \in Slugs, recordScrape(r, s)
  PROVE  LeadInv'
<1> DEFINE h == [at |-> "seal", task |-> hand[r].task, rows |-> hand[r].rows,
                 row |-> hand[r].row, known |-> hand[r].known, new |-> hand[r].new,
                 more |-> hand[r].more, contact |-> FALSE]
<1>1. /\ RunInv(r) /\ hand[r] \in Hands /\ hand[r].row = {s} /\ hand[r].at = "record"
      /\ hand[r].contact \in BOOLEAN
      /\ UNCHANGED <<search, there, deleting, task, evidence, runLead, fresh, failures, torn>>
  BY Types DEF LeadInv, recordScrape, At, Hands
<1>2. h \in Hands
  BY <1>1 DEF Hands, HandSteps
<1>3. hand'[r] = h
  BY <1>1 DEF LeadInv, LeadTypeOK, Hands, recordScrape
<1>4. hand' \in [Runs -> Hands] /\ \A q \in Runs \ {r} : hand'[q] = hand[q]
  <2>1. hand' = [q \in Runs |-> IF q = r THEN h ELSE hand[q]]
    BY <1>3 DEF LeadInv, LeadTypeOK, recordScrape
  <2>2. hand \in [Runs -> Hands]
    BY DEF LeadInv, LeadTypeOK, Hands
  <2> HIDE DEF h
  <2> QED  BY <2>1, <2>2, <1>2
<1>5. PICK shown \in {FALSE, hand[r].contact} :
        lead' = [lead EXCEPT ![s] = [stage |-> "SCRAPED", email |-> @.email \/ shown]]
  BY DEF recordScrape
<1>6. /\ lead' \in [Slugs -> LeadRows] /\ lead'[s].stage = "SCRAPED"
      /\ lead'[s].email => lead[s].email \/ hand[r].contact
      /\ \A x \in Slugs \ {s} : lead'[x] = lead[x]
  <2>1. lead[s].email \in BOOLEAN /\ shown \in BOOLEAN
    BY <1>1 DEF LeadInv, LeadTypeOK
  <2>2. [stage |-> "SCRAPED", email |-> lead[s].email \/ shown] \in LeadRows
    BY <2>1 DEF LeadRows
  <2> QED  BY <1>5, <2>1, <2>2 DEF LeadInv, LeadTypeOK, LeadRows
<1>7. LeadTypeOK'
  BY <1>1, <1>4, <1>6 DEF LeadInv, LeadTypeOK, Hands, LeadRows
<1>8. Grows
  BY <1>1, <1>6 DEF Grows
<1>9. \A x \in Slugs : lead[x].stage # "none" => lead'[x].stage # "none"
  BY <1>6
<1>10. RunInv(r)'
  <2>1. HandInv(r)'
    <3>1. /\ hand'[r].at = "seal" /\ hand'[r].task = hand[r].task
          /\ hand'[r].more = hand[r].more /\ ~hand'[r].contact
      BY <1>3
    <3> QED  BY <3>1, <1>1 DEF RunInv, HandInv
  <2>2. JobInv(r)'
    BY <1>1, <1>9 DEF RunInv, JobInv
  <2>3. CountInv(r)'
    <3>1. hand'[r].at = "seal" /\ hand'[r].new = hand[r].new
          /\ Pending(r) = 0 /\ Pending(r)' = 0
      BY <1>1, <1>3 DEF Pending
    <3>2. runLead[r] \subseteq Slugs
      BY Types DEF LeadInv
    <3> QED  BY <3>1, <3>2, <1>1, <1>9 DEF RunInv, CountInv
  <2> QED  BY <2>1, <2>2, <2>3 DEF RunInv
<1>11. ScrapedHasEvidence'
  <2>1. "PROFILE" \in evidence[s] /\ (hand[r].contact => "CONTACT_INFO" \in evidence[s])
    BY <1>1 DEF RunInv, HandInv
  <2> QED
    BY <2>1, <1>1, <1>6 DEF LeadInv, ScrapedHasEvidence
<1>12. EvidenceGapIsABrokenAttempt'
  <2>1. lead[s].stage # "none"
    BY <1>1 DEF RunInv, HandInv
  <2>2. \A q \in Runs : Half(q) \subseteq Half(q)'
    BY <1>1, <1>4 DEF Half
  <2> QED
    BY <2>1, <2>2, <1>1, <1>6 DEF LeadInv, EvidenceGapIsABrokenAttempt
<1> QED
  BY <1>1, <1>4, <1>7, <1>8, <1>10, <1>11, <1>12, StepOfRun

\* The deletion of an account: its queued jobs are cancelled, then the run goes
\* with its counter; nothing else does.
LEMMA DeletionStep ==
  ASSUME LeadInv, NEW r \in Runs, deleteAccount(r)
  PROVE  LeadInv'
<1>1. UNCHANGED <<search, hand, lead, evidence, torn>> /\ Half(r)' = Half(r)
  BY DEF deleteAccount, cancelQueued, deleteRateBudgets, removeAccount, deletionFails,
         database, Half
<1>2. RunInv(r) /\ task[r] \in [Tasks -> Jobs] /\ hand[r] \in Hands
      /\ task \in [Runs -> [Tasks -> Jobs]]
  BY Types DEF LeadInv, LeadTypeOK, Jobs, Statuses
<1>3. CASE cancelQueued(r)
  <2>1. UNCHANGED <<there, runLead, fresh, failures>>
    BY <1>3 DEF cancelQueued, database
  <2>2. \A q \in Runs \ {r} : task'[q] = task[q]
    BY <1>3 DEF cancelQueued, LeadInv, LeadTypeOK
  <2>3. \A t \in Tasks : task'[r][t] = IF task[r][t].status = "QUEUED"
          THEN [task[r][t] EXCEPT !.status = "CANCELLED"] ELSE task[r][t]
    BY <1>3 DEF cancelQueued, LeadInv, LeadTypeOK
  <2>4. \A j \in Jobs : [j EXCEPT !.status = "CANCELLED"] =
                           [status |-> "CANCELLED", tries |-> j.tries]
    BY DEF Jobs
  <2>5. \A t \in Tasks :
          \/ task'[r][t] = task[r][t] /\ task[r][t].status # "QUEUED"
          \/ /\ task[r][t].status = "QUEUED"
             /\ task'[r][t] = [status |-> "CANCELLED", tries |-> task[r][t].tries]
    BY <1>2, <2>3, <2>4
  <2>6. task' \in [Runs -> [Tasks -> Jobs]]
    <3>1. ASSUME NEW t \in Tasks
          PROVE  task'[r][t] \in Jobs
      <4>1. task[r][t] \in Jobs
        BY <1>2
      <4>2. \A n \in 0..MaxTries : [status |-> "CANCELLED", tries |-> n] \in Jobs
        BY DEF Jobs, Statuses, Open
      <4>3. task[r][t].tries \in 0..MaxTries
        BY <4>1 DEF Jobs
      <4> QED  BY <2>5, <4>1, <4>2, <4>3
    <3>2. task'[r] \in [Tasks -> Jobs]
      BY <1>3, <3>1 DEF cancelQueued, LeadInv, LeadTypeOK
    <3> QED  BY <1>2, <1>3, <2>2, <3>2 DEF cancelQueued
  <2>7. LeadTypeOK'
    BY <1>1, <1>3, <2>1, <2>6 DEF cancelQueued, LeadInv, LeadTypeOK, Jobs, Statuses
  <2>8. RunInv(r)'
    <3>1. HandInv(r)'
      <4>1. hand[r].at # "idle" => task'[r][hand[r].task] = task[r][hand[r].task]
        BY <1>2, <2>5 DEF RunInv, HandInv
      <4> QED  BY <4>1, <1>1, <1>2 DEF RunInv, HandInv
    <3>2. JobInv(r)'
      <4> SUFFICES ASSUME NEW t \in Tasks
                   PROVE  /\ task'[r][t].status = "ABSENT" => task'[r][t].tries = 0
                          /\ task'[r][t].status = "QUEUED" => task'[r][t].tries < MaxTries
                          /\ t \in Slugs /\ task'[r][t].status # "ABSENT" =>
                               lead[t].stage # "none"
        BY <1>1 DEF JobInv
      <4>1. CASE task'[r][t] = task[r][t]
        BY <4>1, <1>2 DEF RunInv, JobInv
      <4>2. CASE /\ task[r][t].status = "QUEUED"
                 /\ task'[r][t] = [status |-> "CANCELLED", tries |-> task[r][t].tries]
        BY <4>2, <1>2 DEF RunInv, JobInv
      <4> QED  BY <2>5, <4>1, <4>2
    <3>3. CountInv(r)'
      BY <1>1, <1>2, <2>1 DEF RunInv, CountInv, Pending
    <3> QED  BY <3>1, <3>2, <3>3 DEF RunInv
  <2> QED
    BY <1>1, <2>1, <2>2, <2>7, <2>8, StepOfHand
<1>4. CASE removeAccount(r)
  <2>1. UNCHANGED <<task, failures>> /\ there' = there \ {r}
    BY <1>4 DEF removeAccount
  <2>2. /\ runLead' \in [Runs -> SUBSET Slugs] /\ runLead'[r] = {}
        /\ fresh' \in [Runs -> 0..Cardinality(Slugs)] /\ fresh'[r] = 0
        /\ \A q \in Runs \ {r} : runLead'[q] = runLead[q] /\ fresh'[q] = fresh[q]
    <3>1. Cardinality(Slugs) \in Nat
      BY LeadsAreFinite
    <3> QED  BY <3>1, <1>4 DEF removeAccount, LeadInv, LeadTypeOK
  <2>3. LeadTypeOK'
    BY <1>1, <1>4, <2>1, <2>2 DEF removeAccount, LeadInv, LeadTypeOK
  <2>4. RunInv(r)'
    <3>1. HandInv(r)' /\ JobInv(r)'
      BY <1>1, <1>2, <2>1 DEF RunInv, HandInv, JobInv
    <3>2. CountInv(r)'
      BY <1>1, <2>1, <2>2 DEF CountInv
    <3> QED  BY <3>1, <3>2 DEF RunInv
  <2> QED
    BY <1>1, <2>1, <2>2, <2>3, <2>4, StepOfHand
<1>5. CASE deleteRateBudgets(r) \/ deletionFails(r)
  <2>1. LeadTypeOK'
    BY <1>1, <1>5 DEF deleteRateBudgets, deletionFails, database, LeadInv, LeadTypeOK
  <2>2. RunInv(r)'
    BY <1>2, <1>5
       DEF deleteRateBudgets, deletionFails, database, RunInv, HandInv, JobInv, CountInv, Pending
  <2> QED
    BY <1>1, <1>5, <2>1, <2>2, StepOfHand DEF deleteRateBudgets, deletionFails, database
<1> QED  BY <1>3, <1>4, <1>5 DEF deleteAccount

\* Every step preserves the invariant.
LEMMA LeadNextInv == LeadInv /\ [LeadNext]_leadVars => LeadInv'
<1> SUFFICES ASSUME LeadInv, [LeadNext]_leadVars PROVE LeadInv'
  OBVIOUS
<1>1. ASSUME NEW r \in Runs, work(r) PROVE LeadInv'
  <2>1. ASSUME NEW t \in Tasks, claimTask(r, t) PROVE LeadInv'
    BY <2>1, ClaimStep
  <2>2. CASE notFound(r) \/ putOff(r) \/ updateStorageState(r) \/ attemptFails(r)
    BY <2>2, EndSteps
  <2>3. CASE prepare(r)
    BY <2>3, PrepareStep
  <2>4. CASE handlePage(r)
    BY <2>4, VisitPageStep, FindBeforeStep, UpsertStep, AttachStep, SearchResultStep,
       EnqueueProfileStep, IncrementStep, NextPageStep DEF handlePage
  <2>5. CASE handleProfile(r)
    BY <2>5, VisitProfileStep, ProfileEvidenceStep, RecordStep DEF handleProfile
  <2> QED  BY <1>1, <2>1, <2>2, <2>3, <2>4, <2>5 DEF work, handle
<1>2. ASSUME NEW r \in Runs, deleteAccount(r) PROVE LeadInv'
  BY <1>2, DeletionStep
<1>3. ASSUME NEW r \in Runs, enqueueFirstPage(r) PROVE LeadInv'
  BY <1>3, FirstPageStep
<1>4. CASE UNCHANGED leadVars
  <2>1. LeadTypeOK' /\ search' \in Searches
    BY <1>4 DEF leadVars, LeadInv, LeadTypeOK
  <2>2. \A r \in Runs : RunInv(r)'
    BY <1>4 DEF leadVars, LeadInv, RunInv, HandInv, JobInv, CountInv, Pending
  <2>3. ScrapedHasEvidence' /\ EvidenceGapIsABrokenAttempt'
    BY <1>4 DEF leadVars, LeadInv, ScrapedHasEvidence, EvidenceGapIsABrokenAttempt, Half
  <2> QED  BY <2>1, <2>2, <2>3 DEF LeadInv
<1> QED  BY <1>1, <1>2, <1>3, <1>4 DEF LeadNext

\* What each handler takes for granted stays true, whatever others do.
THEOREM LeadInvariant == LeadSpec => []LeadInv
  BY LeadInitInv, LeadNextInv, PTL DEF LeadSpec

\* The shape of the state, for any runs, leads and limits; no handler and no run
\* counts more new leads than there are leads.
THEOREM LeadTypes == LeadSpec => []LeadTypeOK
<1>1. LeadInv => LeadTypeOK
  BY DEF LeadInv
<1> QED  BY <1>1, LeadInvariant, PTL

\* What a profile visit wrote can be replayed from its snapshots, also after
\* failures and deletions.
THEOREM LeadScrapedHasEvidence == LeadSpec => []ScrapedHasEvidence
<1>1. LeadInv => ScrapedHasEvidence
  BY DEF LeadInv
<1> QED  BY <1>1, LeadInvariant, PTL

\* Only a broken attempt leaves a lead without its search row.
THEOREM LeadEvidenceGapIsABrokenAttempt == LeadSpec => []EvidenceGapIsABrokenAttempt
<1>1. LeadInv => EvidenceGapIsABrokenAttempt
  BY DEF LeadInv
<1> QED  BY <1>1, LeadInvariant, PTL

\* However many attempts, pages and runs there are, a run counts no lead as new
\* that is not attached to it, and none twice.
THEOREM LeadNewLeadsCountedOnce == LeadSpec => []NewLeadsCountedOnce
<1>1. LeadInv => NewLeadsCountedOnce
  <2> SUFFICES ASSUME LeadInv, NEW r \in Runs
               PROVE  fresh[r] <= Cardinality(runLead[r])
    BY DEF NewLeadsCountedOnce
  <2>1. /\ hand[r].new \in Nat /\ Pending(r) \in {0, 1} /\ fresh[r] \in Nat
        /\ Cardinality(runLead[r]) \in Nat /\ CountInv(r)
    BY Types, LeadsAreFinite DEF LeadInv, Hands, Pending, RunInv
  <2> QED  BY <2>1 DEF CountInv
<1> QED  BY <1>1, LeadInvariant, PTL

\* No step of any run takes away a lead, its stage or its evidence.
LEMMA StepsGrow == LeadInv /\ [LeadNext]_leadVars => Grows
<1>1. ASSUME LeadInv, lead' = lead, evidence' = evidence
      PROVE  Grows
  BY <1>1 DEF Grows
<1>2. ASSUME LeadInv, NEW r \in Runs, deleteAccount(r)
      PROVE  Grows
  <2>1. lead' = lead /\ evidence' = evidence
    BY <1>2 DEF deleteAccount, cancelQueued, deleteRateBudgets, removeAccount,
           deletionFails, database
  <2> QED  BY <2>1, <1>1, <1>2
<1>3. ASSUME LeadInv, NEW r \in Runs, work(r)
      PROVE  Grows
  <2>0. lead \in [Slugs -> LeadRows]
        /\ evidence \in [Slugs -> SUBSET {"SEARCH_RESULT", "PROFILE", "CONTACT_INFO"}]
    BY <1>3 DEF LeadInv, LeadTypeOK, LeadRows
  <2>1. ASSUME NEW t \in Tasks, claimTask(r, t)
        PROVE  Grows
    BY <2>1, <1>1, <1>3 DEF claimTask, database
  <2>2. CASE notFound(r) \/ prepare(r) \/ putOff(r) \/ updateStorageState(r)
    BY <2>2, <1>1, <1>3 DEF notFound, prepare, putOff, updateStorageState, database
  <2>3. CASE attemptFails(r)
    BY <2>3, <1>1, <1>3 DEF attemptFails
  <2>4. CASE visitPage(r) \/ enqueueNextPage(r) \/ visitProfile(r)
    BY <2>4, <1>1, <1>3 DEF visitPage, enqueueNextPage, visitProfile, database
  <2>5. CASE incrementCounters(r)
    BY <2>5, <1>1, <1>3 DEF incrementCounters
  <2>6. ASSUME NEW s \in Slugs, findBefore(r, s) \/ attachToRun(r, s) \/ enqueueProfile(r, s)
        PROVE  Grows
    BY <2>6, <1>1, <1>3 DEF findBefore, attachToRun, enqueueProfile, database
  <2>7. ASSUME NEW s \in Slugs, upsertStub(r, s)
        PROVE  Grows
    BY <2>0, <2>7 DEF Grows, upsertStub, LeadRows
  <2>8. ASSUME NEW s \in Slugs, recordScrape(r, s)
        PROVE  Grows
    BY <2>0, <2>8 DEF Grows, recordScrape, LeadRows
  <2>9. ASSUME NEW s \in Slugs,
               createSearchResult(r, s) \/ createProfile(r, s) \/ createContactInfo(r, s)
        PROVE  Grows
    <3>1. lead' = lead
      BY <2>9 DEF createSearchResult, createProfile, createContactInfo
    <3>2. \A x \in Slugs : evidence[x] \subseteq evidence'[x]
      BY <2>0, <2>9 DEF createSearchResult, createProfile, createContactInfo
    <3> QED  BY <3>1, <3>2 DEF Grows
  <2>10. CASE handlePage(r)
    BY <2>4, <2>5, <2>6, <2>7, <2>9, <2>10 DEF handlePage
  <2>11. CASE handleProfile(r)
    BY <2>4, <2>8, <2>9, <2>11 DEF handleProfile
  <2>12. CASE handle(r)
    BY <2>2, <2>3, <2>10, <2>11, <2>12 DEF handle
  <2> QED  BY <1>3, <2>1, <2>12 DEF work
<1>4. UNCHANGED leadVars => lead' = lead /\ evidence' = evidence
  BY DEF leadVars
<1>5. \A r \in Runs : enqueueFirstPage(r) => lead' = lead /\ evidence' = evidence
  BY DEF enqueueFirstPage, database
<1> QED  BY <1>1, <1>2, <1>3, <1>4, <1>5 DEF LeadNext

\* Leads outlive runs: nothing that runs, failures or deletions do takes back a
\* lead, its stage or its evidence.
THEOREM LeadsAreKept == LeadSpec => LeadsOutliveRuns
<1>1. LeadInv /\ [LeadNext]_leadVars =>
        [\A s \in Slugs :
           /\ lead[s].stage # "none" => lead'[s].stage \in {lead[s].stage, "SCRAPED"}
           /\ evidence[s] \subseteq evidence'[s]]_leadVars
  BY StepsGrow DEF Grows
<1> QED  BY <1>1, LeadInvariant, PTL DEF LeadSpec, LeadsOutliveRuns

-----------------------------------------------------------------------------
(* Refinement of JobLifecycle.                                              *)

\* One job changes its status, and its attempts by d; the others stay as they are.
Moves(r, t, from, to, d) ==
  /\ task[r][t].status = from /\ task'[r][t].status = to
  /\ task'[r][t].tries = task[r][t].tries + d
  /\ \A q \in Runs, u \in Tasks : <<q, u>> # <<r, t>> => task'[q][u] = task[q][u]

\* Such a change is a move of the queue.
LEMMA MoveMap ==
  ASSUME NEW r \in Runs, NEW t \in Tasks, NEW from, NEW to, NEW d \in Int,
         Moves(r, t, from, to, d)
  PROVE  Queue!Move({<<r, t>>}, from, to, d)
<1>1. \A j \in Runs \X Tasks :
        task'[j[1]][j[2]].status = IF j \in {<<r, t>>} THEN to ELSE task[j[1]][j[2]].status
  BY DEF Moves
<1>2. \A j \in Runs \X Tasks :
        task'[j[1]][j[2]].tries =
          IF j \in {<<r, t>>} THEN task[j[1]][j[2]].tries + d ELSE task[j[1]][j[2]].tries
  BY DEF Moves
<1>3. \A j \in {<<r, t>>} :
        [k \in Runs \X Tasks |-> task[k[1]][k[2]].status][j] = from
  BY DEF Moves
<1> QED  BY <1>1, <1>2, <1>3 DEF Queue!Move

\* A step of one job is a step of the queue.
LEMMA StepOfOne ==
  ASSUME NEW k \in Runs \X Tasks,
         \/ Queue!Create(k) \/ Queue!Succeed(k) \/ Queue!GiveUp(k)
         \/ Queue!TryAgain(k) \/ Queue!PushBack(k)
  PROVE  Queue!Next
  BY DEF Queue!Next

\* A step that leaves the jobs alone stutters.
LEMMA StutterMap ==
  ASSUME task' = task
  PROVE  UNCHANGED Queue!vars
  BY DEF Queue!vars

\* An enqueue creates a job, or finds its key taken.
LEMMA EnqueueMap ==
  ASSUME LeadInv, NEW r \in Runs, NEW u \in Tasks, NEW wanted \in BOOLEAN,
         task' = IF wanted /\ task[r][u].status = "ABSENT"
                   THEN [task EXCEPT ![r][u].status = "QUEUED"] ELSE task
  PROVE  Queue!Next \/ UNCHANGED Queue!vars
<1>1. CASE ~(wanted /\ task[r][u].status = "ABSENT")
  BY <1>1, StutterMap
<1>2. CASE wanted /\ task[r][u].status = "ABSENT"
  <2>1. task \in [Runs -> [Tasks -> Jobs]] /\ task[r][u].tries = 0
    BY <1>2 DEF LeadInv, LeadTypeOK, Jobs, Statuses, RunInv, JobInv
  <2>2. task'[r][u].status = "QUEUED" /\ task'[r][u].tries = 0
    BY <1>2, <2>1 DEF Jobs
  <2>3. \A q \in Runs, t \in Tasks : <<q, t>> # <<r, u>> => task'[q][t] = task[q][t]
    BY <1>2, <2>1
  <2>4. task'[r][u].tries = task[r][u].tries + 0
    BY <2>1, <2>2
  <2>5. Moves(r, u, "ABSENT", "QUEUED", 0)
    BY <1>2, <2>2, <2>3, <2>4 DEF Moves
  <2>6. Queue!Move({<<r, u>>}, "ABSENT", "QUEUED", 0)
    BY <2>5, MoveMap
  <2>7. Queue!Create(<<r, u>>)
    BY <2>6 DEF Queue!Create
  <2> QED  BY <2>7, StepOfOne
<1> QED  BY <1>1, <1>2

\* A claim starts a job with an attempt left.
LEMMA ClaimMap ==
  ASSUME LeadInv, NEW r \in Runs, NEW t \in Tasks, claimTask(r, t)
  PROVE  Queue!Next
<1>1. /\ task \in [Runs -> [Tasks -> Jobs]] /\ task[r][t].status = "QUEUED"
      /\ task[r][t].tries < MaxTries
  BY DEF LeadInv, LeadTypeOK, Jobs, Statuses, RunInv, JobInv, claimTask
<1>2. task'[r][t].status = "RUNNING" /\ task'[r][t].tries = task[r][t].tries + 1
  BY <1>1 DEF claimTask
<1>3. \A q \in Runs, u \in Tasks : <<q, u>> # <<r, t>> => task'[q][u] = task[q][u]
  BY <1>1 DEF claimTask
<1>4. Moves(r, t, "QUEUED", "RUNNING", 1)
  BY <1>1, <1>2, <1>3 DEF Moves
<1>5. Queue!Move({<<r, t>>}, "QUEUED", "RUNNING", 1)
  BY <1>4, MoveMap
<1>6. [j \in Runs \X Tasks |-> task[j[1]][j[2]].tries][<<r, t>>] < MaxTries
  BY <1>1
<1>7. Queue!Start({<<r, t>>})
  BY <1>5, <1>6 DEF Queue!Start
<1> QED  BY <1>7 DEF Queue!Next

\* A handler that ends completes its job, fails it for good, tries it again or
\* gives the attempt back.
LEMMA EndMap ==
  ASSUME LeadInv, NEW r \in Runs,
         notFound(r) \/ putOff(r) \/ updateStorageState(r) \/ attemptFails(r)
  PROVE  Queue!Next
<1>0. /\ task \in [Runs -> [Tasks -> Jobs]] /\ hand[r].at # "idle"
      /\ RunInv(r) /\ hand[r].task \in Tasks
  <2>1. task \in [Runs -> [Tasks -> Jobs]] /\ hand[r].at # "idle" /\ RunInv(r)
    BY DEF LeadInv, LeadTypeOK, Jobs, Statuses, notFound, putOff, updateStorageState,
           attemptFails, At
  <2> QED  BY <2>1 DEF RunInv, HandInv
<1>1. PICK t \in Tasks : t = hand[r].task
  BY <1>0
<1>2. task[r][t].status = "RUNNING" /\ task[r][t].tries \in Int
  BY <1>0, <1>1, LeadAssumption DEF RunInv, HandInv, Jobs, LeadAssumption
<1>3. <<r, t>> \in Runs \X Tasks
  OBVIOUS
<1>4. ASSUME NEW status, EndAs(r, status)
      PROVE  Queue!Move({<<r, t>>}, "RUNNING", status, 0)
  <2>1. task'[r][t].status = status /\ task'[r][t].tries = task[r][t].tries
    BY <1>0, <1>1, <1>4 DEF EndAs, Jobs
  <2>2. \A q \in Runs, u \in Tasks : <<q, u>> # <<r, t>> => task'[q][u] = task[q][u]
    BY <1>0, <1>1, <1>4 DEF EndAs
  <2>3. task'[r][t].tries = task[r][t].tries + 0
    BY <1>2, <2>1
  <2>4. Moves(r, t, "RUNNING", status, 0)
    BY <1>2, <2>1, <2>2, <2>3 DEF Moves
  <2> QED  BY <1>2, <2>4, MoveMap
<1>5. CASE notFound(r)
  BY <1>3, <1>4, <1>5, StepOfOne DEF notFound, Queue!GiveUp
<1>6. CASE updateStorageState(r)
  BY <1>3, <1>4, <1>6, StepOfOne DEF updateStorageState, Queue!Succeed
<1>7. CASE putOff(r)
  <2>1. task'[r][t].status = "QUEUED" /\ task'[r][t].tries = task[r][t].tries + (-1)
    BY <1>0, <1>2, <1>1, <1>7 DEF putOff
  <2>2. \A q \in Runs, u \in Tasks : <<q, u>> # <<r, t>> => task'[q][u] = task[q][u]
    BY <1>0, <1>2, <1>1, <1>7 DEF putOff
  <2>3. Moves(r, t, "RUNNING", "QUEUED", -1)
    BY <1>2, <2>1, <2>2 DEF Moves
  <2>4. Queue!PushBack(<<r, t>>)
    BY <1>2, <2>3, MoveMap DEF Queue!PushBack
  <2> QED  BY <1>3, <2>4, StepOfOne
<1>8. CASE attemptFails(r)
  <2>1. CASE task[r][t].tries < MaxTries
    <3>1. Queue!Move({<<r, t>>}, "RUNNING", "QUEUED", 0)
      BY <1>1, <1>4, <1>8, <2>1 DEF attemptFails
    <3>2. [j \in Runs \X Tasks |-> task[j[1]][j[2]].tries][<<r, t>>] < MaxTries
      BY <1>2, <2>1
    <3>3. Queue!TryAgain(<<r, t>>)
      BY <3>1, <3>2 DEF Queue!TryAgain
    <3> QED  BY <1>3, <3>3, StepOfOne
  <2>2. CASE ~(task[r][t].tries < MaxTries)
    <3>1. Queue!Move({<<r, t>>}, "RUNNING", "DEAD", 0)
      BY <1>1, <1>4, <1>8, <2>2 DEF attemptFails
    <3>2. Queue!GiveUp(<<r, t>>)
      BY <3>1 DEF Queue!GiveUp
    <3> QED  BY <1>3, <3>2, StepOfOne
  <2> QED  BY <2>1, <2>2
<1> QED  BY <1>5, <1>6, <1>7, <1>8

\* A deletion cancels the account's QUEUED jobs.
LEMMA CancelMap ==
  ASSUME LeadInv, NEW r \in Runs, cancelQueued(r)
  PROVE  Queue!Next
<1>0. PICK S \in SUBSET (Runs \X Tasks) :
        \A j \in Runs \X Tasks :
          j \in S <=> j[1] = r /\ task[j[1]][j[2]].status = "QUEUED"
  <2>1. {j \in Runs \X Tasks : j[1] = r /\ task[j[1]][j[2]].status = "QUEUED"}
          \in SUBSET (Runs \X Tasks)
    OBVIOUS
  <2> QED  BY <2>1
<1>1. task \in [Runs -> [Tasks -> Jobs]]
  BY DEF LeadInv, LeadTypeOK, Jobs, Statuses
<1>2. \A j \in Jobs : /\ [j EXCEPT !.status = "CANCELLED"] =
                           [status |-> "CANCELLED", tries |-> j.tries]
                      /\ j.tries + 0 = j.tries
  BY LeadAssumption DEF Jobs, LeadAssumption
<1>3. \A q \in Runs, t \in Tasks :
        task'[q][t] = IF q = r /\ task[q][t].status = "QUEUED"
                        THEN [task[q][t] EXCEPT !.status = "CANCELLED"] ELSE task[q][t]
  BY <1>1 DEF cancelQueued
<1>4. \A q \in Runs, t \in Tasks : task[q][t] \in Jobs
  BY <1>1
<1>5. ASSUME NEW q \in Runs, NEW t \in Tasks
      PROVE  \/ /\ q = r /\ task[q][t].status = "QUEUED"
                /\ task'[q][t].status = "CANCELLED"
                /\ task'[q][t].tries = task[q][t].tries + 0
             \/ /\ ~(q = r /\ task[q][t].status = "QUEUED")
                /\ task'[q][t] = task[q][t]
  <2>1. CASE q = r /\ task[q][t].status = "QUEUED"
    <3>1. task'[q][t] = [status |-> "CANCELLED", tries |-> task[q][t].tries]
      BY <2>1, <1>2, <1>3, <1>4
    <3>2. task[q][t].tries + 0 = task[q][t].tries
      BY <1>2, <1>4
    <3> QED  BY <2>1, <3>1, <3>2
  <2>2. CASE ~(q = r /\ task[q][t].status = "QUEUED")
    BY <2>2, <1>3
  <2> QED  BY <2>1, <2>2
<1>6. \A j \in Runs \X Tasks :
        /\ task'[j[1]][j[2]].status = IF j \in S THEN "CANCELLED" ELSE task[j[1]][j[2]].status
        /\ task'[j[1]][j[2]].tries = IF j \in S THEN task[j[1]][j[2]].tries + 0
                                               ELSE task[j[1]][j[2]].tries
  BY <1>0, <1>5
<1>7. \A j \in S : [k \in Runs \X Tasks |-> task[k[1]][k[2]].status][j] = "QUEUED"
  BY <1>0
<1>8. Queue!Cancel(S)
  BY <1>6, <1>7 DEF Queue!Cancel, Queue!Move
<1> QED  BY <1>8 DEF Queue!Next

\* Handlers and deletions use the queue as JobLifecycle specifies it: every change of a
\* job's status or attempts is one of its moves, the cancellation of what a deleted
\* account left and the last failure of an orphan included.
THEOREM LeadUsesQueue == LeadSpec => UsesQueueAsSpecified
<1>1. LeadInit => Queue!Init
  BY DEF LeadInit, Queue!Init
<1>2. LeadInv /\ [LeadNext]_leadVars => [Queue!Next]_(Queue!vars)
  <2> SUFFICES ASSUME LeadInv, [LeadNext]_leadVars
               PROVE  Queue!Next \/ UNCHANGED Queue!vars
    OBVIOUS
  <2>1. CASE UNCHANGED leadVars
    BY <2>1, StutterMap DEF leadVars
  <2>2. ASSUME NEW r \in Runs, enqueueFirstPage(r)
        PROVE  Queue!Next \/ UNCHANGED Queue!vars
    <3>1. task' = IF TRUE /\ task[r][1].status = "ABSENT"
                    THEN [task EXCEPT ![r][1].status = "QUEUED"] ELSE task
      BY <2>2 DEF enqueueFirstPage
    <3>2. 1 \in Tasks
      BY LeadAssumption DEF LeadAssumption, Tasks, PageNumbers
    <3> QED  BY <3>1, <3>2, EnqueueMap
  <2>3. ASSUME NEW r \in Runs, handlePage(r)
        PROVE  Queue!Next \/ UNCHANGED Queue!vars
    <3>1. ASSUME NEW s \in Slugs, enqueueProfile(r, s)
          PROVE  Queue!Next \/ UNCHANGED Queue!vars
      <4>1. task' = IF TRUE /\ task[r][s].status = "ABSENT"
                      THEN [task EXCEPT ![r][s].status = "QUEUED"] ELSE task
        BY <3>1 DEF enqueueProfile
      <4>2. s \in Tasks
        BY DEF Tasks
      <4> QED  BY <4>1, <4>2, EnqueueMap
    <3>2. CASE enqueueNextPage(r)
      <4>1. PICK u : u = IF hand[r].more THEN hand[r].task + 1 ELSE 1
        OBVIOUS
      <4>2. u \in Tasks /\ hand[r].more \in BOOLEAN
        <5>1. RunInv(r) /\ hand[r] \in Hands /\ 1 \in PageNumbers
          BY Types, LeadAssumption DEF LeadInv, LeadAssumption, PageNumbers
        <5> QED  BY <4>1, <5>1 DEF RunInv, HandInv, Hands, Tasks
      <4>3. task' = IF hand[r].more /\ task[r][u].status = "ABSENT"
                      THEN [task EXCEPT ![r][u].status = "QUEUED"] ELSE task
        BY <3>2, <4>1 DEF enqueueNextPage
      <4> QED  BY <4>2, <4>3, EnqueueMap
    <3>3. CASE task' = task
      BY <3>3, StutterMap
    <3>4. \/ task' = task \/ enqueueNextPage(r)
          \/ \E s \in Slugs : enqueueProfile(r, s)
      BY <2>3 DEF handlePage, visitPage, findBefore, upsertStub, attachToRun,
             createSearchResult, incrementCounters
    <3> QED  BY <3>1, <3>2, <3>3, <3>4
  <2>4. ASSUME NEW r \in Runs, work(r)
        PROVE  Queue!Next \/ UNCHANGED Queue!vars
    <3>1. CASE \E t \in Tasks : claimTask(r, t)
      BY <3>1, ClaimMap
    <3>2. CASE notFound(r) \/ putOff(r) \/ updateStorageState(r) \/ attemptFails(r)
      BY <3>2, EndMap
    <3>3. CASE prepare(r) \/ handleProfile(r)
      <4>1. task' = task
        BY <3>3 DEF prepare, handleProfile, visitProfile, createProfile,
               createContactInfo, recordScrape
      <4> QED  BY <4>1, StutterMap
    <3>4. CASE handlePage(r)
      BY <3>4, <2>3
    <3> QED  BY <2>4, <3>1, <3>2, <3>3, <3>4 DEF work, handle
  <2>5. ASSUME NEW r \in Runs, deleteAccount(r)
        PROVE  Queue!Next \/ UNCHANGED Queue!vars
    BY <2>5, CancelMap, StutterMap DEF deleteAccount, deleteRateBudgets, removeAccount, deletionFails
  <2> QED  BY <2>1, <2>2, <2>4, <2>5 DEF LeadNext
<1> QED
  BY <1>1, <1>2, LeadInvariant, PTL DEF LeadSpec, UsesQueueAsSpecified, Queue!Spec
=============================================================================

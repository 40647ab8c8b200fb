-------------------------- MODULE WorkerPoolProofs --------------------------
(***************************************************************************)
(* Proofs about WorkerPool, for any finite set of jobs, any queues and any *)
(* values of the settings.  The invariant keeps the books of a round: what *)
(* the loop has claimed, counted and started, against what it computed     *)
(* when the round began; and it knows whose rows are the process's.        *)
(***************************************************************************)
EXTENDS WorkerPool, FiniteSetTheorems, TLAPS

Live == phase # "dead"

\* What the process holds is what its rows say, until it is killed.
RowInv ==
  /\ phase # "asked" => asked = {}
  /\ \A j \in working \cup asked : row[j] = "mine"
  /\ Live => \A j \in Jobs : row[j] = "mine" => j \in working \cup asked
  /\ phase = "exited" => working = {}

\* The round's capacity still covers what was claimed, and the count has not
\* outgrown it.
RoundInv ==
  /\ phase \in {"claim", "asked"} =>
       /\ setting.concurrency \in Nat
       /\ active + capacity <= setting.concurrency + claimed
       /\ claimed + Cardinality(asked) <= capacity
  /\ setting = [concurrency |-> setting.concurrency, queues |-> setting.queues]

\* Who is not told after the signal was started in the round it interrupted; the
\* round that is about to begin has interrupted none.
ToldInv ==
  stopping => /\ working \ told \subseteq batch
              /\ phase = "read" => working \subseteq told

PoolInv == PoolTypeOK /\ RowInv /\ RoundInv /\ ToldInv

\* The process's jobs can be counted.
LEMMA JobsAreFinite ==
  ASSUME NEW S, S \subseteq Jobs
  PROVE  IsFiniteSet(S) /\ Cardinality(S) \in Nat
  BY PoolAssumption, FS_Subset, FS_CardinalityType DEF PoolAssumption

\* The initial state satisfies the invariant: nothing is claimed.
LEMMA PoolInitInv == PoolInit => PoolInv
<1> SUFFICES ASSUME PoolInit PROVE PoolInv
  OBVIOUS
<1>1. Cardinality({}) = 0
  BY FS_EmptySet
<1>2. setting.concurrency = 0 /\ setting.queues = <<>>
  BY DEF PoolInit
<1>3. PoolTypeOK
  <2>1. active = Cardinality(working) /\ setting.concurrency \in Concurrencies \cup {0}
    BY <1>1, <1>2 DEF PoolInit
  <2>2. phase \in Phases /\ stopping \in BOOLEAN
    BY DEF PoolInit, Phases
  <2>3. capacity \in Int /\ claimed \in Nat
    BY DEF PoolInit
  <2>4. row \in [Jobs -> {"due", "mine", "lost", "elsewhere"}]
    BY DEF PoolInit
  <2> QED  BY <2>1, <2>2, <2>3, <2>4 DEF PoolInit, PoolTypeOK
<1>4. RowInv /\ ToldInv
  BY DEF PoolInit, RowInv, ToldInv, Live
<1>5. RoundInv
  BY <1>2 DEF PoolInit, RoundInv
<1> QED  BY <1>3, <1>4, <1>5 DEF PoolInv

\* A step of main() that neither claims nor starts anything.
LEMMA LoopStep ==
  ASSUME PoolInv, testShutdown \/ endRound \/ wake \/ waitForDrain
  PROVE  PoolInv'
<1>1. phase' \in Phases /\ phase # "asked" /\ phase # "dead" /\ phase' # "dead"
      /\ phase' \notin {"claim", "asked"}
      /\ (phase' = "exited" => working = {})
      /\ (phase' = "read" => ~stopping)
  BY DEF testShutdown, endRound, wake, waitForDrain, Phases, Gone
<1>2. UNCHANGED <<stopping, setting, capacity, claimed, asked, working, active,
                  told, row, batch>>
  BY DEF testShutdown, endRound, wake, waitForDrain
<1> QED
  BY <1>1, <1>2 DEF PoolInv, PoolTypeOK, RowInv, RoundInv, ToldInv, Live

\* A round begins: the capacity is what the new concurrency leaves.
LEMMA ReadStep ==
  ASSUME PoolInv, readSetting
  PROVE  PoolInv'
<1>1. PICK c \in Concurrencies, queues \in QueueLists :
        /\ setting' = [concurrency |-> c, queues |-> queues]
        /\ capacity' = c - active
        /\ phase' = IF c > active THEN "claim" ELSE "sleep"
  BY DEF readSetting
<1>2. c \in Nat /\ active \in Nat /\ asked = {} /\ Cardinality({}) = 0
  BY JobsAreFinite, FS_EmptySet, PoolAssumption
     DEF PoolInv, PoolTypeOK, RowInv, readSetting, PoolAssumption
<1>3. setting'.concurrency = c /\ setting'.queues = queues
  BY <1>1
<1>4. PoolTypeOK'
  BY <1>1, <1>2, <1>3 DEF PoolInv, PoolTypeOK, readSetting, Phases, Gone
<1>5. RowInv'
  BY <1>1 DEF PoolInv, RowInv, readSetting, Live
<1>6. RoundInv'
  BY <1>1, <1>2, <1>3 DEF RoundInv, readSetting
<1>7. ToldInv'
  BY <1>1 DEF PoolInv, ToldInv, readSetting
<1> QED  BY <1>4, <1>5, <1>6, <1>7 DEF PoolInv

\* A statement claims no more rows than the round has room for, none of them the
\* process's own.
LEMMA ClaimStep ==
  ASSUME PoolInv, claimBatch
  PROVE  PoolInv'
<1>1. PICK S \in SUBSET DueIn(Head(setting.queues)) :
        /\ Cardinality(S) <= capacity - claimed
        /\ row' = [j \in Jobs |-> IF j \in S THEN "mine" ELSE row[j]]
        /\ asked' = S
  BY DEF claimBatch, Claim
<1>2. S \subseteq Jobs /\ S \cap working = {} /\ asked = {} /\ phase = "claim"
      /\ phase' = "asked"
  BY DEF DueIn, PoolInv, RowInv, claimBatch, Claim
<1>3. setting'.concurrency = setting.concurrency
      /\ setting' = [concurrency |-> setting'.concurrency, queues |-> setting'.queues]
  <2>1. setting' = [setting EXCEPT !.queues = Tail(setting.queues)]
    BY DEF claimBatch, Claim
  <2>2. setting = [concurrency |-> setting.concurrency, queues |-> setting.queues]
    BY DEF PoolInv, RoundInv
  <2>3. setting' = [concurrency |-> setting.concurrency, queues |-> Tail(setting.queues)]
    BY <2>1, <2>2
  <2> QED  BY <2>3
<1>4. PoolTypeOK'
  BY <1>1, <1>2, <1>3 DEF PoolInv, PoolTypeOK, claimBatch, Claim, Phases, Gone
<1>5. RowInv'
  BY <1>1, <1>2 DEF PoolInv, PoolTypeOK, RowInv, claimBatch, Claim, Live
<1>6. RoundInv'
  <2>1. Cardinality(S) \in Nat /\ claimed \in Nat /\ capacity \in Int /\ active \in Nat
    BY <1>2, JobsAreFinite DEF PoolInv, PoolTypeOK
  <2>2. claimed + Cardinality(asked') <= capacity
    BY <2>1, <1>1
  <2> QED
    BY <1>2, <1>3, <2>2 DEF PoolInv, RoundInv, claimBatch, Claim
<1>7. ToldInv'
  BY <1>2 DEF PoolInv, ToldInv, claimBatch, Claim
<1> QED  BY <1>4, <1>5, <1>6, <1>7 DEF PoolInv

\* What was claimed is started, and counted once.
LEMMA RunStep ==
  ASSUME PoolInv, runJobs
  PROVE  PoolInv'
<1>1. phase = "asked" /\ phase' = "claim" /\ asked' = {} /\ Cardinality({}) = 0
  BY FS_EmptySet DEF runJobs
<1>2. /\ Cardinality(asked) \in Nat /\ active \in Nat
      /\ Cardinality(working \cup asked) = active + Cardinality(asked)
  <2>1. /\ IsFiniteSet(working) /\ IsFiniteSet(asked)
        /\ Cardinality(asked) \in Nat /\ Cardinality(working) \in Nat
    BY JobsAreFinite DEF PoolInv, PoolTypeOK
  <2>2. working \cap asked = {} /\ active = Cardinality(working)
    BY DEF PoolInv, PoolTypeOK
  <2>3. Cardinality(working \cup asked) =
          Cardinality(working) + Cardinality(asked) - Cardinality(working \cap asked)
    BY <2>1, FS_Union
  <2> QED  BY <2>1, <2>2, <2>3, <1>1
<1>3. PoolTypeOK'
  BY <1>1, <1>2 DEF PoolInv, PoolTypeOK, runJobs, Phases, Gone
<1>4. RowInv'
  BY <1>1 DEF PoolInv, RowInv, runJobs, Live
<1>5. RoundInv'
  <2>1. claimed \in Nat /\ capacity \in Int
    BY DEF PoolInv, PoolTypeOK
  <2> QED
    BY <2>1, <1>1, <1>2 DEF PoolInv, RoundInv, runJobs
<1>6. ToldInv'
  BY <1>1 DEF PoolInv, ToldInv, runJobs
<1> QED  BY <1>3, <1>4, <1>5, <1>6 DEF PoolInv

\* A handler that ends frees its slot, and its row is no longer the process's.
LEMMA SettleStep ==
  ASSUME PoolInv, NEW j \in Jobs, NEW outcome \in Outcomes, settle(j, outcome)
  PROVE  PoolInv'
<1>1. j \in working /\ phase \notin Gone /\ phase' = phase /\ working' = working \ {j}
      /\ asked' = asked /\ j \notin asked /\ outcome # "mine"
  BY DEF settle, Outcomes, PoolInv, PoolTypeOK
<1>2. /\ IsFiniteSet(working) /\ Cardinality(working) \in Nat
      /\ Cardinality(working \ {j}) = Cardinality(working) - 1
  BY <1>1, JobsAreFinite, FS_RemoveElement DEF PoolInv, PoolTypeOK
<1>3. PoolTypeOK'
  BY <1>1, <1>2 DEF PoolInv, PoolTypeOK, settle, Outcomes
<1>4. \A k \in Jobs : row'[k] = IF k = j THEN outcome ELSE row[k]
  BY DEF PoolInv, PoolTypeOK, settle
<1>5. RowInv'
  BY <1>1, <1>4 DEF PoolInv, PoolTypeOK, RowInv, Live, Gone
<1>6. RoundInv'
  BY <1>1, <1>2, JobsAreFinite DEF PoolInv, PoolTypeOK, RoundInv, settle
<1>7. ToldInv'
  BY <1>1 DEF PoolInv, ToldInv, settle
<1> QED  BY <1>3, <1>5, <1>6, <1>7 DEF PoolInv

\* What happens to the rows of others gives the process none.
LEMMA OthersStep ==
  ASSUME PoolInv, NEW j \in Jobs, others(j)
  PROVE  PoolInv'
<1>1. PICK next \in {"due", "elsewhere"} : row' = [row EXCEPT ![j] = next]
  BY DEF others
<1>2. \A k \in Jobs : row'[k] = IF k = j THEN next ELSE row[k]
  BY <1>1 DEF PoolInv, PoolTypeOK
<1>3. row[j] # "mine" /\ next # "mine" /\ j \notin working \cup asked
  BY DEF others, PoolInv, RowInv
<1>4. PoolTypeOK'
  BY <1>1 DEF PoolInv, PoolTypeOK, others
<1>5. RowInv'
  BY <1>2, <1>3 DEF PoolInv, PoolTypeOK, RowInv, others, Live
<1>6. RoundInv' /\ ToldInv'
  BY DEF PoolInv, RoundInv, ToldInv, others
<1> QED  BY <1>4, <1>5, <1>6 DEF PoolInv

\* The signal finds every handler that runs.
LEMMA SignalStep ==
  ASSUME PoolInv, requestShutdown
  PROVE  PoolInv'
  BY DEF PoolInv, PoolTypeOK, RowInv, RoundInv, ToldInv, Live, requestShutdown

\* A killed process holds nothing; its rows are the reaper's.
LEMMA KillStep ==
  ASSUME PoolInv, exitHard
  PROVE  PoolInv'
<1>1. Cardinality({}) = 0
  BY FS_EmptySet
<1> QED
  BY <1>1 DEF PoolInv, PoolTypeOK, RowInv, RoundInv, ToldInv, Live, exitHard,
     Phases, Gone

\* Every step preserves the invariant.
LEMMA PoolNextInv == PoolInv /\ [PoolNext]_poolVars => PoolInv'
<1> SUFFICES ASSUME PoolInv, [PoolNext]_poolVars PROVE PoolInv'
  OBVIOUS
<1>1. CASE testShutdown \/ endRound \/ wake \/ waitForDrain
  BY <1>1, LoopStep
<1>2. CASE readSetting
  BY <1>2, ReadStep
<1>3. CASE claimBatch
  BY <1>3, ClaimStep
<1>4. CASE runJobs
  BY <1>4, RunStep
<1>5. ASSUME NEW j \in Jobs, others(j) PROVE PoolInv'
  BY <1>5, OthersStep
<1>6. ASSUME NEW j \in Jobs, NEW outcome \in Outcomes, settle(j, outcome)
      PROVE  PoolInv'
  BY <1>6, SettleStep
<1>7. CASE requestShutdown \/ exitHard
  BY <1>7, SignalStep, KillStep
<1>8. CASE UNCHANGED poolVars
  BY <1>8 DEF poolVars, PoolInv, PoolTypeOK, RowInv, RoundInv, ToldInv, Live
<1> QED  BY <1>1, <1>2, <1>3, <1>4, <1>5, <1>6, <1>7, <1>8 DEF PoolNext

\* The books of the process are kept, whatever the queues and settings.
THEOREM PoolInvariant == PoolSpec => []PoolInv
  BY PoolInitInv, PoolNextInv, PTL DEF PoolSpec

\* The shape of the state; the loop's count is the number of its handlers, also
\* after outcomes that could not be written.
THEOREM PoolTypes == PoolSpec => []PoolTypeOK
<1>1. PoolInv => PoolTypeOK
  BY DEF PoolInv
<1> QED  BY <1>1, PoolInvariant, PTL

\* No round takes more jobs than the concurrency it has read, from however many
\* queues, and whatever handlers end while it claims.
THEOREM PoolCapacityIsRespected == PoolSpec => []CapacityIsRespected
<1>1. PoolInv => CapacityIsRespected
  <2> SUFFICES ASSUME PoolInv, phase \in {"claim", "asked"}
               PROVE  Cardinality(working \cup asked) <= setting.concurrency
    BY DEF CapacityIsRespected
  <2>1. /\ IsFiniteSet(working) /\ IsFiniteSet(asked)
        /\ Cardinality(working) \in Nat /\ Cardinality(asked) \in Nat
        /\ active = Cardinality(working) /\ working \cap asked = {}
        /\ claimed \in Nat /\ capacity \in Int
    BY JobsAreFinite DEF PoolInv, PoolTypeOK
  <2>2. Cardinality(working \cup asked) = active + Cardinality(asked)
    <3>1. Cardinality(working \cup asked) =
            Cardinality(working) + Cardinality(asked) - Cardinality(working \cap asked)
      BY <2>1, FS_Union
    <3>2. Cardinality(working \cap asked) = 0
      BY <2>1, FS_EmptySet
    <3> QED  BY <2>1, <3>1, <3>2
  <2>3. /\ setting.concurrency \in Nat
        /\ active + capacity <= setting.concurrency + claimed
        /\ claimed + Cardinality(asked) <= capacity
    BY DEF PoolInv, RoundInv
  <2> QED  BY <2>1, <2>2, <2>3
<1> QED  BY <1>1, PoolInvariant, PTL

\* A process that drains and exits leaves the reaper nothing but outcomes that
\* could not be written.
THEOREM PoolCleanExitLeavesNoRow == PoolSpec => []CleanExitLeavesNoRow
<1>1. PoolInv => CleanExitLeavesNoRow
  BY DEF PoolInv, RowInv, Live, CleanExitLeavesNoRow
<1> QED  BY <1>1, PoolInvariant, PTL

\* The signal passes over nobody but handlers of the round it interrupts.
THEOREM PoolSignalReachesHandlers == PoolSpec => []SignalReachesHandlers
<1>1. PoolInv => SignalReachesHandlers
  BY DEF PoolInv, ToldInv, SignalReachesHandlers
<1> QED  BY <1>1, PoolInvariant, PTL

-----------------------------------------------------------------------------
(* Refinement of WorkerLife.                                                *)

\* How many jobs the process holds, and what a claim makes of them.
LEMMA CountHeld ==
  ASSUME PoolInv, NEW S \in SUBSET Jobs, S \cap working = {}
  PROVE  /\ Cardinality(working \cup S) = active + Cardinality(S)
         /\ active \in Nat /\ Cardinality(S) \in Nat
<1>1. /\ IsFiniteSet(working) /\ IsFiniteSet(S) /\ active = Cardinality(working)
      /\ Cardinality(working) \in Nat /\ Cardinality(S) \in Nat
  BY JobsAreFinite DEF PoolInv, PoolTypeOK
<1>2. Cardinality(working \cup S) =
        Cardinality(working) + Cardinality(S) - Cardinality(working \cap S)
  BY <1>1, FS_Union
<1>3. Cardinality(working \cap S) = 0
  BY FS_EmptySet
<1> QED  BY <1>1, <1>2, <1>3

\* A claim stays within the concurrency the round has read.
LEMMA ClaimMap ==
  ASSUME PoolInv, claimBatch
  PROVE  Worker!Next
<1>1. PICK S \in SUBSET Jobs :
        /\ Cardinality(S) <= capacity - claimed /\ asked' = S
        /\ S \cap working = {}
  BY DEF claimBatch, Claim, DueIn, PoolInv, RowInv
<1>2. /\ phase = "claim" /\ phase' = "asked" /\ asked = {} /\ working' = working
      /\ claimed \in Nat /\ capacity \in Int
      /\ setting.concurrency \in Nat
      /\ active + capacity <= setting.concurrency + claimed
  BY DEF claimBatch, Claim, PoolInv, PoolTypeOK, RowInv, RoundInv
<1>3. Cardinality(working \cup S) <= setting.concurrency
  BY <1>1, <1>2, CountHeld
<1>4. setting'.concurrency = setting.concurrency
  <2>1. setting' = [setting EXCEPT !.queues = Tail(setting.queues)]
    BY DEF claimBatch, Claim
  <2>2. setting = [concurrency |-> setting.concurrency, queues |-> setting.queues]
    BY DEF PoolInv, RoundInv
  <2>3. setting' = [concurrency |-> setting.concurrency, queues |-> Tail(setting.queues)]
    BY <2>1, <2>2
  <2> QED  BY <2>3
<1>5. working \cup asked = working /\ working' \cup asked' = working \cup S
  BY <1>1, <1>2
<1>6. Worker!Cardinality(working \cup S) = Cardinality(working \cup S)
  BY DEF Worker!Cardinality, Cardinality
<1>7. Worker!Claim(S)
  BY <1>1, <1>2, <1>3, <1>4, <1>5, <1>6 DEF Worker!Claim, Gone
<1> QED  BY <1>7 DEF Worker!Next

\* A handler that ends frees its place, and no other.
LEMMA SettleMap ==
  ASSUME PoolInv, NEW j \in Jobs, NEW outcome \in Outcomes, settle(j, outcome)
  PROVE  Worker!Next
<1>1. /\ j \in working /\ j \notin asked /\ phase \notin Gone /\ phase' = phase
      /\ working' = working \ {j} /\ asked' = asked /\ setting' = setting
  BY DEF settle, PoolInv, PoolTypeOK
<1>2. working' \cup asked' = (working \cup asked) \ {j}
  BY <1>1
<1>3. Worker!Settle(j)
  BY <1>1, <1>2 DEF Worker!Settle, Gone
<1> QED  BY <1>3 DEF Worker!Next

\* The process takes on work, drains and ends as WorkerLife promises: its rounds, whose
\* claims are asked for queue by queue and answered later, never go beyond the
\* concurrency they read, and an end that is not a crash drops no handler.
THEOREM PoolImplementsWorker == PoolSpec => ImplementsWorker
<1>1. PoolInit => Worker!Init
  <2> SUFFICES ASSUME PoolInit PROVE Worker!Init
    OBVIOUS
  <2>1. setting.concurrency = 0
    BY DEF PoolInit
  <2>2. phase = "test" /\ working \cup asked = {}
    BY DEF PoolInit
  <2> QED  BY <2>1, <2>2 DEF Worker!Init, Gone
<1>2. PoolInv /\ [PoolNext]_poolVars => [Worker!Next]_(Worker!vars)
  <2> SUFFICES ASSUME PoolInv, [PoolNext]_poolVars
               PROVE  Worker!Next \/ UNCHANGED Worker!vars
    OBVIOUS
  <2>1. CASE testShutdown
    <3>1. CASE stopping
      <4>1. Worker!Drain
        BY <2>1, <3>1 DEF testShutdown, Worker!Drain, Gone
      <4> QED  BY <4>1 DEF Worker!Next
    <3>2. CASE ~stopping
      BY <2>1, <3>2 DEF testShutdown, Worker!vars, Gone
    <3> QED  BY <3>1, <3>2
  <2>2. CASE readSetting
    <3>1. PICK c \in Concurrencies, queues \in QueueLists :
            /\ setting' = [concurrency |-> c, queues |-> queues]
            /\ phase' = IF c > active THEN "claim" ELSE "sleep"
      BY <2>2 DEF readSetting
    <3>2. setting'.concurrency = c /\ phase = "read"
      BY <2>2, <3>1 DEF readSetting
    <3>3. Worker!SetLimit
      BY <2>2, <3>1, <3>2 DEF readSetting, Worker!SetLimit, Gone
    <3> QED  BY <3>3 DEF Worker!Next
  <2>3. CASE claimBatch
    BY <2>3, ClaimMap
  <2>4. CASE runJobs \/ endRound \/ wake
    BY <2>4 DEF runJobs, endRound, wake, Worker!vars, Gone
  <2>5. CASE waitForDrain
    <3>1. asked = {}
      BY <2>5 DEF waitForDrain, PoolInv, RowInv
    <3>2. Worker!Exit
      BY <2>5, <3>1 DEF waitForDrain, Worker!Exit, Gone
    <3> QED  BY <3>2 DEF Worker!Next
  <2>6. CASE exitHard
    <3>1. Worker!Crash
      BY <2>6 DEF exitHard, Worker!Crash, Gone
    <3> QED  BY <3>1 DEF Worker!Next
  <2>7. CASE requestShutdown
    BY <2>7 DEF requestShutdown, Worker!vars
  <2>8. ASSUME NEW j \in Jobs, others(j)
        PROVE  UNCHANGED Worker!vars
    BY <2>8 DEF others, Worker!vars
  <2>9. ASSUME NEW j \in Jobs, NEW outcome \in Outcomes, settle(j, outcome)
        PROVE  Worker!Next
    BY <2>9, SettleMap
  <2>10. CASE UNCHANGED poolVars
    BY <2>10 DEF poolVars, Worker!vars
  <2> QED
    BY <2>1, <2>2, <2>3, <2>4, <2>5, <2>6, <2>7, <2>8, <2>9, <2>10 DEF PoolNext
<1> QED
  BY <1>1, <1>2, PoolInvariant, PTL DEF PoolSpec, ImplementsWorker, Worker!Spec
=============================================================================

----------------------------- MODULE WorkerPool -----------------------------
(***************************************************************************)
(* One worker process: the poll loop of main(), the handlers it starts and *)
(* forgets, and the shutdown signal, which may come at any await.          *)
(*                                                                         *)
(* JobQueue has a claim start its handlers at once; here the statement is  *)
(* executed first and its answer arrives later, one queue after the other, *)
(* while handlers end and the settings change.  What other processes do to *)
(* the rows is left open; leases and attempts are in JobQueue.             *)
(***************************************************************************)
EXTENDS Integers, FiniteSets, Sequences

CONSTANTS
  Jobs,
  QueueOf,        \* [Jobs -> queue name]
  QueueLists,     \* the values of SystemSetting.workerQueues
  Concurrencies   \* the values of SystemSetting.workerConcurrency

ASSUME PoolAssumption ==
  /\ IsFiniteSet(Jobs)
  /\ Concurrencies \subseteq Nat \ {0}

VARIABLES
  phase,     \* where main() is
  stopping,  \* isShuttingDown()
  setting,   \* this round's settings, with the queues still to be claimed from
  capacity,  \* the capacity computed in this round
  claimed,   \* the jobs claimed in this round
  asked,     \* rows claimed by a statement whose answer is on its way
  working,   \* the jobs whose handler runs: inFlight
  active,    \* main()'s count of them
  told,      \* the handlers whose signal is aborted
  row,       \* the Job rows, as far as this process is concerned
  batch      \* history: the jobs whose handler was started in this round

poolVars == <<phase, stopping, setting, capacity, claimed, asked, working,
              active, told, row, batch>>

Gone == {"exited", "dead"}
Phases == {"test", "read", "claim", "asked", "sleep", "drain"} \cup Gone

\* The shape of the state.  The loop's count is the number of its handlers,
\* however they end.
PoolTypeOK ==
  /\ phase \in Phases
  /\ stopping \in BOOLEAN
  /\ setting.concurrency \in Concurrencies \cup {0}
  /\ capacity \in Int /\ claimed \in Nat
  /\ asked \subseteq Jobs /\ working \subseteq Jobs
  /\ asked \cap working = {}
  /\ active = Cardinality(working)
  /\ told \subseteq working
  /\ row \in [Jobs -> {"due", "mine", "lost", "elsewhere"}]
  /\ batch \subseteq Jobs

PoolInit ==
  /\ phase = "test"
  /\ stopping = FALSE
  /\ setting = [concurrency |-> 0, queues |-> <<>>]
  /\ capacity = 0 /\ claimed = 0 /\ active = 0
  /\ asked = {} /\ working = {} /\ told = {} /\ batch = {}
  /\ row = [j \in Jobs |-> "due"]

-----------------------------------------------------------------------------
(* The poll loop.                                                           *)

testShutdown ==
  /\ phase = "test"
  /\ phase' = IF stopping THEN "drain" ELSE "read"
  /\ UNCHANGED <<stopping, setting, capacity, claimed, asked, working, active,
                 told, row, batch>>

readSetting ==
  /\ phase = "read"
  /\ \E c \in Concurrencies, queues \in QueueLists :
       /\ setting' = [concurrency |-> c, queues |-> queues]
       /\ capacity' = c - active
       /\ phase' = IF c > active THEN "claim" ELSE "sleep"
  /\ claimed' = 0 /\ batch' = {}
  /\ UNCHANGED <<stopping, asked, working, active, told, row>>

DueIn(queue) == {j \in Jobs : QueueOf[j] = queue /\ row[j] = "due"}

\* The statement is executed; rows that others have locked are passed over.
Claim(limit) ==
  /\ phase = "claim" /\ setting.queues # <<>> /\ claimed < capacity
  /\ \E S \in SUBSET DueIn(Head(setting.queues)) :
       /\ Cardinality(S) <= limit
       /\ row' = [j \in Jobs |-> IF j \in S THEN "mine" ELSE row[j]]
       /\ asked' = S
  /\ setting' = [setting EXCEPT !.queues = Tail(@)]
  /\ phase' = "asked"
  /\ UNCHANGED <<stopping, capacity, claimed, working, active, told, batch>>

\* A bug: each queue is given the whole capacity.
claimBatch_WholeCapacity == Claim(capacity)

claimBatch == Claim(capacity - claimed)

\* The answer arrives, and runJob starts a handler for each row.  A listener
\* added to a signal that is aborted already is never called.
runJobs ==
  /\ phase = "asked"
  /\ claimed' = claimed + Cardinality(asked)
  /\ active' = active + Cardinality(asked)
  /\ working' = working \cup asked
  /\ batch' = batch \cup asked
  /\ asked' = {}
  /\ phase' = "claim"
  /\ UNCHANGED <<stopping, setting, capacity, told, row>>

endRound ==
  /\ phase = "claim" /\ (setting.queues = <<>> \/ claimed >= capacity)
  /\ phase' = IF claimed = 0 THEN "sleep" ELSE "test"
  /\ UNCHANGED <<stopping, setting, capacity, claimed, asked, working, active,
                 told, row, batch>>

wake ==
  /\ phase = "sleep"
  /\ phase' = "test"
  /\ UNCHANGED <<stopping, setting, capacity, claimed, asked, working, active,
                 told, row, batch>>

-----------------------------------------------------------------------------
(* Handlers.                                                                *)

\* A bug: the slot of a handler whose outcome cannot be written is not freed.
settle_KeepsSlot(j, outcome) ==
  /\ j \in working /\ phase \notin Gone
  /\ row' = [row EXCEPT ![j] = outcome]
  /\ working' = working \ {j} /\ told' = told \ {j}
  /\ active' = IF outcome = "lost" THEN active ELSE active - 1
  /\ UNCHANGED <<phase, stopping, setting, capacity, claimed, asked, batch>>

\* The handler ends, told or not, and finishJob writes its outcome or throws:
\* the slot is free either way.
settle(j, outcome) ==
  /\ j \in working /\ phase \notin Gone
  /\ row' = [row EXCEPT ![j] = outcome]
  /\ working' = working \ {j} /\ told' = told \ {j}
  /\ active' = active - 1
  /\ UNCHANGED <<phase, stopping, setting, capacity, claimed, asked, batch>>

Outcomes == {"due", "elsewhere", "lost"}

\* The rows that are not this process's go on without it.
others(j) ==
  /\ row[j] \in {"due", "elsewhere", "lost"}
  /\ \E next \in {"due", "elsewhere"} : row' = [row EXCEPT ![j] = next]
  /\ UNCHANGED <<phase, stopping, setting, capacity, claimed, asked, working,
                 active, told, batch>>

-----------------------------------------------------------------------------
(* Shutdown.                                                                *)

\* A bug: the loop is told, the handlers are not.
requestShutdown_LoopOnly ==
  /\ ~stopping /\ phase \notin Gone
  /\ stopping' = TRUE
  /\ UNCHANGED <<phase, setting, capacity, claimed, asked, working, active,
                 told, row, batch>>

requestShutdown ==
  /\ ~stopping /\ phase \notin Gone
  /\ stopping' = TRUE
  /\ told' = working
  /\ UNCHANGED <<phase, setting, capacity, claimed, asked, working, active,
                 row, batch>>

\* A bug: only the handlers that the signal found are waited for.
waitForDrain_SignalledOnly ==
  /\ phase = "drain" /\ told = {}
  /\ phase' = "exited"
  /\ UNCHANGED <<stopping, setting, capacity, claimed, asked, working, active,
                 told, row, batch>>

waitForDrain ==
  /\ phase = "drain" /\ working = {}
  /\ phase' = "exited"
  /\ UNCHANGED <<stopping, setting, capacity, claimed, asked, working, active,
                 told, row, batch>>

\* A query of main() throws, the grace period ends, or the process is killed:
\* its handlers are gone, and the rows stay until their leases run out.
exitHard ==
  /\ phase \notin Gone
  /\ phase' = "dead"
  /\ asked' = {} /\ working' = {} /\ active' = 0 /\ told' = {}
  /\ UNCHANGED <<stopping, setting, capacity, claimed, row, batch>>

-----------------------------------------------------------------------------
PoolNext ==
  \/ testShutdown
  \/ readSetting
  \/ claimBatch
  \/ runJobs
  \/ endRound
  \/ wake
  \/ \E j \in Jobs : others(j) \/ \E outcome \in Outcomes : settle(j, outcome)
  \/ requestShutdown
  \/ waitForDrain
  \/ exitHard

PoolSpec == PoolInit /\ [][PoolNext]_poolVars

-----------------------------------------------------------------------------
\* In a round that claims, the process never holds more jobs than the concurrency
\* it has just read, in however many queues it finds them and whatever handlers
\* end meanwhile (settingsHelp.ts: "How many jobs one worker process may run at
\* the same time").
CapacityIsRespected ==
  phase \in {"claim", "asked"} =>
    Cardinality(working \cup asked) <= setting.concurrency

\* The process takes on work, drains and ends as WorkerLife promises.
Worker == INSTANCE WorkerLife
  WITH Handlers <- Jobs, Limits <- Concurrencies, limit <- setting.concurrency,
       held <- working \cup asked,
       mode <- IF phase \in Gone THEN "down"
               ELSE IF phase = "drain" THEN "draining" ELSE "up"

\* However many queues a round claims from, and whatever handlers end or settings
\* change while its statements are under way, no claim takes the process beyond the
\* concurrency it read; a claim the signal interrupts is not one of a draining
\* process, and none of its jobs are dropped when it exits by itself.
ImplementsWorker == Worker!Spec

\* A process that exits by itself leaves no row RUNNING for the reaper to find,
\* those it claimed while the signal came included; only an outcome that could
\* not be written is left.
CleanExitLeavesNoRow ==
  phase = "exited" => \A j \in Jobs : row[j] # "mine"

\* Once the signal came, every handler is told, except those started later in the
\* round it interrupted: no round begins after it.
SignalReachesHandlers ==
  stopping => \A j \in working \ told : j \in batch
=============================================================================

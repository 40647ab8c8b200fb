----------------------------- MODULE WorkerLife -----------------------------
(***************************************************************************)
(* What a worker process promises about the handlers it runs, with no poll *)
(* loop, queues or rows: it takes on no more than its limit allows at that *)
(* moment, nothing once it drains, and ends by itself only with empty      *)
(* hands.  A lowered limit takes nothing away.  JobQueue's workers and     *)
(* WorkerPool's process implement this module.                             *)
(***************************************************************************)
EXTENDS Integers, FiniteSets

CONSTANTS
  Handlers,  \* what a process runs
  Limits     \* the values of SystemSetting.workerConcurrency

VARIABLES mode, held, limit
vars == <<mode, held, limit>>

Init == mode = "up" /\ held = {} /\ limit \in Limits \cup {0}

SetLimit ==
  /\ mode = "up" /\ limit' \in Limits
  /\ UNCHANGED <<mode, held>>

Claim(S) ==
  /\ mode = "up" /\ S \cap held = {}
  /\ Cardinality(held \cup S) <= limit
  /\ held' = held \cup S
  /\ UNCHANGED <<mode, limit>>

Settle(h) ==
  /\ mode # "down" /\ h \in held
  /\ held' = held \ {h}
  /\ UNCHANGED <<mode, limit>>

Drain ==
  /\ mode = "up" /\ mode' = "draining"
  /\ UNCHANGED <<held, limit>>

Exit ==
  /\ mode = "draining" /\ held = {}
  /\ mode' = "down"
  /\ UNCHANGED <<held, limit>>

Crash ==
  /\ mode # "down"
  /\ mode' = "down" /\ held' = {}
  /\ UNCHANGED limit

Restart ==
  /\ mode = "down" /\ mode' = "up"
  /\ UNCHANGED <<held, limit>>

Next ==
  \/ \E S \in SUBSET Handlers : Claim(S)
  \/ \E h \in Handlers : Settle(h)
  \/ SetLimit
  \/ Drain \/ Exit \/ Crash \/ Restart

Spec == Init /\ [][Next]_vars
=============================================================================

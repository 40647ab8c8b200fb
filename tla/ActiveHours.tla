---------------------------- MODULE ActiveHours ----------------------------
(***************************************************************************)
(* A job that may run in its account's working hours only: the gate        *)
(* (isWithinActiveHours), the time a closed gate pushes the job back to    *)
(* (nextWindowStart), and the policy, which a form may change while the    *)
(* job waits.                                                              *)
(*                                                                         *)
(* Two ticks make an hour: the even one is the full hour itself, the odd   *)
(* one any moment after it.  The clock is the account's wall clock, runs   *)
(* through one week and starts again; it has no daylight saving.           *)
(***************************************************************************)
EXTENDS Integers

CONSTANTS
  Policies,   \* the policies the form is given
  MaxLate     \* bound: ticks the workers may leave a due job unclaimed

Hours == 0..23
Policy == [start : Hours, end : Hours, weekends : BOOLEAN]

Default == [start |-> 9, end |-> 18, weekends |-> FALSE]

ASSUME HoursAssumption ==
  Policies \subseteq Policy /\ Default \in Policies /\ MaxLate \in Nat

VARIABLES
  clock,    \* the tick of the week; tick 0 is Sunday, 00:00
  policy,   \* the ScrapingPolicy row
  job,      \* "none", "queued", or "bypass": queued by a connection test
  wait,     \* ticks until the job's runAt
  late      \* ticks the job has been due

hoursVars == <<clock, policy, job, wait, late>>

Day == 48
Week == 7 * Day
Ticks == 0..Week - 1

-----------------------------------------------------------------------------
(* The gate; t may lie up to three days past the week.                      *)

isWeekend(t) == ((t \div Day) % 7) \in {0, 6}
hour(t) == (t % Day) \div 2

\* A bug: the full hour the window opens at counts as closed.
isWithinActiveHours_LateStart(t, p) ==
  /\ p.weekends \/ ~isWeekend(t)
  /\ hour(t) > p.start /\ hour(t) < p.end

isWithinActiveHours(t, p) ==
  /\ p.weekends \/ ~isWeekend(t)
  /\ hour(t) >= p.start /\ hour(t) < p.end

\* The next time the clock shows the hour the window opens at.
comingStart(t, p) ==
  LET today == (t - (t % Day)) + 2 * p.start
  IN  IF today <= t THEN today + Day ELSE today

\* A bug: one day is skipped, whatever the next one is.
pastWeekend_OneDay(t, p) ==
  IF p.weekends \/ ~isWeekend(t) THEN t ELSE t + Day

\* The loop runs twice at most.
pastWeekend(t, p) ==
  IF p.weekends \/ ~isWeekend(t) THEN t
  ELSE IF ~isWeekend(t + Day) THEN t + Day ELSE t + 2 * Day

nextWindowStart(t, p) == pastWeekend(comingStart(t, p), p)

-----------------------------------------------------------------------------
HoursTypeOK ==
  /\ clock \in Ticks
  /\ policy \in Policies
  /\ job \in {"none", "queued", "bypass"}
  /\ wait \in 0..3 * Day
  /\ late \in 0..MaxLate
  /\ job # "queued" => wait = 0

\* The row starts with the columns' defaults.
HoursInit ==
  /\ clock = 0
  /\ policy = Default
  /\ job = "none"
  /\ wait = 0
  /\ late = 0

enqueueGated ==
  /\ job = "none"
  /\ job' \in {"queued", "bypass"}
  /\ UNCHANGED <<clock, policy, wait, late>>

\* prepareAccountSession in a claimed job, and handleRunStart: inside the window
\* the job goes on.
passGate ==
  /\ \/ job = "bypass"
     \/ job = "queued" /\ wait = 0 /\ isWithinActiveHours(clock, policy)
  /\ job' = "none" /\ late' = 0
  /\ UNCHANGED <<clock, policy, wait>>

\* Outside it the job is rescheduled.
pushBack ==
  /\ job = "queued" /\ wait = 0 /\ ~isWithinActiveHours(clock, policy)
  /\ wait' = nextWindowStart(clock, policy) - clock
  /\ late' = 0
  /\ UNCHANGED <<clock, policy, job>>

changeHours ==
  /\ policy' \in Policies
  /\ UNCHANGED <<clock, job, wait, late>>

\* The workers leave no due job unclaimed for more than MaxLate ticks.
tickOfWeek ==
  /\ clock' = (clock + 1) % Week
  /\ \/ job = "none" /\ UNCHANGED <<wait, late>>
     \/ job # "none" /\ wait > 0 /\ wait' = wait - 1 /\ UNCHANGED late
     \/ /\ job # "none" /\ wait = 0 /\ late < MaxLate
        /\ late' = late + 1 /\ UNCHANGED wait
  /\ UNCHANGED <<policy, job>>

HoursNext ==
  \/ enqueueGated
  \/ passGate
  \/ pushBack
  \/ changeHours
  \/ tickOfWeek

HoursFairness ==
  WF_hoursVars(passGate \/ pushBack) /\ WF_hoursVars(tickOfWeek)

HoursSpec == HoursInit /\ [][HoursNext]_hoursVars
FairHoursSpec == HoursSpec /\ HoursFairness

-----------------------------------------------------------------------------
\* A closed gate costs a claim, not a worker that spins on it: a pushed-back job is
\* never due at once, even under a window that opens after it closes.  It is pushed
\* back to the next window and no further: the gate is open at the time it is due,
\* and at no time between ("rescheduled to the next window", ARCHITECTURE.md).
PushBackIsTight ==
  [][pushBack =>
       /\ wait' > 0
       /\ policy.start < policy.end =>
            /\ isWithinActiveHours(clock + wait', policy)
            /\ \A t \in clock..clock + wait' - 1 :
                 ~isWithinActiveHours(t, policy)]_hoursVars

\* A job runs in the end, at whatever moment of the week it was queued, once the
\* policy keeps a window that opens before it closes.
JobPassesGate ==
  \A p \in Policies : p.start < p.end =>
    (<>[](policy = p) => []<>(job = "none"))
=============================================================================

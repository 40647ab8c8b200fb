---------------------------- MODULE PartsProofs ----------------------------
(***************************************************************************)
(* Proofs about ActiveHours, for every set of policies, and about the four *)
(* parts of MCParts taken together.  A moment is split into its day and    *)
(* its tick of the day, in which the gate and the next start are linear:   *)
(* lemmas GateAt, ComingAt and PastAt.                                     *)
(***************************************************************************)
EXTENDS MCParts, UserAdminProofs, SettingsCacheProofs, WorkerPoolProofs, TLAPS

\* Every moment has a day and a tick of that day.
LEMMA DayAndTick ==
  ASSUME NEW t \in Nat
  PROVE  \E d \in Nat, r \in 0..47 : t = 48 * d + r
<1>1. t \div 48 \in Nat /\ t % 48 \in 0..47 /\ t = 48 * (t \div 48) + (t % 48)
  OBVIOUS
<1>2. WITNESS t \div 48 \in Nat, t % 48 \in 0..47
<1> QED  BY <1>1

\* The gate, by day and tick.
OpenAt(d, r, p) ==
  /\ p.weekends \/ d % 7 \notin {0, 6}
  /\ r >= 2 * p.start /\ r < 2 * p.end

\* The gate at a moment, by its day and its tick of the day.
LEMMA GateAt ==
  ASSUME NEW d \in Nat, NEW r \in 0..47, NEW p \in Policy
  PROVE  isWithinActiveHours(48 * d + r, p) <=> OpenAt(d, r, p)
<1>1. (48 * d + r) \div 48 = d /\ (48 * d + r) % 48 = r
  OBVIOUS
<1>2. \A s \in 0..23 : (r \div 2 >= s) <=> (r >= 2 * s)
  OBVIOUS
<1>3. p.start \in 0..23 /\ p.end \in 0..23
  BY DEF Policy, Hours
<1>4. isWeekend(48 * d + r) <=> d % 7 \in {0, 6}
  BY <1>1 DEF isWeekend, Day
<1>5. hour(48 * d + r) = r \div 2
  BY <1>1 DEF hour, Day
<1>6. r \div 2 \in 0..23
  OBVIOUS
<1>7. hour(48 * d + r) >= p.start <=> r >= 2 * p.start
  BY <1>2, <1>3, <1>5
<1>8. hour(48 * d + r) < p.end <=> r < 2 * p.end
  BY <1>2, <1>3, <1>5, <1>6
<1> QED  BY <1>4, <1>7, <1>8 DEF isWithinActiveHours, OpenAt

\* The coming start is today's or tomorrow's.
LEMMA ComingAt ==
  ASSUME NEW d \in Nat, NEW r \in 0..47, NEW p \in Policy
  PROVE  \E e \in {d, d + 1} :
           /\ comingStart(48 * d + r, p) = 48 * e + 2 * p.start
           /\ e = d => r < 2 * p.start
           /\ e = d + 1 => r >= 2 * p.start
<1>1. (48 * d + r) % 48 = r
  OBVIOUS
<1>2. p.start \in 0..23
  BY DEF Policy, Hours
<1>3. CASE r < 2 * p.start
  BY <1>1, <1>2, <1>3 DEF comingStart, Day
<1>4. CASE r >= 2 * p.start
  BY <1>1, <1>2, <1>4 DEF comingStart, Day
<1> QED  BY <1>2, <1>3, <1>4

\* The loop over the weekend passes at most two days, all of them weekend.
LEMMA PastAt ==
  ASSUME NEW e \in Nat, NEW p \in Policy
  PROVE  \E k \in 0..2 :
           /\ pastWeekend(48 * e + 2 * p.start, p) = 48 * (e + k) + 2 * p.start
           /\ p.weekends \/ (e + k) % 7 \notin {0, 6}
           /\ \A j \in 0..k - 1 : ~p.weekends /\ (e + j) % 7 \in {0, 6}
<1> DEFINE t == 48 * e + 2 * p.start
<1>1. p.start \in 0..23 /\ p.weekends \in BOOLEAN
  BY DEF Policy, Hours
<1>2. t \div 48 = e /\ (t + 48) \div 48 = e + 1
  BY <1>1
<1>3. /\ isWeekend(t) <=> e % 7 \in {0, 6}
      /\ isWeekend(t + Day) <=> (e + 1) % 7 \in {0, 6}
  BY <1>2 DEF isWeekend, Day
<1>4. CASE p.weekends \/ e % 7 \notin {0, 6}
  <2>1. pastWeekend(t, p) = 48 * (e + 0) + 2 * p.start
    BY <1>1, <1>3, <1>4 DEF pastWeekend
  <2>2. \A j \in 0..0 - 1 : ~p.weekends /\ (e + j) % 7 \in {0, 6}
    OBVIOUS
  <2>3. WITNESS 0 \in 0..2
  <2> QED  BY <1>4, <2>1, <2>2
<1>5. CASE ~p.weekends /\ e % 7 \in {0, 6} /\ (e + 1) % 7 \notin {0, 6}
  <2>1. pastWeekend(t, p) = 48 * (e + 1) + 2 * p.start
    BY <1>1, <1>3, <1>5 DEF pastWeekend, Day
  <2>2. \A j \in 0..1 - 1 : ~p.weekends /\ (e + j) % 7 \in {0, 6}
    BY <1>5
  <2>3. WITNESS 1 \in 0..2
  <2> QED  BY <1>5, <2>1, <2>2
<1>6. CASE ~p.weekends /\ e % 7 \in {0, 6} /\ (e + 1) % 7 \in {0, 6}
  <2>1. pastWeekend(t, p) = 48 * (e + 2) + 2 * p.start
    BY <1>1, <1>3, <1>6 DEF pastWeekend, Day
  <2>2. \A j \in 0..2 - 1 : ~p.weekends /\ (e + j) % 7 \in {0, 6}
    BY <1>6
  <2>3. (e + 2) % 7 \notin {0, 6}
    BY <1>6
  <2>4. WITNESS 2 \in 0..2
  <2> QED  BY <2>1, <2>2, <2>3
<1> QED  BY <1>4, <1>5, <1>6

\* The next start is ahead of the moment it is asked for, by three days at most.
LEMMA NextIsLater ==
  ASSUME NEW t \in Nat, NEW p \in Policy
  PROVE  nextWindowStart(t, p) \in t + 1..t + 3 * Day
<1>1. PICK d \in Nat, r \in 0..47 : t = 48 * d + r
  BY DayAndTick
<1>2. PICK e \in {d, d + 1} :
         /\ comingStart(48 * d + r, p) = 48 * e + 2 * p.start
         /\ e = d => r < 2 * p.start
         /\ e = d + 1 => r >= 2 * p.start
  BY ComingAt
<1>3. e \in Nat /\ p.start \in 0..23
  BY DEF Policy, Hours
<1>4. PICK k \in 0..2 :
         pastWeekend(48 * e + 2 * p.start, p) = 48 * (e + k) + 2 * p.start
  BY <1>3, PastAt
<1>5. nextWindowStart(t, p) = 48 * (e + k) + 2 * p.start
  BY <1>1, <1>2, <1>4 DEF nextWindowStart
<1> QED  BY <1>1, <1>2, <1>3, <1>5 DEF Day

\* The gate is open at the next start, and closed from a moment at which it is
\* closed up to the next start.
LEMMA NextIsTight ==
  ASSUME NEW t \in Nat, NEW p \in Policy, p.start < p.end,
         ~isWithinActiveHours(t, p)
  PROVE  /\ isWithinActiveHours(nextWindowStart(t, p), p)
         /\ \A u \in t..nextWindowStart(t, p) - 1 : ~isWithinActiveHours(u, p)
<1>1. PICK d \in Nat, r \in 0..47 : t = 48 * d + r
  BY DayAndTick
<1>2. PICK e \in {d, d + 1} :
         /\ comingStart(48 * d + r, p) = 48 * e + 2 * p.start
         /\ e = d => r < 2 * p.start
         /\ e = d + 1 => r >= 2 * p.start
  BY ComingAt
<1>3. e \in Nat /\ p.start \in 0..23 /\ p.end \in 0..23
  BY DEF Policy, Hours
<1>4. PICK k \in 0..2 :
         /\ pastWeekend(48 * e + 2 * p.start, p) = 48 * (e + k) + 2 * p.start
         /\ p.weekends \/ (e + k) % 7 \notin {0, 6}
         /\ \A j \in 0..k - 1 : ~p.weekends /\ (e + j) % 7 \in {0, 6}
  BY <1>3, PastAt
<1>5. nextWindowStart(t, p) = 48 * (e + k) + 2 * p.start
  BY <1>1, <1>2, <1>4 DEF nextWindowStart
<1>6. isWithinActiveHours(nextWindowStart(t, p), p)
  <2>1. OpenAt(e + k, 2 * p.start, p)
    BY <1>3, <1>4 DEF OpenAt
  <2>2. e + k \in Nat /\ 2 * p.start \in 0..47
    BY <1>3
  <2> QED  BY <1>5, <2>1, <2>2, GateAt
<1>7. ASSUME NEW u \in t..nextWindowStart(t, p) - 1, isWithinActiveHours(u, p)
      PROVE  FALSE
  <2>1. u \in Nat
    BY <1>3, <1>5
  <2>2. PICK a \in Nat, b \in 0..47 : u = 48 * a + b
    BY <2>1, DayAndTick
  <2>3. OpenAt(a, b, p) /\ ~OpenAt(d, r, p)
    BY <1>1, <1>7, <2>2, GateAt
  <2>4. b >= 2 * p.start /\ b < 2 * p.end
    BY <2>3 DEF OpenAt
  <2>5. 48 * d + r <= 48 * a + b /\ 48 * a + b < 48 * (e + k) + 2 * p.start
    BY <1>1, <1>3, <1>5, <2>2
  <2>6. d <= a /\ a < e + k
    BY <1>3, <2>4, <2>5
  <2>7. CASE a >= e
    <3>1. a - e \in 0..k - 1 /\ e + (a - e) = a
      BY <1>3, <2>6, <2>7
    <3>2. ~p.weekends /\ a % 7 \in {0, 6}
      BY <1>4, <3>1
    <3> QED  BY <2>3, <3>2 DEF OpenAt
  <2>8. CASE a < e
    <3>1. a = d /\ r >= 2 * p.start /\ r <= b
      BY <1>2, <2>5, <2>6, <2>8
    <3> QED  BY <1>3, <2>3, <2>4, <3>1 DEF OpenAt
  <2> QED  BY <1>3, <2>7, <2>8
<1> QED  BY <1>6, <1>7

-----------------------------------------------------------------------------
\* The initial states are well-typed.
LEMMA HoursTypeInit == HoursInit => HoursTypeOK
  BY HoursAssumption DEF HoursInit, HoursTypeOK, Ticks, Week, Day

\* Every step keeps the types: what pushBack computes fits.
LEMMA HoursTypeStep == HoursTypeOK /\ [HoursNext]_hoursVars => HoursTypeOK'
<1> SUFFICES ASSUME HoursTypeOK, [HoursNext]_hoursVars PROVE HoursTypeOK'
  OBVIOUS
<1> USE HoursAssumption DEF HoursTypeOK
<1>1. CASE enqueueGated
  BY <1>1 DEF enqueueGated
<1>2. CASE passGate
  BY <1>2 DEF passGate
<1>3. CASE pushBack
  <2>1. clock \in Nat /\ policy \in Policy
    BY DEF Ticks, Week, Day
  <2>2. nextWindowStart(clock, policy) \in clock + 1..clock + 3 * Day
    BY <2>1, NextIsLater
  <2>3. nextWindowStart(clock, policy) - clock \in 0..3 * Day
    BY <2>1, <2>2 DEF Day
  <2> QED  BY <1>3, <2>3 DEF pushBack
<1>4. CASE changeHours
  BY <1>4 DEF changeHours
<1>5. CASE tickOfWeek
  <2>1. clock' \in Ticks
    BY <1>5 DEF tickOfWeek, Ticks, Week, Day
  <2>2. wait' \in 0..3 * Day /\ late' \in 0..MaxLate
    BY <1>5 DEF tickOfWeek, Day
  <2> QED  BY <1>5, <2>1, <2>2 DEF tickOfWeek
<1>6. CASE UNCHANGED hoursVars
  BY <1>6 DEF hoursVars
<1> QED  BY <1>1, <1>2, <1>3, <1>4, <1>5, <1>6 DEF HoursNext

\* Clock, policy, job and waiting time keep their types; a push-back never asks for
\* a time in the past or more than three days ahead.
THEOREM HoursTypes == HoursSpec => []HoursTypeOK
<1>1. HoursInit => HoursTypeOK
  BY HoursTypeInit
<1>2. HoursTypeOK /\ [HoursNext]_hoursVars => HoursTypeOK'
  BY HoursTypeStep
<1> QED  BY <1>1, <1>2, PTL DEF HoursSpec

\* Whatever the policy, weekends and windows that never open included, a closed gate
\* puts its job off.  Under any window that opens before it closes the job is due when
\* the gate opens next and not later, on every day of the week and on either side of
\* a weekend.
THEOREM HoursPushBackIsTight == HoursSpec => PushBackIsTight
<1> DEFINE Tight ==
      pushBack =>
        /\ wait' > 0
        /\ policy.start < policy.end =>
             /\ isWithinActiveHours(clock + wait', policy)
             /\ \A t \in clock..clock + wait' - 1 : ~isWithinActiveHours(t, policy)
<1>1. HoursTypeOK /\ [HoursNext]_hoursVars => [Tight]_hoursVars
  <2> SUFFICES ASSUME HoursTypeOK, pushBack PROVE Tight
    OBVIOUS
  <2>1. clock \in Nat /\ policy \in Policy
    BY HoursAssumption DEF HoursTypeOK, Ticks, Week, Day
  <2>2. clock + wait' = nextWindowStart(clock, policy) /\ wait' > 0
    BY <2>1, NextIsLater DEF pushBack, Day
  <2> QED  BY <2>1, <2>2, NextIsTight DEF pushBack
<1> QED  BY <1>1, HoursTypes, PTL DEF HoursSpec, PushBackIsTight

-----------------------------------------------------------------------------
(* The four parts together.                                                 *)

\* Each part sees its own steps, or stutters.
LEMMA PartSteps ==
  [Next]_vars => /\ [UserNext]_userVars /\ [CacheNext]_cacheVars
                 /\ [HoursNext]_hoursVars /\ [PoolNext]_poolVars
<1>1. users => /\ [UserNext]_userVars /\ [CacheNext]_cacheVars
               /\ [HoursNext]_hoursVars /\ [PoolNext]_poolVars
  BY DEF users
<1>2. settings => /\ [UserNext]_userVars /\ [CacheNext]_cacheVars
                  /\ [HoursNext]_hoursVars /\ [PoolNext]_poolVars
  BY DEF settings
<1>3. hours => /\ [UserNext]_userVars /\ [CacheNext]_cacheVars
               /\ [HoursNext]_hoursVars /\ [PoolNext]_poolVars
  BY DEF hours
<1>4. worker => /\ [UserNext]_userVars /\ [CacheNext]_cacheVars
                /\ [HoursNext]_hoursVars /\ [PoolNext]_poolVars
  BY DEF worker
<1>5. UNCHANGED vars => /\ [UserNext]_userVars /\ [CacheNext]_cacheVars
                        /\ [HoursNext]_hoursVars /\ [PoolNext]_poolVars
  BY DEF vars
<1> QED  BY <1>1, <1>2, <1>3, <1>4, <1>5 DEF Next

\* The parts share no state: what TLC explores are behaviours of each part's own
\* specification, to which the theorems about that part apply.
THEOREM PartsFollowTheirSpecs == Spec => UserSpec /\ CacheSpec /\ HoursSpec /\ PoolSpec
<1>1. Init => UserInit /\ CacheInit /\ HoursInit /\ PoolInit
  BY DEF Init
<1> QED
  BY <1>1, PartSteps, PTL DEF Spec, UserSpec, CacheSpec, HoursSpec, PoolSpec

\* The shape of the state of users, settings, active hours and worker together: no
\* step of one spoils what another keeps.
THEOREM PartsTypes == Spec => []PartsTypeOK
<1>1. UserTypeOK /\ CacheTypeOK /\ HoursTypeOK /\ PoolTypeOK => PartsTypeOK
  BY DEF PartsTypeOK
<1> QED
  BY <1>1, PartsFollowTheirSpecs, UserTypes, CacheTypes, HoursTypes, PoolTypes, PTL
=============================================================================

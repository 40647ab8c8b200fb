------------------------------ MODULE MCParts ------------------------------
(* Four parts that share no state, in one instance for TLC.  A behaviour    *)
(* takes the steps of one part; the other three keep their initial states,  *)
(* so that the instance is the sum of the four and not their product.       *)
EXTENDS UserAdmin, SettingsCache, ActiveHours, WorkerPool

CONSTANTS u1, u2, q1, q2, p1, f1, f2, loop, j1, j2, j3

VARIABLE part

vars == <<part, userVars, cacheVars, hoursVars, poolVars>>

Between(start, end, weekends) ==
  [start |-> start, end |-> end, weekends |-> weekends]

\* The default, the earliest and shortest window, and one that never opens.
HourPolicies == {Default, Between(0, 1, TRUE), Between(22, 6, FALSE)}

\* Two jobs in the first queue and one in the second; a list may name one twice.
JobQueues == [j \in {j1, j2, j3} |-> IF j = j3 THEN "second" ELSE "first"]
ClaimLists == {<<"first">>, <<"first", "second">>, <<"second", "first", "first">>}

Init ==
  /\ part \in {"users", "settings", "hours", "worker"}
  /\ UserInit /\ CacheInit /\ HoursInit /\ PoolInit

StepOf(p) == part = p /\ part' = p

users ==
  StepOf("users") /\ UserNext /\ UNCHANGED <<cacheVars, hoursVars, poolVars>>
settings ==
  StepOf("settings") /\ CacheNext /\ UNCHANGED <<userVars, hoursVars, poolVars>>
hours ==
  StepOf("hours") /\ HoursNext /\ UNCHANGED <<userVars, cacheVars, poolVars>>
worker ==
  StepOf("worker") /\ PoolNext /\ UNCHANGED <<userVars, cacheVars, hoursVars>>

Next == users \/ settings \/ hours \/ worker

\* CacheFairness and HoursFairness, of the behaviours of their parts.
Fairness ==
  /\ WF_cacheVars(part = "settings" /\ get(Loop))
  /\ \A g \in Renders : WF_cacheVars(part = "settings" /\ store(g))
  /\ WF_cacheVars(part = "settings" /\ passTime)
  /\ WF_hoursVars(part = "hours" /\ (passGate \/ pushBack))
  /\ WF_hoursVars(part = "hours" /\ tickOfWeek)

Spec == Init /\ [][Next]_vars /\ Fairness

\* The shape of the state of all four.
PartsTypeOK == UserTypeOK /\ CacheTypeOK /\ HoursTypeOK /\ PoolTypeOK
=============================================================================

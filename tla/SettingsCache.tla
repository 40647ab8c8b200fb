--------------------------- MODULE SettingsCache ---------------------------
(***************************************************************************)
(* The settings row and the copy each process keeps of it for a TTL.       *)
(*                                                                         *)
(* A getter asks the database only when the process's copy is missing or   *)
(* too old, and stores what it was told when the answer arrives; a form    *)
(* saves, then drops the copy of the web process.  Getters and forms of    *)
(* the web process interleave; the worker's poll loop is the only getter   *)
(* of its process.  ScrapingPolicy and SystemSetting are cached and drop-  *)
(* ped alike, so one row stands for both, represented by its version.      *)
(***************************************************************************)
EXTENDS Naturals

CONSTANTS
  Renders,      \* page renders of the web process that may read at once
  Forms,        \* settings forms that may be saved at once
  Loop,         \* the worker's poll loop
  TTL,          \* CACHE_TTL_MS, in ticks
  MaxTransit,   \* bound: ticks an answer may be on its way
  MaxSaves,     \* bound: writes of the row
  MaxRestarts   \* bound: processes that start again

ASSUME CacheAssumption ==
  /\ TTL \in Nat \ {0} /\ MaxTransit \in Nat /\ MaxSaves \in Nat \ {0}
  /\ MaxRestarts \in Nat
  /\ Loop \notin Renders

VARIABLES
  saved,    \* the version in the database
  age,      \* how long ago each version was written, up to TTL + MaxTransit
  cache,    \* each process's copy
  getter,   \* the getters under way
  form,     \* how far each form has come
  booting,  \* main() has not read its initial setting yet
  started,  \* the version main() took for what it reads once
  applied,  \* the version the poll loop goes by
  restarts  \* counts them

cacheVars == <<saved, age, cache, getter, form, booting, started, applied, restarts>>

workerVars == <<booting, started, applied>>

Processes == {"web", "worker"}
Getters == Renders \cup {Loop}
Process(g) == IF g = Loop THEN "worker" ELSE "web"
Versions == 0..MaxSaves
Old == TTL + MaxTransit

\* excused: history, a form dropped the copy while this version was on its way,
\* or failed without dropping it.
Empty == [full |-> FALSE, value |-> 0, at |-> 0, excused |-> FALSE]
Resting == [at |-> "idle", value |-> 0, late |-> 0, excused |-> FALSE]

\* The shape of the state; no copy and no answer is newer than the row.
CacheTypeOK ==
  /\ saved \in Versions
  /\ age \in [1..MaxSaves -> 0..Old]
  /\ cache \in [Processes -> [full : BOOLEAN, value : 0..saved, at : 0..TTL,
                              excused : BOOLEAN]]
  /\ getter \in [Getters -> [at : {"idle", "asked", "answered"}, value : 0..saved,
                             late : 0..MaxTransit, excused : BOOLEAN]]
  /\ form \in [Forms -> {"blank", "patched", "rotated"}]
  /\ booting \in BOOLEAN
  /\ started \in 0..saved
  /\ applied \in 0..saved
  /\ restarts \in 0..MaxRestarts

CacheInit ==
  /\ saved = 0
  /\ age = [v \in 1..MaxSaves |-> 0]
  /\ cache = [p \in Processes |-> Empty]
  /\ getter = [g \in Getters |-> Resting]
  /\ form = [f \in Forms |-> "blank"]
  /\ booting = TRUE
  /\ started = 0
  /\ applied = 0
  /\ restarts = 0

-----------------------------------------------------------------------------
(* getSystemSetting and getScrapingPolicy.                                  *)

\* A bug: one moment too long.
Valid_Inclusive(p) == cache[p].full /\ cache[p].at <= TTL

Valid(p) == cache[p].full /\ cache[p].at < TTL

\* The worker takes its id, log level, grace period and heartbeat interval from the
\* first setting it reads; the poll loop goes by the last for everything else.
Apply(g, v) ==
  /\ started' = IF g = Loop /\ booting THEN v ELSE started
  /\ applied' = IF g = Loop /\ ~booting THEN v ELSE applied
  /\ booting' = (booting /\ g # Loop)

\* A bug: each use renews the copy.
hit_Sliding(g) ==
  /\ getter[g].at = "idle" /\ Valid(Process(g))
  /\ Apply(g, cache[Process(g)].value)
  /\ cache' = [cache EXCEPT ![Process(g)].at = 0]
  /\ UNCHANGED <<saved, age, getter, form, restarts>>

hit(g) ==
  /\ getter[g].at = "idle" /\ Valid(Process(g))
  /\ Apply(g, cache[Process(g)].value)
  /\ UNCHANGED <<saved, age, cache, getter, form, restarts>>

ask(g) ==
  /\ getter[g].at = "idle" /\ ~Valid(Process(g))
  /\ getter' = [getter EXCEPT ![g] = [Resting EXCEPT !.at = "asked"]]
  /\ UNCHANGED <<saved, age, cache, form, workerVars, restarts>>

\* The database reads the row.
answer(g) ==
  /\ getter[g].at = "asked"
  /\ getter' = [getter EXCEPT ![g] =
                  [at |-> "answered", value |-> saved, late |-> 0,
                   excused |-> getter[g].excused]]
  /\ UNCHANGED <<saved, age, cache, form, workerVars, restarts>>

\* The answer arrives: the copy is as old as the arrival, not as the reading.
store(g) ==
  /\ getter[g].at = "answered"
  /\ cache' = [cache EXCEPT ![Process(g)] =
                 [full |-> TRUE, value |-> getter[g].value, at |-> 0,
                  excused |-> getter[g].excused]]
  /\ Apply(g, getter[g].value)
  /\ getter' = [getter EXCEPT ![g] = Resting]
  /\ UNCHANGED <<saved, age, form, restarts>>

-----------------------------------------------------------------------------
(* updateSystemSetting and updateScrapingPolicy.                            *)

Write ==
  /\ saved < MaxSaves
  /\ saved' = saved + 1
  /\ age' = [age EXCEPT ![saved + 1] = 0]
  /\ UNCHANGED <<cache, getter, workerVars, restarts>>

patch(f) ==
  form[f] = "blank" /\ form' = [form EXCEPT ![f] = "patched"] /\ Write

\* A new fallback proxy is written by a second query.
rotateProxy(f) ==
  form[f] = "patched" /\ form' = [form EXCEPT ![f] = "rotated"] /\ Write

\* A bug: the copy stays.
invalidateSettingsCache_Forgotten(f) ==
  /\ form[f] # "blank"
  /\ form' = [form EXCEPT ![f] = "blank"]
  /\ UNCHANGED <<saved, age, cache, getter, workerVars, restarts>>

\* Only the process of the form drops its copy.
invalidateSettingsCache(f) ==
  /\ form[f] # "blank"
  /\ form' = [form EXCEPT ![f] = "blank"]
  /\ cache' = [cache EXCEPT !["web"] = Empty]
  /\ getter' = [g \in Getters |->
                  IF g \in Renders /\ getter[g].at # "idle"
                    THEN [getter[g] EXCEPT !.excused = TRUE] ELSE getter[g]]
  /\ UNCHANGED <<saved, age, workerVars, restarts>>

\* The second query throws: what the first wrote stays, and so does the copy.
patchFails(f) ==
  /\ form[f] = "patched"
  /\ form' = [form EXCEPT ![f] = "blank"]
  /\ cache' = [cache EXCEPT !["web"].excused = cache["web"].full]
  /\ getter' = [g \in Getters |->
                  IF g \in Renders /\ getter[g].at # "idle"
                    THEN [getter[g] EXCEPT !.excused = TRUE] ELSE getter[g]]
  /\ UNCHANGED <<saved, age, workerVars, restarts>>

-----------------------------------------------------------------------------
(* Failures and time.                                                       *)

Restart == restarts < MaxRestarts /\ restarts' = restarts + 1

\* A query throws, or the process dies and starts again with no copy.
webRestarts ==
  /\ Restart
  /\ cache' = [cache EXCEPT !["web"] = Empty]
  /\ getter' = [g \in Getters |-> IF g \in Renders THEN Resting ELSE getter[g]]
  /\ form' = [f \in Forms |-> "blank"]
  /\ UNCHANGED <<saved, age, workerVars>>

workerRestarts ==
  /\ Restart
  /\ cache' = [cache EXCEPT !["worker"] = Empty]
  /\ getter' = [getter EXCEPT ![Loop] = Resting]
  /\ booting' = TRUE
  /\ UNCHANGED <<saved, age, form, started, applied>>

Older(n, bound) == IF n < bound THEN n + 1 ELSE n

\* No answer is on its way for more than MaxTransit ticks.
passTime ==
  /\ \A g \in Getters : getter[g].at = "answered" => getter[g].late < MaxTransit
  /\ age' = [v \in 1..MaxSaves |->
               IF v <= saved THEN Older(age[v], Old) ELSE 0]
  /\ cache' = [p \in Processes |->
                 IF cache[p].full THEN [cache[p] EXCEPT !.at = Older(@, TTL)]
                                  ELSE Empty]
  /\ getter' = [g \in Getters |->
                  IF getter[g].at = "answered" THEN [getter[g] EXCEPT !.late = @ + 1]
                                               ELSE getter[g]]
  /\ UNCHANGED <<saved, form, workerVars, restarts>>

-----------------------------------------------------------------------------
get(g) == hit(g) \/ ask(g) \/ answer(g) \/ store(g)

CacheNext ==
  \/ \E g \in Getters : get(g)
  \/ \E f \in Forms : patch(f) \/ rotateProxy(f) \/ patchFails(f)
                     \/ invalidateSettingsCache(f)
  \/ webRestarts
  \/ workerRestarts
  \/ passTime

\* The loop reads again and again, every answer arrives, and time goes on.
CacheFairness ==
  /\ WF_cacheVars(get(Loop))
  /\ \A g \in Renders : WF_cacheVars(store(g))
  /\ WF_cacheVars(passTime)

CacheSpec == CacheInit /\ [][CacheNext]_cacheVars
FairCacheSpec == CacheSpec /\ CacheFairness

-----------------------------------------------------------------------------
\* A copy that a getter may still return was replaced less than one TTL, and the
\* way of one answer, ago; in the worker too, whose copy no form drops.
StaleForOneTTL ==
  \A p \in Processes :
    LET v == cache[p].value IN Valid(p) /\ v < saved => age[v + 1] < Old

\* Once every form is done the web process holds no version from before a save
\* (getEffectiveSettings.ts: "so a config change from /config still applies
\* promptly"), except one that was on its way when the form dropped the copy, or
\* kept because a form failed between its two writes.
DoneFormIsShown ==
  /\ \A f \in Forms : form[f] = "blank"
  /\ cache["web"].full /\ cache["web"].value < saved
  => cache["web"].excused

\* What the poll loop reads anew each round reaches it without a restart (worker.ts:
\* "this is how a /config/system change applies without restarting the process");
\* what main() reads once reaches the process that starts after the save.
SaveReachesWorker ==
  \A v \in Versions :
    /\ saved = v ~> applied >= v
    /\ booting /\ getter[Loop].at = "idle" /\ saved = v ~> started >= v
=============================================================================

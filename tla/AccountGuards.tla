--------------------------- MODULE AccountGuards ---------------------------
(***************************************************************************)
(* What stands between a browser handler and LinkedIn: the advisory lock   *)
(* that withAccountLock takes on a connection of its own, and the daily    *)
(* budget charged under it before the navigation.                          *)
(*                                                                         *)
(* Handlers of all workers go through the same steps, one action each, and *)
(* interleave.  A worker may die at any step; its lock stays with the      *)
(* server until that notices.  The server may also drop the connection of  *)
(* a live handler, which goes on without the lock.  A deletion of the      *)
(* account takes its budget rows first and does not ask for the lock: the  *)
(* handlers at work make new ones.  One metric is modelled: profiles and   *)
(* search pages are charged in the same way.                               *)
(***************************************************************************)
EXTENDS Integers

CONSTANTS
  Handlers,   \* handler executions that may be under way at once
  Accounts,   \* LinkedInAccount ids
  MaxCap,     \* the highest cap the settings form accepts
  MaxDay,     \* bound: the last UTC day
  MaxErased,  \* bound: the charges of a day that deletions may take with their row
  None,
  Ghost       \* the database session of a worker that died

ASSUME GuardAssumption ==
  /\ MaxCap \in Nat \ {0}
  /\ MaxDay \in Nat \ {0}
  /\ MaxErased \in Nat
  /\ None \notin Handlers \cup Accounts \cup {Ghost}
  /\ Ghost \notin Handlers

VARIABLES
  at,       \* the step each handler is at
  of,       \* the account each handler works for
  owner,    \* pg_locks: whose session holds each account's lock
  cap,      \* ScrapingPolicy.maxProfilesPerDay
  read,     \* the cap a handler read in prepareAccountSession, until it charges
  paid,     \* the day whose budget a handler charged, until it visits
  budget,   \* the RateBudget rows, by account and day; cap 0: no row yet
  day,      \* the current UTC day
  deletion, \* how far a deletion of each account has come
  visits,   \* history: navigations with an account on a day
  erased,   \* history: charges that went with the rows a deletion removed
  dropped   \* history: accounts on which a live handler lost its connection

vars == <<at, of, owner, cap, read, paid, budget, day, deletion, visits, erased, dropped>>

Days == 1..MaxDay
Caps == 1..MaxCap

\* "fresh", "waiting": between charge and navigation, without and with a browser.
Inside == {"locked", "prepared", "fresh", "waiting", "visited", "closed"}
Unspent(h) == at[h] \in {"fresh", "waiting"}

\* The shape of the state; no budget row counts past the highest cap, which is
\* the WHERE of the upsert at work.
TypeOK ==
  /\ at \in [Handlers -> Inside \cup {"idle", "connected", "ending"}]
  /\ of \in [Handlers -> Accounts \cup {None}]
  /\ owner \in [Accounts -> Handlers \cup {None, Ghost}]
  /\ cap \in Caps
  /\ read \in [Handlers -> Caps \cup {0}]
  /\ paid \in [Handlers -> Days \cup {0}]
  /\ budget \in [Accounts -> [Days -> [consumed: 0..MaxCap, cap: 0..MaxCap]]]
  /\ day \in Days
  /\ deletion \in [Accounts -> {"none", "erased", "gone"}]
  /\ visits \in [Accounts -> [Days -> Nat]]
  /\ erased \in [Accounts -> [Days -> 0..MaxErased]]
  /\ dropped \subseteq Accounts

NoRow == [consumed |-> 0, cap |-> 0]

Init ==
  /\ at = [h \in Handlers |-> "idle"]
  /\ of = [h \in Handlers |-> None]
  /\ owner = [a \in Accounts |-> None]
  /\ cap \in Caps
  /\ read = [h \in Handlers |-> 0]
  /\ paid = [h \in Handlers |-> 0]
  /\ budget = [a \in Accounts |-> [d \in Days |-> NoRow]]
  /\ day = 1
  /\ deletion = [a \in Accounts |-> "none"]
  /\ visits = [a \in Accounts |-> [d \in Days |-> 0]]
  /\ erased = visits
  /\ dropped = {}

-----------------------------------------------------------------------------
(* withAccountLock around a handler's body.                                 *)

Goto(h, step) == at' = [at EXCEPT ![h] = step]
rows    == <<deletion, erased>>
account == <<owner, budget, visits, dropped, rows>>
clock   == <<cap, day>>
local   == <<of, read, paid>>

\* The cap read and the day charged are of no more use to the handler.
Spend(h) == /\ read' = [read EXCEPT ![h] = 0]
            /\ paid' = [paid EXCEPT ![h] = 0]

connect(h, a) ==
  /\ at[h] = "idle"
  /\ Goto(h, "connected")
  /\ of' = [of EXCEPT ![h] = a]
  /\ UNCHANGED <<account, clock, read, paid>>

\* Mutant: on a pooled connection the lock is granted to every live handler.
tryLock_Pooled(h) ==
  /\ at[h] = "connected"
  /\ \/ owner[of[h]] # Ghost /\ owner' = [owner EXCEPT ![of[h]] = h] /\ Goto(h, "locked")
     \/ owner[of[h]] = Ghost /\ Goto(h, "ending") /\ UNCHANGED owner
  /\ UNCHANGED <<budget, visits, dropped, rows, clock, local>>

\* pg_try_advisory_lock; a handler that does not get it is pushed back.
tryLock(h) ==
  /\ at[h] = "connected"
  /\ \/ owner[of[h]] = None /\ owner' = [owner EXCEPT ![of[h]] = h] /\ Goto(h, "locked")
     \/ owner[of[h]] # None /\ Goto(h, "ending") /\ UNCHANGED owner
  /\ UNCHANGED <<budget, visits, dropped, rows, clock, local>>

\* The account is read once and its row must be there; what follows goes by the
\* copy, and so a deletion does not stop it.
prepareAccountSession(h) ==
  /\ at[h] = "locked"
  /\ deletion[of[h]] # "gone"
  /\ Goto(h, "prepared")
  /\ read' = [read EXCEPT ![h] = cap]
  /\ UNCHANGED <<account, clock, of, paid>>

\* The body throws: no account, outside active hours, no session, a launch or a
\* page that fails.  Its browser is closed and the lock is the next to go.
throw(h) ==
  /\ at[h] \in {"locked", "prepared", "fresh", "waiting"}
  /\ Goto(h, "closed")
  /\ Spend(h)
  /\ UNCHANGED <<account, clock, of>>

\* Mutant: the upsert without its WHERE.
consumeRateBudget_NoLimit(h) ==
  LET a == of[h]  row == budget[a][day] IN
  /\ at[h] = "prepared"
  /\ Goto(h, "fresh")
  /\ budget' = [budget EXCEPT ![a][day] =
       [consumed |-> row.consumed + 1, cap |-> IF row.cap = 0 THEN read[h] ELSE row.cap]]
  /\ paid' = [paid EXCEPT ![h] = day]
  /\ read' = [read EXCEPT ![h] = 0]
  /\ UNCHANGED <<owner, visits, dropped, rows, clock, of>>

\* One upsert: the day's first charge makes the row with the cap just read, the
\* later ones count up to the cap of the row, and no row back is over quota.
consumeRateBudget(h) ==
  LET a == of[h]  row == budget[a][day] IN
  /\ at[h] = "prepared"
  /\ \/ /\ row.cap = 0 \/ row.consumed < row.cap
        /\ budget' = [budget EXCEPT ![a][day] =
             [consumed |-> row.consumed + 1,
              cap      |-> IF row.cap = 0 THEN read[h] ELSE row.cap]]
        /\ paid' = [paid EXCEPT ![h] = day]
        /\ Goto(h, "fresh")
     \/ /\ row.cap # 0 /\ row.consumed >= row.cap
        /\ Goto(h, "closed")
        /\ UNCHANGED <<budget, paid>>
  /\ read' = [read EXCEPT ![h] = 0]
  /\ UNCHANGED <<owner, visits, dropped, rows, clock, of>>

launchContextForAccount(h) ==
  /\ at[h] = "fresh"
  /\ Goto(h, "waiting")
  /\ UNCHANGED <<account, clock, local>>

\* The pacing delay is over: the navigation.
goto(h) ==
  /\ at[h] = "waiting"
  /\ Goto(h, "visited")
  /\ visits' = [visits EXCEPT ![of[h]][day] = @ + 1]
  /\ Spend(h)
  /\ UNCHANGED <<owner, budget, dropped, rows, clock, of>>

closeBrowser(h) ==
  /\ at[h] = "visited"
  /\ Goto(h, "closed")
  /\ UNCHANGED <<account, clock, local>>

\* A session gives up only a lock of its own.
Released(h) == [a \in Accounts |-> IF owner[a] = h THEN None ELSE owner[a]]

\* pg_advisory_unlock, whose query may fail.
unlock(h) ==
  /\ at[h] = "closed"
  /\ owner' \in {owner, Released(h)}
  /\ Goto(h, "ending")
  /\ UNCHANGED <<budget, visits, dropped, rows, clock, local>>

Reset(h) == /\ Goto(h, "idle")
            /\ of' = [of EXCEPT ![h] = None]
            /\ Spend(h)

\* Mutant: the connection goes back to a pool, with the lock if that is left.
end_Pooled(h) ==
  /\ at[h] = "ending"
  /\ Reset(h)
  /\ UNCHANGED <<account, clock>>

\* client.end: the session is over, and so is any lock it still has.
end(h) ==
  /\ at[h] = "ending"
  /\ owner' = Released(h)
  /\ Reset(h)
  /\ UNCHANGED <<budget, visits, dropped, rows, clock>>

-----------------------------------------------------------------------------
(* Crashes, the database server, the settings form, deletion and the clock. *)

\* The handler's worker dies, and its browser with it.
crash(h) ==
  /\ at[h] # "idle"
  /\ owner' = [a \in Accounts |-> IF owner[a] = h THEN Ghost ELSE owner[a]]
  /\ Reset(h)
  /\ UNCHANGED <<budget, visits, dropped, rows, clock>>

serverNotices(a) ==
  /\ owner[a] = Ghost
  /\ owner' = [owner EXCEPT ![a] = None]
  /\ UNCHANGED <<at, local, budget, visits, dropped, rows, clock>>

\* The server ends the session of a live handler, which nothing tells.
loseConnection(a) ==
  /\ owner[a] \in Handlers
  /\ owner' = [owner EXCEPT ![a] = None]
  /\ dropped' = dropped \cup {a}
  /\ UNCHANGED <<at, local, budget, visits, rows, clock>>

updateScrapingPolicy(c) ==
  /\ cap' = c
  /\ UNCHANGED <<at, local, account, day>>

nextDay ==
  /\ day < MaxDay
  /\ day' = day + 1
  /\ UNCHANGED <<at, local, account, cap>>

Recordable(a) == \A d \in Days : erased[a][d] + budget[a][d].consumed <= MaxErased

\* deleteAccount's second statement: every budget row of the account.  A deletion
\* that stops here leaves the account, another one may begin, and one that began
\* before the account went may still come.
deleteRateBudgets(a) ==
  /\ Recordable(a)
  /\ budget' = [budget EXCEPT ![a] = [d \in Days |-> NoRow]]
  /\ erased' = [erased EXCEPT ![a] =
       [d \in Days |-> erased[a][d] + budget[a][d].consumed]]
  /\ deletion' = [deletion EXCEPT ![a] = IF @ = "gone" THEN @ ELSE "erased"]
  /\ UNCHANGED <<at, local, owner, visits, dropped, clock>>

\* Its third: the account's own row.
removeAccount(a) ==
  /\ deletion[a] = "erased"
  /\ deletion' = [deletion EXCEPT ![a] = "gone"]
  /\ UNCHANGED <<at, local, owner, budget, visits, erased, dropped, clock>>

-----------------------------------------------------------------------------
Advance(h) ==
  \/ tryLock(h) \/ prepareAccountSession(h) \/ throw(h) \/ consumeRateBudget(h)
  \/ launchContextForAccount(h) \/ goto(h) \/ closeBrowser(h) \/ unlock(h) \/ end(h)

Next ==
  \/ \E h \in Handlers : Advance(h) \/ crash(h) \/ (\E a \in Accounts : connect(h, a))
  \/ \E a \in Accounts : \/ serverNotices(a) \/ loseConnection(a)
                         \/ deleteRateBudgets(a) \/ removeAccount(a)
  \/ (\E c \in Caps : updateScrapingPolicy(c)) \/ nextDay

Spec == Init /\ [][Next]_vars

\* Every await of a handler has a timeout, and TCP tells the server of a peer
\* that is gone.
Fairness == /\ \A h \in Handlers : WF_vars(Advance(h))
            /\ \A a \in Accounts : WF_vars(serverNotices(a))

FairSpec == Spec /\ Fairness

-----------------------------------------------------------------------------
(* Properties.                                                              *)

\* An account has at most one handler between lock and unlock, whatever crashes
\* and failed unlocks there were, as long as the server dropped no connection
\* under a live handler.
OneSessionPerAccount ==
  \A g, h \in Handlers :
    at[g] \in Inside /\ at[h] \in Inside /\ of[g] = of[h] /\ of[g] \notin dropped => g = h

\* Every behaviour of handlers, crashes and server is one AccountLock allows: who
\* comes in finds nobody inside, unless the account's lock was lost before.
Lock == INSTANCE AccountLock
  WITH inside <- [a \in Accounts |-> {h \in Handlers : at[h] \in Inside /\ of[h] = a}],
       broken <- dropped

ImplementsLock == Lock!Spec

\* On no day is an account used more often than its budget row allows, but for
\* one visit that was charged to the day before and waited out its delay, and for
\* the charges that went with the rows a deletion of the account removed: a
\* handler at work, or a deletion that stopped, starts the day anew.
QuotaHolds ==
  \A a \in Accounts \ dropped : \A d \in Days :
    visits[a][d] <= budget[a][d].cap + erased[a][d] + 1

\* No account stays locked: a lock outlives neither its handler nor a crash.
LockIsReleased ==
  \A a \in Accounts : \A h \in Handlers \cup {Ghost} : owner[a] = h ~> owner[a] # h
=============================================================================

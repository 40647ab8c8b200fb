------------------------ MODULE AccountGuardsProofs ------------------------
(***************************************************************************)
(* Proofs about AccountGuards, for every number of handlers and accounts,  *)
(* every cap and every number of days.  The inductive invariant ties the   *)
(* lock to the steps taken under it, and the lock to the budget: between a *)
(* charge and its navigation nobody else visits.  It speaks of the charges *)
(* made, not of the row that counts them, which a deletion may take away.  *)
(***************************************************************************)
EXTENDS AccountGuards, TLAPS

\* A handler inside withAccountLock has the lock, unless its connection is lost.
LockInv ==
  \A h \in Handlers : at[h] \in Inside =>
    /\ of[h] \in Accounts
    /\ of[h] \notin dropped => owner[of[h]] = h

\* A handler past connect has an account, and one about to charge has read a cap.
StepInv ==
  \A h \in Handlers : /\ at[h] # "idle" => of[h] \in Accounts
                      /\ at[h] = "prepared" => read[h] \in Caps

\* A budget row never counts beyond the cap it was made with.
CapInv ==
  \A a \in Accounts, d \in Days : budget[a][d].consumed <= budget[a][d].cap

\* The charges made for an account on a day, those of removed rows included.
Charged(a, d) == budget[a][d].consumed + erased[a][d]

\* At most one visit of a day was not charged to that day.
DayInv ==
  \A a \in Accounts \ dropped, d \in Days :
    /\ d > day => visits[a][d] = 0
    /\ visits[a][d] <= Charged(a, d) + 1

\* A charge not yet spent on a visit is one of today that no visit has used, or
\* one of an earlier day, and then nobody has visited today.
ChargeInv ==
  \A h \in Handlers : Unspent(h) /\ of[h] \notin dropped =>
    /\ paid[h] \in Days /\ paid[h] <= day
    /\ paid[h] < day => visits[of[h]][day] = 0
    /\ paid[h] = day => visits[of[h]][day] <= Charged(of[h], day)

GuardInv == TypeOK /\ LockInv /\ StepInv /\ CapInv /\ DayInv /\ ChargeInv

\* The initial states satisfy the invariant.
LEMMA GuardInit == Init => GuardInv
  BY GuardAssumption DEF Init, GuardInv, TypeOK, LockInv, StepInv, CapInv, DayInv, ChargeInv,
     Charged, NoRow, Inside, Unspent, Days, Caps

\* Two handlers inside on one account, its lock never dropped, are the same.
LEMMA LockExcludes ==
  ASSUME LockInv, NEW g \in Handlers, NEW h \in Handlers,
         at[g] \in Inside, at[h] \in Inside, of[g] = of[h], of[g] \notin dropped
  PROVE  g = h
  BY DEF LockInv

\* The lock: every step keeps it with the handlers that are inside.
LEMMA LockStep ==
  ASSUME TypeOK, LockInv, StepInv, [Next]_vars
  PROVE  LockInv'
<1> USE GuardAssumption DEF TypeOK, LockInv, StepInv, Inside, Goto, Reset, Spend, Released,
        account, rows, clock, local
<1>1. ASSUME NEW h \in Handlers, NEW a \in Accounts, connect(h, a) PROVE LockInv'
  BY <1>1 DEF connect
<1>2. ASSUME NEW h \in Handlers, tryLock(h) PROVE LockInv'
  BY <1>2 DEF tryLock
<1>3. ASSUME NEW h \in Handlers, prepareAccountSession(h) PROVE LockInv'
  BY <1>3 DEF prepareAccountSession
<1>4. ASSUME NEW h \in Handlers, throw(h) PROVE LockInv'
  BY <1>4 DEF throw
<1>5. ASSUME NEW h \in Handlers, consumeRateBudget(h) PROVE LockInv'
  BY <1>5 DEF consumeRateBudget
<1>6. ASSUME NEW h \in Handlers, launchContextForAccount(h) PROVE LockInv'
  BY <1>6 DEF launchContextForAccount
<1>7. ASSUME NEW h \in Handlers, goto(h) PROVE LockInv'
  BY <1>7 DEF goto
<1>8. ASSUME NEW h \in Handlers, closeBrowser(h) PROVE LockInv'
  BY <1>8 DEF closeBrowser
<1>9. ASSUME NEW h \in Handlers, unlock(h) PROVE LockInv'
  BY <1>9 DEF unlock
<1>10. ASSUME NEW h \in Handlers, end(h) PROVE LockInv'
  BY <1>10 DEF end
<1>11. ASSUME NEW h \in Handlers, crash(h) PROVE LockInv'
  BY <1>11 DEF crash
<1>12. ASSUME NEW a \in Accounts, serverNotices(a) PROVE LockInv'
  BY <1>12 DEF serverNotices
<1>13. ASSUME NEW a \in Accounts, loseConnection(a) PROVE LockInv'
  BY <1>13 DEF loseConnection
<1>14. CASE (\E c \in Caps : updateScrapingPolicy(c)) \/ nextDay
  BY <1>14 DEF updateScrapingPolicy, nextDay
<1>15. CASE UNCHANGED vars
  BY <1>15 DEF vars
<1>16. ASSUME NEW a \in Accounts, deleteRateBudgets(a) PROVE LockInv'
  BY <1>16 DEF deleteRateBudgets
<1>17. ASSUME NEW a \in Accounts, removeAccount(a) PROVE LockInv'
  BY <1>17 DEF removeAccount
<1> QED
  BY <1>1, <1>2, <1>3, <1>4, <1>5, <1>6, <1>7, <1>8, <1>9, <1>10, <1>11, <1>12, <1>13,
     <1>14, <1>15, <1>16, <1>17 DEF Next, Advance
\* A navigation adds one visit on its account and the current day.
LEMMA VisitValue ==
  ASSUME TypeOK, StepInv, NEW h \in Handlers, goto(h)
  PROVE  /\ of[h] \in Accounts
         /\ visits' \in [Accounts -> [Days -> Nat]]
         /\ \A a \in Accounts, d \in Days :
              visits'[a][d] = IF a = of[h] /\ d = day THEN visits[a][d] + 1 ELSE visits[a][d]
<1>1. of[h] \in Accounts
  BY DEF goto, StepInv
<1>2. visits' = [visits EXCEPT ![of[h]] = [visits[of[h]] EXCEPT ![day] = visits[of[h]][day] + 1]]
  BY DEF goto
<1>3. [visits[of[h]] EXCEPT ![day] = visits[of[h]][day] + 1] \in [Days -> Nat]
  BY <1>1 DEF TypeOK
<1>4. visits' \in [Accounts -> [Days -> Nat]]
  BY <1>1, <1>2, <1>3 DEF TypeOK
<1> QED
  BY <1>1, <1>2, <1>4 DEF TypeOK

\* A charge leaves the handler with a charge of today to spend and counts one
\* more in the row of its account and day, which stays within its cap.
LEMMA ChargeValue ==
  ASSUME TypeOK, StepInv, CapInv, NEW h \in Handlers, consumeRateBudget(h), at'[h] # "closed"
  PROVE  /\ of[h] \in Accounts
         /\ at' = [at EXCEPT ![h] = "fresh"] /\ paid' = [paid EXCEPT ![h] = day]
         /\ budget' \in [Accounts -> [Days -> [consumed: 0..MaxCap, cap: 0..MaxCap]]]
         /\ CapInv'
         /\ \A a \in Accounts, d \in Days :
              budget'[a][d].consumed = IF a = of[h] /\ d = day
                                       THEN budget[a][d].consumed + 1
                                       ELSE budget[a][d].consumed
<1>1. of[h] \in Accounts /\ read[h] \in Caps /\ day \in Days
  BY DEF consumeRateBudget, StepInv, TypeOK
<1> DEFINE Rows == [consumed: 0..MaxCap, cap: 0..MaxCap]
<1>2. PICK r \in Rows : r = budget[of[h]][day]
  BY <1>1 DEF TypeOK
<1>3. r.consumed <= r.cap
  BY <1>1, <1>2 DEF CapInv
<1> DEFINE new == [consumed |-> r.consumed + 1, cap |-> IF r.cap = 0 THEN read[h] ELSE r.cap]
<1>4. /\ r.cap = 0 \/ r.consumed < r.cap
      /\ budget' = [budget EXCEPT ![of[h]] = [budget[of[h]] EXCEPT ![day] = new]]
      /\ paid' = [paid EXCEPT ![h] = day]
      /\ at' = [at EXCEPT ![h] = "fresh"]
  BY <1>2 DEF consumeRateBudget, Goto, TypeOK
<1>5. new \in Rows /\ new.consumed <= new.cap
  BY <1>1, <1>3, <1>4, GuardAssumption DEF Caps
<1>6. new.consumed = r.consumed + 1
  OBVIOUS
<1> HIDE DEF new
<1>7. budget \in [Accounts -> [Days -> Rows]]
  BY DEF TypeOK
<1>8. [budget[of[h]] EXCEPT ![day] = new] \in [Days -> Rows]
  BY <1>1, <1>5, <1>7
<1>9. budget' \in [Accounts -> [Days -> Rows]]
  BY <1>4, <1>7, <1>8
<1>10. \A a \in Accounts, d \in Days :
         budget'[a][d] = IF a = of[h] /\ d = day THEN new ELSE budget[a][d]
  BY <1>1, <1>4, <1>7, <1>8
<1>11. CapInv'
  BY <1>5, <1>10 DEF CapInv, Days
<1>12. \A a \in Accounts, d \in Days :
         budget'[a][d].consumed = IF a = of[h] /\ d = day
                                  THEN budget[a][d].consumed + 1
                                  ELSE budget[a][d].consumed
  BY <1>2, <1>6, <1>10
<1> QED
  BY <1>1, <1>4, <1>9, <1>11, <1>12

\* What is counted by account and day is a number.
LEMMA Numbers ==
  ASSUME TypeOK
  PROVE  /\ day \in Int
         /\ \A a \in Accounts, d \in Days :
              /\ d \in Int /\ visits[a][d] \in Nat /\ budget[a][d].consumed \in Nat
              /\ erased[a][d] \in Nat /\ Charged(a, d) \in Nat
  BY GuardAssumption DEF TypeOK, Days, Charged

\* A deletion moves the charges of a row to the erased ones: there is no row left
\* over its cap, and no charge is forgotten.
LEMMA EraseValue ==
  ASSUME TypeOK, NEW a \in Accounts, deleteRateBudgets(a)
  PROVE  /\ budget' \in [Accounts -> [Days -> [consumed: 0..MaxCap, cap: 0..MaxCap]]]
         /\ erased' \in [Accounts -> [Days -> 0..MaxErased]]
         /\ deletion' \in [Accounts -> {"none", "erased", "gone"}]
         /\ \A b \in Accounts, d \in Days :
              /\ b # a => budget'[b][d] = budget[b][d] /\ erased'[b][d] = erased[b][d]
              /\ b = a => budget'[b][d].consumed = 0 /\ budget'[b][d].cap = 0
              /\ Charged(b, d)' = Charged(b, d)
<1> DEFINE none == [d \in Days |-> NoRow]
           lost == [d \in Days |-> erased[a][d] + budget[a][d].consumed]
<1>1. budget' = [budget EXCEPT ![a] = none] /\ erased' = [erased EXCEPT ![a] = lost]
  BY DEF deleteRateBudgets
<1>2. none \in [Days -> [consumed: 0..MaxCap, cap: 0..MaxCap]]
  BY GuardAssumption DEF NoRow
<1>3. lost \in [Days -> 0..MaxErased]
  <2>1. \A d \in Days : /\ erased[a][d] + budget[a][d].consumed <= MaxErased
                        /\ erased[a][d] \in Nat /\ budget[a][d].consumed \in Nat
    BY Numbers DEF deleteRateBudgets, Recordable
  <2> QED
    BY <2>1, GuardAssumption
<1>4. \A d \in Days : none[d].consumed = 0 /\ none[d].cap = 0
  BY DEF NoRow
<1>5. \A d \in Days : lost[d] = erased[a][d] + budget[a][d].consumed
  OBVIOUS
<1> HIDE DEF none, lost
<1>6. \A b \in Accounts, d \in Days :
        /\ b # a => budget'[b][d] = budget[b][d] /\ erased'[b][d] = erased[b][d]
        /\ b = a => budget'[b][d] = none[d] /\ erased'[b][d] = lost[d]
  BY <1>1 DEF TypeOK
<1>7. \A b \in Accounts, d \in Days : Charged(b, d)' = Charged(b, d)
  <2> SUFFICES ASSUME NEW b \in Accounts, NEW d \in Days
               PROVE  Charged(b, d)' = Charged(b, d)
    OBVIOUS
  <2>1. CASE b = a
    BY <1>4, <1>5, <1>6, <2>1, Numbers DEF Charged
  <2>2. CASE b # a
    BY <1>6, <2>2 DEF Charged
  <2> QED
    BY <2>1, <2>2
<1>8. deletion' \in [Accounts -> {"none", "erased", "gone"}]
  BY DEF deleteRateBudgets, TypeOK
<1> QED
  BY <1>1, <1>2, <1>3, <1>4, <1>6, <1>7, <1>8 DEF TypeOK

\* Every step keeps the types, the handlers' accounts and the rows below their caps.
LEMMA TypeStep ==
  ASSUME TypeOK, StepInv, CapInv, [Next]_vars
  PROVE  (TypeOK /\ StepInv /\ CapInv)'
<1> USE GuardAssumption DEF TypeOK, StepInv, CapInv, Inside, Goto, Reset, Spend, Released,
        account, rows, clock, local, Days, Caps
<1>1. ASSUME NEW h \in Handlers, NEW a \in Accounts, connect(h, a) PROVE (TypeOK /\ StepInv /\ CapInv)'
  BY <1>1 DEF connect
<1>2. ASSUME NEW h \in Handlers, tryLock(h) PROVE (TypeOK /\ StepInv /\ CapInv)'
  <2>1. of[h] \in Accounts
    BY <1>2 DEF tryLock
  <2>2. at' \in [Handlers -> Inside \cup {"idle", "connected", "ending"}]
    BY <1>2 DEF tryLock
  <2>3. owner' \in [Accounts -> Handlers \cup {None, Ghost}]
    <3>1. owner' = owner \/ owner' = [owner EXCEPT ![of[h]] = h]
      BY <1>2 DEF tryLock
    <3>2. owner \in [Accounts -> Handlers \cup {None, Ghost}]
      OBVIOUS
    <3> QED
      BY ONLY <2>1, <3>1, <3>2
  <2>4. UNCHANGED <<of, cap, read, paid, budget, day, visits, dropped, rows>>
    BY <1>2 DEF tryLock
  <2>5. StepInv'
    BY <1>2 DEF tryLock
  <2> QED
    BY <2>2, <2>3, <2>4, <2>5
<1>3. ASSUME NEW h \in Handlers, prepareAccountSession(h) PROVE (TypeOK /\ StepInv /\ CapInv)'
  BY <1>3 DEF prepareAccountSession
<1>4. ASSUME NEW h \in Handlers, throw(h) PROVE (TypeOK /\ StepInv /\ CapInv)'
  BY <1>4 DEF throw
<1>5. ASSUME NEW h \in Handlers, consumeRateBudget(h) PROVE (TypeOK /\ StepInv /\ CapInv)'
  <2>1. CASE at'[h] = "closed"
    BY <1>5, <2>1 DEF consumeRateBudget
  <2>2. CASE at'[h] # "closed"
    <3>1. /\ at' = [at EXCEPT ![h] = "fresh"] /\ paid' = [paid EXCEPT ![h] = day]
          /\ budget' \in [Accounts -> [Days -> [consumed: 0..MaxCap, cap: 0..MaxCap]]]
          /\ CapInv' /\ of[h] \in Accounts
      BY ONLY <1>5, <2>2, ChargeValue, TypeOK, StepInv, CapInv
    <3>2. /\ UNCHANGED <<of, owner, cap, day, visits, dropped, rows>>
          /\ read' = [read EXCEPT ![h] = 0]
      BY <1>5 DEF consumeRateBudget
    <3> QED
      BY <3>1, <3>2
  <2> QED
    BY <2>1, <2>2
<1>6. ASSUME NEW h \in Handlers, launchContextForAccount(h) PROVE (TypeOK /\ StepInv /\ CapInv)'
  BY <1>6 DEF launchContextForAccount
<1>7. ASSUME NEW h \in Handlers, goto(h) PROVE (TypeOK /\ StepInv /\ CapInv)'
  <2>1. visits' \in [Accounts -> [Days -> Nat]]
    BY ONLY <1>7, VisitValue, TypeOK, StepInv
  <2> QED
    BY <1>7, <2>1 DEF goto
<1>8. ASSUME NEW h \in Handlers, closeBrowser(h) PROVE (TypeOK /\ StepInv /\ CapInv)'
  BY <1>8 DEF closeBrowser
<1>9. ASSUME NEW h \in Handlers, unlock(h) PROVE (TypeOK /\ StepInv /\ CapInv)'
  BY <1>9 DEF unlock
<1>10. ASSUME NEW h \in Handlers, end(h) PROVE (TypeOK /\ StepInv /\ CapInv)'
  BY <1>10 DEF end
<1>11. ASSUME NEW h \in Handlers, crash(h) PROVE (TypeOK /\ StepInv /\ CapInv)'
  BY <1>11 DEF crash
<1>12. ASSUME NEW a \in Accounts, serverNotices(a) PROVE (TypeOK /\ StepInv /\ CapInv)'
  BY <1>12 DEF serverNotices
<1>13. ASSUME NEW a \in Accounts, loseConnection(a) PROVE (TypeOK /\ StepInv /\ CapInv)'
  BY <1>13 DEF loseConnection
<1>14. CASE (\E c \in Caps : updateScrapingPolicy(c)) \/ nextDay
  <2>1. ASSUME NEW c \in Caps, updateScrapingPolicy(c) PROVE (TypeOK /\ StepInv /\ CapInv)'
    BY <2>1 DEF updateScrapingPolicy
  <2>2. CASE nextDay
    <3>1. day' \in Days
      BY <2>2 DEF nextDay
    <3>2. UNCHANGED <<at, of, owner, cap, read, paid, budget, deletion, visits, erased, dropped>>
      BY <2>2 DEF nextDay
    <3> QED
      BY ONLY <3>1, <3>2, TypeOK, StepInv, CapInv DEF TypeOK, StepInv, CapInv
  <2> QED
    BY <1>14, <2>1, <2>2
<1>15. CASE UNCHANGED vars
  BY <1>15 DEF vars
<1>16. ASSUME NEW a \in Accounts, deleteRateBudgets(a) PROVE (TypeOK /\ StepInv /\ CapInv)'
  <2>1. /\ budget' \in [Accounts -> [Days -> [consumed: 0..MaxCap, cap: 0..MaxCap]]]
        /\ erased' \in [Accounts -> [Days -> 0..MaxErased]]
        /\ deletion' \in [Accounts -> {"none", "erased", "gone"}]
        /\ \A b \in Accounts, d \in Days :
             /\ b # a => budget'[b][d] = budget[b][d]
             /\ b = a => budget'[b][d].consumed = 0 /\ budget'[b][d].cap = 0
    BY ONLY <1>16, EraseValue, TypeOK
  <2>2. UNCHANGED <<at, of, owner, cap, read, paid, day, visits, dropped>>
    BY <1>16 DEF deleteRateBudgets
  <2>3. TypeOK' /\ StepInv'
    BY <2>1, <2>2
  <2>4. CapInv'
    <3>1. ASSUME NEW b \in Accounts, NEW d \in Days
          PROVE  budget'[b][d].consumed <= budget'[b][d].cap
      <4>1. CASE b = a
        BY ONLY <2>1, <4>1
      <4>2. CASE b # a
        BY ONLY <2>1, <4>2, CapInv DEF CapInv
      <4> QED
        BY ONLY <4>1, <4>2
    <3> QED
      BY ONLY <3>1 DEF CapInv
  <2> QED
    BY <2>3, <2>4
<1>17. ASSUME NEW a \in Accounts, removeAccount(a) PROVE (TypeOK /\ StepInv /\ CapInv)'
  BY <1>17 DEF removeAccount
<1> QED
  BY <1>1, <1>2, <1>3, <1>4, <1>5, <1>6, <1>7, <1>8, <1>9, <1>10, <1>11, <1>12, <1>13,
     <1>14, <1>15, <1>16, <1>17 DEF Next, Advance

\* Every step keeps the visits of a day within its charges but for one.
LEMMA DayStep ==
  ASSUME TypeOK, LockInv, StepInv, CapInv, DayInv, ChargeInv, [Next]_vars
  PROVE  DayInv'
<1> USE GuardAssumption DEF TypeOK, LockInv, StepInv, DayInv, ChargeInv, Charged, Inside, Unspent,
        Goto, Reset, Spend, Released, account, rows, clock, local, Days
<1>1. ASSUME NEW h \in Handlers, NEW a \in Accounts, connect(h, a) PROVE DayInv'
  BY <1>1 DEF connect
<1>2. ASSUME NEW h \in Handlers, tryLock(h) PROVE DayInv'
  BY <1>2 DEF tryLock
<1>3. ASSUME NEW h \in Handlers, prepareAccountSession(h) PROVE DayInv'
  BY <1>3 DEF prepareAccountSession
<1>4. ASSUME NEW h \in Handlers, throw(h) PROVE DayInv'
  BY <1>4 DEF throw
<1>5. ASSUME NEW h \in Handlers, consumeRateBudget(h) PROVE DayInv'
  <2>1. CASE at'[h] = "closed"
    BY <1>5, <2>1 DEF consumeRateBudget
  <2>2. CASE at'[h] # "closed"
    <3>1. \A a \in Accounts, d \in Days :
            budget'[a][d].consumed = IF a = of[h] /\ d = day
                                     THEN budget[a][d].consumed + 1
                                     ELSE budget[a][d].consumed
      BY ONLY <1>5, <2>2, ChargeValue, TypeOK, StepInv, CapInv
    <3>2. UNCHANGED <<day, visits, dropped, erased>>
      BY <1>5 DEF consumeRateBudget
    <3>3. ASSUME NEW a \in Accounts \ dropped, NEW d \in Days
          PROVE  /\ d > day => visits[a][d] = 0
                 /\ visits[a][d] <= Charged(a, d)' + 1
      <4>1. /\ budget[a][d].consumed \in Nat /\ erased[a][d] \in Nat
            /\ visits[a][d] \in Nat /\ a \in Accounts
        BY ONLY <3>3, Numbers, TypeOK
      <4>2. /\ d > day => visits[a][d] = 0
            /\ visits[a][d] <= Charged(a, d) + 1
        BY ONLY <3>3, DayInv DEF DayInv
      <4>3. \/ budget'[a][d].consumed = budget[a][d].consumed
            \/ budget'[a][d].consumed = budget[a][d].consumed + 1
        BY ONLY <3>1, <4>1, <3>3
      <4> QED
        BY ONLY <3>2, <4>1, <4>2, <4>3 DEF Charged
    <3> QED
      BY ONLY <3>2, <3>3 DEF DayInv
  <2> QED
    BY <2>1, <2>2
<1>6. ASSUME NEW h \in Handlers, launchContextForAccount(h) PROVE DayInv'
  BY <1>6 DEF launchContextForAccount
<1>7. ASSUME NEW h \in Handlers, goto(h) PROVE DayInv'
  <2>1. /\ of[h] \in Accounts
        /\ \A a \in Accounts, d \in Days :
             visits'[a][d] = IF a = of[h] /\ d = day THEN visits[a][d] + 1 ELSE visits[a][d]
    BY ONLY <1>7, VisitValue, TypeOK, StepInv
  <2>2. UNCHANGED <<day, budget, erased, dropped>> /\ Unspent(h) /\ day \in Days
    BY <1>7 DEF goto
  <2>3. /\ Charged(of[h], day) \in Nat /\ visits[of[h]][day] \in Nat
        /\ day \in Int /\ paid[h] \in Int
    <3>1. paid[h] \in Int
      BY <2>1 DEF Days
    <3> QED
      BY ONLY <2>1, <2>2, <3>1, Numbers, TypeOK
  <2>4. ASSUME of[h] \notin dropped PROVE visits[of[h]][day] <= Charged(of[h], day)
    <3>1. /\ paid[h] <= day
          /\ paid[h] < day => visits[of[h]][day] = 0
          /\ paid[h] = day => visits[of[h]][day] <= Charged(of[h], day)
      BY ONLY <2>2, <2>4, ChargeInv DEF ChargeInv
    <3> QED
      BY ONLY <2>3, <3>1
  <2>5. ASSUME NEW a \in Accounts \ dropped, NEW d \in Days
        PROVE  /\ d > day => visits'[a][d] = 0
               /\ visits'[a][d] <= Charged(a, d) + 1
    <3>1. CASE a = of[h] /\ d = day
      <4>1. visits'[a][d] = visits[of[h]][day] + 1
        BY ONLY <2>1, <2>2, <3>1
      <4> QED
        BY ONLY <2>3, <2>4, <2>5, <3>1, <4>1
    <3>2. CASE ~(a = of[h] /\ d = day)
      BY ONLY <2>1, <2>5, <3>2, DayInv DEF DayInv
    <3> QED
      BY <3>1, <3>2
  <2> QED
    BY ONLY <2>2, <2>5 DEF DayInv, Charged
<1>8. ASSUME NEW h \in Handlers, closeBrowser(h) PROVE DayInv'
  BY <1>8 DEF closeBrowser
<1>9. ASSUME NEW h \in Handlers, unlock(h) PROVE DayInv'
  BY <1>9 DEF unlock
<1>10. ASSUME NEW h \in Handlers, end(h) PROVE DayInv'
  BY <1>10 DEF end
<1>11. ASSUME NEW h \in Handlers, crash(h) PROVE DayInv'
  BY <1>11 DEF crash
<1>12. ASSUME NEW a \in Accounts, serverNotices(a) PROVE DayInv'
  BY <1>12 DEF serverNotices
<1>13. ASSUME NEW a \in Accounts, loseConnection(a) PROVE DayInv'
  BY <1>13 DEF loseConnection
<1>14. CASE (\E c \in Caps : updateScrapingPolicy(c)) \/ nextDay
  <2>1. ASSUME NEW c \in Caps, updateScrapingPolicy(c) PROVE DayInv'
    BY <2>1 DEF updateScrapingPolicy
  <2>2. CASE nextDay
    BY <2>2 DEF nextDay
  <2> QED
    BY <1>14, <2>1, <2>2
<1>15. CASE UNCHANGED vars
  BY <1>15 DEF vars
<1>16. ASSUME NEW a \in Accounts, deleteRateBudgets(a) PROVE DayInv'
  <2>1. \A b \in Accounts, d \in Days : Charged(b, d)' = Charged(b, d)
    BY ONLY <1>16, EraseValue, TypeOK
  <2>2. UNCHANGED <<day, visits, dropped>>
    BY <1>16 DEF deleteRateBudgets
  <2> QED
    BY ONLY <2>1, <2>2, DayInv DEF DayInv
<1>17. ASSUME NEW a \in Accounts, removeAccount(a) PROVE DayInv'
  BY <1>17 DEF removeAccount
<1> QED
  BY <1>1, <1>2, <1>3, <1>4, <1>5, <1>6, <1>7, <1>8, <1>9, <1>10, <1>11, <1>12, <1>13,
     <1>14, <1>15, <1>16, <1>17 DEF Next, Advance

\* Every step keeps unspent charges covered.
LEMMA ChargeStep ==
  ASSUME TypeOK, LockInv, StepInv, CapInv, DayInv, ChargeInv, [Next]_vars
  PROVE  ChargeInv'
<1> USE GuardAssumption DEF TypeOK, LockInv, StepInv, DayInv, ChargeInv, Charged, Inside, Unspent,
        Goto, Reset, Spend, Released, account, rows, clock, local, Days
<1>1. ASSUME NEW h \in Handlers, NEW a \in Accounts, connect(h, a) PROVE ChargeInv'
  BY <1>1 DEF connect
<1>2. ASSUME NEW h \in Handlers, tryLock(h) PROVE ChargeInv'
  BY <1>2 DEF tryLock
<1>3. ASSUME NEW h \in Handlers, prepareAccountSession(h) PROVE ChargeInv'
  BY <1>3 DEF prepareAccountSession
<1>4. ASSUME NEW h \in Handlers, throw(h) PROVE ChargeInv'
  BY <1>4 DEF throw
<1>5. ASSUME NEW h \in Handlers, consumeRateBudget(h) PROVE ChargeInv'
  <2>1. CASE at'[h] = "closed"
    BY <1>5, <2>1 DEF consumeRateBudget
  <2>2. CASE at'[h] # "closed"
    <3>1. /\ at' = [at EXCEPT ![h] = "fresh"] /\ paid' = [paid EXCEPT ![h] = day]
          /\ of[h] \in Accounts
          /\ \A a \in Accounts, d \in Days :
               budget'[a][d].consumed = IF a = of[h] /\ d = day
                                        THEN budget[a][d].consumed + 1
                                        ELSE budget[a][d].consumed
      BY ONLY <1>5, <2>2, ChargeValue, TypeOK, StepInv, CapInv
    <3>2. UNCHANGED <<of, day, visits, erased, dropped>> /\ day \in Days /\ at[h] = "prepared"
      BY <1>5 DEF consumeRateBudget
    <3>3. ASSUME NEW g \in Handlers, Unspent(g)', of[g] \notin dropped
          PROVE  /\ paid'[g] \in Days /\ paid'[g] <= day
                 /\ paid'[g] < day => visits[of[g]][day] = 0
                 /\ paid'[g] = day => visits[of[g]][day] <= Charged(of[g], day)'
      <4>1. CASE g = h
        <5>1. paid'[g] = day /\ of[g] \in Accounts
          BY <3>1, <4>1
        <5>2. budget'[of[g]][day].consumed = budget[of[g]][day].consumed + 1
          BY ONLY <3>1, <3>2, <4>1, <5>1
        <5>3. visits[of[g]][day] <= Charged(of[g], day) + 1
          BY ONLY <3>2, <3>3, <5>1, DayInv DEF DayInv
        <5>4. /\ day \in Int /\ visits[of[g]][day] \in Nat
              /\ budget[of[g]][day].consumed \in Nat /\ erased[of[g]][day] \in Nat
          BY ONLY <3>2, <5>1, Numbers, TypeOK
        <5> QED
          BY ONLY <3>2, <5>1, <5>2, <5>3, <5>4 DEF Charged
      <4>2. CASE g # h
        <5>1. Unspent(g) /\ paid'[g] = paid[g] /\ of[g] \in Accounts /\ of[g] # of[h]
          BY <3>1, <3>2, <3>3, <4>2
        <5> QED
          BY ONLY <3>1, <3>2, <3>3, <5>1, ChargeInv DEF ChargeInv, Charged
      <4> QED
        BY <4>1, <4>2
    <3> QED
      BY ONLY <3>2, <3>3 DEF ChargeInv
  <2> QED
    BY <2>1, <2>2
<1>6. ASSUME NEW h \in Handlers, launchContextForAccount(h) PROVE ChargeInv'
  BY <1>6 DEF launchContextForAccount
<1>7. ASSUME NEW h \in Handlers, goto(h) PROVE ChargeInv'
  <2>1. /\ of[h] \in Accounts
        /\ \A a \in Accounts, d \in Days :
             visits'[a][d] = IF a = of[h] /\ d = day THEN visits[a][d] + 1 ELSE visits[a][d]
    BY ONLY <1>7, VisitValue, TypeOK, StepInv
  <2>2. /\ UNCHANGED <<day, budget, erased, dropped, of>> /\ day \in Days
        /\ paid' = [paid EXCEPT ![h] = 0]
        /\ at' = [at EXCEPT ![h] = "visited"] /\ at[h] = "waiting"
    BY <1>7 DEF goto
  <2>3. ASSUME NEW g \in Handlers, Unspent(g)', of[g] \notin dropped
        PROVE  Unspent(g) /\ of[g] \in Accounts /\ of[g] # of[h] /\ paid'[g] = paid[g]
    BY <2>2, <2>3
  <2> QED
    BY ONLY <2>1, <2>2, <2>3, ChargeInv DEF ChargeInv, Charged
<1>8. ASSUME NEW h \in Handlers, closeBrowser(h) PROVE ChargeInv'
  BY <1>8 DEF closeBrowser
<1>9. ASSUME NEW h \in Handlers, unlock(h) PROVE ChargeInv'
  BY <1>9 DEF unlock
<1>10. ASSUME NEW h \in Handlers, end(h) PROVE ChargeInv'
  BY <1>10 DEF end
<1>11. ASSUME NEW h \in Handlers, crash(h) PROVE ChargeInv'
  BY <1>11 DEF crash
<1>12. ASSUME NEW a \in Accounts, serverNotices(a) PROVE ChargeInv'
  BY <1>12 DEF serverNotices
<1>13. ASSUME NEW a \in Accounts, loseConnection(a) PROVE ChargeInv'
  BY <1>13 DEF loseConnection
<1>14. CASE (\E c \in Caps : updateScrapingPolicy(c)) \/ nextDay
  <2>1. CASE \E c \in Caps : updateScrapingPolicy(c)
    <3>1. UNCHANGED <<at, of, paid, budget, erased, day, visits, dropped>>
      BY <2>1 DEF updateScrapingPolicy
    <3> QED
      BY ONLY <3>1, ChargeInv DEF ChargeInv, Unspent, Charged
  <2>2. CASE nextDay
    <3>1. /\ UNCHANGED <<at, of, owner, read, paid, budget, visits, erased, dropped>>
          /\ day' = day + 1 /\ day' \in Days /\ day \in Days
      BY <2>2 DEF nextDay
    <3>2. ASSUME NEW g \in Handlers, Unspent(g), of[g] \notin dropped
          PROVE  /\ paid[g] \in Days /\ paid[g] <= day /\ paid[g] # day'
                 /\ visits[of[g]][day'] = 0
      <4>1. of[g] \in Accounts \ dropped
        BY <3>2
      <4>2. /\ paid[g] \in Days /\ paid[g] <= day
            /\ visits[of[g]][day'] = 0
        <5>1. day' > day
          BY ONLY <3>1 DEF Days
        <5> QED
          BY ONLY <3>1, <3>2, <4>1, <5>1, DayInv, ChargeInv DEF DayInv, ChargeInv
      <4> QED
        BY ONLY <3>1, <4>2, Numbers, TypeOK
    <3>3. day \in Int /\ day' \in Int
      BY ONLY <3>1 DEF Days
    <3>4. \A g \in Handlers : paid[g] \in Days => paid[g] \in Int
      BY DEF Days
    <3> QED
      BY ONLY <3>1, <3>2, <3>3, <3>4 DEF ChargeInv, Unspent
  <2> QED
    BY <1>14, <2>1, <2>2
<1>15. CASE UNCHANGED vars
  BY <1>15 DEF vars
<1>16. ASSUME NEW a \in Accounts, deleteRateBudgets(a) PROVE ChargeInv'
  <2>1. \A b \in Accounts, d \in Days : Charged(b, d)' = Charged(b, d)
    BY ONLY <1>16, EraseValue, TypeOK
  <2>2. UNCHANGED <<at, of, paid, day, visits, dropped>> /\ day \in Days
    BY <1>16 DEF deleteRateBudgets
  <2>3. \A h \in Handlers : Unspent(h) => of[h] \in Accounts
    OBVIOUS
  <2> QED
    BY ONLY <2>1, <2>2, <2>3, ChargeInv DEF ChargeInv, Unspent
<1>17. ASSUME NEW a \in Accounts, removeAccount(a) PROVE ChargeInv'
  BY <1>17 DEF removeAccount
<1> QED
  BY <1>1, <1>2, <1>3, <1>4, <1>5, <1>6, <1>7, <1>8, <1>9, <1>10, <1>11, <1>12, <1>13,
     <1>14, <1>15, <1>16, <1>17 DEF Next, Advance

-----------------------------------------------------------------------------
\* Every step keeps the invariant.
LEMMA GuardStep == GuardInv /\ [Next]_vars => GuardInv'
  BY LockStep, TypeStep, DayStep, ChargeStep DEF GuardInv

\* The invariant holds in every reachable state.
THEOREM GuardsInvariant == Spec => []GuardInv
  BY GuardInit, GuardStep, PTL DEF Spec

\* Every variable keeps its type: no budget row counts beyond the largest cap.
THEOREM GuardsTypeOK == Spec => []TypeOK
<1>1. GuardInv => TypeOK
  BY DEF GuardInv
<1> QED
  BY <1>1, GuardsInvariant, PTL

\* An account has at most one handler inside withAccountLock.
THEOREM GuardsOneSessionPerAccount == Spec => []OneSessionPerAccount
<1>1. GuardInv => OneSessionPerAccount
  BY LockExcludes DEF GuardInv, OneSessionPerAccount
<1> QED
  BY <1>1, GuardsInvariant, PTL

\* An account is visited at most once more a day than its row allows, and than
\* the rows a deletion removed had counted.
THEOREM GuardsQuotaHolds == Spec => []QuotaHolds
<1>1. GuardInv => QuotaHolds
  <2> SUFFICES ASSUME GuardInv, NEW a \in Accounts \ dropped, NEW d \in Days
               PROVE  visits[a][d] <= budget[a][d].cap + erased[a][d] + 1
    BY DEF QuotaHolds
  <2>1. budget[a][d].cap \in Nat
    BY GuardAssumption DEF GuardInv, TypeOK
  <2>2. /\ visits[a][d] \in Nat /\ erased[a][d] \in Nat
        /\ budget[a][d].consumed \in Nat
    BY Numbers DEF GuardInv
  <2>3. /\ budget[a][d].consumed <= budget[a][d].cap
        /\ visits[a][d] <= budget[a][d].consumed + erased[a][d] + 1
    BY DEF GuardInv, CapInv, DayInv, Charged
  <2> QED
    BY ONLY <2>1, <2>2, <2>3
<1> QED
  BY <1>1, GuardsInvariant, PTL

-----------------------------------------------------------------------------
(* Refinement of AccountLock.                                               *)

\* The handlers at work with an account.
Within(a) == {h \in Handlers : at[h] \in Inside /\ of[h] = a}

\* A handler comes in where nobody is inside.
LEMMA EnterMap ==
  ASSUME NEW h \in Handlers, NEW a \in Accounts,
         at[h] \notin Inside, at'[h] \in Inside, of'[h] = a,
         \A g \in Handlers \ {h} : at'[g] = at[g] /\ of'[g] = of[g],
         dropped' = dropped, a \notin dropped => Within(a) = {}
  PROVE  Lock!Enter(h, a)
<1> DEFINE inside == [b \in Accounts |-> Within(b)]
<1>1. \A b \in Accounts : h \notin Within(b)
  BY DEF Within
<1>2. Within(a)' = Within(a) \cup {h} /\ \A b \in Accounts \ {a} : Within(b)' = Within(b)
  BY DEF Within
<1>3. inside' = [inside EXCEPT ![a] = @ \cup {h}]
  BY <1>2
<1> QED  BY <1>1, <1>3 DEF Lock!Enter, Within

\* A handler goes.
LEMMA LeaveMap ==
  ASSUME NEW h \in Handlers, NEW a \in Accounts,
         at[h] \in Inside, of[h] = a, at'[h] \notin Inside,
         \A g \in Handlers \ {h} : at'[g] = at[g] /\ of'[g] = of[g],
         dropped' = dropped
  PROVE  Lock!Leave(h, a)
<1> DEFINE inside == [b \in Accounts |-> Within(b)]
<1>1. h \in Within(a)
  BY DEF Within
<1>2. Within(a)' = Within(a) \ {h} /\ \A b \in Accounts \ {a} : Within(b)' = Within(b)
  BY DEF Within
<1>3. inside' = [inside EXCEPT ![a] = @ \ {h}]
  BY <1>2
<1> QED  BY <1>1, <1>3 DEF Lock!Leave, Within

\* Nobody comes or goes.
LEMMA StayMap ==
  ASSUME \A g \in Handlers : /\ at'[g] \in Inside <=> at[g] \in Inside
                             /\ at[g] \in Inside => of'[g] = of[g],
         dropped' = dropped
  PROVE  UNCHANGED Lock!vars
<1>1. \A a \in Accounts : Within(a)' = Within(a)
  BY DEF Within
<1>2. [a \in Accounts |-> Within(a)]' = [a \in Accounts |-> Within(a)]
  BY <1>1
<1> QED  BY <1>2 DEF Lock!vars, Within

\* Every step of handlers, server, form and clock is one of AccountLock, or none.
LEMMA LockNext ==
  ASSUME GuardInv, [Next]_vars
  PROVE  Lock!Next \/ UNCHANGED Lock!vars
<1> USE DEF Goto, Spend, account, rows, clock, local
<1>1. TypeOK /\ LockInv /\ StepInv
  BY DEF GuardInv
<1>2. CASE UNCHANGED <<at, of, dropped>>
  BY <1>2, StayMap
<1>3. ASSUME NEW h \in Handlers, at'[h] \in Inside <=> at[h] \in Inside,
             at[h] \in Inside => of'[h] = of[h],
             \A g \in Handlers \ {h} : at'[g] = at[g] /\ of'[g] = of[g], dropped' = dropped
      PROVE  UNCHANGED Lock!vars
  BY <1>3, StayMap
<1>4. ASSUME NEW h \in Handlers, at[h] \in Inside, at'[h] \notin Inside,
             \A g \in Handlers \ {h} : at'[g] = at[g] /\ of'[g] = of[g], dropped' = dropped
      PROVE  Lock!Next
  <2>1. PICK a \in Accounts : of[h] = a
    BY <1>1, <1>4 DEF LockInv
  <2>2. Lock!Leave(h, a)
    BY <1>4, <2>1, LeaveMap
  <2> QED  BY <2>2 DEF Lock!Next
<1>5. ASSUME NEW h \in Handlers,
             \/ prepareAccountSession(h) \/ throw(h) \/ consumeRateBudget(h)
             \/ launchContextForAccount(h) \/ goto(h) \/ closeBrowser(h)
      PROVE  UNCHANGED Lock!vars
  <2>1. /\ at[h] \in Inside /\ of' = of /\ dropped' = dropped
        /\ \E step \in Inside : at' = [at EXCEPT ![h] = step]
    BY <1>5 DEF prepareAccountSession, throw, consumeRateBudget, launchContextForAccount,
                goto, closeBrowser, Inside
  <2> QED  BY <1>1, <1>3, <2>1 DEF TypeOK
<1>6. ASSUME NEW h \in Handlers, tryLock(h) PROVE Lock!Next \/ UNCHANGED Lock!vars
  <2>1. at[h] = "connected" /\ at[h] \notin Inside /\ of' = of /\ dropped' = dropped
    BY <1>6 DEF tryLock, Inside
  <2>2. CASE at' = [at EXCEPT ![h] = "ending"]
    BY <1>1, <1>3, <2>1, <2>2 DEF TypeOK, Inside
  <2>3. CASE owner[of[h]] = None /\ at' = [at EXCEPT ![h] = "locked"]
    <3>1. PICK a \in Accounts : of[h] = a
      BY <1>1, <2>1 DEF StepInv
    <3>2. a \notin dropped => Within(a) = {}
      BY <1>1, <2>3, <3>1, GuardAssumption DEF LockInv, Within
    <3>3. at'[h] \in Inside /\ \A g \in Handlers \ {h} : at'[g] = at[g]
      BY <1>1, <2>3 DEF TypeOK, Inside
    <3>4. Lock!Enter(h, a)
      BY <2>1, <3>1, <3>2, <3>3, EnterMap
    <3> QED  BY <3>4 DEF Lock!Next
  <2> QED  BY <1>6, <2>2, <2>3 DEF tryLock
<1>7. ASSUME NEW h \in Handlers, unlock(h) PROVE Lock!Next
  BY <1>1, <1>4, <1>7 DEF unlock, TypeOK, Inside
<1>8. ASSUME NEW h \in Handlers, end(h) \/ crash(h) PROVE Lock!Next \/ UNCHANGED Lock!vars
  <2>1. /\ at'[h] = "idle" /\ dropped' = dropped
        /\ \A g \in Handlers \ {h} : at'[g] = at[g] /\ of'[g] = of[g]
    BY <1>1, <1>8 DEF end, crash, Reset, TypeOK
  <2>2. CASE at[h] \in Inside
    BY <1>4, <2>1, <2>2 DEF Inside
  <2>3. CASE at[h] \notin Inside
    BY <1>3, <2>1, <2>3 DEF Inside
  <2> QED  BY <2>2, <2>3
<1>9. ASSUME NEW h \in Handlers, NEW a \in Accounts, connect(h, a)
      PROVE  UNCHANGED Lock!vars
  <2>1. /\ at[h] \notin Inside /\ at'[h] \notin Inside /\ dropped' = dropped
        /\ \A g \in Handlers \ {h} : at'[g] = at[g] /\ of'[g] = of[g]
    BY <1>1, <1>9 DEF connect, TypeOK, Inside
  <2> QED  BY <1>3, <2>1
<1>10. ASSUME NEW a \in Accounts, loseConnection(a) PROVE Lock!Next
  <2>1. UNCHANGED <<at, of>> /\ dropped' = dropped \cup {a}
    BY <1>10 DEF loseConnection
  <2>2. Lock!Break(a)
    BY <2>1 DEF Lock!Break
  <2> QED  BY <2>2 DEF Lock!Next
<1>11. CASE \/ \E a \in Accounts : serverNotices(a) \/ deleteRateBudgets(a) \/ removeAccount(a)
            \/ (\E c \in Caps : updateScrapingPolicy(c)) \/ nextDay \/ UNCHANGED vars
  BY <1>2, <1>11 DEF serverNotices, deleteRateBudgets, removeAccount, updateScrapingPolicy,
                     nextDay, vars
<1> QED  BY <1>5, <1>6, <1>7, <1>8, <1>9, <1>10, <1>11 DEF Next, Advance

\* withAccountLock keeps AccountLock's promise: advisory locks on connections of their
\* own, with failing unlocks, crashes and a server that notices them late, let one
\* handler at a time work with an account whose lock no live handler lost.
THEOREM GuardsImplementLock == Spec => ImplementsLock
<1>1. Init => Lock!Init
  BY DEF Init, Lock!Init, Inside
<1>2. GuardInv /\ [Next]_vars => [Lock!Next]_(Lock!vars)
  BY LockNext
<1> QED  BY <1>1, <1>2, GuardsInvariant, PTL DEF Spec, ImplementsLock, Lock!Spec
=============================================================================

-------------------------- MODULE UserAdminProofs --------------------------
(***************************************************************************)
(* Proofs about UserAdmin, for any users, any number of requests under way *)
(* at once and any roles the forms submit.  The inductive invariant says   *)
(* what a request has been checked for at each of its steps; what the      *)
(* other requests do in between takes none of it back.                     *)
(***************************************************************************)
EXTENDS UserAdmin, FiniteSetTheorems, TLAPS

\* A request that will write a role carries one.
RoleInv ==
  \A q \in Requests :
    req[q].at \in {"compare", "insert", "profile", "role"} => req[q].role \in Roles

\* A request past its server action was sent by an admin, or is a user's edit of
\* itself that writes back the role it had.
Vetted(r) ==
  r.at \notin {"idle", "compare"} =>
    \/ r.had = "ADMIN"
    \/ /\ r.op = "me" /\ r.on = r.by
       /\ r.role = r.had
       /\ r.at \in {"profile", "role"}

AuthInv == \A q \in Requests : Vetted(req[q])

\* A request that has counted the admins is a removal, and saw another one.
CountInv ==
  \A q \in Requests : req[q].saw # {} =>
    req[q].at = "remove" /\ \E v \in req[q].saw : v # req[q].on

UserInv == UserTypeOK /\ RoleInv /\ AuthInv /\ CountInv

\* The initial states satisfy the invariant.
LEMMA UserInitInv == UserInit => UserInv
  BY UserAssumption DEF UserInit, UserInv, UserTypeOK, RoleInv, AuthInv, Vetted, CountInv,
     Idle, Roles, Ops, Steps, Present

\* A session is worth the role that its user holds in the database, and nothing
\* else.
LEMMA SessionIsCurrent ==
  ASSUME UserTypeOK, NEW u \in Users, jwt(u) # "none"
  PROVE  jwt(u) = Held(u) /\ jwt(u) \in Roles
  BY DEF UserTypeOK, jwt, Held, Enabled, Present

\* The gate in front of the admin's actions lets admins through only.
LEMMA AdminGate ==
  ASSUME UserTypeOK, NEW u \in Users, requireRole(u, "ADMIN")
  PROVE  Held(u) = "ADMIN"
<1>1. jwt(u) \in Roles /\ rank(jwt(u)) >= 2
  BY DEF requireRole, hasRequiredRole, rank
<1>2. jwt(u) = "ADMIN"
  BY <1>1 DEF rank, Roles
<1> QED  BY <1>2, SessionIsCurrent

\* A set of more than one admin has one besides the one that is deleted.
LEMMA SecondAdmin ==
  ASSUME NEW S, NEW t, Cardinality(S) > 1
  PROVE  \E v \in S : v # t
<1>1. SUFFICES ASSUME S = {} \/ S = {t} PROVE FALSE
  OBVIOUS
<1>2. Cardinality({}) = 0 /\ Cardinality({t}) = 1
  BY FS_EmptySet, FS_Singleton
<1> QED  BY <1>1, <1>2

\* Accepting a checked request keeps the invariant.
LEMMA AcceptStep ==
  ASSUME UserInv, NEW q \in Requests, NEW u \in Users, NEW op \in Ops,
         NEW step \in Steps \ {"idle", "compare", "remove"},
         NEW on \in Users \cup {Nobody},
         NEW role \in Roles \cup {"none"}, Accept(q, u, op, step, on, role),
         step \in {"insert", "profile"} => role \in Roles,
         step # "role",
         \/ Held(u) = "ADMIN"
         \/ op = "me" /\ on = u /\ role = Held(u) /\ step = "profile"
  PROVE  UserInv'
<1>1. Held(u) \in Roles \cup {"none"}
  BY DEF UserInv, UserTypeOK, Held, Enabled, Present
<1>2. UserTypeOK'
  BY <1>1 DEF UserInv, UserTypeOK, Accept, Idle, Present
<1>3. RoleInv'
  BY DEF UserInv, UserTypeOK, RoleInv, Accept, Idle
<1>4. AuthInv'
  BY <1>1 DEF UserInv, UserTypeOK, AuthInv, Vetted, Accept, Idle
<1>5. CountInv'
  BY DEF UserInv, UserTypeOK, CountInv, Accept, Idle
<1> QED  BY <1>2, <1>3, <1>4, <1>5 DEF UserInv

\* The rows and the tokens, as UserTypeOK has them.
RowsOK ==
  /\ user \in [Users -> [state : {"new", "present", "gone"},
                         role : Roles \cup {"none"}, disabled : BOOLEAN]]
  /\ \A u \in Users : user[u].state = "present" => user[u].role \in Roles
  /\ token \in [Users -> Roles \cup {"none"}]

\* The requests, as UserTypeOK has them.
RequestsOK ==
  req \in [Requests -> [at : Steps, by : Users \cup {Nobody}, op : Ops,
                        on : Users \cup {Nobody}, role : Roles \cup {"none"},
                        saw : SUBSET Users, had : Roles \cup {"none"}]]

\* The type invariant is one of the rows and one of the requests.
LEMMA TypeParts == UserTypeOK <=> RowsOK /\ RequestsOK
  BY DEF UserTypeOK, RowsOK, RequestsOK

\* The end of a request keeps the invariant when what it wrote is well-typed.
LEMMA EndStep ==
  ASSUME UserInv, NEW q \in Requests, Done(q), RowsOK'
  PROVE  UserInv'
<1>1. RequestsOK
  BY TypeParts DEF UserInv
<1>2. RequestsOK'
  BY <1>1 DEF RequestsOK, Done, Idle, Steps, Ops
<1>3. UserTypeOK'
  BY <1>2, TypeParts DEF UserTypeOK, RowsOK, RequestsOK
<1>4. \A p \in Requests :
        req'[p] = req[p] \/ (req'[p].at = "idle" /\ req'[p].saw = {})
  <2>1. \A p \in Requests : req'[p] = IF p = q THEN Idle ELSE req[p]
    BY <1>1 DEF RequestsOK, Done
  <2>2. Idle.at = "idle" /\ Idle.saw = {}
    BY DEF Idle
  <2> SUFFICES ASSUME NEW p \in Requests
               PROVE  req'[p] = req[p] \/ (req'[p].at = "idle" /\ req'[p].saw = {})
    OBVIOUS
  <2>3. CASE p = q
    BY <2>1, <2>2, <2>3
  <2>4. CASE p # q
    BY <2>1, <2>4
  <2> QED  BY <2>3, <2>4
<1>5. RoleInv' /\ AuthInv'
  BY <1>4 DEF UserInv, RoleInv, AuthInv, Vetted
<1>6. CountInv'
  BY <1>4 DEF UserInv, CountInv
<1> QED  BY <1>3, <1>5, <1>6 DEF UserInv

\* Going on to the next step keeps a request's type.
LEMMA NextStepTyped ==
  ASSUME RequestsOK, NEW q \in Requests, NEW step \in Steps,
         NEW saw \in SUBSET Users,
         \/ req' = [req EXCEPT ![q].at = step]
         \/ req' = [req EXCEPT ![q].at = step, ![q].saw = saw]
  PROVE  RequestsOK'
<1>1. CASE req' = [req EXCEPT ![q].at = step]
  BY <1>1 DEF RequestsOK
<1>2. CASE req' = [req EXCEPT ![q].at = step, ![q].saw = saw]
  <2>1. req' = [req EXCEPT ![q] = [req[q] EXCEPT !.at = step, !.saw = saw]]
    BY <1>2 DEF RequestsOK
  <2>2. [req[q] EXCEPT !.at = step, !.saw = saw] \in
          [at : Steps, by : Users \cup {Nobody}, op : Ops,
           on : Users \cup {Nobody}, role : Roles \cup {"none"},
           saw : SUBSET Users, had : Roles \cup {"none"}]
    BY DEF RequestsOK
  <2> QED  BY <2>1, <2>2 DEF RequestsOK
<1> QED  BY <1>1, <1>2

\* What the rest of the code needs of a request stays while only rows and tokens
\* change.
LEMMA RowStep ==
  ASSUME UserInv, RowsOK', req' = req
  PROVE  UserInv'
  BY DEF UserInv, UserTypeOK, RowsOK, RoleInv, AuthInv, Vetted, CountInv

\* Every step keeps the invariant.
LEMMA UserStep == UserInv /\ [UserNext]_userVars => UserInv'
<1> SUFFICES ASSUME UserInv, [UserNext]_userVars PROVE UserInv'
  OBVIOUS
<1> USE UserAssumption
<1>0. RowsOK /\ RequestsOK
  BY TypeParts DEF UserInv
<1>1. ASSUME NEW q \in Requests, NEW u \in Users, authorize(q, u) PROVE UserInv'
  <2>1. user[u].role \in Roles
    BY <1>0, <1>1 DEF authorize, Enabled, Present, RowsOK
  <2>2. req'[q] = [Idle EXCEPT !.at = "compare", !.by = u, !.op = "signIn",
                               !.role = user[u].role]
        /\ \A p \in Requests \ {q} : req'[p] = req[p]
    BY <1>0, <1>1 DEF authorize, RequestsOK
  <2>3. UserTypeOK'
    BY <1>0, <1>1, <2>1 DEF authorize, UserTypeOK, RowsOK, RequestsOK, Idle, Steps, Ops
  <2>4. RoleInv' /\ AuthInv'
    <3>1. req'[q].at = "compare" /\ req'[q].role \in Roles
      BY <2>1, <2>2 DEF Idle
    <3>2. RoleInv'
      BY <2>2, <3>1 DEF UserInv, RoleInv
    <3>3. AuthInv'
      <4>1. Vetted(req[q])'
        BY <3>1 DEF Vetted
      <4> QED  BY <2>2, <4>1 DEF UserInv, AuthInv
    <3> QED  BY <3>2, <3>3
  <2>5. CountInv'
    BY <2>2 DEF UserInv, CountInv, Idle
  <2> QED  BY <2>3, <2>4, <2>5 DEF UserInv
<1>2. ASSUME NEW q \in Requests, NEW u \in Users, updateMeAction(q, u) PROVE UserInv'
  <2>1. jwt(u) = Held(u) /\ jwt(u) \in Roles
    BY <1>2, SessionIsCurrent DEF updateMeAction, UserInv
  <2> QED  BY <1>2, <2>1, AcceptStep DEF updateMeAction, Ops, Steps
<1>3. ASSUME NEW q \in Requests, NEW u \in Users, NEW role \in FormRoles,
             createUserAction(q, u, role)
      PROVE  UserInv'
  <2>1. Held(u) = "ADMIN"
    BY <1>3, AdminGate DEF createUserAction, UserInv
  <2> QED  BY <1>3, <2>1, AcceptStep DEF createUserAction, Ops, Steps
<1>4. ASSUME NEW q \in Requests, NEW u \in Users, NEW t \in Users,
             NEW role \in FormRoles, updateUserAction(q, u, t, role)
      PROVE  UserInv'
  <2>1. Held(u) = "ADMIN"
    BY <1>4, AdminGate DEF updateUserAction, UserInv
  <2> QED  BY <1>4, <2>1, AcceptStep DEF updateUserAction, Ops, Steps
<1>5. ASSUME NEW q \in Requests, NEW u \in Users, NEW t \in Users,
             NEW op \in {"disable", "enable"}, setUserDisabledAction(q, u, t, op)
      PROVE  UserInv'
  <2>1. Held(u) = "ADMIN"
    BY <1>5, AdminGate DEF setUserDisabledAction, UserInv
  <2> QED  BY <1>5, <2>1, AcceptStep DEF setUserDisabledAction, Ops, Steps
<1>6. ASSUME NEW q \in Requests, NEW u \in Users, NEW t \in Users,
             deleteUserAction(q, u, t)
      PROVE  UserInv'
  <2>1. Held(u) = "ADMIN"
    BY <1>6, AdminGate DEF deleteUserAction, UserInv
  <2> QED  BY <1>6, <2>1, AcceptStep DEF deleteUserAction, Ops, Steps
<1>7. ASSUME NEW q \in Requests, signIn(q) PROVE UserInv'
  <2>1. RowsOK'
    BY <1>0, <1>7 DEF signIn, RowsOK, RequestsOK, UserInv, RoleInv
  <2> QED  BY <1>7, <2>1, EndStep DEF signIn
<1>8. ASSUME NEW q \in Requests, NEW u \in Users, create(q, u) PROVE UserInv'
  <2>1. RowsOK'
    BY <1>0, <1>8 DEF create, RowsOK, UserInv, RoleInv
  <2> QED  BY <1>8, <2>1, EndStep DEF create
<1>9. ASSUME NEW q \in Requests, updateProfile(q) PROVE UserInv'
  <2>1. req'[q] = [req[q] EXCEPT !.at = "role"]
        /\ \A p \in Requests \ {q} : req'[p] = req[p]
    BY <1>0, <1>9 DEF updateProfile, Served, RequestsOK
  <2>2. RequestsOK'
    BY <1>0, <1>9, NextStepTyped DEF updateProfile, Served, Steps
  <2>3. UserTypeOK'
    BY <1>0, <1>9, <2>2 DEF updateProfile, UserTypeOK, RowsOK, RequestsOK
  <2>4. req'[q].at = "role" /\ req'[q].role = req[q].role /\ req'[q].had = req[q].had
        /\ req'[q].op = req[q].op /\ req'[q].on = req[q].on /\ req'[q].by = req[q].by
        /\ req'[q].saw = req[q].saw /\ req[q].at = "profile"
    BY <1>0, <1>9, <2>1 DEF updateProfile, RequestsOK
  <2>5. RoleInv' /\ AuthInv'
    <3>1. RoleInv'
      BY <2>1, <2>4 DEF UserInv, RoleInv
    <3>2. AuthInv'
      <4>1. Vetted(req[q])'
        BY <2>4 DEF UserInv, AuthInv, Vetted
      <4> QED  BY <2>1, <4>1 DEF UserInv, AuthInv
    <3> QED  BY <3>1, <3>2
  <2>6. CountInv'
    <3>1. ASSUME NEW p \in Requests, req'[p].saw # {}
          PROVE  p # q /\ req'[p] = req[p]
      BY <2>1, <2>4, <3>1 DEF UserInv, CountInv
    <3> QED  BY <3>1 DEF UserInv, CountInv
  <2> QED  BY <2>3, <2>5, <2>6 DEF UserInv
<1>10. ASSUME NEW q \in Requests, updateRole(q) PROVE UserInv'
  <2>1. RowsOK'
    BY <1>0, <1>10 DEF updateRole, RowsOK, UserInv, RoleInv, Present
  <2> QED  BY <1>10, <2>1, EndStep DEF updateRole
<1>11. ASSUME NEW q \in Requests, setDisabled(q) PROVE UserInv'
  <2>1. RowsOK'
    BY <1>0, <1>11 DEF setDisabled, RowsOK, Present
  <2> QED  BY <1>11, <2>1, EndStep DEF setDisabled
<1>12. ASSUME NEW q \in Requests, findById(q) PROVE UserInv'
  <2>1. PICK step \in {"count", "remove"} : req' = [req EXCEPT ![q].at = step]
    BY <1>12 DEF findById, Served
  <2>2. req'[q] = [req[q] EXCEPT !.at = step]
        /\ \A p \in Requests \ {q} : req'[p] = req[p]
    BY <1>0, <2>1 DEF RequestsOK
  <2>3. UserTypeOK'
    <3>1. RequestsOK'
      BY <1>0, <2>1, NextStepTyped DEF Steps
    <3> QED  BY <1>0, <1>12, <3>1 DEF findById, UserTypeOK, RowsOK, RequestsOK
  <2>4. RoleInv' /\ AuthInv'
    BY <1>0, <1>12, <2>2 DEF findById, RequestsOK, UserInv, RoleInv, AuthInv, Vetted
  <2>5. CountInv'
    BY <1>0, <1>12, <2>2 DEF findById, RequestsOK, UserInv, CountInv
  <2> QED  BY <2>3, <2>4, <2>5 DEF UserInv
<1>13. ASSUME NEW q \in Requests, countAdmins(q) PROVE UserInv'
  <2>1. req'[q] = [req[q] EXCEPT !.at = "remove", !.saw = Admins]
        /\ \A p \in Requests \ {q} : req'[p] = req[p]
    BY <1>0, <1>13 DEF countAdmins, RequestsOK
  <2>2. UserTypeOK'
    <3>1. Admins \in SUBSET Users
      BY DEF Admins, Present
    <3>2. RequestsOK'
      BY <1>0, <1>13, <3>1, NextStepTyped DEF countAdmins, Steps
    <3> QED  BY <1>0, <1>13, <3>2 DEF countAdmins, UserTypeOK, RowsOK, RequestsOK
  <2>3. RoleInv' /\ AuthInv'
    BY <1>0, <1>13, <2>1 DEF countAdmins, RequestsOK, UserInv, RoleInv, AuthInv, Vetted
  <2>4. \E v \in Admins : v # req[q].on
    BY <1>13, SecondAdmin DEF countAdmins
  <2>5. req'[q].at = "remove" /\ req'[q].saw = Admins /\ req'[q].on = req[q].on
    BY <1>0, <2>1 DEF RequestsOK
  <2>6. CountInv'
    <3>1. ASSUME NEW p \in Requests, req'[p].saw # {}
          PROVE  req'[p].at = "remove" /\ \E v \in req'[p].saw : v # req'[p].on
      <4>1. CASE p = q
        BY <2>4, <2>5, <4>1
      <4>2. CASE p # q
        BY <2>1, <3>1, <4>2 DEF UserInv, CountInv
      <4> QED  BY <4>1, <4>2
    <3> QED  BY <3>1 DEF CountInv
  <2> QED  BY <2>2, <2>3, <2>6 DEF UserInv
<1>14. ASSUME NEW q \in Requests, remove(q) PROVE UserInv'
  <2>1. RowsOK'
    BY <1>0, <1>14 DEF remove, RowsOK
  <2> QED  BY <1>14, <2>1, EndStep DEF remove
<1>15. ASSUME NEW q \in Requests, abandon(q) PROVE UserInv'
  <2>1. RowsOK'
    BY <1>0, <1>15 DEF abandon, RowsOK
  <2> QED  BY <1>15, <2>1, EndStep DEF abandon
<1>16. ASSUME NEW u \in Users, touch(u) \/ signOut(u) PROVE UserInv'
  <2>1. RowsOK'
    BY <1>0, <1>16 DEF touch, signOut, jwt, RowsOK
  <2> QED  BY <1>16, <2>1, RowStep DEF touch, signOut
<1>17. ASSUME NEW u \in Users, bootstrapAdminUserFromEnv(u) PROVE UserInv'
  <2>1. \A v \in Users :
          user'[v] = IF v = u THEN [user[u] EXCEPT !.state = "present", !.role = "ADMIN"]
                              ELSE user[v]
    BY <1>0, <1>17 DEF bootstrapAdminUserFromEnv, RowsOK
  <2>2. RowsOK'
    <3>1. [user[u] EXCEPT !.state = "present", !.role = "ADMIN"] \in
            [state : {"new", "present", "gone"}, role : Roles \cup {"none"},
             disabled : BOOLEAN]
      BY <1>0 DEF RowsOK, Roles
    <3>2. user' = [user EXCEPT ![u] =
                     [user[u] EXCEPT !.state = "present", !.role = "ADMIN"]]
      BY <1>0, <1>17 DEF bootstrapAdminUserFromEnv, RowsOK
    <3>3. user'[u].role = "ADMIN"
      BY <1>0, <2>1 DEF RowsOK
    <3>4. \A v \in Users : user'[v].state = "present" => user'[v].role \in Roles
      BY <1>0, <2>1, <3>3 DEF RowsOK, Roles
    <3> QED  BY <1>0, <1>17, <3>1, <3>2, <3>4 DEF bootstrapAdminUserFromEnv, RowsOK
  <2> QED  BY <1>17, <2>2, RowStep DEF bootstrapAdminUserFromEnv
<1>18. CASE UNCHANGED userVars
  <2>1. RowsOK'
    BY <1>0, <1>18 DEF userVars, RowsOK
  <2> QED  BY <1>18, <2>1, RowStep DEF userVars
<1> QED
  BY <1>1, <1>2, <1>3, <1>4, <1>5, <1>6, <1>7, <1>8, <1>9, <1>10, <1>11, <1>12,
     <1>13, <1>14, <1>15, <1>16, <1>17, <1>18 DEF UserNext, Actions, Services

\* The invariant holds in every reachable state.
THEOREM UserInvariant == UserSpec => []UserInv
<1>1. UserInit => UserInv
  BY UserInitInv
<1>2. UserInv /\ [UserNext]_userVars => UserInv'
  BY UserStep
<1> QED  BY <1>1, <1>2, PTL DEF UserSpec

\* Rows, tokens and requests keep their shape, and every user has a role.
THEOREM UserTypes == UserSpec => []UserTypeOK
<1>1. UserInv => UserTypeOK
  BY DEF UserInv
<1> QED  BY <1>1, UserInvariant, PTL

-----------------------------------------------------------------------------
\* A step that ends a request and changes a row is one of its service's writes.
LEMMA WriterStep ==
  ASSUME UserInv, UserNext, NEW q \in Requests, Writes(q)
  PROVE  req[q].at \notin {"idle", "compare"} /\
         (updateRole(q) \/ (req[q].at \notin {"profile", "role"}))
<1> USE DEF Writes
<1>0. RequestsOK
  BY TypeParts DEF UserInv
<1>1. \A p \in Requests : req' = [req EXCEPT ![p] = Idle] => p = q
  BY <1>0 DEF RequestsOK
<1>2. ASSUME NEW p \in Requests, Services(p)
      PROVE  req[q].at \notin {"idle", "compare"} /\
             (updateRole(q) \/ (req[q].at \notin {"profile", "role"}))
  <2>1. CASE signIn(p)
    BY <2>1 DEF signIn
  <2>2. ASSUME NEW u \in Users, create(p, u) PROVE p = q /\ req[q].at = "insert"
    BY <1>1, <2>2 DEF create, Done
  <2>3. CASE updateProfile(p)
    BY <2>3 DEF updateProfile
  <2>4. CASE updateRole(p)
    BY <1>1, <2>4 DEF updateRole, Done
  <2>5. CASE setDisabled(p)
    BY <1>1, <2>5 DEF setDisabled, Done
  <2>6. CASE findById(p)
    BY <2>6 DEF findById
  <2>7. CASE countAdmins(p)
    BY <2>7 DEF countAdmins
  <2>8. CASE remove(p)
    BY <1>1, <2>8 DEF remove, Done
  <2>9. CASE abandon(p)
    BY <2>9 DEF abandon
  <2> QED  BY <1>2, <2>1, <2>2, <2>3, <2>4, <2>5, <2>6, <2>7, <2>8, <2>9 DEF Services
<1>3. ASSUME NEW p \in Requests, NEW u \in Users, Actions(p, u) PROVE FALSE
  BY <1>3 DEF Actions, authorize, updateMeAction, createUserAction, updateUserAction,
     setUserDisabledAction, deleteUserAction, Accept
<1>4. ASSUME NEW u \in Users, touch(u) \/ signOut(u) \/ bootstrapAdminUserFromEnv(u)
      PROVE  FALSE
  BY <1>4 DEF touch, signOut, bootstrapAdminUserFromEnv
<1> QED  BY <1>2, <1>3, <1>4 DEF UserNext

\* No interleaving of requests lets anybody but an admin, as the database had it
\* when the request was accepted, change a row, except a user its own, and then
\* to no higher role.
THEOREM UserChangesAreAuthorised == UserSpec => ChangesAreAuthorised
<1> DEFINE Allowed(q) ==
      \/ req[q].had = "ADMIN"
      \/ /\ req[q].op = "me" /\ req[q].on = req[q].by
         /\ rank(user'[req[q].by].role) <= rank(req[q].had)
<1>1. UserInv /\ [UserNext]_userVars =>
        [\A q \in Requests : Writes(q) => Allowed(q)]_userVars
  <2> SUFFICES ASSUME UserInv, UserNext, NEW q \in Requests, Writes(q),
                      req[q].had # "ADMIN"
               PROVE  Allowed(q)
    OBVIOUS
  <2>1. /\ req[q].op = "me" /\ req[q].on = req[q].by
        /\ req[q].role = req[q].had
        /\ updateRole(q)
    BY WriterStep DEF UserInv, AuthInv, Vetted
  <2>2. user'[req[q].by].role = req[q].had
    BY <2>1 DEF updateRole, Present, UserInv, UserTypeOK
  <2>3. rank(req[q].had) \in Nat
    BY DEF rank
  <2> QED  BY <2>1, <2>2, <2>3
<1> QED  BY <1>1, UserInvariant, PTL DEF UserSpec, ChangesAreAuthorised

\* However requests interleave, a deletion takes the last admin only when another
\* admin it had counted was lost in between, or when it was not a deletion of an
\* admin as far as it had read.
THEOREM UserLastAdminLossIsRaced == UserSpec => LastAdminLossIsRaced
<1> DEFINE Raced(q) ==
      remove(q) /\ req[q].on \in Admins /\ Admins' = {} =>
        \/ req[q].saw = {}
        \/ \E v \in req[q].saw : v # req[q].on /\ v \notin Admins
<1>1. UserInv /\ [UserNext]_userVars => [\A q \in Requests : Raced(q)]_userVars
  <2> SUFFICES ASSUME UserInv, NEW q \in Requests, remove(q), Admins' = {},
                      req[q].saw # {}
               PROVE  \E v \in req[q].saw : v # req[q].on /\ v \notin Admins
    OBVIOUS
  <2>1. PICK v \in req[q].saw : v # req[q].on
    BY DEF UserInv, CountInv
  <2>2. v \in Users
    BY DEF UserInv, UserTypeOK
  <2>3. v \in Admins => v \in Admins'
    BY <2>1, <2>2 DEF remove, Admins, Present, UserInv, UserTypeOK
  <2> QED  BY <2>1, <2>3
<1> QED  BY <1>1, UserInvariant, PTL DEF UserSpec, LastAdminLossIsRaced
=============================================================================

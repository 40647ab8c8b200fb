----------------------------- MODULE UserAdmin -----------------------------
(***************************************************************************)
(* The dashboard's users: sign-in, the role gate in front of every server  *)
(* action, and the requests that create, edit, disable and delete users.   *)
(*                                                                         *)
(* A request is served in steps, one for each await on the database, and   *)
(* the requests of several people interleave.  A step that the code lets   *)
(* throw, and the death of the web process, end the request where it is.   *)
(* E-mail addresses are not told apart: a form with a taken one ends like  *)
(* a refused request, and the query that finds it out is part of the       *)
(* acceptance.  A browser holds one session token for each user.           *)
(***************************************************************************)
EXTENDS Naturals, FiniteSets

CONSTANTS
  Users,      \* ids, the ones not handed out yet included
  Requests,   \* requests that may be under way at once
  FormRoles,  \* the roles the forms submit
  Seeded,     \* the id of the seeded admin
  Nobody

Roles == {"VIEWER", "OPERATOR", "ADMIN"}

ASSUME UserAssumption ==
  FormRoles \subseteq Roles /\ Seeded \in Users /\ Nobody \notin Users

VARIABLES
  user,    \* the User rows
  token,   \* the role in each user's session token
  req      \* the requests under way

userVars == <<user, token, req>>

Idle ==
  [at |-> "idle", by |-> Nobody, op |-> "none", on |-> Nobody,
   role |-> "none", saw |-> {}, had |-> "none"]

Steps == {"idle", "compare", "insert", "profile", "role", "switch", "find",
          "count", "remove"}
Ops == {"none", "signIn", "create", "update", "me", "disable", "enable", "delete"}

\* The shape of the state; every row has one of the three roles.
UserTypeOK ==
  /\ user \in [Users -> [state : {"new", "present", "gone"},
                         role : Roles \cup {"none"}, disabled : BOOLEAN]]
  /\ token \in [Users -> Roles \cup {"none"}]
  /\ req \in [Requests -> [at : Steps, by : Users \cup {Nobody}, op : Ops,
                           on : Users \cup {Nobody}, role : Roles \cup {"none"},
                           saw : SUBSET Users, had : Roles \cup {"none"}]]
  /\ \A u \in Users : user[u].state = "present" => user[u].role \in Roles

Present == {u \in Users : user[u].state = "present"}
Enabled == {u \in Present : ~user[u].disabled}
Admins == {u \in Present : user[u].role = "ADMIN"}

rank(role) == CASE role = "ADMIN" -> 2 [] role = "OPERATOR" -> 1 [] OTHER -> 0
hasRequiredRole(actual, required) ==
  actual \in Roles /\ rank(actual) >= rank(required)

\* One user exists, as seeded; the other ids are free.
UserInit ==
  /\ user = [u \in Users |->
               IF u = Seeded
                 THEN [state |-> "present", role |-> "ADMIN", disabled |-> FALSE]
                 ELSE [state |-> "new", role |-> "none", disabled |-> FALSE]]
  /\ token = [u \in Users |-> "none"]
  /\ req = [q \in Requests |-> Idle]

-----------------------------------------------------------------------------
(* Sessions.                                                                *)

\* A bug: the token keeps the role of the sign-in, and the row is not read again.
jwt_SignInRole(u) == IF u \in Enabled THEN token[u] ELSE "none"

\* What a session is worth to the request that presents it: the row is read again.
jwt(u) == IF token[u] # "none" /\ u \in Enabled THEN user[u].role ELSE "none"

Served(q, step) == req' = [req EXCEPT ![q].at = step]
Done(q) == req' = [req EXCEPT ![q] = Idle]

\* The row is read, and the password compared while others go on.
authorize(q, u) ==
  /\ req[q].at = "idle" /\ u \in Enabled
  /\ req' = [req EXCEPT ![q] = [Idle EXCEPT !.at = "compare", !.by = u,
                                  !.op = "signIn", !.role = user[u].role]]
  /\ UNCHANGED <<user, token>>

signIn(q) ==
  /\ req[q].at = "compare"
  /\ token' = [token EXCEPT ![req[q].by] = req[q].role]
  /\ Done(q)
  /\ UNCHANGED user

\* A page's touch of the session writes the token back.
touch(u) ==
  /\ token[u] # "none"
  /\ token' = [token EXCEPT ![u] = jwt(u)]
  /\ UNCHANGED <<user, req>>

signOut(u) ==
  /\ token[u] # "none"
  /\ token' = [token EXCEPT ![u] = "none"]
  /\ UNCHANGED <<user, req>>

-----------------------------------------------------------------------------
(* The server actions, up to the services they call.                        *)

\* The role the database gives u now; history for the properties.
Held(u) == IF u \in Enabled THEN user[u].role ELSE "none"

Accept(q, u, op, step, on, role) ==
  /\ req[q].at = "idle"
  /\ req' = [req EXCEPT ![q] = [Idle EXCEPT !.at = step, !.by = u, !.op = op,
                                  !.on = on, !.role = role, !.had = Held(u)]]
  /\ UNCHANGED <<user, token>>

requireRole(u, min) == hasRequiredRole(jwt(u), min)

createUserAction(q, u, role) ==
  requireRole(u, "ADMIN") /\ Accept(q, u, "create", "insert", Nobody, role)

updateUserAction(q, u, t, role) ==
  requireRole(u, "ADMIN") /\ Accept(q, u, "update", "profile", t, role)

\* The role written back is the session's.
updateMeAction(q, u) ==
  jwt(u) # "none" /\ Accept(q, u, "me", "profile", u, jwt(u))

setUserDisabledAction(q, u, t, op) ==
  requireRole(u, "ADMIN") /\ Accept(q, u, op, "switch", t, "none")

\* Deleting oneself is refused.
deleteUserAction(q, u, t) ==
  requireRole(u, "ADMIN") /\ t # u /\ Accept(q, u, "delete", "find", t, "none")

-----------------------------------------------------------------------------
(* The services, one step for each query that reads or writes a User row.   *)

create(q, u) ==
  /\ req[q].at = "insert" /\ user[u].state = "new"
  /\ user' = [user EXCEPT ![u].state = "present", ![u].role = req[q].role]
  /\ Done(q)
  /\ UNCHANGED token

\* An update of a row that is gone throws: abandon.
updateProfile(q) ==
  /\ req[q].at = "profile" /\ req[q].on \in Present
  /\ Served(q, "role")
  /\ UNCHANGED <<user, token>>

updateRole(q) ==
  /\ req[q].at = "role" /\ req[q].on \in Present
  /\ user' = [user EXCEPT ![req[q].on].role = req[q].role]
  /\ Done(q)
  /\ UNCHANGED token

setDisabled(q) ==
  /\ req[q].at = "switch" /\ req[q].on \in Present
  /\ user' = [user EXCEPT ![req[q].on].disabled = (req[q].op = "disable")]
  /\ Done(q)
  /\ UNCHANGED token

\* deleteUser reads the target; only an admin's deletion counts the admins.
findById(q) ==
  /\ req[q].at = "find" /\ req[q].on \in Present
  /\ Served(q, IF req[q].on \in Admins THEN "count" ELSE "remove")
  /\ UNCHANGED <<user, token>>

\* A bug: the last admin passes the count.
countAdmins_OffByOne(q) ==
  /\ req[q].at = "count" /\ Cardinality(Admins) >= 1
  /\ req' = [req EXCEPT ![q].at = "remove", ![q].saw = Admins]
  /\ UNCHANGED <<user, token>>

\* Disabled admins count.  With one or none the request ends: abandon.
countAdmins(q) ==
  /\ req[q].at = "count" /\ Cardinality(Admins) > 1
  /\ req' = [req EXCEPT ![q].at = "remove", ![q].saw = Admins]
  /\ UNCHANGED <<user, token>>

remove(q) ==
  /\ req[q].at = "remove" /\ req[q].on \in Present
  /\ user' = [user EXCEPT ![req[q].on] =
                 [state |-> "gone", role |-> "none", disabled |-> FALSE]]
  /\ Done(q)
  /\ UNCHANGED token

\* An early return, an exception or the end of the web process.
abandon(q) ==
  /\ req[q].at # "idle"
  /\ Done(q)
  /\ UNCHANGED <<user, token>>

\* The seed, run with an ADMIN_EMAIL that no row has.
bootstrapAdminUserFromEnv(u) ==
  /\ user[u].state = "new"
  /\ user' = [user EXCEPT ![u].state = "present", ![u].role = "ADMIN"]
  /\ UNCHANGED <<token, req>>

-----------------------------------------------------------------------------
Actions(q, u) ==
  \/ authorize(q, u)
  \/ updateMeAction(q, u)
  \/ \E role \in FormRoles : createUserAction(q, u, role)
  \/ \E t \in Users, role \in FormRoles : updateUserAction(q, u, t, role)
  \/ \E t \in Users, op \in {"disable", "enable"} :
       setUserDisabledAction(q, u, t, op)
  \/ \E t \in Users : deleteUserAction(q, u, t)

Services(q) ==
  \/ signIn(q)
  \/ \E u \in Users : create(q, u)
  \/ updateProfile(q)
  \/ updateRole(q)
  \/ setDisabled(q)
  \/ findById(q)
  \/ countAdmins(q)
  \/ remove(q)
  \/ abandon(q)

UserNext ==
  \/ \E q \in Requests : Services(q)
  \/ \E q \in Requests, u \in Users : Actions(q, u)
  \/ \E u \in Users : touch(u) \/ signOut(u) \/ bootstrapAdminUserFromEnv(u)

UserSpec == UserInit /\ [][UserNext]_userVars

-----------------------------------------------------------------------------
Writes(q) == user' # user /\ req'[q] # req[q]

\* Whoever changes a row was allowed to when the request was accepted: an
\* enabled admin, or the user itself, whose own edit gives it no role above the
\* one it held then.  A disabled or demoted user's old token opens nothing
\* (authConfig.ts re-reads the row on every touch), whatever requests of others
\* are under way.
ChangesAreAuthorised ==
  [][\A q \in Requests : Writes(q) =>
       \/ req[q].had = "ADMIN"
       \/ /\ req[q].op = "me" /\ req[q].on = req[q].by
          /\ rank(user'[req[q].by].role) <= rank(req[q].had)]_userVars

\* A deletion leaves no admin only in a race: the removed admin was none when its
\* row was read, or another admin that deleteUser counted ceased to be one
\* between the count and the removal.
LastAdminLossIsRaced ==
  [][\A q \in Requests : remove(q) /\ req[q].on \in Admins /\ Admins' = {} =>
       \/ req[q].saw = {}
       \/ \E v \in req[q].saw : v # req[q].on /\ v \notin Admins]_userVars
=============================================================================

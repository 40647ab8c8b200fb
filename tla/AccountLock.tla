---------------------------- MODULE AccountLock ----------------------------
(***************************************************************************)
(* What withAccountLock promises the handlers of an account, with no       *)
(* database sessions, crashes or steps of a handler: one handler at a time *)
(* works with the account, until the server drops the connection that      *)
(* holds the lock under a handler that lives on.  From then on nothing is  *)
(* promised for that account.                                              *)
(***************************************************************************)
CONSTANTS Handlers, Accounts

VARIABLES
  inside,   \* the handlers at work with each account
  broken    \* the accounts whose lock was lost under a handler
vars == <<inside, broken>>

Init ==
  /\ inside = [a \in Accounts |-> {}]
  /\ broken = {}

Enter(h, a) ==
  /\ a \notin broken => inside[a] = {}
  /\ \A b \in Accounts : h \notin inside[b]
  /\ inside' = [inside EXCEPT ![a] = @ \cup {h}]
  /\ UNCHANGED broken

Leave(h, a) ==
  /\ h \in inside[a]
  /\ inside' = [inside EXCEPT ![a] = @ \ {h}]
  /\ UNCHANGED broken

Break(a) ==
  /\ broken' = broken \cup {a}
  /\ UNCHANGED inside

Next ==
  \E a \in Accounts : Break(a) \/ \E h \in Handlers : Enter(h, a) \/ Leave(h, a)

Spec == Init /\ [][Next]_vars
=============================================================================

---------------------------- MODULE MCLeadStore ----------------------------
(* Two instances of LeadStore for TLC: one run with two leads and two       *)
(* pages, and the runs of two accounts that find the same lead.             *)
EXTENDS LeadStore

CONSTANTS r1, r2, s1, s2

Finds(leads, maxPages) == [leads |-> leads, maxPages |-> maxPages]
OneLarge == [r \in {r1} |-> Finds({s1, s2}, 2)]
TwoSmall == [r \in {r1, r2} |-> Finds({s1}, 1)]
SearchChoices == {OneLarge, TwoSmall}
=============================================================================

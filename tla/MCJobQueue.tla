----------------------------- MODULE MCJobQueue -----------------------------
(* Instances of JobQueue for TLC: the values of its function constants.      *)
EXTENDS JobQueue, TLC

CONSTANTS j1, j2, j3, w1, w2, s1, s2, s3, k1, run1, acct1

\* Slots s1 and s3, where they exist, are w1's, so w1 may run two jobs.
MCWorkerOf == [s \in Slots |-> IF s = s2 THEN w2 ELSE w1]

\* j1 and j2 are the same work enqueued twice, j3 has no key.
MCKeyOf == [j \in Jobs |-> IF j = j3 THEN None ELSE k1]

\* j1 belongs to a run and the others to none, j1 and j3 to an account.
MCRunOf == [j \in Jobs |-> IF j = j1 THEN run1 ELSE None]
MCAccountOf == [j \in Jobs |-> IF j = j2 THEN None ELSE acct1]
=============================================================================

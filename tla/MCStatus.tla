------------------------------ MODULE MCStatus ------------------------------
(* Three Statuses, two errors, and five Reps: one for each Status and two for *)
(* the temporaries of a report.                                               *)
EXTENDS Status, TLC

CONSTANTS s1, s2, s3, r1, r2, r3, r4, r5, e1, e2

ThreeStatuses == {s1, s2, s3}
FiveReps == {r1, r2, r3, r4, r5}
TwoErrors == {e1, e2}

\* Nothing is named and the properties do not tell them apart.
Interchangeable ==
    Permutations(ThreeStatuses) \cup Permutations(FiveReps) \cup Permutations(TwoErrors)
=============================================================================

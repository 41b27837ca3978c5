\* Three Statuses, five Reps, two errors.
CONSTANTS
    s1 = s1
    s2 = s2
    s3 = s3
    r1 = r1
    r2 = r2
    r3 = r3
    r4 = r4
    r5 = r5
    e1 = e1
    e2 = e2
    Statuses <- ThreeStatuses
    Reps <- FiveReps
    Errors <- TwoErrors
    OK = ok
    Garbage = garbage
    Null = null
    None = none
SYMMETRY Interchangeable
SPECIFICATION Spec
INVARIANT OneOwner
PROPERTY IsAValue

------------------------------ MODULE MCHandles ------------------------------
(* Two threads, two variables, two SharedValues and two callbacks; how many   *)
(* of these a program uses, and how many handles it lets a callback carry and *)
(* a value hold, is chosen at the start.                                      *)
EXTENDS Handles, TLC, FiniteSetsExt

CONSTANTS th1, th2, s1, s2, v1, v2, cb1, cb2

TwoThreads   == {th1, th2}
TwoSlots     == {s1, s2}
TwoValues    == {v1, v2}
TwoCallbacks == {cb1, cb2}

\* Programs with so many threads, variables and callbacks, whichever.
Using(threads, slots, callbacks, carried, held) ==
    [threads : kSubset(threads, TwoThreads), slots : kSubset(slots, TwoSlots),
     callbacks : kSubset(callbacks, TwoCallbacks), carried : {carried}, held : {held}]

\* Callbacks that carry handles, values that hold some, and both, each with two
\* threads; and one thread with two variables and both.
AllKinds ==
    Using(2, 2, 2, 1, 0) \cup Using(2, 2, 1, 2, 0) \cup Using(2, 2, 0, 0, 1)
        \cup Using(2, 1, 2, 1, 1) \cup Using(2, 1, 1, 2, 2) \cup Using(1, 2, 1, 2, 1)

\* Nothing is named and only safety is checked.
Interchangeable ==
    Permutations(TwoThreads) \cup Permutations(TwoSlots)
        \cup Permutations(TwoValues) \cup Permutations(TwoCallbacks)
==============================================================================

---------------------------- MODULE MCSharedValue ----------------------------
(* Two programs for SharedValue: a Promise set once by a thread that also     *)
(* holds a Future, with two other waiting threads; and a Promise that two     *)
(* threads set.                                                               *)
EXTENDS SharedValue, TLC

CONSTANTS p1, p2, f1, f2, cb1, cb2, v1, v2

FourThreads  == {p1, p2, f1, f2}
TwoCallbacks == {cb1, cb2}
TwoValues    == {v1, v2}

uses(p, h, s, g) == [promisers |-> p, holders |-> h, sets |-> s, gets |-> g]
OnceAndTwice == {uses({p1}, {p1, f1, f2}, 1, 1), uses({p1, p2}, {p1}, 2, 2)}
==============================================================================

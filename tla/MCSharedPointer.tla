--------------------------- MODULE MCSharedPointer ---------------------------
(* Two threads, three SharedPointers and two objects for TLC.                 *)
EXTENDS SharedPointer, TLC

CONSTANTS th1, th2, s1, s2, s3, o1, o2

TwoThreads == {th1, th2}
ThreeSlots == {s1, s2, s3}
TwoObjects == {o1, o2}
==============================================================================

----------------------------- MODULE MCThreadPool -----------------------------
(* Instances of ThreadPool for TLC.                                          *)
EXTENDS ThreadPool, TLC

CONSTANTS t1, t2, t3, c1, c2

TwoTasks   == {t1, t2}
ThreeTasks == {t1, t2, t3}
OneClient  == {c1}
TwoClients == {c1, c2}
NoTasks    == {}
FirstTask  == {t1}

\* Sound for the safety run, where t1 is special and nothing else is named.
Interchangeable == Permutations({t2, t3}) \cup Permutations(TwoClients)
===============================================================================

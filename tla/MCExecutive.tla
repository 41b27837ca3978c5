----------------------------- MODULE MCExecutive -----------------------------
(* An instance of Executive for TLC.                                          *)
EXTENDS Executive, TLC

CONSTANTS a1, a2, t1, t2, t3, t4, w1, w2

TwoCallers == {a1, a2}
FourTasks  == {t1, t2, t3, t4}
TwoWorkers == {w1, w2}

submit(t) == [do |-> "submit", task |-> t]
get(t)    == [do |-> "get", task |-> t]

\* t1 submits t2 itself; t3 waits for t1, which is queued before it, and t4 for
\* the t1 of the other caller, which may be queued before or after it.
Crossed ==
    [a \in TwoCallers \cup FourTasks |->
       CASE a = a1 -> <<submit(t1), submit(t3), get(t3), get(t4)>>
         [] a = a2 -> <<submit(t4), get(t4), get(t1)>>
         [] a = t1 -> <<submit(t2)>>
         [] a = t3 -> <<get(t1)>>
         [] a = t4 -> <<get(t1)>>
         [] OTHER  -> <<>>]
==============================================================================

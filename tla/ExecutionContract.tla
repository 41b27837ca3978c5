-------------------------- MODULE ExecutionContract --------------------------
(***************************************************************************)
(* What every Execution promises about the tasks given to it               *)
(* (include/enquery/execution.h:25-35): a task whose Execute() succeeded   *)
(* is Run() once and subsequently deleted by the execution; a task whose   *)
(* Execute() failed is never run, and its caller deletes it.  ThreadPool   *)
(* and Executive, with either execution, are shown to implement it.        *)
(***************************************************************************)
EXTENDS Naturals

CONSTANT Tasks          \* the Task objects callers create

VARIABLES
    result,             \* what Execute(t) returned: "none" yet, "ok" or "fail"
    runs,               \* how many calls of t->Run() have returned
    deletes             \* how many times t was deleted

vars == <<result, runs, deletes>>

TypeOK ==
    /\ result \in [Tasks -> {"none", "ok", "fail"}]
    /\ runs \in [Tasks -> 0..1]
    /\ deletes \in [Tasks -> 0..1]

Init ==
    /\ result = [t \in Tasks |-> "none"]
    /\ runs = [t \in Tasks |-> 0]
    /\ deletes = [t \in Tasks |-> 0]

\* Execute(t) returns Status::OK(): the execution owns the task from here on.
Accept(t) ==
    /\ result[t] = "none"
    /\ result' = [result EXCEPT ![t] = "ok"]
    /\ UNCHANGED <<runs, deletes>>

\* Execute(t) returns a failure: the task stays with its caller.
Refuse(t) ==
    /\ result[t] = "none"
    /\ result' = [result EXCEPT ![t] = "fail"]
    /\ UNCHANGED <<runs, deletes>>

\* The execution runs an accepted task, once.
Run(t) ==
    /\ result[t] = "ok"
    /\ runs[t] = 0
    /\ runs' = [runs EXCEPT ![t] = 1]
    /\ UNCHANGED <<result, deletes>>

\* The execution deletes the task it has run.
Delete(t) ==
    /\ runs[t] = 1
    /\ deletes[t] = 0
    /\ deletes' = [deletes EXCEPT ![t] = 1]
    /\ UNCHANGED <<result, runs>>

\* The caller deletes a task that was refused.
CallerDelete(t) ==
    /\ result[t] = "fail"
    /\ deletes[t] = 0
    /\ deletes' = [deletes EXCEPT ![t] = 1]
    /\ UNCHANGED <<result, runs>>

Next ==
    \E t \in Tasks :
        Accept(t) \/ Refuse(t) \/ Run(t) \/ Delete(t) \/ CallerDelete(t)

Spec == Init /\ [][Next]_vars
=============================================================================

------------------------------ MODULE Executive ------------------------------
(***************************************************************************)
(* The Executive of include/enquery/executive.h over either execution: the *)
(* CurrentThreadExecution of the same file, or a pool of workers that      *)
(* takes the tasks in the order they were accepted and whose destructor    *)
(* drains, which is what ThreadPool provides (QueueIsFIFO, ShutdownDrains).*)
(* A task is a Task_1: its function, which may itself submit tasks and     *)
(* wait for futures, and then SetValue() on its promise, after which       *)
(* waiters go on as SharedValue shows.  The Executive deletes the          *)
(* execution if it owns it; otherwise the program does.                    *)
(*                                                                         *)
(* What callers and functions do is given by Script: for each of them the  *)
(* tasks it submits and the futures it waits for, in order.                *)
(***************************************************************************)
EXTENDS Integers, Sequences, FiniteSets, SequencesExt

CONSTANTS
    Callers,        \* threads of the program that use the Executive
    Tasks,          \* the tasks they and their functions submit
    Script,         \* per agent, a sequence of [do : {"submit", "get"}, task : Tasks]
    Workers,        \* threads of the pool
    None

Agents == Callers \cup Tasks

ASSUME ExecutiveAssumption ==
    /\ Callers \cap Tasks = {}
    /\ None \notin Tasks
    /\ Script \in [Agents -> Seq([do : {"submit", "get"}, task : Tasks])]

VARIABLES
    settings,       \* pool: execution() is a pool, not NULL; take: take_ownership()
    owns,           \* take_ownership_
    executive,      \* "alive", "deleting" its execution, or "deleted"
    execution,      \* "open", "stopping", "stopped" (all threads joined) or "deleted"
    deletedBy,      \* who deleted the execution
    queue,          \* the pool's tasks_
    worker,         \* the task each worker runs
    state,          \* what became of each task
    future,         \* the tasks whose Future Submit() has handed out
    ready,          \* the tasks whose promise is set
    pos,            \* how far each agent got in its script
    inside          \* where an agent is in Submit()

lifeVars == <<settings, owns, executive, execution, deletedBy>>
poolVars == <<queue, worker>>
valueVars == <<future, ready>>
vars == <<lifeVars, poolVars, state, valueVars, pos, inside>>

\* Mutant: take_ownership is not ignored when there is no execution to take.
AsSet(s) == s.take

\* Executive(exec, take_ownership): the default execution is always owned.
Ownership(s) == IF s.pool THEN s.take ELSE TRUE

\* Create() with any Settings.
Init ==
    /\ settings \in [pool : BOOLEAN, take : BOOLEAN]
    /\ owns = Ownership(settings)
    /\ executive = "alive"
    /\ execution = "open"
    /\ deletedBy = {}
    /\ queue = <<>>
    /\ worker = [w \in Workers |-> None]
    /\ state = [t \in Tasks |-> "new"]
    /\ future = {}
    /\ ready = {}
    /\ pos = [a \in Agents |-> 1]
    /\ inside = [a \in Agents |-> "no"]

\* An agent that runs, and what it does next.
Active(a) == a \in Tasks => state[a] = "running"
Done(a) == pos[a] > Len(Script[a])
Does(a, what) == Active(a) /\ ~Done(a) /\ Script[a][pos[a]].do = what
Subject(a) == Script[a][pos[a]].task
Proceed(a) == pos' = [pos EXCEPT ![a] = @ + 1]

Become(t, s) == state' = [state EXCEPT ![t] = s]
Enter(a, where) == inside' = [inside EXCEPT ![a] = where]

-----------------------------------------------------------------------------
(* Submit().                                                               *)

\* The promise and the task are created.
NewTask(a) ==
    /\ Does(a, "submit")
    /\ inside[a] = "no"
    /\ state[Subject(a)] = "new"
    /\ Become(Subject(a), "created")
    /\ Enter(a, "execute")
    /\ UNCHANGED <<lifeVars, poolVars, valueVars, pos>>

\* CurrentThreadExecution::Execute: the task runs inside the call.
ExecuteHere(a) ==
    /\ ~settings.pool
    /\ inside[a] = "execute"
    /\ Become(Subject(a), "running")
    /\ Enter(a, "running")
    /\ UNCHANGED <<lifeVars, poolVars, valueVars, pos>>

ExecuteHereReturns(a) ==
    /\ inside[a] = "running"
    /\ state[Subject(a)] = "deleted"
    /\ Enter(a, "accepted")
    /\ UNCHANGED <<lifeVars, poolVars, state, valueVars, pos>>

\* Mutant: a refused task is queued all the same.
QueueAnyway(t) == Append(queue, t)

\* The pool queues what it accepts.
QueueAfter(t) == IF execution = "open" THEN Append(queue, t) ELSE queue

\* ThreadPoolExecution::Execute, also while the destructor drains.
ExecuteOnPool(a) ==
    LET answer == IF execution = "open" THEN "queued" ELSE "refused" IN
    /\ settings.pool
    /\ inside[a] = "execute"
    /\ queue' = QueueAfter(Subject(a))
    /\ Become(Subject(a), answer)
    /\ Enter(a, IF answer = "queued" THEN "accepted" ELSE "refused")
    /\ UNCHANGED <<lifeVars, worker, valueVars, pos>>

\* Execute() succeeded: *future = promise.GetFuture(), however far the task is.
AssignFuture(a) ==
    /\ inside[a] = "accepted"
    /\ future' = future \cup {Subject(a)}
    /\ Enter(a, "no")
    /\ Proceed(a)
    /\ UNCHANGED <<lifeVars, poolVars, state, ready>>

\* Execute() failed: the task is deleted, *future stays as it is.
DeleteRefused(a) ==
    /\ inside[a] = "refused"
    /\ Become(Subject(a), "discarded")
    /\ Enter(a, "no")
    /\ Proceed(a)
    /\ UNCHANGED <<lifeVars, poolVars, valueVars>>

-----------------------------------------------------------------------------
(* The tasks.                                                              *)

\* GetValue() on a future somebody handed out; the future of a task that was
\* refused is empty, and whoever knows the Status does not touch it.
GetValue(a) ==
    /\ Does(a, "get")
    /\ \/ Subject(a) \in future \cap ready
       \/ state[Subject(a)] = "discarded"
    /\ Proceed(a)
    /\ UNCHANGED <<lifeVars, poolVars, state, valueVars, inside>>

\* Mutant: a stack instead of a queue.
Newest == Len(queue)

\* tasks_.back(), the other end of push_front().
Oldest == 1

Take(w) ==
    /\ worker[w] = None
    /\ queue # <<>>
    /\ worker' = [worker EXCEPT ![w] = queue[Oldest]]
    /\ Become(queue[Oldest], "running")
    /\ queue' = RemoveAt(queue, Oldest)
    /\ UNCHANGED <<lifeVars, valueVars, pos, inside>>

\* Mutant: the function is called, its value goes nowhere.
NotSet(t) == {}

\* promise_.SetValue().
ValueSet(t) == {t}

\* Task_1::Run: the function returned, its value goes to the promise.
Run(t) ==
    /\ state[t] = "running"
    /\ Done(t)
    /\ ready' = ready \cup ValueSet(t)
    /\ Become(t, "run")
    /\ UNCHANGED <<lifeVars, poolVars, future, pos, inside>>

\* The execution deletes the task; a worker is free for the next one.
Delete(t) ==
    /\ state[t] = "run"
    /\ Become(t, "deleted")
    /\ worker' = [w \in Workers |-> IF worker[w] = t THEN None ELSE worker[w]]
    /\ UNCHANGED <<lifeVars, queue, valueVars, pos, inside>>

-----------------------------------------------------------------------------
(* The end of the execution and of the Executive.                          *)

\* The program shuts its pool down, while others are in the middle of Submit().
Shutdown ==
    /\ settings.pool
    /\ execution = "open"
    /\ execution' = "stopping"
    /\ UNCHANGED <<settings, owns, executive, deletedBy, poolVars, state, valueVars,
                   pos, inside>>

\* Mutant: the threads are not joined.
QueueIsEmpty == queue = <<>>

\* Shutdown(), or the pool's destructor, has joined the workers.
Joined == queue = <<>> /\ \A w \in Workers : worker[w] = None

Stop ==
    /\ execution = "stopping"
    /\ Joined
    /\ execution' = "stopped"
    /\ UNCHANGED <<settings, owns, executive, deletedBy, poolVars, state, valueVars,
                   pos, inside>>

\* Whoever is inside Submit() or will call it again.
WillSubmit(a) ==
    /\ a \in Tasks => state[a] \in {"created", "queued", "running"}
    /\ \/ inside[a] # "no"
       \/ \E i \in pos[a]..Len(Script[a]) : Script[a][i].do = "submit"

\* ~Executive begins once no caller uses the Executive any more.  Functions that
\* still run may do so as long as the destructor waits for them; nobody else is
\* inside the pool's Shutdown().
DeleteExecutive ==
    /\ executive = "alive"
    /\ \A a \in Agents : WillSubmit(a) => a \in Tasks /\ owns /\ settings.pool
    /\ owns => execution # "stopping"
    /\ executive' = IF owns THEN "deleting" ELSE "deleted"
    /\ execution' = IF owns /\ settings.pool /\ execution = "open" THEN "stopping"
                                                                   ELSE execution
    /\ UNCHANGED <<settings, owns, deletedBy, poolVars, state, valueVars, pos, inside>>

\* delete execution_ is done: at once for the current thread, for a pool when it
\* has stopped.
DeleteOwned ==
    /\ executive = "deleting"
    /\ settings.pool => execution = "stopped"
    /\ executive' = "deleted"
    /\ execution' = "deleted"
    /\ deletedBy' = deletedBy \cup {"Executive"}
    /\ UNCHANGED <<settings, owns, poolVars, state, valueVars, pos, inside>>

\* The program deletes a pool that it did not give away, after its use.
DeletePool ==
    /\ settings.pool /\ ~settings.take
    /\ "program" \notin deletedBy
    /\ execution \in {"stopped", "deleted"}
    /\ \A a \in Agents : ~WillSubmit(a)
    /\ execution' = "deleted"
    /\ deletedBy' = deletedBy \cup {"program"}
    /\ UNCHANGED <<settings, owns, executive, poolVars, state, valueVars, pos, inside>>

\* The program may end here: every caller is done and no task is left that was
\* accepted.  A state in which somebody waits for ever is a deadlock.
Finished ==
    /\ \A a \in Callers : Done(a)
    /\ \A t \in Tasks : state[t] \in {"new", "deleted", "discarded"}
    /\ UNCHANGED vars

-----------------------------------------------------------------------------
Submit(a) ==
    \/ NewTask(a) \/ ExecuteHere(a) \/ ExecuteHereReturns(a)
    \/ ExecuteOnPool(a) \/ AssignFuture(a) \/ DeleteRefused(a)

Next ==
    \/ \E a \in Agents : Submit(a) \/ GetValue(a)
    \/ \E w \in Workers : Take(w)
    \/ \E t \in Tasks : Run(t) \/ Delete(t)
    \/ Shutdown \/ Stop
    \/ DeleteExecutive \/ DeleteOwned \/ DeletePool
    \/ Finished

Spec == Init /\ [][Next]_vars

\* Threads go on whenever they can, and a shutdown that began does; nobody has to
\* shut down or delete anything.
Fairness ==
    /\ \A a \in Agents : WF_vars(Submit(a) \/ GetValue(a))
    /\ \A w \in Workers : WF_vars(Take(w))
    /\ \A t \in Tasks : WF_vars(Run(t) \/ Delete(t))
    /\ WF_vars(Stop) /\ WF_vars(DeleteOwned)

FairSpec == Spec /\ Fairness

-----------------------------------------------------------------------------
(* Properties.                                                             *)

\* Submit() and the executions keep the contract of Execute() between them: what
\* was refused is deleted by Submit() and "guaranteed not to execute"
\* (executive.h:112-113), what was accepted is run once and deleted once.
Contract == INSTANCE ExecutionContract WITH
    result <- [t \in Tasks |-> IF state[t] \in {"new", "created"} THEN "none" ELSE
                               IF state[t] \in {"refused", "discarded"}
                               THEN "fail" ELSE "ok"],
    runs <- [t \in Tasks |-> IF state[t] \in {"run", "deleted"} THEN 1 ELSE 0],
    deletes <- [t \in Tasks |-> IF state[t] \in {"deleted", "discarded"}
                                THEN 1 ELSE 0]
ImplementsContract == Contract!Spec

\* An execution is never deleted twice, and once the Executive and a program that
\* kept its pool are done with it, it is deleted: whatever the Settings were,
\* the default one is not leaked (executive.h:85-89, 129-131).
DeletedByItsOwner ==
    /\ deletedBy # {"Executive", "program"}
    /\ executive = "deleted" /\ deletedBy = {} => settings.pool /\ ~settings.take

\* No task and no Submit() outlives the execution it depends on, although
\* functions may submit while the destructor drains, and every future handed out
\* was answered before (executive.h:98-102).
NothingOutlivesExecution ==
    execution = "deleted" =>
        /\ \A t \in Tasks : state[t] \notin {"queued", "running", "run"}
        /\ \A a \in Agents : inside[a] # "execute"
        /\ future \subseteq ready

\* A future that Submit() handed out gets its value: no task is stuck behind the
\* tasks that wait for it, and none is destroyed with its promise unset.
FuturesAreAnswered == \A t \in Tasks : t \in future ~> t \in ready

\* Whatever a caller submits and waits for, it gets to its end.
CallersFinish == \A a \in Callers : <>Done(a)

\* ~Executive returns: the pool it deletes waits for no task that waits for it.
DeletionReturns == executive = "deleting" ~> executive = "deleted"
==============================================================================

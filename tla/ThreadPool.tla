----------------------------- MODULE ThreadPool -----------------------------
(***************************************************************************)
(* The ThreadPoolExecution of base/thread_pool_execution.cc: its two-phase *)
(* construction, Execute(), Shutdown(), the worker threads and the         *)
(* destructor, with the Thread objects of base/thread.cc it owns.          *)
(*                                                                         *)
(* Everything the code does between pthread_mutex_lock and                 *)
(* pthread_mutex_unlock is one action: tasks_ and shutting_down_ are only  *)
(* touched under mutex_.  pthread_cond_wait is a move to "waiting", being  *)
(* woken is a move back to "ready", where the loop tests the queue again.  *)
(***************************************************************************)
EXTENDS Integers, Sequences, FiniteSets

CONSTANTS
    Tasks,          \* the Task objects callers submit, each at most once
    Clients,        \* threads that call Shutdown() themselves
    Owner,          \* the thread that creates and finally deletes the pool
    NULL,           \* the NULL task: no task to Execute(), to a worker the
                    \* signal to end
    MaxThreads,     \* bound on settings.thread_count()
    ShutdownTasks   \* the tasks whose Run() calls Shutdown() on this pool

ASSUME ThreadPoolAssumption ==
    /\ MaxThreads \in Nat
    /\ NULL \notin Tasks
    /\ ShutdownTasks \subseteq Tasks
    /\ Clients \cap Tasks = {}
    /\ Owner \notin Clients \cup Tasks

Workers == 1..MaxThreads                        \* threads_[w - 1] runs as w
Callers == Clients \cup ShutdownTasks \cup {Owner}   \* whoever may call Shutdown()

VARIABLES
    requested,      \* settings.thread_count()
    phase,          \* where the Rep is between its constructor and its deletion
    sync,           \* mutex_ and cond_: "raw" memory, "ready" or "gone"
    createdSync,    \* created_sync_
    shuttingDown,   \* shutting_down_
    tasks,          \* tasks_; push_front is Append and back() is Head
    threads,        \* threads_.size(): threads_ holds workers 1..threads
    pc,             \* what each worker thread is doing
    held,           \* the task a worker took from the queue and has not deleted
    call,           \* the activation of Shutdown() of each caller
    result,         \* what Execute(t) returned; one caller passes NULL
    runs,           \* how many calls of t->Run() have returned
    deletes,        \* how many times t was deleted
    accepted,       \* history: tasks in the order Execute() accepted them
    taken           \* history: tasks in the order workers took them

repVars  == <<requested, phase, sync, createdSync>>
taskVars == <<result, runs, deletes>>
vars == <<repVars, shuttingDown, tasks, threads, pc, held, call, taskVars,
          accepted, taken>>

PCs == {"none", "ready", "waiting", "running", "ran", "exited", "joined"}

Waiting == {w \in Workers : pc[w] = "waiting"}  \* blocked in pthread_cond_wait
Ready   == {w \in Workers : pc[w] = "ready"}    \* about to test the queue

\* What callers pass to Execute().
Arguments == Tasks \cup {NULL}

\* What Settings may ask for: the default is 1, and any int can be set.
ThreadCounts == -1..MaxThreads

\* An activation of Shutdown(): where it is, its thread_count and its loop index.
Frame(at, n, i) == [at |-> at, n |-> n, i |-> i]
Frames == [at : {"idle", "push", "join", "clear", "returned"},
           n : 0..MaxThreads, i : 0..MaxThreads]

Init ==
    /\ requested \in ThreadCounts
    /\ phase = "new"
    /\ sync = "raw"
    /\ createdSync = FALSE
    /\ shuttingDown = FALSE
    /\ tasks = <<>>
    /\ threads = 0
    /\ pc = [w \in Workers |-> "none"]
    /\ held = [w \in Workers |-> NULL]
    /\ call = [c \in Callers |-> Frame("idle", 0, 0)]
    /\ result = [t \in Arguments |-> "none"]
    /\ runs = [t \in Arguments |-> 0]
    /\ deletes = [t \in Arguments |-> 0]
    /\ accepted = <<>>
    /\ taken = <<>>

-----------------------------------------------------------------------------
(* Construction: ThreadPoolExecution::Create and Rep::Init.                *)

\* thread_count < 1, or pthread_mutex_init fails (sync stays raw), or
\* pthread_cond_init fails (the mutex is destroyed again): Create returns NULL
\* and its ScopePointer deletes the Rep.
InitSyncFails ==
    /\ phase = "new"
    /\ phase' = "closing"
    /\ sync' \in IF requested < 1 THEN {"raw"} ELSE {"raw", "gone"}
    /\ UNCHANGED <<requested, createdSync, shuttingDown, tasks, threads, pc,
                   held, call, taskVars, accepted, taken>>

\* Mutant: Init does not record what it created.
Unrecorded == createdSync

\* created_sync_ = true
Recorded == TRUE

InitSync ==
    /\ phase = "new"
    /\ requested >= 1
    /\ phase' = "starting"
    /\ sync' = "ready"
    /\ createdSync' = Recorded
    /\ UNCHANGED <<requested, shuttingDown, tasks, threads, pc, held, call,
                   taskVars, accepted, taken>>

\* Mutant: i <= thread_count.
OneMore == threads <= requested

\* i < thread_count
MoreToStart == threads < requested

\* Thread::Create succeeds: the thread runs WorkerLoop from here on, while
\* Init is still starting the others.
StartThread ==
    /\ phase = "starting"
    /\ MoreToStart
    /\ threads' = threads + 1
    /\ pc' = [pc EXCEPT ![threads + 1] = "ready"]
    /\ UNCHANGED <<repVars, shuttingDown, tasks, held, call, taskVars, accepted,
                   taken>>

\* pthread_create fails: Init returns the error, Create deletes the Rep with
\* the threads started so far.
StartThreadFails ==
    /\ phase = "starting"
    /\ threads < requested
    /\ phase' = "closing"
    /\ UNCHANGED <<requested, sync, createdSync, shuttingDown, tasks, threads,
                   pc, held, call, taskVars, accepted, taken>>

\* Init and Create return; callers may use the pool.
Publish ==
    /\ phase = "starting"
    /\ threads = requested
    /\ phase' = "live"
    /\ UNCHANGED <<requested, sync, createdSync, shuttingDown, tasks, threads,
                   pc, held, call, taskVars, accepted, taken>>

-----------------------------------------------------------------------------
(* Execute().                                                              *)

\* pthread_cond_signal(&cond_): one of the waiting workers, if any, is woken.
Signal ==
    \/ Waiting = {} /\ UNCHANGED pc
    \/ \E w \in Waiting : pc' = [pc EXCEPT ![w] = "ready"]

\* Mutants: a push that forgets the signal, one at the end where back() looks.
PushUnsignalled(x) == tasks' = Append(tasks, x) /\ UNCHANGED pc
PushBack(x) == tasks' = <<x>> \o tasks /\ Signal

\* tasks_.push_front(x) and the signal that goes with it.
Push(x) == tasks' = Append(tasks, x) /\ Signal

\* Who may call Execute(): anyone while the pool is published, and a running
\* task at any time.
InUse == phase = "live" \/ \E w \in Workers : pc[w] = "running"

\* Mutant: shutting_down_ is not tested.
AlwaysAccepts(t) == t = NULL

\* if (task == NULL), where the assertion is compiled out, and under the mutex
\* if (shutting_down_).
Refuses(t) == t = NULL \/ shuttingDown

Execute(t) ==
    /\ InUse
    /\ result[t] = "none"
    /\ \/ /\ Refuses(t)
          /\ result' = [result EXCEPT ![t] = "fail"]
          /\ UNCHANGED <<tasks, pc, accepted>>
       \/ /\ ~Refuses(t)
          /\ Push(t)
          /\ result' = [result EXCEPT ![t] = "ok"]
          /\ accepted' = Append(accepted, t)
    /\ UNCHANGED <<repVars, shuttingDown, threads, held, call, runs, deletes,
                   taken>>

\* The caller deletes the task it got back (Executive::Submit does so).
CallerDelete(t) ==
    /\ t # NULL
    /\ result[t] = "fail"
    /\ deletes[t] = 0
    /\ deletes' = [deletes EXCEPT ![t] = 1]
    /\ UNCHANGED <<repVars, shuttingDown, tasks, threads, pc, held, call, result,
                   runs, accepted, taken>>

-----------------------------------------------------------------------------
(* The worker threads: ThreadFunction, WorkerLoop and GetNextTask.         *)

\* Mutant: pop_back is forgotten.
NotPopped == tasks

\* tasks_.pop_back()
Popped == Tail(tasks)

\* GetNextTask under the mutex: wait on the empty queue, leave the loop on the
\* NULL task, otherwise take the oldest task and start running it.
GetNextTask(w) ==
    /\ pc[w] = "ready"
    /\ \/ /\ tasks = <<>>
          /\ pc' = [pc EXCEPT ![w] = "waiting"]
          /\ UNCHANGED <<tasks, held, taken>>
       \/ /\ tasks # <<>>
          /\ tasks' = Popped
          /\ \/ /\ Head(tasks) = NULL
                /\ pc' = [pc EXCEPT ![w] = "exited"]
                /\ UNCHANGED <<held, taken>>
             \/ /\ Head(tasks) # NULL
                /\ pc' = [pc EXCEPT ![w] = "running"]
                /\ held' = [held EXCEPT ![w] = Head(tasks)]
                /\ taken' = Append(taken, Head(tasks))
    /\ UNCHANGED <<repVars, shuttingDown, threads, call, taskVars, accepted>>

\* pthread_cond_wait may return although nobody signalled.
SpuriousWakeup(w) ==
    /\ pc[w] = "waiting"
    /\ pc' = [pc EXCEPT ![w] = "ready"]
    /\ UNCHANGED <<repVars, shuttingDown, tasks, threads, held, call, taskVars,
                   accepted, taken>>

\* task->Run() returns; a task that calls Shutdown() returns after that call.
RunTask(w) ==
    /\ pc[w] = "running"
    /\ held[w] \in ShutdownTasks => call[held[w]].at = "returned"
    /\ runs' = [runs EXCEPT ![held[w]] = @ + 1]
    /\ pc' = [pc EXCEPT ![w] = "ran"]
    /\ UNCHANGED <<repVars, shuttingDown, tasks, threads, held, call, result,
                   deletes, accepted, taken>>

DeleteTask(w) ==
    /\ pc[w] = "ran"
    /\ deletes' = [deletes EXCEPT ![held[w]] = @ + 1]
    /\ held' = [held EXCEPT ![w] = NULL]
    /\ pc' = [pc EXCEPT ![w] = "ready"]
    /\ UNCHANGED <<repVars, shuttingDown, tasks, threads, call, result, runs,
                   accepted, taken>>

-----------------------------------------------------------------------------
(* Shutdown(), called by a client, by a task, or by ~Rep.                  *)

MayShutdown(c) ==
    \/ c \in Clients /\ phase = "live"
    \/ c = Owner /\ phase = "closing" /\ createdSync
    \/ \E w \in Workers : pc[w] = "running" /\ held[w] = c

\* Mutant: size_t i = 1
FromOne == 1

\* size_t i = 0
FirstIndex == 0

\* A second caller returns at once; the first one sets shutting_down_ and,
\* after the unlock, reads the number of threads it has to stop.
ShutdownEnter(c) ==
    /\ MayShutdown(c)
    /\ call[c].at = "idle"
    /\ \/ /\ shuttingDown
          /\ call' = [call EXCEPT ![c].at = "returned"]
          /\ UNCHANGED shuttingDown
       \/ /\ ~shuttingDown
          /\ shuttingDown' = TRUE
          /\ call' = [call EXCEPT ![c] =
                        Frame(IF threads = 0 THEN "clear" ELSE "push", threads, FirstIndex)]
    /\ UNCHANGED <<repVars, tasks, threads, pc, held, taskVars, accepted, taken>>

\* The frame after one more round of a loop of f.n rounds; next follows it.
Advance(f, next) ==
    IF f.i + 1 < f.n THEN Frame(f.at, f.n, f.i + 1) ELSE Frame(next, f.n, 0)

\* One round of the loop that queues a NULL task for every thread.
PushNull(c) ==
    /\ call[c].at = "push"
    /\ Push(NULL)
    /\ call' = [call EXCEPT ![c] = Advance(@, "join")]
    /\ UNCHANGED <<repVars, shuttingDown, threads, held, taskVars, accepted,
                   taken>>

\* Mutant: the Thread objects are deleted without a join.
NotJoined(w, c) == UNCHANGED pc

\* pthread_join in ~Thread.  The join of the calling thread itself fails with
\* EDEADLK, which is ignored.
Join(w, c) ==
    \/ pc[w] = "exited" /\ pc' = [pc EXCEPT ![w] = "joined"]
    \/ pc[w] = "running" /\ held[w] = c /\ UNCHANGED pc

\* One round of the loop that deletes the Thread objects.
JoinThread(c) ==
    /\ call[c].at = "join"
    /\ Join(call[c].i + 1, c)
    /\ call' = [call EXCEPT ![c] = Advance(@, "clear")]
    /\ UNCHANGED <<repVars, shuttingDown, tasks, threads, held, taskVars,
                   accepted, taken>>

\* threads_.clear() and return.  The assertion before the return is the property
\* QueueEmptyAfterJoin below; the production build compiles it out.
ShutdownReturn(c) ==
    /\ call[c].at = "clear"
    /\ threads' = 0
    /\ call' = [call EXCEPT ![c].at = "returned"]
    /\ UNCHANGED <<repVars, shuttingDown, tasks, pc, held, taskVars, accepted,
                   taken>>

-----------------------------------------------------------------------------
(* Destruction: ~ThreadPoolExecution and ~Rep.                             *)

\* The owner deletes the pool once nobody is inside Shutdown().
BeginDelete ==
    /\ phase = "live"
    /\ \A c \in Callers : call[c].at \in {"idle", "returned"}
    /\ phase' = "closing"
    /\ UNCHANGED <<requested, sync, createdSync, shuttingDown, tasks, threads,
                   pc, held, call, taskVars, accepted, taken>>

\* ~Rep after its own Shutdown(): destroy what Init created, free the Rep.
DeleteRep ==
    /\ phase = "closing"
    /\ createdSync => call[Owner].at = "returned"
    /\ phase' = "deleted"
    /\ sync' = IF createdSync THEN "gone" ELSE sync
    /\ UNCHANGED <<requested, createdSync, shuttingDown, tasks, threads, pc,
                   held, call, taskVars, accepted, taken>>

\* The pool is gone, its threads have ended and nobody holds a refused task.
Finished ==
    /\ phase = "deleted"
    /\ \A w \in Workers : pc[w] \in {"none", "exited", "joined"}
    /\ \A t \in Tasks : result[t] = "fail" => deletes[t] = 1
    /\ UNCHANGED vars

-----------------------------------------------------------------------------
Construct == InitSyncFails \/ InitSync \/ StartThread \/ StartThreadFails \/ Publish
Submit(t) == Execute(t) \/ CallerDelete(t)
WorkerStep(w) == GetNextTask(w) \/ RunTask(w) \/ DeleteTask(w)
ShutdownStep(c) ==
    ShutdownEnter(c) \/ PushNull(c) \/ JoinThread(c) \/ ShutdownReturn(c)
Destroy == BeginDelete \/ DeleteRep

Next ==
    \/ Construct
    \/ \E t \in Arguments : Submit(t)
    \/ \E w \in Workers : WorkerStep(w) \/ SpuriousWakeup(w)
    \/ \E c \in Callers : ShutdownStep(c)
    \/ Destroy
    \/ Finished

Spec == Init /\ [][Next]_vars

(* What the threads and callers must eventually do.  A step of a thread is
   one critical section or one call: the scheduler runs every thread and the
   mutex is not held for ever; RunTask says that a task's Run() returns, and
   ShutdownEnter(Owner) that ~Rep, once entered, goes on.                   *)
Fairness ==
    /\ \A w \in Workers : WF_vars(WorkerStep(w))
    /\ \A c \in Callers :
         WF_vars(PushNull(c) \/ JoinThread(c) \/ ShutdownReturn(c))
    /\ \A t \in ShutdownTasks : WF_vars(ShutdownEnter(t))
    /\ WF_vars(ShutdownEnter(Owner) \/ DeleteRep)

FairSpec == Spec /\ Fairness

-----------------------------------------------------------------------------
(* Properties.                                                             *)

TypeOK ==
    /\ requested \in ThreadCounts
    /\ phase \in {"new", "starting", "live", "closing", "deleted"}
    /\ sync \in {"raw", "ready", "gone"}
    /\ createdSync \in BOOLEAN
    /\ shuttingDown \in BOOLEAN
    /\ tasks \in Seq(Tasks \cup {NULL})
    /\ threads \in 0..MaxThreads
    /\ pc \in [Workers -> PCs]
    /\ held \in [Workers -> Tasks \cup {NULL}]
    /\ call \in [Callers -> Frames]
    /\ result \in [Tasks \cup {NULL} -> {"none", "ok", "fail"}]
    /\ runs \in [Tasks \cup {NULL} -> Nat]
    /\ deletes \in [Tasks \cup {NULL} -> Nat]
    /\ accepted \in Seq(Tasks)
    /\ taken \in Seq(Tasks)

\* Workers take the tasks in the order Execute() accepted them, none lost and
\* none twice, and every NULL task is behind every real one ("tasks are entered
\* in FIFO fashion, this ensures that all tasks in the queue are processed prior
\* to shutdown", thread_pool_execution.cc:164-166).
Backlog == Len(accepted) - Len(taken)      \* accepted tasks still in the queue

QueueIsFIFO ==
    /\ Len(taken) <= Len(accepted)
    /\ Backlog <= Len(tasks)
    /\ \A i \in 1..Len(taken) : taken[i] = accepted[i]
    /\ \A i \in 1..Len(tasks) :
         tasks[i] = IF i <= Backlog THEN accepted[Len(taken) + i] ELSE NULL

\* While a worker sleeps there is, for every entry of the queue, another worker
\* about to test the queue: one pthread_cond_signal per push loses no wakeup,
\* whichever worker it wakes and whoever takes the entry first (the TODO of
\* thread_pool_execution.cc:103 asks whether it should be a broadcast).
NoLostWakeup == Waiting # {} => Len(tasks) <= Cardinality(Ready)

\* No task has called Shutdown() on its own pool (QueueEmptyAfterJoin says what
\* happens when one does).
NoTaskShutsDown == \A t \in ShutdownTasks : call[t].at = "idle"

\* The call that performs the shutdown finds the queue empty (the assertion of
\* thread_pool_execution.cc:145) and every accepted task run and deleted once.
ShutdownDrains ==
    NoTaskShutsDown =>
        \A c \in Callers : call[c].at = "clear" =>
            /\ tasks = <<>>
            /\ \A t \in Tasks : result[t] = "ok" => runs[t] = 1 /\ deletes[t] = 1

\* No thread uses the Rep, or sleeps on its condition variable, once the mutex
\* and the condition variable are destroyed, and a deleted Rep leaves neither
\* behind, however far Init came (thread_pool_execution.cc:37-43, 66-69, 134-137).
RepOutlivesItsThreads ==
    /\ NoTaskShutsDown /\ sync # "ready" =>
         /\ \A w \in Workers : pc[w] \in {"none", "exited", "joined"}
         /\ \A c \in Callers : call[c].at \in {"idle", "returned"}
    /\ phase = "deleted" => sync # "ready"

\* The pool is an Execution: accepted tasks are run once and then deleted,
\* refused ones, and NULL, are never run and are deleted by the caller only.
Contract == INSTANCE ExecutionContract WITH Tasks <- Arguments
ImplementsContract == Contract!Spec

\* Any Shutdown(), also a second one, returns only when all accepted tasks are
\* complete ("waiting for all enqueued tasks to complete prior to return",
\* thread_pool_execution.h:65-66).
ReturnMeansDrained ==
    \A c \in Callers : call[c].at = "returned" =>
        \A t \in Tasks : result[t] = "ok" => runs[t] = 1

\* The assertion of thread_pool_execution.cc:145 by itself.
QueueEmptyAfterJoin == \A c \in Callers : call[c].at = "clear" => tasks = <<>>

\* A task that Execute() accepted is eventually run and deleted, whether or not
\* anybody ever shuts the pool down (execution.h:27-29).
AcceptedTasksComplete ==
    \A t \in Tasks : result[t] = "ok" ~> runs[t] = 1 /\ deletes[t] = 1

\* Every Shutdown() that was entered returns: no join waits for a worker that
\* sleeps for ever or that found no NULL task.
ShutdownTerminates ==
    \A c \in Callers : call[c].at # "idle" ~> call[c].at = "returned"

\* A pool whose deletion began, or whose construction failed half way, is
\* eventually freed with all its threads joined.
DeletionTerminates ==
    phase = "closing" ~>
        phase = "deleted" /\ \A w \in Workers : pc[w] \in {"none", "joined"}
=============================================================================

# Enquery in TLA+

TLA+ specifications, TLC configurations and TLAPS proofs for the C++ library in
this repository: a thread pool, promises and futures, an `Executive` that ties
them together, and a small HTTP client on top of libcurl. Paths below are
relative to the repository's root; `TPE` is `base/thread_pool_execution.cc`.

- [The system](#the-system): components, state, operations, hazards
- [The modules](#the-modules): how state and actions correspond to the code
- [The runs](#the-runs): instances, bounds, fairness, what they show
- [Where code and documents disagree](#where-code-and-documents-disagree)
- [The proofs](#the-proofs)
- [What is not modelled](#what-is-not-modelled)
- [What is left](#what-is-left)

## The system

| part | state | operations | talks to |
|------|-------|------------|----------|
| `Execution` / `Task` (`include/enquery/execution.h`, `task.h`) | who owns a task | `Execute`, `Run`, delete | its implementations, `Executive` |
| `ThreadPoolExecution` (`TPE`, `base/thread.cc`) | `tasks_`, `threads_`, `shutting_down_`, `created_sync_`, a mutex and a condition variable | `Create`, `Execute`, `Shutdown`, destructor; the worker loop | pthreads; the tasks it runs, which may call back into it |
| `SharedValue`, `Promise`, `Future`, `CallbackQueue` (`include/enquery/futures.h`) | `ready_`, `value_`, `callbacks_`, a mutex and a condition variable | `Set`, `Get`, `Notify`, destruction | callbacks, which may call back into it; `SharedPointer` for its lifetime |
| `Executive`, `CurrentThreadExecution` (`include/enquery/executive.h`) | `Settings`, the `Execution` and whether it is owned | `Create`, `Submit`, destructor | an `Execution`, a `Promise` per task |
| `SharedPointer` (`include/enquery/shared_pointer.h`, `atomic.h`) | a count behind each object | construct, copy, assign, swap, destroy | the deleter of the object |
| `CurlHttp` (`http/curl_http.cc`, `http/http.cc`) | the global count of users of libcurl | `Create`, `CreateClient`, destruction | `curl_global_init/cleanup`, `SharedPointer` |
| `CurlHttpClient`, `HttpRequest` (`http/curl_http_client.cc`, `http_request.cc`) | the request; one easy handle per call | the setters, `SendRequest` and its two callbacks | libcurl, `Buffer`, `Slice`, `CurlHttp` |
| `Status` (`base/status.cc`), `MaybeAssign` (`include/enquery/utility.h`) | a `Rep` on the heap, or NULL | make, copy, assign, swap, destroy, `GetModule`, `GetMessage` | everybody that can fail |
| `Buffer`, `Slice`, `ScopePointer`, `ScopeLock` | values and helpers | | everybody |

What must be right, and what is hard about it:

- **Thread pool.** One queue, one condition variable that is signalled once per
  entry, and NULL tasks in the same queue as the workers' stop signal. Accepted
  tasks must run in order, once, and before the workers stop; a refused task
  must stay the caller's. `Execute` races `Shutdown`, several parties may shut
  down, workers run while `Init` is still starting others, and any of three
  pthread calls may fail half way.
- **Futures.** `Set` and `Notify` race for a callback, `Set` and `Get` for a
  sleeping thread; callbacks run outside the mutex and call back in; `Get`
  reads the value after the unlock.
- **Handles.** Promises and Futures are carried by callbacks that sit in the
  queues of values, and held by what values are set to. So a value may be destroyed by
  its own callback, in the middle of the `Set` or `Notify` that executes it, from the
  destructor of another value, or while another value is assigned under its mutex; and
  values may keep one another alive in a circle.
- **Executive.** `Submit` hands out a future after the task may already be gone,
  and deletes what was refused; tasks may wait for other tasks, and submit more
  while the destructor drains the pool. Who deletes the execution depends on two
  settings.
- **Shared pointers, CurlHttp.** Who destroys what, when several threads drop
  the last references while others make new ones.
- **CurlHttpClient.** Eight calls that may fail, each with its early return, and
  callbacks that libcurl calls as often and in such pieces as it likes; and all of
  it only while somebody keeps the library initialized.
- **Status.** A value to its user, a pointer to a private `Rep` in truth.

`PROJECT.json` lists every hazard at its line with the properties that cover it.

## The modules

    ExecutionContract      what an Execution promises about a task
      <- ThreadPool        implements it (TLC, and proved in ThreadPoolProofs)
      <- Executive         implements it, over either execution (TLC, and proved in
                           ExecutiveProofs)
    FutureContract         what a Promise and its Futures promise
      <- SharedValue       implements it (TLC, and proved in SharedValueProofs): one
                           value, inside Set, Get and Notify
    Handles                many values, and the handles that variables, callbacks and
                           values hold of them
    SharedPointer          the reference count, inside its operations
    CurlHttp               the users of libcurl
    CurlRequest            building and sending a request
      HttpClient           both together: clients that send requests
    StatusContract         a Status as a value
      <- Status            implements it (TLC, and proved in StatusProofs)

    ThreadPoolProofs, ThreadPoolShutdownProofs, SharedValueProofs, HandlesProofs,
    ExecutiveProofs, SharedPointerProofs, HttpClientProofs, StatusProofs
                           the proofs, each about the module it is named for;
                           HttpClientProofs also about CurlHttp

`MC<module>` gives a module's constants their values for TLC.

Each module has *mutants* next to the definition they alter: a definition
with the same parameters and a plausible bug in it (a dropped test, an off-by-one, a
swapped order). Nothing uses them. `PROJECT.json` names, for every property of
every passing run, a mutant that makes TLC find the property violated when it
takes the place of the definition it is derived from.

### ThreadPool

Everything between `pthread_mutex_lock` and `pthread_mutex_unlock` is one
action: `tasks_` and `shutting_down_` are touched nowhere else, so no other
thread can see the state in between. What the code does outside the mutex,
above all in the loops of `Shutdown`, is one action per round.

| code | model |
|------|-------|
| `tasks_` (`push_front`, `back`, `pop_back`) | `tasks`: `Append`, `Head`, `Tail` |
| `pthread_cond_wait`, `pthread_cond_signal` | `pc[w] = "waiting"`; `Signal` makes one waiting worker `"ready"`; `SpuriousWakeup` |
| `Rep::Init` and `Create`, with each of their failures | `InitSync`, `InitSyncFails`, `StartThread`, `StartThreadFails`, `Publish` |
| `Rep::Execute`, which refuses NULL and, once `shutting_down_` is set, every task | `Execute`, `Refuses` |
| `GetNextTask`, `WorkerLoop` | `GetNextTask`, `RunTask`, `DeleteTask` |
| `Rep::Shutdown`: the flag, the NULL tasks, the joins, `clear()` | `ShutdownEnter`, `PushNull`, `JoinThread`, `ShutdownReturn`, with an activation `call[c]` per caller |
| `~ThreadPoolExecution`, `~Rep` | `BeginDelete`, then `Shutdown` of `Owner`, then `DeleteRep` |

A call may pass NULL, which must not get into the queue; the assertion in front of that
test is taken as compiled out. `accepted` and `taken` are history variables. A caller of `Shutdown` is a
client, the owner (from `~Rep`), or a task in `ShutdownTasks` whose `Run` calls
it; for such a task the join of the own thread fails with EDEADLK, and
`~Thread` ignores that. A caller's obligations are in the guards: the pool is
used between `Create` and the destructor, and not deleted while somebody else
is inside `Shutdown`; a running task may call `Execute` at any time, also during
the destructor.

### SharedValue

The mutex is a variable here, because the interesting steps are those without
it. Each thread has a stack of the calls it is inside: `Set` pushes the callbacks
it executes, and these may call `Set`, `Get` or `Notify` again.

| code | model |
|------|-------|
| `pthread_mutex_lock`, and the end of `pthread_cond_wait` | `Lock` |
| `Set`: assign, swap the queue out, broadcast, unlock | `Set`, with `Wake` |
| `CallbackQueue::Dispatch(true)` on the local queue | `Dispatch`, `Return` |
| `Get`: the loop; `return value_` after the unlock | `Get`; `Read` |
| `Notify`: queue, or unlock and execute | `Notify` |
| destruction of Promises and Futures, `~SharedValue` | `Release` |

`Read` during the critical section of another thread's `Set` is a data race: it
may give any value or `Torn`. With one `Set` it never happens (`ReadsAreOrdered`).

`Programs` says what a program is like: which threads hold the promise, how often
it is set, how often a future is read. `OnceAndTwice` in `MCSharedValue` has one of each kind, and
`Init` picks one; `ReadsAreOrdered` and `ImplementsContract` ask about the program
that sets once, the others about both.

### Handles

Where `SharedValue` looks inside one value, `Handles` looks at many: `Get`, `Notify`
and each change of a count are one step, and what is modelled are the handles
themselves. They are in variables, in callbacks, and in `value_`: a `T` may be a
Future, or something with Futures and Promises in it.

| code | model |
|------|-------|
| variables of type `Promise` and `Future` | `slot` |
| `Promise()`, copies, assignments, `GetFuture`, destruction | `MakePromise`, `CopyHandle`, `DropHandle`, all of which are `Assign` |
| `SetValue` of a `T` with handles in it | `CallSet`; the argument has copies of them and lasts until the call is over |
| `GetValue`, `Notify(functor, ...)` with handles as arguments | `CallGet`, `CallNotify`; `carries` is what a `Callback_n` holds |
| `value_ = value` | `Set`, and `ReleaseHandle` for what the old value held, with the mutex held (`Unlocked`) |
| the rest of `Set` | `Swap` |
| `return value_`, and the use of what was returned | `Get`, `TakeResult`, then `ReleaseHandle` |
| `Dispatch(true)`, `delete cb` | `Dispatch`, `Return` |
| the last `~SharedPointer`, `~SharedValue` with `~CallbackQueue` and then `~T` | `ReleaseHandle`, `Destroy` with `DeletesNext` |

Each thread has a stack of activations, since a callback may make any of these
calls, and a destructor may run destructors. A callback is a program's code: it may do
anything a thread may with the variables and with what it carries, also assign to the
variable through which the running call was made.
`Frame.self` is the `SharedValue` an activation still touches: none after
the unlock of `Set` and of `Notify`, which is what `NoUseAfterDestroy` relies on.
A thread that waits for a value nobody can set any more sleeps for ever; the model
counts that as an end (`Finished`), because the code says nothing against it.

Of a `T`, the model knows the handles in it: `T()` has none, a copy has copies of
them, an assignment copies the new ones before the old ones are released. What
`GetValue` returned is read by copying handles from it into variables; calls are made
through variables, or through what a callback carries. `Get` copies `value_` in the step in which it finds the value set; that
the copy comes after the unlock is a matter of `SharedValue`, which shows that a `Get`
races with a second `Set` and never with the only one. As there, a program chosen at
the start (`Programs`) says how many threads, variables and callbacks it uses, and how
many handles a callback and a value hold.

### Executive

`Submit` is the steps between which the task may already run: `NewTask`,
`ExecuteHere` or `ExecuteOnPool`, then `AssignFuture` or `DeleteRefused`. `Run` is
`Task_1::Run` once the function has returned. The pool is the abstract one that
`ThreadPool` provides: it takes tasks in the order it accepted them and refuses
after `Shutdown`. What callers and functions do is the constant `Script`: a
sequence of submits and waits for each of them.

`settings` are `execution()` and `take_ownership()`, and `Init` is `Create` for each
combination. `Shutdown` and `Stop` are the program's shutdown of the pool;
`DeleteExecutive` begins `~Executive`, which is `DeleteOwned` for an execution it
owns: at once for the current thread, after the pool has drained and joined for a
pool. `DeletePool` is the program's deletion of a pool it kept. The program's
obligation is in the guards: no caller is inside `Submit` or comes back to it
once `~Executive` has begun. Functions may, while a pool drains, because
the destructor waits for them.

### SharedPointer

Only the atomic increment and decrement of the count are atomic. A copy is
`BeginCopy` (the pointers), `Up`, `Store`; an assignment `BeginAssign`, `Up`,
`Swap` and the `Down` of the temporary; a destruction `BeginDestroy`, `Down`; who
gets zero goes on to `Delete`. A thread does not write a SharedPointer that
another one uses, the same obligation any variable has; two threads may read one
at a time. `Make` also stands for the default constructor, which counts a NULL.

### CurlHttp, CurlRequest and HttpClient

`CurlHttp` counts the users of libcurl: `LoadLibrary` and `UnloadLibrary` are
critical sections of the global mutex, and `Down` is the atomic decrement that
comes before the latter, so that others run between the two. A client keeps its
`CurlHttp`'s reference, not a user count of its own, as
`http/curl_http_test.cc` and `http/http_client_test.cc` expect.

`CurlRequest` is an `HttpRequest` and `SendRequest`: `SetMethod` and `SetBody` build the request,
`Send` calls, with or without a `status_out`, `InitHandle`, then `SetOption` once per `curl_easy_setopt` in the code's order,
`ReadBody` and `WriteBody` for what libcurl does with the two callbacks,
`EndTransfer`, and `Collect` when the caller goes on, after which the request may be
sent again or changed. `ReadBody` is external: how libcurl drives an upload is taken
from how the code uses it (POST and PUT upload, and without a read function the
default one reads standard input). Every call of libcurl gives an answer, `"ok"` or one
of `Errors`; `OptionFailed` and `TransferFailed` are the tests the code makes of it. The
history variable `failed` keeps a failure whether it is tested or not, so that one that
is overlooked shows; `status` is the caller's variable, which keeps what an earlier call
left in it.

`HttpClient` composes them: `SendRequest` is a step of both (`BeginRequest` of a
client of `CurlHttp`, `Send` of `CurlRequest`), `Returned` likewise, `Transfer` is a step inside
`SendRequest`, and `Others` is everything other threads do to `CurlHttp`s and
clients meanwhile. One request is in progress at a time: what different
requests share is the library only, which is what `CurlHttp` is about, and there
any number of clients may be sending.

### Status

`heap` maps the addresses that are allocated to what the `Rep` there holds, so that a
freed address reads as `Garbage` and may be used again. Assignment is its copy,
`Swap` and `DestroyTemporary`; `BeginReport` is `MaybeAssign(status_out,
MakeError(...))` with its two temporaries, or only one when `status_out` is
NULL. `pointer` is what `GetModule` and `GetMessage` lend. `asked` is what the last call
that writes was given, so that `StatusContract` can say what must come of it: a
construction gives its value at once, an assignment begins and finishes, and each gives the
value of its source and no other. Codes and texts, also
those of system errors, are the abstract values `Errors`.

## The runs

| run | instance | asks |
|-----|----------|------|
| `thread_pool_safety` | 0-3 workers (also none, for a bad `thread_count`), 3 tasks, 2 clients that shut down, 1 task that does; 171,190 states | `TypeOK`; `QueueIsFIFO`; `NoLostWakeup`; `ShutdownDrains` and `RepOutlivesItsThreads`, both unless a task shut down its own pool; `ImplementsContract` |
| `thread_pool_liveness` | 0-2 workers, 3 tasks, 2 clients; about 67,000 states | `AcceptedTasksComplete`, `ShutdownTerminates`, `DeletionTerminates` |
| `thread_pool_second_shutdown` | 2 workers, 2 tasks, 2 clients | violated: `ReturnMeansDrained` |
| `thread_pool_task_shutdown` | 2 workers, 2 tasks, 1 of which shuts down | violated: `QueueEmptyAfterJoin` |
| `shared_value` | a promise set once and shared by 3 threads, and one set twice by 2 threads; 2 callbacks, 2 values; 67,200 states | `TypeOK`, `NobodyStranded`, `CallbacksDoNotBlock`, `QueuedInOrder`, `ReadsAreOrdered`, `ExecutedOnce`, `ImplementsContract`, `GetReturns`, `CallbacksAreExecuted` |
| `handles` | 2 threads, 2 variables, 2 values, 2 callbacks, up to 2 handles in each of these, in six kinds of programs; 973,929 states up to symmetry | `TypeOK`, `CountIsExact`, `NoUseAfterDestroy`, `OneOwner`, `LeaksAreCycles` |
| `executive` | all settings, 2 callers, 2 workers, 4 tasks; 29,837 states | `DeletedByItsOwner`, `NothingOutlivesExecution`, `ImplementsContract`, `FuturesAreAnswered`, `CallersFinish`, `DeletionReturns` |
| `shared_pointer` | 2 threads, 3 pointers, 2 objects; 4,962 states | `CountIsExact`, `NoUseAfterDelete`, `LastOneDeletes` |
| `http_client` | 3 `CurlHttp`s, 2 clients, every method, bodies of 0-2 bytes, chunks of 1-2, 1 error of libcurl; 713,862 states up to symmetry | `CountIsExact`, `InitsAlternate`, `LibraryOutlivesUsers`, `FailureIsReported`, `CallbacksHaveTheirData`, `HandlesNeedLibrary` |
| `status` | 3 Statuses, 5 Reps, 2 errors; 1,372 states up to symmetry | `OneOwner`, `IsAValue` |
| `curl_request_upload` | bodies of 0-2 bytes, chunks of 1-2 | violated: `SentIsPrefixOfBody` |
| `curl_request_no_body` | the same | violated: `EmptyBodySendsNothing` |

Deadlock is checked in every run. The `Finished` stutter of each module says
when its system may stop, so a deadlock would be threads that wait for one
another (or for a signal that was lost).

**Bounds.** Three workers are the fewest with one that takes an entry, one that
sleeps and one that is woken at the same time; three tasks leave one in the queue
when two are running. Each task is submitted once: a `Task` is deleted after it
has run, so a second submission is a different task. Two clients and the owner
make three calls of `Shutdown`. `SharedValue` bounds the calls of `Get`
and `Set` per program; two callbacks are enough for an order, for one
that is registered inside the other, and for one queued while the other runs.
In `Handles`, two values make the circles of length one and two, through callbacks,
through what the values are set to, and through both; two callbacks nest a dispatch in
a dispatch; with two handles one callback or one value holds handles of both values.
No program has all of this at once. With two threads and two variables: two callbacks
that carry a handle, or one that carries two, or no callback and values that hold a
handle. With two threads and one variable: two callbacks and values with one handle
each, or one callback and values with two. With one thread and two variables: one
callback that carries two handles and values that hold one. `CurlHttp` needs two `CurlHttp`s to overlap
and a third that finds the library unloaded. The bounds of `CurlRequest` let the
read callback be called with less room than the body and again after it; a byte
of a body is its index. Five `Reps` are three Statuses and the two temporaries of
`MaybeAssign`, so nothing is disabled for want of an address. `Crossed` in
`MCExecutive` has a task that submits another, one that waits for a task queued
before it, and one that waits for a task of the other caller, queued before or after
it; with two workers that is the most that must not deadlock.
Symmetry is used where no liveness is checked (it is unsound for that): in
`thread_pool_safety` for the tasks and clients no property or constant names, and
in `handles`, `http_client` and `status`, whose constants are interchangeable.

**Fairness.** Weak fairness of a thread's own steps: the scheduler runs every
thread, critical sections are finite, and a step that is enabled stays enabled.
For the mutex of `SharedValue`, which comes and goes, weak fairness is enough because
the bounds make the competition for it finite; what is not assumed is a fair
mutex. `RunTask` says that a task's `Run` returns, `ShutdownEnter(Owner)` that a
destructor that was entered goes on. Nobody has to submit, set a promise, shut
down, or delete anything. In `Executive` each agent goes through its script, each worker
takes tasks, a task that can go on does (`Run`, `Delete`), and a shutdown or a
deletion that began goes on (`Stop`, `DeleteOwned`); `Shutdown`, `DeleteExecutive`
and `DeletePool` may never happen. For `SharedPointer` only an operation that has
begun must go on. `Handles`, `HttpClient` and `Status` assume no fairness.

**What the passing runs say together.** An accepted task is run once and
deleted once, in the order of acceptance, with or without a shutdown, and a
refused one never; no worker sleeps while there is work it is needed for, so one
`pthread_cond_signal` per entry is enough (the TODO of `TPE:103` asks); whatever
fails during construction, the Rep is taken down with its threads. A promise that
is set once implements an eventual value; set twice, callbacks are still
executed once, but a `Get` may race with the second `Set`. A task may wait for a
task that was submitted before it, however small the pool: the queue is FIFO, so
the oldest unfinished one never waits for one that has no worker. (Tasks that
wait for tasks submitted *after* them can occupy all workers; the code does not
prevent that and no document promises it.) `~Executive` returns although
functions submit and wait while it drains the pool, and a future that was handed
out is answered before the execution is gone. Values, callbacks and handles are
destroyed exactly once, whoever drops the last handle from wherever, and the one
way to leak values is a circle of them, each of which holds a handle of the next one, in
a callback that waits for it to be set, or in what it was set to. libcurl is initialized whenever an easy
handle is open, and every path out of `SendRequest` reports what happened.

## Where code and documents disagree

- `thread_pool_second_shutdown`: a `Shutdown()` that overlaps another one returns
  at once (`TPE:114`), before accepted tasks have completed;
  `thread_pool_execution.h:65-66` says it waits for all of them.
- `thread_pool_task_shutdown`: when a task calls `Shutdown()` on its own pool, the
  join of its own thread fails, its NULL task stays in the queue, and the assertion of
  `TPE:145` fails. Nothing documents that a task must not do so. With `NDEBUG`
  the call returns, tasks are still run and deleted once (`ImplementsContract` in
  `thread_pool_safety`), and the worker leaves the loop later, with nobody to join it. If the
  owner deletes the pool in the meantime, that thread uses a Rep that is gone: the reason for
  the premise of `RepOutlivesItsThreads`. What the model does past that point is
  not the program any more, which weakens no property (they are checked in all
  the states before).
- `curl_request_upload`: `curl_read_buffer` starts over at the first byte of the
  body each time and never returns 0.
- `curl_request_no_body`: a POST or PUT without a body sets no read function, and
  libcurl's default one reads standard input.

## The proofs

`ThreadPoolProofs` holds four theorems about `ThreadPool`, for every set of tasks
and clients, every number of threads and every `ShutdownTasks`, from
`ThreadPoolAssumption` alone (the kinds of callers are distinct, NULL is no task,
`MaxThreads` is a natural number):

| theorem | states | argument |
|---------|--------|----------|
| `TypeCorrect` | `Spec => []TypeOK` | `TypeOK` is inductive. The cases that need care are the frames of `Shutdown` (`AdvanceType`) and the head of the queue (`TakeType`). |
| `NoWakeupIsLost` | `Spec => []NoLostWakeup` | Inductive given `TypeOK`. A push adds one entry and, if anybody sleeps, moves one worker from `Waiting` to `Ready`, so the inequality keeps (`WakeupPush`); a worker that takes an entry removes one of each (`WakeupTake`); a worker goes to sleep only on an empty queue; every other step leaves the queue alone and puts nobody to sleep (`WakeupStable`). |
| `QueueStaysFIFO` | `Spec => []QueueIsFIFO` | Not inductive as it stands: an accepted task pushed behind a NULL breaks it. `FIFOInv` adds that before `shutting_down_` is set the queue holds nothing but the backlog, and that a call that pushes NULLs has set it; `Execute` tests the flag in the critical section that pushes. Then one lemma per operation on the queue (`FIFOExecute`, `FIFOPush`, `FIFOTake`). |
| `PoolIsAnExecution` | `Spec => ImplementsContract` | The contract's guards say what may not happen twice, so the steps need an invariant that knows where a task is. `OneOwner` is that: a task in the queue is there once, untouched and with no worker (`QueuedOnce`); a task with a worker is with one worker, accepted, not run yet or run and not deleted (`HeldOnce`); a task never submitted is untouched (`Untouched`). Given it, `Execute`, `CallerDelete`, `RunTask` and `DeleteTask` are steps of the contract and all others stutter. Needs `QueueIsFIFO`'s types but not the order. |

`ThreadPoolShutdownProofs` looks at the end of a pool, for any number of threads:

| theorem | states | argument |
|---------|--------|----------|
| `ShutdownAlwaysDrains` | `Spec => []ShutdownDrains` | An invariant of four parts. `Serial`: one caller of `Shutdown` is past the test of the flag. `Roster`: no thread leaves `threads_` before that caller joins it, and it joins the numbers in order. `Count`: as many NULL tasks are in the queue, or with threads that ended by one, as rounds of its first loop are done. `NoneLost`: an accepted task is in the queue, with a worker, or deleted. When all threads are joined none of the NULLs is left, and since the queue is FIFO no task is left before them. Under the premise of the property, that no task shuts down its own pool; without it the join fails and `Count` with it. |
| `RepAlwaysOutlivesItsThreads` | `Spec => []RepOutlivesItsThreads` | From the same invariant and `Phases`, which holds without a premise: mutex and condition variable exist exactly between `Init` and `~Rep`. |

`SharedValueProofs`, for any threads, callbacks, values and programs:

| theorem | states | argument |
|---------|--------|----------|
| `TypeCorrect` | `Spec => []TypeOK` | Part of `SInv`, the invariant behind all the others. Most of it is about the frames of the stacks: `Shaped` says which calls there are, that only a callback or a dispatch has a call above it, and what a frame says of the value (who dispatches, is in a callback or reads: it is set; who sleeps: it is not). |
| `NobodyIsStranded`, `CallbacksNeverBlock` | `[]NobodyStranded`, `[]CallbacksDoNotBlock` | From `Shaped`, from `Excludes` (a thread holds the mutex exactly when its innermost call is in a critical section), and from `Settled` (once the value is set, the queue is empty). |
| `ReadsAreAlwaysOrdered` | `[]ReadsAreOrdered` | `WrittenOnce`: with a Promise that is set once, who is about to write is alone and the value not set; who reads after the unlock knows that it is. |
| `CallbacksExecutedOnce` | `[]ExecutedOnce` | `OnePlace`: a registered callback is in the queue or in one frame of one thread, once, and no other callback is in either. `Kept` (who is inside a call has a handle) excludes that one is dropped meanwhile. |
| `CallbacksKeepTheirOrder` | `[]QueuedInOrder` | `QInv`, over `SInv`: of two callbacks that were queued, `Precedes` says that the earlier one is done, or the later one dropped, or the earlier is ahead in the queue or in the list of one dispatch, or is being executed while the later one is still in the list of the dispatch below it. `QueueTaken` and `FirstTaken` are what `Set` and `Dispatch` do to the queue and the frames; every other step leaves them in place. |
| `SharedValueImplementsContract` | `Spec => ImplementsContract` | `CallNotify` registers, `Set` assigns, `Read` answers, `Return` executes, the last `Release` drops if the value was never set; all other steps stutter. The guards of the contract follow from `SInv`. |

`HandlesProofs`, for any threads, variables, values and callbacks, finitely many or
not, and callbacks and values with any number of handles:

| theorem | states | argument |
|---------|--------|----------|
| `TypeCorrect`, `CountStaysExact` | `Spec => []TypeOK`, `[]CountIsExact` | Neither is inductive. A release takes one off a count, which is a natural number before and after only if the handle released was counted; a copy raises the count of a value that is there only if the handle it copies keeps it there. The invariant `Inv` has five parts: `AllFit` (what each kind of activation has in hand), `UsesAreBacked`, `DestroyedOnce`, `Counted` (`CountIsExact`, of finite sets), `InOnePlace`. Every operation replaces the innermost activation of one thread: `Lands` says so once, and `DroppedLands`, `FramesStay`, `Deaths`, `HeldLands` say what that does to each part. One lemma per action (`...Keeps`) puts them together. |
| `NothingUsedAfterDestroy` | `Spec => []NoUseAfterDestroy` | `UsesAreBacked`: a call that still touches its value is the innermost of its thread, but for destructors that run while `Set` assigns `value_`, and there is a handle of the value that stays: that in the variable, which no other thread writes meanwhile, or one of the callback that makes the call. `DestroyedOnce`: a value without handles is not constructed, destroyed, or in the hands of exactly one activation of its destructor. A dispatch and a callback touch no value (`AfterUnlock`), so they need no handle. |
| `EveryCallbackHasOneOwner` | `Spec => []OneOwner` | `InOnePlace`: no callback is in two places (`Places` are the queues and the activations) or twice in one, and exactly those that were handed over and not deleted are in some place. `Appended`, `Splits` and `Over` are the moves between places. |
| `LeaksAreOnlyCycles` | `Spec => []LeaksAreCycles` | A leaked value has a handle, by `DestroyedOnce` and `Counted`; not in a variable or in an activation, or it could be reached; so in what another value, or itself, was set to, or in a callback in its queue, and that value is leaked too (`HeldByLeaked`). Going back like that, among finitely many values, the sets `LeadTo` of values one may have come from cannot shrink for ever (`Earliest`, with the well-foundedness of strict inclusion), and where they no longer shrink there is a circle (`Circles`). |

`ExecutiveProofs`, for any callers, tasks, workers and scripts, and every setting:

| theorem | states | argument |
|---------|--------|----------|
| `ExecutionIsDeletedByItsOwner` | `Spec => []DeletedByItsOwner` | `Owners`: the Executive deletes what `Ownership` gave it and only in its destructor, the program only a pool it kept. |
| `NothingEverOutlivesExecution` | `Spec => []NothingOutlivesExecution` | True of the moment of the deletion because of what holds long before. `InTheEnd`: the callers are done before `~Executive` begins, and nothing is queued or runs once the pool has stopped. `Placed`: a task that runs has a worker, or is inside a `Submit()` if there is no pool. `Submitting`: who is inside `Submit()` is there with a task of its own, in a stage that fits, so that a function which still submits is a task that runs. `Answered`: a task that was run has answered. |
| `ExecutiveIsAnExecution` | `Spec => ImplementsContract` | Given that invariant, each step of `Submit()`, of a worker and of the current thread is a step of `ExecutionContract` on the stage of one task (`StageImplements`), all others stutter. |

`SharedPointerProofs`, for any number of threads, pointers and objects (finitely
many of the first two):

| theorem | states | argument |
|---------|--------|----------|
| `TypeCorrect`, `CountStaysExact` | `Spec => []TypeOK`, `[]CountIsExact` | Neither is inductive: that the decrement stays in the naturals needs the exact count, and that a copy counts an object which is still there needs the variable it copies from. `Shaped` says what each operation knows of its variables (the pointer it has in hand is still the one in `src`), `Exclusive` that nobody else works on a variable that is being written, `DyingUnused` that an object which is new, deleted or about to be has no pointer and one deleter. `IInv` is their conjunction; one lemma per operation. |
| `NothingUsedAfterDelete` | `Spec => []NoUseAfterDelete` | From `IInv`: when the count becomes zero, `CountIsExact` leaves no other pointer, and `Shaped` excludes a copy that is not counted yet, since the variable it came from would be one. |

`HttpClientProofs`, first about `CurlHttp`, for any number of `CurlHttp`s and clients:

| theorem | states | argument |
|---------|--------|----------|
| `TypeCorrect`, `CountStaysExact`, `InitsStayAlternate`, `LibraryStays` | `[]TypeOK`, `[]CountIsExact`, `[]InitsAlternate`, `[]LibraryOutlivesUsers` | Whether the end of a client ends a user depends on `refs`, so `IInv` adds `RefsAreExact` (the count of a `CurlHttp` is its clients and itself) and `InOrder` (it has clients only between its creation and its unloading). |

Then about `HttpClient`, for bodies and transfers of any size:

| theorem | states | argument |
|---------|--------|----------|
| `RequestsKeepTheLifeCycle` | `HttpSpec => Spec` | Every step of the composition is a step of `CurlHttp` or leaves its variables alone. So the theorems above hold of `HttpClient` too. |
| `FailuresAreReported` | `HttpSpec => []FailureIsReported` | With `HandleIsLocal`: as long as the call goes on nothing has failed, and a handle is open only between `curl_easy_init` and the return. The tests of the answers carry it from one call of libcurl to the next. |
| `CallbacksAlwaysHaveTheirData` | `HttpSpec => []CallbacksHaveTheirData` | `InOptionOrder`: the options on the handle are the first ones of `SendRequest`, as many as calls were made; the transfer begins with all of them. |
| `HandlesHaveLibrary` | `HttpSpec => []HandlesNeedLibrary` | With `SenderIsAlive`: the client that sends is not deleted under its caller; then `LibraryStays`. |

`StatusProofs`, for any number of `Status`es and addresses:

| theorem | states | argument |
|---------|--------|----------|
| `EveryRepHasOneOwner` | `Spec => []OneOwner` | The invariant `SInv`: no two Statuses or temporaries have the same `Rep` (`Owned`), temporaries exist only inside a call (`InCall`), and a pointer that was lent is to the `Rep` its Status still has (`LentIsOwn`). |
| `StatusIsAValue` | `Spec => IsAValue` | Given `SInv`, a construction writes what its source reads, an assignment begins where it copies and finishes where its `Swap` is, and a `Rep` that is freed or made is nobody else's. Between the two `HoldsMeant`: one of the temporaries holds what the source reads. |

The assumptions are the named ASSUMEs of the modules only: distinct kinds of
values, finite sets where something is counted, bounds that are natural numbers.
TLC checked every invariant on the instances above before it was proved.

Every safety invariant and every refinement that the passing runs check is proved.
Checked by TLC only are the liveness properties, which need rules for fairness and
ENABLED: `AcceptedTasksComplete`, `ShutdownTerminates`, `DeletionTerminates`,
`GetReturns`, `CallbacksAreExecuted`, `FuturesAreAnswered`, `CallersFinish`,
`DeletionReturns` and `LastOneDeletes`.

## What is not modelled

- `testing.h`, the build files, the demo and the tests: no state of the library.
- `ScopePointer` and `ScopeLock` have no module of their own; the deletion and the
  critical section they stand for are part of the actions that use them.
- `Slice::RemovePrefix`, which nothing calls, and the comparison of buffers. The
  URI and the content type of a request: the first is passed on as it is, the
  second is never given to libcurl. `Buffer` takes the address of its first
  element also when it is empty; what the standard library's build makes of that
  is not modelled, as nothing reads through the address.
- The assertion of `curl_http.cc:43` reads the count before the lock is
  taken; it exists in debug builds only, has no effect, and is left out.
- A `Get` on a value whose last promise goes away unset sleeps for ever. A circle of
  callbacks that wait for values that are never set leaks, and so does a value that is
  set to something with a Future of its own. All of this is in the model (`Handles`); no
  document says that it should not be so.
- Memory exhaustion (an exception in `MakeError` between the `Rep` and its
  strings, for one), and failures of `pthread_mutex_lock` and the like, whose
  results the code does not look at.
- Calls that break a caller's obligation: a pool or an Executive used after its
  deletion, a variable written by two threads.

## What is left

Every part of the library that has state of its own is modelled, and every safety
property is proved. `CurlRequest` has proofs only as part of `HttpClient`. The models
of one layer assume the next as a whole: `Handles` takes `Get`, `Notify` and a change
of a count as one step each, and `Set` as the assignment of `value_` and the rest, `Executive` takes the pool as a queue. `SharedValue`,
`SharedPointer` and `ThreadPool` are where these are looked into; that one may stand
for the other is proved where a contract says it (`ThreadPool` and `Executive` both
implement `ExecutionContract`), and is otherwise a matter of comparing the guarantees:
`CountIsExact` and `NoUseAfterDelete` of `SharedPointer` are what `Handles` assumes of
a change of a count, `ExecutedOnce` of `SharedValue` what it assumes of `Set` and
`Notify`. Abstract specifications of these two that `Handles` is built on would make
it a proof.

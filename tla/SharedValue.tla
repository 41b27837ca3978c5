----------------------------- MODULE SharedValue -----------------------------
(***************************************************************************)
(* The SharedValue of include/enquery/futures.h, which a Promise and the   *)
(* Futures made from it share: Set(), Get() and Notify() called by any     *)
(* number of threads, the CallbackQueue, and the destruction of the value  *)
(* with the last Promise or Future.                                        *)
(*                                                                         *)
(* The mutex is explicit, because what the code does after the unlock is   *)
(* the point: callbacks run, and Get() reads value_, without it.  A        *)
(* callback may itself call Set(), Get() or Notify(), so every thread has  *)
(* a stack of the calls it is inside, the last one on top.                 *)
(***************************************************************************)
EXTENDS Integers, Sequences, FiniteSets

CONSTANTS
    Threads,
    Programs,       \* who holds what, and bounds: [promisers, holders : SUBSET Threads,
                    \* sets : Nat (calls of Set()), gets : Nat (of Get() per thread)]
    Callbacks,      \* the Callback objects, each given to Notify() once
    Values,         \* what a Promise may be set to
    Default,        \* T(), the value of value_ before the first Set()
    Torn,           \* what an unordered read of value_ may also give
    Nobody          \* the owner of a free mutex

ASSUME SharedValueAssumption ==
    /\ Programs \subseteq [promisers : SUBSET Threads, holders : SUBSET Threads,
                           sets : Nat, gets : Nat]
    /\ Nobody \notin Threads
    /\ {Default, Torn} \cap Values = {}

VARIABLES
    program,        \* the program that uses the value
    mutex,          \* the thread that holds mutex_, or Nobody
    ready,          \* ready_
    value,          \* value_
    callbacks,      \* callbacks_; push_front is Append and back() is Head
    alive,          \* FALSE once ~SharedValue ran
    holds,          \* which threads still hold their Promise or Future
    stack,          \* stack[th]: the calls th is inside, innermost first
    sets, gets,     \* how many Set() and Get() calls were made
    fate,           \* what became of each callback
    answer,         \* what the latest Get() of each thread returned
    order           \* history: the callbacks in the order they were queued

svVars   == <<mutex, ready, value, callbacks>>
userVars == <<program, alive, holds, sets, gets>>
vars == <<svVars, userVars, stack, fate, answer, order>>

\* One call: the function, where it is, its argument and the local CallbackQueue
\* of Set().
Frame(op, at, arg, calls) == [op |-> op, at |-> at, arg |-> arg, calls |-> calls]

Top(th) == Head(stack[th])
InCall(th, op, at) == stack[th] # <<>> /\ Top(th).op = op /\ Top(th).at = at

Push(th, f) == stack' = [stack EXCEPT ![th] = <<f>> \o @]
Pop(th)     == stack' = [stack EXCEPT ![th] = Tail(@)]
Goto(th, at) == stack' = [stack EXCEPT ![th] = <<[Head(@) EXCEPT !.at = at]>> \o Tail(@)]

\* Mutant: the constructor leaves value_ uninitialized.
Uninitialized == Torn

\* value_(T()).
Constructed == Default

Init ==
    /\ program \in Programs
    /\ mutex = Nobody
    /\ ready = FALSE
    /\ value = Constructed
    /\ callbacks = <<>>
    /\ alive = TRUE
    /\ holds = [th \in Threads |-> th \in program.promisers \cup program.holders]
    /\ stack = [th \in Threads |-> <<>>]
    /\ sets = 0
    /\ gets = [th \in Threads |-> 0]
    /\ fate = [cb \in Callbacks |-> "new"]
    /\ answer = [th \in Threads |-> Default]
    /\ order = <<>>

-----------------------------------------------------------------------------
(* Calls.  A thread calls through the handle it holds, from its own code or *)
(* from a callback it is executing.                                         *)

MayCall(th) == holds[th] /\ (stack[th] = <<>> \/ InCall(th, "execute", "body"))

CallSet(th, v) ==
    /\ MayCall(th)
    /\ th \in program.promisers
    /\ sets < program.sets
    /\ sets' = sets + 1
    /\ Push(th, Frame("set", "lock", v, <<>>))
    /\ UNCHANGED <<svVars, program, alive, holds, gets, fate, answer, order>>

CallGet(th) ==
    /\ MayCall(th)
    /\ th \in program.holders
    /\ gets[th] < program.gets
    /\ gets' = [gets EXCEPT ![th] = @ + 1]
    /\ Push(th, Frame("get", "lock", Default, <<>>))
    /\ UNCHANGED <<svVars, program, alive, holds, sets, fate, answer, order>>

CallNotify(th, cb) ==
    /\ MayCall(th)
    /\ th \in program.holders
    /\ fate[cb] = "new"
    /\ fate' = [fate EXCEPT ![cb] = "registered"]
    /\ Push(th, Frame("notify", "lock", cb, <<>>))
    /\ UNCHANGED <<svVars, userVars, answer, order>>

-----------------------------------------------------------------------------
(* The functions of SharedValue.                                           *)

\* pthread_mutex_lock, at the start of each function and at the end of
\* pthread_cond_wait.
Lock(th) ==
    /\ \E op \in {"set", "get", "notify"} : InCall(th, op, "lock")
    /\ mutex = Nobody
    /\ mutex' = th
    /\ Goto(th, "locked")
    /\ UNCHANGED <<ready, value, callbacks, userVars, fate, answer, order>>

\* The threads blocked in pthread_cond_wait.
Waiting == {th \in Threads : InCall(th, "get", "wait")}

\* Mutant: pthread_cond_signal for the broadcast.
OneOf(S) == IF S = {} THEN {} ELSE {CHOOSE th \in S : TRUE}

\* pthread_cond_broadcast.
Woken(S) == S

\* A woken thread has to lock the mutex before it tests ready_ again.
Wake(S) == [th \in Threads |-> IF th \in S
                               THEN <<[Top(th) EXCEPT !.at = "lock"]>> \o Tail(stack[th])
                               ELSE stack[th]]

\* Mutant: the callbacks stay behind.
NotSwapped(q) == [calls |-> <<>>, left |-> q]

\* callbacks_.swap(calls) with the empty local queue.
Swapped(q) == [calls |-> q, left |-> <<>>]

\* Mutant: the mutex is still held while the callbacks are executed.
Locked(th) == th

\* pthread_mutex_unlock comes before the callbacks.
Unlocked(th) == Nobody

\* Set() with the mutex: store the value, take over the queued callbacks, wake
\* every waiting thread, unlock.
Set(th) ==
    /\ InCall(th, "set", "locked")
    /\ value' = Top(th).arg
    /\ ready' = TRUE
    /\ callbacks' = Swapped(callbacks).left
    /\ stack' = [Wake(Woken(Waiting)) EXCEPT ![th] =
                   <<Frame("set", "dispatch", Top(th).arg, Swapped(callbacks).calls)>>
                   \o Tail(@)]
    /\ mutex' = Unlocked(th)
    /\ UNCHANGED <<userVars, fate, answer, order>>

\* Mutant: pop_back is forgotten.
NotPopped(q) == q

\* callbacks_.pop_back().
Popped(q) == Tail(q)

\* CallbackQueue::Dispatch(true) after the unlock: the next callback is taken
\* off the local queue and executed.
Dispatch(th) ==
    /\ InCall(th, "set", "dispatch")
    /\ LET calls == Top(th).calls IN
         IF calls = <<>>
         THEN Pop(th)
         ELSE stack' = [stack EXCEPT ![th] =
                          <<Frame("execute", "body", Head(calls), <<>>),
                            Frame("set", "dispatch", Top(th).arg, Popped(calls))>>
                          \o Tail(@)]
    /\ UNCHANGED <<svVars, userVars, fate, answer, order>>

\* A callback returns and is deleted.
Return(th) ==
    /\ InCall(th, "execute", "body")
    /\ fate' = [fate EXCEPT ![Top(th).arg] =
                  IF @ = "registered" THEN "executed" ELSE "executed twice"]
    /\ Pop(th)
    /\ UNCHANGED <<svVars, userVars, answer, order>>

\* Mutant: Get() does not test ready_.
NeverWaits == FALSE

\* while (!ready_)
MustWait == ~ready

\* The loop of Get() with the mutex: wait, which unlocks, or leave and unlock.
Get(th) ==
    /\ InCall(th, "get", "locked")
    /\ Goto(th, IF MustWait THEN "wait" ELSE "read")
    /\ mutex' = Nobody
    /\ UNCHANGED <<ready, value, callbacks, userVars, fate, answer, order>>

\* A second thread is inside the critical section of Set().
Writing == \E th \in Threads : InCall(th, "set", "locked")

\* return value_, without the mutex: a data race with a Set() in its critical
\* section, which may give the old value, the new one or a mixture.
Read(th) ==
    /\ InCall(th, "get", "read")
    /\ \E v \in IF Writing THEN Values \cup {Torn} ELSE {value} :
         answer' = [answer EXCEPT ![th] = v]
    /\ Pop(th)
    /\ UNCHANGED <<svVars, userVars, fate, order>>

\* Mutant: the callback is added at the end where Dispatch takes them.
AddBack(q, cb) == <<cb>> \o q

\* CallbackQueue::Add.
Add(q, cb) == Append(q, cb)

\* Notify() with the mutex: queue the callback, or unlock and execute it here.
Notify(th) ==
    /\ InCall(th, "notify", "locked")
    /\ mutex' = Nobody
    /\ \/ /\ ready
          /\ stack' = [stack EXCEPT ![th] =
                         <<Frame("execute", "body", Top(th).arg, <<>>)>> \o Tail(@)]
          /\ UNCHANGED <<callbacks, order>>
       \/ /\ ~ready
          /\ callbacks' = Add(callbacks, Top(th).arg)
          /\ order' = Append(order, Top(th).arg)
          /\ Pop(th)
    /\ UNCHANGED <<ready, value, userVars, fate, answer>>

SpuriousWakeup(th) ==
    /\ th \in Waiting
    /\ Goto(th, "lock")
    /\ UNCHANGED <<svVars, userVars, fate, answer, order>>

-----------------------------------------------------------------------------
(* A thread destroys its Promise or Future; the last one takes the          *)
(* SharedValue along, whose CallbackQueue deletes what it still holds       *)
(* without executing it.                                                    *)

Release(th) ==
    /\ holds[th]
    /\ stack[th] = <<>>
    /\ holds' = [holds EXCEPT ![th] = FALSE]
    /\ IF \E other \in Threads \ {th} : holds[other]
       THEN UNCHANGED <<alive, callbacks, fate>>
       ELSE /\ alive' = FALSE
            /\ callbacks' = <<>>
            /\ fate' = [cb \in Callbacks |->
                          IF \E i \in 1..Len(callbacks) : callbacks[i] = cb
                          THEN "dropped" ELSE fate[cb]]
    /\ UNCHANGED <<program, mutex, ready, value, stack, sets, gets, answer, order>>

Finished == ~alive /\ UNCHANGED vars

-----------------------------------------------------------------------------
Call(th) ==
    \/ \E v \in Values : CallSet(th, v)
    \/ CallGet(th)
    \/ \E cb \in Callbacks : CallNotify(th, cb)

Step(th) ==
    \/ Lock(th) \/ Set(th) \/ Dispatch(th) \/ Return(th)
    \/ Get(th) \/ Read(th) \/ Notify(th)

Next ==
    \/ \E th \in Threads : Call(th) \/ Step(th) \/ SpuriousWakeup(th) \/ Release(th)
    \/ Finished

Spec == Init /\ [][Next]_vars

\* Every thread that can go on inside a call eventually does: critical sections
\* are finite, and the bounds make the competition for the mutex finite.  It is
\* not assumed that anyone calls Set().
Fairness == \A th \in Threads : WF_vars(Step(th))

FairSpec == Spec /\ Fairness

-----------------------------------------------------------------------------
(* Properties.                                                             *)

Frames == [op : {"set", "get", "notify", "execute"},
           at : {"lock", "locked", "wait", "read", "dispatch", "body"},
           arg : Values \cup Callbacks \cup {Default},
           calls : Seq(Callbacks)]

TypeOK ==
    /\ mutex \in Threads \cup {Nobody}
    /\ ready \in BOOLEAN
    /\ value \in Values \cup {Default}
    /\ callbacks \in Seq(Callbacks)
    /\ alive \in BOOLEAN
    /\ holds \in [Threads -> BOOLEAN]
    /\ stack \in [Threads -> Seq(Frames)]
    /\ program \in Programs
    /\ sets \in 0..program.sets
    /\ gets \in [Threads -> 0..program.gets]
    /\ fate \in [Callbacks -> {"new", "registered", "executed", "executed twice",
                               "dropped"}]
    /\ answer \in [Threads -> Values \cup {Default, Torn}]
    /\ order \in Seq(Callbacks)

\* Once the value is set no callback is left in the queue and nobody sleeps: a
\* Notify() or a Get() that loses the race against Set() by one instruction is
\* not stranded (futures.h:121-127, 131-136, 140-151).
NobodyStranded == ready => callbacks = <<>> /\ Waiting = {}

\* A thread that executes a callback never sleeps in a Get() of the callback and
\* never waits for a mutex it holds itself ("this makes it possible for a
\* callback to call Get() on a future without causing deadlock",
\* futures.h:121-123).
CallbacksDoNotBlock ==
    \A th \in Threads :
        /\ mutex = th => Top(th).at = "locked"
        /\ (\E i \in 1..Len(stack[th]) : stack[th][i].op = "execute")
             => th \notin Waiting

\* Callbacks that were queued are executed in the order of their registration,
\* one after the other.
QueuedInOrder ==
    \A i, j \in 1..Len(order) :
        i < j /\ fate[order[j]] = "executed" => fate[order[i]] = "executed"

\* However often the value is set, no callback is executed twice, none is both
\* executed and dropped, and a dropped one was never due.
ExecutedOnce ==
    \A cb \in Callbacks :
        /\ fate[cb] # "executed twice"
        /\ fate[cb] = "executed" => ready
        /\ fate[cb] = "dropped" => ~ready /\ ~alive

SetOnce == program.sets = 1

\* With a Promise that is set once, the read of value_ after the unlock in Get()
\* is ordered after the write in Set() (futures.h:115, 136-137).
ReadsAreOrdered ==
    SetOnce => \A th \in Threads : InCall(th, "get", "read") => ~Writing

\* The value and its callbacks behave as an eventual value: assigned, then
\* answered to every Get(), each callback executed once and never before.
Contract == INSTANCE FutureContract
              WITH Unset <- Default, value <- IF ready THEN value ELSE Default,
                   Answers <- Values \cup {Torn}, once <- SetOnce
ImplementsContract == Contract!Spec

\* A thread inside Get() returns once the value is set.
GetReturns ==
    \A th \in Threads :
        ready /\ stack[th] # <<>> /\ Top(th).op = "get"
            ~> stack[th] = <<>> \/ Top(th).op # "get"

\* Every registered callback is executed once the value is set, on whichever of
\* the two threads the race between Set() and Notify() leaves it to.
CallbacksAreExecuted ==
    \A cb \in Callbacks :
        ready /\ fate[cb] = "registered" ~> fate[cb] = "executed"
==============================================================================

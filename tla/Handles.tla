------------------------------- MODULE Handles -------------------------------
(***************************************************************************)
(* The Promise and Future objects of include/enquery/futures.h: handles    *)
(* that share a SharedValue through a counted pointer, are copied and      *)
(* assigned, carried by the callbacks that Notify() queues in a            *)
(* SharedValue, and held by what a value is set to.  So a callback or a    *)
(* value may keep a value alive; a callback may drop the last handle of    *)
(* the value that is calling it, or die unexecuted with the value that     *)
(* holds it, and take further values along.                                *)
(*                                                                         *)
(* SharedValue and SharedPointer show what happens inside Set(), Get(),    *)
(* Notify() and a change of the count; here each of these is one step.     *)
(***************************************************************************)
EXTENDS Integers, Sequences, FiniteSets, SequencesExt

CONSTANTS
    Threads,
    Slots,          \* variables of type Promise or Future
    Values,         \* the SharedValues, each constructed at most once
    Callbacks,      \* the Callback objects, likewise
    Programs,       \* what the program uses, and bounds: [threads : SUBSET Threads,
                    \* slots : SUBSET Slots, callbacks : SUBSET Callbacks, carried : Nat
                    \* (the handles in a callback's functor and arguments), held : Nat
                    \* (those in what a value is set to)]
    None

ASSUME HandlesAssumption ==
    /\ None \notin Values \cup Slots
    /\ Programs \subseteq [threads : SUBSET Threads, slots : SUBSET Slots,
                            callbacks : SUBSET Callbacks, carried : Nat, held : Nat]

\* A Promise or a Future, and the SharedValue behind it; Future() has none.
Handles == [kind : {"promise", "future"}, of : Values]
Invalid == [kind |-> "future", of |-> None]

VARIABLES
    program,        \* the program that has the handles
    slot,           \* the handle in each variable
    life,           \* "new", "live" or "destroyed", for each SharedValue
    ready,          \* the SharedValues with ready_
    value,          \* the handles in value_ of each SharedValue; none in T()
    queue,          \* callbacks_ of each SharedValue, the next one first
    refs,           \* ref_count_ of the pointers to each SharedValue
    carries,        \* the handles in each Callback_0, Callback_1 or Callback_2
    fate,           \* "new", "kept" by somebody, or "deleted", for each callback
    stack           \* what each thread is inside, innermost first

valueVars == <<life, ready, value, queue>>
vars == <<program, slot, valueVars, refs, carries, fate, stack>>

\* One activation: what it does, the slot it was called through, the SharedValue
\* it still touches, the callbacks and the handles it has in hand.
Frame(op, via, self, cbs, drops) ==
    [op |-> op, via |-> via, self |-> self, cbs |-> cbs, drops |-> drops]

Executes(cb) == <<Frame("execute", None, None, <<cb>>, {})>>
Releases(hs) == IF hs = {} THEN <<>> ELSE <<Frame("release", None, None, <<>>, hs)>>
Results(hs)  == IF hs = {} THEN <<>> ELSE <<Frame("result", None, None, <<>>, hs)>>
Destroys(v)  == <<Frame("destroy", None, v, <<>>, {})>>

Init ==
    /\ program \in Programs
    /\ slot = [s \in Slots |-> Invalid]
    /\ life = [v \in Values |-> "new"]
    /\ ready = {}
    /\ value = [v \in Values |-> {}]
    /\ queue = [v \in Values |-> <<>>]
    /\ refs = [v \in Values |-> 0]
    /\ carries = [cb \in Callbacks |-> {}]
    /\ fate = [cb \in Callbacks |-> "new"]
    /\ stack = [th \in Threads |-> <<>>]

Top(th) == Head(stack[th])
In(th, op) == stack[th] # <<>> /\ Top(th).op = op

\* The innermost activation of th is replaced by fs.
Become(th, fs) == stack' = [stack EXCEPT ![th] = fs \o Tail(@)]
Enter(th, fs)  == stack' = [stack EXCEPT ![th] = fs \o @]

\* A thread acts in its own code or in the body of a callback, and there has the
\* variables and what the callback carries.
Acts(th) == stack[th] = <<>> \/ In(th, "execute")
AtHand(th) ==
    ({slot[s] : s \in Slots} \ {Invalid})
        \cup (IF In(th, "execute") THEN carries[Top(th).cbs[1]] ELSE {})

\* A copy of h; a Promise also gives a Future, GetFuture().
Copies(h) == {h, [kind |-> "future", of |-> h.of]}
CopiesAtHand(th) == UNION {Copies(h) : h \in AtHand(th)}

\* Nobody writes a variable through which another thread is inside a call; its
\* own thread may, from a callback.
Writable(th, s) ==
    \A other \in Threads \ {th} :
        \A i \in DOMAIN stack[other] : stack[other][i].via # s

\* The handles of v in a set.
Of(v, hs) == Cardinality({h \in hs : h.of = v})

-----------------------------------------------------------------------------
(* Handles: what a thread may do where it acts (see Use below).            *)

\* The old value loses its last pointer in a copy-and-swap assignment.
Dies(old, new) == old.of # None /\ refs[old.of] = 1 /\ new.of # old.of

\* Write h to the variable s and release what was there.
Assign(th, s, h) ==
    /\ s \in program.slots
    /\ Writable(th, s)
    /\ slot' = [slot EXCEPT ![s] = h]
    /\ refs' = [v \in Values |-> refs[v] + Of(v, {h}) - Of(v, {slot[s]})]
    /\ IF Dies(slot[s], h) THEN Enter(th, Destroys(slot[s].of))
                           ELSE UNCHANGED stack

\* Promise(): a new SharedValue.
MakePromise(th, s, v) ==
    /\ life[v] = "new"
    /\ life' = [life EXCEPT ![v] = "live"]
    /\ Assign(th, s, [kind |-> "promise", of |-> v])
    /\ UNCHANGED <<program, ready, value, queue, carries, fate>>

\* Copy construction and assignment of Promises and Futures, and GetFuture().
CopyHandle(th, s, h) ==
    /\ Assign(th, s, h)
    /\ UNCHANGED <<program, valueVars, carries, fate>>

\* ~Promise and ~Future, or the assignment of Future().
DropHandle(th, s) ==
    /\ slot[s] # Invalid
    /\ Assign(th, s, Invalid)
    /\ UNCHANGED <<program, valueVars, carries, fate>>

-----------------------------------------------------------------------------
(* Calls through a handle h, which is in the variable s or, for None,      *)
(* carried.                                                                *)

Via(th, h, s) == \/ s \in Slots /\ slot[s] = h
                 \/ s = None /\ In(th, "execute") /\ h \in carries[Top(th).cbs[1]]

\* Promise::SetValue(val) of a T with copies hs of some handles.
CallSet(th, h, s, hs) ==
    /\ h.kind = "promise"
    /\ Cardinality(hs) <= program.held
    /\ refs' = [v \in Values |-> refs[v] + Of(v, hs)]
    /\ Enter(th, <<Frame("set", s, h.of, <<>>, hs)>>)
    /\ UNCHANGED <<program, slot, valueVars, carries, fate>>

CallGet(th, h, s) ==
    /\ h.kind = "future"
    /\ Enter(th, <<Frame("get", s, h.of, <<>>, {})>>)
    /\ UNCHANGED <<program, slot, valueVars, refs, carries, fate>>

\* Mutant: the callback refers to the caller's handles.
ByReference(v, hs) == Of(v, hs)

\* The copies of the handles hs in the arguments and in the callback.
ByValue(v, hs) == 2 * Of(v, hs)

\* Future::Notify(functor, ...) with copies hs of some handles: the callback gets
\* copies of its own, the arguments are released after the call.
CallNotify(th, h, s, cb, hs) ==
    /\ h.kind = "future"
    /\ cb \in program.callbacks /\ fate[cb] = "new"
    /\ Cardinality(hs) <= program.carried
    /\ fate' = [fate EXCEPT ![cb] = "kept"]
    /\ carries' = [carries EXCEPT ![cb] = hs]
    /\ refs' = [v \in Values |-> refs[v] + ByValue(v, hs)]
    /\ Enter(th, <<Frame("notify", s, h.of, <<cb>>, {})>> \o Releases(hs))
    /\ UNCHANGED <<program, slot, valueVars>>

-----------------------------------------------------------------------------
(* SharedValue.                                                            *)

\* Mutant: the SharedValue is used again when the callbacks have been executed.
StillUsed(v) == v

\* What a thread touches of the SharedValue after the unlock: nothing.
AfterUnlock(v) == None

\* Mutant: the local queue is a copy.
Copied(v) == queue[v]

\* callbacks_ after the swap with the empty local queue.
Swapped(v) == <<>>

\* The mutex of v is held for longer than a step: while Set() assigns value_.
Unlocked(v) ==
    \A other \in Threads :
        \A i \in DOMAIN stack[other] : stack[other][i].op = "swap" => stack[other][i].self # v

\* value_ = value: copies of the handles in the argument, which is there till the call
\* is over; what the old value held is released before the rest of Set().
Set(th) ==
    LET v  == Top(th).self
        hs == Top(th).drops
    IN
    /\ In(th, "set")
    /\ Unlocked(v)
    /\ value' = [value EXCEPT ![v] = hs]
    /\ refs' = [u \in Values |-> refs[u] + Of(u, hs)]
    /\ Become(th, <<Frame("swap", Top(th).via, v, <<>>, value[v])>> \o Releases(hs))
    /\ UNCHANGED <<program, slot, life, ready, queue, carries, fate>>

\* The rest of the critical section, and the unlock.
Swap(th) ==
    LET v == Top(th).self IN
    /\ In(th, "swap")
    /\ Top(th).drops = {}
    /\ ready' = ready \cup {v}
    /\ queue' = [queue EXCEPT ![v] = Swapped(v)]
    /\ Become(th, <<Frame("dispatch", Top(th).via, AfterUnlock(v), queue[v], {})>>)
    /\ UNCHANGED <<program, slot, life, value, refs, carries, fate>>

\* CallbackQueue::Dispatch(true) on the local queue.
Dispatch(th) ==
    /\ In(th, "dispatch")
    /\ LET f == Top(th) IN
         IF f.cbs = <<>> THEN Become(th, <<>>)
         ELSE Become(th, Executes(Head(f.cbs)) \o <<[f EXCEPT !.cbs = Tail(@)]>>)
    /\ UNCHANGED <<program, slot, valueVars, refs, carries, fate>>

\* Mutant: the callback is not deleted.
Forgets(cb) == {}

\* delete cb: the handles it carries are released.
Deletes(cb) == carries[cb]

\* The body of a callback returns.
Return(th) ==
    LET cb == Top(th).cbs[1] IN
    /\ In(th, "execute")
    /\ fate' = [fate EXCEPT ![cb] = "deleted"]
    /\ carries' = [carries EXCEPT ![cb] = {}]
    /\ Become(th, Releases(Deletes(cb)))
    /\ UNCHANGED <<program, slot, valueVars, refs>>

\* The caller gets a copy of value_, with the handles in it.
Get(th) ==
    LET v == Top(th).self IN
    /\ In(th, "get")
    /\ v \in ready
    /\ Unlocked(v)
    /\ refs' = [u \in Values |-> refs[u] + Of(u, value[v])]
    /\ Become(th, Results(value[v]))
    /\ UNCHANGED <<program, slot, valueVars, carries, fate>>

\* What GetValue() returned is copied from before it is destroyed.
TakeResult(th) ==
    /\ In(th, "result")
    /\ \E s \in Slots, h \in UNION {Copies(g) : g \in Top(th).drops} : CopyHandle(th, s, h)

Notify(th) ==
    LET v == Top(th).self
        cb == Top(th).cbs[1]
    IN
    /\ In(th, "notify")
    /\ Unlocked(v)
    /\ IF v \in ready
       THEN Become(th, Executes(cb)) /\ UNCHANGED queue
       ELSE Become(th, <<>>) /\ queue' = [queue EXCEPT ![v] = Append(@, cb)]
    /\ UNCHANGED <<program, slot, life, ready, value, refs, carries, fate>>

-----------------------------------------------------------------------------
(* Destruction.                                                            *)

\* An activation that still has handles to release, or has none left; an assignment
\* of value_ goes on then.
Releasing(th) == In(th, "release") \/ In(th, "result") \/ In(th, "swap")
Rest(f, hs) == IF f.op = "swap" THEN <<[f EXCEPT !.drops = hs]>> ELSE Releases(hs)

\* ~SharedPointer of a handle; the last one destroys the SharedValue.
ReleaseHandle(th) ==
    /\ Releasing(th)
    /\ \E h \in Top(th).drops :
         /\ refs' = [refs EXCEPT ![h.of] = @ - 1]
         /\ Become(th, (IF Dies(h, Invalid) THEN Destroys(h.of) ELSE <<>>)
                       \o Rest(Top(th), Top(th).drops \ {h}))
    /\ UNCHANGED <<program, slot, valueVars, carries, fate>>

\* Dispatch(false) of ~CallbackQueue: the callbacks are deleted unexecuted.
DeletesNext(th, v) ==
    LET cb == Head(queue[v]) IN
    /\ queue[v] # <<>>
    /\ queue' = [queue EXCEPT ![v] = Tail(@)]
    /\ fate' = [fate EXCEPT ![cb] = "deleted"]
    /\ carries' = [carries EXCEPT ![cb] = {}]
    /\ Enter(th, Releases(carries[cb]))
    /\ UNCHANGED <<life, value>>

\* ~SharedValue: callbacks_ first, then value_.
Destroy(th) ==
    LET v == Top(th).self IN
    /\ In(th, "destroy")
    /\ \/ DeletesNext(th, v)
       \/ /\ queue[v] = <<>>
          /\ life' = [life EXCEPT ![v] = "destroyed"]
          /\ value' = [value EXCEPT ![v] = {}]
          /\ Become(th, Releases(value[v]))
          /\ UNCHANGED <<queue, fate, carries>>
    /\ UNCHANGED <<program, slot, ready, refs>>

-----------------------------------------------------------------------------
Use(th) ==
    /\ th \in program.threads
    /\ Acts(th)
    /\ \/ \E s \in Slots :
            \/ \E v \in Values : MakePromise(th, s, v)
            \/ \E h \in CopiesAtHand(th) : CopyHandle(th, s, h)
            \/ DropHandle(th, s)
       \/ \E h \in AtHand(th), s \in Slots \cup {None} :
            /\ Via(th, h, s)
            /\ \/ CallGet(th, h, s)
               \/ \E hs \in SUBSET CopiesAtHand(th) : CallSet(th, h, s, hs)
               \/ \E cb \in Callbacks, hs \in SUBSET CopiesAtHand(th) :
                     CallNotify(th, h, s, cb, hs)

Step(th) ==
    \/ Set(th) \/ Swap(th) \/ Dispatch(th) \/ Return(th)
    \/ Get(th) \/ TakeResult(th) \/ Notify(th)
    \/ ReleaseHandle(th) \/ Destroy(th)

\* Nobody has a handle any more, or waits for a value nobody can set.
Finished ==
    /\ \A th \in Threads : stack[th] = <<>> \/ (In(th, "get") /\ Top(th).self \notin ready)
    /\ UNCHANGED vars

Next == (\E th \in Threads : Use(th) \/ Step(th)) \/ Finished

Spec == Init /\ [][Next]_vars

-----------------------------------------------------------------------------
(* Properties.                                                             *)

Frames == [op : {"set", "swap", "get", "result", "notify", "dispatch", "execute",
                 "release", "destroy"},
           via : Slots \cup {None}, self : Values \cup {None},
           cbs : Seq(Callbacks), drops : SUBSET Handles]

TypeOK ==
    /\ program \in Programs
    /\ slot \in [Slots -> Handles \cup {Invalid}]
    /\ life \in [Values -> {"new", "live", "destroyed"}]
    /\ ready \subseteq Values
    /\ value \in [Values -> SUBSET Handles]
    /\ queue \in [Values -> Seq(Callbacks)]
    /\ refs \in [Values -> Nat]
    /\ carries \in [Callbacks -> SUBSET Handles]
    /\ fate \in [Callbacks -> {"new", "kept", "deleted"}]
    /\ stack \in [Threads -> Seq(Frames)]

\* The activations of all threads; those of a thread are numbered from the outermost.
Activations == UNION {{<<th, d>> : d \in DOMAIN stack[th]} : th \in Threads}
At(a) == stack[a[1]][Len(stack[a[1]]) + 1 - a[2]]

\* The handles of v in callbacks, in what values are set to, and in what a thread has
\* in hand.
Carried(v) == {p \in Callbacks \X Handles : p[2] \in carries[p[1]] /\ p[2].of = v}
Stored(v)  == {p \in Values \X Handles : p[2] \in value[p[1]] /\ p[2].of = v}
Dropped(v) == {p \in Activations \X Handles : p[2] \in At(p[1]).drops /\ p[2].of = v}

\* The count of a SharedValue is the number of handles: in variables, in callbacks,
\* in the values of others or its own, and in arguments, results and deleted callbacks
\* that are being released.
CountIsExact ==
    \A v \in Values :
        refs[v] = Cardinality({s \in Slots : slot[s].of = v}) + Cardinality(Carried(v))
                  + Cardinality(Stored(v)) + Cardinality(Dropped(v))

\* No thread goes on to touch a SharedValue after its destruction has begun, and no
\* handle is left of it: a callback may drop the last handle of the very value
\* whose Set() or Notify() executes it (futures.h:121-128, 151-155).
NoUseAfterDestroy ==
    \A v \in Values :
        LET users == {a \in Activations : At(a).self = v}
            dying == {a \in users : At(a).op = "destroy"}
        IN  life[v] # "live" \/ dying # {} =>
                /\ users = dying /\ Cardinality(dying) <= 1
                /\ life[v] = "live" \/ dying = {}
                /\ refs[v] = 0 /\ \A s \in Slots : slot[s].of # v

\* Every callback that was handed over is in one place, a queue of a live value or a
\* call in progress, until it is deleted: none is lost and none is deleted twice.
OneOwner ==
    \A cb \in Callbacks :
        LET queued  == {v \in Values : life[v] = "live" /\ \E i \in DOMAIN queue[v] : queue[v][i] = cb}
            inCalls == {a \in Activations : \E i \in DOMAIN At(a).cbs : At(a).cbs[i] = cb}
        IN  Cardinality(queued) + Cardinality(inCalls) = IF fate[cb] = "kept" THEN 1 ELSE 0

\* What a thread can still get at: the values of variables, of calls in progress and
\* of what these have in hand; and from such a value, what it was set to and its
\* callbacks.
Behind(cbs) == {h.of : h \in UNION {carries[cb] : cb \in cbs}}
Next_(v)    == {h.of : h \in value[v]} \cup Behind(ToSet(queue[v]))
Reach(R)    == {v \in Values : \A S \in SUBSET Values :
                   R \subseteq S /\ (\A u \in S : Next_(u) \subseteq S) => v \in S}
Roots == ({slot[s].of : s \in Slots}
          \cup UNION {{At(a).self} \cup {h.of : h \in At(a).drops}
                        \cup Behind(ToSet(At(a).cbs)) : a \in Activations}) \ {None}
Leaked == {v \in Values : life[v] = "live"} \ Reach(Roots)

\* A SharedValue that nobody can get at is destroyed, unless values hold one another's
\* handles in a circle, each in what it was set to or in a callback of its queue:
\* reference counting loses nothing else (futures.h:39, 58, 118, 161).
LeaksAreCycles ==
    \A v \in Leaked : \E u \in Leaked : u \in Reach(Next_(u)) /\ v \in Reach({u})
==============================================================================

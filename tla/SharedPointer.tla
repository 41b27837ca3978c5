---------------------------- MODULE SharedPointer ----------------------------
(***************************************************************************)
(* The reference counting of include/enquery/shared_pointer.h: copies,     *)
(* assignments and destructions of SharedPointers by several threads.  The *)
(* count is changed atomically (atomic.h); everything else is not, so each *)
(* operation is the steps between which other threads may run.  As with    *)
(* any variable, a thread does not touch a SharedPointer that another one  *)
(* is writing.                                                             *)
(***************************************************************************)
EXTENDS Integers, FiniteSets

CONSTANTS
    Threads,
    Slots,          \* variables of type SharedPointer
    Objects,        \* ReferenceCountedDeleters with the objects they delete
    None

ASSUME SharedPointerAssumption ==
    /\ IsFiniteSet(Slots) /\ IsFiniteSet(Threads)
    /\ None \notin Slots \cup Objects

VARIABLES
    deleter,        \* deleter_ of each SharedPointer; None if not constructed
    refCount,       \* ref_count_ of each ReferenceCountedDeleter
    life,           \* "new", "alive" or "deleted"
    op              \* the operation each thread is in

vars == <<deleter, refCount, life, op>>

\* An operation: the step it is at, the SharedPointers it writes and reads, and
\* the deleter it has in hand.
Op(at, dst, src, obj) == [at |-> at, dst |-> dst, src |-> src, obj |-> obj]
Idle == Op("idle", None, None, None)

Init ==
    /\ deleter = [s \in Slots |-> None]
    /\ refCount = [o \in Objects |-> 0]
    /\ life = [o \in Objects |-> "new"]
    /\ op = [th \in Threads |-> Idle]

Begin(th, f) == op[th] = Idle /\ op' = [op EXCEPT ![th] = f]
Goto(th, at) == op' = [op EXCEPT ![th].at = at]
Return(th) == op' = [op EXCEPT ![th] = Idle]

Writable(s) == \A th \in Threads : s \notin {op[th].dst, op[th].src}
Readable(s) == deleter[s] # None /\ \A th \in Threads : s # op[th].dst

-----------------------------------------------------------------------------
\* SharedPointer(Typ_* ptr), or SharedPointer() for a NULL object: a new
\* ReferenceCountedDeleter with one reference.
Make(th, s, o) ==
    /\ op[th] = Idle
    /\ Writable(s) /\ deleter[s] = None
    /\ life[o] = "new"
    /\ life' = [life EXCEPT ![o] = "alive"]
    /\ refCount' = [refCount EXCEPT ![o] = 1]
    /\ deleter' = [deleter EXCEPT ![s] = o]
    /\ UNCHANGED op

\* SharedPointer(copy): the pointers are copied first, then counted.
BeginCopy(th, d, s) ==
    /\ Writable(d) /\ deleter[d] = None
    /\ Readable(s)
    /\ Begin(th, Op("copy", d, s, deleter[s]))
    /\ UNCHANGED <<deleter, refCount, life>>

\* operator=: a copy is made in a temporary, swapped in, and the old value is
\* released with the temporary.  d and s may be the same variable.
BeginAssign(th, d, s) ==
    /\ Writable(d) /\ deleter[d] # None
    /\ Readable(s)
    /\ Begin(th, Op("assign", d, s, deleter[s]))
    /\ UNCHANGED <<deleter, refCount, life>>

\* Mutant: the copy is not counted.
NotIncremented(o) == refCount[o]

\* AtomicIncrement(&ref_count_).
Incremented(o) == refCount[o] + 1

\* Up().
Up(th) ==
    /\ op[th].at \in {"copy", "assign"}
    /\ refCount' = [refCount EXCEPT ![op[th].obj] = Incremented(op[th].obj)]
    /\ Goto(th, IF op[th].at = "copy" THEN "store" ELSE "swap")
    /\ UNCHANGED <<deleter, life>>

\* The copy constructor is done.
Store(th) ==
    /\ op[th].at = "store"
    /\ deleter' = [deleter EXCEPT ![op[th].dst] = op[th].obj]
    /\ Return(th)
    /\ UNCHANGED <<refCount, life>>

\* Mutant: the temporary keeps what it was made with.
Kept(th) == op[th].obj

\* std::swap: the temporary gets the old value.
Swapped(th) == deleter[op[th].dst]

\* swap(), and the temporary is to be destroyed.
Swap(th) ==
    /\ op[th].at = "swap"
    /\ deleter' = [deleter EXCEPT ![op[th].dst] = op[th].obj]
    /\ op' = [op EXCEPT ![th] = Op("down", None, None, Swapped(th))]
    /\ UNCHANGED <<refCount, life>>

\* ~SharedPointer.
BeginDestroy(th, s) ==
    /\ Writable(s) /\ deleter[s] # None
    /\ Begin(th, Op("down", None, None, deleter[s]))
    /\ deleter' = [deleter EXCEPT ![s] = None]
    /\ UNCHANGED <<refCount, life>>

\* Mutant: the count is tested before the decrement.
TestedFirst(o) == refCount[o] = 0

\* AtomicDecrement(&ref_count_) == 0.
BecomesZero(o) == refCount[o] = 1

\* Down(): whoever gets zero deletes.
Down(th) ==
    /\ op[th].at = "down"
    /\ refCount' = [refCount EXCEPT ![op[th].obj] = @ - 1]
    /\ IF BecomesZero(op[th].obj) THEN Goto(th, "delete") ELSE Return(th)
    /\ UNCHANGED <<deleter, life>>

\* delete this: the object goes with its ReferenceCountedDeleter.
Delete(th) ==
    /\ op[th].at = "delete"
    /\ life' = [life EXCEPT ![op[th].obj] = "deleted"]
    /\ Return(th)
    /\ UNCHANGED <<deleter, refCount>>

-----------------------------------------------------------------------------
Step(th) == Up(th) \/ Store(th) \/ Swap(th) \/ Down(th) \/ Delete(th)

\* Every object is gone and nothing is in progress.
Finished ==
    /\ \A o \in Objects : life[o] = "deleted"
    /\ \A th \in Threads : op[th] = Idle
    /\ UNCHANGED vars

Next ==
    \/ \E th \in Threads :
        \/ Step(th)
        \/ \E s \in Slots :
             \/ BeginDestroy(th, s)
             \/ \E o \in Objects : Make(th, s, o)
             \/ \E d \in Slots : BeginCopy(th, d, s) \/ BeginAssign(th, d, s)
    \/ Finished

Spec == Init /\ [][Next]_vars

\* An operation that began is finished.
FairSpec == Spec /\ \A th \in Threads : WF_vars(Step(th))

-----------------------------------------------------------------------------
(* Properties.                                                             *)

Steps == {"idle", "copy", "assign", "store", "swap", "down", "delete"}

TypeOK ==
    /\ deleter \in [Slots -> Objects \cup {None}]
    /\ refCount \in [Objects -> Nat]
    /\ life \in [Objects -> {"new", "alive", "deleted"}]
    /\ op \in [Threads -> [at : Steps, dst : Slots \cup {None},
                           src : Slots \cup {None}, obj : Objects \cup {None}]]

\* What counts: the variables that point to o, and the temporaries and finished
\* copies that threads have in hand.
Pointers(o) == {s \in Slots : deleter[s] = o}
InHand(o) == {th \in Threads : op[th].obj = o /\ op[th].at \in {"store", "swap", "down"}}

CountIsExact ==
    \A o \in Objects : refCount[o] = Cardinality(Pointers(o)) + Cardinality(InHand(o))

\* No thread uses an object or its count after it is deleted, or while another
\* thread is about to delete it.
NoUseAfterDelete ==
    \A o \in Objects :
        life[o] = "deleted" \/ (\E th \in Threads : op[th].obj = o /\ op[th].at = "delete")
        => /\ Pointers(o) = {}
           /\ \A th \in Threads : op[th].obj = o => op[th].at = "delete" /\ life[o] # "deleted"
           /\ Cardinality({th \in Threads : op[th].obj = o}) <= 1

\* An object whose last pointer went away gets deleted.
LastOneDeletes ==
    \A o \in Objects :
        life[o] = "alive" /\ Pointers(o) = {} /\ InHand(o) = {} ~> life[o] = "deleted"
==============================================================================

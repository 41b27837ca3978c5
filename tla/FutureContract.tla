---------------------------- MODULE FutureContract ----------------------------
(***************************************************************************)
(* What a Promise and its Futures promise (include/enquery/futures.h):     *)
(* GetValue() does not answer before the value is assigned, and with a     *)
(* Promise that is set once it answers with that value; a callback         *)
(* registered with Notify() is executed once, after an assignment, and a   *)
(* callback of a Promise that is dropped unset is deleted without being    *)
(* executed.  SharedValue implements this module.                          *)
(***************************************************************************)
EXTENDS Naturals

CONSTANTS
    Threads, Callbacks, Values, Unset,
    Answers         \* what GetValue() may answer when the value is assigned again

VARIABLES
    once,           \* the Promise is set at most once
    value,          \* the eventual value, Unset before SetValue()
    fate,           \* fate[cb]: "new", "registered", "executed" or "dropped"
    answer          \* what the latest GetValue() of each thread returned

vars == <<once, value, fate, answer>>

TypeOK ==
    /\ once \in BOOLEAN
    /\ value \in Values \cup {Unset}
    /\ fate \in [Callbacks -> {"new", "registered", "executed", "dropped"}]
    /\ answer \in [Threads -> Answers \cup {Unset}]

Init ==
    /\ once \in BOOLEAN
    /\ value = Unset
    /\ fate = [cb \in Callbacks |-> "new"]
    /\ answer = [th \in Threads |-> Unset]

SetValue(v) ==
    /\ once => value = Unset
    /\ value' = v
    /\ UNCHANGED <<once, fate, answer>>

GetValue(th) ==
    /\ value # Unset
    /\ \E v \in IF once THEN {value} ELSE Answers :
         answer' = [answer EXCEPT ![th] = v]
    /\ UNCHANGED <<once, value, fate>>

Notify(cb) ==
    /\ fate[cb] = "new"
    /\ fate' = [fate EXCEPT ![cb] = "registered"]
    /\ UNCHANGED <<once, value, answer>>

Execute(cb) ==
    /\ value # Unset
    /\ fate[cb] = "registered"
    /\ fate' = [fate EXCEPT ![cb] = "executed"]
    /\ UNCHANGED <<once, value, answer>>

\* Promise and futures are gone and the value was never assigned.
Drop ==
    /\ value = Unset
    /\ fate' = [cb \in Callbacks |-> IF fate[cb] = "registered" THEN "dropped"
                                                                ELSE fate[cb]]
    /\ UNCHANGED <<once, value, answer>>

Next ==
    \/ \E v \in Values : SetValue(v)
    \/ \E th \in Threads : GetValue(th)
    \/ \E cb \in Callbacks : Notify(cb) \/ Execute(cb)
    \/ Drop

Spec == Init /\ [][Next]_vars
===============================================================================

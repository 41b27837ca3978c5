--------------------------- MODULE StatusContract ---------------------------
(***************************************************************************)
(* What a Status promises (include/enquery/status.h): it is a value.  A    *)
(* variable that is constructed or assigned gets the value of what it was  *)
(* made from and nothing else; it keeps that value, and the pointers that  *)
(* were handed out for it stay good, until it is written itself.  An       *)
(* assignment may take a while between the call and its effect.            *)
(***************************************************************************)
CONSTANTS
    Statuses,       \* the variables of type Status
    Errors,         \* the errors: module, message and code
    OK,             \* the value of success
    None            \* no variable, no value

VARIABLES
    value,          \* the value of each Status; None where none lives
    lent,           \* what the caller reads through the pointers it was given
    asked,          \* the last call that writes: the Status, and what it is given
    pending         \* that call has not written yet

vars == <<value, lent, asked, pending>>

Init ==
    /\ value = [s \in Statuses |-> None]
    /\ lent = [s \in Statuses |-> None]
    /\ asked = [to |-> None, from |-> OK]
    /\ pending = FALSE

\* s is given the value v; the caller drops the pointers it had from s.
Set(s, v) ==
    /\ value' = [value EXCEPT ![s] = v]
    /\ lent' = [lent EXCEPT ![s] = None]

\* A Status is made from another one, itself included, from an error or from OK.
Given(from) == IF from \in Statuses THEN value[from] ELSE from

Ask(to, from) ==
    /\ ~pending
    /\ Given(from) # None
    /\ asked' = [to |-> to, from |-> from]

\* s is constructed.
Write(s, from) == Ask(s, from) /\ Set(s, Given(from)) /\ UNCHANGED pending

\* s is assigned: first the call, then its effect.
Begin(s, from) == Ask(s, from) /\ pending' = TRUE /\ UNCHANGED <<value, lent>>

Finish ==
    /\ pending
    /\ pending' = FALSE
    /\ Set(asked.to, Given(asked.from))
    /\ UNCHANGED asked

\* A Status is reported to a caller who gave no variable for it.
Drop(from) == Ask(None, from) /\ UNCHANGED <<value, lent, pending>>

\* s goes out of scope.
Destroy(s) == ~pending /\ value[s] # None /\ Set(s, None) /\ UNCHANGED <<asked, pending>>

\* GetModule() or GetMessage().
Lend(s) ==
    /\ ~pending
    /\ value[s] # None
    /\ lent' = [lent EXCEPT ![s] = value[s]]
    /\ UNCHANGED <<value, asked, pending>>

Next ==
    \/ \E from \in Statuses \cup Errors \cup {OK} :
         Drop(from) \/ \E s \in Statuses : Write(s, from) \/ Begin(s, from)
    \/ Finish
    \/ \E s \in Statuses : Destroy(s) \/ Lend(s)

Spec == Init /\ [][Next]_vars
=============================================================================

------------------------------- MODULE Status -------------------------------
(***************************************************************************)
(* base/status.cc: a Status is a pointer to a Rep on the heap, NULL for    *)
(* success.  Copies are deep, an assignment copies into a temporary and    *)
(* swaps.  Addresses are reused.  A Rep comes with its strings at once: a   *)
(* call that finds no memory throws, and leaves everything as it was.      *)
(***************************************************************************)
EXTENDS FiniteSets

CONSTANTS
    Statuses,       \* the variables of type Status
    Reps,           \* addresses of Reps
    Errors,         \* what a Rep holds: module_, message_ and code_
    OK,             \* reading NULL: no code, and empty strings
    Garbage,        \* reading freed memory
    Null,           \* the pointer of a successful Status
    None            \* no variable, no pointer

ASSUME StatusAssumption ==
    /\ IsFiniteSet(Statuses) /\ IsFiniteSet(Reps)
    /\ OK \notin Errors /\ Garbage \notin Errors \cup {OK} /\ Null \notin Reps
    /\ Statuses \cap (Errors \cup {OK}) = {}
    /\ None \notin Statuses \cup Reps \cup Errors \cup {OK, Garbage, Null}

VARIABLES
    heap,           \* the Reps that are allocated, with what they hold
    rep,            \* rep_ of each Status; None where no Status lives
    tmp,            \* rep_ of the temporaries of the call in progress
    call,           \* what the call in progress does next
    asked,          \* the Status it writes, or the last call wrote, and from what
    pointer         \* where the pointers lead that each Status handed out

vars == <<heap, rep, tmp, call, asked, pointer>>

Init ==
    /\ heap = [r \in {} |-> OK]
    /\ rep = [s \in Statuses |-> None]
    /\ tmp = {}
    /\ call = "none"
    /\ asked = [to |-> None, from |-> OK]
    /\ pointer = [s \in Statuses |-> None]

Alive(s) == rep[s] # None
Content(r) == IF r = Null THEN OK ELSE IF r \in DOMAIN heap THEN heap[r] ELSE Garbage

New(r, error) == [x \in DOMAIN heap \cup {r} |-> IF x = r THEN error ELSE heap[x]]
Delete(r) == [x \in DOMAIN heap \ {r} |-> heap[x]]

\* A call that writes the Status to.
Asked(to, from) == asked' = [to |-> to, from |-> from]

\* The caller does not keep pointers into a Status it writes.
Forget(s) == pointer' = [pointer EXCEPT ![s] = None]

-----------------------------------------------------------------------------
\* Status() and OK().
Default(s) ==
    /\ call = "none"
    /\ ~Alive(s)
    /\ rep' = [rep EXCEPT ![s] = Null]
    /\ Forget(s)
    /\ Asked(s, OK)
    /\ UNCHANGED <<heap, tmp, call>>

\* MakeError(module, message, code), MakeError(module, message) and
\* MakeFromSystemError(code): the Status returned owns the new Rep.
MakeError(s, error) ==
    /\ call = "none"
    /\ ~Alive(s)
    /\ \E r \in Reps \ DOMAIN heap :
         /\ heap' = New(r, error)
         /\ rep' = [rep EXCEPT ![s] = r]
    /\ Forget(s)
    /\ Asked(s, error)
    /\ UNCHANGED <<tmp, call>>

\* Mutant: the copy is empty, whatever it was made from.
LeavesNull(from, r, content) == r = Null /\ content = heap

\* rep_ of a copy: NULL, or a new Rep with the same fields.
Copies(from, r, content) ==
    \/ from = Null /\ r = Null /\ content = heap
    \/ /\ from # Null
       /\ r \notin DOMAIN heap \cup {Null}
       /\ content = New(r, heap[from])

\* Status s(other).
CopyConstruct(s, other) ==
    /\ call = "none"
    /\ ~Alive(s) /\ Alive(other)
    /\ \E r \in Reps \cup {Null} :
         /\ Copies(rep[other], r, heap')
         /\ rep' = [rep EXCEPT ![s] = r]
    /\ Forget(s)
    /\ Asked(s, other)
    /\ UNCHANGED <<tmp, call>>

\* s = other, s and other the same perhaps: first Status tmp(other).
BeginAssign(s, other) ==
    /\ call = "none"
    /\ Alive(s) /\ Alive(other)
    /\ \E r \in Reps \cup {Null} :
         /\ Copies(rep[other], r, heap')
         /\ tmp' = {r}
    /\ call' = "swap"
    /\ Asked(s, other)
    /\ UNCHANGED <<rep, pointer>>

\* MaybeAssign(status_out, MakeError(...)): the error in a temporary, and a copy
\* of it unless status_out is NULL; s is None in that case.
BeginReport(s, error) ==
    /\ call = "none"
    /\ s # None => Alive(s)
    /\ \E e \in Reps \ DOMAIN heap :
         \/ /\ s = None
            /\ heap' = New(e, error)
            /\ tmp' = {e}
            /\ call' = "delete"
         \/ /\ s # None
            /\ \E r \in Reps \ (DOMAIN heap \cup {e}) :
                 /\ heap' = [x \in DOMAIN heap \cup {e, r} |->
                               IF x \in {e, r} THEN error ELSE heap[x]]
                 /\ tmp' = {e, r}
            /\ call' = "swap"
    /\ Asked(s, error)
    /\ UNCHANGED <<rep, pointer>>

\* Mutant: the old Rep is forgotten.
Overwritten(r) == tmp \ {r}

\* std::swap(rep_, tmp.rep_): the temporary has the old Rep.
Swapped(r) == (tmp \ {r}) \cup {rep[asked.to]}

Swap ==
    /\ call = "swap"
    /\ \E r \in tmp :
         /\ rep' = [rep EXCEPT ![asked.to] = r]
         /\ tmp' = Swapped(r)
    /\ Forget(asked.to)
    /\ call' = "delete"
    /\ UNCHANGED <<heap, asked>>

\* The temporaries are destroyed one by one, and the call is over.
DestroyTemporary ==
    /\ call = "delete"
    /\ \/ \E r \in tmp : tmp' = tmp \ {r} /\ heap' = Delete(r) /\ UNCHANGED call
       \/ tmp = {} /\ call' = "none" /\ UNCHANGED <<heap, tmp>>
    /\ UNCHANGED <<rep, asked, pointer>>

\* ~Status().
Destroy(s) ==
    /\ call = "none"
    /\ Alive(s)
    /\ heap' = Delete(rep[s])
    /\ rep' = [rep EXCEPT ![s] = None]
    /\ Forget(s)
    /\ UNCHANGED <<tmp, call, asked>>

\* GetModule() and GetMessage() lend what rep_ points to, or the empty string.
Get(s) ==
    /\ call = "none"
    /\ Alive(s)
    /\ pointer' = [pointer EXCEPT ![s] = rep[s]]
    /\ UNCHANGED <<heap, rep, tmp, call, asked>>

Next ==
    \/ \E s \in Statuses :
         \/ Default(s) \/ Destroy(s) \/ Get(s)
         \/ \E e \in Errors : MakeError(s, e)
         \/ \E other \in Statuses : CopyConstruct(s, other) \/ BeginAssign(s, other)
    \/ \E s \in Statuses \cup {None}, e \in Errors : BeginReport(s, e)
    \/ Swap
    \/ DestroyTemporary

Spec == Init /\ [][Next]_vars

-----------------------------------------------------------------------------
(* Properties.                                                             *)

\* A Status behaves as a value although Reps are held by address, swapped, freed
\* and reused (status.cc:51-63): what is constructed or assigned has the value of
\* what it was made from, so that an assignment to itself changes nothing; copies
\* are independent; and the pointers handed out of a Status keep leading to its
\* text until the Status itself is written (status.h:58-64).
Read(p) == IF p = None THEN None ELSE Content(p)

Contract == INSTANCE StatusContract
              WITH value <- [s \in Statuses |-> Read(rep[s])],
                   lent <- [s \in Statuses |-> Read(pointer[s])],
                   pending <- call = "swap"

IsAValue == Contract!Spec

\* Every Rep on the heap has one owner, a Status or a temporary, and every owner
\* has one that is there: no Rep is deleted twice or leaked (status.cc:53-63).
OwnersOf(r) == {s \in Statuses : rep[s] = r} \cup {None : t \in tmp \cap {r}}

OneOwner ==
    \A r \in Reps : Cardinality(OwnersOf(r)) = IF r \in DOMAIN heap THEN 1 ELSE 0
=============================================================================

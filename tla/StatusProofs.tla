----------------------------- MODULE StatusProofs -----------------------------
(***************************************************************************)
(* Status proved for any variables, addresses and errors: every Rep has    *)
(* one owner, and a Status is the value StatusContract describes: it gets  *)
(* the value it was asked to take, and keeps it.                           *)
(*                                                                         *)
(* That the write of one Status leaves the others, and what they lent,     *)
(* alone rests on no Rep being shared: the swaps and deletions of one      *)
(* variable's Rep are then nobody else's business.                         *)
(***************************************************************************)
EXTENDS Status, FiniteSetTheorems, TLAPS

\* What a Status is made from.
Sources == Statuses \cup Errors \cup {OK}

Types ==
    /\ DOMAIN heap \subseteq Reps /\ \A r \in DOMAIN heap : heap[r] \in Errors
    /\ rep \in [Statuses -> Reps \cup {Null, None}]
    /\ tmp \subseteq Reps \cup {Null}
    /\ pointer \in [Statuses -> Reps \cup {Null, None}]
    /\ asked \in [to : Statuses \cup {None}, from : Sources]

\* Temporaries exist during a call only; the Status that is assigned is alive.
InCall ==
    /\ call = "none" => tmp = {}
    /\ call = "swap" => asked.to \in Statuses /\ Alive(asked.to)

\* Owners are distinct, own what is allocated, and own all of it.
Owned ==
    /\ \A s \in Statuses : rep[s] \in Reps => rep[s] \in DOMAIN heap /\ rep[s] \notin tmp
    /\ \A s, u \in Statuses : rep[s] \in Reps /\ rep[s] = rep[u] => s = u
    /\ tmp \cap Reps \subseteq DOMAIN heap
    /\ \A r \in DOMAIN heap : r \in tmp \/ \E s \in Statuses : rep[s] = r

\* What was handed out leads into the Rep the Status still has.
LentIsOwn == \A s \in Statuses : pointer[s] # None => pointer[s] = rep[s]

\* The temporaries of an assignment hold the value that it is to write.
Meant(from) == IF from \in Statuses THEN Read(rep[from]) ELSE from

HoldsMeant ==
    call = "swap" =>
        /\ Meant(asked.from) # None
        /\ \A r \in tmp : Content(r) = Meant(asked.from)

SInv == Types /\ InCall /\ Owned /\ LentIsOwn /\ HoldsMeant

-----------------------------------------------------------------------------
\* New Reps at the addresses in S; the others stay as they are.
Extends(S) ==
    /\ S \subseteq Reps /\ S \cap DOMAIN heap = {}
    /\ DOMAIN heap' = DOMAIN heap \cup S
    /\ \A x \in DOMAIN heap : heap'[x] = heap[x]
    /\ \A x \in S : heap'[x] \in Errors

\* No Rep is touched but r, which goes.
Frees(r) ==
    /\ DOMAIN heap' = DOMAIN heap \ {r}
    /\ \A x \in DOMAIN heap' : heap'[x] = heap[x]

LEMMA NewExtends ==
  ASSUME NEW r \in Reps \ DOMAIN heap, NEW error \in Errors, heap' = New(r, error)
  PROVE  Extends({r}) /\ heap'[r] = error
BY DEF New, Extends

LEMMA DeleteFrees == ASSUME NEW r, heap' = Delete(r) PROVE Frees(r)
BY DEF Delete, Frees

\* A copy reads what it was made from, and shares nothing with it.
LEMMA CopiesExtend ==
  ASSUME SInv, NEW other \in Statuses, Alive(other),
         NEW r \in Reps \cup {Null}, Copies(rep[other], r, heap')
  PROVE  Extends({r} \ {Null}) /\ Content(r)' = Content(rep[other])
<1>1. CASE rep[other] = Null
  BY <1>1 DEF Copies, Extends, Content
<1>2. CASE rep[other] # Null
  <2>1. rep[other] \in Reps /\ rep[other] \in DOMAIN heap /\ heap[rep[other]] \in Errors
    BY <1>2 DEF SInv, Types, Owned, Alive
  <2>2. r \in Reps \ DOMAIN heap /\ r # Null /\ heap' = New(r, heap[rep[other]])
    BY <1>2 DEF Copies
  <2>3. Extends({r}) /\ heap'[r] = heap[rep[other]]
    BY <2>1, <2>2, NewExtends
  <2>. QED  BY <1>2, <2>1, <2>2, <2>3 DEF Extends, Content
<1>. QED  BY <1>1, <1>2

\* The Statuses that keep their Rep keep their value and what they lent.
Keeps(u) == rep'[u] = rep[u] /\ pointer'[u] = pointer[u]
Same(u) == Read(rep[u])' = Read(rep[u]) /\ Read(pointer[u])' = Read(pointer[u])

LEMMA KeptIsSame ==
  ASSUME SInv, NEW u \in Statuses, Keeps(u),
         \/ heap' = heap
         \/ \E S : Extends(S)
         \/ \E r : Frees(r) /\ r # rep[u]
  PROVE  Same(u)
<1>1. CASE rep[u] \in Reps
  <2>1. rep[u] \in DOMAIN heap
    BY <1>1 DEF SInv, Owned
  <2>2. rep[u] \in DOMAIN heap' /\ heap'[rep[u]] = heap[rep[u]]
    BY <2>1 DEF Extends, Frees
  <2>3. Content(rep[u])' = Content(rep[u])
    BY <2>1, <2>2 DEF Keeps, Content
  <2>. QED  BY <2>3 DEF Keeps, Same, Read, SInv, LentIsOwn
<1>2. CASE rep[u] \in {Null, None}
  BY <1>2, StatusAssumption DEF Keeps, Same, Read, Content, SInv, LentIsOwn
<1>. QED  BY <1>1, <1>2 DEF SInv, Types

\* The value of s changes and nothing else: a step of the contract.
LEMMA OneIsSet ==
  ASSUME NEW s \in Statuses, NEW v, Read(rep[s])' = v, pointer' = [pointer EXCEPT ![s] = None],
         pointer \in [Statuses -> Reps \cup {Null, None}],
         \A u \in Statuses \ {s} : Same(u)
  PROVE  Contract!Set(s, v)
<1>1. Read(pointer[s])' = None
  BY DEF Read
<1>. QED  BY <1>1 DEF Contract!Set, Same

LEMMA NoneIsSet ==
  ASSUME \A u \in Statuses : Same(u)
  PROVE  UNCHANGED <<[s \in Statuses |-> Read(rep[s])], [s \in Statuses |-> Read(pointer[s])]>>
BY DEF Same

\* A step of the contract, or one it does not see.
Step == Contract!Next \/ UNCHANGED Contract!vars

\* A call asks for what the contract says.
LEMMA AskedIsAsk ==
  ASSUME call # "swap", NEW to, NEW from, Asked(to, from), Meant(from) # None
  PROVE  Contract!Ask(to, from) /\ Contract!Given(from) = Meant(from)
BY DEF Asked, Contract!Ask, Contract!Given, Meant

\* A Status that lives can be read.
LEMMA AliveIsRead ==
  ASSUME SInv, NEW s \in Statuses, Alive(s)
  PROVE  Read(rep[s]) = Content(rep[s]) /\ Meant(s) = Content(rep[s]) /\ Meant(s) # None
<1>1. rep[s] \in Reps => rep[s] \in DOMAIN heap /\ heap[rep[s]] \in Errors
  BY DEF SInv, Owned, Types
<1>2. rep[s] \in Reps \cup {Null} /\ rep[s] # None
  BY DEF SInv, Types, Alive
<1>. QED  BY <1>1, <1>2, StatusAssumption DEF Read, Content, Meant

\* An error and OK mean themselves.
LEMMA ErrorIsMeant == \A v \in Errors \cup {OK} : Meant(v) = v /\ v # None
BY StatusAssumption DEF Meant

-----------------------------------------------------------------------------
\* Outside a call: s gets r, which is NULL or at a new address, made from a Status,
\* an error or OK.
LEMMA ConstructStep ==
  ASSUME SInv, NEW s \in Statuses, ~Alive(s), NEW r \in Reps \cup {Null}, NEW from \in Sources,
         Extends({r} \ {Null}), rep' = [rep EXCEPT ![s] = r], Forget(s), Asked(s, from),
         Meant(from) # None, Content(r)' = Meant(from),
         call = "none", UNCHANGED <<tmp, call>>
  PROVE  SInv' /\ Step
<1> USE DEF SInv
<1>1. /\ rep'[s] = r /\ \A u \in Statuses \ {s} : rep'[u] = rep[u]
      /\ pointer'[s] = None /\ \A u \in Statuses \ {s} : pointer'[u] = pointer[u]
  BY DEF Types, Forget
<1>2. r \in Reps => r \notin DOMAIN heap /\ r \in DOMAIN heap' /\ r # Null
  BY StatusAssumption DEF Extends
<1>3. Types'
  BY DEF Types, Extends, Forget, Asked
<1>4. InCall'
  BY <1>1 DEF InCall, Alive
<1>5. Owned'
  <2>1. \A u \in Statuses \ {s} : rep[u] \in Reps => rep[u] # r
    BY <1>2 DEF Owned
  <2>2. \A u \in Statuses : rep'[u] \in Reps => rep'[u] \in DOMAIN heap' /\ rep'[u] \notin tmp'
    BY <1>1, <1>2 DEF Owned, Extends
  <2>3. \A u, v \in Statuses : rep'[u] \in Reps /\ rep'[u] = rep'[v] => u = v
    BY <1>1, <2>1 DEF Owned
  <2>4. tmp' \cap Reps \subseteq DOMAIN heap'
    BY DEF Owned, Extends
  <2>5. ASSUME NEW x \in DOMAIN heap' PROVE x \in tmp' \/ \E u \in Statuses : rep'[u] = x
    <3>1. CASE x = r
      BY <1>1, <3>1
    <3>2. CASE x # r
      <4>1. x \in DOMAIN heap
        BY <2>5, <3>2 DEF Extends
      <4>2. ASSUME NEW u \in Statuses, rep[u] = x PROVE rep'[u] = x
        BY <1>1, <4>1, <4>2, StatusAssumption DEF Alive, Types
      <4>. QED  BY <4>1, <4>2 DEF Owned
    <3>. QED  BY <3>1, <3>2
  <2>. QED  BY <2>2, <2>3, <2>4, <2>5 DEF Owned
<1>6. LentIsOwn'
  BY <1>1 DEF LentIsOwn
<1>7. Step
  <2>1. \A u \in Statuses \ {s} : Same(u)
    BY <1>1, KeptIsSame DEF Keeps
  <2>2. Read(rep[s])' = Meant(from)
    BY <1>1, StatusAssumption DEF Read
  <2>3. Contract!Set(s, Meant(from))
    BY <2>1, <2>2, OneIsSet DEF Forget, Types
  <2>4. Contract!Ask(s, from) /\ Contract!Given(from) = Meant(from)
    BY AskedIsAsk
  <2>5. Contract!Write(s, from)
    BY <2>3, <2>4 DEF Contract!Write
  <2>. QED  BY <2>5 DEF Step, Contract!Next, Sources
<1>8. HoldsMeant'
  BY DEF HoldsMeant
<1>. QED  BY <1>3, <1>4, <1>5, <1>6, <1>7, <1>8

LEMMA DefaultStep ==
  ASSUME SInv, NEW s \in Statuses, Default(s) PROVE SInv' /\ Step
<1>1. Extends({Null} \ {Null})
  BY DEF Default, Extends
<1>2. Content(Null)' = OK /\ Meant(OK) = OK /\ OK # None /\ OK \in Sources
  BY ErrorIsMeant, StatusAssumption DEF Content, Sources
<1>. QED  BY <1>1, <1>2, ConstructStep DEF Default

LEMMA MakeErrorStep ==
  ASSUME SInv, NEW s \in Statuses, NEW error \in Errors, MakeError(s, error)
  PROVE  SInv' /\ Step
<1>1. PICK r \in Reps \ DOMAIN heap : heap' = New(r, error) /\ rep' = [rep EXCEPT ![s] = r]
  BY DEF MakeError
<1>2. Extends({r} \ {Null})
  <2>1. {r} \ {Null} = {r}
    BY StatusAssumption
  <2>. QED  BY <1>1, <2>1, NewExtends
<1>3. Content(r)' = error
  BY <1>1, StatusAssumption DEF New, Content
<1>4. Meant(error) = error /\ error # None /\ error \in Sources
  BY ErrorIsMeant DEF Sources
<1>. QED  BY <1>1, <1>2, <1>3, <1>4, ConstructStep DEF MakeError

LEMMA CopyConstructStep ==
  ASSUME SInv, NEW s \in Statuses, NEW other \in Statuses, CopyConstruct(s, other)
  PROVE  SInv' /\ Step
<1>1. PICK r \in Reps \cup {Null} :
        Copies(rep[other], r, heap') /\ rep' = [rep EXCEPT ![s] = r]
  BY DEF CopyConstruct
<1>2. Extends({r} \ {Null})
  BY <1>1, CopiesExtend DEF CopyConstruct
<1>3. Content(r)' = Meant(other) /\ Meant(other) # None /\ other \in Sources
  BY <1>1, CopiesExtend, AliveIsRead DEF CopyConstruct, Sources
<1>. QED  BY <1>1, <1>2, <1>3, ConstructStep DEF CopyConstruct

\* A call begins: its temporaries get new Reps that hold what is meant.
LEMMA BeginStep ==
  ASSUME SInv, call = "none", NEW S, Extends(S), tmp' \subseteq S \cup {Null}, S \subseteq tmp',
         NEW to \in Statuses \cup {None}, NEW from \in Sources, Asked(to, from),
         Meant(from) # None, \A r \in tmp' : Content(r)' = Meant(from),
         \/ call' = "swap" /\ to \in Statuses /\ Alive(to)
         \/ call' = "delete" /\ to = None,
         UNCHANGED <<rep, pointer>>
  PROVE  SInv' /\ Step
<1> USE DEF SInv
<1>1. tmp = {}
  BY DEF InCall
<1>2. asked' = [to |-> to, from |-> from]
  BY DEF Asked
<1>3. Types' /\ InCall' /\ LentIsOwn'
  BY <1>2 DEF Types, InCall, Alive, LentIsOwn, Extends
<1>4. Owned'
  BY <1>1, StatusAssumption DEF Owned, Extends
<1>5. \A u \in Statuses : Same(u)
  BY KeptIsSame DEF Keeps
<1>6. Meant(from)' = Meant(from)
  BY <1>5 DEF Meant, Same
<1>7. HoldsMeant'
  BY <1>2, <1>6 DEF HoldsMeant
<1>8. Contract!Ask(to, from)
  BY AskedIsAsk
<1>9. \/ Contract!Begin(to, from) /\ to \in Statuses
      \/ Contract!Drop(from)
  BY <1>5, <1>8, NoneIsSet DEF Contract!Begin, Contract!Drop
<1>10. Step
  BY <1>9 DEF Step, Contract!Next, Sources
<1>. QED  BY <1>3, <1>4, <1>7, <1>10

LEMMA BeginAssignStep ==
  ASSUME SInv, NEW s \in Statuses, NEW other \in Statuses, BeginAssign(s, other)
  PROVE  SInv' /\ Step
<1>1. PICK r \in Reps \cup {Null} : Copies(rep[other], r, heap') /\ tmp' = {r}
  BY DEF BeginAssign
<1>2. Extends({r} \ {Null}) /\ Content(r)' = Meant(other) /\ Meant(other) # None
  BY <1>1, CopiesExtend, AliveIsRead DEF BeginAssign
<1>3. other \in Sources
  BY DEF Sources
<1>. QED  BY <1>1, <1>2, <1>3, BeginStep DEF BeginAssign

LEMMA BeginReportStep ==
  ASSUME SInv, NEW s \in Statuses \cup {None}, NEW error \in Errors, BeginReport(s, error)
  PROVE  SInv' /\ Step
<1>1. PICK e \in Reps \ DOMAIN heap :
        \/ s = None /\ heap' = New(e, error) /\ tmp' = {e} /\ call' = "delete"
        \/ /\ s # None
           /\ \E r \in Reps \ (DOMAIN heap \cup {e}) :
                /\ heap' = [x \in DOMAIN heap \cup {e, r} |->
                              IF x \in {e, r} THEN error ELSE heap[x]]
                /\ tmp' = {e, r}
           /\ call' = "swap"
  BY DEF BeginReport
<1>2. Meant(error) = error /\ error # None /\ error \in Sources
  BY ErrorIsMeant DEF Sources
<1>3. CASE s = None
  <2>1. Extends({e})
    BY <1>1, <1>3, NewExtends
  <2>2. \A r \in tmp' : Content(r)' = error
    BY <1>1, <1>3, StatusAssumption DEF New, Content
  <2>. QED  BY <1>1, <1>2, <1>3, <2>1, <2>2, BeginStep DEF BeginReport
<1>4. CASE s # None
  <2>1. PICK r \in Reps \ (DOMAIN heap \cup {e}) :
          /\ heap' = [x \in DOMAIN heap \cup {e, r} |->
                        IF x \in {e, r} THEN error ELSE heap[x]]
          /\ tmp' = {e, r}
    BY <1>1, <1>4
  <2>2. Extends({e, r})
    BY <2>1 DEF Extends
  <2>3. \A x \in tmp' : Content(x)' = error
    BY <2>1, StatusAssumption DEF Content
  <2>4. s \in Statuses /\ rep' = rep /\ Alive(s) /\ call' = "swap"
    BY <1>1, <1>4 DEF BeginReport
  <2>. QED  BY <1>2, <2>1, <2>2, <2>3, <2>4, BeginStep DEF BeginReport
<1>. QED  BY <1>3, <1>4

\* The temporary and the variable exchange their Reps.
LEMMA SwapStep == ASSUME SInv, Swap PROVE SInv' /\ Step
<1> USE DEF SInv
<1>1. PICK s \in Statuses : s = asked.to /\ Alive(s)
  BY DEF Swap, InCall
<1>2. PICK r \in tmp : rep' = [rep EXCEPT ![s] = r] /\ tmp' = (tmp \ {r}) \cup {rep[s]}
  BY <1>1 DEF Swap, Swapped
<1>3. heap' = heap /\ call' = "delete" /\ asked' = asked /\ pointer' = [pointer EXCEPT ![s] = None]
  BY <1>1 DEF Swap, Forget
<1>4. r \in Reps \cup {Null} /\ rep[s] \in Reps \cup {Null}
  BY <1>1 DEF Types, Alive
<1>5. /\ rep'[s] = r /\ \A u \in Statuses \ {s} : rep'[u] = rep[u]
      /\ pointer'[s] = None /\ \A u \in Statuses \ {s} : pointer'[u] = pointer[u]
  BY <1>2, <1>3 DEF Types
<1>6. Types'
  BY <1>2, <1>3, <1>4 DEF Types
<1>7. InCall' /\ LentIsOwn'
  BY <1>3, <1>5 DEF InCall, LentIsOwn
<1>8. Owned'
  <2>1. r \in Reps => r \in DOMAIN heap /\ \A u \in Statuses : rep[u] # r
    BY DEF Owned
  <2>2. \A u \in Statuses : rep'[u] \in Reps => rep'[u] \in DOMAIN heap'
    BY <1>3, <1>5, <2>1 DEF Owned
  <2>3. \A u \in Statuses : rep'[u] \in Reps => rep'[u] \notin tmp'
    BY <1>2, <1>5, <2>1 DEF Owned
  <2>4. \A u, v \in Statuses : rep'[u] \in Reps /\ rep'[u] = rep'[v] => u = v
    BY <1>5, <2>1 DEF Owned
  <2>5. tmp' \cap Reps \subseteq DOMAIN heap'
    BY <1>2, <1>3 DEF Owned
  <2>6. ASSUME NEW x \in DOMAIN heap' PROVE x \in tmp' \/ \E u \in Statuses : rep'[u] = x
    BY <1>2, <1>3, <1>5, <2>6 DEF Owned
  <2>. QED  BY <2>2, <2>3, <2>4, <2>5, <2>6 DEF Owned
<1>9. Step
  <2>1. \A u \in Statuses \ {s} : Same(u)
    BY <1>3, <1>5, KeptIsSame DEF Keeps
  <2>2. Read(rep[s])' = Meant(asked.from)
    <3>1. Content(r) = Meant(asked.from)
      BY DEF Swap, HoldsMeant
    <3>. QED  BY <1>3, <1>4, <1>5, <3>1, StatusAssumption DEF Read, Content
  <2>3. Contract!Set(s, Meant(asked.from))
    BY <1>3, <2>1, <2>2, OneIsSet DEF Types
  <2>4. Contract!Given(asked.from) = Meant(asked.from)
    BY DEF Contract!Given, Meant
  <2>5. Contract!Finish
    BY <1>1, <1>3, <2>3, <2>4 DEF Swap, Contract!Finish
  <2>. QED  BY <2>5 DEF Step, Contract!Next
<1>10. HoldsMeant'
  BY <1>3 DEF HoldsMeant
<1>. QED  BY <1>6, <1>7, <1>8, <1>9, <1>10

LEMMA DestroyTemporaryStep == ASSUME SInv, DestroyTemporary PROVE SInv' /\ Step
<1> USE DEF SInv
<1>1. ASSUME NEW r \in tmp, tmp' = tmp \ {r}, heap' = Delete(r), UNCHANGED call
      PROVE  SInv' /\ Step
  <2>1. Frees(r) /\ UNCHANGED <<rep, asked, pointer>> /\ call = "delete"
    BY <1>1, DeleteFrees DEF DestroyTemporary
  <2>2. Types' /\ InCall' /\ LentIsOwn' /\ HoldsMeant'
    BY <1>1, <2>1 DEF Types, InCall, LentIsOwn, HoldsMeant, Frees
  <2>3. \A u \in Statuses : rep[u] \in Reps => rep[u] # r
    BY DEF Owned
  <2>4. Owned'
    BY <1>1, <2>1, <2>3 DEF Owned, Frees
  <2>5. \A u \in Statuses : Same(u)
    <3> SUFFICES ASSUME NEW u \in Statuses PROVE Same(u)
      OBVIOUS
    <3>1. CASE rep[u] \in Reps
      BY <2>1, <2>3, <3>1, KeptIsSame DEF Keeps
    <3>2. CASE rep[u] \in {Null, None}
      BY <2>1, <3>2, StatusAssumption DEF Same, Read, Content, LentIsOwn
    <3>. QED  BY <3>1, <3>2 DEF Types
  <2>. QED  BY <1>1, <2>1, <2>2, <2>4, <2>5, NoneIsSet DEF Step, Contract!vars
<1>2. ASSUME tmp = {}, call' = "none", UNCHANGED <<heap, tmp>>
      PROVE  SInv' /\ Step
  <2>1. UNCHANGED <<rep, asked, pointer>> /\ call = "delete"
    BY DEF DestroyTemporary
  <2>2. SInv'
    BY <1>2, <2>1 DEF Types, InCall, LentIsOwn, Owned, HoldsMeant
  <2>3. \A u \in Statuses : Same(u)
    BY <1>2, <2>1, KeptIsSame DEF Keeps
  <2>. QED  BY <1>2, <2>1, <2>2, <2>3, NoneIsSet DEF Step, Contract!vars
<1>. QED  BY <1>1, <1>2 DEF DestroyTemporary

\* The Rep of a Status goes with it.
LEMMA DestroyStep ==
  ASSUME SInv, NEW s \in Statuses, Destroy(s) PROVE SInv' /\ Step
<1> USE DEF SInv
<1>1. /\ call = "none" /\ Alive(s) /\ Frees(rep[s])
      /\ rep' = [rep EXCEPT ![s] = None] /\ pointer' = [pointer EXCEPT ![s] = None]
      /\ UNCHANGED <<tmp, call, asked>>
  BY DeleteFrees DEF Destroy, Forget
<1>2. /\ rep'[s] = None /\ \A u \in Statuses \ {s} : rep'[u] = rep[u]
      /\ pointer'[s] = None /\ \A u \in Statuses \ {s} : pointer'[u] = pointer[u]
  BY <1>1 DEF Types
<1>3. Types' /\ InCall' /\ LentIsOwn' /\ HoldsMeant'
  BY <1>1, <1>2 DEF Types, InCall, LentIsOwn, HoldsMeant, Frees
<1>4. \A u \in Statuses \ {s} : rep[u] \in Reps => rep[u] # rep[s]
  BY DEF Owned
<1>5. Owned'
  <2>1. None \notin Reps /\ tmp = {}
    BY <1>1, StatusAssumption DEF InCall
  <2>2. \A u \in Statuses : rep'[u] \in Reps => u # s
    BY <1>2, <2>1
  <2>3. \A u \in Statuses : rep'[u] \in Reps => rep'[u] \in DOMAIN heap' /\ rep'[u] \notin tmp'
    BY <1>1, <1>2, <1>4, <2>1, <2>2 DEF Owned, Frees
  <2>4. \A u, v \in Statuses : rep'[u] \in Reps /\ rep'[u] = rep'[v] => u = v
    BY <1>2, <2>2 DEF Owned
  <2>5. ASSUME NEW x \in DOMAIN heap' PROVE \E u \in Statuses : rep'[u] = x
    <3>1. x \in DOMAIN heap /\ x # rep[s]
      BY <1>1, <2>5 DEF Frees
    <3>2. PICK u \in Statuses : rep[u] = x
      BY <2>1, <3>1 DEF Owned
    <3>. QED  BY <1>2, <3>1, <3>2
  <2>. QED  BY <1>1, <2>1, <2>3, <2>4, <2>5 DEF Owned
<1>6. \A u \in Statuses \ {s} : Same(u)
  <2> SUFFICES ASSUME NEW u \in Statuses \ {s} PROVE Same(u)
    OBVIOUS
  <2>1. CASE rep[u] \in Reps
    BY <1>1, <1>2, <1>4, <2>1, KeptIsSame DEF Keeps
  <2>2. CASE rep[u] \in {Null, None}
    BY <1>2, <2>2, StatusAssumption DEF Same, Read, Content, LentIsOwn
  <2>. QED  BY <2>1, <2>2 DEF Types
<1>7. Read(rep[s])' = None
  BY <1>2 DEF Read
<1>8. Read(rep[s]) # None
  BY <1>1, AliveIsRead
<1>9. Contract!Set(s, None)
  BY <1>1, <1>6, <1>7, OneIsSet DEF Types
<1>10. Step
  BY <1>1, <1>8, <1>9 DEF Step, Contract!Next, Contract!Destroy
<1>. QED  BY <1>3, <1>5, <1>10

LEMMA GetStep ==
  ASSUME SInv, NEW s \in Statuses, Get(s) PROVE SInv' /\ Step
<1> USE DEF SInv
<1>1. SInv'
  BY DEF Get, Types, InCall, Owned, LentIsOwn, HoldsMeant
<1>2. Read(rep[s]) # None
  BY AliveIsRead DEF Get
<1>3. /\ \A u \in Statuses : Read(rep[u])' = Read(rep[u])
      /\ \A u \in Statuses \ {s} : Read(pointer[u])' = Read(pointer[u])
      /\ Read(pointer[s])' = Read(rep[s])
  BY DEF Get, Types, Read, Content
<1>4. Contract!Lend(s)
  BY <1>2, <1>3 DEF Get, Contract!Lend
<1>. QED  BY <1>1, <1>4 DEF Step, Contract!Next

-----------------------------------------------------------------------------
LEMMA InitInv == Init => SInv /\ Contract!Init
<1> SUFFICES ASSUME Init PROVE SInv /\ Contract!Init
  OBVIOUS
<1>1. SInv
  BY StatusAssumption DEF Init, SInv, Types, InCall, Owned, LentIsOwn, HoldsMeant, Sources
<1>2. Contract!Init
  BY DEF Init, Contract!Init, Read
<1>. QED  BY <1>1, <1>2

LEMMA NextStep == SInv /\ [Next]_vars => SInv' /\ Step
<1> SUFFICES ASSUME SInv, [Next]_vars PROVE SInv' /\ Step
  OBVIOUS
<1>1. CASE UNCHANGED vars
  BY <1>1 DEF vars, SInv, Types, InCall, Alive, Owned, LentIsOwn, HoldsMeant, Meant, Step,
              Contract!vars, Read, Content
<1>2. ASSUME NEW s \in Statuses, Default(s) \/ Destroy(s) \/ Get(s) PROVE SInv' /\ Step
  BY <1>2, DefaultStep, DestroyStep, GetStep
<1>3. ASSUME NEW s \in Statuses, NEW e \in Errors, MakeError(s, e) PROVE SInv' /\ Step
  BY <1>3, MakeErrorStep
<1>4. ASSUME NEW s \in Statuses, NEW other \in Statuses,
             CopyConstruct(s, other) \/ BeginAssign(s, other)
      PROVE  SInv' /\ Step
  BY <1>4, CopyConstructStep, BeginAssignStep
<1>5. ASSUME NEW s \in Statuses \cup {None}, NEW e \in Errors, BeginReport(s, e)
      PROVE  SInv' /\ Step
  BY <1>5, BeginReportStep
<1>6. CASE Swap \/ DestroyTemporary
  BY <1>6, SwapStep, DestroyTemporaryStep
<1>. QED  BY <1>1, <1>2, <1>3, <1>4, <1>5, <1>6 DEF Next

LEMMA Invariant == Spec => []SInv
<1>. QED  BY InitInv, NextStep, PTL DEF Spec

\* Every Rep that is allocated has exactly one owner, a Status or a temporary, and
\* a Rep that is not allocated has none.
THEOREM EveryRepHasOneOwner == Spec => []OneOwner
<1>1. SInv => OneOwner
  <2> SUFFICES ASSUME SInv, NEW r \in Reps
               PROVE  Cardinality(OwnersOf(r)) = IF r \in DOMAIN heap THEN 1 ELSE 0
    BY DEF OneOwner
  <2> USE DEF SInv
  <2>1. CASE r \notin DOMAIN heap
    <3>1. OwnersOf(r) = {}
      BY <2>1 DEF OwnersOf, Owned
    <3>. QED  BY <2>1, <3>1, FS_EmptySet
  <2>2. CASE r \in DOMAIN heap /\ r \in tmp
    <3>1. OwnersOf(r) = {None}
      BY <2>2 DEF OwnersOf, Owned
    <3>. QED  BY <2>2, <3>1, FS_Singleton
  <2>3. CASE r \in DOMAIN heap /\ r \notin tmp
    <3>1. PICK s \in Statuses : rep[s] = r
      BY <2>3 DEF Owned
    <3>2. OwnersOf(r) = {s}
      BY <2>3, <3>1 DEF OwnersOf, Owned
    <3>. QED  BY <2>3, <3>2, FS_Singleton
  <2>. QED  BY <2>1, <2>2, <2>3
<1>. QED  BY Invariant, <1>1, PTL

\* A Status is a value: what is constructed or assigned gets the value it was made
\* from, and no copy, assignment, report or destruction changes another Status, or
\* what was lent from it.
THEOREM StatusIsAValue == Spec => IsAValue
<1>. QED  BY InitInv, NextStep, Invariant, PTL DEF Spec, IsAValue, Contract!Spec, Step
===============================================================================

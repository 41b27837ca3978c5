---------------------------- MODULE ExecutiveProofs ----------------------------
(***************************************************************************)
(* Executive proved for any callers, tasks, workers and scripts, and for   *)
(* every setting: the execution is deleted by its owner and by nobody      *)
(* else, nothing outlives it, and Submit() and the executions keep the     *)
(* contract of Execute() between them.                                     *)
(*                                                                         *)
(* NothingOutlivesExecution is about the moment of the deletion; what      *)
(* makes it true begins earlier.  The callers are done before ~Executive,  *)
(* so that the only ones that may still be inside Submit() are functions   *)
(* that run; the pool stops when none runs; and without a pool a function  *)
(* runs inside somebody's Submit().                                        *)
(***************************************************************************)
EXTENDS Executive, SequenceTheorems, TLAPS

Stages == {"new", "created", "queued", "refused", "discarded", "running", "run", "deleted"}

TypeOK ==
    /\ settings \in [pool : BOOLEAN, take : BOOLEAN]
    /\ owns = Ownership(settings)
    /\ executive \in {"alive", "deleting", "deleted"}
    /\ execution \in {"open", "stopping", "stopped", "deleted"}
    /\ deletedBy \subseteq {"Executive", "program"}
    /\ queue \in Seq(Tasks)
    /\ worker \in [Workers -> Tasks \cup {None}]
    /\ state \in [Tasks -> Stages]
    /\ future \subseteq Tasks
    /\ ready \subseteq Tasks
    /\ pos \in [Agents -> Nat \ {0}]
    /\ inside \in [Agents -> {"no", "execute", "running", "accepted", "refused"}]

\* The Executive deletes what it owns, the program a pool that it kept.
Owners ==
    /\ "Executive" \in deletedBy <=> executive = "deleted" /\ owns
    /\ "program" \in deletedBy => settings.pool /\ ~settings.take
    /\ executive = "deleting" => owns

\* What has become of the task of a Submit() in progress.
Stage(where) ==
    CASE where = "execute"  -> {"created"}
      [] where = "running"  -> {"running", "run", "deleted"}
      [] where = "accepted" -> {"queued", "running", "run", "deleted"}
      [] where = "refused"  -> {"refused"}

\* Who is inside Submit() goes on, and is the only one to submit its task.
Submitting ==
    \A a \in Agents : inside[a] # "no" =>
        /\ Does(a, "submit")
        /\ state[Subject(a)] \in Stage(inside[a])
        /\ \A b \in Agents : inside[b] # "no" /\ Subject(b) = Subject(a) => b = a

\* An accepted task is in the queue once, with a worker, or in a Submit().
Busy(t) == state[t] \in {"running", "run"}
Placed ==
    /\ \A i \in 1..Len(queue) : state[queue[i]] = "queued"
    /\ \A i, j \in 1..Len(queue) : queue[i] = queue[j] => i = j
    /\ \A t \in Tasks : state[t] = "queued" => \E i \in 1..Len(queue) : queue[i] = t
    /\ \A w \in Workers : worker[w] # None => Busy(worker[w])
    /\ \A t \in Tasks : Busy(t) =>
          IF settings.pool THEN \E w \in Workers : worker[w] = t
                           ELSE \E a \in Agents : inside[a] = "running" /\ Subject(a) = t

\* There is nothing to stop in the current thread.
NoPool ==
    ~settings.pool => /\ queue = <<>>
                      /\ \A w \in Workers : worker[w] = None
                      /\ execution \in {"open", "deleted"}
                      /\ execution = "deleted" => executive = "deleted"

\* The callers are done before the end begins, and everything is at the end.
Drained == Joined /\ \A t \in Tasks : state[t] # "queued" /\ ~Busy(t)
AtTheEnd == execution \in {"stopped", "deleted"} \/ (~settings.pool /\ executive # "alive")
InTheEnd ==
    /\ executive # "alive" \/ execution = "deleted" => \A c \in Callers : ~WillSubmit(c)
    /\ AtTheEnd => Drained

\* Only accepted tasks have futures, and a task that was run has answered.
Answered ==
    /\ \A t \in future : state[t] \in {"queued", "running", "run", "deleted"}
    /\ \A t \in Tasks : state[t] \in {"run", "deleted"} => t \in ready

Inv == Owners /\ Submitting /\ Placed /\ NoPool /\ InTheEnd /\ Answered

-----------------------------------------------------------------------------
(* Facts about the operators the actions are built from.                   *)

\* What an agent submits or waits for is a task.
LEMMA SubjectIsTask ==
  ASSUME TypeOK, NEW a \in Agents, NEW what, Does(a, what)
  PROVE  Subject(a) \in Tasks /\ pos[a] \in 1..Len(Script[a])
<1>1. Script[a] \in Seq([do : {"submit", "get"}, task : Tasks])
  BY ExecutiveAssumption
<1>2. pos[a] \in 1..Len(Script[a])
  BY <1>1 DEF TypeOK, Does, Done
<1>3. Script[a][pos[a]] \in [do : {"submit", "get"}, task : Tasks]
  BY <1>1, <1>2, ElementOfSeq
<1>. QED  BY <1>2, <1>3 DEF Subject

\* tasks_.pop_back().
LEMMA OldestTaken ==
  ASSUME NEW q \in Seq(Tasks), q # <<>>
  PROVE  /\ q[Oldest] \in Tasks /\ Len(q) >= 1
         /\ RemoveAt(q, Oldest) \in Seq(Tasks)
         /\ Len(RemoveAt(q, Oldest)) = Len(q) - 1
         /\ \A i \in 1..(Len(q) - 1) : RemoveAt(q, Oldest)[i] = q[i + 1]
<1>. DEFINE n    == Len(q)
            none == SubSeq(q, 1, 0)
            rest == SubSeq(q, 2, n)
<1>1. n \in Nat /\ n >= 1 /\ q[1] \in Tasks
  BY EmptySeq, LenProperties
<1>2. RemoveAt(q, Oldest) = none \o rest
  BY DEF RemoveAt, Oldest
<1>3. none = << >>
  <2>1. none \in Seq(Tasks) /\ Len(none) = 0
    BY SubSeqProperties
  <2>. QED  BY <2>1, EmptySeq
<1>4. \A i \in 2..n : q[i] \in Tasks
  BY <1>1, ElementOfSeq
<1>. HIDE DEF n
<1>5. /\ rest \in Seq(Tasks)
      /\ Len(rest) = IF 2 <= n THEN n - 2 + 1 ELSE 0
      /\ \A i \in 1..(n - 2 + 1) : rest[i] = q[2 + i - 1]
  BY <1>1, <1>4, SubSeqProperties
<1>. HIDE DEF none, rest
<1>6. /\ Len(rest) = n - 1
      /\ \A i \in 1..(n - 1) : rest[i] = q[i + 1]
  BY <1>1, <1>5
<1>7. none \o rest = rest
  BY <1>3, <1>5, ConcatEmptySeq
<1>8. q[Oldest] \in Tasks
  BY <1>1 DEF Oldest
<1>. QED  BY <1>1, <1>2, <1>5, <1>6, <1>7, <1>8 DEF n

\* Who has submitted everything does not begin again.
LEMMA QuietStays ==
  ASSUME TypeOK, NEW c \in Callers, ~WillSubmit(c), [Next]_vars
  PROVE  ~WillSubmit(c)'
<1>1. c \in Agents /\ c \notin Tasks
  BY ExecutiveAssumption DEF Agents
<1>2. /\ inside[c] = "no"
      /\ \A i \in pos[c]..Len(Script[c]) : Script[c][i].do # "submit"
  BY <1>1 DEF WillSubmit
<1>3. ~Does(c, "submit")
  <2>1. ASSUME Does(c, "submit") PROVE FALSE
    BY <1>1, <1>2, <2>1, SubjectIsTask DEF Does, TypeOK
  <2>. QED  BY <2>1
<1>4. Script[c] \in Seq([do : {"submit", "get"}, task : Tasks])
  BY <1>1, ExecutiveAssumption
<1>5. inside'[c] = "no" /\ pos'[c] \in {pos[c], pos[c] + 1}
  <2>1. ASSUME NEW a \in Agents, Submit(a) \/ GetValue(a)
        PROVE  inside'[c] = "no" /\ pos'[c] \in {pos[c], pos[c] + 1}
    <3>1. CASE Submit(a)
      <4>1. a # c
        BY <1>2, <1>3, <3>1
           DEF Submit, NewTask, ExecuteHere, ExecuteHereReturns, ExecuteOnPool,
               AssignFuture, DeleteRefused
      <4>. QED
        BY <1>1, <1>2, <3>1, <4>1
           DEF Submit, NewTask, ExecuteHere, ExecuteHereReturns, ExecuteOnPool,
               AssignFuture, DeleteRefused, Enter, Proceed, TypeOK
    <3>2. CASE GetValue(a)
      BY <1>1, <1>2, <3>2 DEF GetValue, Proceed, TypeOK
    <3>. QED  BY <2>1, <3>1, <3>2
  <2>2. CASE UNCHANGED <<pos, inside>>
    BY <1>2, <2>2
  <2>. QED
    BY <2>1, <2>2
       DEF Next, Take, Run, Delete, Shutdown, Stop, DeleteExecutive, DeleteOwned,
           DeletePool, Finished, vars
<1>6. pos[c] \in Nat /\ Len(Script[c]) \in Nat
  BY <1>1, <1>4 DEF TypeOK
<1>. QED  BY <1>1, <1>2, <1>5, <1>6 DEF WillSubmit

-----------------------------------------------------------------------------
(* Type correctness.                                                       *)

LEMMA TypeInit == Init => TypeOK
<1>. SUFFICES ASSUME Init PROVE TypeOK
  OBVIOUS
<1>. QED  BY DEF Init, TypeOK, Ownership, Stages

LEMMA SubmitType ==
  ASSUME TypeOK, Submitting, NEW a \in Agents, Submit(a)
  PROVE  TypeOK'
<1>1. Does(a, "submit")
  BY DEF Submit, NewTask, ExecuteHere, ExecuteHereReturns, ExecuteOnPool,
         AssignFuture, DeleteRefused, Submitting
<1>2. Subject(a) \in Tasks
  BY <1>1, SubjectIsTask
<1>3. Append(queue, Subject(a)) \in Seq(Tasks)
  BY <1>2 DEF TypeOK
<1>4. CASE NewTask(a)
  BY <1>2, <1>4 DEF NewTask, TypeOK, Become, Enter, lifeVars, poolVars, valueVars, Stages
<1>5. CASE ExecuteHere(a)
  BY <1>2, <1>5 DEF ExecuteHere, TypeOK, Become, Enter, lifeVars, poolVars, valueVars, Stages
<1>6. CASE ExecuteHereReturns(a)
  BY <1>6 DEF ExecuteHereReturns, TypeOK, Enter, lifeVars, poolVars, valueVars
<1>7. CASE ExecuteOnPool(a)
  BY <1>2, <1>3, <1>7
     DEF ExecuteOnPool, QueueAfter, TypeOK, Become, Enter, lifeVars, valueVars, Stages
<1>8. CASE AssignFuture(a)
  BY <1>2, <1>8 DEF AssignFuture, TypeOK, Enter, Proceed, lifeVars, poolVars
<1>9. CASE DeleteRefused(a)
  BY <1>2, <1>9
     DEF DeleteRefused, TypeOK, Become, Enter, Proceed, lifeVars, poolVars, valueVars, Stages
<1>. QED  BY <1>4, <1>5, <1>6, <1>7, <1>8, <1>9 DEF Submit

LEMMA TaskType ==
  ASSUME TypeOK
  PROVE  /\ \A a \in Agents : GetValue(a) => TypeOK'
         /\ \A w \in Workers : Take(w) => TypeOK'
         /\ \A t \in Tasks : Run(t) \/ Delete(t) => TypeOK'
<1>1. ASSUME NEW a \in Agents, GetValue(a) PROVE TypeOK'
  BY <1>1 DEF GetValue, TypeOK, Proceed, lifeVars, poolVars, valueVars
<1>2. ASSUME NEW w \in Workers, Take(w) PROVE TypeOK'
  <2>1. queue[Oldest] \in Tasks /\ RemoveAt(queue, Oldest) \in Seq(Tasks)
    BY <1>2, OldestTaken DEF Take, TypeOK
  <2>. QED  BY <1>2, <2>1 DEF Take, TypeOK, Become, lifeVars, valueVars, Stages
<1>3. ASSUME NEW t \in Tasks, Run(t) PROVE TypeOK'
  BY <1>3 DEF Run, TypeOK, Become, ValueSet, lifeVars, poolVars, Stages
<1>4. ASSUME NEW t \in Tasks, Delete(t) PROVE TypeOK'
  BY <1>4 DEF Delete, TypeOK, Become, lifeVars, valueVars, Stages
<1>. QED  BY <1>1, <1>2, <1>3, <1>4

LEMMA EndType ==
  ASSUME TypeOK,
         Shutdown \/ Stop \/ DeleteExecutive \/ DeleteOwned \/ DeletePool \/ UNCHANGED vars
  PROVE  TypeOK'
<1>1. CASE Shutdown \/ Stop
  BY <1>1 DEF Shutdown, Stop, TypeOK, poolVars, valueVars
<1>2. CASE DeleteExecutive
  BY <1>2 DEF DeleteExecutive, TypeOK, poolVars, valueVars
<1>3. CASE DeleteOwned \/ DeletePool
  BY <1>3 DEF DeleteOwned, DeletePool, TypeOK, poolVars, valueVars
<1>4. CASE UNCHANGED vars
  BY <1>4 DEF TypeOK, vars, lifeVars, poolVars, valueVars
<1>. QED  BY <1>1, <1>2, <1>3, <1>4

-----------------------------------------------------------------------------
(* What an action leaves alone stays true.                                 *)

LEMMA OwnersStay ==
  ASSUME Owners, UNCHANGED lifeVars
  PROVE  Owners'
BY DEF Owners, lifeVars

LEMMA EndStays ==
  ASSUME TypeOK, InTheEnd, [Next]_vars, UNCHANGED lifeVars, AtTheEnd => Drained'
  PROVE  InTheEnd'
<1>1. (executive # "alive" \/ execution = "deleted")' => \A c \in Callers : ~WillSubmit(c)'
  <2>. SUFFICES ASSUME executive' # "alive" \/ execution' = "deleted", NEW c \in Callers
                PROVE  ~WillSubmit(c)'
    OBVIOUS
  <2>1. ~WillSubmit(c)
    BY DEF InTheEnd, lifeVars
  <2>. QED  BY <2>1, QuietStays
<1>2. AtTheEnd' => Drained'
  BY DEF AtTheEnd, lifeVars
<1>. QED  BY <1>1, <1>2 DEF InTheEnd

\* Nobody is in Submit() at the end, except to be refused.
LEMMA NobodyActs ==
  ASSUME TypeOK, Inv, AtTheEnd, ~settings.pool \/ execution = "deleted",
         NEW a \in Agents, NEW what, Does(a, what)
  PROVE  what # "submit" /\ inside[a] = "no"
<1>1. Drained
  BY DEF Inv, InTheEnd
<1>2. a \in Callers
  BY <1>1 DEF Does, Active, Drained, Busy, Agents
<1>3. executive # "alive" \/ execution = "deleted"
  BY DEF AtTheEnd, Inv, NoPool, TypeOK
<1>4. ~WillSubmit(a)
  BY <1>2, <1>3 DEF Inv, InTheEnd
<1>5. a \notin Tasks
  BY <1>2, ExecutiveAssumption
<1>6. inside[a] = "no"
  BY <1>4, <1>5 DEF WillSubmit
<1>7. ASSUME what = "submit" PROVE FALSE
  <2>1. pos[a] \in 1..Len(Script[a]) /\ Script[a][pos[a]].do = "submit"
    BY <1>7, SubjectIsTask DEF Does
  <2>2. pos[a] \in pos[a]..Len(Script[a])
    BY <2>1
  <2>. QED  BY <1>4, <1>5, <2>1, <2>2 DEF WillSubmit
<1>. QED  BY <1>6, <1>7

-----------------------------------------------------------------------------
(* Submit().                                                               *)

LEMMA NewTaskKeeps ==
  ASSUME TypeOK, Inv, [Next]_vars, NEW a \in Agents, NewTask(a)
  PROVE  Inv'
<1>. DEFINE t == Subject(a)
<1>1. /\ t \in Tasks /\ state[t] = "new" /\ state' = [state EXCEPT ![t] = "created"]
      /\ inside[a] = "no" /\ inside' = [inside EXCEPT ![a] = "execute"]
      /\ Does(a, "submit")
      /\ UNCHANGED <<lifeVars, poolVars, valueVars, pos>>
  BY SubjectIsTask DEF NewTask, Become, Enter
<1>2. \A x \in Agents : Subject(x)' = Subject(x)
  BY <1>1 DEF Subject
<1>3. /\ \A x \in Tasks \ {t} : state'[x] = state[x]
      /\ \A x \in Agents \ {a} : inside'[x] = inside[x]
      /\ state'[t] = "created" /\ inside'[a] = "execute"
  BY <1>1 DEF TypeOK
<1>4. \A x \in Agents : inside[x] # "no" => Subject(x) # t
  BY <1>1 DEF Inv, Submitting, Stage, TypeOK
<1>. HIDE DEF t
<1>5. Submitting'
  <2>. SUFFICES ASSUME NEW x \in Agents, inside'[x] # "no"
                PROVE  /\ Does(x, "submit")'
                       /\ state'[Subject(x)] \in Stage(inside'[x])
                       /\ \A b \in Agents : inside'[b] # "no" /\ Subject(b) = Subject(x) => b = x
    BY <1>2 DEF Submitting
  <2>1. Does(x, "submit")
    BY <1>1, <1>3 DEF Inv, Submitting
  <2>2. Does(x, "submit")'
    BY <1>1, <1>3, <2>1 DEF Does, Active, Done
  <2>3. CASE x = a
    BY <1>3, <1>4, <2>2, <2>3 DEF Stage, t
  <2>4. CASE x # a
    <3>1. inside[x] # "no" /\ Subject(x) # t /\ Subject(x) \in Tasks
      BY <1>3, <1>4, <2>1, <2>4, SubjectIsTask
    <3>2. state'[Subject(x)] \in Stage(inside'[x])
      BY <1>3, <2>4, <3>1 DEF Inv, Submitting
    <3>. QED  BY <1>3, <2>2, <3>1, <3>2 DEF Inv, Submitting, t
  <2>. QED  BY <2>3, <2>4
<1>6. \A x \in Tasks : /\ Busy(x)' <=> Busy(x)
                       /\ state'[x] = "queued" <=> state[x] = "queued"
                       /\ state'[x] \in {"run", "deleted"} <=> state[x] \in {"run", "deleted"}
                       /\ state[x] \in {"queued", "running", "run", "deleted"} => state'[x] = state[x]
  BY <1>1, <1>3 DEF Busy
<1>7. Placed'
  <2>1. \A x \in Tasks : (\E b \in Agents : inside[b] = "running" /\ Subject(b) = x)
                         => \E b \in Agents : inside'[b] = "running" /\ Subject(b)' = x
    BY <1>1, <1>2, <1>3
  <2>2. \A i \in 1..Len(queue) : queue[i] \in Tasks
    BY DEF TypeOK
  <2>. QED
    BY <1>1, <1>6, <2>1, <2>2 DEF Inv, Placed, TypeOK, poolVars, lifeVars
<1>8. Answered'
  BY <1>1, <1>6 DEF Inv, Answered, valueVars, TypeOK
<1>9. AtTheEnd => Drained'
  BY <1>1, <1>6 DEF Inv, InTheEnd, Drained, Joined, poolVars
<1>10. NoPool'
  BY <1>1 DEF Inv, NoPool, lifeVars, poolVars
<1>. QED  BY <1>1, <1>5, <1>7, <1>8, <1>9, <1>10, OwnersStay, EndStays DEF Inv

LEMMA ExecuteHereKeeps ==
  ASSUME TypeOK, Inv, [Next]_vars, NEW a \in Agents, ExecuteHere(a)
  PROVE  Inv'
<1>. DEFINE t == Subject(a)
<1>1. /\ inside[a] = "execute" /\ inside' = [inside EXCEPT ![a] = "running"]
      /\ state' = [state EXCEPT ![t] = "running"]
      /\ ~settings.pool
      /\ UNCHANGED <<lifeVars, poolVars, valueVars, pos>>
  BY DEF ExecuteHere, Become, Enter
<1>2. Does(a, "submit") /\ t \in Tasks /\ state[t] = "created"
  BY <1>1, SubjectIsTask DEF Inv, Submitting, Stage
<1>3. /\ \A x \in Tasks \ {t} : state'[x] = state[x]
      /\ \A x \in Agents \ {a} : inside'[x] = inside[x]
      /\ state'[t] = "running" /\ inside'[a] = "running"
  BY <1>1, <1>2 DEF TypeOK
<1>4. \A x \in Agents \ {a} : inside[x] # "no" => Subject(x) # t
  BY <1>1 DEF Inv, Submitting
<1>5. \A x \in Agents : Subject(x)' = Subject(x)
  BY <1>1 DEF Subject
<1>. HIDE DEF t
<1>6. Submitting'
  <2>. SUFFICES ASSUME NEW x \in Agents, inside'[x] # "no"
                PROVE  /\ Does(x, "submit")'
                       /\ state'[Subject(x)] \in Stage(inside'[x])
                       /\ \A b \in Agents : inside'[b] # "no" /\ Subject(b) = Subject(x) => b = x
    BY <1>5 DEF Submitting
  <2>1. Does(x, "submit") /\ inside[x] # "no" /\ Subject(x) \in Tasks
    BY <1>1, <1>2, <1>3, SubjectIsTask DEF Inv, Submitting
  <2>2. Does(x, "submit")'
    BY <1>1, <1>2, <1>3, <2>1 DEF Does, Active, Done
  <2>3. \A b \in Agents : inside'[b] # "no" /\ Subject(b) = Subject(x) => b = x
    BY <1>1, <1>3, <2>1 DEF Inv, Submitting
  <2>4. CASE x = a
    BY <1>3, <2>2, <2>3, <2>4 DEF Stage, t
  <2>5. CASE x # a
    BY <1>3, <1>4, <2>1, <2>2, <2>3, <2>5 DEF Inv, Submitting
  <2>. QED  BY <2>4, <2>5
<1>7. Placed'
  <2>1. ASSUME NEW x \in Tasks, Busy(x)'
        PROVE  \E b \in Agents : inside'[b] = "running" /\ Subject(b)' = x
    <3>1. CASE x = t
      BY <1>3, <1>5, <3>1 DEF t
    <3>2. CASE x # t
      <4>1. PICK b \in Agents : inside[b] = "running" /\ Subject(b) = x
        BY <1>1, <1>3, <2>1, <3>2 DEF Inv, Placed, Busy
      <4>2. inside'[b] = "running"
        BY <1>1, <1>3, <4>1
      <4>. QED  BY <1>5, <4>1, <4>2
    <3>. QED  BY <3>1, <3>2
  <2>2. queue = <<>> /\ Len(<<>>) = 0 /\ \A w \in Workers : worker[w] = None
    BY <1>1, EmptySeq DEF Inv, NoPool
  <2>3. \A x \in Tasks : state'[x] # "queued"
    BY <1>3, <2>2 DEF Inv, Placed
  <2>. QED
    BY <1>1, <2>1, <2>2, <2>3 DEF Placed, poolVars, lifeVars
<1>8. Answered'
  BY <1>1, <1>2, <1>3 DEF Inv, Answered, valueVars, TypeOK
<1>9. ~AtTheEnd
  BY <1>1, <1>2, NobodyActs
<1>10. NoPool'
  BY <1>1 DEF Inv, NoPool, lifeVars, poolVars
<1>. QED  BY <1>1, <1>6, <1>7, <1>8, <1>9, <1>10, OwnersStay, EndStays DEF Inv

LEMMA ExecuteHereReturnsKeeps ==
  ASSUME TypeOK, Inv, [Next]_vars, NEW a \in Agents, ExecuteHereReturns(a)
  PROVE  Inv'
<1>1. /\ inside[a] = "running" /\ inside' = [inside EXCEPT ![a] = "accepted"]
      /\ state[Subject(a)] = "deleted"
      /\ UNCHANGED <<lifeVars, poolVars, state, valueVars, pos>>
  BY DEF ExecuteHereReturns, Enter
<1>2. /\ \A x \in Agents \ {a} : inside'[x] = inside[x]
      /\ inside'[a] = "accepted"
  BY <1>1 DEF TypeOK
<1>3. \A x \in Agents : Subject(x)' = Subject(x) /\ (Does(x, "submit")' <=> Does(x, "submit"))
  BY <1>1 DEF Subject, Does, Active, Done
<1>4. Submitting'
  <2>. SUFFICES ASSUME NEW x \in Agents, inside'[x] # "no"
                PROVE  /\ Does(x, "submit")
                       /\ state[Subject(x)] \in Stage(inside'[x])
                       /\ \A b \in Agents : inside'[b] # "no" /\ Subject(b) = Subject(x) => b = x
    BY <1>1, <1>3 DEF Submitting
  <2>1. inside[x] # "no" /\ \A b \in Agents : inside'[b] # "no" => inside[b] # "no"
    BY <1>1, <1>2
  <2>2. state[Subject(x)] \in Stage(inside'[x])
    <3>1. CASE x = a
      BY <1>1, <1>2, <3>1 DEF Stage
    <3>2. CASE x # a
      BY <1>2, <2>1, <3>2 DEF Inv, Submitting
    <3>. QED  BY <3>1, <3>2
  <2>. QED  BY <2>1, <2>2 DEF Inv, Submitting
<1>5. Placed'
  <2>1. ASSUME NEW x \in Tasks, NEW b \in Agents, Busy(x),
               inside[b] = "running", Subject(b) = x
        PROVE  inside'[b] = "running" /\ Subject(b)' = x
    BY <1>1, <1>2, <1>3, <2>1 DEF Busy
  <2>. QED
    BY <1>1, <2>1 DEF Inv, Placed, Busy, poolVars, lifeVars
<1>6. Answered'
  BY <1>1 DEF Inv, Answered, valueVars
<1>7. AtTheEnd => Drained'
  BY <1>1 DEF Inv, InTheEnd, Drained, Joined, Busy, poolVars
<1>8. NoPool'
  BY <1>1 DEF Inv, NoPool, lifeVars, poolVars
<1>. QED  BY <1>1, <1>4, <1>5, <1>6, <1>7, <1>8, OwnersStay, EndStays DEF Inv

LEMMA ExecuteOnPoolKeeps ==
  ASSUME TypeOK, Inv, [Next]_vars, NEW a \in Agents, ExecuteOnPool(a)
  PROVE  Inv'
<1>. DEFINE t      == Subject(a)
            answer == IF execution = "open" THEN "queued" ELSE "refused"
            where  == IF execution = "open" THEN "accepted" ELSE "refused"
<1>1. /\ inside[a] = "execute" /\ inside' = [inside EXCEPT ![a] = where]
      /\ state' = [state EXCEPT ![t] = answer]
      /\ queue' = IF execution = "open" THEN Append(queue, t) ELSE queue
      /\ settings.pool
      /\ UNCHANGED <<lifeVars, worker, valueVars, pos>>
  BY DEF ExecuteOnPool, Become, Enter, QueueAfter
<1>2. Does(a, "submit") /\ t \in Tasks /\ state[t] = "created"
  BY <1>1, SubjectIsTask DEF Inv, Submitting, Stage
<1>3. /\ \A x \in Tasks \ {t} : state'[x] = state[x]
      /\ \A x \in Agents \ {a} : inside'[x] = inside[x]
      /\ state'[t] = answer /\ inside'[a] = where
  BY <1>1, <1>2 DEF TypeOK
<1>4. \A x \in Agents \ {a} : inside[x] # "no" => Subject(x) # t
  BY <1>1 DEF Inv, Submitting
<1>5. \A x \in Agents : Subject(x)' = Subject(x)
  BY <1>1 DEF Subject
<1>6. \A i \in 1..Len(queue) : queue[i] \in Tasks \ {t}
  BY <1>2 DEF TypeOK, Inv, Placed
<1>. HIDE DEF t
<1>7. Submitting'
  <2>. SUFFICES ASSUME NEW x \in Agents, inside'[x] # "no"
                PROVE  /\ Does(x, "submit")'
                       /\ state'[Subject(x)] \in Stage(inside'[x])
                       /\ \A b \in Agents : inside'[b] # "no" /\ Subject(b) = Subject(x) => b = x
    BY <1>5 DEF Submitting
  <2>1. Does(x, "submit") /\ inside[x] # "no" /\ Subject(x) \in Tasks
    BY <1>1, <1>2, <1>3, SubjectIsTask DEF Inv, Submitting
  <2>2. Does(x, "submit")'
    BY <1>1, <1>2, <1>3, <2>1 DEF Does, Active, Done
  <2>3. \A b \in Agents : inside'[b] # "no" /\ Subject(b) = Subject(x) => b = x
    BY <1>1, <1>3, <2>1 DEF Inv, Submitting
  <2>4. CASE x = a
    BY <1>3, <2>2, <2>3, <2>4 DEF Stage, t
  <2>5. CASE x # a
    BY <1>3, <1>4, <2>1, <2>2, <2>3, <2>5 DEF Inv, Submitting
  <2>. QED  BY <2>4, <2>5
<1>8. \A x \in Tasks : Busy(x)' <=> Busy(x)
  BY <1>2, <1>3 DEF Busy
<1>9. Placed'
  <2>1. \A x \in Tasks : Busy(x)' => \E w \in Workers : worker'[w] = x
    BY <1>1, <1>8 DEF Inv, Placed
  <2>2. \A w \in Workers : worker'[w] # None => state'[worker'[w]] \in {"running", "run"}
    BY <1>1, <1>8 DEF Inv, Placed, TypeOK, Busy
  <2>3. CASE execution = "open"
    <3>1. /\ Len(queue) \in Nat /\ Len(queue') = Len(queue) + 1
          /\ \A i \in 1..Len(queue) : queue'[i] = queue[i]
          /\ queue'[Len(queue) + 1] = t
      BY <1>1, <1>2, <2>3, AppendProperties, LenProperties DEF TypeOK
    <3>2. \A i \in 1..Len(queue') : i \in 1..Len(queue) \/ i = Len(queue) + 1
      BY <3>1
    <3>3. \A i \in 1..Len(queue') : state'[queue'[i]] = "queued"
      BY <1>3, <1>6, <2>3, <3>1, <3>2 DEF Inv, Placed
    <3>4. \A i, j \in 1..Len(queue') : queue'[i] = queue'[j] => i = j
      BY <1>6, <3>1, <3>2 DEF Inv, Placed
    <3>5. \A x \in Tasks : state'[x] = "queued" => \E i \in 1..Len(queue') : queue'[i] = x
      <4>. SUFFICES ASSUME NEW x \in Tasks, state'[x] = "queued"
                    PROVE  \E i \in 1..Len(queue') : queue'[i] = x
        OBVIOUS
      <4>1. CASE x = t
        BY <3>1, <4>1
      <4>2. CASE x # t
        <5>1. PICK i \in 1..Len(queue) : queue[i] = x
          BY <1>3, <4>2 DEF Inv, Placed
        <5>. QED  BY <3>1, <5>1
      <4>. QED  BY <4>1, <4>2
    <3>. QED  BY <1>1, <2>1, <2>2, <3>3, <3>4, <3>5 DEF Placed, Busy, lifeVars
  <2>4. CASE execution # "open"
    <3>1. queue' = queue /\ state'[t] = "refused"
      BY <1>1, <1>3, <2>4
    <3>. QED
      BY <1>1, <1>3, <1>6, <2>1, <2>2, <3>1 DEF Inv, Placed, Busy, lifeVars
  <2>. QED  BY <2>3, <2>4
<1>10. Answered'
  BY <1>1, <1>2, <1>3 DEF Inv, Answered, valueVars, TypeOK
<1>11. AtTheEnd => Drained'
  <2>. SUFFICES ASSUME AtTheEnd PROVE Drained'
    OBVIOUS
  <2>1. execution # "open" /\ Drained
    BY <1>1 DEF AtTheEnd, Inv, InTheEnd
  <2>. QED  BY <1>1, <1>3, <1>8, <2>1 DEF Drained, Joined
<1>12. NoPool'
  BY <1>1 DEF NoPool, lifeVars
<1>. QED  BY <1>1, <1>7, <1>9, <1>10, <1>11, <1>12, OwnersStay, EndStays DEF Inv

\* What AssignFuture, DeleteRefused and GetValue have in common: one agent goes on.
LEMMA OthersGoOn ==
  ASSUME TypeOK, Inv, NEW a \in Agents, Proceed(a), inside' = [inside EXCEPT ![a] = "no"],
         UNCHANGED <<lifeVars, poolVars>>, inside[a] # "running",
         \A x \in Tasks : \/ state'[x] = state[x]
                         \/ /\ state[x] = "refused" /\ state'[x] = "discarded"
                            /\ inside[a] # "no" /\ Subject(a) = x
  PROVE  Submitting' /\ Placed' /\ (AtTheEnd => Drained') /\ NoPool'
<1>1. \A x \in Agents \ {a} : inside'[x] = inside[x] /\ pos'[x] = pos[x]
  BY DEF Proceed, TypeOK
<1>2. inside'[a] = "no"
  BY DEF TypeOK
<1>3. Submitting'
  <2>. SUFFICES ASSUME NEW x \in Agents, inside'[x] # "no"
                PROVE  /\ Does(x, "submit")'
                       /\ state'[Subject(x)'] \in Stage(inside'[x])
                       /\ \A b \in Agents : inside'[b] # "no" /\ Subject(b)' = Subject(x)' => b = x
    BY DEF Submitting
  <2>1. x # a /\ inside[x] # "no" /\ Subject(x)' = Subject(x) /\ Done(x)' = Done(x)
    BY <1>1, <1>2 DEF Subject, Done
  <2>2. Does(x, "submit") /\ Subject(x) \in Tasks
    BY <2>1, SubjectIsTask DEF Inv, Submitting
  <2>3. Does(x, "submit")'
    BY <1>1, <2>1, <2>2 DEF Does, Active
  <2>4. state'[Subject(x)] = state[Subject(x)]
    BY <2>1, <2>2 DEF Inv, Submitting
  <2>5. state'[Subject(x)] \in Stage(inside'[x])
    BY <1>1, <2>1, <2>4 DEF Inv, Submitting
  <2>6. ASSUME NEW b \in Agents, inside'[b] # "no", Subject(b)' = Subject(x)' PROVE b = x
    <3>1. b # a /\ inside[b] # "no" /\ Subject(b)' = Subject(b)
      BY <1>1, <1>2, <2>6 DEF Subject
    <3>. QED  BY <2>1, <2>6, <3>1 DEF Inv, Submitting
  <2>. QED  BY <2>1, <2>3, <2>5, <2>6
<1>4. \A x \in Tasks : (Busy(x)' <=> Busy(x)) /\ (state'[x] = "queued" <=> state[x] = "queued")
  BY DEF Busy
<1>5. Placed'
  <2>1. ASSUME NEW x \in Tasks, NEW b \in Agents, inside[b] = "running", Subject(b) = x
        PROVE  inside'[b] = "running" /\ Subject(b)' = x
    BY <1>1, <2>1 DEF Subject
  <2>2. \A i \in 1..Len(queue) : queue[i] \in Tasks
    BY DEF TypeOK
  <2>. QED
    BY <1>4, <2>1, <2>2 DEF Inv, Placed, poolVars, lifeVars, TypeOK
<1>6. AtTheEnd => Drained'
  BY <1>4 DEF Inv, InTheEnd, Drained, Joined, poolVars
<1>7. NoPool'
  BY DEF Inv, NoPool, lifeVars, poolVars
<1>. QED  BY <1>3, <1>5, <1>6, <1>7

LEMMA AgentGoesOn ==
  ASSUME TypeOK, Inv, [Next]_vars, NEW a \in Agents,
         AssignFuture(a) \/ DeleteRefused(a) \/ GetValue(a)
  PROVE  Inv'
<1>1. CASE AssignFuture(a)
  <2>1. /\ inside[a] = "accepted" /\ inside' = [inside EXCEPT ![a] = "no"] /\ Proceed(a)
        /\ future' = future \cup {Subject(a)}
        /\ UNCHANGED <<lifeVars, poolVars, state, ready>>
    BY <1>1 DEF AssignFuture, Enter
  <2>2. state[Subject(a)] \in {"queued", "running", "run", "deleted"}
    BY <2>1 DEF Inv, Submitting, Stage
  <2>3. Answered'
    BY <2>1, <2>2 DEF Inv, Answered
  <2>. QED  BY <2>1, <2>3, OthersGoOn, OwnersStay, EndStays DEF Inv
<1>2. CASE DeleteRefused(a)
  <2>1. /\ inside[a] = "refused" /\ inside' = [inside EXCEPT ![a] = "no"] /\ Proceed(a)
        /\ state' = [state EXCEPT ![Subject(a)] = "discarded"]
        /\ UNCHANGED <<lifeVars, poolVars, valueVars>>
    BY <1>2 DEF DeleteRefused, Enter, Become
  <2>2. state[Subject(a)] = "refused"
    BY <2>1 DEF Inv, Submitting, Stage
  <2>3. \A x \in Tasks : \/ state'[x] = state[x]
                        \/ /\ state[x] = "refused" /\ state'[x] = "discarded"
                           /\ inside[a] # "no" /\ Subject(a) = x
    BY <2>1, <2>2 DEF TypeOK
  <2>4. Answered'
    BY <2>1, <2>3 DEF Inv, Answered, valueVars, TypeOK
  <2>. QED  BY <2>1, <2>3, <2>4, OthersGoOn, OwnersStay, EndStays DEF Inv
<1>3. CASE GetValue(a)
  <2>1. Does(a, "get") /\ Proceed(a) /\ UNCHANGED <<lifeVars, poolVars, state, valueVars, inside>>
    BY <1>3 DEF GetValue
  <2>2. inside[a] = "no"
    BY <2>1 DEF Inv, Submitting, Does
  <2>3. inside' = [inside EXCEPT ![a] = "no"]
    BY <2>1, <2>2 DEF TypeOK
  <2>4. Answered'
    BY <2>1 DEF Inv, Answered, valueVars
  <2>. QED  BY <2>1, <2>2, <2>3, <2>4, OthersGoOn, OwnersStay, EndStays DEF Inv
<1>. QED  BY <1>1, <1>2, <1>3

-----------------------------------------------------------------------------
(* The tasks.                                                              *)

\* A task goes on where no Submit() and no task depends on it.
LEMMA SubmittingStays ==
  ASSUME TypeOK, Inv, NEW t \in Tasks, NEW new, state' = [state EXCEPT ![t] = new],
         UNCHANGED <<pos, inside>>,
         inside[t] = "no" \/ new = "running",
         \A x \in Agents : inside[x] # "no" /\ Subject(x) = t => new \in Stage(inside[x])
  PROVE  Submitting'
<1>1. \A x \in Tasks \ {t} : state'[x] = state[x]
  BY DEF TypeOK
<1>2. state'[t] = new
  BY DEF TypeOK
<1>. SUFFICES ASSUME NEW x \in Agents, inside[x] # "no"
              PROVE  Does(x, "submit")' /\ state'[Subject(x)] \in Stage(inside[x])
  BY DEF Inv, Submitting, Subject
<1>3. Does(x, "submit") /\ Subject(x) \in Tasks
  BY SubjectIsTask DEF Inv, Submitting
<1>4. Does(x, "submit")'
  BY <1>1, <1>2, <1>3 DEF Does, Active, Done
<1>5. state'[Subject(x)] \in Stage(inside[x])
  BY <1>1, <1>2, <1>3 DEF Inv, Submitting
<1>. QED  BY <1>4, <1>5

LEMMA TakeKeeps ==
  ASSUME TypeOK, Inv, [Next]_vars, NEW w \in Workers, Take(w)
  PROVE  Inv'
<1>. DEFINE t == queue[Oldest]
<1>1. /\ worker[w] = None /\ queue # <<>>
      /\ worker' = [worker EXCEPT ![w] = t]
      /\ state' = [state EXCEPT ![t] = "running"]
      /\ queue' = RemoveAt(queue, Oldest)
      /\ UNCHANGED <<lifeVars, valueVars, pos, inside>>
  BY DEF Take, Become
<1>2. /\ t \in Tasks /\ t = queue[1] /\ Len(queue) >= 1 /\ Len(queue) \in Nat
      /\ Len(queue') = Len(queue) - 1
      /\ \A i \in 1..Len(queue') : queue'[i] = queue[i + 1] /\ i + 1 \in 1..Len(queue) /\ i + 1 # 1
  <2>1. Len(queue) \in Nat
    BY LenProperties DEF TypeOK
  <2>2. /\ t \in Tasks /\ Len(queue) >= 1
        /\ Len(queue') = Len(queue) - 1
        /\ \A i \in 1..(Len(queue) - 1) : queue'[i] = queue[i + 1]
    BY <1>1, OldestTaken DEF TypeOK
  <2>3. \A i \in 1..(Len(queue) - 1) : i + 1 \in 1..Len(queue) /\ i + 1 # 1
    BY <2>1
  <2>. QED  BY <2>1, <2>2, <2>3 DEF Oldest
<1>. HIDE DEF t
<1>3. state[t] = "queued" /\ t # None
  <2>1. 1 \in 1..Len(queue)
    BY <1>2
  <2>. QED  BY <1>2, <2>1, ExecutiveAssumption DEF Inv, Placed
<1>4. /\ \A x \in Tasks \ {t} : state'[x] = state[x]
      /\ state'[t] = "running"
      /\ \A x \in Workers \ {w} : worker'[x] = worker[x]
      /\ worker'[w] = t
  BY <1>1, <1>2 DEF TypeOK
<1>5. settings.pool
  BY <1>1 DEF Inv, NoPool
<1>6. Submitting'
  <2>1. \A x \in Agents : inside[x] # "no" /\ Subject(x) = t => "running" \in Stage(inside[x])
    BY <1>3 DEF Inv, Submitting, Stage, TypeOK
  <2>. QED  BY <1>1, <1>2, <2>1, SubmittingStays
<1>7. Placed'
  <2>1. \A i \in 1..Len(queue') : queue'[i] # t
    <3>. SUFFICES ASSUME NEW i \in 1..Len(queue') PROVE queue'[i] # t
      OBVIOUS
    <3>1. 1 \in 1..Len(queue)
      BY <1>2
    <3>2. queue'[i] = queue[i + 1] /\ i + 1 \in 1..Len(queue) /\ i + 1 # 1
      BY <1>2
    <3>3. queue[i + 1] # queue[1]
      BY <3>1, <3>2 DEF Inv, Placed
    <3>. QED  BY <1>2, <3>2, <3>3
  <2>2. \A i \in 1..Len(queue') : queue'[i] \in Tasks
    <3>1. queue \in Seq(Tasks)
      BY DEF TypeOK
    <3>2. \A i \in 1..Len(queue) : queue[i] \in Tasks
      BY <3>1, ElementOfSeq
    <3>. QED  BY <1>2, <3>2
  <2>3. \A i \in 1..Len(queue') : state'[queue'[i]] = "queued"
    BY <1>2, <1>4, <2>1, <2>2 DEF Inv, Placed
  <2>4. \A i, j \in 1..Len(queue') : queue'[i] = queue'[j] => i = j
    <3>. SUFFICES ASSUME NEW i \in 1..Len(queue'), NEW j \in 1..Len(queue'), queue'[i] = queue'[j]
                  PROVE  i = j
      OBVIOUS
    <3>1. i + 1 = j + 1
      BY <1>2 DEF Inv, Placed
    <3>. QED  BY <3>1
  <2>5. ASSUME NEW x \in Tasks, state'[x] = "queued"
        PROVE  \E i \in 1..Len(queue') : queue'[i] = x
    <3>1. x # t
      BY <1>4, <2>5
    <3>2. PICK i \in 1..Len(queue) : queue[i] = x
      BY <1>4, <2>5, <3>1 DEF Inv, Placed
    <3>3. i - 1 \in 1..Len(queue') /\ (i - 1) + 1 = i
      BY <1>2, <3>1, <3>2
    <3>4. queue'[i - 1] = x
      BY <1>2, <3>2, <3>3
    <3>. QED  BY <3>3, <3>4
  <2>6. \A x \in Workers : worker'[x] # None => state'[worker'[x]] \in {"running", "run"}
    BY <1>3, <1>4 DEF Inv, Placed, Busy, TypeOK
  <2>7. ASSUME NEW x \in Tasks, Busy(x)'
        PROVE  \E y \in Workers : worker'[y] = x
    <3>1. CASE x = t
      BY <1>4, <3>1
    <3>2. CASE x # t
      <4>1. PICK y \in Workers : worker[y] = x
        BY <1>4, <1>5, <2>7, <3>2 DEF Inv, Placed, Busy
      <4>2. y # w
        BY <1>1, <4>1, ExecutiveAssumption
      <4>. QED  BY <1>4, <4>1, <4>2
    <3>. QED  BY <3>1, <3>2
  <2>. QED  BY <1>1, <1>5, <2>3, <2>4, <2>5, <2>6, <2>7 DEF Placed, Busy, lifeVars
<1>8. Answered'
  BY <1>1, <1>2, <1>3, <1>4 DEF Inv, Answered, valueVars, TypeOK
<1>9. ~AtTheEnd
  BY <1>1 DEF Inv, InTheEnd, Drained, Joined
<1>10. NoPool'
  BY <1>1, <1>5 DEF NoPool, lifeVars
<1>. QED  BY <1>1, <1>6, <1>7, <1>8, <1>9, <1>10, OwnersStay, EndStays DEF Inv

LEMMA RunKeeps ==
  ASSUME TypeOK, Inv, [Next]_vars, NEW t \in Tasks, Run(t)
  PROVE  Inv'
<1>1. /\ state[t] = "running" /\ Done(t)
      /\ ready' = ready \cup {t} /\ state' = [state EXCEPT ![t] = "run"]
      /\ UNCHANGED <<lifeVars, poolVars, future, pos, inside>>
  BY DEF Run, ValueSet, Become
<1>2. (\A x \in Tasks \ {t} : state'[x] = state[x]) /\ state'[t] = "run"
  BY <1>1 DEF TypeOK
<1>3. Submitting'
  <2>1. \A x \in Agents : inside[x] # "no" /\ Subject(x) = t => "run" \in Stage(inside[x])
    BY <1>1 DEF Inv, Submitting, Stage, TypeOK
  <2>2. inside[t] = "no"
    BY <1>1 DEF Inv, Submitting, Does, Agents
  <2>. QED  BY <1>1, <2>1, <2>2, SubmittingStays
<1>4. \A x \in Tasks : (Busy(x)' <=> Busy(x)) /\ (state'[x] = "queued" <=> state[x] = "queued")
  BY <1>1, <1>2 DEF Busy
<1>5. Placed'
  <2>1. \A x \in Agents : Subject(x)' = Subject(x)
    BY <1>1 DEF Subject
  <2>2. \A i \in 1..Len(queue) : queue[i] \in Tasks
    BY DEF TypeOK
  <2>. QED
    BY <1>1, <1>4, <2>1, <2>2 DEF Inv, Placed, poolVars, lifeVars, TypeOK
<1>6. Answered'
  BY <1>1, <1>2 DEF Inv, Answered, TypeOK
<1>7. AtTheEnd => Drained'
  BY <1>1, <1>4 DEF Inv, InTheEnd, Drained, Joined, poolVars
<1>8. NoPool'
  BY <1>1 DEF Inv, NoPool, lifeVars, poolVars
<1>. QED  BY <1>1, <1>3, <1>5, <1>6, <1>7, <1>8, OwnersStay, EndStays DEF Inv

LEMMA DeleteKeeps ==
  ASSUME TypeOK, Inv, [Next]_vars, NEW t \in Tasks, Delete(t)
  PROVE  Inv'
<1>1. /\ state[t] = "run" /\ state' = [state EXCEPT ![t] = "deleted"]
      /\ worker' = [w \in Workers |-> IF worker[w] = t THEN None ELSE worker[w]]
      /\ UNCHANGED <<lifeVars, queue, valueVars, pos, inside>>
  BY DEF Delete, Become
<1>2. (\A x \in Tasks \ {t} : state'[x] = state[x]) /\ state'[t] = "deleted"
  BY <1>1 DEF TypeOK
<1>3. Submitting'
  <2>1. \A x \in Agents : inside[x] # "no" /\ Subject(x) = t => "deleted" \in Stage(inside[x])
    BY <1>1 DEF Inv, Submitting, Stage, TypeOK
  <2>2. inside[t] = "no"
    BY <1>1 DEF Inv, Submitting, Does, Active, Agents
  <2>. QED  BY <1>1, <2>1, <2>2, SubmittingStays
<1>4. \A x \in Tasks : /\ Busy(x)' => Busy(x) /\ x # t
                       /\ x # t => (Busy(x) => Busy(x)')
                       /\ state'[x] = "queued" <=> state[x] = "queued"
  BY <1>1, <1>2 DEF Busy
<1>5. Placed'
  <2>1. \A x \in Agents : Subject(x)' = Subject(x)
    BY <1>1 DEF Subject
  <2>2. \A i \in 1..Len(queue) : queue[i] \in Tasks
    BY DEF TypeOK
  <2>3. ASSUME NEW w \in Workers, worker'[w] # None
        PROVE  state'[worker'[w]] \in {"running", "run"}
    <3>1. worker'[w] = worker[w] /\ worker[w] # t /\ worker[w] # None /\ worker[w] \in Tasks
      BY <1>1, <2>3 DEF TypeOK
    <3>. QED  BY <1>2, <3>1 DEF Inv, Placed, Busy
  <2>4. \A x \in Tasks \ {t}, w \in Workers : worker[w] = x => worker'[w] = x
    BY <1>1
  <2>. QED
    BY <1>1, <1>4, <2>1, <2>2, <2>3, <2>4 DEF Inv, Placed, Busy, lifeVars, TypeOK
<1>6. Answered'
  BY <1>1, <1>2 DEF Inv, Answered, valueVars, TypeOK
<1>7. AtTheEnd => Drained'
  BY <1>1 DEF Inv, InTheEnd, Drained, Busy
<1>8. NoPool'
  BY <1>1 DEF Inv, NoPool, lifeVars
<1>. QED  BY <1>1, <1>3, <1>5, <1>6, <1>7, <1>8, OwnersStay, EndStays DEF Inv

-----------------------------------------------------------------------------
(* The end of the execution and of the Executive.                          *)

LEMMA EndKeeps ==
  ASSUME TypeOK, Inv, [Next]_vars,
         Shutdown \/ Stop \/ DeleteExecutive \/ DeleteOwned \/ DeletePool
  PROVE  Inv'
<1>1. UNCHANGED <<settings, owns, poolVars, state, valueVars, pos, inside>>
  BY DEF Shutdown, Stop, DeleteExecutive, DeleteOwned, DeletePool
<1>2. Submitting' /\ Answered'
  BY <1>1 DEF Inv, Submitting, Answered, Subject, Does, Active, Done, valueVars
<1>3. Placed'
  BY <1>1 DEF Inv, Placed, Busy, Subject, poolVars
<1>4. Drained' <=> Drained
  BY <1>1 DEF Drained, Joined, Busy, poolVars
<1>5. \A c \in Callers : ~WillSubmit(c) => ~WillSubmit(c)'
  BY QuietStays
<1>6. owns = Ownership(settings) /\ settings.pool \in BOOLEAN /\ settings.take \in BOOLEAN
  BY DEF TypeOK
<1>7. CASE Shutdown
  <2>1. Owners' /\ NoPool'
    BY <1>1, <1>7 DEF Shutdown, Inv, Owners, NoPool
  <2>2. AtTheEnd' => FALSE
    BY <1>7 DEF AtTheEnd, Shutdown
  <2>3. InTheEnd'
    BY <1>5, <1>7, <2>2 DEF Inv, InTheEnd, Shutdown
  <2>. QED  BY <1>2, <1>3, <2>1, <2>3 DEF Inv
<1>8. CASE Stop
  <2>1. Joined /\ execution = "stopping" /\ execution' = "stopped"
        /\ UNCHANGED <<executive, deletedBy>>
    BY <1>8 DEF Stop
  <2>2. settings.pool
    BY <2>1 DEF Inv, NoPool
  <2>3. Owners' /\ NoPool'
    BY <1>1, <2>1, <2>2 DEF Inv, Owners, NoPool
  <2>4. Drained
    <3>1. \A x \in Tasks : ~Busy(x)
      BY <2>1, <2>2, ExecutiveAssumption DEF Joined, Inv, Placed
    <3>2. \A x \in Tasks : state[x] # "queued"
      <4>1. Len(queue) = 0
        BY <2>1, EmptySeq DEF Joined
      <4>. QED  BY <4>1 DEF Inv, Placed
    <3>. QED  BY <2>1, <3>1, <3>2 DEF Drained
  <2>5. InTheEnd'
    BY <1>4, <1>5, <2>1, <2>4 DEF Inv, InTheEnd
  <2>. QED  BY <1>2, <1>3, <2>3, <2>5 DEF Inv
<1>9. CASE DeleteExecutive
  <2>1. /\ executive = "alive" /\ deletedBy' = deletedBy
        /\ executive' = IF owns THEN "deleting" ELSE "deleted"
        /\ execution' = IF owns /\ settings.pool /\ execution = "open" THEN "stopping" ELSE execution
        /\ \A a \in Agents : WillSubmit(a) => a \in Tasks /\ owns /\ settings.pool
    BY <1>9 DEF DeleteExecutive
  <2>2. \A c \in Callers : ~WillSubmit(c)
    BY <2>1, ExecutiveAssumption DEF Agents
  <2>3. Owners' /\ NoPool'
    <3>1. owns \in BOOLEAN
      BY <1>6 DEF Ownership
    <3>2. Owners'
      BY <1>1, <2>1, <3>1 DEF Inv, Owners
    <3>3. NoPool'
      BY <1>1, <2>1 DEF Inv, NoPool, poolVars
    <3>. QED  BY <3>2, <3>3
  <2>4. AtTheEnd' => Drained
    <3>1. CASE settings.pool
      <4>1. AtTheEnd' => AtTheEnd
        BY <1>1, <2>1, <3>1 DEF AtTheEnd
      <4>. QED  BY <4>1 DEF Inv, InTheEnd
    <3>2. CASE ~settings.pool
      <4>1. \A a \in Agents : inside[a] = "no"
        <5>. SUFFICES ASSUME NEW a \in Agents, inside[a] # "no" PROVE FALSE
          OBVIOUS
        <5>1. Does(a, "submit")
          BY DEF Inv, Submitting
        <5>2. WillSubmit(a)
          BY <5>1 DEF WillSubmit, Does, Active
        <5>. QED  BY <2>1, <3>2, <5>2
      <4>2. \A x \in Tasks : ~Busy(x)
        BY <3>2, <4>1 DEF Inv, Placed
      <4>3. queue = <<>> /\ Joined
        BY <3>2 DEF Inv, NoPool, Joined
      <4>4. \A x \in Tasks : state[x] # "queued"
        <5>1. Len(queue) = 0
          BY <4>3, EmptySeq
        <5>. QED  BY <5>1 DEF Inv, Placed
      <4>. QED  BY <4>2, <4>3, <4>4 DEF Drained
    <3>. QED  BY <3>1, <3>2
  <2>5. InTheEnd'
    BY <1>4, <1>5, <2>2, <2>4 DEF InTheEnd
  <2>. QED  BY <1>2, <1>3, <2>3, <2>5 DEF Inv
<1>10. CASE DeleteOwned
  <2>1. /\ executive = "deleting"
        /\ settings.pool => execution = "stopped"
        /\ executive' = "deleted" /\ execution' = "deleted"
        /\ deletedBy' = deletedBy \cup {"Executive"}
    BY <1>10 DEF DeleteOwned
  <2>2. owns /\ AtTheEnd
    BY <2>1 DEF Inv, Owners, AtTheEnd
  <2>3. Owners' /\ NoPool'
    BY <1>1, <2>1, <2>2 DEF Inv, Owners, NoPool, poolVars
  <2>4. InTheEnd'
    BY <1>4, <1>5, <2>1, <2>2 DEF Inv, InTheEnd
  <2>. QED  BY <1>2, <1>3, <2>3, <2>4 DEF Inv
<1>11. CASE DeletePool
  <2>1. /\ settings.pool /\ ~settings.take /\ execution \in {"stopped", "deleted"}
        /\ executive' = executive /\ execution' = "deleted"
        /\ deletedBy' = deletedBy \cup {"program"}
        /\ \A a \in Agents : ~WillSubmit(a)
    BY <1>11 DEF DeletePool
  <2>2. Owners' /\ NoPool'
    BY <1>1, <2>1 DEF Inv, Owners, NoPool
  <2>3. InTheEnd'
    BY <1>4, <1>5, <2>1 DEF Inv, InTheEnd, AtTheEnd, Agents
  <2>. QED  BY <1>2, <1>3, <2>2, <2>3 DEF Inv
<1>. QED  BY <1>7, <1>8, <1>9, <1>10, <1>11

-----------------------------------------------------------------------------
(* The theorems.                                                           *)

LEMMA InvInit == Init => Inv
<1>. SUFFICES ASSUME Init PROVE Inv
  OBVIOUS
<1>1. queue = <<>> /\ Len(queue) = 0
  BY EmptySeq DEF Init
<1>2. Owners /\ NoPool
  BY DEF Init, Owners, NoPool
<1>3. Submitting /\ Placed /\ Answered
  BY <1>1 DEF Init, Submitting, Placed, Busy, Answered
<1>4. InTheEnd
  BY DEF Init, InTheEnd, AtTheEnd
<1>. QED  BY <1>2, <1>3, <1>4 DEF Inv

LEMMA InvStep == TypeOK /\ Inv /\ [Next]_vars => TypeOK' /\ Inv'
<1>. SUFFICES ASSUME TypeOK, Inv, [Next]_vars PROVE TypeOK' /\ Inv'
  OBVIOUS
<1>1. ASSUME NEW a \in Agents, Submit(a) PROVE TypeOK' /\ Inv'
  <2>1. TypeOK'
    BY <1>1, SubmitType DEF Inv
  <2>2. Inv'
    BY <1>1, NewTaskKeeps, ExecuteHereKeeps, ExecuteHereReturnsKeeps, ExecuteOnPoolKeeps,
       AgentGoesOn DEF Submit
  <2>. QED  BY <2>1, <2>2
<1>2. ASSUME NEW a \in Agents, GetValue(a) PROVE TypeOK' /\ Inv'
  BY <1>2, TaskType, AgentGoesOn
<1>3. ASSUME NEW w \in Workers, Take(w) PROVE TypeOK' /\ Inv'
  BY <1>3, TaskType, TakeKeeps
<1>4. ASSUME NEW t \in Tasks, Run(t) \/ Delete(t) PROVE TypeOK' /\ Inv'
  BY <1>4, TaskType, RunKeeps, DeleteKeeps
<1>5. CASE Shutdown \/ Stop \/ DeleteExecutive \/ DeleteOwned \/ DeletePool
  BY <1>5, EndType, EndKeeps
<1>6. CASE UNCHANGED vars
  <2>1. TypeOK'
    BY <1>6, EndType
  <2>2. UNCHANGED <<settings, owns, executive, execution, deletedBy, queue, worker, state,
                    future, ready, pos, inside>>
    BY <1>6 DEF vars, lifeVars, poolVars, valueVars
  <2>3. Owners' /\ NoPool' /\ Answered'
    BY <2>2 DEF Inv, Owners, NoPool, Answered
  <2>4. Submitting' /\ Placed'
    BY <2>2 DEF Inv, Submitting, Placed, Busy, Subject, Does, Active, Done
  <2>5. InTheEnd'
    BY <2>2 DEF Inv, InTheEnd, AtTheEnd, Drained, Joined, Busy, WillSubmit
  <2>. QED  BY <2>1, <2>3, <2>4, <2>5 DEF Inv
<1>. QED
  BY <1>1, <1>2, <1>3, <1>4, <1>5, <1>6 DEF Next, Finished

\* The variables keep their types, and the invariant holds, for any script.
THEOREM InvariantHolds == Spec => [](TypeOK /\ Inv)
<1>1. Init => TypeOK /\ Inv
  BY TypeInit, InvInit
<1>. QED  BY <1>1, InvStep, PTL DEF Spec

\* take_ownership() decides who deletes the execution: the Executive its own one and
\* the default one, the program a pool that it kept, and never both
\* (executive.h:85-89, 129-131).
THEOREM ExecutionIsDeletedByItsOwner == Spec => []DeletedByItsOwner
<1>1. TypeOK /\ Inv => DeletedByItsOwner
  BY DEF TypeOK, Inv, Owners, Ownership, DeletedByItsOwner
<1>. QED  BY <1>1, InvariantHolds, PTL

\* When the execution is gone no task and no Execute() is in progress, whoever else
\* submitted while it was being destroyed, and every future was answered.
THEOREM NothingEverOutlivesExecution == Spec => []NothingOutlivesExecution
<1>1. ASSUME TypeOK, Inv, execution = "deleted"
      PROVE  /\ \A t \in Tasks : state[t] \notin {"queued", "running", "run"}
             /\ \A a \in Agents : inside[a] # "execute"
             /\ future \subseteq ready
  <2>1. AtTheEnd
    BY <1>1 DEF AtTheEnd
  <2>2. \A t \in Tasks : state[t] \notin {"queued", "running", "run"}
    BY <1>1, <2>1 DEF Inv, InTheEnd, Drained, Busy
  <2>3. \A a \in Agents : inside[a] # "execute"
    BY <1>1, <2>1, NobodyActs DEF Inv, Submitting
  <2>4. future \subseteq ready
    BY <1>1, <2>2 DEF Inv, Answered, TypeOK
  <2>. QED  BY <2>2, <2>3, <2>4
<1>2. TypeOK /\ Inv => NothingOutlivesExecution
  BY <1>1 DEF NothingOutlivesExecution
<1>. QED  BY <1>2, InvariantHolds, PTL

-----------------------------------------------------------------------------
(* The contract of Execute().                                              *)

\* A task that goes from one stage to the next, as the contract sees it.
LEMMA StageImplements ==
  ASSUME TypeOK, NEW t \in Tasks, NEW new,
         state' = [state EXCEPT ![t] = new],
         \/ state[t] = "new" /\ new = "created"
         \/ state[t] = "created" /\ new \in {"running", "queued", "refused"}
         \/ state[t] = "queued" /\ new = "running"
         \/ state[t] = "refused" /\ new = "discarded"
         \/ state[t] = "running" /\ new = "run"
         \/ state[t] = "run" /\ new = "deleted"
  PROVE  [Contract!Next]_(Contract!vars)
<1>1. (\A x \in Tasks \ {t} : state'[x] = state[x]) /\ state'[t] = new
  BY DEF TypeOK
<1>2. CASE state[t] = "new" \/ state[t] = "queued"
  BY <1>1, <1>2 DEF Contract!vars
<1>3. CASE state[t] = "created"
  <2>1. CASE new = "refused"
    <3>1. Contract!Refuse(t)
      BY <1>1, <1>3, <2>1 DEF Contract!Refuse
    <3>. QED  BY <3>1 DEF Contract!Next
  <2>2. CASE new # "refused"
    <3>1. Contract!Accept(t)
      BY <1>1, <1>3, <2>2 DEF Contract!Accept
    <3>. QED  BY <3>1 DEF Contract!Next
  <2>. QED  BY <2>1, <2>2
<1>4. CASE state[t] = "refused"
  <2>1. Contract!CallerDelete(t)
    BY <1>1, <1>4 DEF Contract!CallerDelete
  <2>. QED  BY <2>1 DEF Contract!Next
<1>5. CASE state[t] = "running"
  <2>1. Contract!Run(t)
    BY <1>1, <1>5 DEF Contract!Run
  <2>. QED  BY <2>1 DEF Contract!Next
<1>6. CASE state[t] = "run"
  <2>1. Contract!Delete(t)
    BY <1>1, <1>6 DEF Contract!Delete
  <2>. QED  BY <2>1 DEF Contract!Next
<1>. QED  BY <1>2, <1>3, <1>4, <1>5, <1>6

LEMMA StepImplements == TypeOK /\ Inv /\ [Next]_vars => [Contract!Next]_(Contract!vars)
<1>. SUFFICES ASSUME TypeOK, Inv, [Next]_vars PROVE [Contract!Next]_(Contract!vars)
  OBVIOUS
<1>1. ASSUME NEW a \in Agents, Submit(a) PROVE [Contract!Next]_(Contract!vars)
  <2>. DEFINE t == Subject(a)
  <2>1. t \in Tasks
    BY <1>1, SubjectIsTask
       DEF Submit, NewTask, ExecuteHere, ExecuteHereReturns, ExecuteOnPool,
           AssignFuture, DeleteRefused, Inv, Submitting
  <2>2. CASE NewTask(a)
    BY <2>1, <2>2, StageImplements DEF NewTask, Become
  <2>3. CASE ExecuteHere(a) \/ ExecuteOnPool(a)
    <3>1. state[t] = "created"
      BY <2>3 DEF ExecuteHere, ExecuteOnPool, Inv, Submitting, Stage
    <3>2. \E new \in {"running", "queued", "refused"} : state' = [state EXCEPT ![t] = new]
      BY <2>3 DEF ExecuteHere, ExecuteOnPool, Become
    <3>. QED  BY <2>1, <3>1, <3>2, StageImplements
  <2>4. CASE ExecuteHereReturns(a) \/ AssignFuture(a)
    BY <2>4 DEF ExecuteHereReturns, AssignFuture, Contract!vars
  <2>5. CASE DeleteRefused(a)
    <3>1. state[t] = "refused" /\ state' = [state EXCEPT ![t] = "discarded"]
      BY <2>5 DEF DeleteRefused, Become, Inv, Submitting, Stage
    <3>. QED  BY <2>1, <3>1, StageImplements
  <2>. QED  BY <1>1, <2>2, <2>3, <2>4, <2>5 DEF Submit
<1>2. ASSUME NEW w \in Workers, Take(w) PROVE [Contract!Next]_(Contract!vars)
  <2>1. queue[1] \in Tasks /\ Len(queue) >= 1
    BY <1>2, OldestTaken DEF Take, TypeOK, Oldest
  <2>2. state[queue[1]] = "queued"
    <3>1. 1 \in 1..Len(queue)
      BY <2>1, LenProperties DEF TypeOK
    <3>. QED  BY <3>1 DEF Inv, Placed
  <2>. QED  BY <1>2, <2>1, <2>2, StageImplements DEF Take, Become, Oldest
<1>3. ASSUME NEW t \in Tasks, Run(t) \/ Delete(t) PROVE [Contract!Next]_(Contract!vars)
  BY <1>3, StageImplements DEF Run, Delete, Become
<1>4. CASE UNCHANGED state
  BY <1>4 DEF Contract!vars
<1>. QED
  BY <1>1, <1>2, <1>3, <1>4
     DEF Next, GetValue, Shutdown, Stop, DeleteExecutive, DeleteOwned, DeletePool,
         Finished, vars

\* Submit() and whichever execution it has keep the contract between them: what is
\* refused is deleted by Submit() and never run, what is accepted is run once and
\* deleted once, by the execution (execution.h:25-35, executive.h:112-113).
THEOREM ExecutiveIsAnExecution == Spec => ImplementsContract
<1>1. Init => Contract!Init
  BY DEF Init, Contract!Init
<1>. QED
  BY <1>1, InvariantHolds, StepImplements, PTL DEF Spec, ImplementsContract, Contract!Spec
==============================================================================

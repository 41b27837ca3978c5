--------------------------- MODULE ThreadPoolProofs ---------------------------
(***************************************************************************)
(* Proofs about ThreadPool, for every set of tasks and clients and every   *)
(* number of threads.                                                      *)
(***************************************************************************)
EXTENDS ThreadPool, SequenceTheorems, FiniteSetTheorems, TLAPS

Entry == Tasks \cup {NULL}                \* what the queue holds

-----------------------------------------------------------------------------
(* Facts about the operators the actions are built from.                   *)

LEMMA IncrementType ==
  ASSUME NEW S, NEW f \in [S -> Nat], NEW x
  PROVE  [f EXCEPT ![x] = @ + 1] \in [S -> Nat]
<1>1. ASSUME NEW s \in S PROVE [f EXCEPT ![x] = @ + 1][s] \in Nat
  <2>1. CASE s = x  BY <2>1
  <2>2. CASE s # x  BY <2>2
  <2>. QED  BY <2>1, <2>2
<1>. QED  BY <1>1

LEMMA AdvanceType ==
  ASSUME NEW f \in Frames, NEW next \in {"join", "clear"}
  PROVE  Advance(f, next) \in Frames
BY ThreadPoolAssumption DEF Frames, Advance, Frame

\* A signal at most makes one waiting worker ready.
LEMMA SignalType ==
  ASSUME pc \in [Workers -> PCs], Signal
  PROVE  pc' \in [Workers -> PCs]
BY DEF Signal, Waiting, PCs

\* The head of the queue is NULL or a task.
LEMMA TakeType ==
  ASSUME tasks \in Seq(Entry), tasks # <<>>, taken \in Seq(Tasks)
  PROVE  /\ Tail(tasks) \in Seq(Entry)
         /\ Head(tasks) \in Entry
         /\ Head(tasks) # NULL => Append(taken, Head(tasks)) \in Seq(Tasks)
<1>1. Head(tasks) \in Entry /\ Tail(tasks) \in Seq(Entry)
  OBVIOUS
<1>2. Head(tasks) # NULL => Head(tasks) \in Tasks
  BY <1>1 DEF Entry
<1>. QED  BY <1>1, <1>2, AppendProperties

\* Execute() refuses and leaves the queue alone, NULL always, or it pushes a task.
LEMMA ExecuteIs ==
  ASSUME NEW t \in Arguments, Execute(t)
  PROVE  \/ /\ t = NULL \/ shuttingDown
            /\ result' = [result EXCEPT ![t] = "fail"]
            /\ UNCHANGED <<tasks, pc, accepted>>
         \/ /\ t \in Tasks /\ ~shuttingDown
            /\ result' = [result EXCEPT ![t] = "ok"]
            /\ Push(t) /\ tasks' = Append(tasks, t) /\ Signal
            /\ accepted' = Append(accepted, t)
BY DEF Execute, Refuses, Push, Arguments

-----------------------------------------------------------------------------
(* Type correctness.                                                       *)

\* The variables keep their types: TypeOK is inductive by itself.
THEOREM TypeCorrect == Spec => []TypeOK
<1>1. Init => TypeOK
  <2> SUFFICES ASSUME Init PROVE TypeOK
    OBVIOUS
  <2>1. requested \in ThreadCounts /\ threads \in 0..MaxThreads
    BY ThreadPoolAssumption DEF Init
  <2>2. pc \in [Workers -> PCs] /\ held \in [Workers -> Tasks \cup {NULL}]
    BY DEF Init, PCs
  <2>3. call \in [Callers -> Frames]
    BY ThreadPoolAssumption DEF Init, Frame, Frames
  <2>4. tasks \in Seq(Tasks \cup {NULL})
    BY DEF Init
  <2>5. accepted \in Seq(Tasks) /\ taken \in Seq(Tasks)
    BY DEF Init
  <2>6. /\ result \in [Tasks \cup {NULL} -> {"none", "ok", "fail"}]
        /\ runs \in [Tasks \cup {NULL} -> Nat] /\ deletes \in [Tasks \cup {NULL} -> Nat]
    BY DEF Init, Arguments
  <2>. QED  BY <2>1, <2>2, <2>3, <2>4, <2>5, <2>6 DEF Init, TypeOK
<1>2. TypeOK /\ [Next]_vars => TypeOK'
  <2> SUFFICES ASSUME TypeOK, [Next]_vars PROVE TypeOK'
    OBVIOUS
  <2> USE ThreadPoolAssumption
  <2> USE DEF repVars, taskVars
  <2>1. CASE Construct
    <3> USE DEF TypeOK, ThreadCounts
    <3>1. CASE InitSyncFails  BY <3>1 DEF InitSyncFails
    <3>2. CASE InitSync  BY <3>2 DEF InitSync, Recorded
    <3>3. CASE StartThread  BY <3>3 DEF StartThread, MoreToStart, Workers, PCs
    <3>4. CASE StartThreadFails  BY <3>4 DEF StartThreadFails
    <3>5. CASE Publish  BY <3>5 DEF Publish
    <3>. QED  BY <2>1, <3>1, <3>2, <3>3, <3>4, <3>5 DEF Construct
  <2>2. ASSUME NEW t \in Arguments, Execute(t) PROVE TypeOK'
    <3>1. tasks' \in Seq(Entry) /\ accepted' \in Seq(Tasks)
      <4>1. tasks \in Seq(Entry) /\ accepted \in Seq(Tasks)  BY DEF TypeOK, Entry
      <4>2. t \in Tasks =>
              Append(tasks, t) \in Seq(Entry) /\ Append(accepted, t) \in Seq(Tasks)
        BY <4>1, AppendProperties DEF Entry
      <4>. QED  BY <2>2, <4>1, <4>2, ExecuteIs
    <3>2. pc' \in [Workers -> PCs]
      BY <2>2, SignalType, ExecuteIs DEF Push, TypeOK
    <3>3. result' \in [Tasks \cup {NULL} -> {"none", "ok", "fail"}]
      BY <2>2, ExecuteIs DEF TypeOK
    <3>4. UNCHANGED <<repVars, shuttingDown, threads, held, call, runs, deletes, taken>>
      BY <2>2 DEF Execute
    <3>. QED  BY <3>1, <3>2, <3>3, <3>4 DEF TypeOK, Entry
  <2>3. ASSUME NEW t \in Arguments, CallerDelete(t) PROVE TypeOK'
    BY <2>3 DEF CallerDelete, TypeOK
  <2>4. ASSUME NEW w \in Workers, GetNextTask(w) PROVE TypeOK'
    <3>1. tasks \in Seq(Entry) /\ taken \in Seq(Tasks)  BY DEF TypeOK, Entry
    <3>2. pc' \in [Workers -> PCs]
      BY <2>4 DEF GetNextTask, Popped, TypeOK, PCs
    <3>3. tasks' \in Seq(Entry) /\ taken' \in Seq(Tasks)
      BY <2>4, <3>1, TakeType DEF GetNextTask, Popped
    <3>4. held' \in [Workers -> Entry]
      <4>1. held \in [Workers -> Entry]  BY DEF TypeOK, Entry
      <4>2. \/ held' = held
            \/ tasks # <<>> /\ held' = [held EXCEPT ![w] = Head(tasks)]
        BY <2>4 DEF GetNextTask, Popped
      <4>. QED  BY <3>1, <4>1, <4>2, TakeType
    <3>. QED  BY <2>4, <3>2, <3>3, <3>4 DEF GetNextTask, Popped, TypeOK, Entry
  <2>5. ASSUME NEW w \in Workers, RunTask(w) PROVE TypeOK'
    <3>1. runs' \in [Tasks \cup {NULL} -> Nat]
      BY <2>5, IncrementType DEF RunTask, TypeOK
    <3>2. pc' \in [Workers -> PCs]
      BY <2>5 DEF RunTask, TypeOK, PCs
    <3>. QED  BY <2>5, <3>1, <3>2 DEF RunTask, TypeOK
  <2>6. ASSUME NEW w \in Workers, DeleteTask(w) PROVE TypeOK'
    <3>1. deletes' \in [Tasks \cup {NULL} -> Nat]
      BY <2>6, IncrementType DEF DeleteTask, TypeOK
    <3>2. pc' \in [Workers -> PCs] /\ held' \in [Workers -> Entry]
      BY <2>6 DEF DeleteTask, TypeOK, PCs, Entry
    <3>. QED  BY <2>6, <3>1, <3>2 DEF DeleteTask, TypeOK, Entry
  <2>7. ASSUME NEW w \in Workers, SpuriousWakeup(w) PROVE TypeOK'
    BY <2>7 DEF SpuriousWakeup, TypeOK, PCs
  <2>8. ASSUME NEW c \in Callers, ShutdownEnter(c) PROVE TypeOK'
    <3>1. call \in [Callers -> Frames] /\ threads \in 0..MaxThreads
      BY DEF TypeOK
    <3>2. \/ call' = [call EXCEPT ![c].at = "returned"]
          \/ call' = [call EXCEPT ![c] =
                        Frame(IF threads = 0 THEN "clear" ELSE "push", threads, 0)]
      BY <2>8 DEF ShutdownEnter, FirstIndex
    <3>3. call' \in [Callers -> Frames]
      <4>1. CASE call' = [call EXCEPT ![c].at = "returned"]
        BY <3>1, <4>1 DEF Frames
      <4>2. CASE call' # [call EXCEPT ![c].at = "returned"]
        BY <3>1, <3>2, <4>2 DEF Frame, Frames
      <4>. QED  BY <4>1, <4>2
    <3>. QED  BY <2>8, <3>3 DEF ShutdownEnter, FirstIndex, TypeOK
  <2>9. ASSUME NEW c \in Callers, PushNull(c) PROVE TypeOK'
    <3>1. tasks' \in Seq(Entry)
      <4>1. tasks \in Seq(Entry) /\ NULL \in Entry  BY DEF TypeOK, Entry
      <4>. QED  BY <2>9, <4>1, AppendProperties DEF PushNull, Push
    <3>2. call' \in [Callers -> Frames]
      BY <2>9, AdvanceType DEF PushNull, TypeOK
    <3>3. pc' \in [Workers -> PCs]
      BY <2>9, SignalType DEF PushNull, Push, TypeOK
    <3>. QED  BY <2>9, <3>1, <3>2, <3>3 DEF PushNull, TypeOK, Entry
  <2>10. ASSUME NEW c \in Callers, JoinThread(c) PROVE TypeOK'
    <3>1. call' \in [Callers -> Frames]
      BY <2>10, AdvanceType DEF JoinThread, Join, TypeOK
    <3>2. pc' \in [Workers -> PCs]
      BY <2>10 DEF JoinThread, Join, TypeOK, PCs
    <3>. QED  BY <2>10, <3>1, <3>2 DEF JoinThread, Join, TypeOK
  <2>11. ASSUME NEW c \in Callers, ShutdownReturn(c) PROVE TypeOK'
    <3>1. call \in [Callers -> Frames]  BY DEF TypeOK
    <3>2. call' = [call EXCEPT ![c].at = "returned"]  BY <2>11 DEF ShutdownReturn
    <3>3. call' \in [Callers -> Frames]  BY <3>1, <3>2 DEF Frames
    <3>. QED  BY <2>11, <3>3 DEF ShutdownReturn, TypeOK
  <2>12. CASE Destroy
    BY <2>12 DEF Destroy, BeginDelete, DeleteRep, TypeOK
  <2>13. CASE UNCHANGED vars
    BY <2>13 DEF vars, TypeOK
  <2>. QED
    BY <2>1, <2>2, <2>3, <2>4, <2>5, <2>6, <2>7, <2>8, <2>9, <2>10, <2>11,
       <2>12, <2>13 DEF Next, Submit, WorkerStep, ShutdownStep, Finished
<1>. QED  BY <1>1, <1>2, PTL DEF Spec

-----------------------------------------------------------------------------
(* No lost wakeup.                                                         *)

LEMMA WorkersFinite ==
  ASSUME NEW S \in SUBSET Workers
  PROVE  IsFiniteSet(S) /\ Cardinality(S) \in Nat
<1>1. 1 \in Int /\ MaxThreads \in Int
  BY ThreadPoolAssumption
<1>2. IsFiniteSet(Workers)
  BY <1>1, FS_Interval DEF Workers
<1>3. IsFiniteSet(S)
  BY <1>2, FS_Subset
<1>. QED  BY <1>3, FS_CardinalityType

\* A step that queues nothing, puts nobody to sleep and leaves those about to
\* test the queue where they are loses no wakeup.
LEMMA WakeupStable ==
  ASSUME TypeOK, NoLostWakeup, tasks' = tasks,
         Waiting' \subseteq Waiting, Ready \subseteq Ready',
         Ready' \subseteq Workers
  PROVE  NoLostWakeup'
<1>1. Cardinality(Ready) <= Cardinality(Ready')
  BY WorkersFinite, FS_Subset
<1>2. Cardinality(Ready) \in Nat /\ Cardinality(Ready') \in Nat
  BY WorkersFinite DEF Ready
<1>3. Len(tasks) \in Nat
  BY LenProperties DEF TypeOK
<1>4. CASE Waiting' = {}  BY <1>4 DEF NoLostWakeup
<1>5. CASE Waiting' # {}
  <2>1. Len(tasks) <= Cardinality(Ready)  BY <1>5 DEF NoLostWakeup
  <2>. QED  BY <1>1, <1>2, <1>3, <2>1 DEF NoLostWakeup
<1>. QED  BY <1>4, <1>5

\* A push and its signal: one entry more, one worker more that will look.
LEMMA WakeupPush ==
  ASSUME TypeOK, NoLostWakeup, Signal, NEW x \in Entry,
         tasks' = Append(tasks, x)
  PROVE  NoLostWakeup'
<1>1. CASE Waiting = {} /\ UNCHANGED pc
  BY <1>1 DEF NoLostWakeup, Waiting
<1>2. CASE \E w \in Waiting : pc' = [pc EXCEPT ![w] = "ready"]
  <2>1. PICK w \in Waiting : pc' = [pc EXCEPT ![w] = "ready"]
    BY <1>2
  <2>2. w \notin Ready /\ Ready' = Ready \cup {w}
    BY <2>1 DEF Ready, Waiting, TypeOK
  <2>3. Cardinality(Ready') = Cardinality(Ready) + 1
    BY <2>2, WorkersFinite, FS_AddElement DEF Ready
  <2>4. tasks \in Seq(Entry)
    BY DEF TypeOK, Entry
  <2>5. Len(tasks') = Len(tasks) + 1 /\ Len(tasks) \in Nat
    BY <2>4, AppendProperties, LenProperties
  <2>6. Len(tasks) <= Cardinality(Ready) /\ Cardinality(Ready) \in Nat
    BY <2>1, WorkersFinite DEF NoLostWakeup, Ready
  <2>. QED  BY <2>3, <2>5, <2>6 DEF NoLostWakeup
<1>. QED  BY <1>1, <1>2 DEF Signal

\* A worker goes to sleep on an empty queue only, or takes one entry.
LEMMA WakeupTake ==
  ASSUME TypeOK, NoLostWakeup, NEW w \in Workers, GetNextTask(w)
  PROVE  NoLostWakeup'
<1>1. CASE tasks = <<>>
  <2>1. tasks' = <<>>
    BY <1>1 DEF GetNextTask, Popped
  <2>2. Len(tasks') = 0
    BY <2>1
  <2>3. Cardinality(Ready') \in Nat
    BY WorkersFinite DEF Ready
  <2>. QED  BY <2>2, <2>3 DEF NoLostWakeup
<1>2. CASE tasks # <<>>
  <2>1. tasks \in Seq(Entry) /\ tasks' = Tail(tasks)
    BY <1>2 DEF GetNextTask, Popped, TypeOK, Entry
  <2>2. Len(tasks') = Len(tasks) - 1 /\ Len(tasks) \in Nat
    BY <1>2, <2>1, HeadTailProperties, LenProperties
  <2>3. pc' = [pc EXCEPT ![w] = "exited"] \/ pc' = [pc EXCEPT ![w] = "running"]
    BY <1>2 DEF GetNextTask, Popped
  <2>4. w \in Ready /\ Ready' = Ready \ {w} /\ Waiting' = Waiting
    BY <2>3 DEF GetNextTask, Popped, Ready, Waiting, TypeOK
  <2>5. Cardinality(Ready') = Cardinality(Ready) - 1
    BY <2>4, WorkersFinite, FS_RemoveElement DEF Ready
  <2>6. Cardinality(Ready) \in Nat
    BY WorkersFinite DEF Ready
  <2>. QED  BY <2>2, <2>4, <2>5, <2>6 DEF NoLostWakeup
<1>. QED  BY <1>1, <1>2

\* One pthread_cond_signal per push suffices, whichever waiter it wakes, and
\* however the workers, the pushers and spurious wakeups interleave.
THEOREM NoWakeupIsLost == Spec => []NoLostWakeup
<1>1. Init => NoLostWakeup
  BY DEF Init, NoLostWakeup, Waiting
<1>2. TypeOK /\ NoLostWakeup /\ [Next]_vars => NoLostWakeup'
  <2> SUFFICES ASSUME TypeOK, NoLostWakeup, [Next]_vars PROVE NoLostWakeup'
    OBVIOUS
  <2> USE DEF repVars, taskVars
  <2>0. ASSUME UNCHANGED <<tasks, pc>> PROVE NoLostWakeup'
    BY <2>0 DEF NoLostWakeup, Waiting, Ready
  <2>1. CASE StartThread
    BY <2>1, WakeupStable DEF StartThread, MoreToStart, TypeOK, Waiting, Ready
  <2>2. CASE InitSyncFails \/ InitSync \/ StartThreadFails \/ Publish
    BY <2>0, <2>2 DEF InitSyncFails, InitSync, Recorded, StartThreadFails, Publish
  <2>3. ASSUME NEW t \in Arguments, Execute(t) PROVE NoLostWakeup'
    BY <2>0, <2>3, WakeupPush, ExecuteIs DEF Execute, Entry
  <2>4. ASSUME NEW t \in Arguments, CallerDelete(t) PROVE NoLostWakeup'
    BY <2>0, <2>4 DEF CallerDelete
  <2>5. ASSUME NEW w \in Workers, GetNextTask(w) PROVE NoLostWakeup'
    BY <2>5, WakeupTake
  <2>6. ASSUME NEW w \in Workers, RunTask(w) PROVE NoLostWakeup'
    BY <2>6, WakeupStable DEF RunTask, TypeOK, Waiting, Ready
  <2>7. ASSUME NEW w \in Workers, DeleteTask(w) PROVE NoLostWakeup'
    BY <2>7, WakeupStable DEF DeleteTask, TypeOK, Waiting, Ready
  <2>8. ASSUME NEW w \in Workers, SpuriousWakeup(w) PROVE NoLostWakeup'
    BY <2>8, WakeupStable DEF SpuriousWakeup, TypeOK, Waiting, Ready
  <2>9. ASSUME NEW c \in Callers, ShutdownEnter(c) PROVE NoLostWakeup'
    BY <2>0, <2>9 DEF ShutdownEnter, FirstIndex
  <2>10. ASSUME NEW c \in Callers, PushNull(c) PROVE NoLostWakeup'
    BY <2>10, WakeupPush DEF PushNull, Push, Entry
  <2>11. ASSUME NEW c \in Callers, JoinThread(c) PROVE NoLostWakeup'
    BY <2>11, WakeupStable DEF JoinThread, Join, TypeOK, Waiting, Ready
  <2>12. ASSUME NEW c \in Callers, ShutdownReturn(c) PROVE NoLostWakeup'
    BY <2>0, <2>12 DEF ShutdownReturn
  <2>13. CASE Destroy \/ UNCHANGED vars
    BY <2>0, <2>13 DEF Destroy, BeginDelete, DeleteRep, vars
  <2>. QED
    BY <2>1, <2>2, <2>3, <2>4, <2>5, <2>6, <2>7, <2>8, <2>9, <2>10, <2>11,
       <2>12, <2>13
       DEF Next, Construct, Submit, WorkerStep, ShutdownStep, Finished
<1>. QED  BY <1>1, <1>2, TypeCorrect, PTL DEF Spec
-----------------------------------------------------------------------------
(* Order: no task is lost, duplicated or overtaken.                        *)

\* QueueIsFIFO is not inductive alone: a NULL task must not slip in front of a
\* task.  It cannot, because NULL tasks are queued only after shutting_down_ is
\* set and from then on Execute() refuses.
FIFOInv ==
  /\ QueueIsFIFO
  /\ ~shuttingDown => Len(tasks) = Backlog
  /\ \A c \in Callers : call[c].at = "push" => shuttingDown

LEMMA FIFOTypes ==
  ASSUME TypeOK
  PROVE  /\ tasks \in Seq(Entry) /\ accepted \in Seq(Tasks) /\ taken \in Seq(Tasks)
         /\ Len(tasks) \in Nat /\ Len(accepted) \in Nat /\ Len(taken) \in Nat
<1>1. tasks \in Seq(Entry) /\ accepted \in Seq(Tasks) /\ taken \in Seq(Tasks)
  BY DEF TypeOK, Entry
<1>. QED  BY <1>1, LenProperties

\* Execute() accepts t: it goes behind the tasks only, there is no NULL task.
LEMMA FIFOExecute ==
  ASSUME TypeOK, QueueIsFIFO, Len(tasks) = Backlog, NEW t \in Tasks,
         tasks' = Append(tasks, t), accepted' = Append(accepted, t),
         taken' = taken
  PROVE  QueueIsFIFO' /\ Len(tasks') = Backlog'
<1>1. /\ Len(tasks) \in Nat /\ Len(accepted) \in Nat /\ Len(taken) \in Nat
      /\ tasks \in Seq(Entry) /\ accepted \in Seq(Tasks) /\ t \in Entry
  BY FIFOTypes DEF Entry
<1>2. /\ Len(tasks') = Len(tasks) + 1 /\ tasks'[Len(tasks) + 1] = t
      /\ \A i \in 1..Len(tasks) : tasks'[i] = tasks[i]
  BY <1>1, AppendProperties
<1>3. /\ Len(accepted') = Len(accepted) + 1 /\ accepted'[Len(accepted) + 1] = t
      /\ \A i \in 1..Len(accepted) : accepted'[i] = accepted[i]
  BY <1>1, AppendProperties
<1>4. Len(taken) + Len(tasks) = Len(accepted)
  BY <1>1 DEF Backlog
<1>5. Len(taken') <= Len(accepted') /\ Len(tasks') = Backlog'
  BY <1>1, <1>2, <1>3, <1>4 DEF Backlog
<1>6. \A i \in 1..Len(taken') : taken'[i] = accepted'[i]
  BY <1>1, <1>3, <1>4 DEF QueueIsFIFO
<1>7. ASSUME NEW i \in 1..Len(tasks') PROVE tasks'[i] = accepted'[Len(taken') + i]
  <2>1. CASE i = Len(tasks) + 1
    <3>1. Len(taken') + i = Len(accepted) + 1
      BY <1>1, <1>4, <2>1
    <3>. QED  BY <1>2, <1>3, <2>1, <3>1
  <2>2. CASE i # Len(tasks) + 1
    <3>1. i \in 1..Len(tasks) /\ Len(taken) + i \in 1..Len(accepted)
      BY <1>1, <1>2, <1>4, <2>2
    <3>2. i <= Backlog
      BY <1>1, <3>1
    <3>3. tasks[i] = accepted[Len(taken) + i]
      BY <3>1, <3>2 DEF QueueIsFIFO
    <3>4. tasks'[i] = tasks[i] /\ accepted'[Len(taken) + i] = accepted[Len(taken) + i]
      BY <1>2, <1>3, <3>1
    <3>. QED  BY <3>3, <3>4
  <2>. QED  BY <2>1, <2>2
<1>8. \A i \in 1..Len(tasks') : i <= Backlog'
  BY <1>1, <1>2, <1>5
<1>9. Backlog' <= Len(tasks')
  BY <1>1, <1>2, <1>5
<1>. QED  BY <1>5, <1>6, <1>7, <1>8, <1>9 DEF QueueIsFIFO

\* A NULL task goes behind everything.
LEMMA FIFOPush ==
  ASSUME TypeOK, QueueIsFIFO, tasks' = Append(tasks, NULL),
         accepted' = accepted, taken' = taken
  PROVE  QueueIsFIFO'
<1>1. /\ Len(tasks) \in Nat /\ Len(accepted) \in Nat /\ Len(taken) \in Nat
      /\ tasks \in Seq(Entry) /\ NULL \in Entry
  BY FIFOTypes DEF Entry
<1>2. /\ Len(tasks') = Len(tasks) + 1 /\ tasks'[Len(tasks) + 1] = NULL
      /\ \A i \in 1..Len(tasks) : tasks'[i] = tasks[i]
  BY <1>1, AppendProperties
<1>3. Backlog' = Backlog /\ Backlog <= Len(tasks) /\ Backlog \in Int
  BY <1>1 DEF Backlog, QueueIsFIFO
<1>4. ASSUME NEW i \in 1..Len(tasks')
      PROVE  tasks'[i] = IF i <= Backlog THEN accepted[Len(taken) + i] ELSE NULL
  <2>1. CASE i = Len(tasks) + 1  BY <1>1, <1>2, <1>3, <2>1
  <2>2. CASE i # Len(tasks) + 1
    <3>1. i \in 1..Len(tasks)  BY <1>1, <1>2, <2>2
    <3>. QED  BY <1>2, <3>1 DEF QueueIsFIFO
  <2>. QED  BY <2>1, <2>2
<1>5. Len(taken') <= Len(accepted') /\ Backlog' <= Len(tasks')
  BY <1>1, <1>2, <1>3 DEF QueueIsFIFO
<1>6. \A i \in 1..Len(taken') : taken'[i] = accepted'[i]
  BY DEF QueueIsFIFO
<1>7. \A i \in 1..Len(tasks') :
        tasks'[i] = IF i <= Backlog' THEN accepted'[Len(taken') + i] ELSE NULL
  BY <1>3, <1>4
<1>. QED  BY <1>5, <1>6, <1>7 DEF QueueIsFIFO

\* The entry a worker takes is the oldest accepted task as long as there is
\* one, and a NULL task otherwise.
LEMMA FIFOTake ==
  ASSUME TypeOK, FIFOInv, NEW w \in Workers, GetNextTask(w)
  PROVE  QueueIsFIFO' /\ (~shuttingDown' => Len(tasks') = Backlog')
<1>1. /\ Len(tasks) \in Nat /\ Len(accepted) \in Nat /\ Len(taken) \in Nat
      /\ tasks \in Seq(Entry) /\ accepted \in Seq(Tasks) /\ taken \in Seq(Tasks)
  BY FIFOTypes
<1>2. CASE tasks = <<>>
  <2>1. UNCHANGED <<tasks, accepted, taken, shuttingDown>>
    BY <1>2 DEF GetNextTask, Popped
  <2>. QED  BY <2>1 DEF FIFOInv, QueueIsFIFO, Backlog
<1>3. CASE tasks # <<>>
  <2>1. tasks' = Tail(tasks) /\ accepted' = accepted /\ shuttingDown' = shuttingDown
    BY <1>3 DEF GetNextTask, Popped
  <2>2. /\ Len(tasks) >= 1 /\ Len(tasks') = Len(tasks) - 1
        /\ \A i \in 1..Len(tasks') : tasks'[i] = tasks[i + 1]
        /\ Head(tasks) = tasks[1]
    BY <1>1, <1>3, <2>1, HeadTailProperties, EmptySeq
  <2>3. /\ Head(tasks) = NULL => taken' = taken
        /\ Head(tasks) # NULL => taken' = Append(taken, Head(tasks))
    BY <1>3 DEF GetNextTask, Popped
  <2>4. Backlog \in Int /\ 0 <= Backlog /\ Backlog <= Len(tasks)
    BY <1>1 DEF FIFOInv, QueueIsFIFO, Backlog
  <2>5. Head(tasks) = IF 1 <= Backlog THEN accepted[Len(taken) + 1] ELSE NULL
    BY <2>2 DEF FIFOInv, QueueIsFIFO
  <2>6. CASE 1 <= Backlog
    <3>1. Len(taken) + 1 \in 1..Len(accepted)
      BY <1>1, <2>6 DEF Backlog
    <3>2. Head(tasks) \in Tasks /\ Head(tasks) # NULL
      BY <1>1, <2>5, <2>6, <3>1, ElementOfSeq, ThreadPoolAssumption
    <3>3. /\ Len(taken') = Len(taken) + 1 /\ taken'[Len(taken) + 1] = Head(tasks)
          /\ \A i \in 1..Len(taken) : taken'[i] = taken[i]
      BY <1>1, <2>3, <3>2, AppendProperties, SMTT(30)
    <3>4. Backlog' = Backlog - 1
      BY <1>1, <2>1, <3>3 DEF Backlog
    <3>5. ASSUME NEW i \in 1..Len(taken') PROVE taken'[i] = accepted'[i]
      <4>1. CASE i = Len(taken) + 1  BY <2>1, <2>5, <2>6, <3>3, <4>1
      <4>2. CASE i # Len(taken) + 1
        <5>1. i \in 1..Len(taken)  BY <1>1, <3>3, <4>2
        <5>. QED  BY <2>1, <3>3, <5>1 DEF FIFOInv, QueueIsFIFO
      <4>. QED  BY <4>1, <4>2
    <3>6. ASSUME NEW i \in 1..Len(tasks')
          PROVE  tasks'[i] =
                   IF i <= Backlog' THEN accepted'[Len(taken') + i] ELSE NULL
      <4>1. i + 1 \in 1..Len(tasks) /\ i \in Int
        BY <1>1, <2>2
      <4>2. tasks[i + 1] =
              IF i + 1 <= Backlog THEN accepted[Len(taken) + (i + 1)] ELSE NULL
        BY <4>1 DEF FIFOInv, QueueIsFIFO
      <4>3. Len(taken') + i = Len(taken) + (i + 1)
        BY <1>1, <3>3, <4>1
      <4>4. (i <= Backlog') <=> (i + 1 <= Backlog)
        BY <2>4, <3>4, <4>1
      <4>. QED  BY <2>1, <2>2, <4>2, <4>3, <4>4
    <3>7. ~shuttingDown' => Len(tasks') = Backlog'
      BY <2>1, <2>2, <3>4 DEF FIFOInv
    <3>8. Len(taken') <= Len(accepted') /\ Backlog' <= Len(tasks')
      BY <1>1, <2>1, <2>2, <2>4, <3>1, <3>3, <3>4
    <3>. QED  BY <3>5, <3>6, <3>7, <3>8 DEF QueueIsFIFO
  <2>7. CASE ~(1 <= Backlog)
    <3>1. Backlog = 0 /\ taken' = taken
      BY <2>3, <2>4, <2>5, <2>7
    <3>2. Backlog' = 0
      BY <2>1, <3>1 DEF Backlog
    <3>3. shuttingDown'
      BY <2>1, <2>2, <3>1 DEF FIFOInv
    <3>4. ASSUME NEW i \in 1..Len(tasks') PROVE tasks'[i] = NULL
      <4>1. i + 1 \in 1..Len(tasks) /\ ~(i + 1 <= Backlog)
        BY <1>1, <2>2, <3>1
      <4>2. tasks[i + 1] = NULL
        BY <4>1 DEF FIFOInv, QueueIsFIFO
      <4>. QED  BY <2>2, <4>2
    <3>5. \A i \in 1..Len(tasks') : ~(i <= Backlog')
      BY <1>1, <2>2, <3>2
    <3>6. /\ Len(taken') <= Len(accepted') /\ Backlog' <= Len(tasks')
          /\ \A i \in 1..Len(taken') : taken'[i] = accepted'[i]
      BY <1>1, <2>1, <2>2, <3>1, <3>2 DEF FIFOInv, QueueIsFIFO
    <3>. QED  BY <3>3, <3>4, <3>5, <3>6 DEF QueueIsFIFO
  <2>. QED  BY <2>6, <2>7
<1>. QED  BY <1>2, <1>3
\* Tasks are taken in the order they were accepted; a NULL task is taken only
\* when no accepted task is left in the queue.
THEOREM QueueStaysFIFO == Spec => []QueueIsFIFO
<1>1. Init => FIFOInv
  BY EmptySeq, ThreadPoolAssumption
     DEF Init, FIFOInv, QueueIsFIFO, Backlog, Frame
<1>2. TypeOK /\ FIFOInv /\ [Next]_vars => FIFOInv'
  <2> SUFFICES ASSUME TypeOK, FIFOInv, [Next]_vars PROVE FIFOInv'
    OBVIOUS
  <2> USE DEF repVars, taskVars
  <2>0. ASSUME UNCHANGED <<tasks, accepted, taken, shuttingDown, call>>
        PROVE  FIFOInv'
    BY <2>0 DEF FIFOInv, QueueIsFIFO, Backlog
  <2>1. CASE Construct
    BY <2>0, <2>1 DEF Construct, InitSyncFails, InitSync, Recorded,
                      StartThread, MoreToStart, StartThreadFails, Publish
  <2>2. ASSUME NEW t \in Arguments, Execute(t) PROVE FIFOInv'
    <3>0. UNCHANGED <<taken, shuttingDown, call>>
      BY <2>2 DEF Execute
    <3>1. CASE UNCHANGED <<tasks, pc, accepted>>
      BY <2>0, <3>0, <3>1
    <3>2. CASE /\ t \in Tasks /\ ~shuttingDown
               /\ tasks' = Append(tasks, t) /\ accepted' = Append(accepted, t)
      <4>1. QueueIsFIFO' /\ Len(tasks') = Backlog'
        BY <3>0, <3>2, FIFOExecute DEF FIFOInv
      <4>. QED  BY <3>0, <3>2, <4>1 DEF FIFOInv
    <3>. QED  BY <2>2, <3>1, <3>2, ExecuteIs
  <2>3. ASSUME NEW t \in Arguments, CallerDelete(t) PROVE FIFOInv'
    BY <2>0, <2>3 DEF CallerDelete
  <2>4. ASSUME NEW w \in Workers, GetNextTask(w) PROVE FIFOInv'
    BY <2>4, FIFOTake DEF FIFOInv, GetNextTask, Popped
  <2>5. ASSUME NEW w \in Workers, RunTask(w) \/ DeleteTask(w) \/ SpuriousWakeup(w)
        PROVE  FIFOInv'
    BY <2>0, <2>5 DEF RunTask, DeleteTask, SpuriousWakeup
  <2>6. ASSUME NEW c \in Callers, ShutdownEnter(c) PROVE FIFOInv'
    <3>1. UNCHANGED <<tasks, accepted, taken>> /\ (shuttingDown => shuttingDown')
      BY <2>6 DEF ShutdownEnter, FirstIndex
    <3>2. QueueIsFIFO' /\ (~shuttingDown' => Len(tasks') = Backlog')
      BY <3>1 DEF FIFOInv, QueueIsFIFO, Backlog
    <3>3. ASSUME NEW d \in Callers, call'[d].at = "push" PROVE shuttingDown'
      <4>1. CASE shuttingDown  BY <3>1, <4>1
      <4>2. CASE ~shuttingDown  BY <2>6, <4>2 DEF ShutdownEnter, FirstIndex
      <4>. QED  BY <4>1, <4>2
    <3>. QED  BY <3>2, <3>3 DEF FIFOInv
  <2>7. ASSUME NEW c \in Callers, PushNull(c) PROVE FIFOInv'
    <3>1. /\ tasks' = Append(tasks, NULL) /\ call[c].at = "push"
          /\ UNCHANGED <<accepted, taken, shuttingDown>>
      BY <2>7 DEF PushNull, Push
    <3>2. QueueIsFIFO' /\ shuttingDown'
      BY <3>1, FIFOPush DEF FIFOInv
    <3>. QED  BY <3>2 DEF FIFOInv
  <2>8. ASSUME NEW c \in Callers, JoinThread(c) \/ ShutdownReturn(c) PROVE FIFOInv'
    <3>1. UNCHANGED <<tasks, accepted, taken, shuttingDown>>
      BY <2>8 DEF JoinThread, Join, ShutdownReturn
    <3>2. QueueIsFIFO' /\ (~shuttingDown' => Len(tasks') = Backlog')
      BY <3>1 DEF FIFOInv, QueueIsFIFO, Backlog
    <3>3. ASSUME NEW d \in Callers, call'[d].at = "push" PROVE call[d].at = "push"
      <4>1. call \in [Callers -> Frames]  BY DEF TypeOK
      <4>2. call[c].at = "join" => Advance(call[c], "clear").at \in {"join", "clear"}
        BY <4>1 DEF Advance, Frame
      <4>3. CASE JoinThread(c)
        <5>1. call[c].at = "join" /\ call' = [call EXCEPT ![c] = Advance(@, "clear")]
          BY <4>3 DEF JoinThread, Join
        <5>. QED  BY <3>3, <4>1, <4>2, <5>1
      <4>4. CASE ShutdownReturn(c)
        <5>1. call' = [call EXCEPT ![c].at = "returned"]
          BY <4>4 DEF ShutdownReturn
        <5>. QED  BY <3>3, <4>1, <5>1 DEF Frames
      <4>. QED  BY <2>8, <4>3, <4>4
    <3>. QED  BY <3>1, <3>2, <3>3 DEF FIFOInv
  <2>9. CASE Destroy \/ UNCHANGED vars
    BY <2>0, <2>9 DEF Destroy, BeginDelete, DeleteRep, vars
  <2>. QED
    BY <2>1, <2>2, <2>3, <2>4, <2>5, <2>6, <2>7, <2>8, <2>9
       DEF Next, Submit, WorkerStep, ShutdownStep, Finished
<1>3. FIFOInv => QueueIsFIFO
  BY DEF FIFOInv
<1>. QED  BY <1>1, <1>2, <1>3, TypeCorrect, PTL DEF Spec
-----------------------------------------------------------------------------
(***************************************************************************)
(* ThreadPool implements ExecutionContract, also with tasks that shut      *)
(* their own pool down: no task is run twice, deleted twice, or run after  *)
(* it was refused.                                                         *)
(*                                                                         *)
(* The contract says nothing of who has a task when.  What makes the steps *)
(* of the pool steps of the contract is that an accepted task is in one    *)
(* place: in the queue once, or with one worker.                           *)
(***************************************************************************)

\* Worker w has taken t and not deleted it.
Has(w, t) == pc[w] \in {"running", "ran"} /\ held[w] = t

Fresh(t) == result[t] = "ok" /\ runs[t] = 0 /\ deletes[t] = 0

\* In the queue: nothing has happened to the task, and no worker has it.
QueuedOnce ==
    /\ \A i \in 1..Len(tasks) : tasks[i] \in Tasks =>
         Fresh(tasks[i]) /\ \A w \in Workers : ~Has(w, tasks[i])
    /\ \A i, j \in 1..Len(tasks) :
         tasks[i] \in Tasks /\ tasks[i] = tasks[j] => i = j

\* With a worker: it is run and then deleted.
HeldOnce ==
    /\ \A w \in Workers : pc[w] = "running" => held[w] \in Tasks /\ Fresh(held[w])
    /\ \A w \in Workers : pc[w] = "ran" =>
         held[w] \in Tasks /\ result[held[w]] = "ok"
                           /\ runs[held[w]] = 1 /\ deletes[held[w]] = 0
    /\ \A w, v \in Workers, t \in Tasks : Has(w, t) /\ Has(v, t) => w = v

Untouched == \A t \in Tasks : result[t] = "none" => runs[t] = 0 /\ deletes[t] = 0

OneOwner == QueuedOnce /\ HeldOnce /\ Untouched

-----------------------------------------------------------------------------
LEMMA OneOwnerInit == Init => OneOwner
BY EmptySeq DEF Init, Arguments, OneOwner, QueuedOnce, HeldOnce, Untouched, Has

\* A step that leaves tasks alone and gives no worker a task.
LEMMA NobodyTakes ==
  ASSUME TypeOK, OneOwner, UNCHANGED <<tasks, held, result, runs, deletes>>,
         \A w \in Workers : pc'[w] \in {"running", "ran"} => pc'[w] = pc[w]
  PROVE  OneOwner'
BY DEF OneOwner, QueuedOnce, HeldOnce, Untouched, Has, Fresh

\* A push of x that is NULL or a task never seen before.
LEMMA PushOneOwner ==
  ASSUME TypeOK, OneOwner, NEW x \in Entry, Push(x), held' = held,
         UNCHANGED <<runs, deletes>>,
         \/ x = NULL /\ result' = result
         \/ x \in Tasks /\ result[x] = "none" /\ result' = [result EXCEPT ![x] = "ok"]
  PROVE  OneOwner'
<1>1. tasks \in Seq(Entry) /\ Len(tasks) \in Nat /\ x \in Entry
  BY FIFOTypes
<1>2. /\ Len(tasks') = Len(tasks) + 1 /\ tasks'[Len(tasks) + 1] = x
      /\ \A i \in 1..Len(tasks) : tasks'[i] = tasks[i]
  BY <1>1, AppendProperties DEF Push
<1>3. \A w \in Workers : pc'[w] \in {"running", "ran"} => pc'[w] = pc[w]
  BY DEF Push, Signal, Waiting, TypeOK
<1>4. \A t \in Tasks : t # x => result'[t] = result[t]
  BY DEF TypeOK
<1>5. x \in Tasks => /\ Fresh(x)'
                     /\ \A i \in 1..Len(tasks) : tasks[i] # x
                     /\ \A w \in Workers : ~Has(w, x)
  BY ThreadPoolAssumption DEF OneOwner, QueuedOnce, HeldOnce, Untouched, Has, Fresh, TypeOK
<1>6. \A t \in Tasks : Fresh(t) => Fresh(t)'
  BY <1>4, <1>5 DEF Fresh
<1>7. \A w \in Workers : \A t \in Tasks : Has(w, t)' => Has(w, t)
  BY <1>3 DEF Has
<1>8. QueuedOnce'
  <2>1. ASSUME NEW i \in 1..Len(tasks'), tasks'[i] \in Tasks
        PROVE  (Fresh(tasks[i]) /\ \A w \in Workers : ~Has(w, tasks[i]))'
    <3>1. CASE i = Len(tasks) + 1
      BY <1>2, <1>5, <1>7, <2>1, <3>1 DEF Fresh, Has
    <3>2. CASE i # Len(tasks) + 1
      <4>1. i \in 1..Len(tasks)  BY <1>1, <1>2, <3>2
      <4>. QED  BY <1>2, <1>6, <1>7, <2>1, <4>1 DEF OneOwner, QueuedOnce, Fresh, Has
    <3>. QED  BY <3>1, <3>2
  <2>2. ASSUME NEW i \in 1..Len(tasks'), NEW j \in 1..Len(tasks'),
               tasks'[i] \in Tasks, tasks'[i] = tasks'[j]
        PROVE  i = j
    <3>1. i \in 1..Len(tasks) \/ i = Len(tasks) + 1
      BY <1>1, <1>2
    <3>2. j \in 1..Len(tasks) \/ j = Len(tasks) + 1
      BY <1>1, <1>2
    <3>3. CASE i \in 1..Len(tasks) /\ j \in 1..Len(tasks)
      BY <1>2, <2>2, <3>3 DEF OneOwner, QueuedOnce
    <3>4. CASE i = Len(tasks) + 1 /\ j \in 1..Len(tasks)
      BY <1>2, <1>5, <2>2, <3>4
    <3>5. CASE i \in 1..Len(tasks) /\ j = Len(tasks) + 1
      BY <1>2, <1>5, <2>2, <3>5
    <3>. QED  BY <3>1, <3>2, <3>3, <3>4, <3>5
  <2>. QED  BY <2>1, <2>2 DEF QueuedOnce, Fresh, Has
<1>9. HeldOnce'
  <2>1. ASSUME NEW w \in Workers, pc'[w] \in {"running", "ran"}
        PROVE  /\ pc'[w] = pc[w] /\ held[w] \in Tasks
               /\ result[held[w]] = "ok" /\ result'[held[w]] = "ok"
    BY <1>3, <1>4, <2>1 DEF OneOwner, HeldOnce, Fresh, TypeOK
  <2>. QED  BY <1>7, <2>1 DEF OneOwner, HeldOnce, Fresh
<1>10. Untouched'
  BY <1>4, <1>5 DEF OneOwner, Untouched, Fresh
<1>. QED  BY <1>8, <1>9, <1>10 DEF OneOwner

\* A worker takes the task from the queue; the others move up.
LEMMA TakeOneOwner ==
  ASSUME TypeOK, OneOwner, NEW w \in Workers, GetNextTask(w)
  PROVE  OneOwner'
<1>1. tasks \in Seq(Entry) /\ Len(tasks) \in Nat
  BY FIFOTypes
<1>2. UNCHANGED <<result, runs, deletes>>
  BY DEF GetNextTask, taskVars
<1>3. CASE tasks = <<>>
  BY <1>2, <1>3, NobodyTakes DEF GetNextTask, TypeOK
<1>4. CASE tasks # <<>>
  <2>1. /\ Len(tasks) >= 1 /\ Len(tasks') = Len(tasks) - 1
        /\ \A i \in 1..Len(tasks') : tasks'[i] = tasks[i + 1] /\ i + 1 \in 1..Len(tasks)
        /\ Head(tasks) = tasks[1] /\ 1 \in 1..Len(tasks)
    BY <1>1, <1>4, HeadTailProperties, EmptySeq DEF GetNextTask, Popped
  <2>2. CASE Head(tasks) = NULL
    <3>1. \A v \in Workers : pc'[v] \in {"running", "ran"} => pc'[v] = pc[v]
      BY <1>4, <2>2 DEF GetNextTask, TypeOK
    <3>2. held' = held
      BY <1>4, <2>2 DEF GetNextTask
    <3>3. \A v \in Workers : \A t \in Tasks : Has(v, t)' => Has(v, t)
      BY <3>1, <3>2 DEF Has
    <3>4. QueuedOnce'
      BY <1>1, <1>2, <2>1, <3>3, SMTT(30) DEF OneOwner, QueuedOnce, Fresh
    <3>5. HeldOnce' /\ Untouched'
      BY <1>2, <3>1, <3>2, <3>3 DEF OneOwner, HeldOnce, Untouched, Fresh
    <3>. QED  BY <3>4, <3>5 DEF OneOwner
  <2>3. CASE Head(tasks) # NULL
    <3> DEFINE t == tasks[1]
    <3>1. /\ pc' = [pc EXCEPT ![w] = "running"] /\ held' = [held EXCEPT ![w] = t]
          /\ pc[w] = "ready"
      BY <1>4, <2>1, <2>3 DEF GetNextTask
    <3>2. t \in Tasks /\ Fresh(t) /\ \A v \in Workers : ~Has(v, t)
      BY <1>1, <2>1, <2>3, ElementOfSeq DEF OneOwner, QueuedOnce, Entry
    <3>3. \A v \in Workers : \A u \in Tasks : Has(v, u)' => Has(v, u) \/ (v = w /\ u = t)
      BY <3>1 DEF Has, TypeOK
    <3>4. ASSUME NEW i \in 1..Len(tasks'), tasks'[i] \in Tasks
          PROVE  (Fresh(tasks[i]) /\ \A v \in Workers : ~Has(v, tasks[i]))'
      <4>1. tasks'[i] = tasks[i + 1] /\ i + 1 \in 1..Len(tasks) /\ i + 1 # 1
        BY <1>1, <2>1
      <4>2. tasks'[i] # t
        BY <2>1, <3>4, <4>1 DEF OneOwner, QueuedOnce
      <4>3. Fresh(tasks'[i]) /\ \A v \in Workers : ~Has(v, tasks'[i])
        BY <3>4, <4>1 DEF OneOwner, QueuedOnce
      <4>. QED  BY <1>2, <3>3, <3>4, <4>2, <4>3 DEF Fresh, Has
    <3>5. ASSUME NEW i \in 1..Len(tasks'), NEW j \in 1..Len(tasks'),
                 tasks'[i] \in Tasks, tasks'[i] = tasks'[j]
          PROVE  i = j
      <4>1. /\ tasks[i + 1] \in Tasks /\ tasks[i + 1] = tasks[j + 1]
            /\ i + 1 \in 1..Len(tasks) /\ j + 1 \in 1..Len(tasks)
        BY <2>1, <3>5
      <4>2. i + 1 = j + 1
        BY <4>1 DEF OneOwner, QueuedOnce
      <4>. QED  BY <1>1, <2>1, <4>2
    <3>6. QueuedOnce'
      BY <3>4, <3>5 DEF QueuedOnce, Fresh, Has
    <3>7. HeldOnce'
      <4>1. ASSUME NEW v \in Workers, v # w
            PROVE  pc'[v] = pc[v] /\ held'[v] = held[v]
        BY <3>1, <4>1 DEF TypeOK
      <4>2. pc'[w] = "running" /\ held'[w] = t
        BY <3>1 DEF TypeOK
      <4>. QED  BY <1>2, <3>2, <3>3, <4>1, <4>2 DEF OneOwner, HeldOnce, Fresh
    <3>8. Untouched'
      BY <1>2 DEF OneOwner, Untouched
    <3>. QED  BY <3>6, <3>7, <3>8 DEF OneOwner
  <2>. QED  BY <2>2, <2>3
<1>. QED  BY <1>3, <1>4

\* What a worker with a task has, and that nobody else has that task.
LEMMA OnlyHolder ==
  ASSUME TypeOK, OneOwner, NEW w \in Workers, pc[w] \in {"running", "ran"}
  PROVE  /\ held[w] \in Tasks /\ result[held[w]] = "ok" /\ deletes[held[w]] = 0
         /\ runs[held[w]] = (IF pc[w] = "running" THEN 0 ELSE 1)
         /\ \A v \in Workers \ {w} : ~Has(v, held[w])
         /\ \A i \in 1..Len(tasks) : tasks[i] # held[w]
<1>1. /\ held[w] \in Tasks /\ result[held[w]] = "ok" /\ deletes[held[w]] = 0
      /\ runs[held[w]] = (IF pc[w] = "running" THEN 0 ELSE 1)
  BY DEF OneOwner, HeldOnce, Fresh
<1>2. Has(w, held[w])
  BY DEF Has
<1>3. \A v \in Workers \ {w} : ~Has(v, held[w])
  BY <1>1, <1>2 DEF OneOwner, HeldOnce
<1>4. \A i \in 1..Len(tasks) : tasks[i] # held[w]
  BY <1>1, <1>2 DEF OneOwner, QueuedOnce
<1>. QED  BY <1>1, <1>3, <1>4

LEMMA RunOneOwner ==
  ASSUME TypeOK, OneOwner, NEW w \in Workers, RunTask(w)
  PROVE  OneOwner'
<1> DEFINE t == held[w]
<1>1. /\ pc[w] = "running" /\ pc' = [pc EXCEPT ![w] = "ran"]
      /\ runs' = [runs EXCEPT ![t] = runs[t] + 1]
      /\ UNCHANGED <<tasks, held, result, deletes>>
  BY DEF RunTask, taskVars
<1>2. /\ t \in Tasks /\ result[t] = "ok" /\ deletes[t] = 0 /\ runs[t] = 0
      /\ \A v \in Workers \ {w} : ~Has(v, t)
      /\ \A i \in 1..Len(tasks) : tasks[i] # t
  BY <1>1, OnlyHolder
<1>3. runs'[t] = 1 /\ \A u \in Tasks : u # t => runs'[u] = runs[u]
  BY <1>1, <1>2 DEF TypeOK
<1>4. pc'[w] = "ran" /\ \A v \in Workers : v # w => pc'[v] = pc[v]
  BY <1>1 DEF TypeOK
<1>5. \A v \in Workers : \A u \in Tasks : Has(v, u)' <=> Has(v, u)
  BY <1>1, <1>4 DEF Has
<1>6. QueuedOnce'
  BY <1>1, <1>2, <1>3, <1>5 DEF OneOwner, QueuedOnce, Fresh, Has
<1>7. HeldOnce'
  <2>1. \A v \in Workers : v # w /\ pc[v] \in {"running", "ran"} => held[v] # t
    BY <1>2 DEF Has
  <2>. QED  BY <1>1, <1>2, <1>3, <1>4, <1>5, <2>1 DEF OneOwner, HeldOnce, Fresh
<1>8. Untouched'
  BY <1>1, <1>2, <1>3 DEF OneOwner, Untouched
<1>. QED  BY <1>6, <1>7, <1>8 DEF OneOwner

LEMMA DeleteOneOwner ==
  ASSUME TypeOK, OneOwner, NEW w \in Workers, DeleteTask(w)
  PROVE  OneOwner'
<1> DEFINE t == held[w]
<1>1. /\ pc[w] = "ran" /\ pc' = [pc EXCEPT ![w] = "ready"]
      /\ deletes' = [deletes EXCEPT ![t] = deletes[t] + 1]
      /\ held' = [held EXCEPT ![w] = NULL]
      /\ UNCHANGED <<tasks, result, runs>>
  BY DEF DeleteTask, taskVars
<1>2. /\ t \in Tasks /\ result[t] = "ok"
      /\ \A v \in Workers \ {w} : ~Has(v, t)
      /\ \A i \in 1..Len(tasks) : tasks[i] # t
  BY <1>1, OnlyHolder
<1>3. \A u \in Tasks : u # t => deletes'[u] = deletes[u]
  BY <1>1 DEF TypeOK
<1>4. pc'[w] = "ready" /\ \A v \in Workers : v # w => pc'[v] = pc[v] /\ held'[v] = held[v]
  BY <1>1 DEF TypeOK
<1>5. \A v \in Workers : \A u \in Tasks : Has(v, u)' => v # w /\ Has(v, u) /\ u # t
  BY <1>2, <1>4 DEF Has
<1>6. QueuedOnce'
  BY <1>1, <1>2, <1>3, <1>5 DEF OneOwner, QueuedOnce, Fresh, Has
<1>7. HeldOnce'
  <2>1. \A v \in Workers : v # w /\ pc[v] \in {"running", "ran"} => held[v] # t
    BY <1>2 DEF Has
  <2>. QED  BY <1>1, <1>3, <1>4, <1>5, <2>1 DEF OneOwner, HeldOnce, Fresh
<1>8. Untouched'
  BY <1>1, <1>2, <1>3 DEF OneOwner, Untouched
<1>. QED  BY <1>6, <1>7, <1>8 DEF OneOwner

\* A refused task: no worker has it and it is not in the queue.
LEMMA RefusedOneOwner ==
  ASSUME TypeOK, OneOwner, NEW t \in Arguments, result[t] # "ok",
         UNCHANGED <<tasks, pc, held, runs>>, result'[t] # "none",
         \A u \in Tasks : u # t => result'[u] = result[u] /\ deletes'[u] = deletes[u]
  PROVE  OneOwner'
<1>1. \A i \in 1..Len(tasks) : tasks[i] \in Tasks => tasks[i] # t
  BY DEF OneOwner, QueuedOnce, Fresh
<1>2. \A w \in Workers : pc[w] \in {"running", "ran"} => held[w] \in Tasks /\ held[w] # t
  BY DEF OneOwner, HeldOnce, Fresh
<1>3. QueuedOnce'
  BY <1>1 DEF OneOwner, QueuedOnce, Fresh, Has
<1>4. HeldOnce'
  BY <1>2 DEF OneOwner, HeldOnce, Fresh, Has
<1>5. Untouched'
  BY DEF OneOwner, Untouched
<1>. QED  BY <1>3, <1>4, <1>5 DEF OneOwner

-----------------------------------------------------------------------------
(* Every step keeps one owner, and is a step of the contract or none.      *)

LEMMA SubmitImplements ==
  ASSUME TypeOK, OneOwner, NEW t \in Arguments, Submit(t)
  PROVE  OneOwner' /\ Contract!Next
<1>1. CASE Execute(t)
  <2>1. result[t] = "none" /\ UNCHANGED <<held, runs, deletes>>
    BY <1>1 DEF Execute
  <2>2. CASE /\ result' = [result EXCEPT ![t] = "fail"]
             /\ UNCHANGED <<tasks, pc, accepted>>
    <3>1. OneOwner'
      BY <2>1, <2>2, RefusedOneOwner DEF TypeOK, Arguments
    <3>2. Contract!Refuse(t)
      BY <2>1, <2>2 DEF Contract!Refuse
    <3>. QED  BY <3>1, <3>2 DEF Contract!Next
  <2>3. CASE /\ t \in Tasks /\ Push(t)
             /\ result' = [result EXCEPT ![t] = "ok"]
    <3>1. OneOwner'
      BY <2>1, <2>3, PushOneOwner DEF Entry
    <3>2. Contract!Accept(t)
      BY <2>1, <2>3 DEF Contract!Accept
    <3>. QED  BY <3>1, <3>2 DEF Contract!Next
  <2>. QED  BY <1>1, <2>2, <2>3, ExecuteIs
<1>2. CASE CallerDelete(t)
  <2>1. /\ t \in Tasks /\ result[t] = "fail" /\ deletes[t] = 0
        /\ deletes' = [deletes EXCEPT ![t] = 1]
        /\ UNCHANGED <<tasks, pc, held, result, runs>>
    BY <1>2 DEF CallerDelete, Arguments
  <2>2. OneOwner'
    BY <2>1, RefusedOneOwner DEF TypeOK
  <2>3. Contract!CallerDelete(t)
    BY <2>1 DEF Contract!CallerDelete
  <2>. QED  BY <2>2, <2>3 DEF Contract!Next
<1>. QED  BY <1>1, <1>2 DEF Submit

LEMMA WorkerImplements ==
  ASSUME TypeOK, OneOwner, NEW w \in Workers, WorkerStep(w) \/ SpuriousWakeup(w)
  PROVE  OneOwner' /\ [Contract!Next]_(Contract!vars)
<1>1. CASE GetNextTask(w)
  <2>1. UNCHANGED <<result, runs, deletes>>
    BY <1>1 DEF GetNextTask, taskVars
  <2>. QED  BY <1>1, <2>1, TakeOneOwner DEF Contract!vars
<1>2. CASE RunTask(w)
  <2>1. /\ held[w] \in Tasks /\ result[held[w]] = "ok" /\ runs[held[w]] = 0
        /\ runs' = [runs EXCEPT ![held[w]] = runs[held[w]] + 1]
        /\ UNCHANGED <<result, deletes>>
    BY <1>2, OnlyHolder DEF RunTask
  <2>2. Contract!Run(held[w])
    BY <2>1 DEF Contract!Run
  <2>. QED  BY <1>2, <2>1, <2>2, RunOneOwner DEF Contract!Next, Arguments
<1>3. CASE DeleteTask(w)
  <2>1. /\ held[w] \in Tasks /\ runs[held[w]] = 1 /\ deletes[held[w]] = 0
        /\ deletes' = [deletes EXCEPT ![held[w]] = deletes[held[w]] + 1]
        /\ UNCHANGED <<result, runs>>
    BY <1>3, OnlyHolder DEF DeleteTask
  <2>2. Contract!Delete(held[w])
    BY <2>1 DEF Contract!Delete
  <2>. QED  BY <1>3, <2>1, <2>2, DeleteOneOwner DEF Contract!Next, Arguments
<1>4. CASE SpuriousWakeup(w)
  <2>1. /\ UNCHANGED <<tasks, held, result, runs, deletes>>
        /\ \A v \in Workers : pc'[v] \in {"running", "ran"} => pc'[v] = pc[v]
    BY <1>4 DEF SpuriousWakeup, taskVars, TypeOK
  <2>. QED  BY <2>1, NobodyTakes DEF Contract!vars
<1>. QED  BY <1>1, <1>2, <1>3, <1>4 DEF WorkerStep

LEMMA ShutdownImplements ==
  ASSUME TypeOK, OneOwner, NEW c \in Callers, ShutdownStep(c)
  PROVE  OneOwner' /\ UNCHANGED Contract!vars
<1>1. CASE PushNull(c)
  <2>1. Push(NULL) /\ UNCHANGED <<held, result, runs, deletes>>
    BY <1>1 DEF PushNull, taskVars
  <2>. QED  BY <2>1, PushOneOwner DEF Entry, Contract!vars
<1>2. CASE JoinThread(c)
  <2>1. /\ UNCHANGED <<tasks, held, result, runs, deletes>>
        /\ \A v \in Workers : pc'[v] \in {"running", "ran"} => pc'[v] = pc[v]
    BY <1>2 DEF JoinThread, Join, taskVars, TypeOK
  <2>. QED  BY <2>1, NobodyTakes DEF Contract!vars
<1>3. CASE ShutdownEnter(c) \/ ShutdownReturn(c)
  <2>1. UNCHANGED <<tasks, pc, held, result, runs, deletes>>
    BY <1>3 DEF ShutdownEnter, ShutdownReturn, taskVars
  <2>. QED  BY <2>1, NobodyTakes DEF Contract!vars
<1>. QED  BY <1>1, <1>2, <1>3 DEF ShutdownStep

LEMMA StepImplements ==
  ASSUME TypeOK, OneOwner, [Next]_vars
  PROVE  OneOwner' /\ [Contract!Next]_(Contract!vars)
<1>1. CASE Construct
  <2>1. /\ UNCHANGED <<tasks, held, result, runs, deletes>>
        /\ \A v \in Workers : pc'[v] \in {"running", "ran"} => pc'[v] = pc[v]
    BY <1>1 DEF Construct, InitSyncFails, InitSync, StartThread, StartThreadFails,
                Publish, taskVars, TypeOK
  <2>. QED  BY <2>1, NobodyTakes DEF Contract!vars
<1>2. ASSUME NEW t \in Arguments, Submit(t)
      PROVE  OneOwner' /\ [Contract!Next]_(Contract!vars)
  BY <1>2, SubmitImplements
<1>3. ASSUME NEW w \in Workers, WorkerStep(w) \/ SpuriousWakeup(w)
      PROVE  OneOwner' /\ [Contract!Next]_(Contract!vars)
  BY <1>3, WorkerImplements
<1>4. ASSUME NEW c \in Callers, ShutdownStep(c)
      PROVE  OneOwner' /\ [Contract!Next]_(Contract!vars)
  BY <1>4, ShutdownImplements
<1>5. CASE Destroy \/ UNCHANGED vars
  <2>1. UNCHANGED <<tasks, pc, held, result, runs, deletes>>
    BY <1>5 DEF Destroy, BeginDelete, DeleteRep, vars, taskVars
  <2>. QED  BY <2>1, NobodyTakes DEF Contract!vars
<1>. QED  BY <1>1, <1>2, <1>3, <1>4, <1>5 DEF Next, Finished

-----------------------------------------------------------------------------
\* Every behaviour of the pool, seen through what Execute() returned and which
\* tasks were run and deleted, is one ExecutionContract allows.
THEOREM PoolIsAnExecution == Spec => ImplementsContract
<1>1. Init => OneOwner /\ Contract!Init
  <2>1. Init => OneOwner
    BY OneOwnerInit
  <2>2. Init => Contract!Init
    BY DEF Init, Contract!Init
  <2>. QED  BY <2>1, <2>2
<1>2. TypeOK /\ OneOwner /\ [Next]_vars => OneOwner' /\ [Contract!Next]_(Contract!vars)
  BY StepImplements
<1>. QED  BY <1>1, <1>2, TypeCorrect, PTL DEF Spec, ImplementsContract, Contract!Spec
=============================================================================

----------------------- MODULE ThreadPoolShutdownProofs -----------------------
(***************************************************************************)
(* The shutdown of ThreadPool, for any tasks, clients and number of        *)
(* threads, as long as no task shuts its own pool down: it drains the      *)
(* queue, and the Rep outlives its threads.                                *)
(*                                                                         *)
(* The argument counts: a NULL task in the queue or a thread that ended on *)
(* one for every round of the first loop, so that a thread can only be     *)
(* joined when its NULL task was taken, and all of them only when none is  *)
(* left.  NULL tasks are behind the real ones (QueueIsFIFO), so nothing is *)
(* left at all.                                                            *)
(***************************************************************************)
EXTENDS ThreadPoolProofs

Nulls == Len(tasks) - Backlog             \* the NULL tasks in the queue
Over == {"exited", "joined"}
Ended == {w \in Workers : pc[w] \in Over} \* the threads that took one

\* The call that performs the shutdown; the others return at once.
Active(c) == call[c].at \in {"push", "join", "clear"}
AnyActive == \E c \in Callers : Active(c)

\* An accepted task is in the queue, with a worker, or complete.
Accounted(t) ==
    \/ \E i \in 1..Len(tasks) : tasks[i] = t
    \/ \E w \in Workers : Has(w, t)
    \/ runs[t] = 1 /\ deletes[t] = 1

NoneLost == \A t \in Tasks : result[t] = "ok" => Accounted(t)

\* The mutex and the condition variable, phase by phase.
Phases ==
    /\ ~createdSync => /\ phase \in {"new", "closing", "deleted"} /\ sync # "ready"
                       /\ \A w \in Workers : pc[w] = "none"
    /\ createdSync => /\ phase # "new"
                      /\ sync = IF phase = "deleted" THEN "gone" ELSE "ready"
    /\ phase = "starting" => requested >= 1

\* One party performs the shutdown, and only in the use or the deletion of a pool.
Serial ==
    /\ \A c \in Callers : Active(c) =>
         /\ shuttingDown /\ createdSync
         /\ call[c].n = threads
         /\ \/ c \in Clients /\ phase = "live"
            \/ c = Owner /\ phase = "closing"
    /\ \A c, d \in Callers : Active(c) /\ Active(d) => c = d
    /\ \A c \in Callers : call[c].at = "returned" => shuttingDown
    /\ shuttingDown => phase \in {"live", "closing", "deleted"}
    /\ phase = "deleted" /\ createdSync => shuttingDown

\* The threads that were started are all there until the shutdown is done.
Roster ==
    /\ ~shuttingDown \/ AnyActive =>
         /\ \A w \in Workers : pc[w] = "none" <=> w > threads
         /\ accepted # <<>> => threads >= 1
    /\ shuttingDown /\ ~AnyActive => \A w \in Workers : pc[w] \in {"none", "joined"}
    /\ phase = "live" /\ ~shuttingDown => threads >= 1

Count ==
    /\ ~shuttingDown => Ended = {} /\ Nulls = 0
    /\ Ended # {} => Backlog = 0
    /\ \A c \in Callers :
         /\ call[c].at = "push" => Nulls + Cardinality(Ended) = call[c].i /\ call[c].i < call[c].n
         /\ call[c].at \in {"join", "clear"} => Nulls + Cardinality(Ended) = call[c].n
         /\ call[c].at = "join" => /\ call[c].i < call[c].n
                                   /\ \A w \in Workers : w <= call[c].i => pc[w] = "joined"
         /\ call[c].at = "clear" => \A w \in Workers : w <= call[c].n => pc[w] = "joined"

Orderly == Serial /\ Roster /\ Count

DInv == Phases /\ (NoTaskShutsDown => NoneLost /\ Orderly)

-----------------------------------------------------------------------------
LEMMA CountFacts ==
  ASSUME TypeOK, QueueIsFIFO
  PROVE  /\ Len(tasks) \in Nat /\ Backlog \in Nat /\ Nulls \in Nat
         /\ Len(tasks) = Nulls + Backlog
         /\ IsFiniteSet(Ended) /\ Cardinality(Ended) \in Nat
         /\ Cardinality(Ended) = 0 <=> Ended = {}
<1>1. Len(tasks) \in Nat /\ Len(accepted) \in Nat /\ Len(taken) \in Nat
  BY FIFOTypes
<1>2. IsFiniteSet(Ended)
  <2>1. IsFiniteSet(1..MaxThreads)
    BY ThreadPoolAssumption, FS_Interval
  <2>2. Ended \in SUBSET (1..MaxThreads)
    BY DEF Ended, Workers
  <2>. QED  BY <2>1, <2>2, FS_Subset
<1>3. Cardinality(Ended) \in Nat /\ (Cardinality(Ended) = 0 <=> Ended = {})
  BY <1>2, FS_CardinalityType, FS_EmptySet
<1>. QED  BY <1>1, <1>2, <1>3 DEF QueueIsFIFO, Backlog, Nulls

\* What is taken from the queue, and what it says of the rest.
LEMMA HeadFacts ==
  ASSUME TypeOK, QueueIsFIFO, tasks # <<>>
  PROVE  /\ Head(tasks) = tasks[1] /\ Len(tasks) >= 1
         /\ Len(Tail(tasks)) = Len(tasks) - 1
         /\ \A i \in 1..Len(tasks) : i # 1 =>
              i - 1 \in 1..Len(Tail(tasks)) /\ Tail(tasks)[i - 1] = tasks[i]
         /\ Head(tasks) = NULL <=> Backlog = 0
<1>1. /\ tasks \in Seq(Entry) /\ accepted \in Seq(Tasks)
      /\ Len(tasks) \in Nat /\ Len(accepted) \in Nat /\ Len(taken) \in Nat
  BY FIFOTypes
<1>2. /\ Head(tasks) = tasks[1] /\ Len(tasks) >= 1 /\ Len(Tail(tasks)) = Len(tasks) - 1
      /\ \A j \in 1..Len(Tail(tasks)) : Tail(tasks)[j] = tasks[j + 1]
  BY <1>1, HeadTailProperties, EmptySeq
<1>3. \A i \in 1..Len(tasks) : i # 1 =>
        i - 1 \in 1..Len(Tail(tasks)) /\ Tail(tasks)[i - 1] = tasks[i]
  BY <1>1, <1>2
<1>4. tasks[1] = IF 1 <= Backlog THEN accepted[Len(taken) + 1] ELSE NULL
  BY <1>1, <1>2 DEF QueueIsFIFO
<1>5. 1 <= Backlog => accepted[Len(taken) + 1] # NULL
  <2> SUFFICES ASSUME 1 <= Backlog PROVE accepted[Len(taken) + 1] # NULL
    OBVIOUS
  <2>1. Len(taken) + 1 \in 1..Len(accepted)
    BY <1>1 DEF Backlog
  <2>2. accepted[Len(taken) + 1] \in Tasks
    BY <1>1, <2>1, ElementOfSeq
  <2>. QED  BY <2>2, ThreadPoolAssumption
<1>. QED  BY <1>2, <1>3, <1>4, <1>5, CountFacts

-----------------------------------------------------------------------------
(* No accepted task is lost.                                               *)

\* A step that keeps the queue and every worker's task.
LEMMA AccountedStays ==
  ASSUME TypeOK, NoneLost, UNCHANGED <<tasks, held, result, runs, deletes>>,
         \A w \in Workers : pc[w] \in {"running", "ran"} => pc'[w] \in {"running", "ran"}
  PROVE  NoneLost'
<1>1. ASSUME NEW t \in Tasks, Accounted(t) PROVE Accounted(t)'
  BY <1>1 DEF Accounted, Has
<1>. QED  BY <1>1 DEF NoneLost

\* A push.
LEMMA AccountedPush ==
  ASSUME TypeOK, NoneLost, NEW x \in Entry, Push(x), UNCHANGED <<held, runs, deletes>>,
         \/ result' = result
         \/ x \in Tasks /\ result' = [result EXCEPT ![x] = "ok"]
  PROVE  NoneLost'
<1>1. /\ tasks \in Seq(Entry) /\ Len(tasks) \in Nat
  BY FIFOTypes
<1>2. /\ Len(tasks') = Len(tasks) + 1 /\ tasks'[Len(tasks) + 1] = x
      /\ \A i \in 1..Len(tasks) : tasks'[i] = tasks[i]
  BY <1>1, AppendProperties DEF Push
<1>3. \A w \in Workers : pc[w] \in {"running", "ran"} => pc'[w] = pc[w]
  BY DEF Push, Signal, Waiting, TypeOK
<1>4. ASSUME NEW t \in Tasks, Accounted(t) PROVE Accounted(t)'
  <2>1. CASE \E i \in 1..Len(tasks) : tasks[i] = t
    <3>1. \A i \in 1..Len(tasks) : i \in 1..Len(tasks')
      BY <1>1, <1>2
    <3>. QED  BY <1>2, <2>1, <3>1 DEF Accounted
  <2>2. CASE \E w \in Workers : Has(w, t)
    BY <1>3, <2>2 DEF Accounted, Has
  <2>. QED  BY <1>4, <2>1, <2>2 DEF Accounted
<1>5. x \in Tasks => Accounted(x)'
  <2>1. Len(tasks) + 1 \in 1..Len(tasks')
    BY <1>1, <1>2
  <2>. QED  BY <1>2, <2>1 DEF Accounted
<1>. QED  BY <1>4, <1>5 DEF NoneLost, TypeOK

LEMMA AccountedWorker ==
  ASSUME TypeOK, QueueIsFIFO, OneOwner, NoneLost, NEW w \in Workers,
         WorkerStep(w) \/ SpuriousWakeup(w)
  PROVE  NoneLost'
<1>1. CASE GetNextTask(w)
  <2>1. CASE tasks = <<>>
    <3>1. pc[w] = "ready" /\ pc' = [pc EXCEPT ![w] = "waiting"]
          /\ UNCHANGED <<tasks, held, result, runs, deletes>>
      BY <1>1, <2>1 DEF GetNextTask, taskVars
    <3>. QED  BY <3>1, AccountedStays DEF TypeOK
  <2>2. CASE tasks # <<>>
    <3>1. /\ pc[w] = "ready" /\ tasks' = Tail(tasks) /\ UNCHANGED <<result, runs, deletes>>
          /\ \A v \in Workers \ {w} : pc'[v] = pc[v] /\ held'[v] = held[v]
          /\ Head(tasks) # NULL => pc'[w] = "running" /\ held'[w] = Head(tasks)
      BY <1>1, <2>2 DEF GetNextTask, Popped, taskVars, TypeOK
    <3>2. ASSUME NEW t \in Tasks, Accounted(t) PROVE Accounted(t)'
      <4>1. CASE \E v \in Workers : Has(v, t)
        BY <3>1, <4>1 DEF Accounted, Has
      <4>2. ASSUME NEW i \in 1..Len(tasks), tasks[i] = t PROVE Accounted(t)'
        <5>1. CASE i = 1
          BY <2>2, <3>1, <4>2, <5>1, HeadFacts, ThreadPoolAssumption DEF Accounted, Has
        <5>2. CASE i # 1
          BY <2>2, <3>1, <4>2, <5>2, HeadFacts DEF Accounted
        <5>. QED  BY <5>1, <5>2
      <4>. QED  BY <3>1, <3>2, <4>1, <4>2 DEF Accounted
    <3>. QED  BY <3>1, <3>2 DEF NoneLost
  <2>. QED  BY <2>1, <2>2
<1>2. CASE RunTask(w)
  <2>1. /\ pc[w] = "running" /\ pc' = [pc EXCEPT ![w] = "ran"]
        /\ runs' = [runs EXCEPT ![held[w]] = runs[held[w]] + 1]
        /\ UNCHANGED <<tasks, held, result, deletes>>
    BY <1>2 DEF RunTask
  <2>2. held[w] \in Tasks /\ deletes[held[w]] = 0
    BY <2>1 DEF OneOwner, HeldOnce, Fresh
  <2>3. ASSUME NEW t \in Tasks, Accounted(t) PROVE Accounted(t)'
    <3>1. CASE t = held[w]
      BY <2>1, <3>1 DEF Accounted, Has, TypeOK
    <3>2. CASE t # held[w]
      BY <2>1, <2>2, <2>3, <3>2 DEF Accounted, Has, TypeOK
    <3>. QED  BY <3>1, <3>2
  <2>. QED  BY <2>1, <2>3 DEF NoneLost
<1>3. CASE DeleteTask(w)
  <2>1. /\ pc[w] = "ran" /\ pc' = [pc EXCEPT ![w] = "ready"]
        /\ held' = [held EXCEPT ![w] = NULL]
        /\ deletes' = [deletes EXCEPT ![held[w]] = deletes[held[w]] + 1]
        /\ UNCHANGED <<tasks, result, runs>>
    BY <1>3 DEF DeleteTask
  <2>2. held[w] \in Tasks /\ runs[held[w]] = 1 /\ deletes[held[w]] = 0
    BY <2>1 DEF OneOwner, HeldOnce
  <2>3. ASSUME NEW t \in Tasks, Accounted(t) PROVE Accounted(t)'
    <3>1. CASE t = held[w]
      <4>1. runs'[t] = 1 /\ deletes'[t] = 1
        BY <2>1, <2>2, <3>1 DEF TypeOK
      <4>. QED  BY <4>1 DEF Accounted
    <3>2. CASE t # held[w]
      BY <2>1, <2>2, <2>3, <3>2 DEF Accounted, Has, TypeOK
    <3>. QED  BY <3>1, <3>2
  <2>. QED  BY <2>1, <2>3 DEF NoneLost
<1>4. CASE SpuriousWakeup(w)
  <2>1. /\ pc[w] = "waiting" /\ pc' = [pc EXCEPT ![w] = "ready"]
        /\ UNCHANGED <<tasks, held, result, runs, deletes>>
    BY <1>4 DEF SpuriousWakeup, taskVars
  <2>. QED  BY <2>1, AccountedStays DEF TypeOK
<1>. QED  BY <1>1, <1>2, <1>3, <1>4 DEF WorkerStep

-----------------------------------------------------------------------------
(* The phases, whoever shuts the pool down.                                *)

\* Once it is constructed, and until it is destroyed, only its threads and
\* callers take steps: they leave the Rep where it is and start no thread.
LEMMA OthersKeepTheRep ==
  ASSUME TypeOK,
         \/ \E t \in Arguments : Submit(t)
         \/ \E w \in Workers : WorkerStep(w) \/ SpuriousWakeup(w)
         \/ \E c \in Callers : ShutdownStep(c)
         \/ UNCHANGED vars
  PROVE  /\ UNCHANGED <<requested, phase, sync, createdSync>>
         /\ \A v \in Workers : pc'[v] = "none" <=> pc[v] = "none"
<1>1. ASSUME NEW t \in Arguments, Submit(t)
      PROVE  /\ UNCHANGED <<requested, phase, sync, createdSync>>
             /\ \A v \in Workers : pc'[v] = "none" <=> pc[v] = "none"
  BY <1>1 DEF Submit, Execute, CallerDelete, Push, Signal, Waiting, repVars, TypeOK
<1>2. ASSUME NEW w \in Workers, WorkerStep(w) \/ SpuriousWakeup(w)
      PROVE  /\ UNCHANGED <<requested, phase, sync, createdSync>>
             /\ \A v \in Workers : pc'[v] = "none" <=> pc[v] = "none"
  BY <1>2 DEF WorkerStep, GetNextTask, RunTask, DeleteTask, SpuriousWakeup, repVars, TypeOK
<1>3. ASSUME NEW c \in Callers, ShutdownStep(c)
      PROVE  /\ UNCHANGED <<requested, phase, sync, createdSync>>
             /\ \A v \in Workers : pc'[v] = "none" <=> pc[v] = "none"
  <2>1. CASE PushNull(c)
    BY <2>1 DEF PushNull, Push, Signal, Waiting, repVars, TypeOK
  <2>2. CASE JoinThread(c)
    BY <2>2 DEF JoinThread, Join, repVars, TypeOK
  <2>3. CASE ShutdownEnter(c) \/ ShutdownReturn(c)
    BY <2>3 DEF ShutdownEnter, ShutdownReturn, repVars
  <2>. QED  BY <1>3, <2>1, <2>2, <2>3 DEF ShutdownStep
<1>4. CASE UNCHANGED vars
  BY <1>4 DEF vars, repVars
<1>. QED  BY <1>1, <1>2, <1>3, <1>4

LEMMA PhasesStep ==
  ASSUME TypeOK, Phases, [Next]_vars
  PROVE  Phases'
<1>1. CASE InitSyncFails \/ InitSync
  BY <1>1 DEF InitSyncFails, InitSync, Recorded, Phases, TypeOK
<1>2. CASE StartThread \/ StartThreadFails \/ Publish
  <2>1. createdSync /\ createdSync' = createdSync /\ sync' = sync
        /\ phase' \in {"starting", "live", "closing"} /\ requested' = requested /\ requested >= 1
        /\ phase # "deleted"
    BY <1>2 DEF StartThread, StartThreadFails, Publish, repVars, Phases, TypeOK
  <2>. QED  BY <2>1 DEF Phases
<1>3. CASE Destroy
  BY <1>3 DEF Destroy, BeginDelete, DeleteRep, Phases, TypeOK
<1>4. CASE \/ \E t \in Arguments : Submit(t)
           \/ \E w \in Workers : WorkerStep(w) \/ SpuriousWakeup(w)
           \/ \E c \in Callers : ShutdownStep(c)
           \/ UNCHANGED vars
  BY <1>4, OthersKeepTheRep DEF Phases
<1>. QED  BY <1>1, <1>2, <1>3, <1>4 DEF Next, Construct, Finished

-----------------------------------------------------------------------------
(* The shutdown is orderly: the steps of tasks and workers.                *)

LiveThread == {"ready", "waiting", "running", "ran"}

\* A step of a thread that does not end, and of a caller of Execute().
LEMMA ThreadsMove ==
  ASSUME TypeOK, TypeOK', QueueIsFIFO, Orderly,
         UNCHANGED <<phase, createdSync, shuttingDown, threads, call>>,
         Nulls' = Nulls, Ended # {} => Backlog' = Backlog,
         \A w \in Workers : pc'[w] = pc[w] \/ {pc[w], pc'[w]} \subseteq LiveThread,
         accepted' = accepted \/ (~shuttingDown /\ threads >= 1)
  PROVE  Orderly'
<1>1. Ended' = Ended
  BY DEF Ended, Over, LiveThread
<1>2. Serial'
  BY DEF Orderly, Serial, Active
<1>3. \A w \in Workers : /\ pc'[w] = "none" <=> pc[w] = "none"
                         /\ pc'[w] = "joined" <=> pc[w] = "joined"
  BY DEF LiveThread
<1>4. AnyActive' <=> AnyActive
  BY DEF AnyActive, Active
<1>5. Roster'
  BY <1>3, <1>4 DEF Orderly, Roster
<1>6. Count'
  <2>1. (~shuttingDown => Ended = {} /\ Nulls = 0)'
    BY <1>1 DEF Orderly, Count
  <2>2. (Ended # {} => Backlog = 0)'
    BY <1>1 DEF Orderly, Count
  <2>. QED  BY <1>1, <1>3, <2>1, <2>2 DEF Orderly, Count
<1>. QED  BY <1>2, <1>5, <1>6 DEF Orderly

LEMMA SubmitOrderly ==
  ASSUME TypeOK, TypeOK', QueueIsFIFO, Phases, OneOwner, NoneLost, Orderly,
         NEW t \in Arguments, Submit(t)
  PROVE  NoneLost' /\ Orderly'
<1>1. UNCHANGED <<phase, createdSync, shuttingDown, threads, call, held, runs, taken>>
  BY DEF Submit, Execute, CallerDelete, repVars
<1>2. ASSUME Execute(t), result' = [result EXCEPT ![t] = "fail"],
             UNCHANGED <<tasks, pc, accepted>>
      PROVE  NoneLost' /\ Orderly'
  <2>1. deletes' = deletes
    BY <1>2 DEF Execute
  <2>2. Orderly'
    BY <1>1, <1>2, ThreadsMove DEF Nulls, Backlog
  <2>3. \A u \in Tasks : result'[u] = "ok" => result[u] = "ok"
    BY <1>2 DEF TypeOK
  <2>4. \A u \in Tasks : Accounted(u) => Accounted(u)'
    BY <1>1, <1>2, <2>1 DEF Accounted, Has
  <2>. QED  BY <2>2, <2>3, <2>4 DEF NoneLost
<1>3. ASSUME Execute(t), t \in Tasks, ~shuttingDown, result' = [result EXCEPT ![t] = "ok"],
             Push(t), accepted' = Append(accepted, t)
      PROVE  NoneLost' /\ Orderly'
  <2>1. deletes' = deletes /\ InUse
    BY <1>3 DEF Execute
  <2>2. NoneLost'
    BY <1>1, <1>3, <2>1, AccountedPush DEF Entry
  <2>3. threads >= 1
    <3>1. CASE phase = "live"
      BY <1>3, <3>1 DEF Orderly, Roster
    <3>2. ASSUME NEW w \in Workers, pc[w] = "running" PROVE threads >= 1
      <4>1. ~(w > threads)
        BY <1>3, <3>2 DEF Orderly, Roster
      <4>. QED  BY <4>1, ThreadPoolAssumption DEF Workers, TypeOK
    <3>. QED  BY <2>1, <3>1, <3>2 DEF InUse
  <2>4. Len(tasks') = Len(tasks) + 1 /\ Len(accepted') = Len(accepted) + 1
    BY <1>3, FIFOTypes, AppendProperties DEF Push, Entry
  <2>5. Nulls' = Nulls
    BY <1>1, <2>4, FIFOTypes DEF Nulls, Backlog
  <2>6. Ended = {}
    BY <1>3 DEF Orderly, Count
  <2>7. \A w \in Workers : pc'[w] = pc[w] \/ {pc[w], pc'[w]} \subseteq LiveThread
    BY <1>3 DEF Push, Signal, Waiting, LiveThread, TypeOK
  <2>8. Orderly'
    BY <1>1, <1>3, <2>3, <2>5, <2>6, <2>7, ThreadsMove
  <2>. QED  BY <2>2, <2>8
<1>4. CASE CallerDelete(t)
  <2>1. /\ UNCHANGED <<tasks, pc, accepted, result>> /\ result[t] = "fail"
        /\ deletes' = [deletes EXCEPT ![t] = 1]
    BY <1>4 DEF CallerDelete
  <2>2. Orderly'
    BY <1>1, <2>1, ThreadsMove DEF Nulls, Backlog
  <2>3. \A u \in Tasks : result[u] = "ok" => u # t
    BY <2>1
  <2>4. \A u \in Tasks : u # t /\ Accounted(u) => Accounted(u)'
    BY <1>1, <2>1 DEF Accounted, Has, TypeOK
  <2>. QED  BY <2>1, <2>2, <2>3, <2>4 DEF NoneLost
<1>5. CASE Execute(t)
  <2>1. \/ result' = [result EXCEPT ![t] = "fail"] /\ UNCHANGED <<tasks, pc, accepted>>
        \/ /\ t \in Tasks /\ ~shuttingDown /\ result' = [result EXCEPT ![t] = "ok"]
           /\ Push(t) /\ accepted' = Append(accepted, t)
    BY <1>5, ExecuteIs
  <2>. QED  BY <1>2, <1>3, <1>5, <2>1
<1>. QED  BY <1>4, <1>5 DEF Submit

\* A worker takes a NULL task and ends.
LEMMA ThreadEnds ==
  ASSUME TypeOK, TypeOK', QueueIsFIFO, Orderly, NEW w \in Workers, GetNextTask(w),
         tasks # <<>>, Head(tasks) = NULL
  PROVE  Orderly'
<1>1. /\ UNCHANGED <<phase, createdSync, shuttingDown, threads, call, accepted, taken>>
      /\ pc[w] = "ready" /\ pc' = [pc EXCEPT ![w] = "exited"]
      /\ tasks' = Tail(tasks)
  BY DEF GetNextTask, Popped, repVars
<1>2. pc'[w] = "exited" /\ \A v \in Workers \ {w} : pc'[v] = pc[v]
  BY <1>1 DEF TypeOK
<1>3. Ended' = Ended \cup {w} /\ w \notin Ended
  BY <1>1, <1>2 DEF Ended, Over
<1>4. Cardinality(Ended') = Cardinality(Ended) + 1
  BY <1>3, CountFacts, FS_AddElement
<1>5. Backlog = 0 /\ Backlog' = 0 /\ Nulls' = Nulls - 1 /\ Nulls >= 1
  BY <1>1, HeadFacts, CountFacts DEF Nulls, Backlog
<1>6. shuttingDown /\ AnyActive
  <2>1. shuttingDown
    BY <1>5 DEF Orderly, Count
  <2>. QED  BY <1>1, <2>1 DEF Orderly, Roster
<1>7. Serial'
  BY <1>1 DEF Orderly, Serial, Active
<1>8. AnyActive'
  BY <1>1, <1>6 DEF AnyActive, Active
<1>9. Roster'
  BY <1>1, <1>2, <1>6, <1>8 DEF Orderly, Roster
<1>10. Nulls' + Cardinality(Ended') = Nulls + Cardinality(Ended)
  BY <1>4, <1>5, CountFacts
<1>11. \A v \in Workers : pc[v] = "joined" => pc'[v] = "joined"
  BY <1>1, <1>2
<1>12. Count'
  <2>1. ASSUME NEW c \in Callers
        PROVE
         (/\ call[c].at = "push" => Nulls + Cardinality(Ended) = call[c].i /\ call[c].i < call[c].n
          /\ call[c].at \in {"join", "clear"} => Nulls + Cardinality(Ended) = call[c].n
          /\ call[c].at = "join" => /\ call[c].i < call[c].n
                                    /\ \A v \in Workers : v <= call[c].i => pc[v] = "joined"
          /\ call[c].at = "clear" => \A v \in Workers : v <= call[c].n => pc[v] = "joined")'
    BY <1>1, <1>10, <1>11 DEF Orderly, Count
  <2>. QED  BY <1>1, <1>5, <1>6, <2>1 DEF Count
<1>. QED  BY <1>7, <1>9, <1>12 DEF Orderly

LEMMA WorkerOrderly ==
  ASSUME TypeOK, TypeOK', QueueIsFIFO, Orderly,
         NEW w \in Workers, WorkerStep(w) \/ SpuriousWakeup(w)
  PROVE  Orderly'
<1>1. /\ UNCHANGED <<phase, createdSync, shuttingDown, threads, call, accepted>>
  BY DEF WorkerStep, GetNextTask, RunTask, DeleteTask, SpuriousWakeup, repVars
<1>2. CASE GetNextTask(w) /\ tasks # <<>> /\ Head(tasks) = NULL
  BY <1>2, ThreadEnds
<1>3. CASE GetNextTask(w) /\ tasks # <<>> /\ Head(tasks) # NULL
  <2>1. /\ pc[w] = "ready" /\ pc' = [pc EXCEPT ![w] = "running"]
        /\ tasks' = Tail(tasks) /\ taken' = Append(taken, Head(tasks))
    BY <1>3 DEF GetNextTask, Popped
  <2>2. Backlog # 0
    BY <1>3, HeadFacts
  <2>3. Len(taken') = Len(taken) + 1 /\ Len(tasks') = Len(tasks) - 1
    <3>1. Head(tasks) \in Tasks
      BY <1>3, HeadFacts, FIFOTypes, ElementOfSeq DEF Entry
    <3>. QED  BY <1>3, <2>1, <3>1, FIFOTypes, AppendProperties, HeadFacts
  <2>4. Nulls' = Nulls
    BY <1>1, <2>3, FIFOTypes DEF Nulls, Backlog
  <2>5. Ended = {}
    BY <2>2 DEF Orderly, Count
  <2>6. \A v \in Workers : pc'[v] = pc[v] \/ {pc[v], pc'[v]} \subseteq LiveThread
    BY <2>1 DEF LiveThread, TypeOK
  <2>. QED  BY <1>1, <2>4, <2>5, <2>6, ThreadsMove
<1>4. CASE \/ GetNextTask(w) /\ tasks = <<>>
           \/ RunTask(w) \/ DeleteTask(w) \/ SpuriousWakeup(w)
  <2>1. UNCHANGED <<tasks, taken>>
    BY <1>4 DEF GetNextTask, RunTask, DeleteTask, SpuriousWakeup
  <2>2. \A v \in Workers : pc'[v] = pc[v] \/ {pc[v], pc'[v]} \subseteq LiveThread
    BY <1>4 DEF GetNextTask, RunTask, DeleteTask, SpuriousWakeup, LiveThread, TypeOK
  <2>. QED  BY <1>1, <2>1, <2>2, ThreadsMove DEF Nulls, Backlog
<1>. QED  BY <1>2, <1>3, <1>4 DEF WorkerStep

-----------------------------------------------------------------------------
(* The shutdown is orderly: the steps of Shutdown().                       *)

\* Where the call of one caller stands.
CallCounts(c) ==
    /\ call[c].at = "push" => Nulls + Cardinality(Ended) = call[c].i /\ call[c].i < call[c].n
    /\ call[c].at \in {"join", "clear"} => Nulls + Cardinality(Ended) = call[c].n
    /\ call[c].at = "join" => /\ call[c].i < call[c].n
                              /\ \A w \in Workers : w <= call[c].i => pc[w] = "joined"
    /\ call[c].at = "clear" => \A w \in Workers : w <= call[c].n => pc[w] = "joined"

\* Who acts is the only one, and the numbers are numbers.
LEMMA ActiveFacts ==
  ASSUME TypeOK, Orderly, NEW c \in Callers, Active(c)
  PROVE  /\ shuttingDown /\ createdSync /\ call[c].n = threads /\ AnyActive
         /\ (c \in Clients /\ phase = "live") \/ (c = Owner /\ phase = "closing")
         /\ \A d \in Callers : d # c => ~Active(d)
         /\ call[c].n \in 0..MaxThreads /\ call[c].i \in 0..MaxThreads
<1>1. call[c] \in Frames
  BY DEF TypeOK
<1>. QED  BY <1>1 DEF Orderly, Serial, AnyActive, Frames

LEMMA PushNullOrderly ==
  ASSUME TypeOK, TypeOK', QueueIsFIFO, Orderly, NEW c \in Callers, PushNull(c)
  PROVE  Orderly'
<1> DEFINE f == call[c]
<1>1. /\ UNCHANGED <<phase, createdSync, shuttingDown, threads, accepted, taken>>
      /\ f.at = "push" /\ Push(NULL) /\ call' = [call EXCEPT ![c] = Advance(f, "join")]
  BY DEF PushNull, repVars
<1>2. Active(c)
  BY <1>1 DEF Active
<1>3. /\ shuttingDown /\ f.n = threads /\ f.n \in Nat /\ f.i \in Nat
      /\ f.i < f.n /\ Nulls + Cardinality(Ended) = f.i
      /\ \A d \in Callers : d # c => ~Active(d)
  BY <1>1, <1>2, ActiveFacts, ThreadPoolAssumption DEF Orderly, Count
<1>4. call'[c] = Advance(f, "join") /\ \A d \in Callers : d # c => call'[d] = call[d]
  BY <1>1 DEF TypeOK
<1>5. \/ call'[c].at = "push" /\ call'[c].n = f.n /\ call'[c].i = f.i + 1 /\ f.i + 1 < f.n
      \/ call'[c].at = "join" /\ call'[c].n = f.n /\ call'[c].i = 0 /\ f.i + 1 = f.n
  BY <1>1, <1>3, <1>4 DEF Advance, Frame
<1>6. /\ \A d \in Callers : Active(d)' <=> Active(d)
      /\ \A d \in Callers : call'[d].at = "returned" <=> call[d].at = "returned"
  BY <1>1, <1>4, <1>5 DEF Active
<1>7. \A w \in Workers : pc'[w] = pc[w] \/ (pc[w] = "waiting" /\ pc'[w] = "ready")
  BY <1>1 DEF Push, Signal, Waiting, TypeOK
<1>8. Ended' = Ended
  BY <1>7 DEF Ended, Over
<1>9. Nulls' = Nulls + 1 /\ Backlog' = Backlog
  <2>1. Len(tasks') = Len(tasks) + 1
    BY <1>1, FIFOTypes, AppendProperties DEF Push, Entry
  <2>. QED  BY <1>1, <2>1, FIFOTypes DEF Nulls, Backlog
<1>10. Serial'
  BY <1>1, <1>3, <1>4, <1>5, <1>6 DEF Orderly, Serial
<1>11. Roster'
  <2>1. AnyActive' <=> AnyActive
    BY <1>6 DEF AnyActive
  <2>. QED  BY <1>1, <1>7, <2>1 DEF Orderly, Roster
<1>12. ASSUME NEW d \in Callers PROVE CallCounts(d)'
  <2>1. CASE d = c
    <3>1. ASSUME NEW w \in Workers PROVE ~(w <= 0)
      BY ThreadPoolAssumption DEF Workers
    <3>2. Nulls' + Cardinality(Ended') = f.i + 1
      BY <1>3, <1>8, <1>9, CountFacts
    <3>. QED  BY <1>3, <1>5, <2>1, <3>1, <3>2 DEF CallCounts
  <2>2. CASE d # c
    BY <1>3, <1>6, <2>2 DEF CallCounts, Active
  <2>. QED  BY <2>1, <2>2
<1>13. Count'
  <2>1. shuttingDown' /\ (Ended # {} => Backlog = 0)'
    BY <1>1, <1>3, <1>8, <1>9 DEF Orderly, Count
  <2>. QED  BY <1>12, <2>1 DEF Count, CallCounts
<1>. QED  BY <1>10, <1>11, <1>13 DEF Orderly

LEMMA JoinThreadOrderly ==
  ASSUME TypeOK, TypeOK', QueueIsFIFO, OneOwner, Orderly, NEW c \in Callers, JoinThread(c)
  PROVE  Orderly'
<1> DEFINE f == call[c]
<1>1. /\ UNCHANGED <<phase, createdSync, shuttingDown, threads, tasks, accepted, taken>>
      /\ f.at = "join" /\ Join(f.i + 1, c) /\ call' = [call EXCEPT ![c] = Advance(f, "clear")]
  BY DEF JoinThread, repVars
<1>2. Active(c)
  BY <1>1 DEF Active
<1>3. /\ shuttingDown /\ f.n = threads /\ f.n \in 0..MaxThreads /\ f.i \in Nat
      /\ f.i < f.n /\ Nulls + Cardinality(Ended) = f.n
      /\ \A w \in Workers : w <= f.i => pc[w] = "joined"
      /\ \A d \in Callers : d # c => ~Active(d)
      /\ c \in Clients \/ c = Owner
  BY <1>1, <1>2, ActiveFacts, ThreadPoolAssumption DEF Orderly, Count
<1>4. f.i + 1 \in Workers
  BY <1>3, ThreadPoolAssumption DEF Workers
<1>5. pc[f.i + 1] = "exited" /\ pc' = [pc EXCEPT ![f.i + 1] = "joined"]
  <2>1. c \notin Tasks
    BY <1>3, ThreadPoolAssumption
  <2>2. ~(pc[f.i + 1] = "running" /\ held[f.i + 1] = c)
    BY <1>4, <2>1 DEF OneOwner, HeldOnce
  <2>. QED  BY <1>1, <2>2 DEF Join
<1>6. pc'[f.i + 1] = "joined" /\ \A w \in Workers : w # f.i + 1 => pc'[w] = pc[w]
  BY <1>4, <1>5 DEF TypeOK
<1>7. call'[c] = Advance(f, "clear") /\ \A d \in Callers : d # c => call'[d] = call[d]
  BY <1>1 DEF TypeOK
<1>8. \/ call'[c].at = "join" /\ call'[c].n = f.n /\ call'[c].i = f.i + 1 /\ f.i + 1 < f.n
      \/ call'[c].at = "clear" /\ call'[c].n = f.n /\ f.i + 1 = f.n
  BY <1>1, <1>3, <1>7, ThreadPoolAssumption DEF Advance, Frame
<1>9. /\ \A d \in Callers : Active(d)' <=> Active(d)
      /\ \A d \in Callers : call'[d].at = "returned" <=> call[d].at = "returned"
  BY <1>1, <1>7, <1>8 DEF Active
<1>10. Ended' = Ended
  BY <1>5, <1>6 DEF Ended, Over
<1>11. Nulls' = Nulls /\ Backlog' = Backlog
  BY <1>1 DEF Nulls, Backlog
<1>12. \A w \in Workers : w <= f.i + 1 => pc'[w] = "joined"
  <2>1. \A w \in Workers : w <= f.i + 1 => w <= f.i \/ w = f.i + 1
    BY <1>3, ThreadPoolAssumption DEF Workers
  <2>. QED  BY <1>3, <1>6, <2>1
<1>13. Serial'
  BY <1>1, <1>3, <1>7, <1>8, <1>9 DEF Orderly, Serial
<1>14. Roster'
  <2>1. AnyActive /\ AnyActive'
    BY <1>2, <1>9 DEF AnyActive
  <2>2. \A w \in Workers : pc'[w] = "none" <=> pc[w] = "none"
    BY <1>5, <1>6
  <2>. QED  BY <1>1, <1>3, <2>1, <2>2 DEF Orderly, Roster
<1>15. ASSUME NEW d \in Callers PROVE CallCounts(d)'
  <2>1. CASE d = c
    BY <1>3, <1>8, <1>10, <1>11, <1>12, <2>1 DEF CallCounts
  <2>2. CASE d # c
    BY <1>3, <1>9, <2>2 DEF CallCounts, Active
  <2>. QED  BY <2>1, <2>2
<1>16. Count'
  <2>1. shuttingDown' /\ (Ended # {} => Backlog = 0)'
    BY <1>1, <1>3, <1>10, <1>11 DEF Orderly, Count
  <2>. QED  BY <1>15, <2>1 DEF Count, CallCounts
<1>. QED  BY <1>13, <1>14, <1>16 DEF Orderly

LEMMA ShutdownReturnOrderly ==
  ASSUME TypeOK, TypeOK', QueueIsFIFO, Orderly, NEW c \in Callers, ShutdownReturn(c)
  PROVE  Orderly'
<1> DEFINE f == call[c]
<1>1. /\ UNCHANGED <<phase, createdSync, shuttingDown, tasks, pc, accepted, taken>>
      /\ f.at = "clear" /\ threads' = 0 /\ call' = [call EXCEPT ![c].at = "returned"]
  BY DEF ShutdownReturn, repVars
<1>2. Active(c)
  BY <1>1 DEF Active
<1>3. /\ shuttingDown /\ f.n = threads
      /\ \A w \in Workers : w <= f.n => pc[w] = "joined"
      /\ \A w \in Workers : w > threads => pc[w] = "none"
      /\ \A d \in Callers : d # c => ~Active(d)
  BY <1>1, <1>2, ActiveFacts DEF Orderly, Count, Roster
<1>4. call'[c].at = "returned" /\ \A d \in Callers : d # c => call'[d] = call[d]
  BY <1>1 DEF TypeOK
<1>5. \A d \in Callers : ~Active(d)'
  BY <1>3, <1>4 DEF Active
<1>6. \A w \in Workers : pc[w] \in {"none", "joined"}
  <2>1. threads \in Nat /\ \A w \in Workers : w \in Nat
    BY ThreadPoolAssumption DEF TypeOK, Workers
  <2>. QED  BY <1>3, <2>1
<1>7. Serial'
  BY <1>1, <1>3, <1>5 DEF Orderly, Serial
<1>8. Roster'
  BY <1>1, <1>3, <1>5, <1>6 DEF Roster, AnyActive
<1>9. Count'
  <2>1. (Ended # {} => Backlog = 0)'
    BY <1>1 DEF Orderly, Count, Ended, Backlog
  <2>. QED  BY <1>1, <1>3, <1>5, <2>1 DEF Count, Active
<1>. QED  BY <1>7, <1>8, <1>9 DEF Orderly

LEMMA ShutdownEnterOrderly ==
  ASSUME TypeOK, TypeOK', QueueIsFIFO, OneOwner, Phases, Orderly, NoTaskShutsDown',
         NEW c \in Callers, ShutdownEnter(c)
  PROVE  Orderly'
<1>1. /\ UNCHANGED <<phase, createdSync, threads, tasks, pc, accepted, taken>>
      /\ MayShutdown(c) /\ call[c].at = "idle"
  BY DEF ShutdownEnter, repVars
<1>2. /\ Ended' = Ended /\ Nulls' = Nulls /\ Backlog' = Backlog
  BY <1>1 DEF Ended, Nulls, Backlog
<1>3. CASE shuttingDown
  <2>1. shuttingDown' = shuttingDown /\ call' = [call EXCEPT ![c].at = "returned"]
    BY <1>3 DEF ShutdownEnter
  <2>2. call'[c].at = "returned" /\ \A d \in Callers : d # c => call'[d] = call[d]
    BY <2>1 DEF TypeOK
  <2>3. /\ \A d \in Callers : Active(d)' <=> Active(d)
        /\ \A d \in Callers : Active(d) => d # c
    BY <1>1, <2>2 DEF Active
  <2>4. Serial'
    BY <1>1, <1>3, <2>1, <2>2, <2>3 DEF Orderly, Serial
  <2>5. Roster'
    BY <1>1, <2>1, <2>3 DEF Orderly, Roster, AnyActive
  <2>6. ASSUME NEW d \in Callers PROVE CallCounts(d)'
    BY <1>1, <1>2, <2>2 DEF Orderly, Count, CallCounts
  <2>7. Count'
    BY <1>2, <1>3, <2>1, <2>6 DEF Orderly, Count, CallCounts
  <2>. QED  BY <2>4, <2>5, <2>7 DEF Orderly
<1>4. CASE ~shuttingDown
  <2>1. /\ shuttingDown' = TRUE
        /\ call' = [call EXCEPT ![c] = Frame(IF threads = 0 THEN "clear" ELSE "push", threads, 0)]
    BY <1>4 DEF ShutdownEnter, FirstIndex
  <2>2. /\ call'[c].at = (IF threads = 0 THEN "clear" ELSE "push")
        /\ call'[c].n = threads /\ call'[c].i = 0
        /\ \A d \in Callers : d # c => call'[d] = call[d]
    BY <2>1 DEF TypeOK, Frame
  <2>3. \A d \in Callers : Active(d)' <=> d = c
    BY <1>4, <2>2 DEF Orderly, Serial, Active
  <2>4. \/ c \in Clients /\ phase = "live"
        \/ c = Owner /\ phase = "closing" /\ createdSync
    <3>1. ASSUME NEW w \in Workers, pc[w] = "running", held[w] = c PROVE FALSE
      <4>1. c \in Tasks
        BY <3>1 DEF OneOwner, HeldOnce
      <4>2. c \in ShutdownTasks
        BY <4>1, ThreadPoolAssumption DEF Callers
      <4>. QED  BY <2>2, <4>2 DEF NoTaskShutsDown
    <3>. QED  BY <1>1, <3>1 DEF MayShutdown
  <2>5. createdSync
    BY <2>4 DEF Phases
  <2>6. Serial'
    BY <1>1, <2>1, <2>2, <2>3, <2>4, <2>5 DEF Serial
  <2>7. Roster'
    <3>1. AnyActive'
      BY <2>3 DEF AnyActive
    <3>. QED  BY <1>1, <1>4, <2>1, <3>1 DEF Orderly, Roster
  <2>8. ASSUME NEW d \in Callers PROVE CallCounts(d)'
    <3>1. CASE d = c
      <4>1. Ended = {} /\ Nulls = 0
        BY <1>4 DEF Orderly, Count
      <4>2. Nulls + Cardinality(Ended) = 0
        BY <4>1, CountFacts
      <4>3. threads \in Nat /\ \A w \in Workers : ~(w <= 0)
        BY ThreadPoolAssumption DEF TypeOK, Workers
      <4>. QED  BY <1>2, <2>2, <3>1, <4>2, <4>3 DEF CallCounts
    <3>2. CASE d # c
      BY <2>3, <3>2 DEF CallCounts, Active
    <3>. QED  BY <3>1, <3>2
  <2>9. Count'
    BY <1>2, <2>1, <2>8 DEF Orderly, Count, CallCounts
  <2>. QED  BY <2>6, <2>7, <2>9 DEF Orderly
<1>. QED  BY <1>3, <1>4 DEF TypeOK

LEMMA ShutdownOrderly ==
  ASSUME TypeOK, TypeOK', QueueIsFIFO, Phases, OneOwner, NoneLost, Orderly, NoTaskShutsDown',
         NEW c \in Callers, ShutdownStep(c)
  PROVE  NoneLost' /\ Orderly'
<1>1. CASE PushNull(c)
  <2>1. Push(NULL) /\ UNCHANGED <<held, result, runs, deletes>> /\ NULL \in Entry
    BY <1>1 DEF PushNull, taskVars, Entry
  <2>. QED  BY <1>1, <2>1, AccountedPush, PushNullOrderly
<1>2. CASE JoinThread(c)
  <2>1. /\ UNCHANGED <<tasks, held, result, runs, deletes>>
        /\ \A w \in Workers : pc[w] \in {"running", "ran"} => pc'[w] = pc[w]
    BY <1>2 DEF JoinThread, Join, taskVars, TypeOK
  <2>. QED  BY <1>2, <2>1, AccountedStays, JoinThreadOrderly
<1>3. CASE ShutdownEnter(c) \/ ShutdownReturn(c)
  <2>1. UNCHANGED <<tasks, pc, held, result, runs, deletes>>
    BY <1>3 DEF ShutdownEnter, ShutdownReturn, taskVars
  <2>. QED  BY <1>3, <2>1, AccountedStays, ShutdownEnterOrderly, ShutdownReturnOrderly
<1>. QED  BY <1>1, <1>2, <1>3 DEF ShutdownStep

-----------------------------------------------------------------------------
(* The shutdown is orderly: construction and destruction.                  *)

\* Where the Rep is moves on, and nobody is shutting it down.
LEMMA PhaseMoves ==
  ASSUME TypeOK, Orderly, ~AnyActive,
         UNCHANGED <<shuttingDown, tasks, threads, pc, call, accepted, taken>>,
         shuttingDown => phase' \in {"live", "closing", "deleted"},
         phase' = "live" /\ ~shuttingDown => threads >= 1,
         phase' = "deleted" /\ createdSync' => shuttingDown
  PROVE  Orderly'
<1>1. (~AnyActive)'
  BY DEF AnyActive, Active
<1>2. Serial'
  BY <1>1 DEF Orderly, Serial, AnyActive
<1>3. Roster'
  BY <1>1 DEF Orderly, Roster
<1>4. Count'
  BY DEF Orderly, Count, Ended, Nulls, Backlog
<1>. QED  BY <1>2, <1>3, <1>4 DEF Orderly

LEMMA StartThreadOrderly ==
  ASSUME TypeOK, QueueIsFIFO, Orderly, StartThread
  PROVE  /\ Orderly'
         /\ \A w \in Workers : pc[w] \in {"running", "ran"} => pc'[w] = pc[w]
<1>1. /\ phase = "starting" /\ threads < requested /\ threads' = threads + 1
      /\ pc' = [pc EXCEPT ![threads + 1] = "ready"]
      /\ UNCHANGED <<phase, createdSync, shuttingDown, tasks, call, accepted, taken>>
  BY DEF StartThread, MoreToStart, repVars
<1>2. threads \in Nat /\ threads + 1 \in Workers /\ \A w \in Workers : w \in Nat
  BY <1>1, ThreadPoolAssumption DEF TypeOK, ThreadCounts, Workers
<1>3. ~shuttingDown /\ ~AnyActive /\ (~AnyActive)'
  BY <1>1 DEF Orderly, Serial, AnyActive, Active
<1>4. \A w \in Workers : pc[w] = "none" <=> w > threads
  BY <1>3 DEF Orderly, Roster
<1>5. pc[threads + 1] = "none"
  BY <1>2, <1>4
<1>6. pc'[threads + 1] = "ready" /\ \A w \in Workers : w # threads + 1 => pc'[w] = pc[w]
  BY <1>1, <1>2 DEF TypeOK
<1>7. Ended' = Ended
  BY <1>5, <1>6 DEF Ended, Over
<1>8. Serial'
  BY <1>1, <1>3 DEF Orderly, Serial, AnyActive
<1>9. Roster'
  <2>1. \A w \in Workers : pc'[w] = "none" <=> w > threads + 1
    BY <1>2, <1>4, <1>6
  <2>. QED  BY <1>1, <1>2, <1>3, <2>1 DEF Roster
<1>10. Count'
  BY <1>1, <1>3, <1>7 DEF Orderly, Count, Nulls, Backlog, AnyActive, Active
<1>. QED  BY <1>5, <1>6, <1>8, <1>9, <1>10 DEF Orderly

LEMMA ConstructOrderly ==
  ASSUME TypeOK, QueueIsFIFO, Phases, NoneLost, Orderly, Construct
  PROVE  NoneLost' /\ Orderly'
<1>1. UNCHANGED <<tasks, held, result, runs, deletes, shuttingDown, call, accepted, taken>>
  BY DEF Construct, InitSyncFails, InitSync, StartThread, StartThreadFails, Publish, taskVars
<1>2. phase \in {"new", "starting"} /\ ~shuttingDown /\ ~AnyActive
  <2>1. phase \in {"new", "starting"}
    BY DEF Construct, InitSyncFails, InitSync, StartThread, StartThreadFails, Publish
  <2>. QED  BY <2>1 DEF Orderly, Serial, AnyActive
<1>3. CASE StartThread
  BY <1>1, <1>3, StartThreadOrderly, AccountedStays
<1>4. CASE InitSyncFails \/ InitSync \/ StartThreadFails \/ Publish
  <2>1. /\ pc' = pc /\ threads' = threads /\ phase' # "deleted"
        /\ phase' = "live" => threads >= 1
    BY <1>4 DEF InitSyncFails, InitSync, StartThreadFails, Publish, Phases
  <2>. QED  BY <1>1, <1>2, <2>1, PhaseMoves, AccountedStays
<1>. QED  BY <1>3, <1>4 DEF Construct

LEMMA DestroyOrderly ==
  ASSUME TypeOK, QueueIsFIFO, NoneLost, Orderly, Destroy
  PROVE  NoneLost' /\ Orderly'
<1>1. /\ UNCHANGED <<createdSync, shuttingDown, tasks, threads, pc, held, call, result, runs,
                     deletes, accepted, taken>>
  BY DEF Destroy, BeginDelete, DeleteRep, taskVars
<1>2. CASE BeginDelete
  <2>1. ~AnyActive /\ phase' = "closing"
    BY <1>2 DEF BeginDelete, AnyActive, Active
  <2>. QED  BY <1>1, <2>1, PhaseMoves, AccountedStays
<1>3. CASE DeleteRep
  <2>1. ~AnyActive /\ phase' = "deleted"
    BY <1>3 DEF DeleteRep, AnyActive, Active, Orderly, Serial
  <2>2. createdSync => shuttingDown
    BY <1>3 DEF DeleteRep, Orderly, Serial, Callers
  <2>. QED  BY <1>1, <2>1, <2>2, PhaseMoves, AccountedStays
<1>. QED  BY <1>2, <1>3 DEF Destroy

-----------------------------------------------------------------------------
\* A call of Shutdown() that began stays on record.
LEMMA CallsStayOnRecord ==
  ASSUME TypeOK, [Next]_vars, NoTaskShutsDown'
  PROVE  NoTaskShutsDown
<1>1. ASSUME NEW c \in Callers, ShutdownStep(c), NEW d \in Callers, call'[d].at = "idle"
      PROVE  call[d].at = "idle"
  <2>1. PICK f : call' = [call EXCEPT ![c] = f] /\ f.at # "idle"
    <3>1. CASE ShutdownEnter(c) /\ ~shuttingDown
      <4>1. Frame(IF threads = 0 THEN "clear" ELSE "push", threads, FirstIndex).at # "idle"
        BY DEF Frame
      <4>. QED  BY <3>1, <4>1 DEF ShutdownEnter
    <3>2. CASE (ShutdownEnter(c) /\ shuttingDown) \/ ShutdownReturn(c)
      <4>1. [call[c] EXCEPT !.at = "returned"].at # "idle"
        BY DEF TypeOK, Frames
      <4>2. call' = [call EXCEPT ![c] = [call[c] EXCEPT !.at = "returned"]]
        BY <3>2 DEF ShutdownEnter, ShutdownReturn
      <4>. QED  BY <4>1, <4>2
    <3>3. CASE PushNull(c)
      <4>1. Advance(call[c], "join").at # "idle"
        BY <3>3 DEF PushNull, Advance, Frame
      <4>. QED  BY <3>3, <4>1 DEF PushNull
    <3>4. CASE JoinThread(c)
      <4>1. Advance(call[c], "clear").at # "idle"
        BY <3>4 DEF JoinThread, Advance, Frame
      <4>. QED  BY <3>4, <4>1 DEF JoinThread
    <3>. QED  BY <1>1, <3>1, <3>2, <3>3, <3>4 DEF ShutdownStep
  <2>. QED  BY <1>1, <2>1 DEF TypeOK
<1>2. CASE \E c \in Callers : ShutdownStep(c)
  BY <1>1, <1>2 DEF NoTaskShutsDown, Callers
<1>3. CASE call' = call
  BY <1>3 DEF NoTaskShutsDown
<1>4. (\E c \in Callers : ShutdownStep(c)) \/ call' = call
  BY DEF Next, vars, Construct, InitSyncFails, InitSync, StartThread, StartThreadFails,
         Publish, Submit, Execute, CallerDelete, WorkerStep, GetNextTask, RunTask,
         DeleteTask, SpuriousWakeup, Destroy, BeginDelete, DeleteRep, Finished
<1>. QED  BY <1>2, <1>3, <1>4

LEMMA DInvInit == Init => DInv
<1> SUFFICES ASSUME Init PROVE DInv
  OBVIOUS
<1>1. Ended = {} /\ Len(tasks) = 0 /\ Len(accepted) = 0 /\ Len(taken) = 0 /\ ~AnyActive
  BY EmptySeq DEF Init, Ended, Over, AnyActive, Active, Frame
<1>2. NoneLost /\ Phases
  BY DEF Init, Arguments, NoneLost, Phases
<1>3. Serial /\ Roster
  BY <1>1, ThreadPoolAssumption DEF Init, Serial, Roster, AnyActive, Frame, Workers
<1>4. Count
  BY <1>1 DEF Init, Count, Nulls, Backlog, Frame
<1>. QED  BY <1>2, <1>3, <1>4 DEF DInv, Orderly

LEMMA DInvStep ==
  ASSUME TypeOK, TypeOK', QueueIsFIFO, OneOwner, DInv, [Next]_vars
  PROVE  DInv'
<1>1. Phases'
  BY PhasesStep DEF DInv
<1>2. ASSUME NoTaskShutsDown' PROVE NoneLost' /\ Orderly'
  <2>1. Phases /\ NoneLost /\ Orderly
    BY <1>2, CallsStayOnRecord DEF DInv
  <2>2. CASE Construct
    BY <2>1, <2>2, ConstructOrderly
  <2>3. ASSUME NEW t \in Arguments, Submit(t) PROVE NoneLost' /\ Orderly'
    BY <2>1, <2>3, SubmitOrderly
  <2>4. ASSUME NEW w \in Workers, WorkerStep(w) \/ SpuriousWakeup(w)
        PROVE  NoneLost' /\ Orderly'
    BY <2>1, <2>4, AccountedWorker, WorkerOrderly
  <2>5. ASSUME NEW c \in Callers, ShutdownStep(c) PROVE NoneLost' /\ Orderly'
    BY <1>2, <2>1, <2>5, ShutdownOrderly
  <2>6. CASE Destroy
    BY <2>1, <2>6, DestroyOrderly
  <2>7. CASE UNCHANGED vars
    BY <2>1, <2>7 DEF vars, repVars, taskVars, NoneLost, Accounted, Has, Orderly, Serial, Roster,
       Count, AnyActive, Active, Ended, Nulls, Backlog
  <2>. QED  BY <2>2, <2>3, <2>4, <2>5, <2>6, <2>7 DEF Next, Finished
<1>. QED  BY <1>1, <1>2 DEF DInv

LEMMA AlwaysDInv == Spec => [](TypeOK /\ QueueIsFIFO /\ OneOwner /\ DInv)
<1>1. TypeOK /\ OneOwner /\ [Next]_vars => OneOwner'
  BY StepImplements
<1>2. TypeOK /\ TypeOK' /\ QueueIsFIFO /\ OneOwner /\ DInv /\ [Next]_vars => DInv'
  BY DInvStep
<1>. QED  BY <1>1, <1>2, OneOwnerInit, DInvInit, TypeCorrect, QueueStaysFIFO, PTL DEF Spec

-----------------------------------------------------------------------------
\* After the last join every thread took its NULL task, so that none is left;
\* the real tasks were before them, so that nothing is left at all.
LEMMA NothingLeft ==
  ASSUME TypeOK, QueueIsFIFO, OneOwner, NoneLost, Orderly,
         NEW c \in Callers, call[c].at = "clear"
  PROVE  /\ tasks = <<>>
         /\ \A t \in Tasks : result[t] = "ok" => runs[t] = 1 /\ deletes[t] = 1
<1> DEFINE n == call[c].n
<1>1. /\ AnyActive /\ n = threads /\ n \in 0..MaxThreads
      /\ Nulls + Cardinality(Ended) = n
      /\ \A w \in Workers : w <= n => pc[w] = "joined"
      /\ \A w \in Workers : pc[w] = "none" <=> w > n
      /\ accepted # <<>> => n >= 1
  BY ActiveFacts DEF Orderly, Count, Roster, Active
<1>2. Ended = 1..n
  <2>1. \A w \in Workers : w \in Ended <=> w <= n
    BY <1>1, ThreadPoolAssumption DEF Ended, Over, Workers
  <2>. QED  BY <1>1, <2>1, ThreadPoolAssumption DEF Ended, Workers
<1>3. Cardinality(Ended) = n
  BY <1>1, <1>2, FS_Interval, ThreadPoolAssumption
<1>4. Nulls = 0
  BY <1>1, <1>3, CountFacts, ThreadPoolAssumption
<1>5. Backlog = 0
  <2>1. CASE n >= 1
    <3>1. 1 \in Ended
      BY <1>1, <1>2, <2>1, ThreadPoolAssumption
    <3>. QED  BY <3>1 DEF Orderly, Count
  <2>2. CASE ~(n >= 1)
    <3>1. Len(accepted) = 0
      BY <1>1, <2>2, EmptySeq
    <3>. QED  BY <3>1, FIFOTypes DEF QueueIsFIFO, Backlog
  <2>. QED  BY <2>1, <2>2
<1>6. Len(tasks) = 0
  BY <1>4, <1>5, CountFacts
<1>7. \A w \in Workers, t \in Tasks : ~Has(w, t)
  BY <1>1, ThreadPoolAssumption DEF Has, Workers
<1>8. \A t \in Tasks : result[t] = "ok" => runs[t] = 1 /\ deletes[t] = 1
  BY <1>6, <1>7 DEF NoneLost, Accounted
<1>. QED  BY <1>6, <1>8, FIFOTypes, EmptySeq

\* The call that performs the shutdown finds the queue empty and every accepted
\* task run and deleted once, unless a task shuts its own pool down.
THEOREM ShutdownAlwaysDrains == Spec => []ShutdownDrains
<1>1. TypeOK /\ QueueIsFIFO /\ OneOwner /\ DInv => ShutdownDrains
  BY NothingLeft DEF DInv, ShutdownDrains
<1>. QED  BY <1>1, AlwaysDInv, PTL

\* Once the mutex and the condition variable are destroyed no thread is left that
\* could use them and nobody is inside Shutdown(), unless a task shuts its own
\* pool down; and a deleted Rep leaves neither behind.
THEOREM RepAlwaysOutlivesItsThreads == Spec => []RepOutlivesItsThreads
<1>1. ASSUME TypeOK, Phases, Orderly, sync # "ready"
      PROVE  /\ \A w \in Workers : pc[w] \in {"none", "exited", "joined"}
             /\ \A c \in Callers : call[c].at \in {"idle", "returned"}
  <2>1. ~AnyActive
    BY <1>1 DEF Phases, Orderly, Serial, AnyActive
  <2>2. \A w \in Workers : pc[w] \in {"none", "joined"}
    BY <1>1, <2>1 DEF Phases, Orderly, Serial, Roster
  <2>3. \A c \in Callers : call[c].at \in {"idle", "push", "join", "clear", "returned"}
    BY <1>1 DEF TypeOK, Frames
  <2>. QED  BY <2>1, <2>2, <2>3 DEF AnyActive, Active
<1>2. TypeOK /\ Phases => (phase = "deleted" => sync # "ready")
  BY DEF TypeOK, Phases
<1>3. TypeOK /\ DInv => RepOutlivesItsThreads
  BY <1>1, <1>2 DEF DInv, RepOutlivesItsThreads
<1>. QED  BY <1>3, AlwaysDInv, PTL
=============================================================================

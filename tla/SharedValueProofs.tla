--------------------------- MODULE SharedValueProofs ---------------------------
(***************************************************************************)
(* SharedValue proved for any threads, callbacks, values and programs.     *)
(*                                                                         *)
(* The argument is about frames.  A thread that is inside a callback, or   *)
(* in Set() or Get() after the unlock, got there because the value is set, *)
(* and a thread that sleeps because it is not: so nobody sleeps inside a   *)
(* callback, and nobody is left asleep.  A registered callback is in one   *)
(* place: the queue, or one frame of one thread.  And of two that were     *)
(* queued, the later one stays behind the earlier wherever they go.        *)
(***************************************************************************)
EXTENDS SharedValue, SequenceTheorems, TLAPS

\* The calls th is inside, counted from the outermost: a step changes the last.
Depth(th) == Len(stack[th])
At(th, d) == stack[th][Len(stack[th]) + 1 - d]

\* Which calls there are, and where they can be.
Kind(f) ==
    /\ \/ f.op = "set" /\ f.at \in {"lock", "locked", "dispatch"} /\ f.arg \in Values
       \/ f.op = "get" /\ f.at \in {"lock", "locked", "wait", "read"}
       \/ f.op = "notify" /\ f.at \in {"lock", "locked"} /\ f.arg \in Callbacks
       \/ f.op = "execute" /\ f.at = "body" /\ f.arg \in Callbacks
    /\ f.at # "dispatch" => f.calls = <<>>

\* What a frame says of the value.
Fits(f) ==
    /\ Kind(f)
    /\ f.at \in {"dispatch", "body", "read"} => ready
    /\ f.at = "wait" => ~ready

\* A call that called another one is a callback, or dispatches one.
Calling == {"dispatch", "body"}

Shaped ==
    \A th \in Threads : \A d \in 1..Depth(th) :
        Fits(At(th, d)) /\ (d < Depth(th) => At(th, d).at \in Calling)

\* The mutex is held in the critical sections, and nowhere else.
Locks(th) == Depth(th) > 0 /\ At(th, Depth(th)).at = "locked"
Excludes == \A th \in Threads : mutex = th <=> Locks(th)

\* Who is inside a call has a handle, so that the value is alive.
Kept ==
    /\ \A th \in Threads : Depth(th) > 0 => holds[th]
    /\ ~alive => \A th \in Threads : ~holds[th]

Settled == ready => callbacks = <<>> /\ value \in Values

\* A thread that is about to write the value.
Setting(th) ==
    Depth(th) > 0 /\ At(th, Depth(th)).op = "set" /\ At(th, Depth(th)).at \in {"lock", "locked"}

WrittenOnce ==
    SetOnce =>
        /\ ready => sets = 1
        /\ \A th \in Threads : Setting(th) => ~ready /\ sets = 1
        /\ \A th, u \in Threads : Setting(th) /\ Setting(u) => th = u

\* f is the call that registers or executes cb, or will execute it.
Carries(f, cb) ==
    \/ f.op \in {"notify", "execute"} /\ f.arg = cb
    \/ \E j \in 1..Len(f.calls) : f.calls[j] = cb

Queued(cb) == \E j \in 1..Len(callbacks) : callbacks[j] = cb

Distinct(q) == \A j, k \in 1..Len(q) : q[j] = q[k] => j = k

OnePlace ==
    /\ Distinct(callbacks)
    /\ \A th \in Threads : \A d \in 1..Depth(th) : Distinct(At(th, d).calls)
    /\ \A th, u \in Threads : \A d \in 1..Depth(th), e \in 1..Depth(u) : \A cb \in Callbacks :
         Carries(At(th, d), cb) /\ Carries(At(u, e), cb) => th = u /\ d = e
    /\ \A cb \in Callbacks : Queued(cb) => fate[cb] = "registered"
    /\ \A th \in Threads : \A d \in 1..Depth(th) : \A cb \in Callbacks :
         Carries(At(th, d), cb) => fate[cb] = "registered" /\ ~Queued(cb)
    /\ \A cb \in Callbacks : fate[cb] = "registered" =>
         Queued(cb) \/ \E th \in Threads : \E d \in 1..Depth(th) : Carries(At(th, d), cb)

\* a is ahead of b in q.
Ahead(a, b, q) == \E j, k \in 1..Len(q) : j < k /\ q[j] = a /\ q[k] = b

\* b will not be executed before a is: a is done, or b never will be, or a is ahead of
\* b, or a is being executed and b is next in the dispatch that a runs in.
Precedes(a, b) ==
    \/ fate[a] = "executed"
    \/ fate[b] = "dropped"
    \/ Ahead(a, b, callbacks)
    \/ \E th \in Threads : \E d \in 1..Depth(th) : Ahead(a, b, At(th, d).calls)
    \/ \E th \in Threads : \E d, e \in 1..Depth(th) :
         /\ e = d + 1 /\ At(th, e).op = "execute" /\ At(th, e).arg = a
         /\ \E k \in 1..Len(At(th, d).calls) : At(th, d).calls[k] = b

InOrder == \A i, j \in 1..Len(order) : i < j => Precedes(order[i], order[j])

\* Until the value is set every callback that was queued still is.
StillQueued == ~ready /\ alive => \A i \in 1..Len(order) : Queued(order[i])

QInv == InOrder /\ StillQueued

\* A frame that executes a callback or has some to execute, and one that a step
\* leaves where it is.
Busy(f) == f.op = "execute" \/ f.calls # <<>>
Stays(u, d) == d \in 1..Depth(u)' /\ At(u, d)' = At(u, d)

\* What Set() does to the callbacks: the queue is in a frame, the others stay.
QueueTaken(th) ==
    /\ \E d \in 1..Depth(th)' : At(th, d)'.calls = callbacks
    /\ \A u \in Threads : \A d \in 1..Depth(u) : Busy(At(u, d)) => Stays(u, d)

\* What a dispatch does: the first callback is in a frame above the rest.
FirstTaken(th) ==
    /\ \E d, e \in 1..Depth(th)' :
         /\ e = d + 1 /\ At(th, e)'.op = "execute" /\ At(th, e)'.arg = Head(Top(th).calls)
         /\ At(th, d)'.calls = Tail(Top(th).calls)
    /\ \A u \in Threads : \A d \in 1..Depth(u) : Stays(u, d) \/ (u = th /\ d = Depth(th))

SInv == /\ TypeOK /\ Shaped /\ Excludes /\ Kept /\ Settled /\ WrittenOnce
        /\ OnePlace /\ ExecutedOnce

-----------------------------------------------------------------------------
(* Stacks.                                                                 *)

\* The other threads stay in their calls.
Others(th) == \A u \in Threads : u # th => stack'[u] = stack[u]

\* th makes a call, changes its innermost one, or returns from it.
Pushes(th, f) ==
    /\ Depth(th)' = Depth(th) + 1
    /\ \A d \in 1..(Depth(th) + 1) : At(th, d)' = IF d <= Depth(th) THEN At(th, d) ELSE f
    /\ Others(th)

Changes(th, f) ==
    /\ Depth(th)' = Depth(th) /\ Depth(th) > 0
    /\ \A d \in 1..Depth(th) : At(th, d)' = IF d < Depth(th) THEN At(th, d) ELSE f
    /\ Others(th)

Pops(th) ==
    /\ Depth(th)' = Depth(th) - 1 /\ Depth(th) > 0
    /\ \A d \in 1..(Depth(th) - 1) : At(th, d)' = At(th, d)
    /\ Others(th)

LEMMA OnTop ==
  ASSUME NEW S, NEW s \in Seq(S), NEW f \in S
  PROVE  /\ <<f>> \o s \in Seq(S) /\ Len(<<f>> \o s) = Len(s) + 1
         /\ (<<f>> \o s)[1] = f
         /\ \A i \in 1..Len(s) : (<<f>> \o s)[i + 1] = s[i]
<1>1. <<f>> \in Seq(S) /\ Len(<<f>>) = 1 /\ <<f>>[1] = f
  OBVIOUS
<1>2. /\ <<f>> \o s \in Seq(S) /\ Len(<<f>> \o s) = Len(<<f>>) + Len(s)
      /\ \A i \in 1..(Len(<<f>>) + Len(s)) :
           (<<f>> \o s)[i] = IF i <= Len(<<f>>) THEN <<f>>[i] ELSE s[i - Len(<<f>>)]
  BY <1>1, ConcatProperties
<1>3. Len(s) \in Nat
  BY LenProperties
<1>. QED  BY <1>1, <1>2, <1>3

LEMMA Below ==
  ASSUME NEW S, NEW s \in Seq(S), s # <<>>
  PROVE  /\ Head(s) \in S /\ Head(s) = s[1] /\ Len(s) >= 1 /\ Len(s) \in Nat
         /\ Tail(s) \in Seq(S) /\ Len(Tail(s)) = Len(s) - 1
         /\ \A i \in 1..(Len(s) - 1) : Tail(s)[i] = s[i + 1]
BY HeadTailProperties, EmptySeq, LenProperties

LEMMA Stacks ==
  ASSUME TypeOK, NEW th \in Threads
  PROVE  /\ stack[th] \in Seq(Frames) /\ Depth(th) \in Nat
         /\ Depth(th) = 0 <=> stack[th] = <<>>
         /\ stack[th] # <<>> => Top(th) = At(th, Depth(th)) /\ Depth(th) >= 1
         /\ \A d \in 1..Depth(th) : At(th, d) \in Frames
<1>1. stack[th] \in Seq(Frames)
  BY DEF TypeOK
<1>2. Depth(th) \in Nat /\ (Depth(th) = 0 <=> stack[th] = <<>>)
  BY <1>1, EmptySeq, LenProperties DEF Depth
<1>3. stack[th] # <<>> => Top(th) = At(th, Depth(th)) /\ Depth(th) >= 1
  BY <1>1, <1>2, Below DEF Top, At, Depth
<1>4. ASSUME NEW d \in 1..Depth(th) PROVE At(th, d) \in Frames
  <2>1. Len(stack[th]) + 1 - d \in 1..Len(stack[th])
    BY <1>2 DEF Depth
  <2>. QED  BY <1>1, <2>1, ElementOfSeq DEF At
<1>. QED  BY <1>1, <1>2, <1>3, <1>4

LEMMA PushPushes ==
  ASSUME TypeOK, NEW th \in Threads, NEW f \in Frames, Push(th, f)
  PROVE  Pushes(th, f) /\ stack' \in [Threads -> Seq(Frames)]
<1>1. /\ stack' \in [Threads -> Seq(Frames)] /\ stack'[th] = <<f>> \o stack[th] /\ Others(th)
  <2>1. <<f>> \o stack[th] \in Seq(Frames)
    BY Stacks, OnTop
  <2>. QED  BY <2>1 DEF Push, Others, TypeOK
<1>2. ASSUME NEW d \in 1..(Depth(th) + 1)
      PROVE  At(th, d)' = IF d <= Depth(th) THEN At(th, d) ELSE f
  <2>1. CASE d <= Depth(th)
    <3>1. Len(stack[th]) + 1 - d \in 1..Len(stack[th]) /\ Depth(th) \in Nat
      BY <2>1, Stacks DEF Depth
    <3>. QED  BY <1>1, <2>1, <3>1, Stacks, OnTop DEF At, Depth
  <2>2. CASE ~(d <= Depth(th))
    <3>1. d = Len(stack[th]) + 1 /\ Len(stack[th]) \in Nat
      BY <2>2, Stacks DEF Depth
    <3>. QED  BY <1>1, <2>2, <3>1, Stacks, OnTop DEF At, Depth
  <2>. QED  BY <2>1, <2>2
<1>3. Depth(th)' = Depth(th) + 1
  BY <1>1, Stacks, OnTop DEF Depth
<1>. QED  BY <1>1, <1>2, <1>3 DEF Pushes

LEMMA PopPops ==
  ASSUME TypeOK, NEW th \in Threads, stack[th] # <<>>, Pop(th)
  PROVE  Pops(th) /\ stack' \in [Threads -> Seq(Frames)]
<1>1. /\ stack' \in [Threads -> Seq(Frames)] /\ stack'[th] = Tail(stack[th]) /\ Others(th)
  <2>1. Tail(stack[th]) \in Seq(Frames)
    BY Stacks, Below
  <2>. QED  BY <2>1 DEF Pop, Others, TypeOK
<1>2. Depth(th)' = Depth(th) - 1 /\ Depth(th) > 0 /\ Depth(th) \in Nat
  BY <1>1, Stacks, Below DEF Depth
<1>3. ASSUME NEW d \in 1..(Depth(th) - 1) PROVE At(th, d)' = At(th, d)
  <2>1. /\ Len(stack[th]) - d \in 1..(Len(stack[th]) - 1)
        /\ Len(stack[th]) - 1 + 1 - d = Len(stack[th]) - d
        /\ Len(stack[th]) - d + 1 = Len(stack[th]) + 1 - d
    BY <1>2 DEF Depth
  <2>2. Tail(stack[th])[Len(stack[th]) - d] = stack[th][Len(stack[th]) - d + 1]
    BY <2>1, Stacks, Below
  <2>. QED  BY <1>1, <1>2, <2>1, <2>2 DEF At, Depth
<1>. QED  BY <1>1, <1>2, <1>3 DEF Pops

LEMMA ExchangeChanges ==
  ASSUME TypeOK, NEW th \in Threads, NEW f \in Frames, stack[th] # <<>>,
         stack' \in [Threads -> Seq(Frames)], stack'[th] = <<f>> \o Tail(stack[th])
  PROVE  /\ Depth(th)' = Depth(th) /\ Depth(th) > 0
         /\ \A d \in 1..Depth(th) : At(th, d)' = IF d < Depth(th) THEN At(th, d) ELSE f
<1>1. /\ Tail(stack[th]) \in Seq(Frames) /\ Len(Tail(stack[th])) = Len(stack[th]) - 1
      /\ Len(stack[th]) \in Nat /\ Len(stack[th]) >= 1
  BY Stacks, Below
<1>2. Depth(th)' = Depth(th) /\ Depth(th) > 0 /\ Depth(th) \in Nat
  BY <1>1, OnTop DEF Depth
<1>3. ASSUME NEW d \in 1..Depth(th)
      PROVE  At(th, d)' = IF d < Depth(th) THEN At(th, d) ELSE f
  <2>1. At(th, d)' = stack'[th][Len(stack[th]) + 1 - d]
    BY <1>2 DEF At, Depth
  <2>2. CASE d < Depth(th)
    <3>1. /\ Len(stack[th]) - d \in 1..(Len(stack[th]) - 1)
          /\ Len(stack[th]) - d + 1 = Len(stack[th]) + 1 - d
      BY <1>1, <2>2 DEF Depth
    <3>2. stack'[th][Len(stack[th]) - d + 1] = Tail(stack[th])[Len(stack[th]) - d]
      BY <1>1, <3>1, OnTop, SMTT(30)
    <3>3. Tail(stack[th])[Len(stack[th]) - d] = stack[th][Len(stack[th]) - d + 1]
      BY <3>1, Stacks, Below
    <3>. QED  BY <2>1, <2>2, <3>1, <3>2, <3>3 DEF At
  <2>3. CASE ~(d < Depth(th))
    <3>1. Len(stack[th]) + 1 - d = 1
      BY <1>1, <2>3 DEF Depth
    <3>. QED  BY <1>1, <2>1, <2>3, <3>1, OnTop
  <2>. QED  BY <2>2, <2>3
<1>. QED  BY <1>2, <1>3

LEMMA ReplaceChanges ==
  ASSUME TypeOK, NEW th \in Threads, NEW f \in Frames, stack[th] # <<>>,
         stack' = [stack EXCEPT ![th] = <<f>> \o Tail(stack[th])]
  PROVE  Changes(th, f) /\ stack' \in [Threads -> Seq(Frames)]
<1>1. <<f>> \o Tail(stack[th]) \in Seq(Frames)
  BY Stacks, Below, OnTop
<1>2. /\ stack' \in [Threads -> Seq(Frames)] /\ stack'[th] = <<f>> \o Tail(stack[th])
      /\ Others(th)
  BY <1>1 DEF Others, TypeOK
<1>. QED  BY <1>2, ExchangeChanges DEF Changes

\* The innermost call.
LEMMA Innermost ==
  ASSUME TypeOK, Shaped, Kept, NEW th \in Threads, NEW op, NEW at, InCall(th, op, at)
  PROVE  /\ stack[th] # <<>> /\ Top(th) = At(th, Depth(th))
         /\ Depth(th) \in Nat /\ Depth(th) >= 1 /\ Depth(th) \in 1..Depth(th)
         /\ Top(th) \in Frames /\ Top(th).op = op /\ Top(th).at = at /\ Fits(Top(th))
         /\ holds[th] /\ alive
<1>1. stack[th] # <<>> /\ Top(th).op = op /\ Top(th).at = at
  BY DEF InCall
<1>2. /\ Top(th) = At(th, Depth(th)) /\ Depth(th) \in Nat /\ Depth(th) >= 1
      /\ Depth(th) \in 1..Depth(th)
  BY <1>1, Stacks
<1>3. Top(th) \in Frames /\ Fits(Top(th))
  BY <1>2, Stacks DEF Shaped
<1>4. holds[th] /\ alive
  <2>1. Depth(th) > 0
    BY <1>2
  <2>2. holds[th]
    BY <2>1 DEF Kept
  <2>3. alive
    BY <2>2, Zenon DEF Kept
  <2>. QED  BY <2>2, <2>3
<1>. QED  BY <1>1, <1>2, <1>3, <1>4

LEMMA GotoChanges ==
  ASSUME TypeOK, NEW th \in Threads, stack[th] # <<>>,
         NEW at \in {"lock", "locked", "wait", "read"}, Goto(th, at)
  PROVE  /\ Changes(th, [Top(th) EXCEPT !.at = at]) /\ stack' \in [Threads -> Seq(Frames)]
         /\ [Top(th) EXCEPT !.at = at] = Frame(Top(th).op, at, Top(th).arg, Top(th).calls)
<1>1. Top(th) \in Frames
  BY Stacks, Below DEF Top
<1>2. [Top(th) EXCEPT !.at = at] = Frame(Top(th).op, at, Top(th).arg, Top(th).calls)
  BY <1>1 DEF Frames, Frame
<1>3. [Top(th) EXCEPT !.at = at] \in Frames
  BY <1>1, <1>2 DEF Frames, Frame
<1>4. stack' = [stack EXCEPT ![th] = <<[Top(th) EXCEPT !.at = at]>> \o Tail(stack[th])]
  BY DEF Goto, Top
<1>. QED  BY <1>2, <1>3, <1>4, ReplaceChanges

\* Where the other threads are.
LEMMA OthersStay ==
  ASSUME NEW th \in Threads, Others(th), NEW u \in Threads, u # th
  PROVE  /\ Depth(u)' = Depth(u) /\ \A d \in 1..Depth(u) : At(u, d)' = At(u, d)
         /\ Locks(u)' = Locks(u) /\ Setting(u)' = Setting(u)
BY DEF Others, Depth, At, Locks, Setting

-----------------------------------------------------------------------------
(* The shape of the stacks.                                                *)

\* Where the innermost call is after the step.
LEMMA TopPushed ==
  ASSUME TypeOK, NEW th \in Threads, NEW f, Pushes(th, f)
  PROVE  /\ Locks(th)' <=> f.at = "locked"
         /\ Setting(th)' <=> f.op = "set" /\ f.at \in {"lock", "locked"}
<1>1. Depth(th) \in Nat
  BY Stacks
<1>2. Depth(th)' > 0 /\ At(th, Depth(th))' = f
  BY <1>1 DEF Pushes
<1>. QED  BY <1>2 DEF Locks, Setting

LEMMA TopChanged ==
  ASSUME TypeOK, NEW th \in Threads, NEW f, Changes(th, f)
  PROVE  /\ Locks(th)' <=> f.at = "locked"
         /\ Setting(th)' <=> f.op = "set" /\ f.at \in {"lock", "locked"}
<1>1. Depth(th) \in Nat
  BY Stacks
<1>2. Depth(th)' > 0 /\ At(th, Depth(th))' = f
  BY <1>1 DEF Changes
<1>. QED  BY <1>2 DEF Locks, Setting

LEMMA TopPopped ==
  ASSUME TypeOK, Shaped, NEW th \in Threads, Pops(th)
  PROVE  ~Locks(th)' /\ ~Setting(th)'
<1>1. Depth(th) \in Nat
  BY Stacks
<1>2. CASE Depth(th) = 1
  BY <1>2 DEF Pops, Locks, Setting
<1>3. CASE Depth(th) # 1
  <2>1. /\ Depth(th)' = Depth(th) - 1 /\ Depth(th) - 1 \in 1..(Depth(th) - 1)
        /\ Depth(th) - 1 \in 1..Depth(th)
    BY <1>1, <1>3 DEF Pops
  <2>2. At(th, Depth(th))' = At(th, Depth(th) - 1)
    BY <2>1 DEF Pops
  <2>3. At(th, Depth(th) - 1).at \in Calling
    BY <1>1, <2>1 DEF Shaped
  <2>. QED  BY <2>2, <2>3 DEF Locks, Setting, Calling
<1>. QED  BY <1>2, <1>3

LEMMA ShapedPush ==
  ASSUME TypeOK, Shaped, NEW th \in Threads, NEW f, Pushes(th, f), ready' = ready, Fits(f),
         Depth(th) > 0 => At(th, Depth(th)).at \in Calling
  PROVE  Shaped'
<1>1. Depth(th) \in Nat
  BY Stacks
<1>2. ASSUME NEW u \in Threads, NEW d \in 1..Depth(u)'
      PROVE  Fits(At(u, d))' /\ (d < Depth(u)' => At(u, d)'.at \in Calling)
  <2>1. CASE u # th
    BY <1>2, <2>1, OthersStay DEF Pushes, Shaped, Fits, Kind
  <2>2. CASE u = th
    BY <1>1, <1>2, <2>2 DEF Pushes, Shaped, Fits, Kind
  <2>. QED  BY <2>1, <2>2
<1>. QED  BY <1>2 DEF Shaped

LEMMA ShapedChange ==
  ASSUME TypeOK, Shaped, NEW th \in Threads, NEW f, Changes(th, f), ready' = ready, Fits(f)
  PROVE  Shaped'
<1>1. Depth(th) \in Nat
  BY Stacks
<1>2. ASSUME NEW u \in Threads, NEW d \in 1..Depth(u)'
      PROVE  Fits(At(u, d))' /\ (d < Depth(u)' => At(u, d)'.at \in Calling)
  <2>1. CASE u # th
    BY <1>2, <2>1, OthersStay DEF Changes, Shaped, Fits, Kind
  <2>2. CASE u = th
    BY <1>1, <1>2, <2>2 DEF Changes, Shaped, Fits, Kind
  <2>. QED  BY <2>1, <2>2
<1>. QED  BY <1>2 DEF Shaped

LEMMA ShapedPop ==
  ASSUME TypeOK, Shaped, NEW th \in Threads, Pops(th), ready' = ready
  PROVE  Shaped'
<1>1. Depth(th) \in Nat
  BY Stacks
<1>2. ASSUME NEW u \in Threads, NEW d \in 1..Depth(u)'
      PROVE  Fits(At(u, d))' /\ (d < Depth(u)' => At(u, d)'.at \in Calling)
  <2>1. CASE u # th
    BY <1>2, <2>1, OthersStay DEF Pops, Shaped, Fits, Kind
  <2>2. CASE u = th
    BY <1>1, <1>2, <2>2 DEF Pops, Shaped, Fits, Kind
  <2>. QED  BY <2>1, <2>2
<1>. QED  BY <1>2 DEF Shaped

-----------------------------------------------------------------------------
(* The mutex, the handles and the single Set().                            *)

LEMMA ExcludesStep ==
  ASSUME TypeOK, Excludes, NEW th \in Threads,
         \A u \in Threads : u # th => Locks(u)' = Locks(u),
         \/ mutex' = mutex /\ Locks(th)' = Locks(th)
         \/ mutex = Nobody /\ mutex' = th /\ Locks(th)'
         \/ mutex = th /\ mutex' = Nobody /\ ~Locks(th)'
  PROVE  Excludes'
BY SharedValueAssumption DEF Excludes

LEMMA KeptStep ==
  ASSUME TypeOK, Kept, NEW th \in Threads, holds[th], UNCHANGED <<alive, holds>>,
         \A u \in Threads : u # th => Depth(u)' = Depth(u)
  PROVE  Kept'
BY DEF Kept

LEMMA WrittenOnceStep ==
  ASSUME WrittenOnce, UNCHANGED <<program, sets, ready>>,
         \A u \in Threads : Setting(u)' => Setting(u)
  PROVE  WrittenOnce'
BY DEF WrittenOnce, SetOnce

LEMMA SettledStep ==
  ASSUME Settled, UNCHANGED <<ready, value, callbacks>> PROVE Settled'
BY DEF Settled

LEMMA ExecutedOnceStep ==
  ASSUME ExecutedOnce, UNCHANGED <<ready, alive, fate>> PROVE ExecutedOnce'
BY DEF ExecutedOnce

-----------------------------------------------------------------------------
(* Where the callbacks are.                                                *)

\* f carries what g carries.
Like(f, g) == f.calls = g.calls /\ \A cb \in Callbacks : Carries(f, cb) <=> Carries(g, cb)

\* A step that moves no callback: the frames that come carry none, nor those that go.
LEMMA SamePlaces ==
  ASSUME OnePlace, UNCHANGED <<callbacks, fate>>,
         \A u \in Threads : \A d \in 1..Depth(u)' :
            \/ d \in 1..Depth(u) /\ Like(At(u, d)', At(u, d))
            \/ At(u, d)'.calls = <<>> /\ \A cb \in Callbacks : ~Carries(At(u, d)', cb),
         \A u \in Threads : \A d \in 1..Depth(u) : \A cb \in Callbacks :
            Carries(At(u, d), cb) => d \in 1..Depth(u)' /\ Carries(At(u, d)', cb)
  PROVE  OnePlace'
<1>1. ASSUME NEW u \in Threads, NEW d \in 1..Depth(u)', NEW cb \in Callbacks,
             Carries(At(u, d)', cb)
      PROVE  d \in 1..Depth(u) /\ Carries(At(u, d), cb)
  BY <1>1 DEF Like
<1>2. \A u \in Threads : \A d \in 1..Depth(u)' : Distinct(At(u, d)'.calls)
  BY EmptySeq DEF OnePlace, Like, Distinct
<1>3. \A u, v \in Threads : \A d \in 1..Depth(u)', e \in 1..Depth(v)' : \A cb \in Callbacks :
        Carries(At(u, d)', cb) /\ Carries(At(v, e)', cb) => u = v /\ d = e
  BY <1>1 DEF OnePlace
<1>4. \A u \in Threads : \A d \in 1..Depth(u)' : \A cb \in Callbacks :
        Carries(At(u, d)', cb) => fate[cb] = "registered" /\ ~Queued(cb)
  BY <1>1 DEF OnePlace
<1>5. \A cb \in Callbacks : fate[cb] = "registered" =>
        Queued(cb) \/ \E u \in Threads : \E d \in 1..Depth(u)' : Carries(At(u, d)', cb)
  BY DEF OnePlace
<1>. QED  BY <1>2, <1>3, <1>4, <1>5 DEF OnePlace, Queued, Distinct, Carries

LEMMA CarriesNothing ==
  ASSUME NEW f, f.op \in {"set", "get"}, f.calls = <<>>, NEW cb
  PROVE  ~Carries(f, cb)
BY EmptySeq DEF Carries

LEMMA PlacesPush ==
  ASSUME TypeOK, OnePlace, UNCHANGED <<callbacks, fate>>, NEW th \in Threads, NEW f,
         Pushes(th, f), f.op \in {"set", "get"}, f.calls = <<>>
  PROVE  OnePlace'
<1>1. Depth(th) \in Nat
  BY Stacks
<1>2. \A u \in Threads : \A d \in 1..Depth(u)' :
         \/ d \in 1..Depth(u) /\ Like(At(u, d)', At(u, d))
         \/ At(u, d)'.calls = <<>> /\ \A cb \in Callbacks : ~Carries(At(u, d)', cb)
  BY <1>1, OthersStay, CarriesNothing DEF Pushes, Like
<1>3. \A u \in Threads : \A d \in 1..Depth(u) : \A cb \in Callbacks :
         Carries(At(u, d), cb) => d \in 1..Depth(u)' /\ Carries(At(u, d)', cb)
  BY <1>1, OthersStay DEF Pushes
<1>. QED  BY <1>2, <1>3, SamePlaces

LEMMA PlacesChange ==
  ASSUME TypeOK, OnePlace, UNCHANGED <<callbacks, fate>>, NEW th \in Threads, NEW f,
         Changes(th, f), Like(f, At(th, Depth(th)))
  PROVE  OnePlace'
<1>1. Depth(th) \in Nat
  BY Stacks
<1>2. \A u \in Threads : \A d \in 1..Depth(u) :
         d \in 1..Depth(u)' /\ Like(At(u, d)', At(u, d))
  BY <1>1, OthersStay DEF Changes, Like
<1>3. \A u \in Threads : Depth(u)' = Depth(u)
  BY OthersStay DEF Changes
<1>. QED  BY <1>2, <1>3, SamePlaces DEF Like

LEMMA PlacesPop ==
  ASSUME TypeOK, OnePlace, UNCHANGED <<callbacks, fate>>, NEW th \in Threads,
         Pops(th), \A cb \in Callbacks : ~Carries(At(th, Depth(th)), cb)
  PROVE  OnePlace'
<1>1. Depth(th) \in Nat
  BY Stacks
<1>2. \A u \in Threads : \A d \in 1..Depth(u)' :
         d \in 1..Depth(u) /\ Like(At(u, d)', At(u, d))
  BY <1>1, OthersStay DEF Pops, Like
<1>3. \A u \in Threads : \A d \in 1..Depth(u) : \A cb \in Callbacks :
         Carries(At(u, d), cb) => d \in 1..Depth(u)' /\ Carries(At(u, d)', cb)
  BY <1>1, OthersStay DEF Pops
<1>. QED  BY <1>2, <1>3, SamePlaces

-----------------------------------------------------------------------------
(* The calls.                                                              *)

LEMMA CallCommon ==
  ASSUME SInv, NEW th \in Threads, MayCall(th), NEW f \in Frames, Push(th, f), Kind(f),
         f.at = "lock", UNCHANGED <<program, mutex, ready, value, callbacks, alive, holds>>
  PROVE  /\ Pushes(th, f) /\ stack' \in [Threads -> Seq(Frames)]
         /\ Shaped' /\ Excludes' /\ Kept' /\ Settled'
         /\ holds[th] /\ \A u \in Threads : Setting(u)' => Setting(u) \/ (u = th /\ f.op = "set")
<1>1. TypeOK /\ Shaped /\ Excludes /\ Kept /\ Settled
  BY DEF SInv
<1>2. Pushes(th, f) /\ stack' \in [Threads -> Seq(Frames)]
  BY <1>1, PushPushes
<1>3. Depth(th) > 0 => At(th, Depth(th)).at \in Calling
  <2>1. CASE stack[th] = <<>>
    BY <1>1, <2>1, Stacks
  <2>2. CASE InCall(th, "execute", "body")
    BY <1>1, <2>2, Innermost DEF Calling
  <2>. QED  BY <2>1, <2>2 DEF MayCall
<1>4. Shaped'
  BY <1>1, <1>2, <1>3, ShapedPush DEF Fits
<1>5. Locks(th)' = FALSE /\ Locks(th) = FALSE
  BY <1>1, <1>2, <1>3, TopPushed DEF Locks, Calling
<1>6. \A u \in Threads : u # th =>
         Depth(u)' = Depth(u) /\ Locks(u)' = Locks(u) /\ Setting(u)' = Setting(u)
  BY <1>2, OthersStay DEF Pushes
<1>7. Excludes'
  BY <1>1, <1>5, <1>6, ExcludesStep
<1>8. holds[th]
  BY DEF MayCall
<1>9. Kept' /\ Settled'
  BY <1>1, <1>6, <1>8, KeptStep, SettledStep
<1>10. \A u \in Threads : Setting(u)' => Setting(u) \/ (u = th /\ f.op = "set")
  BY <1>1, <1>2, <1>6, TopPushed
<1>. QED  BY <1>2, <1>4, <1>7, <1>8, <1>9, <1>10

LEMMA CallSetStep ==
  ASSUME SInv, NEW th \in Threads, NEW v \in Values, CallSet(th, v)
  PROVE  SInv'
<1> DEFINE f == Frame("set", "lock", v, <<>>)
<1>1. /\ MayCall(th) /\ Push(th, f) /\ sets < program.sets /\ sets' = sets + 1
      /\ UNCHANGED <<program, mutex, ready, value, callbacks, alive, holds, gets, fate, answer, order>>
  BY DEF CallSet, svVars
<1>2. f \in Frames /\ Kind(f) /\ f.at = "lock" /\ f.op = "set" /\ f.calls = <<>>
  BY DEF Frame, Frames, Kind
<1>3. /\ Pushes(th, f) /\ stack' \in [Threads -> Seq(Frames)]
      /\ Shaped' /\ Excludes' /\ Kept' /\ Settled'
      /\ \A u \in Threads : Setting(u)' => Setting(u) \/ u = th
  BY <1>1, <1>2, CallCommon
<1>4. TypeOK'
  <2>1. program.sets \in Nat
    BY SharedValueAssumption DEF SInv, TypeOK
  <2>2. sets \in 0..program.sets /\ sets' \in 0..program.sets
    <3>1. sets \in 0..program.sets
      BY DEF SInv, TypeOK
    <3>. QED  BY <1>1, <2>1, <3>1
  <2>. QED  BY <1>1, <1>3, <2>2 DEF SInv, TypeOK
<1>5. WrittenOnce'
  <2>1. SetOnce => sets = 0
    <3>1. sets \in 0..program.sets
      BY DEF SInv, TypeOK
    <3>. QED  BY <1>1, <3>1 DEF SetOnce
  <2>. QED  BY <1>1, <1>3, <2>1 DEF SInv, WrittenOnce, SetOnce
<1>6. OnePlace'
  BY <1>1, <1>2, <1>3, PlacesPush DEF SInv
<1>7. ExecutedOnce'
  BY <1>1, ExecutedOnceStep DEF SInv
<1>. QED  BY <1>3, <1>4, <1>5, <1>6, <1>7 DEF SInv

LEMMA CallGetStep ==
  ASSUME SInv, NEW th \in Threads, CallGet(th)
  PROVE  SInv'
<1> DEFINE f == Frame("get", "lock", Default, <<>>)
<1>1. /\ MayCall(th) /\ Push(th, f)
      /\ gets[th] < program.gets /\ gets' = [gets EXCEPT ![th] = gets[th] + 1]
      /\ UNCHANGED <<program, mutex, ready, value, callbacks, alive, holds, sets, fate, answer, order>>
  BY DEF CallGet, svVars
<1>2. f \in Frames /\ Kind(f) /\ f.at = "lock" /\ f.op = "get" /\ f.calls = <<>>
  BY DEF Frame, Frames, Kind
<1>3. /\ Pushes(th, f) /\ stack' \in [Threads -> Seq(Frames)]
      /\ Shaped' /\ Excludes' /\ Kept' /\ Settled'
      /\ \A u \in Threads : Setting(u)' => Setting(u)
  BY <1>1, <1>2, CallCommon
<1>4. TypeOK'
  <2>1. program.gets \in Nat
    BY SharedValueAssumption DEF SInv, TypeOK
  <2>2. gets[th] + 1 \in 0..program.gets
    <3>1. gets[th] \in 0..program.gets
      BY DEF SInv, TypeOK
    <3>. QED  BY <1>1, <2>1, <3>1
  <2>3. gets' \in [Threads -> 0..program.gets]
    BY <1>1, <2>2 DEF SInv, TypeOK
  <2>. QED  BY <1>1, <1>3, <2>3 DEF SInv, TypeOK
<1>5. WrittenOnce'
  BY <1>1, <1>3, WrittenOnceStep DEF SInv
<1>6. OnePlace'
  BY <1>1, <1>2, <1>3, PlacesPush DEF SInv
<1>7. ExecutedOnce'
  BY <1>1, ExecutedOnceStep DEF SInv
<1>. QED  BY <1>3, <1>4, <1>5, <1>6, <1>7 DEF SInv

LEMMA CallNotifyStep ==
  ASSUME SInv, NEW th \in Threads, NEW cb \in Callbacks, CallNotify(th, cb)
  PROVE  SInv'
<1> DEFINE f == Frame("notify", "lock", cb, <<>>)
<1>1. /\ MayCall(th) /\ Push(th, f)
      /\ fate[cb] = "new" /\ fate' = [fate EXCEPT ![cb] = "registered"]
      /\ UNCHANGED <<program, mutex, ready, value, callbacks, alive, holds, sets, gets, answer, order>>
  BY DEF CallNotify, svVars, userVars
<1>2. f \in Frames /\ Kind(f) /\ f.at = "lock" /\ f.op = "notify" /\ f.calls = <<>> /\ f.arg = cb
  BY DEF Frame, Frames, Kind
<1>3. /\ Pushes(th, f) /\ stack' \in [Threads -> Seq(Frames)]
      /\ Shaped' /\ Excludes' /\ Kept' /\ Settled'
      /\ \A u \in Threads : Setting(u)' => Setting(u)
  BY <1>1, <1>2, CallCommon
<1>4. TypeOK'
  BY <1>1, <1>3 DEF SInv, TypeOK
<1>5. WrittenOnce'
  BY <1>1, <1>3, WrittenOnceStep DEF SInv
<1>6. OnePlace'
  <2>1. Depth(th) \in Nat /\ OnePlace
    BY Stacks DEF SInv
  <2>2. \A c \in Callbacks : Carries(f, c) <=> c = cb
    BY <1>2, EmptySeq DEF Carries
  <2>3. /\ fate'[cb] = "registered" /\ \A c \in Callbacks : c # cb => fate'[c] = fate[c]
        /\ ~Queued(cb) /\ \A c \in Callbacks : Queued(c)' = Queued(c)
        /\ \A u \in Threads : \A d \in 1..Depth(u) : ~Carries(At(u, d), cb)
    BY <1>1, <2>1 DEF SInv, TypeOK, OnePlace, Queued
  <2>4. \A u \in Threads : \A d \in 1..Depth(u)' :
          \/ d \in 1..Depth(u) /\ At(u, d)' = At(u, d)
          \/ u = th /\ d = Depth(th) + 1 /\ At(u, d)' = f
    BY <1>3, <2>1, OthersStay DEF Pushes
  <2>5. \A u \in Threads : \A d \in 1..Depth(u) : d \in 1..Depth(u)' /\ At(u, d)' = At(u, d)
    BY <1>3, <2>1, OthersStay DEF Pushes
  <2>6. \E n \in 1..Depth(th)' : At(th, n)' = f
    BY <1>3, <2>1 DEF Pushes
  <2>7. \A u \in Threads : \A d \in 1..Depth(u)' : Distinct(At(u, d)'.calls)
    BY <1>2, <2>1, <2>4, EmptySeq DEF OnePlace, Distinct
  <2>8. \A u, v \in Threads : \A d \in 1..Depth(u)', e \in 1..Depth(v)' : \A c \in Callbacks :
          Carries(At(u, d)', c) /\ Carries(At(v, e)', c) => u = v /\ d = e
    BY <2>1, <2>2, <2>3, <2>4 DEF OnePlace
  <2>9. \A u \in Threads : \A d \in 1..Depth(u)' : \A c \in Callbacks :
          Carries(At(u, d)', c) => fate'[c] = "registered" /\ ~Queued(c)
    BY <2>1, <2>2, <2>3, <2>4 DEF OnePlace
  <2>10. \A c \in Callbacks : fate'[c] = "registered" =>
          Queued(c) \/ \E u \in Threads : \E d \in 1..Depth(u)' : Carries(At(u, d)', c)
    <3>1. ASSUME NEW c \in Callbacks, c # cb, fate'[c] = "registered"
          PROVE  Queued(c) \/ \E u \in Threads : \E d \in 1..Depth(u)' : Carries(At(u, d)', c)
      BY <2>1, <2>3, <2>5, <3>1 DEF OnePlace
    <3>2. \E n \in 1..Depth(th)' : Carries(At(th, n)', cb)
      BY <2>2, <2>6
    <3>. QED  BY <3>1, <3>2
  <2>11. Distinct(callbacks)' /\ \A c \in Callbacks : Queued(c) => fate'[c] = "registered"
    BY <1>1, <2>1, <2>3 DEF OnePlace, Distinct
  <2>12. \A c \in Callbacks : Queued(c)' <=> Queued(c)
    BY <1>1 DEF Queued
  <2>13. /\ \A u \in Threads : \A d \in 1..Depth(u)' : \A c \in Callbacks :
              Carries(At(u, d)', c) => fate'[c] = "registered" /\ ~Queued(c)'
         /\ \A c \in Callbacks : fate'[c] = "registered" =>
              Queued(c)' \/ \E u \in Threads : \E d \in 1..Depth(u)' : Carries(At(u, d)', c)
         /\ Distinct(callbacks)' /\ \A c \in Callbacks : Queued(c)' => fate'[c] = "registered"
    BY <2>9, <2>10, <2>11, <2>12
  <2>. QED  BY <2>7, <2>8, <2>13 DEF OnePlace, Distinct, Carries
<1>7. ExecutedOnce'
  BY <1>1 DEF SInv, TypeOK, ExecutedOnce
<1>. QED  BY <1>3, <1>4, <1>5, <1>6, <1>7 DEF SInv

-----------------------------------------------------------------------------
(* Steps of a call that stay in it, or return without a callback.          *)

LEMMA GotoCommon ==
  ASSUME SInv, NEW th \in Threads, NEW op \in {"set", "get", "notify"},
         NEW old \in {"lock", "locked", "wait", "read"}, InCall(th, op, old),
         NEW at \in {"lock", "locked", "wait", "read"}, Goto(th, at),
         UNCHANGED <<program, ready, value, callbacks, alive, holds, sets, fate>>,
         at \in {"wait", "read"} => op = "get",
         at = "wait" => ~ready, at = "read" => ready
  PROVE  /\ stack' \in [Threads -> Seq(Frames)]
         /\ Shaped' /\ Kept' /\ Settled' /\ WrittenOnce' /\ OnePlace' /\ ExecutedOnce'
         /\ \A u \in Threads : u # th => Locks(u)' = Locks(u)
         /\ Locks(th)' <=> at = "locked"
         /\ Locks(th) <=> old = "locked"
<1> DEFINE f == [Top(th) EXCEPT !.at = at]
<1>1. TypeOK /\ Shaped /\ Kept /\ Settled /\ WrittenOnce /\ OnePlace /\ ExecutedOnce
  BY DEF SInv
<1>2. /\ stack[th] # <<>> /\ Top(th) = At(th, Depth(th)) /\ Depth(th) > 0
      /\ Top(th) \in Frames /\ Top(th).op = op /\ Top(th).at = old /\ Fits(Top(th)) /\ holds[th]
  BY <1>1, Innermost
<1>3. /\ Changes(th, f) /\ stack' \in [Threads -> Seq(Frames)]
      /\ f = Frame(Top(th).op, at, Top(th).arg, Top(th).calls)
  BY <1>1, <1>2, GotoChanges
<1>4. f.op = op /\ f.at = at /\ f.arg = Top(th).arg /\ f.calls = Top(th).calls
  BY <1>2, <1>3 DEF Frame
<1>5. Fits(f) /\ Like(f, Top(th))
  BY <1>2, <1>4 DEF Fits, Kind, Like, Carries
<1>6. Shaped' /\ OnePlace'
  BY <1>1, <1>2, <1>3, <1>5, ShapedChange, PlacesChange
<1>7. \A u \in Threads : u # th =>
         Depth(u)' = Depth(u) /\ Locks(u)' = Locks(u) /\ Setting(u)' = Setting(u)
  BY <1>3, OthersStay DEF Changes
<1>8. /\ Locks(th)' <=> at = "locked"
      /\ Locks(th) <=> old = "locked"
      /\ Setting(th)' => Setting(th)
  <2>1. /\ Locks(th)' <=> f.at = "locked"
        /\ Setting(th)' <=> f.op = "set" /\ f.at \in {"lock", "locked"}
    BY <1>1, <1>3, TopChanged
  <2>2. /\ Locks(th) <=> old = "locked"
        /\ Setting(th) <=> op = "set" /\ old \in {"lock", "locked"}
    BY <1>2 DEF Locks, Setting
  <2>3. op = "set" => old \in {"lock", "locked"}
    BY <1>2 DEF Fits, Kind
  <2>. QED  BY <1>4, <2>1, <2>2, <2>3
<1>9. Kept' /\ Settled' /\ WrittenOnce' /\ ExecutedOnce'
  BY <1>1, <1>2, <1>7, <1>8, KeptStep, SettledStep, WrittenOnceStep, ExecutedOnceStep
<1>. QED  BY <1>3, <1>6, <1>7, <1>8, <1>9

LEMMA LockStep ==
  ASSUME SInv, NEW th \in Threads, Lock(th)
  PROVE  SInv'
<1>1. /\ mutex = Nobody /\ mutex' = th /\ Goto(th, "locked")
      /\ UNCHANGED <<program, ready, value, callbacks, alive, holds, sets, gets, fate, answer, order>>
  BY DEF Lock, userVars
<1>2. PICK op \in {"set", "get", "notify"} : InCall(th, op, "lock")
  BY DEF Lock
<1>3. /\ stack' \in [Threads -> Seq(Frames)]
      /\ Shaped' /\ Kept' /\ Settled' /\ WrittenOnce' /\ OnePlace' /\ ExecutedOnce'
      /\ \A u \in Threads : u # th => Locks(u)' = Locks(u)
      /\ Locks(th)'
  BY <1>1, <1>2, GotoCommon
<1>4. TypeOK' /\ Excludes'
  <2>1. TypeOK'
    BY <1>1, <1>3 DEF SInv, TypeOK
  <2>2. Excludes'
    BY <1>1, <1>3, ExcludesStep DEF SInv
  <2>. QED  BY <2>1, <2>2
<1>. QED  BY <1>3, <1>4 DEF SInv

LEMMA GetStep ==
  ASSUME SInv, NEW th \in Threads, Get(th)
  PROVE  SInv'
<1>1. /\ InCall(th, "get", "locked") /\ Goto(th, IF ~ready THEN "wait" ELSE "read")
      /\ mutex' = Nobody
      /\ UNCHANGED <<program, ready, value, callbacks, alive, holds, sets, gets, fate, answer, order>>
  BY DEF Get, MustWait, userVars
<1>2. /\ stack' \in [Threads -> Seq(Frames)]
      /\ Shaped' /\ Kept' /\ Settled' /\ WrittenOnce' /\ OnePlace' /\ ExecutedOnce'
      /\ \A u \in Threads : u # th => Locks(u)' = Locks(u)
      /\ ~Locks(th)' /\ Locks(th)
  <2>1. CASE ready
    BY <1>1, <2>1, GotoCommon
  <2>2. CASE ~ready
    BY <1>1, <2>2, GotoCommon
  <2>. QED  BY <2>1, <2>2
<1>3. mutex = th
  BY <1>2 DEF SInv, Excludes
<1>4. TypeOK'
  BY <1>1, <1>2 DEF SInv, TypeOK
<1>5. Excludes'
  BY <1>1, <1>2, <1>3, ExcludesStep DEF SInv
<1>. QED  BY <1>2, <1>4, <1>5 DEF SInv

LEMMA SpuriousWakeupStep ==
  ASSUME SInv, NEW th \in Threads, SpuriousWakeup(th)
  PROVE  SInv'
<1>1. /\ InCall(th, "get", "wait") /\ Goto(th, "lock")
      /\ UNCHANGED <<program, mutex, ready, value, callbacks, alive, holds, sets, gets, fate,
                     answer, order>>
  BY DEF SpuriousWakeup, Waiting, svVars, userVars
<1>2. /\ stack' \in [Threads -> Seq(Frames)]
      /\ Shaped' /\ Kept' /\ Settled' /\ WrittenOnce' /\ OnePlace' /\ ExecutedOnce'
      /\ \A u \in Threads : u # th => Locks(u)' = Locks(u)
      /\ Locks(th)' = FALSE /\ Locks(th) = FALSE
  BY <1>1, GotoCommon DEF Locks
<1>3. TypeOK'
  BY <1>1, <1>2 DEF SInv, TypeOK
<1>4. Excludes'
  BY <1>1, <1>2, ExcludesStep DEF SInv
<1>. QED  BY <1>2, <1>3, <1>4 DEF SInv

\* What a return leaves behind.
LEMMA PopCommon ==
  ASSUME SInv, NEW th \in Threads, NEW op, NEW at, InCall(th, op, at), Pop(th),
         UNCHANGED <<program, ready, alive, holds, sets>>
  PROVE  /\ Pops(th) /\ stack' \in [Threads -> Seq(Frames)]
         /\ Shaped' /\ Kept' /\ WrittenOnce'
         /\ \A u \in Threads : u # th => Locks(u)' = Locks(u)
         /\ Locks(th)' = FALSE
<1>1. TypeOK /\ Shaped /\ Kept /\ WrittenOnce
  BY DEF SInv
<1>2. stack[th] # <<>> /\ holds[th]
  BY <1>1, Innermost
<1>3. Pops(th) /\ stack' \in [Threads -> Seq(Frames)]
  BY <1>1, <1>2, PopPops
<1>4. Shaped' /\ ~Locks(th)' /\ ~Setting(th)'
  BY <1>1, <1>3, ShapedPop, TopPopped
<1>5. \A u \in Threads : u # th =>
         Depth(u)' = Depth(u) /\ Locks(u)' = Locks(u) /\ Setting(u)' = Setting(u)
  BY <1>3, OthersStay DEF Pops
<1>6. Kept' /\ WrittenOnce'
  BY <1>1, <1>2, <1>4, <1>5, KeptStep, WrittenOnceStep
<1>7. Locks(th)' = FALSE
  BY <1>4 DEF Locks
<1>. QED  BY <1>3, <1>4, <1>5, <1>6, <1>7

LEMMA ReadStep ==
  ASSUME SInv, NEW th \in Threads, Read(th)
  PROVE  SInv'
<1>1. /\ InCall(th, "get", "read") /\ Pop(th)
      /\ UNCHANGED <<program, mutex, ready, value, callbacks, alive, holds, sets, gets, fate, order>>
  BY DEF Read, svVars, userVars
<1>2. /\ Pops(th) /\ stack' \in [Threads -> Seq(Frames)]
      /\ Shaped' /\ Kept' /\ WrittenOnce'
      /\ \A u \in Threads : u # th => Locks(u)' = Locks(u)
      /\ Locks(th)' = FALSE
  BY <1>1, PopCommon
<1>3. Top(th) = At(th, Depth(th)) /\ Top(th).op = "get" /\ Top(th).at = "read" /\ Fits(Top(th))
  BY <1>1, Innermost DEF SInv
<1>4. Locks(th) = FALSE
  BY <1>3 DEF Locks
<1>5. TypeOK'
  <2>1. answer' \in [Threads -> Values \cup {Default, Torn}]
    BY DEF Read, SInv, TypeOK
  <2>. QED  BY <1>1, <1>2, <2>1 DEF SInv, TypeOK
<1>6. Excludes'
  BY <1>1, <1>2, <1>4, ExcludesStep DEF SInv
<1>7. OnePlace'
  <2>1. \A cb \in Callbacks : ~Carries(At(th, Depth(th)), cb)
    BY <1>3, CarriesNothing DEF Fits, Kind
  <2>. QED  BY <1>1, <1>2, <2>1, PlacesPop DEF SInv
<1>8. Settled' /\ ExecutedOnce'
  BY <1>1, SettledStep, ExecutedOnceStep DEF SInv
<1>. QED  BY <1>2, <1>5, <1>6, <1>7, <1>8 DEF SInv

-----------------------------------------------------------------------------
(* Steps that move callbacks.                                              *)

\* A callback returns: it was in the frame that is popped, and is nowhere now.
LEMMA ReturnStep ==
  ASSUME SInv, NEW th \in Threads, Return(th)
  PROVE  SInv'
<1> DEFINE cb == Top(th).arg
<1>1. /\ InCall(th, "execute", "body") /\ Pop(th)
      /\ fate' = [fate EXCEPT ![cb] = IF fate[cb] = "registered" THEN "executed"
                                                                  ELSE "executed twice"]
      /\ UNCHANGED <<program, mutex, ready, value, callbacks, alive, holds, sets, gets, answer, order>>
  BY DEF Return, svVars, userVars
<1>2. /\ Pops(th) /\ stack' \in [Threads -> Seq(Frames)]
      /\ Shaped' /\ Kept' /\ WrittenOnce'
      /\ \A u \in Threads : u # th => Locks(u)' = Locks(u)
      /\ Locks(th)' = FALSE
  BY <1>1, PopCommon
<1>3. /\ Top(th) = At(th, Depth(th)) /\ Top(th).op = "execute" /\ Top(th).at = "body"
      /\ Fits(Top(th)) /\ Depth(th) \in Nat /\ Depth(th) \in 1..Depth(th)
  BY <1>1, Innermost DEF SInv
<1>4. Locks(th) = FALSE
  BY <1>3 DEF Locks
<1>5. cb \in Callbacks /\ ready /\ Carries(Top(th), cb)
  BY <1>3 DEF Fits, Kind, Carries
<1>6. fate[cb] = "registered" /\ ~Queued(cb)
  BY <1>3, <1>5 DEF SInv, OnePlace
<1>7. fate'[cb] = "executed" /\ \A c \in Callbacks : c # cb => fate'[c] = fate[c]
  BY <1>1, <1>5, <1>6 DEF SInv, TypeOK
<1>8. TypeOK'
  BY <1>1, <1>2, <1>6 DEF SInv, TypeOK
<1>9. Excludes'
  BY <1>1, <1>2, <1>4, ExcludesStep DEF SInv
<1>10. Settled' /\ ExecutedOnce'
  BY <1>1, <1>5, <1>7, SettledStep DEF SInv, ExecutedOnce
<1>11. OnePlace'
  <2>1. OnePlace
    BY DEF SInv
  <2>2. \A c \in Callbacks : Carries(Top(th), c) => c = cb
    <3>1. Top(th).calls = <<>>
      BY <1>3 DEF Fits, Kind
    <3>. QED  BY <1>3, <3>1, EmptySeq DEF Carries
  <2>3. \A u \in Threads : \A d \in 1..Depth(u)' :
          /\ d \in 1..Depth(u) /\ At(u, d)' = At(u, d)
          /\ u = th => d # Depth(th)
    BY <1>2, <1>3, OthersStay DEF Pops
  <2>4. \A u \in Threads : \A d \in 1..Depth(u) :
          \/ d \in 1..Depth(u)' /\ At(u, d)' = At(u, d)
          \/ u = th /\ d = Depth(th)
    BY <1>2, <1>3, OthersStay DEF Pops
  <2>5. \A u \in Threads : \A d \in 1..Depth(u)' : ~Carries(At(u, d)', cb)
    BY <1>3, <1>5, <2>1, <2>3 DEF OnePlace
  <2>6. \A u \in Threads : \A d \in 1..Depth(u)' : Distinct(At(u, d)'.calls)
    BY <2>1, <2>3 DEF OnePlace
  <2>7. \A u, v \in Threads : \A d \in 1..Depth(u)', e \in 1..Depth(v)' : \A c \in Callbacks :
          Carries(At(u, d)', c) /\ Carries(At(v, e)', c) => u = v /\ d = e
    BY <2>1, <2>3 DEF OnePlace
  <2>8. \A u \in Threads : \A d \in 1..Depth(u)' : \A c \in Callbacks :
          Carries(At(u, d)', c) => fate'[c] = "registered" /\ ~Queued(c)
    BY <1>7, <2>1, <2>3, <2>5 DEF OnePlace
  <2>9. \A c \in Callbacks : fate'[c] = "registered" =>
          Queued(c) \/ \E u \in Threads : \E d \in 1..Depth(u)' : Carries(At(u, d)', c)
    <3>1. ASSUME NEW c \in Callbacks, fate'[c] = "registered", ~Queued(c)
          PROVE  \E u \in Threads : \E d \in 1..Depth(u)' : Carries(At(u, d)', c)
      <4>1. c # cb /\ fate[c] = "registered"
        BY <1>7, <3>1
      <4>2. PICK u \in Threads : \E d \in 1..Depth(u) : Carries(At(u, d), c)
        BY <2>1, <3>1, <4>1 DEF OnePlace
      <4>. QED  BY <1>3, <2>2, <2>4, <4>1, <4>2
    <3>. QED  BY <3>1
  <2>10. \A c \in Callbacks : Queued(c) => fate'[c] = "registered"
    BY <1>6, <1>7, <2>1 DEF OnePlace
  <2>11. Distinct(callbacks)'
    BY <1>1, <2>1 DEF OnePlace, Distinct
  <2>12. callbacks' = callbacks
    BY <1>1
  <2>13. \A c \in Callbacks : Queued(c)' <=> Queued(c)
    BY <2>12 DEF Queued
  <2>14. /\ \A u \in Threads : \A d \in 1..Depth(u)' : \A c \in Callbacks :
              Carries(At(u, d)', c) => fate'[c] = "registered" /\ ~Queued(c)'
         /\ \A c \in Callbacks : fate'[c] = "registered" =>
              Queued(c)' \/ \E u \in Threads : \E d \in 1..Depth(u)' : Carries(At(u, d)', c)
         /\ \A c \in Callbacks : Queued(c)' => fate'[c] = "registered"
    BY <2>8, <2>9, <2>10, <2>13
  <2>. QED  BY <2>6, <2>7, <2>11, <2>14 DEF OnePlace, Distinct, Carries
<1>. QED  BY <1>2, <1>8, <1>9, <1>10, <1>11 DEF SInv

\* A callback is taken off the queue and executed.
LEMMA DispatchStep ==
  ASSUME SInv, NEW th \in Threads, Dispatch(th)
  PROVE  SInv' /\ (Top(th).calls # <<>> => FirstTaken(th))
<1> DEFINE q == Top(th).calls
<1>1. /\ InCall(th, "set", "dispatch")
      /\ UNCHANGED <<program, mutex, ready, value, callbacks, alive, holds, sets, gets, fate,
                     answer, order>>
  BY DEF Dispatch, svVars, userVars
<1>2. /\ stack[th] # <<>> /\ Top(th) = At(th, Depth(th)) /\ Top(th).op = "set"
      /\ Top(th).at = "dispatch" /\ Top(th) \in Frames /\ holds[th]
      /\ Fits(Top(th)) /\ Depth(th) \in Nat /\ Depth(th) \in 1..Depth(th) /\ Depth(th) >= 1
  BY <1>1, Innermost DEF SInv
<1>3. Locks(th) = FALSE /\ ready /\ Top(th).arg \in Values
  BY <1>2 DEF Locks, Fits, Kind
<1>4. Settled' /\ ExecutedOnce'
  BY <1>1, SettledStep, ExecutedOnceStep DEF SInv
<1>5. CASE q = <<>>
  <2>1. Pop(th)
    BY <1>5 DEF Dispatch
  <2>2. /\ Pops(th) /\ stack' \in [Threads -> Seq(Frames)]
        /\ Shaped' /\ Kept' /\ WrittenOnce'
        /\ \A u \in Threads : u # th => Locks(u)' = Locks(u)
        /\ Locks(th)' = FALSE
    BY <1>1, <2>1, PopCommon
  <2>3. TypeOK'
    BY <1>1, <2>2 DEF SInv, TypeOK
  <2>4. Excludes'
    BY <1>1, <1>3, <2>2, ExcludesStep DEF SInv
  <2>5. OnePlace'
    <3>1. \A cb \in Callbacks : ~Carries(At(th, Depth(th)), cb)
      BY <1>2, <1>5, CarriesNothing
    <3>. QED  BY <1>1, <2>2, <3>1, PlacesPop DEF SInv
  <2>. QED  BY <1>4, <1>5, <2>2, <2>3, <2>4, <2>5 DEF SInv
<1>6. CASE q # <<>>
  <2> DEFINE cb == Head(q)
             e == Frame("execute", "body", cb, <<>>)
             f == Frame("set", "dispatch", Top(th).arg, Tail(q))
  <2>1. q \in Seq(Callbacks)
    BY <1>2 DEF Frames
  <2>2. /\ cb \in Callbacks /\ cb = q[1] /\ Len(q) >= 1 /\ Len(q) \in Nat
        /\ Tail(q) \in Seq(Callbacks) /\ Len(Tail(q)) = Len(q) - 1
        /\ \A i \in 1..(Len(q) - 1) : Tail(q)[i] = q[i + 1]
    BY <1>6, <2>1, Below
  <2>3. /\ e \in Frames /\ f \in Frames /\ Fits(e) /\ Fits(f)
        /\ e.op = "execute" /\ e.at = "body" /\ e.calls = <<>> /\ e.arg = cb
        /\ f.op = "set" /\ f.at = "dispatch" /\ f.calls = Tail(q)
    BY <1>3, <2>2 DEF Frame, Frames, Fits, Kind
  <2>4. stack' = [stack EXCEPT ![th] = <<e, f>> \o Tail(stack[th])]
    BY <1>6 DEF Dispatch, Popped
  <2>5. <<e, f>> \o Tail(stack[th]) = <<e>> \o (<<f>> \o Tail(stack[th]))
    BY <1>2, <2>3, Stacks, Below DEF SInv
  <2>6. stack' \in [Threads -> Seq(Frames)] /\ Others(th)
        /\ stack'[th] = <<e>> \o (<<f>> \o Tail(stack[th]))
    <3>1. <<e>> \o (<<f>> \o Tail(stack[th])) \in Seq(Frames)
      BY <1>2, <2>3, Stacks, Below, OnTop DEF SInv
    <3>. QED  BY <2>4, <2>5, <3>1 DEF SInv, TypeOK, Others
  <2>7. /\ Depth(th)' = Depth(th) + 1
        /\ \A d \in 1..(Depth(th) + 1) :
             At(th, d)' = IF d < Depth(th) THEN At(th, d) ELSE IF d = Depth(th) THEN f ELSE e
    <3> DEFINE t == Tail(stack[th])
    <3>1. /\ t \in Seq(Frames) /\ Len(t) = Len(stack[th]) - 1 /\ Len(stack[th]) \in Nat
          /\ Len(stack[th]) >= 1
          /\ \A i \in 1..(Len(stack[th]) - 1) : t[i] = stack[th][i + 1]
      BY <1>2, Stacks, Below DEF SInv
    <3>2. /\ <<f>> \o t \in Seq(Frames) /\ Len(<<f>> \o t) = Len(t) + 1
          /\ (<<f>> \o t)[1] = f /\ \A i \in 1..Len(t) : (<<f>> \o t)[i + 1] = t[i]
      BY <2>3, <3>1, OnTop
    <3>3. /\ Len(stack'[th]) = Len(t) + 2 /\ stack'[th][1] = e
          /\ \A i \in 1..(Len(t) + 1) : stack'[th][i + 1] = (<<f>> \o t)[i]
      BY <2>3, <2>6, <3>1, <3>2, OnTop
    <3>4. ASSUME NEW d \in 1..(Depth(th) + 1)
          PROVE  At(th, d)' = IF d < Depth(th) THEN At(th, d) ELSE IF d = Depth(th) THEN f ELSE e
      <4>1. At(th, d)' = stack'[th][Len(stack[th]) + 2 - d]
        BY <3>1, <3>3 DEF At
      <4>2. CASE d < Depth(th)
        <5>1. /\ Len(stack[th]) - d \in 1..Len(t)
              /\ Len(stack[th]) - d + 1 = Len(stack[th]) + 1 - d
              /\ Len(stack[th]) - d + 1 \in 1..(Len(t) + 1)
              /\ Len(stack[th]) - d + 1 + 1 = Len(stack[th]) + 2 - d
          BY <3>1, <4>2 DEF Depth
        <5>2. stack'[th][Len(stack[th]) - d + 1 + 1] = (<<f>> \o t)[Len(stack[th]) - d + 1]
          BY <3>3, <5>1
        <5>3. (<<f>> \o t)[Len(stack[th]) - d + 1] = t[Len(stack[th]) - d]
          BY <3>2, <5>1
        <5>4. t[Len(stack[th]) - d] = stack[th][Len(stack[th]) - d + 1]
          BY <3>1, <5>1
        <5>. QED  BY <4>1, <4>2, <5>1, <5>2, <5>3, <5>4 DEF At
      <4>3. CASE d = Depth(th)
        <5>1. Len(stack[th]) + 2 - d = 2 /\ 1 \in 1..(Len(t) + 1)
          BY <3>1, <4>3 DEF Depth
        <5>2. stack'[th][1 + 1] = (<<f>> \o t)[1]
          BY <3>3, <5>1
        <5>. QED  BY <3>1, <3>2, <4>1, <4>3, <5>1, <5>2 DEF Depth
      <4>4. CASE d = Depth(th) + 1
        BY <3>1, <3>3, <4>1, <4>4 DEF Depth
      <4>. QED  BY <1>2, <4>2, <4>3, <4>4
    <3>. QED  BY <3>1, <3>3, <3>4 DEF Depth
  <2>8. \A u \in Threads : \A d \in 1..Depth(u)' :
           \/ d \in 1..Depth(u) /\ At(u, d)' = At(u, d) /\ (u = th => d < Depth(th))
           \/ u = th /\ d = Depth(th) /\ At(u, d)' = f
           \/ u = th /\ d = Depth(th) + 1 /\ At(u, d)' = e
    BY <1>2, <2>6, <2>7, OthersStay
  <2>9. \A u \in Threads : \A d \in 1..Depth(u) :
           d \in 1..Depth(u)' /\ (At(u, d)' = At(u, d) \/ (u = th /\ d = Depth(th)))
    BY <1>2, <2>6, <2>7, OthersStay
  <2>10. \A u \in Threads : u # th =>
           Depth(u)' = Depth(u) /\ Locks(u)' = Locks(u) /\ Setting(u)' = Setting(u)
    BY <2>6, OthersStay
  <2>11. Locks(th)' = FALSE /\ ~Setting(th)'
    <3>1. \A d : d = Depth(th)' => At(th, d)' = e
      BY <1>2, <2>7
    <3>2. At(th, Depth(th))' = e
      BY <3>1
    <3>. QED  BY <2>3, <3>2 DEF Locks, Setting
  <2>12. TypeOK'
    BY <1>1, <2>6 DEF SInv, TypeOK
  <2>13. Shaped'
    <3>1. ASSUME NEW u \in Threads, NEW d \in 1..Depth(u)'
          PROVE  Fits(At(u, d))' /\ (d < Depth(u)' => At(u, d)'.at \in Calling)
      <4>1. CASE d \in 1..Depth(u) /\ At(u, d)' = At(u, d) /\ (u = th => d < Depth(th))
        BY <1>1, <2>10, <4>1 DEF SInv, Shaped, Fits, Kind
      <4>2. CASE u = th /\ d = Depth(th) /\ At(u, d)' = f
        BY <1>1, <2>3, <4>2 DEF Fits, Kind, Calling
      <4>3. CASE u = th /\ d = Depth(th) + 1 /\ At(u, d)' = e
        BY <1>1, <1>2, <2>3, <2>7, <4>3 DEF Fits, Kind
      <4>. QED  BY <2>8, <3>1, <4>1, <4>2, <4>3
    <3>. QED  BY <3>1 DEF Shaped
  <2>14. Excludes' /\ Kept' /\ WrittenOnce'
    <3>1. Excludes'
      BY <1>1, <1>3, <2>10, <2>11, ExcludesStep DEF SInv
    <3>2. Kept' /\ WrittenOnce'
      BY <1>1, <1>2, <2>10, <2>11, KeptStep, WrittenOnceStep DEF SInv
    <3>. QED  BY <3>1, <3>2
  <2>15. OnePlace'
    <3>1. OnePlace
      BY DEF SInv
    <3>2. Distinct(q)
      BY <1>2, <3>1 DEF OnePlace
    <3>3. /\ \A c \in Callbacks : Carries(e, c) <=> c = cb
          /\ \A c \in Callbacks : Carries(f, c) => c # cb /\ Carries(Top(th), c)
          /\ \A c \in Callbacks : Carries(Top(th), c) => c = cb \/ Carries(f, c)
          /\ Carries(Top(th), cb)
      <4>1. \A c \in Callbacks : Carries(e, c) <=> c = cb
        BY <2>3, EmptySeq DEF Carries
      <4>2. \A c \in Callbacks : Carries(Top(th), c) <=> \E j \in 1..Len(q) : q[j] = c
        BY <1>2 DEF Carries
      <4>3. \A c \in Callbacks : Carries(f, c) <=> \E j \in 1..(Len(q) - 1) : q[j + 1] = c
        BY <2>2, <2>3 DEF Carries
      <4>4. \A j \in 1..Len(q) : j = 1 \/ (j - 1 \in 1..(Len(q) - 1) /\ (j - 1) + 1 = j)
        BY <2>2
      <4>5. \A j \in 1..(Len(q) - 1) : j + 1 \in 1..Len(q) /\ j + 1 # 1 /\ q[j + 1] # q[1]
        BY <2>2, <3>2 DEF Distinct
      <4>6. \A c \in Callbacks : Carries(f, c) => c # cb /\ Carries(Top(th), c)
        BY <2>2, <4>2, <4>3, <4>5
      <4>7. \A c \in Callbacks : Carries(Top(th), c) => c = cb \/ Carries(f, c)
        <5>1. ASSUME NEW c \in Callbacks, NEW j \in 1..Len(q), q[j] = c, c # cb
              PROVE  \E k \in 1..(Len(q) - 1) : q[k + 1] = c
          <6>1. j # 1
            BY <2>2, <5>1
          <6>2. j - 1 \in 1..(Len(q) - 1) /\ q[(j - 1) + 1] = c
            BY <4>4, <5>1, <6>1
          <6>. QED  BY <6>2
        <5>. QED  BY <4>2, <4>3, <5>1
      <4>8. Carries(Top(th), cb)
        BY <2>2, <4>2
      <4>. QED  BY <4>1, <4>6, <4>7, <4>8
    <3>4. Distinct(Tail(q)) /\ Distinct(<<>>)
      BY <2>2, <3>2, EmptySeq DEF Distinct
    <3>5. \A u \in Threads : \A d \in 1..Depth(u)' : Distinct(At(u, d)'.calls)
      BY <2>3, <2>8, <3>1, <3>4 DEF OnePlace
    <3>6. \A u \in Threads : \A d \in 1..Depth(u)' : \A c \in Callbacks :
            Carries(At(u, d)', c) =>
              \/ d \in 1..Depth(u) /\ Carries(At(u, d), c) /\ (u = th => d < Depth(th))
              \/ u = th /\ Carries(Top(th), c) /\ d \in {Depth(th), Depth(th) + 1}
                        /\ (c = cb <=> d = Depth(th) + 1)
      BY <1>2, <2>8, <3>3
    <3>7. \A u, v \in Threads : \A d \in 1..Depth(u)', k \in 1..Depth(v)' : \A c \in Callbacks :
            Carries(At(u, d)', c) /\ Carries(At(v, k)', c) => u = v /\ d = k
      <4>1. ASSUME NEW u \in Threads, NEW v \in Threads, NEW d \in 1..Depth(u)',
                   NEW k \in 1..Depth(v)', NEW c \in Callbacks,
                   Carries(At(u, d)', c), Carries(At(v, k)', c)
            PROVE  u = v /\ d = k
        <5>1. CASE /\ d \in 1..Depth(u) /\ Carries(At(u, d), c) /\ (u = th => d < Depth(th))
                   /\ k \in 1..Depth(v) /\ Carries(At(v, k), c)
          BY <3>1, <5>1 DEF OnePlace
        <5>2. CASE /\ d \in 1..Depth(u) /\ Carries(At(u, d), c) /\ (u = th => d < Depth(th))
                   /\ Carries(Top(th), c)
          BY <1>2, <3>1, <5>2 DEF OnePlace
        <5>3. CASE /\ k \in 1..Depth(v) /\ Carries(At(v, k), c) /\ (v = th => k < Depth(th))
                   /\ Carries(Top(th), c)
          BY <1>2, <3>1, <5>3 DEF OnePlace
        <5>4. CASE /\ u = th /\ d \in {Depth(th), Depth(th) + 1} /\ (c = cb <=> d = Depth(th) + 1)
                   /\ v = th /\ k \in {Depth(th), Depth(th) + 1} /\ (c = cb <=> k = Depth(th) + 1)
          BY <5>4
        <5>. QED  BY <3>6, <4>1, <5>1, <5>2, <5>3, <5>4
      <4>. QED  BY <4>1
    <3>8. \A u \in Threads : \A d \in 1..Depth(u)' : \A c \in Callbacks :
            Carries(At(u, d)', c) => fate[c] = "registered" /\ ~Queued(c)
      BY <1>2, <3>1, <3>6 DEF OnePlace
    <3>9. \A c \in Callbacks : fate[c] = "registered" =>
            Queued(c) \/ \E u \in Threads : \E d \in 1..Depth(u)' : Carries(At(u, d)', c)
      <4>1. ASSUME NEW c \in Callbacks, NEW u \in Threads, NEW d \in 1..Depth(u), Carries(At(u, d), c)
            PROVE  \E v \in Threads : \E k \in 1..Depth(v)' : Carries(At(v, k)', c)
        <5>1. CASE At(u, d)' = At(u, d)
          BY <2>9, <4>1, <5>1
        <5>2. CASE u = th /\ d = Depth(th)
          <6>1. /\ Depth(th) \in 1..Depth(th)' /\ Depth(th) + 1 \in 1..Depth(th)'
            BY <1>2, <2>7
          <6>2. (\E k \in 1..Depth(th)' : At(th, k)' = f) /\ (\E k \in 1..Depth(th)' : At(th, k)' = e)
            BY <1>2, <2>7
          <6>. QED  BY <1>2, <3>3, <4>1, <5>2, <6>2
        <5>. QED  BY <2>9, <5>1, <5>2
      <4>. QED  BY <3>1, <4>1 DEF OnePlace
    <3>. QED  BY <1>1, <3>1, <3>5, <3>7, <3>8, <3>9 DEF OnePlace, Distinct, Carries, Queued
  <2>16. FirstTaken(th)
    <3>1. \E d, k \in 1..Depth(th)' : k = d + 1 /\ At(th, k)' = e /\ At(th, d)' = f
      <4>1. \A d, k \in 1..(Depth(th) + 1) :
              d = Depth(th) /\ k = Depth(th) + 1 => At(th, d)' = f /\ At(th, k)' = e
        BY <1>2, <2>7
      <4>. QED  BY <1>2, <2>7, <4>1
    <3>2. \A u \in Threads : \A d \in 1..Depth(u) : Stays(u, d) \/ (u = th /\ d = Depth(th))
      BY <2>9 DEF Stays
    <3>. QED  BY <2>3, <3>1, <3>2 DEF FirstTaken
  <2>. QED  BY <1>4, <2>12, <2>13, <2>14, <2>15, <2>16 DEF SInv
<1>. QED  BY <1>5, <1>6

\* A callback is queued, or executed here.
LEMMA NotifyStep ==
  ASSUME SInv, NEW th \in Threads, Notify(th)
  PROVE  SInv'
<1> DEFINE cb == Top(th).arg
<1>1. /\ InCall(th, "notify", "locked") /\ mutex' = Nobody
      /\ UNCHANGED <<program, ready, value, alive, holds, sets, gets, fate, answer>>
  BY DEF Notify, userVars
<1>2. /\ stack[th] # <<>> /\ Top(th) = At(th, Depth(th)) /\ Top(th).op = "notify"
      /\ Top(th).at = "locked" /\ Top(th) \in Frames /\ holds[th]
      /\ Fits(Top(th)) /\ Depth(th) \in Nat /\ Depth(th) \in 1..Depth(th) /\ Depth(th) >= 1
  BY <1>1, Innermost DEF SInv
<1>3. mutex = th
  BY <1>2 DEF SInv, Excludes, Locks
<1>4. cb \in Callbacks /\ Top(th).calls = <<>> /\ Carries(Top(th), cb)
  BY <1>2 DEF Fits, Kind, Carries
<1>5. CASE ready
  <2> DEFINE f == Frame("execute", "body", cb, <<>>)
  <2>1. /\ stack' = [stack EXCEPT ![th] = <<f>> \o Tail(stack[th])]
        /\ UNCHANGED <<callbacks, order>>
    BY <1>5 DEF Notify
  <2>2. /\ f \in Frames /\ Fits(f) /\ f.op = "execute" /\ f.at = "body" /\ f.arg = cb
        /\ f.calls = <<>>
    BY <1>4, <1>5 DEF Frame, Frames, Fits, Kind
  <2>3. Changes(th, f) /\ stack' \in [Threads -> Seq(Frames)]
    BY <1>2, <2>1, <2>2, ReplaceChanges DEF SInv
  <2>4. Like(f, Top(th))
    BY <1>2, <1>4, <2>2 DEF Like, Carries
  <2>5. Shaped' /\ OnePlace'
    BY <1>1, <1>2, <2>1, <2>2, <2>3, <2>4, ShapedChange, PlacesChange DEF SInv
  <2>6. \A u \in Threads : u # th =>
           Depth(u)' = Depth(u) /\ Locks(u)' = Locks(u) /\ Setting(u)' = Setting(u)
    BY <2>3, OthersStay DEF Changes
  <2>7. ~Locks(th)' /\ ~Setting(th)'
    BY <2>2, <2>3, TopChanged DEF SInv
  <2>8. TypeOK'
    BY <1>1, <2>1, <2>3 DEF SInv, TypeOK
  <2>9. Excludes'
    BY <1>1, <1>3, <2>6, <2>7, ExcludesStep DEF SInv
  <2>10. Kept' /\ WrittenOnce' /\ Settled' /\ ExecutedOnce'
    BY <1>1, <1>2, <2>1, <2>6, <2>7, KeptStep, WrittenOnceStep, SettledStep,
       ExecutedOnceStep DEF SInv
  <2>. QED  BY <2>5, <2>8, <2>9, <2>10 DEF SInv
<1>6. CASE ~ready
  <2>1. /\ callbacks' = Append(callbacks, cb) /\ order' = Append(order, cb) /\ Pop(th)
    BY <1>6 DEF Notify, Add
  <2>2. /\ Pops(th) /\ stack' \in [Threads -> Seq(Frames)]
        /\ Shaped' /\ Kept' /\ WrittenOnce'
        /\ \A u \in Threads : u # th => Locks(u)' = Locks(u)
        /\ Locks(th)' = FALSE
    BY <1>1, <2>1, PopCommon
  <2>3. /\ callbacks \in Seq(Callbacks) /\ Len(callbacks) \in Nat
        /\ callbacks' \in Seq(Callbacks) /\ Len(callbacks') = Len(callbacks) + 1
        /\ \A i \in 1..Len(callbacks) : callbacks'[i] = callbacks[i]
        /\ callbacks'[Len(callbacks) + 1] = cb
    <3>1. callbacks \in Seq(Callbacks)
      BY DEF SInv, TypeOK
    <3>. QED  BY <1>4, <2>1, <3>1, AppendProperties, LenProperties
  <2>4. TypeOK'
    <3>1. order' \in Seq(Callbacks)
      BY <1>4, <2>1, AppendProperties DEF SInv, TypeOK
    <3>. QED  BY <1>1, <2>2, <2>3, <3>1 DEF SInv, TypeOK
  <2>5. Excludes'
    BY <1>1, <1>3, <2>2, ExcludesStep DEF SInv
  <2>6. Settled' /\ ExecutedOnce'
    BY <1>1, <1>6, ExecutedOnceStep DEF SInv, Settled
  <2>7. OnePlace'
    <3>1. OnePlace /\ ~Queued(cb) /\ fate[cb] = "registered"
      BY <1>2, <1>4 DEF SInv, OnePlace
    <3>2. \A c \in Callbacks : Queued(c)' <=> Queued(c) \/ c = cb
      <4>1. ASSUME NEW c \in Callbacks, NEW j \in 1..Len(callbacks'), callbacks'[j] = c
            PROVE  Queued(c) \/ c = cb
        <5>1. j \in 1..Len(callbacks) \/ j = Len(callbacks) + 1
          BY <2>3
        <5>. QED  BY <2>3, <4>1, <5>1 DEF Queued
      <4>2. ASSUME NEW c \in Callbacks, NEW j \in 1..Len(callbacks), callbacks[j] = c
            PROVE  \E k \in 1..Len(callbacks') : callbacks'[k] = c
        BY <2>3, <4>2
      <4>3. \E k \in 1..Len(callbacks') : callbacks'[k] = cb
        BY <2>3
      <4>. QED  BY <4>1, <4>2, <4>3 DEF Queued
    <3>3. Distinct(callbacks')
      <4>1. Distinct(callbacks) /\ \A i \in 1..Len(callbacks) : callbacks[i] # cb
        BY <3>1 DEF OnePlace, Queued
      <4>2. \A i \in 1..Len(callbacks') : i \in 1..Len(callbacks) \/ i = Len(callbacks) + 1
        BY <2>3
      <4>. QED  BY <2>3, <4>1, <4>2 DEF Distinct
    <3>4. \A c \in Callbacks : Carries(Top(th), c) => c = cb
      BY <1>2, <1>4, EmptySeq DEF Carries
    <3>5. \A u \in Threads : \A d \in 1..Depth(u)' :
            /\ d \in 1..Depth(u) /\ At(u, d)' = At(u, d)
            /\ u = th => d # Depth(th)
      BY <1>2, <2>2, OthersStay DEF Pops
    <3>6. \A u \in Threads : \A d \in 1..Depth(u) :
            \/ d \in 1..Depth(u)' /\ At(u, d)' = At(u, d)
            \/ u = th /\ d = Depth(th)
      BY <1>2, <2>2, OthersStay DEF Pops
    <3>7. \A u \in Threads : \A d \in 1..Depth(u)' : ~Carries(At(u, d)', cb)
      BY <1>2, <1>4, <3>1, <3>5 DEF OnePlace
    <3>8. \A u \in Threads : \A d \in 1..Depth(u)' : Distinct(At(u, d)'.calls)
      BY <3>1, <3>5 DEF OnePlace
    <3>9. \A u, v \in Threads : \A d \in 1..Depth(u)', e \in 1..Depth(v)' : \A c \in Callbacks :
            Carries(At(u, d)', c) /\ Carries(At(v, e)', c) => u = v /\ d = e
      BY <3>1, <3>5 DEF OnePlace
    <3>10. \A u \in Threads : \A d \in 1..Depth(u)' : \A c \in Callbacks :
            Carries(At(u, d)', c) => fate[c] = "registered" /\ ~Queued(c)'
      BY <3>1, <3>2, <3>5, <3>7 DEF OnePlace
    <3>11. \A c \in Callbacks : fate[c] = "registered" =>
            Queued(c)' \/ \E u \in Threads : \E d \in 1..Depth(u)' : Carries(At(u, d)', c)
      <4>1. ASSUME NEW c \in Callbacks, fate[c] = "registered", ~Queued(c), c # cb
            PROVE  \E u \in Threads : \E d \in 1..Depth(u)' : Carries(At(u, d)', c)
        <5>1. PICK u \in Threads : \E d \in 1..Depth(u) : Carries(At(u, d), c)
          BY <3>1, <4>1 DEF OnePlace
        <5>. QED  BY <1>2, <3>4, <3>6, <4>1, <5>1
      <4>. QED  BY <3>2, <4>1
    <3>12. \A c \in Callbacks : Queued(c)' => fate[c] = "registered"
      BY <3>1, <3>2 DEF OnePlace
    <3>13. fate' = fate
      BY <1>1
    <3>14. /\ Distinct(callbacks)'
           /\ \A c \in Callbacks : Queued(c)' => fate'[c] = "registered"
           /\ \A u \in Threads : \A d \in 1..Depth(u)' : \A c \in Callbacks :
                Carries(At(u, d)', c) => fate'[c] = "registered" /\ ~Queued(c)'
           /\ \A c \in Callbacks : fate'[c] = "registered" =>
                Queued(c)' \/ \E u \in Threads : \E d \in 1..Depth(u)' : Carries(At(u, d)', c)
      BY <3>3, <3>10, <3>11, <3>12, <3>13, Zenon
    <3>. QED  BY <3>8, <3>9, <3>14 DEF OnePlace, Distinct, Carries
  <2>. QED  BY <2>2, <2>4, <2>5, <2>6, <2>7 DEF SInv
<1>. QED  BY <1>5, <1>6

\* A handle goes; the last one takes the queue along.
LEMMA ReleaseStep ==
  ASSUME SInv, NEW th \in Threads, Release(th)
  PROVE  SInv'
<1>1. /\ holds[th] /\ stack[th] = <<>> /\ holds' = [holds EXCEPT ![th] = FALSE]
      /\ UNCHANGED <<program, mutex, ready, value, stack, sets, gets, answer, order>>
  BY DEF Release
<1>2. Shaped' /\ Excludes' /\ WrittenOnce'
  BY <1>1 DEF SInv, Shaped, Excludes, WrittenOnce, SetOnce, Depth, At, Locks, Setting, Fits, Kind
<1>3. Depth(th) = 0 /\ \A u \in Threads : Depth(u)' = Depth(u) /\ \A d : At(u, d)' = At(u, d)
  BY <1>1, Stacks DEF SInv, Depth, At
<1>4. holds' \in [Threads -> BOOLEAN] /\ ~holds'[th]
      /\ \A u \in Threads : u # th => holds'[u] = holds[u]
  BY <1>1 DEF SInv, TypeOK
<1>5. CASE \E u \in Threads \ {th} : holds[u]
  <2>1. UNCHANGED <<alive, callbacks, fate>>
    BY <1>5 DEF Release
  <2>2. TypeOK' /\ Settled' /\ ExecutedOnce'
    <3>1. TypeOK'
      BY <1>1, <1>4, <2>1 DEF SInv, TypeOK
    <3>. QED  BY <1>1, <2>1, <3>1, SettledStep, ExecutedOnceStep DEF SInv
  <2>3. Kept'
    BY <1>3, <1>4, <1>5, <2>1 DEF SInv, Kept
  <2>4. OnePlace'
    <3>1. \A u \in Threads : Depth(u)' = Depth(u) /\ \A d \in 1..Depth(u) : Like(At(u, d)', At(u, d))
      BY <1>3 DEF Like
    <3>2. \A u \in Threads : \A d \in 1..Depth(u) : \A cb \in Callbacks :
            Carries(At(u, d), cb) => Carries(At(u, d)', cb)
      BY <1>3
    <3>. QED  BY <2>1, <3>1, <3>2, SamePlaces DEF SInv
  <2>. QED  BY <1>2, <2>2, <2>3, <2>4 DEF SInv
<1>6. CASE ~ \E u \in Threads \ {th} : holds[u]
  <2>1. /\ alive' = FALSE /\ callbacks' = <<>>
        /\ fate' = [cb \in Callbacks |-> IF Queued(cb) THEN "dropped" ELSE fate[cb]]
    BY <1>6 DEF Release, Queued
  <2>2. \A u \in Threads : ~holds'[u] /\ Depth(u) = 0
    <3>1. ASSUME NEW u \in Threads, u # th PROVE ~holds[u] /\ Depth(u) = 0
      <4>1. ~holds[u]
        BY <1>6, <3>1
      <4>2. ~(Depth(u) > 0)
        BY <4>1 DEF SInv, Kept
      <4>3. Depth(u) \in Nat
        BY Stacks DEF SInv
      <4>. QED  BY <4>1, <4>2, <4>3
    <3>. QED  BY <1>3, <1>4, <3>1
  <2>3. \A cb \in Callbacks : fate'[cb] = IF Queued(cb) THEN "dropped" ELSE fate[cb]
    BY <2>1
  <2>4. TypeOK'
    <3>1. fate' \in [Callbacks -> {"new", "registered", "executed", "executed twice", "dropped"}]
      BY <2>1 DEF SInv, TypeOK
    <3>2. callbacks' \in Seq(Callbacks) /\ alive' \in BOOLEAN
      BY <2>1, EmptySeq
    <3>. QED  BY <1>1, <1>4, <3>1, <3>2 DEF SInv, TypeOK
  <2>5. Kept' /\ Settled'
    BY <1>1, <1>3, <2>1, <2>2 DEF SInv, Kept, Settled
  <2>6. ExecutedOnce'
    <3>1. \A cb \in Callbacks : Queued(cb) => ~ready
      BY EmptySeq DEF SInv, Settled, Queued
    <3>. QED  BY <1>1, <2>1, <2>3, <3>1 DEF SInv, ExecutedOnce
  <2>7. OnePlace'
    <3>1. \A cb \in Callbacks : fate'[cb] # "registered"
      BY <2>2, <2>3 DEF SInv, OnePlace
    <3>2. \A u \in Threads : \A d \in 1..Depth(u)' : FALSE
      BY <1>3, <2>2
    <3>3. \A cb \in Callbacks : ~Queued(cb)'
      BY <2>1, EmptySeq DEF Queued
    <3>4. Distinct(callbacks)'
      BY <2>1, EmptySeq DEF Distinct
    <3>. QED  BY <3>1, <3>2, <3>3, <3>4 DEF OnePlace
  <2>. QED  BY <1>2, <2>4, <2>5, <2>6, <2>7 DEF SInv
<1>. QED  BY <1>5, <1>6

\* The value is set: the queue moves into the frame, and who slept is woken.
LEMMA SetStep ==
  ASSUME SInv, NEW th \in Threads, Set(th)
  PROVE  SInv' /\ QueueTaken(th)
<1> DEFINE v == Top(th).arg
           f == Frame("set", "dispatch", v, callbacks)
           Slept(u) == u # th /\ stack[u] # <<>> /\ Top(u).op = "get" /\ Top(u).at = "wait"
           w(u) == Frame("get", "lock", Top(u).arg, Top(u).calls)
<1>1. /\ InCall(th, "set", "locked") /\ value' = v /\ ready' = TRUE /\ callbacks' = <<>>
      /\ mutex' = Nobody
      /\ UNCHANGED <<program, alive, holds, sets, gets, fate, answer, order>>
  BY DEF Set, Swapped, Unlocked, userVars
<1>2. /\ stack[th] # <<>> /\ Top(th) = At(th, Depth(th)) /\ Top(th).op = "set"
      /\ Top(th).at = "locked" /\ Top(th) \in Frames /\ holds[th] /\ alive
      /\ Fits(Top(th)) /\ Depth(th) \in Nat /\ Depth(th) \in 1..Depth(th) /\ Depth(th) >= 1
  BY <1>1, Innermost DEF SInv
<1>3. v \in Values /\ Top(th).calls = <<>> /\ Setting(th) /\ Locks(th) /\ mutex = th
  <2>1. v \in Values /\ Top(th).calls = <<>>
    BY <1>2 DEF Fits, Kind
  <2>2. Setting(th) /\ Locks(th)
    BY <1>2 DEF Setting, Locks
  <2>. QED  BY <2>1, <2>2 DEF SInv, Excludes
<1>4. callbacks \in Seq(Callbacks)
  BY DEF SInv, TypeOK
<1>5. /\ f \in Frames /\ f.op = "set" /\ f.at = "dispatch" /\ f.arg = v /\ f.calls = callbacks
      /\ Kind(f)
  BY <1>3, <1>4 DEF Frame, Frames, Kind
<1>6. ASSUME NEW u \in Threads, Slept(u)
      PROVE  /\ [Top(u) EXCEPT !.at = "lock"] = w(u) /\ w(u) \in Frames
             /\ w(u).op = "get" /\ w(u).at = "lock" /\ w(u).calls = Top(u).calls
             /\ Top(u).calls = <<>> /\ Kind(w(u)) /\ Top(u) = At(u, Depth(u))
  <2>1. InCall(u, "get", "wait")
    BY <1>6 DEF InCall
  <2>2. Top(u) \in Frames /\ Fits(Top(u)) /\ Top(u) = At(u, Depth(u))
    BY <2>1, Innermost DEF SInv
  <2>3. Top(u).calls = <<>>
    BY <1>6, <2>2 DEF Fits, Kind
  <2>. QED  BY <1>6, <2>2, <2>3 DEF Frame, Frames, Kind
<1>7. Waiting = {u \in Threads : Slept(u)}
  BY <1>2 DEF Waiting, InCall
<1>8. stack' = [Wake(Waiting) EXCEPT ![th] = <<f>> \o Tail(@)]
  BY DEF Set, Woken, Swapped
<1>9. /\ DOMAIN stack' = Threads
      /\ \A u \in Threads :
           stack'[u] = IF u = th THEN <<f>> \o Tail(stack[th])
                       ELSE IF Slept(u) THEN <<[Top(u) EXCEPT !.at = "lock"]>> \o Tail(stack[u])
                       ELSE stack[u]
  <2>1. th \notin Waiting
    BY <1>7
  <2>. QED  BY <1>7, <1>8, <2>1 DEF Wake
<1>10. /\ stack'[th] = <<f>> \o Tail(stack[th])
       /\ \A u \in Threads : Slept(u) => stack'[u] = <<w(u)>> \o Tail(stack[u])
       /\ \A u \in Threads : u # th /\ ~Slept(u) => stack'[u] = stack[u]
  BY <1>6, <1>9
<1>11. stack' \in [Threads -> Seq(Frames)]
  <2>1. \A u \in Threads : stack'[u] \in Seq(Frames)
    <3>1. <<f>> \o Tail(stack[th]) \in Seq(Frames)
      BY <1>2, <1>5, Stacks, Below, OnTop DEF SInv
    <3>2. ASSUME NEW u \in Threads, Slept(u) PROVE <<w(u)>> \o Tail(stack[u]) \in Seq(Frames)
      BY <1>6, <3>2, Stacks, Below, OnTop DEF SInv
    <3>3. \A u \in Threads : stack[u] \in Seq(Frames)
      BY Stacks DEF SInv
    <3>. QED  BY <1>10, <3>1, <3>2, <3>3
  <2>2. stack' = [u \in Threads |-> stack'[u]]
    BY <1>8, <1>9 DEF Wake
  <2>. QED  BY <2>1, <2>2

\* What became of the frames.
<1>12. \A u \in Threads : Depth(u)' = Depth(u) /\ Depth(u) \in Nat
  <2>1. \A u \in Threads : u # th /\ ~Slept(u) => Depth(u)' = Depth(u)
    BY <1>10 DEF Depth
  <2>2. \A u \in Threads : Slept(u) => Depth(u)' = Depth(u)
    BY <1>6, <1>10, <1>11, ExchangeChanges DEF SInv
  <2>3. Depth(th)' = Depth(th)
    BY <1>2, <1>5, <1>10, <1>11, ExchangeChanges DEF SInv
  <2>4. \A u \in Threads : Depth(u) \in Nat
    BY Stacks DEF SInv
  <2>. QED  BY <2>1, <2>2, <2>3, <2>4
<1>13. ASSUME NEW u \in Threads, NEW d \in 1..Depth(u)
       PROVE  \/ u = th /\ d = Depth(th) /\ At(u, d)' = f
              \/ Slept(u) /\ d = Depth(u) /\ At(u, d)' = w(u)
              \/ At(u, d)' = At(u, d) /\ (u = th => d < Depth(th)) /\ ~(Slept(u) /\ d = Depth(u))
  <2>1. CASE u = th
    <3>1. \A k \in 1..Depth(th) : At(th, k)' = IF k < Depth(th) THEN At(th, k) ELSE f
      BY <1>2, <1>5, <1>10, <1>11, ExchangeChanges DEF SInv
    <3>2. d \in 1..Depth(th) /\ (d < Depth(th) \/ d = Depth(th))
      BY <1>2, <2>1
    <3>. QED  BY <1>2, <2>1, <3>1, <3>2
  <2>2. CASE Slept(u)
    <3>1. /\ w(u) \in Frames /\ stack[u] # <<>> /\ stack'[u] = <<w(u)>> \o Tail(stack[u])
      BY <1>6, <1>10, <2>2
    <3>2. \A k \in 1..Depth(u) : At(u, k)' = IF k < Depth(u) THEN At(u, k) ELSE w(u)
      BY <1>11, <3>1, ExchangeChanges DEF SInv
    <3>3. d \in 1..Depth(u) /\ (d < Depth(u) \/ d = Depth(u)) /\ u # th
      BY <1>12, <2>2
    <3>. QED  BY <1>12, <2>2, <3>2, <3>3
  <2>3. CASE u # th /\ ~Slept(u)
    BY <1>10, <2>3 DEF At
  <2>. QED  BY <2>1, <2>2, <2>3
<1>14. Shaped'
  <2>1. ASSUME NEW u \in Threads, NEW d \in 1..Depth(u)
        PROVE  /\ Kind(At(u, d)') /\ At(u, d)'.at # "wait"
               /\ d < Depth(u) => At(u, d)'.at \in Calling
    <3>1. /\ Kind(At(u, d)) /\ (d < Depth(u) => At(u, d).at \in Calling)
      BY DEF SInv, Shaped, Fits
    <3>2. CASE u = th /\ d = Depth(th) /\ At(u, d)' = f
      <4>1. ~(d < Depth(u))
        BY <1>12, <3>2
      <4>. QED  BY <1>5, <3>2, <4>1
    <3>3. CASE Slept(u) /\ d = Depth(u) /\ At(u, d)' = w(u)
      <4>1. ~(d < Depth(u))
        BY <1>12, <3>3
      <4>2. Kind(w(u)) /\ w(u).at = "lock" /\ At(u, d)' = w(u)
        BY <1>6, <3>3
      <4>. QED  BY <4>1, <4>2
    <3>4. CASE /\ At(u, d)' = At(u, d) /\ (u = th => d < Depth(th))
               /\ ~(Slept(u) /\ d = Depth(u))
      <4>1. CASE d < Depth(u)
        BY <3>1, <3>4, <4>1 DEF Calling
      <4>2. CASE d = Depth(u) /\ u # th
        <5>1. stack[u] # <<>> /\ Top(u) = At(u, Depth(u))
          BY <4>2, Stacks DEF SInv
        <5>2. At(u, d).at = "wait" => At(u, d).op = "get"
          BY <3>1 DEF Kind
        <5>. QED  BY <1>12, <3>1, <3>4, <4>2, <5>1, <5>2
      <4>. QED  BY <1>12, <3>4, <4>1, <4>2
    <3>. QED  BY <1>13, <3>2, <3>3, <3>4
  <2>2. \A u \in Threads : \A d \in 1..Depth(u)' :
          Fits(At(u, d))' /\ (d < Depth(u)' => At(u, d)'.at \in Calling)
    BY <1>1, <1>12, <2>1 DEF Fits, Kind
  <2>. QED  BY <2>2 DEF Shaped
<1>15. \A u \in Threads : ~Locks(u)' /\ (Setting(u)' => Setting(u) /\ u # th)
  <2>1. ASSUME NEW u \in Threads, Depth(u) > 0
        PROVE  /\ At(u, Depth(u))'.at # "locked"
               /\ At(u, Depth(u))'.op = "set" /\ At(u, Depth(u))'.at = "lock" =>
                    Setting(u) /\ u # th
    <3> DEFINE n == Depth(u)
    <3>1. n \in 1..Depth(u) /\ At(u, Depth(u))' = At(u, n)' /\ n = Depth(u)
      <4>1. \A m : m = Depth(u)' => At(u, Depth(u))' = At(u, m)'
        OBVIOUS
      <4>. QED  BY <1>12, <2>1, <4>1
    <3>2. u # th => At(u, n).at # "locked"
      BY <1>3, <2>1 DEF SInv, Excludes, Locks
    <3> HIDE DEF n
    <3>3. CASE u = th /\ At(u, n)' = f
      BY <1>5, <3>1, <3>3
    <3>4. CASE Slept(u) /\ At(u, n)' = w(u)
      BY <1>6, <3>1, <3>4
    <3>5. CASE At(u, n)' = At(u, n) /\ u # th
      BY <2>1, <3>1, <3>2, <3>5 DEF Setting
    <3>. QED  BY <1>12, <1>13, <3>1, <3>3, <3>4, <3>5
  <2>. QED  BY <1>12, <2>1 DEF Locks, Setting
<1>16. Excludes'
  BY <1>1, <1>15, SharedValueAssumption DEF Excludes
<1>17. Kept' /\ Settled' /\ ExecutedOnce'
  <2>1. Kept'
    BY <1>1, <1>12 DEF SInv, Kept
  <2>2. Settled'
    BY <1>1, <1>3 DEF Settled
  <2>3. ExecutedOnce'
    BY <1>1, <1>2 DEF SInv, ExecutedOnce
  <2>. QED  BY <2>1, <2>2, <2>3
<1>18. WrittenOnce'
  BY <1>1, <1>3, <1>15 DEF SInv, WrittenOnce, SetOnce
<1>19. TypeOK'
  <2>1. /\ mutex' \in Threads \cup {Nobody} /\ ready' \in BOOLEAN
        /\ value' \in Values \cup {Default} /\ callbacks' \in Seq(Callbacks)
    BY <1>1, <1>3, EmptySeq
  <2>2. TypeOK
    BY DEF SInv
  <2>. QED  BY <1>1, <1>11, <2>1, <2>2 DEF TypeOK
<1>20. OnePlace'
  <2>1. OnePlace
    BY DEF SInv
  <2>2. \A c \in Callbacks : (Carries(f, c) <=> Queued(c)) /\ ~Carries(Top(th), c)
    <3>1. \A c \in Callbacks : Carries(f, c) <=> Queued(c)
      BY <1>5 DEF Carries, Queued
    <3>2. \A c \in Callbacks : ~Carries(Top(th), c)
      BY <1>2, <1>3, CarriesNothing
    <3>. QED  BY <3>1, <3>2
  <2>3. ASSUME NEW u \in Threads, Slept(u)
        PROVE  \A c \in Callbacks : ~Carries(w(u), c) /\ ~Carries(Top(u), c)
    <3>1. /\ w(u).op = "get" /\ w(u).calls = <<>>
          /\ Top(u).op = "get" /\ Top(u).calls = <<>>
      BY <1>6, <2>3
    <3>. QED  BY <3>1, CarriesNothing
  <2>4. ASSUME NEW u \in Threads, NEW d \in 1..Depth(u), NEW c \in Callbacks
        PROVE  Carries(At(u, d)', c) <=>
                 \/ u = th /\ d = Depth(th) /\ Queued(c)
                 \/ Carries(At(u, d), c)
    <3>1. CASE u = th /\ d = Depth(th) /\ At(u, d)' = f
      BY <1>2, <2>2, <3>1
    <3>2. CASE Slept(u) /\ d = Depth(u) /\ At(u, d)' = w(u)
      BY <1>6, <2>3, <3>2
    <3>3. CASE At(u, d)' = At(u, d) /\ (u = th => d < Depth(th))
      BY <1>12, <3>3
    <3>. QED  BY <1>13, <3>1, <3>2, <3>3
  <2>5. \A u \in Threads : \A d \in 1..Depth(u)' : Distinct(At(u, d)'.calls)
    <3>1. Distinct(callbacks) /\ Distinct(<<>>)
      BY <2>1, EmptySeq DEF OnePlace, Distinct
    <3>2. ASSUME NEW u \in Threads, NEW d \in 1..Depth(u) PROVE Distinct(At(u, d)'.calls)
      <4>1. CASE u = th /\ d = Depth(th) /\ At(u, d)' = f
        BY <1>5, <3>1, <4>1
      <4>2. CASE Slept(u) /\ d = Depth(u) /\ At(u, d)' = w(u)
        BY <1>6, <3>1, <4>2
      <4>3. CASE At(u, d)' = At(u, d)
        BY <2>1, <4>3 DEF OnePlace
      <4>. QED  BY <1>13, <4>1, <4>2, <4>3
    <3>. QED  BY <1>12, <3>2
  <2>6. \A u, x \in Threads : \A d \in 1..Depth(u)', e \in 1..Depth(x)' : \A c \in Callbacks :
          Carries(At(u, d)', c) /\ Carries(At(x, e)', c) => u = x /\ d = e
    <3>1. ASSUME NEW u \in Threads, NEW x \in Threads, NEW d \in 1..Depth(u),
                 NEW e \in 1..Depth(x), NEW c \in Callbacks,
                 Carries(At(u, d)', c), Carries(At(x, e)', c)
          PROVE  u = x /\ d = e
      <4>1. CASE Queued(c)
        <5>1. ~Carries(At(u, d), c) /\ ~Carries(At(x, e), c)
          BY <2>1, <4>1 DEF OnePlace
        <5>. QED  BY <2>4, <3>1, <5>1
      <4>2. CASE ~Queued(c)
        <5>1. Carries(At(u, d), c) /\ Carries(At(x, e), c)
          BY <2>4, <3>1, <4>2
        <5>. QED  BY <2>1, <5>1 DEF OnePlace
      <4>. QED  BY <4>1, <4>2
    <3>. QED  BY <1>12, <3>1
  <2>7. \A u \in Threads : \A d \in 1..Depth(u)' : \A c \in Callbacks :
          Carries(At(u, d)', c) => fate[c] = "registered"
    <3>1. ASSUME NEW u \in Threads, NEW d \in 1..Depth(u), NEW c \in Callbacks,
                 Carries(At(u, d)', c)
          PROVE  fate[c] = "registered"
      <4>1. Queued(c) \/ Carries(At(u, d), c)
        BY <2>4, <3>1
      <4>. QED  BY <2>1, <4>1 DEF OnePlace
    <3>. QED  BY <1>12, <3>1
  <2>8. \A c \in Callbacks : fate[c] = "registered" =>
          \E u \in Threads : \E d \in 1..Depth(u)' : Carries(At(u, d)', c)
    <3>1. ASSUME NEW c \in Callbacks, fate[c] = "registered"
          PROVE  \E u \in Threads : \E d \in 1..Depth(u) : Carries(At(u, d)', c)
      <4>1. CASE Queued(c)
        BY <1>2, <2>4, <4>1
      <4>2. CASE ~Queued(c)
        <5>1. PICK u \in Threads : \E d \in 1..Depth(u) : Carries(At(u, d), c)
          BY <2>1, <3>1, <4>2 DEF OnePlace
        <5>. QED  BY <2>4, <5>1
      <4>. QED  BY <4>1, <4>2
    <3>. QED  BY <1>12, <3>1
  <2>9. Distinct(callbacks)' /\ \A c \in Callbacks : ~Queued(c)'
    BY <1>1, EmptySeq DEF Distinct, Queued
  <2>10. fate' = fate
    BY <1>1
  <2>11. \A u \in Threads : \A d \in 1..Depth(u)' : \A c \in Callbacks :
           Carries(At(u, d)', c) => fate'[c] = "registered" /\ ~Queued(c)'
    BY <2>7, <2>9, <2>10
  <2>. QED  BY <2>5, <2>6, <2>8, <2>9, <2>10, <2>11 DEF OnePlace, Distinct, Carries
<1>21. QueueTaken(th)
  <2>1. \E d \in 1..Depth(th)' : At(th, d)'.calls = callbacks
    <3>1. ASSUME NEW d \in 1..Depth(th), d = Depth(th) PROVE At(th, d)'.calls = callbacks
      <4>1. At(th, d)' = f
        BY <1>12, <1>13, <3>1
      <4>. QED  BY <1>5, <4>1
    <3>. QED  BY <1>2, <1>12, <3>1
  <2>2. ASSUME NEW u \in Threads, NEW d \in 1..Depth(u), Busy(At(u, d)) PROVE Stays(u, d)
    <3>1. ~(u = th /\ d = Depth(th))
      BY <1>2, <1>3, <2>2 DEF Busy
    <3>2. ~(Slept(u) /\ d = Depth(u))
      BY <1>6, <2>2 DEF Busy
    <3>. QED  BY <1>12, <1>13, <3>1, <3>2 DEF Stays
  <2>. QED  BY <2>1, <2>2 DEF QueueTaken
<1>. QED  BY <1>14, <1>16, <1>17, <1>18, <1>19, <1>20, <1>21 DEF SInv

-----------------------------------------------------------------------------
(* The invariant.                                                          *)

LEMMA SInvInit == Init => SInv
<1> SUFFICES ASSUME Init PROVE SInv
  OBVIOUS
<1>1. /\ program \in Programs /\ mutex = Nobody /\ ready = FALSE /\ value = Default
      /\ callbacks = <<>> /\ alive = TRUE /\ sets = 0 /\ order = <<>>
      /\ holds = [th \in Threads |-> th \in program.promisers \cup program.holders]
      /\ stack = [th \in Threads |-> <<>>] /\ gets = [th \in Threads |-> 0]
      /\ fate = [cb \in Callbacks |-> "new"] /\ answer = [th \in Threads |-> Default]
  BY DEF Init, Constructed
<1>2. program.sets \in Nat /\ program.gets \in Nat
  BY <1>1, SharedValueAssumption
<1>3. TypeOK
  <2>1. /\ program \in Programs /\ mutex \in Threads \cup {Nobody} /\ ready \in BOOLEAN
        /\ value \in Values \cup {Default} /\ alive \in BOOLEAN
        /\ callbacks \in Seq(Callbacks) /\ order \in Seq(Callbacks)
    BY <1>1, EmptySeq
  <2>2. sets \in 0..program.sets /\ 0 \in 0..program.gets
    BY <1>1, <1>2
  <2>3. gets \in [Threads -> 0..program.gets]
    BY <1>1, <2>2
  <2>4. holds \in [Threads -> BOOLEAN]
    BY <1>1
  <2>5. stack \in [Threads -> Seq(Frames)]
    BY <1>1, EmptySeq
  <2>6. /\ fate \in [Callbacks -> {"new", "registered", "executed", "executed twice", "dropped"}]
        /\ answer \in [Threads -> Values \cup {Default, Torn}]
    BY <1>1
  <2>. QED  BY <2>1, <2>2, <2>3, <2>4, <2>5, <2>6 DEF TypeOK
<1>4. \A th \in Threads : stack[th] = <<>> /\ Depth(th) = 0
  BY <1>1, EmptySeq DEF Depth
<1>5. Shaped
  BY <1>4 DEF Shaped
<1>6. Excludes
  BY <1>1, <1>4, SharedValueAssumption DEF Excludes, Locks
<1>7. Kept /\ Settled /\ ExecutedOnce
  BY <1>1, <1>4 DEF Kept, Settled, ExecutedOnce
<1>8. WrittenOnce
  BY <1>1, <1>4 DEF WrittenOnce, Setting
<1>9. OnePlace
  <2>1. \A cb \in Callbacks : fate[cb] # "registered" /\ ~Queued(cb)
    BY <1>1, EmptySeq DEF Queued
  <2>2. Distinct(callbacks)
    BY <1>1, EmptySeq DEF Distinct
  <2>3. \A th \in Threads : \A d \in 1..Depth(th) : FALSE
    BY <1>4
  <2>. QED  BY <2>1, <2>2, <2>3 DEF OnePlace
<1>. QED  BY <1>3, <1>5, <1>6, <1>7, <1>8, <1>9 DEF SInv

LEMMA Stutters ==
  ASSUME SInv, UNCHANGED vars
  PROVE  SInv'
<1>1. /\ UNCHANGED <<program, mutex, ready, value, callbacks, alive, holds, sets, gets>>
      /\ UNCHANGED <<stack, fate, answer, order>>
  BY DEF vars, svVars, userVars
<1>2. TypeOK' /\ Shaped' /\ Excludes'
  <2>1. TypeOK'
    BY <1>1 DEF SInv, TypeOK
  <2>2. stack' = stack /\ ready' = ready /\ mutex' = mutex
    BY <1>1
  <2>3. Shaped' /\ Excludes'
    BY <2>2 DEF SInv, Shaped, Excludes, Depth, At, Locks, Fits, Kind
  <2>. QED  BY <2>1, <2>3
<1>3. Kept' /\ Settled' /\ WrittenOnce' /\ ExecutedOnce'
  BY <1>1 DEF SInv, Kept, Settled, WrittenOnce, SetOnce, ExecutedOnce, Depth, At, Setting
<1>4. OnePlace'
  <2>1. OnePlace
    BY DEF SInv
  <2>2. stack' = stack /\ callbacks' = callbacks /\ fate' = fate
    BY <1>1
  <2>. QED  BY <2>1, <2>2 DEF OnePlace, Queued, Distinct, Carries, Depth, At
<1>. QED  BY <1>2, <1>3, <1>4 DEF SInv

LEMMA SInvStep == SInv /\ [Next]_vars => SInv'
<1> SUFFICES ASSUME SInv, [Next]_vars PROVE SInv'
  OBVIOUS
<1>1. ASSUME NEW th \in Threads, Call(th) PROVE SInv'
  BY <1>1, CallSetStep, CallGetStep, CallNotifyStep DEF Call
<1>2. ASSUME NEW th \in Threads, Step(th) PROVE SInv'
  BY <1>2, LockStep, SetStep, DispatchStep, ReturnStep, GetStep, ReadStep, NotifyStep DEF Step
<1>3. ASSUME NEW th \in Threads, SpuriousWakeup(th) \/ Release(th) PROVE SInv'
  BY <1>3, SpuriousWakeupStep, ReleaseStep
<1>4. CASE UNCHANGED vars
  BY <1>4, Stutters
<1>. QED  BY <1>1, <1>2, <1>3, <1>4 DEF Next, Finished

LEMMA Invariant == Spec => []SInv
BY SInvInit, SInvStep, PTL DEF Spec

-----------------------------------------------------------------------------
(* The order of the callbacks.                                             *)

LEMMA Registered ==
  ASSUME TypeOK
  PROVE  order \in Seq(Callbacks) /\ Len(order) \in Nat
         /\ \A i \in 1..Len(order) : order[i] \in Callbacks
<1>1. order \in Seq(Callbacks)
  BY DEF TypeOK
<1>. QED  BY <1>1, LenProperties, ElementOfSeq

\* A frame that goes with a callback is an innermost one, and b is no longer behind a
\* in it.
LEMMA PrecedesStays ==
  ASSUME TypeOK, NEW a, NEW b, Precedes(a, b),
         fate[a] = "executed" => fate'[a] = "executed",
         fate[b] = "dropped" => fate'[b] = "dropped",
         Ahead(a, b, callbacks) => Precedes(a, b)',
         \A u \in Threads : \A d \in 1..Depth(u) : Busy(At(u, d)) =>
            \/ Stays(u, d)
            \/ /\ d = Depth(u)
               /\ Ahead(a, b, At(u, d).calls) => Precedes(a, b)'
               /\ At(u, d).op = "execute" /\ At(u, d).arg = a => Precedes(a, b)'
  PROVE  Precedes(a, b)'
<1>1. CASE fate[a] = "executed"
  BY <1>1 DEF Precedes
<1>2. CASE fate[b] = "dropped"
  BY <1>2 DEF Precedes
<1>3. ASSUME NEW u \in Threads, NEW d \in 1..Depth(u), Ahead(a, b, At(u, d).calls)
      PROVE  Precedes(a, b)'
  <2>1. Busy(At(u, d))
    BY <1>3, EmptySeq DEF Ahead, Busy
  <2>2. CASE Stays(u, d)
    BY <1>3, <2>2 DEF Stays, Precedes, Ahead
  <2>. QED  BY <1>3, <2>1, <2>2
<1>4. ASSUME NEW u \in Threads, NEW d \in 1..Depth(u), NEW e \in 1..Depth(u), e = d + 1,
             At(u, e).op = "execute", At(u, e).arg = a,
             NEW k \in 1..Len(At(u, d).calls), At(u, d).calls[k] = b
      PROVE  Precedes(a, b)'
  <2>1. Busy(At(u, d)) /\ Busy(At(u, e))
    BY <1>4, EmptySeq DEF Busy
  <2>2. Depth(u) \in Nat /\ d # Depth(u)
    BY <1>4, Stacks
  <2>3. Stays(u, d)
    BY <2>1, <2>2
  <2>4. CASE Stays(u, e)
    BY <1>4, <2>3, <2>4 DEF Stays, Precedes
  <2>. QED  BY <1>4, <2>1, <2>4
<1>. QED  BY <1>1, <1>2, <1>3, <1>4 DEF Precedes

\* The order is kept pair by pair.
LEMMA OrderExtends ==
  ASSUME TypeOK, InOrder, order' = order,
         \A a, b \in Callbacks : Precedes(a, b) => Precedes(a, b)'
  PROVE  InOrder'
<1>1. ASSUME NEW i \in 1..Len(order), NEW j \in 1..Len(order), i < j
      PROVE  Precedes(order[i], order[j])'
  <2>1. /\ order[i] \in Callbacks /\ order[j] \in Callbacks /\ Precedes(order[i], order[j])
    BY <1>1, Registered DEF InOrder
  <2>2. \A a, b \in Callbacks : a = order[i] /\ b = order[j] => Precedes(a, b)'
    BY <2>1
  <2>. QED  BY <2>1, <2>2
<1>. QED  BY <1>1 DEF InOrder

\* A step that leaves the queue and the busy frames alone.
LEMMA OrderStays ==
  ASSUME TypeOK, QInv, UNCHANGED <<ready, callbacks, alive, order>>,
         \A c \in Callbacks : fate[c] \in {"executed", "dropped"} => fate'[c] = fate[c],
         \A u \in Threads : \A d \in 1..Depth(u) : Busy(At(u, d)) => Stays(u, d)
  PROVE  QInv'
<1>1. ASSUME NEW a \in Callbacks, NEW b \in Callbacks, Precedes(a, b)
      PROVE  Precedes(a, b)'
  <2>1. Ahead(a, b, callbacks) => Precedes(a, b)'
    BY DEF Precedes, Ahead
  <2>. QED  BY <1>1, <2>1, PrecedesStays
<1>2. InOrder'
  BY <1>1, OrderExtends DEF QInv
<1>3. StillQueued'
  BY DEF QInv, StillQueued, Queued
<1>. QED  BY <1>2, <1>3 DEF QInv

LEMMA BusyPush ==
  ASSUME TypeOK, NEW th \in Threads, NEW f, Pushes(th, f)
  PROVE  \A u \in Threads : \A d \in 1..Depth(u) : Busy(At(u, d)) => Stays(u, d)
<1>1. Depth(th) \in Nat
  BY Stacks
<1>2. \A u \in Threads : \A d \in 1..Depth(u) : d \in 1..Depth(u)' /\ At(u, d)' = At(u, d)
  BY <1>1, OthersStay DEF Pushes
<1>. QED  BY <1>2 DEF Stays

\* Only the innermost call of th changes, or returns.
LEMMA BusyTop ==
  ASSUME TypeOK, NEW th \in Threads, NEW f, Changes(th, f) \/ Pops(th)
  PROVE  \A u \in Threads : \A d \in 1..Depth(u) : Stays(u, d) \/ (u = th /\ d = Depth(th))
<1>1. Depth(th) \in Nat
  BY Stacks
<1>2. \A u \in Threads : \A d \in 1..Depth(u) :
        \/ d \in 1..Depth(u)' /\ At(u, d)' = At(u, d)
        \/ u = th /\ d = Depth(th)
  BY <1>1, OthersStay DEF Changes, Pops
<1>. QED  BY <1>2 DEF Stays

\* A call of SharedValue that executes nothing.
LEMMA QuietTop ==
  ASSUME SInv, NEW th \in Threads, NEW op \in {"set", "get", "notify"},
         NEW at \in {"lock", "locked", "wait", "read"}, InCall(th, op, at),
         NEW f, Changes(th, f) \/ Pops(th)
  PROVE  \A u \in Threads : \A d \in 1..Depth(u) : Busy(At(u, d)) => Stays(u, d)
<1>1. ~Busy(At(th, Depth(th)))
  <2>1. /\ Top(th) = At(th, Depth(th)) /\ Top(th).op = op /\ Top(th).at = at /\ Fits(Top(th))
    BY Innermost DEF SInv
  <2>2. Top(th).calls = <<>> /\ Top(th).op # "execute"
    BY <2>1 DEF Fits, Kind
  <2>. QED  BY <2>1, <2>2 DEF Busy
<1>2. \A u \in Threads : \A d \in 1..Depth(u) : Stays(u, d) \/ (u = th /\ d = Depth(th))
  BY BusyTop DEF SInv
<1>. QED  BY <1>1, <1>2

LEMMA OrderCall ==
  ASSUME SInv, QInv, NEW th \in Threads, Call(th)
  PROVE  QInv'
<1>1. TypeOK
  BY DEF SInv
<1>2. ASSUME NEW f \in Frames, Push(th, f), UNCHANGED <<ready, callbacks, alive, order>>,
             \A c \in Callbacks : fate[c] \in {"executed", "dropped"} => fate'[c] = fate[c]
      PROVE  QInv'
  <2>1. Pushes(th, f)
    BY <1>1, <1>2, PushPushes
  <2>. QED  BY <1>1, <1>2, <2>1, BusyPush, OrderStays
<1>3. ASSUME NEW v \in Values, CallSet(th, v) PROVE QInv'
  <2>1. Frame("set", "lock", v, <<>>) \in Frames
    BY DEF Frame, Frames
  <2>2. /\ Push(th, Frame("set", "lock", v, <<>>))
        /\ UNCHANGED <<ready, callbacks, alive, order, fate>>
    BY <1>3 DEF CallSet, svVars
  <2>. QED  BY <1>2, <2>1, <2>2
<1>4. CASE CallGet(th)
  <2>1. Frame("get", "lock", Default, <<>>) \in Frames
    BY DEF Frame, Frames
  <2>2. /\ Push(th, Frame("get", "lock", Default, <<>>))
        /\ UNCHANGED <<ready, callbacks, alive, order, fate>>
    BY <1>4 DEF CallGet, svVars
  <2>. QED  BY <1>2, <2>1, <2>2
<1>5. ASSUME NEW cb \in Callbacks, CallNotify(th, cb) PROVE QInv'
  <2>1. Frame("notify", "lock", cb, <<>>) \in Frames
    BY DEF Frame, Frames
  <2>2. /\ Push(th, Frame("notify", "lock", cb, <<>>))
        /\ UNCHANGED <<ready, callbacks, alive, order>>
        /\ fate[cb] = "new" /\ fate' = [fate EXCEPT ![cb] = "registered"]
    BY <1>5 DEF CallNotify, svVars, userVars
  <2>3. \A c \in Callbacks : fate[c] \in {"executed", "dropped"} => fate'[c] = fate[c]
    BY <1>1, <2>2 DEF TypeOK
  <2>. QED  BY <1>2, <2>1, <2>2, <2>3
<1>. QED  BY <1>3, <1>4, <1>5 DEF Call

\* Lock(), the loop of Get(), a wakeup.
LEMMA OrderGoto ==
  ASSUME SInv, QInv, NEW th \in Threads, Lock(th) \/ Get(th) \/ SpuriousWakeup(th)
  PROVE  QInv'
<1>1. UNCHANGED <<ready, callbacks, alive, order, fate>>
  BY DEF Lock, Get, SpuriousWakeup, svVars, userVars
<1>2. \E op \in {"set", "get", "notify"}, old, at \in {"lock", "locked", "wait", "read"} :
        InCall(th, op, old) /\ Goto(th, at)
  BY DEF Lock, Get, SpuriousWakeup, Waiting
<1>3. PICK op \in {"set", "get", "notify"}, old, at \in {"lock", "locked", "wait", "read"} :
        InCall(th, op, old) /\ Goto(th, at)
  BY <1>2
<1>4. \E f : Changes(th, f)
  BY <1>3, Innermost, GotoChanges DEF SInv
<1>5. \A u \in Threads : \A d \in 1..Depth(u) : Busy(At(u, d)) => Stays(u, d)
  BY <1>3, <1>4, QuietTop
<1>. QED  BY <1>1, <1>5, OrderStays DEF SInv

LEMMA OrderRead ==
  ASSUME SInv, QInv, NEW th \in Threads, Read(th)
  PROVE  QInv'
<1>1. /\ InCall(th, "get", "read") /\ Pop(th)
      /\ UNCHANGED <<program, ready, callbacks, alive, holds, sets, order, fate>>
  BY DEF Read, svVars, userVars
<1>2. \A u \in Threads : \A d \in 1..Depth(u) : Busy(At(u, d)) => Stays(u, d)
  BY <1>1, PopCommon, QuietTop
<1>. QED  BY <1>1, <1>2, OrderStays DEF SInv

\* The callbacks are in one frame now, in the same order.
LEMMA OrderSet ==
  ASSUME SInv, QInv, NEW th \in Threads, Set(th)
  PROVE  QInv'
<1>1. ready' = TRUE /\ UNCHANGED <<alive, order, fate>>
  BY DEF Set, userVars
<1>2. QueueTaken(th)
  BY SetStep
<1>3. ASSUME NEW a \in Callbacks, NEW b \in Callbacks, Precedes(a, b)
      PROVE  Precedes(a, b)'
  <2>1. Ahead(a, b, callbacks) => Precedes(a, b)'
    BY <1>2 DEF QueueTaken, Precedes, Ahead
  <2>. QED  BY <1>1, <1>2, <1>3, <2>1, PrecedesStays DEF SInv, QueueTaken
<1>4. InOrder'
  BY <1>1, <1>3, OrderExtends DEF SInv, QInv
<1>. QED  BY <1>1, <1>4 DEF QInv, StillQueued

\* The first callback is executed above the rest.
LEMMA OrderDispatch ==
  ASSUME SInv, QInv, NEW th \in Threads, Dispatch(th)
  PROVE  QInv'
<1> DEFINE q == Top(th).calls
<1>1. /\ InCall(th, "set", "dispatch")
      /\ UNCHANGED <<program, ready, callbacks, alive, holds, sets, order, fate>>
  BY DEF Dispatch, svVars, userVars
<1>2. /\ Top(th) = At(th, Depth(th)) /\ Top(th).op = "set" /\ Top(th) \in Frames
  BY <1>1, Innermost DEF SInv
<1>3. CASE q = <<>>
  <2>1. Pops(th)
    BY <1>1, <1>3, PopCommon DEF Dispatch
  <2>2. \A u \in Threads : \A d \in 1..Depth(u) : Stays(u, d) \/ (u = th /\ d = Depth(th))
    BY <2>1, BusyTop DEF SInv
  <2>3. ~Busy(At(th, Depth(th)))
    BY <1>2, <1>3 DEF Busy
  <2>. QED  BY <1>1, <2>2, <2>3, OrderStays DEF SInv
<1>4. CASE q # <<>>
  <2>1. FirstTaken(th)
    BY <1>4, DispatchStep
  <2>2. /\ Head(q) = q[1] /\ Len(q) >= 1 /\ Len(q) \in Nat /\ Len(Tail(q)) = Len(q) - 1
        /\ \A i \in 1..(Len(q) - 1) : Tail(q)[i] = q[i + 1]
    <3>1. q \in Seq(Callbacks)
      BY <1>2 DEF Frames
    <3>. QED  BY <1>4, <3>1, Below
  <2>3. ASSUME NEW a \in Callbacks, NEW b \in Callbacks, Precedes(a, b)
        PROVE  Precedes(a, b)'
    <3>1. ASSUME Ahead(a, b, q) PROVE Precedes(a, b)'
      <4>1. PICK j \in 1..Len(q), k \in 1..Len(q) : j < k /\ q[j] = a /\ q[k] = b
        BY <3>1 DEF Ahead
      <4>2. /\ k - 1 \in 1..Len(Tail(q)) /\ Tail(q)[k - 1] = b
        <5>1. k - 1 \in 1..(Len(q) - 1) /\ (k - 1) + 1 = k
          BY <2>2, <4>1
        <5>. QED  BY <2>2, <4>1, <5>1
      <4>3. PICK d \in 1..Depth(th)', e \in 1..Depth(th)' :
              /\ e = d + 1 /\ At(th, e)'.op = "execute" /\ At(th, e)'.arg = q[1]
              /\ At(th, d)'.calls = Tail(q)
        BY <2>1, <2>2 DEF FirstTaken
      <4>4. CASE j = 1
        BY <4>1, <4>2, <4>3, <4>4 DEF Precedes
      <4>5. CASE j # 1
        <5>1. j - 1 \in 1..(Len(q) - 1) /\ (j - 1) + 1 = j /\ j - 1 < k - 1
          BY <2>2, <4>1, <4>5
        <5>2. j - 1 \in 1..Len(Tail(q)) /\ Tail(q)[j - 1] = a
          BY <2>2, <4>1, <5>1
        <5>3. Ahead(a, b, Tail(q))
          BY <4>2, <5>1, <5>2 DEF Ahead
        <5>. QED  BY <4>3, <5>3 DEF Precedes, Ahead
      <4>. QED  BY <4>4, <4>5
    <3>2. Ahead(a, b, callbacks) => Precedes(a, b)'
      BY <1>1 DEF Precedes, Ahead
    <3>3. ASSUME NEW u \in Threads, NEW d \in 1..Depth(u)
          PROVE  \/ Stays(u, d)
                 \/ /\ d = Depth(u)
                    /\ Ahead(a, b, At(u, d).calls) => Precedes(a, b)'
                    /\ At(u, d).op = "execute" /\ At(u, d).arg = a => Precedes(a, b)'
      <4>1. Stays(u, d) \/ (u = th /\ d = Depth(th))
        BY <2>1 DEF FirstTaken
      <4>. QED  BY <1>2, <3>1, <4>1
    <3>. QED  BY <1>1, <2>3, <3>2, <3>3, PrecedesStays DEF SInv
  <2>4. InOrder'
    BY <1>1, <2>3, OrderExtends DEF SInv, QInv
  <2>5. StillQueued'
    BY <1>1 DEF QInv, StillQueued, Queued
  <2>. QED  BY <2>4, <2>5 DEF QInv
<1>. QED  BY <1>3, <1>4

\* What was executing is executed.
LEMMA OrderReturn ==
  ASSUME SInv, QInv, NEW th \in Threads, Return(th)
  PROVE  QInv'
<1> DEFINE cb == Top(th).arg
<1>1. /\ InCall(th, "execute", "body") /\ Pop(th)
      /\ UNCHANGED <<program, ready, callbacks, alive, holds, sets, order>>
      /\ fate' = [fate EXCEPT ![cb] = IF fate[cb] = "registered" THEN "executed"
                                                                  ELSE "executed twice"]
  BY DEF Return, svVars, userVars
<1>2. /\ Top(th) = At(th, Depth(th)) /\ Depth(th) \in 1..Depth(th)
      /\ Top(th).op = "execute" /\ Top(th).at = "body" /\ Fits(Top(th))
  BY <1>1, Innermost DEF SInv
<1>3. cb \in Callbacks /\ Carries(Top(th), cb) /\ Top(th).calls = <<>>
  BY <1>2 DEF Fits, Kind, Carries
<1>4. fate[cb] = "registered"
  BY <1>2, <1>3 DEF SInv, OnePlace
<1>5. fate'[cb] = "executed" /\ \A c \in Callbacks : c # cb => fate'[c] = fate[c]
  BY <1>1, <1>3, <1>4 DEF SInv, TypeOK
<1>6. \A u \in Threads : \A d \in 1..Depth(u) : Stays(u, d) \/ (u = th /\ d = Depth(th))
  BY <1>1, PopCommon, BusyTop DEF SInv
<1>7. ASSUME NEW a \in Callbacks, NEW b \in Callbacks, Precedes(a, b)
      PROVE  Precedes(a, b)'
  <2>1. Ahead(a, b, callbacks) => Precedes(a, b)'
    BY <1>1 DEF Precedes, Ahead
  <2>2. a = cb => Precedes(a, b)'
    BY <1>5 DEF Precedes
  <2>3. ~Ahead(a, b, Top(th).calls)
    BY <1>3, EmptySeq DEF Ahead
  <2>4. /\ fate[a] = "executed" => fate'[a] = "executed"
        /\ fate[b] = "dropped" => fate'[b] = "dropped"
    BY <1>4, <1>5
  <2>5. \A u \in Threads : \A d \in 1..Depth(u) :
          \/ Stays(u, d)
          \/ /\ d = Depth(u)
             /\ Ahead(a, b, At(u, d).calls) => Precedes(a, b)'
             /\ At(u, d).op = "execute" /\ At(u, d).arg = a => Precedes(a, b)'
    BY <1>2, <1>6, <2>2, <2>3
  <2>. QED  BY <1>7, <2>1, <2>4, <2>5, PrecedesStays DEF SInv
<1>8. InOrder'
  BY <1>1, <1>7, OrderExtends DEF SInv, QInv
<1>9. StillQueued'
  BY <1>1 DEF QInv, StillQueued, Queued
<1>. QED  BY <1>8, <1>9 DEF QInv

\* A callback is queued behind all that were, or executed here.
LEMMA OrderNotify ==
  ASSUME SInv, QInv, NEW th \in Threads, Notify(th)
  PROVE  QInv'
<1> DEFINE cb == Top(th).arg
<1>1. InCall(th, "notify", "locked") /\ UNCHANGED <<program, ready, alive, holds, sets, fate>>
  BY DEF Notify, userVars
<1>2. Top(th) \in Frames /\ Fits(Top(th)) /\ Top(th).op = "notify" /\ alive /\ stack[th] # <<>>
  BY <1>1, Innermost DEF SInv
<1>3. cb \in Callbacks
  BY <1>2 DEF Fits, Kind
<1>4. CASE ready
  <2> DEFINE f == Frame("execute", "body", cb, <<>>)
  <2>1. /\ stack' = [stack EXCEPT ![th] = <<f>> \o Tail(stack[th])]
        /\ UNCHANGED <<callbacks, order>>
    BY <1>4 DEF Notify
  <2>2. f \in Frames
    BY <1>3 DEF Frame, Frames
  <2>3. Changes(th, f)
    BY <1>2, <2>1, <2>2, ReplaceChanges DEF SInv
  <2>4. \A u \in Threads : \A d \in 1..Depth(u) : Busy(At(u, d)) => Stays(u, d)
    BY <1>1, <2>3, QuietTop
  <2>. QED  BY <1>1, <2>1, <2>4, OrderStays DEF SInv
<1>5. CASE ~ready
  <2>1. /\ callbacks' = Append(callbacks, cb) /\ order' = Append(order, cb) /\ Pop(th)
    BY <1>5 DEF Notify, Add
  <2>2. \A u \in Threads : \A d \in 1..Depth(u) : Busy(At(u, d)) => Stays(u, d)
    BY <1>1, <2>1, PopCommon, QuietTop
  <2>3. /\ Len(callbacks) \in Nat /\ Len(callbacks') = Len(callbacks) + 1
        /\ \A i \in 1..Len(callbacks) : callbacks'[i] = callbacks[i]
        /\ callbacks'[Len(callbacks) + 1] = cb
    <3>1. callbacks \in Seq(Callbacks)
      BY DEF SInv, TypeOK
    <3>. QED  BY <1>3, <2>1, <3>1, AppendProperties, LenProperties
  <2>4. /\ Len(order) \in Nat /\ Len(order') = Len(order) + 1
        /\ \A i \in 1..Len(order) : order'[i] = order[i] /\ order[i] \in Callbacks
        /\ order'[Len(order) + 1] = cb
    BY <1>3, <2>1, Registered, AppendProperties DEF SInv
  <2>5. ASSUME NEW a \in Callbacks, NEW b \in Callbacks, Precedes(a, b)
        PROVE  Precedes(a, b)'
    <3>1. Ahead(a, b, callbacks) => Ahead(a, b, callbacks)'
      BY <2>3 DEF Ahead
    <3>2. Ahead(a, b, callbacks) => Precedes(a, b)'
      BY <3>1 DEF Precedes
    <3>. QED  BY <1>1, <2>2, <2>5, <3>2, PrecedesStays DEF SInv
  <2>6. ASSUME NEW a \in Callbacks, NEW b \in Callbacks, Queued(a), b = cb
        PROVE  Precedes(a, b)'
    <3>1. \E j, k \in 1..Len(callbacks') : j < k /\ callbacks'[j] = a /\ callbacks'[k] = b
      BY <2>3, <2>6 DEF Queued
    <3>. QED  BY <3>1 DEF Precedes, Ahead
  <2>7. \A i \in 1..Len(order) : Queued(order[i])
    BY <1>2, <1>5 DEF QInv, StillQueued
  <2>8. InOrder'
    <3>1. ASSUME NEW i \in 1..Len(order'), NEW j \in 1..Len(order'), i < j
          PROVE  Precedes(order[i], order[j])'
      <4>1. CASE j \in 1..Len(order)
        <5>1. /\ order'[i] = order[i] /\ order[i] \in Callbacks
              /\ order'[j] = order[j] /\ order[j] \in Callbacks /\ Precedes(order[i], order[j])
          BY <2>4, <3>1, <4>1 DEF QInv, InOrder
        <5>2. \A a, b \in Callbacks : a = order'[i] /\ b = order'[j] => Precedes(a, b)'
          BY <2>5, <5>1
        <5>. QED  BY <5>1, <5>2
      <4>2. CASE j = Len(order) + 1
        <5>1. /\ order'[i] \in Callbacks /\ order'[j] = cb /\ Queued(order'[i])
          BY <2>4, <2>7, <3>1, <4>2
        <5>2. \A a, b \in Callbacks : a = order'[i] /\ b = order'[j] => Precedes(a, b)'
          BY <2>6, <5>1
        <5>. QED  BY <1>3, <5>1, <5>2
      <4>. QED  BY <2>4, <4>1, <4>2
    <3>. QED  BY <3>1 DEF InOrder
  <2>9. StillQueued'
    <3>1. \A c : Queued(c) \/ c = cb => Queued(c)'
      BY <2>3 DEF Queued
    <3>2. \A i \in 1..Len(order') : Queued(order'[i]) \/ order'[i] = cb
      BY <2>4, <2>7
    <3>. QED  BY <3>1, <3>2 DEF StillQueued, Queued
  <2>. QED  BY <2>8, <2>9 DEF QInv
<1>. QED  BY <1>4, <1>5

\* What is dropped will not be executed.
LEMMA OrderRelease ==
  ASSUME SInv, QInv, NEW th \in Threads, Release(th)
  PROVE  QInv'
<1>1. stack' = stack /\ order' = order /\ ready' = ready
  BY DEF Release
<1>2. \A u \in Threads : \A d \in 1..Depth(u) : Stays(u, d)
  BY <1>1 DEF Stays, Depth, At
<1>3. CASE \E u \in Threads \ {th} : holds[u]
  <2>1. UNCHANGED <<alive, callbacks, fate>>
    BY <1>3 DEF Release
  <2>. QED  BY <1>1, <1>2, <2>1, OrderStays DEF SInv
<1>4. CASE ~ \E u \in Threads \ {th} : holds[u]
  <2>1. /\ alive' = FALSE
        /\ fate' = [cb \in Callbacks |-> IF Queued(cb) THEN "dropped" ELSE fate[cb]]
    BY <1>4 DEF Release, Queued
  <2>2. ASSUME NEW a \in Callbacks, NEW b \in Callbacks, Precedes(a, b)
        PROVE  Precedes(a, b)'
    <3>1. Ahead(a, b, callbacks) => fate'[b] = "dropped"
      BY <2>1 DEF Ahead, Queued
    <3>2. Ahead(a, b, callbacks) => Precedes(a, b)'
      BY <3>1 DEF Precedes
    <3>3. fate[a] = "executed" => fate'[a] = "executed"
      BY <2>1 DEF SInv, OnePlace
    <3>4. fate[b] = "dropped" => fate'[b] = "dropped"
      BY <2>1
    <3>. QED  BY <1>2, <2>2, <3>2, <3>3, <3>4, PrecedesStays DEF SInv
  <2>3. InOrder'
    BY <1>1, <2>2, OrderExtends DEF SInv, QInv
  <2>. QED  BY <2>1, <2>3 DEF QInv, StillQueued
<1>. QED  BY <1>3, <1>4

LEMMA QInvInit == Init => QInv
<1> SUFFICES ASSUME Init PROVE QInv
  OBVIOUS
<1>1. order = <<>>
  BY DEF Init
<1>. QED  BY <1>1, EmptySeq DEF QInv, InOrder, StillQueued

LEMMA QInvStep == SInv /\ QInv /\ [Next]_vars => QInv'
<1> SUFFICES ASSUME SInv, QInv, [Next]_vars PROVE QInv'
  OBVIOUS
<1>1. ASSUME NEW th \in Threads, Step(th) PROVE QInv'
  BY <1>1, OrderGoto, OrderRead, OrderSet, OrderDispatch, OrderReturn, OrderNotify DEF Step
<1>2. CASE UNCHANGED vars
  <2>1. UNCHANGED <<ready, callbacks, alive, order, stack, fate>>
    BY <1>2 DEF vars, svVars, userVars
  <2>2. \A u \in Threads : \A d \in 1..Depth(u) : Stays(u, d)
    BY <2>1 DEF Stays, Depth, At
  <2>. QED  BY <2>1, <2>2, OrderStays DEF SInv
<1>. QED  BY <1>1, <1>2, OrderCall, OrderGoto, OrderRelease DEF Next, Finished

-----------------------------------------------------------------------------
(* The theorems.                                                           *)

\* The types (futures.h:95-113).
THEOREM TypeCorrect == Spec => []TypeOK
<1>1. SInv => TypeOK
  BY DEF SInv
<1>. QED  BY Invariant, <1>1, PTL

\* A Notify() or Get() that races with Set() is not left behind in the queue or
\* asleep (futures.h:121-127, 131-136, 140-151).
THEOREM NobodyIsStranded == Spec => []NobodyStranded
<1>1. SInv => NobodyStranded
  <2> SUFFICES ASSUME SInv, ready PROVE callbacks = <<>> /\ Waiting = {}
    BY DEF NobodyStranded
  <2>1. callbacks = <<>>
    BY DEF SInv, Settled
  <2>2. ASSUME NEW th \in Threads, InCall(th, "get", "wait") PROVE FALSE
    <3>1. Fits(Top(th)) /\ Top(th).at = "wait"
      BY <2>2, Innermost DEF SInv
    <3>. QED  BY <3>1 DEF Fits
  <2>. QED  BY <2>1, <2>2 DEF Waiting
<1>. QED  BY Invariant, <1>1, PTL

\* A callback that calls Get() or Notify() blocks neither itself nor the mutex
\* ("this makes it possible for a callback to call Get() on a future without
\* causing deadlock", futures.h:121-123).
THEOREM CallbacksNeverBlock == Spec => []CallbacksDoNotBlock
<1>1. SInv => CallbacksDoNotBlock
  <2> SUFFICES ASSUME SInv, NEW th \in Threads
               PROVE  /\ mutex = th => Top(th).at = "locked"
                      /\ (\E i \in 1..Len(stack[th]) : stack[th][i].op = "execute")
                           => th \notin Waiting
    BY DEF CallbacksDoNotBlock
  <2>1. mutex = th => Top(th).at = "locked"
    <3> SUFFICES ASSUME mutex = th PROVE Top(th).at = "locked"
      OBVIOUS
    <3>1. Depth(th) > 0 /\ At(th, Depth(th)).at = "locked"
      BY DEF SInv, Excludes, Locks
    <3>2. Top(th) = At(th, Depth(th))
      BY <3>1, Stacks DEF SInv
    <3>. QED  BY <3>1, <3>2
  <2>2. ASSUME NEW i \in 1..Len(stack[th]), stack[th][i].op = "execute" PROVE th \notin Waiting
    <3> DEFINE d == Len(stack[th]) + 1 - i
    <3>1. Len(stack[th]) \in Nat
      BY Stacks DEF SInv, Depth
    <3>2. d \in 1..Depth(th) /\ Len(stack[th]) + 1 - d = i
      BY <3>1 DEF Depth
    <3>3. At(th, d).op = "execute"
      BY <2>2, <3>2 DEF At
    <3>4. ready
      BY <3>2, <3>3 DEF SInv, Shaped, Fits, Kind
    <3>5. ASSUME InCall(th, "get", "wait") PROVE FALSE
      <4>1. Fits(Top(th)) /\ Top(th).at = "wait"
        BY <3>5, Innermost DEF SInv
      <4>. QED  BY <3>4, <4>1 DEF Fits
    <3>. QED  BY <3>5 DEF Waiting
  <2>. QED  BY <2>1, <2>2
<1>. QED  BY Invariant, <1>1, PTL

\* The read of value_ after the unlock in Get() is ordered after the only write
\* (futures.h:115, 136-137).
LEMMA ReadsFollowTheWrite == SInv => ReadsAreOrdered
<1> SUFFICES ASSUME SInv, SetOnce, NEW th \in Threads, InCall(th, "get", "read"),
                    NEW u \in Threads, InCall(u, "set", "locked")
             PROVE  FALSE
  BY DEF ReadsAreOrdered, Writing
<1>1. ready
  <2>1. Fits(Top(th)) /\ Top(th).at = "read"
    BY Innermost DEF SInv
  <2>. QED  BY <2>1 DEF Fits
<1>2. Setting(u)
  <2>1. Top(u) = At(u, Depth(u)) /\ Depth(u) >= 1 /\ Top(u).op = "set" /\ Top(u).at = "locked"
        /\ Depth(u) \in Nat
    BY Innermost DEF SInv
  <2>. QED  BY <2>1 DEF Setting
<1>. QED  BY <1>1, <1>2 DEF SInv, WrittenOnce

\* The same, of every execution (futures.h:115, 136-137).
THEOREM ReadsAreAlwaysOrdered == Spec => []ReadsAreOrdered
<1>. QED  BY Invariant, ReadsFollowTheWrite, PTL

\* No callback is executed twice, before the value is set, or after it was
\* dropped (futures.h:121-127, 140-151).
THEOREM CallbacksExecutedOnce == Spec => []ExecutedOnce
<1>1. SInv => ExecutedOnce
  BY DEF SInv
<1>. QED  BY Invariant, <1>1, PTL

\* Callbacks that were queued before the value was set are executed in the order of
\* their registration, one after the other (futures.h:121-127, 140-151).
THEOREM CallbacksKeepTheirOrder == Spec => []QueuedInOrder
<1>1. SInv /\ QInv => QueuedInOrder
  <2> SUFFICES ASSUME SInv, QInv, NEW i \in 1..Len(order), NEW j \in 1..Len(order), i < j,
                      fate[order[j]] = "executed"
               PROVE  fate[order[i]] = "executed"
    BY DEF QueuedInOrder
  <2> DEFINE a == order[i]
             b == order[j]
  <2>1. Precedes(a, b) /\ b \in Callbacks
    BY Registered DEF QInv, InOrder, SInv
  <2>2. fate[b] # "dropped" /\ fate[b] # "registered"
    OBVIOUS
  <2>3. ASSUME Ahead(a, b, callbacks) PROVE FALSE
    <3>1. Queued(b)
      BY <2>3 DEF Ahead, Queued
    <3>. QED  BY <2>1, <2>2, <3>1 DEF SInv, OnePlace
  <2>4. ASSUME NEW th \in Threads, NEW d \in 1..Depth(th), NEW k \in 1..Len(At(th, d).calls),
               At(th, d).calls[k] = b
        PROVE  FALSE
    <3>1. Carries(At(th, d), b)
      BY <2>4 DEF Carries
    <3>. QED  BY <2>1, <2>2, <3>1 DEF SInv, OnePlace
  <2>. QED  BY <2>1, <2>2, <2>3, <2>4 DEF Precedes, Ahead
<1>. QED  BY Invariant, QInvInit, QInvStep, <1>1, PTL DEF Spec

-----------------------------------------------------------------------------
(* The contract.                                                           *)

\* The value that was eventually assigned.
Assigned == IF ready THEN value ELSE Default

LEMMA InitMaps == Init => Contract!Init
<1> SUFFICES ASSUME Init PROVE Contract!Init
  OBVIOUS
<1>1. SetOnce \in BOOLEAN
  BY DEF SetOnce
<1>2. /\ ready = FALSE /\ fate = [cb \in Callbacks |-> "new"]
      /\ answer = [th \in Threads |-> Default]
  BY DEF Init
<1>. QED  BY <1>1, <1>2 DEF Contract!Init

\* A step that leaves what the contract sees.
LEMMA Unseen ==
  ASSUME UNCHANGED <<program, ready, value, fate, answer>>
  PROVE  UNCHANGED Contract!vars
BY DEF Contract!vars, SetOnce

LEMMA SetMaps ==
  ASSUME SInv, NEW th \in Threads, Set(th)
  PROVE  Contract!Next
<1>1. /\ InCall(th, "set", "locked") /\ value' = Top(th).arg /\ ready' = TRUE
      /\ UNCHANGED <<program, fate, answer>>
  BY DEF Set, userVars
<1>2. /\ Top(th) = At(th, Depth(th)) /\ Depth(th) \in Nat /\ Depth(th) >= 1
      /\ Top(th).op = "set" /\ Top(th).at = "locked" /\ Fits(Top(th))
  BY <1>1, Innermost DEF SInv
<1>3. Top(th).arg \in Values
  BY <1>2 DEF Fits, Kind
<1>4. SetOnce => ~ready
  <2>1. Setting(th)
    BY <1>2 DEF Setting
  <2>. QED  BY <2>1 DEF SInv, WrittenOnce
<1>5. SetOnce' = SetOnce /\ Assigned' = Top(th).arg
  BY <1>1 DEF SetOnce, Assigned
<1>6. Contract!SetValue(Top(th).arg)
  BY <1>1, <1>4, <1>5 DEF Contract!SetValue, Assigned
<1>. QED  BY <1>3, <1>6 DEF Contract!Next

LEMMA ReadMaps ==
  ASSUME SInv, NEW th \in Threads, Read(th)
  PROVE  Contract!Next
<1>1. /\ InCall(th, "get", "read") /\ UNCHANGED <<program, ready, value, fate>>
      /\ \E v \in IF Writing THEN Values \cup {Torn} ELSE {value} :
           answer' = [answer EXCEPT ![th] = v]
  BY DEF Read, svVars, userVars
<1>2. ready /\ value \in Values /\ value # Default
  <2>1. Fits(Top(th)) /\ Top(th).at = "read"
    BY <1>1, Innermost DEF SInv
  <2>. QED  BY <2>1, SharedValueAssumption DEF Fits, SInv, Settled
<1>3. SetOnce => ~Writing
  BY <1>1, ReadsFollowTheWrite DEF ReadsAreOrdered
<1>4. \E v \in IF SetOnce THEN {value} ELSE Values \cup {Torn} :
        answer' = [answer EXCEPT ![th] = v]
  BY <1>1, <1>2, <1>3
<1>5. SetOnce' = SetOnce /\ Assigned = value /\ Assigned' = Assigned
  BY <1>1, <1>2 DEF SetOnce, Assigned
<1>6. Contract!GetValue(th)
  BY <1>1, <1>2, <1>4, <1>5 DEF Contract!GetValue, Assigned
<1>. QED  BY <1>6 DEF Contract!Next

LEMMA ReturnMaps ==
  ASSUME SInv, NEW th \in Threads, Return(th)
  PROVE  Contract!Next
<1> DEFINE cb == Top(th).arg
<1>1. /\ InCall(th, "execute", "body") /\ UNCHANGED <<program, ready, value, answer>>
      /\ fate' = [fate EXCEPT ![cb] = IF fate[cb] = "registered" THEN "executed"
                                                                  ELSE "executed twice"]
  BY DEF Return, svVars, userVars
<1>2. /\ Top(th) = At(th, Depth(th)) /\ Depth(th) \in 1..Depth(th)
      /\ Top(th).op = "execute" /\ Top(th).at = "body" /\ Fits(Top(th))
  BY <1>1, Innermost DEF SInv
<1>3. cb \in Callbacks /\ ready /\ Carries(Top(th), cb)
  BY <1>2 DEF Fits, Kind, Carries
<1>4. fate[cb] = "registered" /\ value # Default
  BY <1>2, <1>3, SharedValueAssumption DEF SInv, OnePlace, Settled
<1>5. SetOnce' = SetOnce /\ Assigned' = Assigned
  BY <1>1 DEF SetOnce, Assigned
<1>6. fate' = [fate EXCEPT ![cb] = "executed"]
  BY <1>1, <1>4
<1>7. Contract!Execute(cb)
  BY <1>1, <1>3, <1>4, <1>5, <1>6 DEF Contract!Execute, Assigned
<1>. QED  BY <1>3, <1>7 DEF Contract!Next

\* What is dropped with the last handle is the whole of what is registered.
LEMMA ReleaseMaps ==
  ASSUME SInv, NEW th \in Threads, Release(th)
  PROVE  Contract!Next \/ UNCHANGED Contract!vars
<1>1. /\ stack[th] = <<>> /\ UNCHANGED <<program, ready, value, stack, answer>>
  BY DEF Release
<1>2. CASE \E u \in Threads \ {th} : holds[u]
  BY <1>1, <1>2, Unseen DEF Release
<1>3. CASE ~ \E u \in Threads \ {th} : holds[u]
  <2>1. fate' = [cb \in Callbacks |-> IF Queued(cb) THEN "dropped" ELSE fate[cb]]
    BY <1>3 DEF Release, Queued
  <2>2. \A u \in Threads : Depth(u) = 0
    <3>1. Depth(th) = 0
      BY <1>1, Stacks DEF SInv
    <3>2. ASSUME NEW u \in Threads, u # th PROVE Depth(u) = 0
      <4>1. ~(Depth(u) > 0) /\ Depth(u) \in Nat
        BY <1>3, <3>2, Stacks DEF SInv, Kept
      <4>. QED  BY <4>1
    <3>. QED  BY <3>1, <3>2
  <2>3. \A cb \in Callbacks : Queued(cb) <=> fate[cb] = "registered"
    BY <2>2 DEF SInv, OnePlace
  <2>4. SetOnce' = SetOnce /\ Assigned' = Assigned
    BY <1>1 DEF SetOnce, Assigned
  <2>5. CASE ready
    <3>1. \A cb \in Callbacks : ~Queued(cb)
      BY <2>5, EmptySeq DEF SInv, Settled, Queued
    <3>2. fate' = fate
      BY <2>1, <3>1 DEF SInv, TypeOK
    <3>. QED  BY <1>1, <3>2, Unseen
  <2>6. CASE ~ready
    <3>1. fate' = [cb \in Callbacks |-> IF fate[cb] = "registered" THEN "dropped" ELSE fate[cb]]
      BY <2>1, <2>3
    <3>2. Contract!Drop
      BY <1>1, <2>4, <2>6, <3>1 DEF Contract!Drop, Assigned
    <3>. QED  BY <3>2 DEF Contract!Next
  <2>. QED  BY <2>5, <2>6
<1>. QED  BY <1>2, <1>3

LEMMA CallNotifyMaps ==
  ASSUME NEW th \in Threads, NEW cb \in Callbacks, CallNotify(th, cb)
  PROVE  Contract!Next
<1>1. /\ fate[cb] = "new" /\ fate' = [fate EXCEPT ![cb] = "registered"]
      /\ UNCHANGED <<program, ready, value, answer>>
  BY DEF CallNotify, svVars, userVars
<1>2. SetOnce' = SetOnce /\ Assigned' = Assigned
  BY <1>1 DEF SetOnce, Assigned
<1>3. Contract!Notify(cb)
  BY <1>1, <1>2 DEF Contract!Notify, Assigned
<1>. QED  BY <1>3 DEF Contract!Next

LEMMA StepMaps == SInv /\ [Next]_vars => [Contract!Next]_(Contract!vars)
<1> SUFFICES ASSUME SInv, [Next]_vars PROVE Contract!Next \/ UNCHANGED Contract!vars
  OBVIOUS
<1>1. ASSUME NEW th \in Threads, Call(th) PROVE Contract!Next \/ UNCHANGED Contract!vars
  <2>1. ASSUME NEW v \in Values, CallSet(th, v) PROVE UNCHANGED Contract!vars
    BY <2>1, Unseen DEF CallSet, svVars
  <2>2. CASE CallGet(th)
    BY <2>2, Unseen DEF CallGet, svVars
  <2>. QED  BY <1>1, <2>1, <2>2, CallNotifyMaps DEF Call
<1>2. ASSUME NEW th \in Threads, Step(th) PROVE Contract!Next \/ UNCHANGED Contract!vars
  <2>1. CASE Lock(th)
    BY <2>1, Unseen DEF Lock, userVars
  <2>2. CASE Dispatch(th)
    BY <2>2, Unseen DEF Dispatch, svVars, userVars
  <2>3. CASE Get(th)
    BY <2>3, Unseen DEF Get, userVars
  <2>4. CASE Notify(th)
    BY <2>4, Unseen DEF Notify, userVars
  <2>. QED  BY <1>2, <2>1, <2>2, <2>3, <2>4, SetMaps, ReturnMaps, ReadMaps DEF Step
<1>3. ASSUME NEW th \in Threads, SpuriousWakeup(th) PROVE UNCHANGED Contract!vars
  BY <1>3, Unseen DEF SpuriousWakeup, svVars, userVars
<1>4. CASE UNCHANGED vars
  BY <1>4, Unseen DEF vars, svVars, userVars
<1>. QED  BY <1>1, <1>2, <1>3, <1>4, ReleaseMaps DEF Next, Finished

\* SharedValue keeps what a Promise and its Futures promise: CallNotify registers,
\* Set assigns, the read answers, the return of a callback executes it, and the
\* last handle drops (futures.h:95-151).
THEOREM SharedValueImplementsContract == Spec => ImplementsContract
<1>. QED  BY InitMaps, StepMaps, Invariant, PTL DEF Spec, ImplementsContract, Contract!Spec
=============================================================================

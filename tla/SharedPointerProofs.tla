-------------------------- MODULE SharedPointerProofs --------------------------
(***************************************************************************)
(* SharedPointer proved for any threads, variables and objects: the count  *)
(* is exact, and nothing is used after its deletion.                       *)
(*                                                                         *)
(* The count is not exact by itself: a copy takes the pointer first and    *)
(* counts it later.  In between, the variable it copies from has to keep   *)
(* the object alive, so nobody may write that variable (Exclusive), and    *)
(* the pointer in hand has to be the one in the variable (Shaped).         *)
(***************************************************************************)
EXTENDS SharedPointer, FiniteSetTheorems, TLAPS

\* What the operation of a thread knows of the variables it works on.
ShapeOf(f) ==
    /\ f.at = "idle" => f = Idle
    /\ f.at # "idle" => f.obj \in Objects
    /\ f.at \in {"copy", "assign", "store", "swap"} => f.dst \in Slots
    /\ f.at \in {"copy", "assign"} => f.src \in Slots /\ deleter[f.src] = f.obj
    /\ f.at \in {"copy", "store"} => deleter[f.dst] = None
    /\ f.at \in {"assign", "swap"} => deleter[f.dst] # None

Shaped == \A th \in Threads : ShapeOf(op[th])

\* Nobody else touches the variable that an operation writes.
Exclusive ==
    \A th, u \in Threads : th # u /\ op[th].dst # None =>
        op[th].dst # op[u].dst /\ op[th].dst # op[u].src

\* An object that is not there, or about to go, has no pointer left.
Deleting(th, o) == op[th].at = "delete" /\ op[th].obj = o
Dying(o) == life[o] # "alive" \/ \E th \in Threads : Deleting(th, o)
Unused(o) == Pointers(o) = {} /\ InHand(o) = {}

DyingUnused ==
    /\ \A o \in Objects : Dying(o) => Unused(o)
    /\ \A th \in Threads : op[th].at = "delete" => life[op[th].obj] = "alive"
    /\ \A th, u \in Threads, o \in Objects : Deleting(th, o) /\ Deleting(u, o) => th = u

IInv == TypeOK /\ Shaped /\ Exclusive /\ CountIsExact /\ DyingUnused

-----------------------------------------------------------------------------
LEMMA FiniteCounts ==
  \A o \in Objects :
    /\ IsFiniteSet(Pointers(o)) /\ Cardinality(Pointers(o)) \in Nat
    /\ IsFiniteSet(InHand(o)) /\ Cardinality(InHand(o)) \in Nat
<1>1. \A o \in Objects : Pointers(o) \in SUBSET Slots /\ InHand(o) \in SUBSET Threads
  BY DEF Pointers, InHand
<1>. QED  BY <1>1, SharedPointerAssumption, FS_Subset, FS_CardinalityType

LEMMA InitInv == Init => IInv
<1> SUFFICES ASSUME Init PROVE IInv
  OBVIOUS
<1>1. TypeOK
  BY DEF Init, TypeOK, Idle, Op, Steps
<1>2. \A o \in Objects : Unused(o)
  BY SharedPointerAssumption DEF Init, Unused, Pointers, InHand, Idle, Op
<1>3. CountIsExact
  BY <1>2, FS_EmptySet DEF Init, CountIsExact, Unused
<1>4. Shaped /\ Exclusive
  BY DEF Init, Shaped, ShapeOf, Exclusive, Idle, Op
<1>5. DyingUnused
  BY <1>2 DEF Init, DyingUnused, Deleting, Idle, Op
<1>. QED  BY <1>1, <1>3, <1>4, <1>5 DEF IInv

\* One operation begins; nothing is counted yet.
LEMMA BeginReadInv ==
  ASSUME IInv, NEW th \in Threads, NEW d \in Slots, NEW s \in Slots,
         BeginCopy(th, d, s) \/ BeginAssign(th, d, s)
  PROVE  IInv'
<1> USE DEF IInv
<1> DEFINE what == op'[th].at
<1>1. /\ what \in {"copy", "assign"} /\ op[th] = Idle
      /\ op' = [op EXCEPT ![th] = Op(what, d, s, deleter[s])]
      /\ UNCHANGED <<deleter, refCount, life>>
      /\ deleter[s] \in Objects
      /\ what = "copy" => deleter[d] = None
      /\ what = "assign" => deleter[d] # None
  BY DEF BeginCopy, BeginAssign, Begin, Op, Readable, TypeOK
<1>2. /\ op'[th] = Op(what, d, s, deleter[s])
      /\ \A u \in Threads \ {th} : op'[u] = op[u]
  BY <1>1 DEF TypeOK
<1>3. TypeOK'
  BY <1>1 DEF TypeOK, Op, Steps
<1>4. Shaped'
  <2>1. ASSUME NEW u \in Threads \ {th} PROVE ShapeOf(op[u])'
    BY <1>1, <1>2 DEF Shaped, ShapeOf
  <2>2. ShapeOf(op[th])'
    BY <1>1, <1>2 DEF ShapeOf, Op
  <2>. QED  BY <2>1, <2>2 DEF Shaped
<1>5. Exclusive'
  <2>1. \A u \in Threads : d # op[u].dst /\ d # op[u].src /\ s # op[u].dst
    BY DEF BeginCopy, BeginAssign, Writable, Readable
  <2>. QED  BY <1>2, <2>1 DEF Exclusive, Op
<1>6. \A o \in Objects : UNCHANGED <<Pointers(o), InHand(o)>>
  BY <1>1, <1>2 DEF Pointers, InHand, Op, Idle
<1>7. CountIsExact'
  BY <1>1, <1>6 DEF CountIsExact
<1>8. DyingUnused'
  BY <1>1, <1>2, <1>6 DEF DyingUnused, Dying, Deleting, Unused, Op, Idle
<1>. QED  BY <1>3, <1>4, <1>5, <1>7, <1>8

\* The first pointer to a new object.
LEMMA MakeInv ==
  ASSUME IInv, NEW th \in Threads, NEW s \in Slots, NEW o \in Objects, Make(th, s, o)
  PROVE  IInv'
<1> USE DEF IInv
<1>1. /\ deleter' = [deleter EXCEPT ![s] = o] /\ deleter[s] = None
      /\ life' = [life EXCEPT ![o] = "alive"] /\ life[o] = "new"
      /\ refCount' = [refCount EXCEPT ![o] = 1]
      /\ op' = op
      /\ \A u \in Threads : s # op[u].dst /\ s # op[u].src
  BY DEF Make, Writable
<1>2. TypeOK'
  BY <1>1 DEF TypeOK
<1>3. Unused(o) /\ ~\E u \in Threads : Deleting(u, o)
  BY <1>1 DEF DyingUnused, Dying, Deleting
<1>4. \A r \in Slots \ {s} : deleter'[r] = deleter[r]
  BY <1>1 DEF TypeOK
<1>5. Shaped' /\ Exclusive'
  <2>1. ASSUME NEW u \in Threads PROVE ShapeOf(op[u])'
    BY <1>1, <1>4 DEF Shaped, ShapeOf
  <2>. QED  BY <1>1, <2>1 DEF Shaped, Exclusive
<1>6. /\ Pointers(o)' = {s}
      /\ \A q \in Objects \ {o} : Pointers(q)' = Pointers(q)
      /\ \A q \in Objects : InHand(q)' = InHand(q)
  <2>1. \A r \in Slots : deleter[r] # o
    BY <1>3 DEF Unused, Pointers
  <2>2. deleter'[s] = o /\ o # None
    BY <1>1, SharedPointerAssumption DEF TypeOK
  <2>3. Pointers(o)' = {s}
    BY <1>4, <2>1, <2>2 DEF Pointers
  <2>4. \A q \in Objects \ {o} : Pointers(q)' = Pointers(q)
    BY <1>1, <1>4, <2>2, SharedPointerAssumption DEF Pointers
  <2>5. \A q \in Objects : InHand(q)' = InHand(q)
    BY <1>1 DEF InHand
  <2>. QED  BY <2>3, <2>4, <2>5
<1>7. refCount'[o] = 1 /\ \A q \in Objects \ {o} : refCount'[q] = refCount[q]
  BY <1>1 DEF TypeOK
<1>8. Cardinality({s}) = 1
  BY FS_Singleton
<1>9. Cardinality(InHand(o)) = 0
  BY <1>3, FS_EmptySet DEF Unused
<1>10. refCount'[o] = Cardinality(Pointers(o)') + Cardinality(InHand(o)')
  BY <1>6, <1>7, <1>8, <1>9
<1>11. CountIsExact'
  BY <1>6, <1>7, <1>10 DEF CountIsExact
<1>12. DyingUnused'
  BY <1>1, <1>3, <1>6 DEF DyingUnused, Dying, Deleting, Unused, TypeOK
<1>. QED  BY <1>2, <1>5, <1>11, <1>12

\* The pointer that was copied is counted, and is in hand from then on.
LEMMA UpInv ==
  ASSUME IInv, NEW th \in Threads, NEW o, op[th].obj = o, Up(th)
  PROVE  IInv'
<1> USE DEF IInv
<1> DEFINE next == IF op[th].at = "copy" THEN "store" ELSE "swap"
<1>1. /\ op[th].at \in {"copy", "assign"}
      /\ refCount' = [refCount EXCEPT ![o] = refCount[o] + 1]
      /\ op' = [op EXCEPT ![th].at = next]
      /\ UNCHANGED <<deleter, life>>
  BY DEF Up, Incremented, Goto
<1>2. /\ o \in Objects /\ op[th].src \in Slots /\ deleter[op[th].src] = o
      /\ op[th].src \in Pointers(o)
  BY <1>1 DEF Shaped, ShapeOf, Pointers
<1>3. /\ op'[th] = [op[th] EXCEPT !.at = next]
      /\ \A u \in Threads \ {th} : op'[u] = op[u]
  BY <1>1 DEF TypeOK
<1>4. /\ op'[th].at = next /\ op'[th].obj = o
      /\ op'[th].dst = op[th].dst /\ op'[th].src = op[th].src
  BY <1>3 DEF TypeOK
<1>5. TypeOK'
  BY <1>1, <1>2 DEF TypeOK, Steps
<1>6. Shaped'
  <2>1. ASSUME NEW u \in Threads \ {th} PROVE ShapeOf(op[u])'
    BY <1>1, <1>3 DEF Shaped, ShapeOf
  <2>2. ShapeOf(op[th])'
    BY <1>1, <1>4 DEF Shaped, ShapeOf
  <2>. QED  BY <2>1, <2>2 DEF Shaped
<1>7. Exclusive'
  <2>1. \A u \in Threads : op'[u].dst = op[u].dst /\ op'[u].src = op[u].src
    BY <1>3, <1>4
  <2>. QED  BY <2>1 DEF Exclusive
<1>8. /\ \A q \in Objects : Pointers(q)' = Pointers(q)
      /\ \A q \in Objects \ {o} : InHand(q)' = InHand(q)
      /\ InHand(o)' = InHand(o) \cup {th} /\ th \notin InHand(o)
  <2>1. \A q \in Objects : Pointers(q)' = Pointers(q)
    BY <1>1 DEF Pointers
  <2>2. \A q \in Objects \ {o} : InHand(q)' = InHand(q)
    BY <1>3, <1>4 DEF InHand
  <2>3. InHand(o)' = InHand(o) \cup {th} /\ th \notin InHand(o)
    BY <1>1, <1>3, <1>4 DEF InHand
  <2>. QED  BY <2>1, <2>2, <2>3
<1>9. refCount'[o] = refCount[o] + 1 /\ \A q \in Objects \ {o} : refCount'[q] = refCount[q]
  BY <1>1, <1>2 DEF TypeOK
<1>10. Cardinality(InHand(o)') = Cardinality(InHand(o)) + 1
  BY <1>2, <1>8, FiniteCounts, FS_AddElement
<1>11. CountIsExact'
  <2>1. refCount'[o] = Cardinality(Pointers(o)') + Cardinality(InHand(o)')
    BY <1>2, <1>8, <1>9, <1>10, FiniteCounts DEF CountIsExact
  <2>. QED  BY <1>8, <1>9, <2>1 DEF CountIsExact
<1>12. ~Dying(o)
  BY <1>2 DEF DyingUnused, Unused
<1>13. DyingUnused'
  BY <1>1, <1>2, <1>3, <1>4, <1>8, <1>12 DEF DyingUnused, Dying, Deleting, Unused
<1>. QED  BY <1>5, <1>6, <1>7, <1>11, <1>13

\* The pointer in hand goes to the variable.
LEMMA StoreInv ==
  ASSUME IInv, NEW th \in Threads, NEW o, NEW d,
         op[th].obj = o, op[th].dst = d, Store(th)
  PROVE  IInv'
<1> USE DEF IInv
<1>1. /\ op[th].at = "store"
      /\ deleter' = [deleter EXCEPT ![d] = o]
      /\ op' = [op EXCEPT ![th] = Idle]
      /\ UNCHANGED <<refCount, life>>
  BY DEF Store, Return
<1>2. o \in Objects /\ d \in Slots /\ deleter[d] = None
  BY <1>1 DEF Shaped, ShapeOf
<1>3. op'[th] = Idle /\ \A u \in Threads \ {th} : op'[u] = op[u]
  BY <1>1 DEF TypeOK
<1>4. deleter'[d] = o /\ \A r \in Slots \ {d} : deleter'[r] = deleter[r]
  BY <1>1, <1>2 DEF TypeOK
<1>5. TypeOK'
  BY <1>1, <1>2 DEF TypeOK, Idle, Op, Steps
<1>6. d # None
  BY <1>2, SharedPointerAssumption
<1>7. Shaped'
  <2>1. ASSUME NEW u \in Threads \ {th} PROVE ShapeOf(op[u])'
    <3>1. d # op[u].dst /\ d # op[u].src
      BY <1>6, <2>1 DEF Exclusive
    <3>. QED  BY <1>3, <1>4, <2>1, <3>1 DEF Shaped, ShapeOf
  <2>2. ShapeOf(op[th])'
    BY <1>3 DEF ShapeOf, Idle, Op
  <2>. QED  BY <2>1, <2>2 DEF Shaped
<1>8. Exclusive'
  BY <1>3, SharedPointerAssumption DEF Exclusive, Idle, Op
<1>9. /\ Pointers(o)' = Pointers(o) \cup {d} /\ d \notin Pointers(o)
      /\ \A q \in Objects \ {o} : Pointers(q)' = Pointers(q)
  <2>1. o # None
    BY <1>2, SharedPointerAssumption
  <2>2. Pointers(o)' = Pointers(o) \cup {d} /\ d \notin Pointers(o)
    BY <1>2, <1>4, <2>1 DEF Pointers
  <2>3. ASSUME NEW q \in Objects \ {o} PROVE Pointers(q)' = Pointers(q)
    BY <1>2, <1>4, <2>3, SharedPointerAssumption DEF Pointers
  <2>. QED  BY <2>2, <2>3
<1>10. /\ InHand(o)' = InHand(o) \ {th} /\ th \in InHand(o)
       /\ \A q \in Objects \ {o} : InHand(q)' = InHand(q)
  <2>1. op'[th].at = "idle"
    BY <1>3 DEF Idle, Op
  <2>2. InHand(o)' = InHand(o) \ {th} /\ th \in InHand(o)
    BY <1>1, <1>3, <2>1 DEF InHand
  <2>3. \A q \in Objects \ {o} : InHand(q)' = InHand(q)
    BY <1>1, <1>3, <2>1 DEF InHand
  <2>. QED  BY <2>2, <2>3
<1>11. Cardinality(Pointers(o)') = Cardinality(Pointers(o)) + 1
  BY <1>2, <1>9, FiniteCounts, FS_AddElement, ZenonT(60)
<1>12. Cardinality(InHand(o)') = Cardinality(InHand(o)) - 1
  BY <1>2, <1>10, FiniteCounts, FS_RemoveElement, ZenonT(60)
<1>13. CountIsExact'
  <2>1. refCount'[o] = Cardinality(Pointers(o)') + Cardinality(InHand(o)')
    BY <1>1, <1>2, <1>11, <1>12, FiniteCounts DEF CountIsExact
  <2>. QED  BY <1>1, <1>9, <1>10, <2>1 DEF CountIsExact
<1>14. ~Dying(o)
  BY <1>2, <1>10 DEF DyingUnused, Unused
<1>15. DyingUnused'
  BY <1>1, <1>2, <1>3, <1>9, <1>10, <1>14 DEF DyingUnused, Dying, Deleting, Unused, Idle, Op
<1>. QED  BY <1>5, <1>7, <1>8, <1>13, <1>15

\* The variable and the hand exchange their pointers.
LEMMA SwapInv ==
  ASSUME IInv, NEW th \in Threads, NEW o, NEW d, NEW p,
         op[th].obj = o, op[th].dst = d, deleter[d] = p, Swap(th)
  PROVE  IInv'
<1> USE DEF IInv
<1>1. /\ op[th].at = "swap"
      /\ deleter' = [deleter EXCEPT ![d] = o]
      /\ op' = [op EXCEPT ![th] = Op("down", None, None, p)]
      /\ UNCHANGED <<refCount, life>>
  BY DEF Swap, Swapped
<1>2. o \in Objects /\ d \in Slots /\ p \in Objects
  BY <1>1 DEF Shaped, ShapeOf, TypeOK
<1>3. op'[th] = Op("down", None, None, p) /\ \A u \in Threads \ {th} : op'[u] = op[u]
  BY <1>1 DEF TypeOK
<1>4. deleter'[d] = o /\ \A r \in Slots \ {d} : deleter'[r] = deleter[r]
  BY <1>1, <1>2 DEF TypeOK
<1>5. TypeOK'
  BY <1>1, <1>2 DEF TypeOK, Op, Steps
<1>6. d # None
  BY <1>2, SharedPointerAssumption
<1>7. Shaped'
  <2>1. ASSUME NEW u \in Threads \ {th} PROVE ShapeOf(op[u])'
    <3>1. d # op[u].dst /\ d # op[u].src
      BY <1>6, <2>1 DEF Exclusive
    <3>. QED  BY <1>3, <1>4, <2>1, <3>1 DEF Shaped, ShapeOf
  <2>2. ShapeOf(op[th])'
    BY <1>2, <1>3 DEF ShapeOf, Op
  <2>. QED  BY <2>1, <2>2 DEF Shaped
<1>8. Exclusive'
  BY <1>3, SharedPointerAssumption DEF Exclusive, Op
<1>9. d \in Pointers(p) /\ th \in InHand(o)
  BY <1>1, <1>2 DEF Pointers, InHand
<1>10. ~Dying(o) /\ ~Dying(p)
  BY <1>2, <1>9 DEF DyingUnused, Unused
<1>11. ASSUME NEW q \in Objects
       PROVE  /\ Cardinality(Pointers(q)') + Cardinality(InHand(q)')
                 = Cardinality(Pointers(q)) + Cardinality(InHand(q))
              /\ Unused(q) => Unused(q)'
  <2>1. CASE o = p
    <3>1. Pointers(q)' = Pointers(q)
      BY <1>4, <2>1 DEF Pointers
    <3>2. InHand(q)' = InHand(q)
      BY <1>1, <1>3, <2>1 DEF InHand, Op
    <3>. QED  BY <3>1, <3>2 DEF Unused
  <2>2. CASE o # p /\ q = o
    <3>1. Pointers(q)' = Pointers(q) \cup {d} /\ d \notin Pointers(q)
      BY <1>2, <1>4, <2>2 DEF Pointers
    <3>2. InHand(q)' = InHand(q) \ {th} /\ th \in InHand(q)
      BY <1>1, <1>3, <2>2 DEF InHand, Op
    <3>3. Cardinality(Pointers(q)') = Cardinality(Pointers(q)) + 1
      BY <3>1, FiniteCounts, FS_AddElement
    <3>4. Cardinality(InHand(q)') = Cardinality(InHand(q)) - 1
      BY <3>2, FiniteCounts, FS_RemoveElement
    <3>5. ~Unused(q)
      BY <3>2 DEF Unused
    <3>. QED  BY <3>3, <3>4, <3>5, FiniteCounts
  <2>3. CASE o # p /\ q = p
    <3>1. Pointers(q)' = Pointers(q) \ {d} /\ d \in Pointers(q)
      BY <1>2, <1>4, <2>3 DEF Pointers
    <3>2. InHand(q)' = InHand(q) \cup {th} /\ th \notin InHand(q)
      BY <1>1, <1>3, <2>3 DEF InHand, Op
    <3>3. Cardinality(Pointers(q)') = Cardinality(Pointers(q)) - 1
      <4>1. IsFiniteSet(Pointers(q))
        BY FiniteCounts
      <4>2. Cardinality(Pointers(q) \ {d}) = Cardinality(Pointers(q)) - 1
        BY <3>1, <4>1, FS_RemoveElement
      <4>. QED  BY <3>1, <4>2
    <3>4. Cardinality(InHand(q)') = Cardinality(InHand(q)) + 1
      BY <3>2, FiniteCounts, FS_AddElement
    <3>5. ~Unused(q)
      BY <3>1 DEF Unused
    <3>. QED  BY <3>3, <3>4, <3>5, FiniteCounts
  <2>4. CASE q # o /\ q # p
    <3>1. Pointers(q)' = Pointers(q)
      BY <1>2, <1>4, <2>4 DEF Pointers
    <3>2. InHand(q)' = InHand(q)
      BY <1>1, <1>3, <2>4 DEF InHand, Op
    <3>. QED  BY <3>1, <3>2 DEF Unused
  <2>. QED  BY <2>1, <2>2, <2>3, <2>4
<1>12. CountIsExact'
  BY <1>1, <1>11 DEF CountIsExact
<1>13. DyingUnused'
  BY <1>1, <1>3, <1>11 DEF DyingUnused, Dying, Deleting, Op
<1>. QED  BY <1>5, <1>7, <1>8, <1>12, <1>13

\* A variable gives its pointer to the thread that destroys it.
LEMMA BeginDestroyInv ==
  ASSUME IInv, NEW th \in Threads, NEW s \in Slots, NEW o, deleter[s] = o,
         BeginDestroy(th, s)
  PROVE  IInv'
<1> USE DEF IInv
<1>1. /\ op[th] = Idle /\ o # None
      /\ deleter' = [deleter EXCEPT ![s] = None]
      /\ op' = [op EXCEPT ![th] = Op("down", None, None, o)]
      /\ UNCHANGED <<refCount, life>>
      /\ \A u \in Threads : s # op[u].dst /\ s # op[u].src
  BY DEF BeginDestroy, Begin, Writable
<1>2. o \in Objects
  BY <1>1 DEF TypeOK
<1>3. op'[th] = Op("down", None, None, o) /\ \A u \in Threads \ {th} : op'[u] = op[u]
  BY <1>1 DEF TypeOK
<1>4. deleter'[s] = None /\ \A r \in Slots \ {s} : deleter'[r] = deleter[r]
  BY <1>1 DEF TypeOK
<1>5. TypeOK'
  BY <1>1, <1>2 DEF TypeOK, Op, Steps
<1>6. Shaped'
  <2>1. ASSUME NEW u \in Threads \ {th} PROVE ShapeOf(op[u])'
    BY <1>1, <1>3, <1>4, <2>1 DEF Shaped, ShapeOf
  <2>2. ShapeOf(op[th])'
    BY <1>2, <1>3 DEF ShapeOf, Op
  <2>. QED  BY <2>1, <2>2 DEF Shaped
<1>7. Exclusive'
  BY <1>3, SharedPointerAssumption DEF Exclusive, Op
<1>8. /\ Pointers(o)' = Pointers(o) \ {s} /\ s \in Pointers(o)
      /\ \A q \in Objects \ {o} : Pointers(q)' = Pointers(q)
  <2>1. Pointers(o)' = Pointers(o) \ {s} /\ s \in Pointers(o)
    BY <1>1, <1>4 DEF Pointers
  <2>2. ASSUME NEW q \in Objects \ {o} PROVE Pointers(q)' = Pointers(q)
    BY <1>4, <2>2, SharedPointerAssumption DEF Pointers
  <2>. QED  BY <2>1, <2>2
<1>9. /\ InHand(o)' = InHand(o) \cup {th} /\ th \notin InHand(o)
      /\ \A q \in Objects \ {o} : InHand(q)' = InHand(q)
  <2>1. op[th].at = "idle" /\ op'[th].at = "down" /\ op'[th].obj = o
    BY <1>1, <1>3 DEF Idle, Op
  <2>2. InHand(o)' = InHand(o) \cup {th} /\ th \notin InHand(o)
    BY <1>3, <2>1 DEF InHand
  <2>3. \A q \in Objects \ {o} : InHand(q)' = InHand(q)
    BY <1>3, <2>1 DEF InHand
  <2>. QED  BY <2>2, <2>3
<1>10. Cardinality(Pointers(o)') = Cardinality(Pointers(o)) - 1
  BY <1>2, <1>8, FiniteCounts, FS_RemoveElement, ZenonT(60)
<1>11. Cardinality(InHand(o)') = Cardinality(InHand(o)) + 1
  BY <1>2, <1>9, FiniteCounts, FS_AddElement
<1>12. CountIsExact'
  <2>1. refCount'[o] = Cardinality(Pointers(o)') + Cardinality(InHand(o)')
    BY <1>1, <1>2, <1>10, <1>11, FiniteCounts DEF CountIsExact
  <2>. QED  BY <1>1, <1>8, <1>9, <2>1 DEF CountIsExact
<1>13. ~Dying(o)
  BY <1>2, <1>8 DEF DyingUnused, Unused
<1>14. DyingUnused'
  BY <1>1, <1>2, <1>3, <1>8, <1>9, <1>13 DEF DyingUnused, Dying, Deleting, Unused, Idle, Op
<1>. QED  BY <1>5, <1>6, <1>7, <1>12, <1>14

\* The pointer in hand is given up.  If it was the last one, nobody else has the
\* object in hand, and nobody else is to delete it.
LEMMA DownInv ==
  ASSUME IInv, NEW th \in Threads, NEW o, op[th].obj = o, Down(th)
  PROVE  IInv'
<1> USE DEF IInv
<1>1. /\ op[th].at = "down"
      /\ refCount' = [refCount EXCEPT ![o] = refCount[o] - 1]
      /\ UNCHANGED <<deleter, life>>
      /\ IF refCount[o] = 1 THEN op' = [op EXCEPT ![th].at = "delete"]
                            ELSE op' = [op EXCEPT ![th] = Idle]
  BY DEF Down, BecomesZero, Goto, Return
<1>2. o \in Objects /\ th \in InHand(o)
  BY <1>1 DEF Shaped, ShapeOf, InHand
<1>3. /\ \A u \in Threads \ {th} : op'[u] = op[u]
      /\ refCount[o] = 1 => /\ op'[th].at = "delete" /\ op'[th].obj = o
                            /\ op'[th].dst = op[th].dst /\ op'[th].src = op[th].src
      /\ refCount[o] # 1 => op'[th] = Idle
  BY <1>1 DEF TypeOK
<1>4. op'[th].at \in {"delete", "idle"}
  BY <1>3 DEF Idle, Op
<1>5. /\ InHand(o)' = InHand(o) \ {th}
      /\ \A q \in Objects \ {o} : InHand(q)' = InHand(q)
      /\ \A q \in Objects : Pointers(q)' = Pointers(q)
  <2>1. InHand(o)' = InHand(o) \ {th}
    BY <1>3, <1>4 DEF InHand
  <2>2. \A q \in Objects \ {o} : InHand(q)' = InHand(q)
    BY <1>1, <1>3, <1>4 DEF InHand
  <2>3. \A q \in Objects : Pointers(q)' = Pointers(q)
    BY <1>1 DEF Pointers
  <2>. QED  BY <2>1, <2>2, <2>3
<1>6. Cardinality(InHand(o)') = Cardinality(InHand(o)) - 1
  BY <1>2, <1>5, FiniteCounts, FS_RemoveElement, ZenonT(60)
<1>7. Cardinality(InHand(o)) # 0
  BY <1>2, FiniteCounts, FS_EmptySet
<1>8. refCount[o] = Cardinality(Pointers(o)) + Cardinality(InHand(o))
  BY <1>2 DEF CountIsExact
<1>9. /\ refCount[o] \in Nat /\ refCount[o] - 1 \in Nat
      /\ refCount'[o] = refCount[o] - 1
      /\ \A q \in Objects \ {o} : refCount'[q] = refCount[q]
  <2>1. refCount[o] \in Nat /\ refCount[o] - 1 \in Nat
    BY <1>2, <1>7, <1>8, FiniteCounts
  <2>. QED  BY <1>1, <1>2, <2>1 DEF TypeOK
<1>10. TypeOK'
  <2>1. refCount' \in [Objects -> Nat]
    BY <1>1, <1>2, <1>9 DEF TypeOK
  <2>2. op' \in [Threads -> [at : Steps, dst : Slots \cup {None},
                            src : Slots \cup {None}, obj : Objects \cup {None}]]
    BY <1>1 DEF TypeOK, Idle, Op, Steps
  <2>. QED  BY <1>1, <2>1, <2>2 DEF TypeOK
<1>11. Shaped'
  <2>1. ASSUME NEW u \in Threads \ {th} PROVE ShapeOf(op[u])'
    BY <1>1, <1>3 DEF Shaped, ShapeOf
  <2>2. ShapeOf(op[th])'
    BY <1>1, <1>2, <1>3 DEF ShapeOf, Idle, Op
  <2>. QED  BY <2>1, <2>2 DEF Shaped
<1>12. Exclusive'
  <2>1. CASE refCount[o] = 1
    <3>1. \A u \in Threads : op'[u].dst = op[u].dst /\ op'[u].src = op[u].src
      BY <1>3, <2>1
    <3>. QED  BY <3>1 DEF Exclusive
  <2>2. CASE refCount[o] # 1
    BY <1>3, <2>2 DEF Exclusive, Idle, Op
  <2>. QED  BY <2>1, <2>2
<1>13. CountIsExact'
  <2>1. refCount'[o] = Cardinality(Pointers(o)') + Cardinality(InHand(o)')
    BY <1>2, <1>5, <1>6, <1>8, <1>9, FiniteCounts
  <2>. QED  BY <1>5, <1>9, <2>1 DEF CountIsExact
<1>14. ~Dying(o)
  BY <1>2 DEF DyingUnused, Unused
<1>15. refCount[o] = 1 => Unused(o)'
  <2> SUFFICES ASSUME refCount[o] = 1 PROVE Unused(o)'
    OBVIOUS
  <2>1. Cardinality(Pointers(o)) = 0 /\ Cardinality(InHand(o)) = 1
    BY <1>2, <1>7, <1>8, FiniteCounts
  <2>2. Pointers(o) = {}
    BY <1>2, <2>1, FiniteCounts, FS_EmptySet
  <2>3. \E u : InHand(o) = {u}
    BY <1>2, <2>1, FiniteCounts, FS_Singleton
  <2>4. InHand(o) \ {th} = {}
    BY <1>2, <2>3
  <2>. QED  BY <1>2, <1>5, <2>2, <2>4 DEF Unused
<1>16. DyingUnused'
  <2>1. ASSUME NEW q \in Objects, Dying(q)' PROVE Unused(q)'
    <3>1. CASE q = o
      <4>1. refCount[o] = 1
        BY <1>1, <1>3, <1>14, <2>1, <3>1 DEF Dying, Deleting, Idle, Op
      <4>. QED  BY <1>15, <3>1, <4>1
    <3>2. CASE q # o
      <4>1. Dying(q)
        BY <1>1, <1>3, <2>1, <3>2 DEF Dying, Deleting, Idle, Op
      <4>. QED  BY <1>5, <3>2, <4>1 DEF DyingUnused, Unused
    <3>. QED  BY <3>1, <3>2
  <2>2. ASSUME NEW u \in Threads, op'[u].at = "delete" PROVE life'[op'[u].obj] = "alive"
    BY <1>1, <1>2, <1>3, <1>14, <2>2 DEF DyingUnused, Dying, Idle, Op
  <2>3. ASSUME NEW u \in Threads, NEW v \in Threads, NEW q \in Objects,
               Deleting(u, q)', Deleting(v, q)'
        PROVE  u = v
    <3>1. \A w \in Threads \ {th} : Deleting(w, q)' => Deleting(w, q) /\ q # o
      BY <1>3, <1>14 DEF Dying, Deleting
    <3>2. Deleting(th, q)' => q = o
      BY <1>3 DEF Deleting, Idle, Op
    <3>. QED  BY <2>3, <3>1, <3>2 DEF DyingUnused
  <2>. QED  BY <2>1, <2>2, <2>3 DEF DyingUnused
<1>. QED  BY <1>10, <1>11, <1>12, <1>13, <1>16

\* What goes has no pointer left.
LEMMA DeleteInv ==
  ASSUME IInv, NEW th \in Threads, NEW o, op[th].obj = o, Delete(th)
  PROVE  IInv'
<1> USE DEF IInv
<1>1. /\ op[th].at = "delete"
      /\ life' = [life EXCEPT ![o] = "deleted"]
      /\ op' = [op EXCEPT ![th] = Idle]
      /\ UNCHANGED <<deleter, refCount>>
  BY DEF Delete, Return
<1>2. o \in Objects /\ Deleting(th, o) /\ Unused(o)
  BY <1>1 DEF Shaped, ShapeOf, Deleting, DyingUnused, Dying
<1>3. op'[th] = Idle /\ \A u \in Threads \ {th} : op'[u] = op[u]
  BY <1>1 DEF TypeOK
<1>4. life'[o] = "deleted" /\ \A q \in Objects \ {o} : life'[q] = life[q]
  BY <1>1, <1>2 DEF TypeOK
<1>5. TypeOK'
  BY <1>1, <1>2 DEF TypeOK, Idle, Op, Steps
<1>6. Shaped' /\ Exclusive'
  BY <1>1, <1>3 DEF Shaped, ShapeOf, Exclusive, Idle, Op
<1>7. \A q \in Objects : Pointers(q)' = Pointers(q) /\ InHand(q)' = InHand(q)
  BY <1>1, <1>3 DEF Pointers, InHand, Idle, Op
<1>8. CountIsExact'
  BY <1>1, <1>7 DEF CountIsExact
<1>9. \A u \in Threads \ {th} : op[u].at = "delete" => op[u].obj # o /\ op[u].obj \in Objects
  BY <1>2 DEF DyingUnused, Deleting, Shaped, ShapeOf
<1>10. DyingUnused'
  <2>1. \A q \in Objects : Dying(q)' => Dying(q) \/ q = o
    BY <1>3, <1>4 DEF Dying, Deleting, Idle, Op
  <2>2. \A q \in Objects : Dying(q)' => Unused(q)'
    BY <1>2, <1>7, <2>1 DEF DyingUnused, Unused
  <2>3. \A u \in Threads : op'[u].at = "delete" => life'[op'[u].obj] = "alive"
    BY <1>3, <1>4, <1>9 DEF DyingUnused, Idle, Op
  <2>4. \A u \in Threads, q \in Objects : Deleting(u, q)' => Deleting(u, q)
    BY <1>3 DEF Deleting, Idle, Op
  <2>. QED  BY <2>2, <2>3, <2>4 DEF DyingUnused
<1>. QED  BY <1>5, <1>6, <1>8, <1>10

LEMMA StepInv == IInv /\ [Next]_vars => IInv'
<1> SUFFICES ASSUME IInv, [Next]_vars PROVE IInv'
  OBVIOUS
<1>1. ASSUME UNCHANGED vars PROVE IInv'
  BY <1>1 DEF vars, IInv, TypeOK, Shaped, ShapeOf, Exclusive, CountIsExact, Pointers, InHand,
              DyingUnused, Dying, Deleting, Unused
<1>2. ASSUME NEW th \in Threads, Step(th) PROVE IInv'
  BY <1>2, UpInv, StoreInv, SwapInv, DownInv, DeleteInv DEF Step
<1>3. ASSUME NEW th \in Threads, NEW s \in Slots, BeginDestroy(th, s) PROVE IInv'
  BY <1>3, BeginDestroyInv
<1>4. ASSUME NEW th \in Threads, NEW s \in Slots, NEW o \in Objects, Make(th, s, o)
      PROVE  IInv'
  BY <1>4, MakeInv
<1>5. ASSUME NEW th \in Threads, NEW d \in Slots, NEW s \in Slots,
             BeginCopy(th, d, s) \/ BeginAssign(th, d, s)
      PROVE  IInv'
  BY <1>5, BeginReadInv
<1>6. ASSUME Finished PROVE IInv'
  BY <1>1, <1>6 DEF Finished
<1>. QED  BY <1>1, <1>2, <1>3, <1>4, <1>5, <1>6 DEF Next

LEMMA Invariant == Spec => []IInv
<1>. QED  BY InitInv, StepInv, PTL DEF Spec

-----------------------------------------------------------------------------
\* The variables keep their types; the count never falls below zero.
THEOREM TypeCorrect == Spec => []TypeOK
<1>1. IInv => TypeOK
  BY DEF IInv
<1>. QED  BY Invariant, <1>1, PTL

\* The atomic count is the number of SharedPointers that were counted and are not
\* yet given up, in the variables and in the hands of the threads.
THEOREM CountStaysExact == Spec => []CountIsExact
<1>1. IInv => CountIsExact
  BY DEF IInv
<1>. QED  BY Invariant, <1>1, PTL

\* Once a thread is to delete an object, and afterwards, no other thread has it in
\* hand, not even one that copied a pointer and has not counted it yet.
THEOREM NothingUsedAfterDelete == Spec => []NoUseAfterDelete
<1>1. IInv => NoUseAfterDelete
  <2> SUFFICES ASSUME IInv, NEW o \in Objects,
                      life[o] = "deleted" \/ \E th \in Threads : Deleting(th, o)
               PROVE  /\ Pointers(o) = {}
                      /\ \A th \in Threads : op[th].obj = o =>
                            op[th].at = "delete" /\ life[o] # "deleted"
                      /\ Cardinality({th \in Threads : op[th].obj = o}) <= 1
    BY DEF NoUseAfterDelete, Deleting
  <2> USE DEF IInv
  <2>1. Unused(o)
    BY DEF DyingUnused, Dying
  <2>2. ASSUME NEW th \in Threads, op[th].obj = o
        PROVE  op[th].at = "delete" /\ life[o] # "deleted"
    <3>1. op[th].at \in Steps /\ ShapeOf(op[th])
      BY DEF TypeOK, Shaped
    <3>2. op[th].at # "idle"
      BY <2>2, <3>1, SharedPointerAssumption DEF ShapeOf, Idle, Op
    <3>3. op[th].at \notin {"store", "swap", "down"}
      BY <2>1, <2>2 DEF Unused, InHand
    <3>4. op[th].at \notin {"copy", "assign"}
      BY <2>1, <2>2, <3>1 DEF ShapeOf, Unused, Pointers
    <3>5. op[th].at = "delete"
      BY <3>1, <3>2, <3>3, <3>4 DEF Steps
    <3>. QED  BY <2>2, <3>5 DEF DyingUnused
  <2>3. Cardinality({th \in Threads : op[th].obj = o}) <= 1
    <3> DEFINE users == {th \in Threads : op[th].obj = o}
    <3>1. ASSUME NEW t \in users, NEW u \in users PROVE t = u
      <4>1. Deleting(t, o) /\ Deleting(u, o)
        BY <2>2 DEF Deleting
      <4>. QED  BY <4>1 DEF DyingUnused
    <3>2. CASE users = {}
      BY <3>2, FS_EmptySet
    <3>3. CASE users # {}
      <4>1. PICK t \in users : TRUE
        BY <3>3
      <4>2. users = {t}
        BY <3>1, <4>1
      <4>3. Cardinality({t}) = 1
        BY FS_Singleton
      <4>4. Cardinality(users) = 1
        BY <4>2, <4>3, Zenon
      <4>. QED  BY <4>4
    <3>. QED  BY <3>2, <3>3
  <2>. QED  BY <2>1, <2>2, <2>3 DEF Unused
<1>. QED  BY Invariant, <1>1, PTL
================================================================================

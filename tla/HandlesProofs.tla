----------------------------- MODULE HandlesProofs -----------------------------
(***************************************************************************)
(* Handles proved for any threads, variables, values and callbacks, each   *)
(* of which carries or is set to any number of handles.                    *)
(*                                                                         *)
(* A handle is in a variable, in a callback, in a value or in the hands of *)
(* an activation, and the invariant says of each of these what it keeps    *)
(* alive: a call in progress is backed by a handle that nobody else can    *)
(* take away, a SharedValue without handles is being destroyed by one      *)
(* activation, and a callback is in one place.  Each operation replaces    *)
(* the innermost activation of one thread (Lands), and each part of the    *)
(* invariant has a lemma about such a step.                                *)
(***************************************************************************)
EXTENDS Handles, SequenceTheorems, FunctionTheorems, FiniteSetTheorems, TLAPS

Depth(th) == Len(stack[th])

\* The calls that still touch the SharedValue they were made for, and what may go on
\* inside one of them: while Set() assigns value_, the old value is destroyed.
Uses == {"set", "swap", "get", "notify"}
Destructors == {"release", "destroy"}

\* What an activation has in hand.
Fits(f) ==
    /\ f.self # None <=> f.op \in Uses \cup {"destroy"}
    /\ f.op \in {"notify", "execute"} => Len(f.cbs) = 1
    /\ f.op \notin {"notify", "execute", "dispatch"} => f.cbs = <<>>
    /\ f.op \notin {"set", "swap", "result", "release"} => f.drops = {}

AllFit == \A th \in Threads : \A d \in 1..Depth(th) : Fits(At(<<th, d>>))

\* Such a call is the innermost of its thread but for those destructors, and a handle
\* keeps the SharedValue: that in the variable, which no other thread writes, or one of
\* the callback that makes the call.
Covers(th, e, v) ==
    /\ At(<<th, e>>).op = "execute"
    /\ \E h \in carries[At(<<th, e>>).cbs[1]] : h.of = v

UsesAreBacked ==
    \A th \in Threads : \A d \in 1..Depth(th) : At(<<th, d>>).op \in Uses =>
        /\ \A e \in (d + 1)..Depth(th) :
              At(<<th, d>>).op = "swap" /\ At(<<th, e>>).op \in Destructors
        /\ IF At(<<th, d>>).via = None
           THEN \E e \in 1..(d - 1) : Covers(th, e, At(<<th, d>>).self)
           ELSE slot[At(<<th, d>>).via].of = At(<<th, d>>).self

\* The destructor of a SharedValue runs once, from the last release to its end.
Dying(th, d, v) ==
    d \in 1..Depth(th) /\ At(<<th, d>>).op = "destroy" /\ At(<<th, d>>).self = v

DestroyedOnce ==
    /\ \A v \in Values, t, u \in Threads : \A d \in 1..Depth(t), e \in 1..Depth(u) :
         Dying(t, d, v) /\ Dying(u, e, v) => t = u /\ d = e
    /\ \A v \in Values : \A th \in Threads : \A d \in 1..Depth(th) :
         Dying(th, d, v) => life[v] = "live" /\ refs[v] = 0
    /\ \A v \in Values : life[v] # "live" => refs[v] = 0 /\ queue[v] = <<>> /\ value[v] = {}
    /\ \A v \in Values : life[v] = "live" /\ refs[v] = 0 =>
         \E th \in Threads : \E d \in 1..Depth(th) : Dying(th, d, v)

\* Everything that is counted is finite, whatever the constants are.
InSlots(v) == {s \in Slots : slot[s].of = v}
Counted ==
    /\ CountIsExact
    /\ \A v \in Values : /\ IsFiniteSet(InSlots(v)) /\ IsFiniteSet(Carried(v))
                         /\ IsFiniteSet(Stored(v)) /\ IsFiniteSet(Dropped(v))
    /\ IsFiniteSet({v \in Values : life[v] = "live"})

\* The places a callback may be in, and those in a place.
Places == {<<"queue", v>> : v \in Values} \cup {<<"call", th, d>> : th \in Threads, d \in Nat}
Elements(s) == {s[i] : i \in 1..Len(s)}
Held(x) == IF x[1] = "queue" THEN Elements(queue[x[2]]) ELSE
           IF x[3] \in 1..Depth(x[2]) THEN Elements(At(<<x[2], x[3]>>).cbs) ELSE {}
Distinct(s) == \A i, j \in 1..Len(s) : s[i] = s[j] => i = j

InOnePlace ==
    /\ \A v \in Values : Distinct(queue[v])
    /\ \A th \in Threads : \A d \in 1..Depth(th) : Distinct(At(<<th, d>>).cbs)
    /\ \A x, y \in Places : x # y => Held(x) \cap Held(y) = {}
    /\ \A cb \in Callbacks : fate[cb] = "kept" <=> \E x \in Places : cb \in Held(x)
    /\ \A cb \in Callbacks : fate[cb] # "kept" => carries[cb] = {}

Inv == AllFit /\ UsesAreBacked /\ DestroyedOnce /\ Counted /\ InOnePlace

-----------------------------------------------------------------------------
(* Stacks.                                                                 *)

\* The activations of th up to base stay, and those of fs are put on them.
Lands(th, base, fs) ==
    /\ Depth(th)' = base + Len(fs)
    /\ \A d \in 1..base : At(<<th, d>>)' = At(<<th, d>>)
    /\ \A k \in 1..Len(fs) : At(<<th, base + k>>)' = fs[Len(fs) + 1 - k]
    /\ \A u \in Threads \ {th} : /\ Depth(u)' = Depth(u)
                               /\ \A d \in 1..Depth(u) : At(<<u, d>>)' = At(<<u, d>>)

LEMMA AtIs ==
  ASSUME NEW th, NEW d
  PROVE  At(<<th, d>>) = stack[th][Depth(th) + 1 - d]
BY DEF At, Depth

LEMMA Stacks ==
  ASSUME TypeOK, NEW th \in Threads
  PROVE  /\ stack[th] \in Seq(Frames) /\ Depth(th) \in Nat
         /\ Depth(th) = 0 <=> stack[th] = <<>>
         /\ stack[th] # <<>> => Top(th) = At(<<th, Depth(th)>>) /\ Depth(th) \in 1..Depth(th)
         /\ \A d \in 1..Depth(th) : At(<<th, d>>) \in Frames
<1>1. stack[th] \in Seq(Frames)
  BY DEF TypeOK
<1>2. Depth(th) \in Nat /\ (Depth(th) = 0 <=> stack[th] = <<>>)
  BY <1>1, EmptySeq, LenProperties DEF Depth
<1>3. ASSUME stack[th] # <<>>
      PROVE  Top(th) = At(<<th, Depth(th)>>) /\ Depth(th) \in 1..Depth(th)
  <2>1. Head(stack[th]) = stack[th][1]
    BY <1>1, <1>3
  <2>2. Depth(th) + 1 - Depth(th) = 1
    BY <1>2
  <2>. QED  BY <1>2, <1>3, <2>1, <2>2, AtIs DEF Top
<1>4. ASSUME NEW d \in 1..Depth(th) PROVE At(<<th, d>>) \in Frames
  <2>1. Depth(th) + 1 - d \in 1..Len(stack[th])
    BY <1>2 DEF Depth
  <2>2. stack[th][Depth(th) + 1 - d] \in Frames
    BY <1>1, <2>1, ElementOfSeq
  <2>. QED  BY <2>2, AtIs
<1>. QED  BY <1>1, <1>2, <1>3, <1>4

LEMMA PutOn ==
  ASSUME stack \in [Threads -> Seq(Frames)], NEW th \in Threads, NEW fs \in Seq(Frames),
         NEW rest \in Seq(Frames), stack' = [stack EXCEPT ![th] = fs \o rest],
         Len(rest) <= Depth(th),
         \A d \in 1..Len(rest) : rest[Len(rest) + 1 - d] = stack[th][Depth(th) + 1 - d]
  PROVE  Lands(th, Len(rest), fs) /\ stack' \in [Threads -> Seq(Frames)]
<1>. DEFINE m == Len(fs)
            n == Len(rest)
            all == fs \o rest
<1>1. m \in Nat /\ n \in Nat
  BY LenProperties
<1>2. /\ all \in Seq(Frames) /\ Len(all) = m + n
      /\ \A i \in 1..(m + n) : all[i] = IF i <= m THEN fs[i] ELSE rest[i - m]
  BY ConcatProperties
<1>3. /\ stack'[th] = all /\ \A u \in Threads \ {th} : stack'[u] = stack[u]
      /\ stack' \in [Threads -> Seq(Frames)]
  BY <1>2
<1>. HIDE DEF all
<1>4. Depth(th)' = n + m
  BY <1>1, <1>2, <1>3 DEF Depth
<1>5. \A d : At(<<th, d>>)' = all[n + m + 1 - d]
  BY <1>2, <1>3, <1>4 DEF At, Depth
<1>. HIDE DEF m, n
<1>6. ASSUME NEW d \in 1..n PROVE At(<<th, d>>)' = At(<<th, d>>)
  <2>. DEFINE i == n + m + 1 - d
  <2>1. i \in 1..(m + n) /\ ~(i <= m) /\ i - m = n + 1 - d
    BY <1>1
  <2>2. At(<<th, d>>)' = all[i]
    BY <1>5
  <2>. HIDE DEF i
  <2>3. all[i] = rest[i - m]
    BY <1>2, <2>1
  <2>. QED  BY <2>1, <2>2, <2>3, AtIs DEF n
<1>7. ASSUME NEW k \in 1..m PROVE At(<<th, n + k>>)' = fs[m + 1 - k]
  <2>1. n + m + 1 - (n + k) = m + 1 - k /\ m + 1 - k \in 1..(m + n) /\ m + 1 - k <= m
    BY <1>1
  <2>. QED  BY <1>2, <1>5, <2>1
<1>8. \A u \in Threads \ {th} : /\ Depth(u)' = Depth(u)
                              /\ \A d \in 1..Depth(u) : At(<<u, d>>)' = At(<<u, d>>)
  BY <1>3 DEF Depth, At
<1>. QED  BY <1>3, <1>4, <1>6, <1>7, <1>8 DEF Lands, m, n

LEMMA EnterLands ==
  ASSUME TypeOK, NEW th \in Threads, NEW fs \in Seq(Frames), Enter(th, fs),
         NEW base, base = Depth(th)
  PROVE  Lands(th, base, fs) /\ stack' \in [Threads -> Seq(Frames)]
<1>1. stack[th] \in Seq(Frames) /\ Depth(th) \in Nat /\ stack \in [Threads -> Seq(Frames)]
  BY Stacks DEF TypeOK
<1>2. PICK rest : rest = stack[th]
  OBVIOUS
<1>3. /\ stack' = [stack EXCEPT ![th] = fs \o rest] /\ Len(rest) = base
      /\ \A d \in 1..Len(rest) : rest[Len(rest) + 1 - d] = stack[th][Depth(th) + 1 - d]
  BY <1>2 DEF Enter, Depth
<1>4. rest \in Seq(Frames) /\ Len(rest) <= Depth(th)
  BY <1>1, <1>2 DEF Depth
<1>5. Lands(th, Len(rest), fs) /\ stack' \in [Threads -> Seq(Frames)]
  BY <1>1, <1>3, <1>4, PutOn
<1>. QED  BY <1>3, <1>5

LEMMA BecomeLands ==
  ASSUME TypeOK, NEW th \in Threads, stack[th] # <<>>, NEW fs \in Seq(Frames), Become(th, fs),
         NEW base, base = Depth(th) - 1
  PROVE  Lands(th, base, fs) /\ stack' \in [Threads -> Seq(Frames)]
<1>1. /\ stack[th] \in Seq(Frames) /\ Depth(th) \in Nat /\ stack \in [Threads -> Seq(Frames)]
      /\ Depth(th) # 0
  BY Stacks DEF TypeOK
<1>2. PICK rest : rest = Tail(stack[th])
  OBVIOUS
<1>3. /\ rest \in Seq(Frames) /\ Len(rest) = base
      /\ \A i \in 1..Len(rest) : rest[i] = stack[th][i + 1]
  BY <1>1, <1>2, HeadTailProperties DEF Depth
<1>4. stack' = [stack EXCEPT ![th] = fs \o rest]
  BY <1>2 DEF Become
<1>5. ASSUME NEW d \in 1..Len(rest)
      PROVE  rest[Len(rest) + 1 - d] = stack[th][Depth(th) + 1 - d]
  <2>1. Len(rest) + 1 - d \in 1..Len(rest) /\ Len(rest) + 1 - d + 1 = Depth(th) + 1 - d
    BY <1>1, <1>3
  <2>. QED  BY <1>3, <2>1
<1>6. Len(rest) <= Depth(th)
  BY <1>1, <1>3
<1>7. Lands(th, Len(rest), fs) /\ stack' \in [Threads -> Seq(Frames)]
  BY <1>1, <1>3, <1>4, <1>5, <1>6, PutOn
<1>. QED  BY <1>3, <1>7

LEMMA StayLands ==
  ASSUME TypeOK, NEW th \in Threads, UNCHANGED stack, NEW base, base = Depth(th)
  PROVE  Lands(th, base, <<>>) /\ stack' \in [Threads -> Seq(Frames)]
<1>1. Depth(th) \in Nat /\ stack \in [Threads -> Seq(Frames)]
  BY Stacks DEF TypeOK
<1>2. /\ \A u : Depth(u)' = Depth(u) /\ \A d : At(<<u, d>>)' = At(<<u, d>>)
      /\ Len(<<>>) = 0 /\ 1..0 = {}
  BY DEF Depth, At
<1>. QED  BY <1>1, <1>2 DEF Lands

\* Where an activation was before.
LEMMA Landed ==
  ASSUME TypeOK, NEW th \in Threads, NEW fs \in Seq(Frames), NEW base \in Nat,
         base <= Depth(th), Lands(th, base, fs), NEW u \in Threads, NEW d \in Nat
  PROVE  /\ d \in 1..Depth(u)' =>
              \/ d \in 1..Depth(u) /\ (u = th => d <= base)
              \/ u = th /\ d > base /\ base + Len(fs) + 1 - d \in 1..Len(fs)
         /\ d \in 1..Depth(u) /\ (u = th => d <= base) =>
              d \in 1..Depth(u)' /\ At(<<u, d>>)' = At(<<u, d>>)
         /\ u = th /\ d > base /\ base + Len(fs) + 1 - d \in 1..Len(fs) =>
              d \in 1..Depth(u)' /\ At(<<u, d>>)' = fs[base + Len(fs) + 1 - d]
<1>1. Depth(u) \in Nat /\ Depth(th) \in Nat /\ Len(fs) \in Nat
  BY Stacks, LenProperties
<1>2. CASE u # th
  BY <1>2 DEF Lands
<1>3. CASE u = th
  <2>1. Depth(u)' = base + Len(fs) /\ \A e \in 1..base : At(<<u, e>>)' = At(<<u, e>>)
    BY <1>3 DEF Lands
  <2>2. ASSUME d > base, base + Len(fs) + 1 - d \in 1..Len(fs)
        PROVE  At(<<u, d>>)' = fs[base + Len(fs) + 1 - d]
    <3>1. d - base \in 1..Len(fs) /\ base + (d - base) = d
          /\ Len(fs) + 1 - (d - base) = base + Len(fs) + 1 - d
      BY <1>1, <2>2
    <3>2. At(<<th, base + (d - base)>>)' = fs[Len(fs) + 1 - (d - base)]
      BY <3>1 DEF Lands
    <3>. QED  BY <1>3, <3>1, <3>2
  <2>. QED  BY <1>1, <1>3, <2>1, <2>2
<1>. QED  BY <1>2, <1>3

\* The activations that are put on a stack.
LEMMA Puts ==
  /\ <<>> \in Seq(Frames) /\ Len(<<>>) = 0
  /\ \A f \in Frames : <<f>> \in Seq(Frames) /\ Len(<<f>>) = 1 /\ <<f>>[1] = f
  /\ \A f \in Frames : <<f>> \o <<>> = <<f>> /\ <<>> \o <<f>> = <<f>>
  /\ \A f, g \in Frames : <<f>> \o <<g>> = <<f, g>>
  /\ \A f, g \in Frames : /\ <<f, g>> \in Seq(Frames) /\ Len(<<f, g>>) = 2
                          /\ <<f, g>>[1] = f /\ <<f, g>>[2] = g
  /\ <<>> \o <<>> = <<>>
<1>1. \A f \in Frames : <<f>> \in Seq(Frames) /\ Len(<<f>>) = 1 /\ <<f>>[1] = f
  OBVIOUS
<1>2. \A f \in Frames : <<f>> \o <<>> = <<f>> /\ <<>> \o <<f>> = <<f>>
  BY <1>1, ConcatEmptySeq
<1>3. ASSUME NEW f \in Frames, NEW g \in Frames PROVE <<f>> \o <<g>> = <<f, g>>
  <2>1. <<f>> \in Seq(Frames) /\ <<g>> \in Seq(Frames) /\ <<f, g>> \in Seq(Frames)
    OBVIOUS
  <2>2. Len(<<f>> \o <<g>>) = 2 /\ <<f>> \o <<g>> \in Seq(Frames)
    BY <2>1, ConcatProperties
  <2>3. (<<f>> \o <<g>>)[1] = f /\ (<<f>> \o <<g>>)[2] = g
    BY <2>1, ConcatProperties
  <2>. DEFINE both == <<f>> \o <<g>>
              pair == <<f, g>>
  <2>4. Len(pair) = 2 /\ pair[1] = f /\ pair[2] = g
    OBVIOUS
  <2>. HIDE DEF both, pair
  <2>5. both = pair
    <3>1. \A i \in 1..Len(both) : both[i] = pair[i]
      BY <2>2, <2>3, <2>4 DEF both
    <3>. QED  BY <2>1, <2>2, <2>4, <3>1, SeqEqual DEF both, pair
  <2>. QED  BY <2>5 DEF both, pair
<1>4. \A f, g \in Frames : /\ <<f, g>> \in Seq(Frames) /\ Len(<<f, g>>) = 2
                          /\ <<f, g>>[1] = f /\ <<f, g>>[2] = g
  OBVIOUS
<1>5. <<>> \o <<>> = <<>>
  BY ConcatEmptySeq, EmptySeq
<1>. QED  BY <1>1, <1>2, <1>3, <1>4, <1>5, EmptySeq

-----------------------------------------------------------------------------
(* Counting.  Handles of one SharedValue are of two kinds, so that they    *)
(* are finite in number in every set.                                      *)

LEMMA OfIs ==
  ASSUME NEW v \in Values, NEW hs \in SUBSET (Handles \cup {Invalid})
  PROVE  /\ IsFiniteSet({h \in hs : h.of = v}) /\ Of(v, hs) \in Nat
         /\ Of(v, hs) = 0 <=> \A h \in hs : h.of # v
<1>. DEFINE p == [kind |-> "promise", of |-> v]
            f == [kind |-> "future", of |-> v]
            S == {h \in hs : h.of = v}
<1>1. S \subseteq {p, f}
  BY HandlesAssumption DEF Handles, Invalid
<1>2. IsFiniteSet({p, f})
  <2>1. IsFiniteSet({p})
    BY FS_Singleton
  <2>2. IsFiniteSet({p} \cup {f})
    BY <2>1, FS_AddElement
  <2>3. {p, f} = {p} \cup {f}
    OBVIOUS
  <2>. QED  BY <2>2, <2>3
<1>. HIDE DEF S, p, f
<1>3. IsFiniteSet(S)
  BY <1>1, <1>2, FS_Subset
<1>4. Cardinality(S) \in Nat /\ (Cardinality(S) = 0 <=> S = {})
  BY <1>3, FS_CardinalityType, FS_EmptySet
<1>. QED  BY <1>3, <1>4 DEF Of, S

LEMMA OfOne ==
  ASSUME NEW v, NEW h
  PROVE  Of(v, {h}) = IF h.of = v THEN 1 ELSE 0
<1>1. CASE h.of = v
  <2>1. {x \in {h} : x.of = v} = {h}
    BY <1>1
  <2>. QED  BY <1>1, <2>1, FS_Singleton DEF Of
<1>2. CASE h.of # v
  <2>1. {x \in {h} : x.of = v} = {}
    BY <1>2
  <2>. QED  BY <1>2, <2>1, FS_EmptySet DEF Of
<1>. QED  BY <1>1, <1>2

\* Handles that are in several places are counted in each of them.
Pairs(I, f, v) == {p \in I \X Handles : p[2] \in f[p[1]] /\ p[2].of = v}

PairsIn(x, hs, v) == {p \in {x} \X Handles : p[2] \in hs /\ p[2].of = v}

LEMMA PairsAt ==
  ASSUME NEW x, NEW hs \in SUBSET Handles, NEW v \in Values
  PROVE  IsFiniteSet(PairsIn(x, hs, v)) /\ Cardinality(PairsIn(x, hs, v)) = Of(v, hs)
<1>. DEFINE T == PairsIn(x, hs, v)
            S == {h \in hs : h.of = v}
            f == [h \in S |-> <<x, h>>]
<1>1. IsFiniteSet(S)
  BY OfIs
<1>2. f \in Bijection(S, T)
  <2>1. f \in [S -> T]
    BY DEF PairsIn
  <2>2. \A a, b \in S : f[a] = f[b] => a = b
    OBVIOUS
  <2>3. \A p \in T : \E h \in S : f[h] = p
    <3>. SUFFICES ASSUME NEW p \in T PROVE \E h \in S : f[h] = p
      OBVIOUS
    <3>1. p[2] \in S /\ p = <<x, p[2]>>
      BY DEF PairsIn
    <3>. QED  BY <3>1
  <2>. HIDE DEF f, S, T
  <2>. QED  BY <2>1, <2>2, <2>3, Fun_IsBij
<1>. HIDE DEF f, S, T
<1>3. ExistsBijection(S, T)
  BY <1>2 DEF ExistsBijection
<1>4. IsFiniteSet(T) /\ Cardinality(T) = Cardinality(S)
  BY <1>1, <1>3, FS_Bijection
<1>. QED  BY <1>4 DEF T, S, Of

LEMMA PairsOff ==
  ASSUME NEW S, NEW T, IsFiniteSet(S), IsFiniteSet(T), S \cap T = {}
  PROVE  IsFiniteSet(S \cup T) /\ Cardinality(S \cup T) = Cardinality(S) + Cardinality(T)
<1>1. Cardinality(S \cap T) = 0
  BY FS_EmptySet
<1>2. IsFiniteSet(S \cup T)
      /\ Cardinality(S \cup T) = Cardinality(S) + Cardinality(T) - Cardinality(S \cap T)
  BY FS_Union
<1>3. Cardinality(S) \in Nat /\ Cardinality(T) \in Nat
  BY FS_CardinalityType
<1>. QED  BY <1>1, <1>2, <1>3

\* A number new that differs from old by what was added and what was removed.
Balance(old, added, removed, new) == new = old + added - removed

\* The handles in one place are replaced by others.
LEMMA PairsChange ==
  ASSUME NEW I, NEW f \in [I -> SUBSET Handles], NEW g \in [I -> SUBSET Handles], NEW x \in I,
         \A y \in I \ {x} : g[y] = f[y], NEW v \in Values, IsFiniteSet(Pairs(I, f, v))
  PROVE  /\ IsFiniteSet(Pairs(I, g, v))
         /\ Cardinality(Pairs(I, f, v)) \in Nat /\ Cardinality(Pairs(I, g, v)) \in Nat
         /\ Of(v, f[x]) \in Nat /\ Of(v, g[x]) \in Nat
         /\ Balance(Cardinality(Pairs(I, f, v)), Of(v, g[x]), Of(v, f[x]),
                    Cardinality(Pairs(I, g, v)))
<1>. DEFINE R == {p \in I \X Handles : p[1] # x /\ p[2] \in f[p[1]] /\ p[2].of = v}
            F == PairsIn(x, f[x], v)
            G == PairsIn(x, g[x], v)
<1>1. /\ Pairs(I, f, v) = R \cup F /\ R \cap F = {}
      /\ Pairs(I, g, v) = R \cup G /\ R \cap G = {}
  BY DEF Pairs, PairsIn
<1>2. /\ IsFiniteSet(F) /\ Cardinality(F) = Of(v, f[x])
      /\ IsFiniteSet(G) /\ Cardinality(G) = Of(v, g[x])
  BY PairsAt
<1>. HIDE DEF R, F, G
<1>3. IsFiniteSet(R)
  BY <1>1, FS_Subset
<1>4. /\ IsFiniteSet(R \cup F) /\ Cardinality(R \cup F) = Cardinality(R) + Cardinality(F)
      /\ IsFiniteSet(R \cup G) /\ Cardinality(R \cup G) = Cardinality(R) + Cardinality(G)
  BY <1>1, <1>2, <1>3, PairsOff
<1>5. Cardinality(R) \in Nat /\ Cardinality(F) \in Nat /\ Cardinality(G) \in Nat
  BY <1>2, <1>3, FS_CardinalityType
<1>. QED  BY <1>1, <1>2, <1>4, <1>5 DEF Balance

-----------------------------------------------------------------------------
(* What is counted, as functions of the places.                            *)

\* The same for one value st of stack, so that it can be said of the next one too.
ActiveIn(st) == UNION {{<<th, d>> : d \in DOMAIN st[th]} : th \in Threads}
AtIn(st, a)  == st[a[1]][Len(st[a[1]]) + 1 - a[2]]
DropsIn(st)  ==
    [a \in Threads \X Nat |-> IF a[2] \in 1..Len(st[a[1]]) THEN AtIn(st, a).drops ELSE {}]

LEMMA Active ==
  ASSUME NEW st \in [Threads -> Seq(Frames)]
  PROVE  ActiveIn(st) = {a \in Threads \X Nat : a[2] \in 1..Len(st[a[1]])}
<1>1. ASSUME NEW a \in ActiveIn(st) PROVE a \in Threads \X Nat /\ a[2] \in 1..Len(st[a[1]])
  <2>1. PICK th \in Threads : a \in {<<th, d>> : d \in DOMAIN st[th]}
    BY DEF ActiveIn
  <2>2. PICK d \in DOMAIN st[th] : a = <<th, d>>
    BY <2>1
  <2>3. st[th] \in Seq(Frames)
    OBVIOUS
  <2>4. d \in 1..Len(st[th]) /\ d \in Nat
    BY <2>2, <2>3, LenProperties
  <2>. QED  BY <2>2, <2>4
<1>2. ASSUME NEW a \in Threads \X Nat, a[2] \in 1..Len(st[a[1]]) PROVE a \in ActiveIn(st)
  <2>1. st[a[1]] \in Seq(Frames)
    OBVIOUS
  <2>2. a[2] \in DOMAIN st[a[1]] /\ a = <<a[1], a[2]>> /\ a[1] \in Threads
    BY <1>2, <2>1, LenProperties
  <2>. QED  BY <2>2 DEF ActiveIn
<1>. QED  BY <1>1, <1>2

LEMMA DropsAt ==
  ASSUME NEW st \in [Threads -> Seq(Frames)]
  PROVE  /\ DropsIn(st) \in [Threads \X Nat -> SUBSET Handles]
         /\ \A th \in Threads, d \in Nat :
              DropsIn(st)[<<th, d>>] = IF d \in 1..Len(st[th]) THEN AtIn(st, <<th, d>>).drops ELSE {}
         /\ \A v : {p \in ActiveIn(st) \X Handles : p[2] \in AtIn(st, p[1]).drops /\ p[2].of = v}
                   = Pairs(Threads \X Nat, DropsIn(st), v)
<1>1. \A th \in Threads, d \in Nat :
        DropsIn(st)[<<th, d>>] = IF d \in 1..Len(st[th]) THEN AtIn(st, <<th, d>>).drops ELSE {}
  BY DEF DropsIn
<1>2. ASSUME NEW a \in Threads \X Nat, a[2] \in 1..Len(st[a[1]])
      PROVE  AtIn(st, a).drops \in SUBSET Handles
  <2>1. st[a[1]] \in Seq(Frames) /\ Len(st[a[1]]) \in Nat
    BY LenProperties
  <2>2. Len(st[a[1]]) + 1 - a[2] \in 1..Len(st[a[1]])
    BY <1>2, <2>1
  <2>3. AtIn(st, a) \in Frames
    BY <2>1, <2>2, ElementOfSeq DEF AtIn
  <2>. QED  BY <2>3 DEF Frames
<1>3. DropsIn(st) \in [Threads \X Nat -> SUBSET Handles]
  BY <1>2 DEF DropsIn
<1>4. ASSUME NEW v
      PROVE  {p \in ActiveIn(st) \X Handles : p[2] \in AtIn(st, p[1]).drops /\ p[2].of = v}
                = Pairs(Threads \X Nat, DropsIn(st), v)
  <2>1. \A a \in Threads \X Nat :
          DropsIn(st)[a] = IF a \in ActiveIn(st) THEN AtIn(st, a).drops ELSE {}
    BY Active DEF DropsIn
  <2>2. ActiveIn(st) \subseteq Threads \X Nat
    BY Active
  <2>. QED  BY <2>1, <2>2 DEF Pairs
<1>. QED  BY <1>1, <1>3, <1>4

InHand(th, d) == IF d \in 1..Depth(th) THEN At(<<th, d>>).drops ELSE {}

\* The handles in hand are replaced in one activation.
LEMMA DroppedAt ==
  ASSUME TypeOK, stack' \in [Threads -> Seq(Frames)], NEW th \in Threads, NEW x \in Nat,
         \A u \in Threads, d \in Nat : u # th \/ d # x => InHand(u, d)' = InHand(u, d),
         NEW v \in Values, IsFiniteSet(Dropped(v)),
         NEW old, old = InHand(th, x), NEW new, new = InHand(th, x)'
  PROVE  /\ IsFiniteSet(Dropped(v)')
         /\ Cardinality(Dropped(v)) \in Nat /\ Cardinality(Dropped(v)') \in Nat
         /\ Balance(Cardinality(Dropped(v)), Of(v, new), Of(v, old), Cardinality(Dropped(v)'))
<1>. DEFINE here == <<th, x>>
            before == DropsIn(stack)
            after == DropsIn(stack')
            AllOf == Threads \X Nat
<1>0. stack \in [Threads -> Seq(Frames)]
  BY DEF TypeOK
<1>1. /\ before \in [AllOf -> SUBSET Handles] /\ after \in [AllOf -> SUBSET Handles] /\ here \in AllOf
      /\ Dropped(v) = Pairs(AllOf, before, v) /\ Dropped(v)' = Pairs(AllOf, after, v)
  <2>1. /\ before \in [AllOf -> SUBSET Handles]
        /\ {p \in ActiveIn(stack) \X Handles : p[2] \in AtIn(stack, p[1]).drops /\ p[2].of = v}
             = Pairs(AllOf, before, v)
    BY <1>0, DropsAt
  <2>2. /\ after \in [AllOf -> SUBSET Handles]
        /\ {p \in ActiveIn(stack') \X Handles : p[2] \in AtIn(stack', p[1]).drops /\ p[2].of = v}
             = Pairs(AllOf, after, v)
    BY DropsAt
  <2>3. here \in AllOf
    OBVIOUS
  <2>. HIDE DEF before, after
  <2>4. Dropped(v) = {p \in ActiveIn(stack) \X Handles : p[2] \in AtIn(stack, p[1]).drops /\ p[2].of = v}
    BY DEF Dropped, Activations, At, ActiveIn, AtIn
  <2>5. Dropped(v)' = {p \in ActiveIn(stack') \X Handles : p[2] \in AtIn(stack', p[1]).drops /\ p[2].of = v}
    BY DEF Dropped, Activations, At, ActiveIn, AtIn
  <2>. QED  BY <2>1, <2>2, <2>3, <2>4, <2>5
<1>2. \A u \in Threads, d \in Nat : /\ before[<<u, d>>] = InHand(u, d)
                                    /\ after[<<u, d>>] = InHand(u, d)'
  <2>1. \A u \in Threads, d \in Nat :
          before[<<u, d>>] = IF d \in 1..Len(stack[u]) THEN AtIn(stack, <<u, d>>).drops ELSE {}
    BY <1>0, DropsAt
  <2>2. \A u \in Threads, d \in Nat :
          after[<<u, d>>] = IF d \in 1..Len(stack'[u]) THEN AtIn(stack', <<u, d>>).drops ELSE {}
    BY DropsAt
  <2>. HIDE DEF before, after
  <2>. QED  BY <2>1, <2>2 DEF InHand, Depth, At, AtIn
<1>. HIDE DEF before, after
<1>3. before[here] = old /\ after[here] = new
  BY <1>2
<1>4. ASSUME NEW y \in AllOf \ {here} PROVE after[y] = before[y]
  <2>1. PICK u \in Threads, d \in Nat : y = <<u, d>>
    OBVIOUS
  <2>2. u # th \/ d # x
    BY <2>1
  <2>. QED  BY <1>2, <2>1, <2>2
<1>. HIDE DEF here, AllOf
<1>5. /\ before \in [AllOf -> SUBSET Handles] /\ after \in [AllOf -> SUBSET Handles] /\ here \in AllOf
      /\ IsFiniteSet(Pairs(AllOf, before, v)) /\ \A y \in AllOf \ {here} : after[y] = before[y]
  BY <1>1, <1>4
<1>6. /\ IsFiniteSet(Pairs(AllOf, after, v))
      /\ Cardinality(Pairs(AllOf, before, v)) \in Nat /\ Cardinality(Pairs(AllOf, after, v)) \in Nat
      /\ Balance(Cardinality(Pairs(AllOf, before, v)), Of(v, after[here]), Of(v, before[here]),
                 Cardinality(Pairs(AllOf, after, v)))
  BY <1>5, PairsChange
<1>. QED  BY <1>1, <1>3, <1>6

\* What the activations have in hand after a step.
LEMMA InHandLands ==
  ASSUME TypeOK, NEW th \in Threads, NEW fs \in Seq(Frames), NEW base \in Nat,
         base <= Depth(th), Lands(th, base, fs)
  PROVE  /\ \A u \in Threads, d \in Nat : (u = th => d <= base) =>
               InHand(u, d)' = InHand(u, d)
         /\ \A d \in Nat : d > base =>
               InHand(th, d)' =
                  IF d <= base + Len(fs) THEN fs[base + Len(fs) + 1 - d].drops ELSE {}
<1>1. \A u \in Threads : Depth(u) \in Nat /\ Len(fs) \in Nat
  BY Stacks, LenProperties
<1>2. \A u, d :
        /\ InHand(u, d) = IF d \in 1..Depth(u) THEN At(<<u, d>>).drops ELSE {}
        /\ InHand(u, d)' = IF d \in 1..Depth(u)' THEN At(<<u, d>>)'.drops ELSE {}
  BY DEF InHand
<1>3. ASSUME NEW u \in Threads, NEW d \in Nat, u = th => d <= base
      PROVE  InHand(u, d)' = InHand(u, d)
  <2>1. d \in 1..Depth(u)' <=> d \in 1..Depth(u)
    <3>1. ~(u = th /\ d > base)
      BY <1>3
    <3>2. d \in 1..Depth(u)' => d \in 1..Depth(u)
      BY <3>1, Landed
    <3>3. d \in 1..Depth(u) => d \in 1..Depth(u)'
      BY <1>3, Landed
    <3>. QED  BY <3>2, <3>3
  <2>2. d \in 1..Depth(u) => At(<<u, d>>)' = At(<<u, d>>)
    BY <1>3, Landed
  <2>. QED  BY <1>2, <2>1, <2>2
<1>4. ASSUME NEW d \in Nat, d > base
      PROVE  InHand(th, d)' =
                IF d <= base + Len(fs) THEN fs[base + Len(fs) + 1 - d].drops ELSE {}
  <2>1. CASE d <= base + Len(fs)
    <3>1. base + Len(fs) + 1 - d \in 1..Len(fs)
      BY <1>1, <1>4, <2>1
    <3>2. d \in 1..Depth(th)' /\ At(<<th, d>>)' = fs[base + Len(fs) + 1 - d]
      BY <1>4, <3>1, Landed
    <3>. QED  BY <1>2, <2>1, <3>2
  <2>2. CASE ~(d <= base + Len(fs))
    <3>1. d \notin 1..Depth(th)'
      BY <1>1, <1>4, <2>2 DEF Lands
    <3>. QED  BY <1>2, <2>2, <3>1
  <2>. QED  BY <2>1, <2>2
<1>. QED  BY <1>3, <1>4

\* The handles to be released are with the lowest of the new activations.
Lowest(fs) == IF Len(fs) = 0 THEN {} ELSE fs[Len(fs)].drops

LEMMA DroppedLands ==
  ASSUME TypeOK, NEW th \in Threads, NEW fs \in Seq(Frames), NEW base \in Nat,
         Lands(th, base, fs), stack' \in [Threads -> Seq(Frames)],
         base = Depth(th) \/ base + 1 = Depth(th),
         \A k \in 1..(Len(fs) - 1) : fs[k].drops = {},
         NEW old, old = IF base = Depth(th) THEN {} ELSE At(<<th, Depth(th)>>).drops,
         NEW v \in Values, IsFiniteSet(Dropped(v))
  PROVE  /\ IsFiniteSet(Dropped(v)')
         /\ Cardinality(Dropped(v)) \in Nat /\ Cardinality(Dropped(v)') \in Nat
         /\ Balance(Cardinality(Dropped(v)), Of(v, Lowest(fs)), Of(v, old), Cardinality(Dropped(v)'))
<1>1. Depth(th) \in Nat /\ Len(fs) \in Nat /\ base + 1 \in Nat /\ base <= Depth(th)
      /\ base + 1 > base
  BY Stacks, LenProperties
<1>2. InHand(th, base + 1) = old
  <2>1. CASE base = Depth(th)
    <3>1. base + 1 \notin 1..Depth(th)
      BY <1>1, <2>1
    <3>. QED  BY <2>1, <3>1 DEF InHand
  <2>2. CASE base + 1 = Depth(th)
    <3>1. base + 1 \in 1..Depth(th) /\ base # Depth(th)
      BY <1>1, <2>2
    <3>. QED  BY <2>2, <3>1 DEF InHand
  <2>. QED  BY <2>1, <2>2
<1>3. InHand(th, base + 1)' = Lowest(fs)
  <2>1. InHand(th, base + 1)' =
           IF base + 1 <= base + Len(fs) THEN fs[base + Len(fs) + 1 - (base + 1)].drops ELSE {}
    BY <1>1, InHandLands
  <2>2. CASE Len(fs) = 0
    <3>1. ~(base + 1 <= base + Len(fs))
      BY <1>1, <2>2
    <3>. QED  BY <2>1, <2>2, <3>1 DEF Lowest
  <2>3. CASE Len(fs) # 0
    <3>1. base + 1 <= base + Len(fs) /\ base + Len(fs) + 1 - (base + 1) = Len(fs)
      BY <1>1, <2>3
    <3>. QED  BY <2>1, <2>3, <3>1 DEF Lowest
  <2>. QED  BY <2>2, <2>3
<1>4. ASSUME NEW u \in Threads, NEW d \in Nat, u # th \/ d # base + 1
      PROVE  InHand(u, d)' = InHand(u, d)
  <2>1. CASE u = th => d <= base
    BY <1>1, <2>1, InHandLands
  <2>2. CASE u = th /\ d > base
    <3>1. d \notin 1..Depth(th)
      BY <1>1, <1>4, <2>2
    <3>2. InHand(th, d) = {}
      BY <3>1 DEF InHand
    <3>3. InHand(th, d)' = IF d <= base + Len(fs) THEN fs[base + Len(fs) + 1 - d].drops ELSE {}
      BY <1>1, <2>2, InHandLands
    <3>4. d <= base + Len(fs) => base + Len(fs) + 1 - d \in 1..(Len(fs) - 1)
      BY <1>1, <1>4, <2>2
    <3>. QED  BY <2>2, <3>2, <3>3, <3>4
  <2>. QED  BY <1>1, <2>1, <2>2
<1>. QED  BY <1>1, <1>2, <1>3, <1>4, DroppedAt

LEMMA CarriedChanges ==
  ASSUME TypeOK, NEW cb \in Callbacks, NEW hs \in SUBSET Handles,
         carries' = [carries EXCEPT ![cb] = hs], NEW v \in Values, IsFiniteSet(Carried(v))
  PROVE  /\ IsFiniteSet(Carried(v)')
         /\ Cardinality(Carried(v)) \in Nat /\ Cardinality(Carried(v)') \in Nat
         /\ Balance(Cardinality(Carried(v)), Of(v, hs), Of(v, carries[cb]), Cardinality(Carried(v)'))
<1>. DEFINE f == carries
            g == carries'
<1>1. /\ f \in [Callbacks -> SUBSET Handles] /\ g \in [Callbacks -> SUBSET Handles]
      /\ g[cb] = hs /\ \A y \in Callbacks \ {cb} : g[y] = f[y]
  BY DEF TypeOK
<1>2. Carried(v) = Pairs(Callbacks, f, v) /\ Carried(v)' = Pairs(Callbacks, g, v)
  BY DEF Carried, Pairs
<1>. HIDE DEF g
<1>3. /\ IsFiniteSet(Pairs(Callbacks, g, v))
      /\ Cardinality(Pairs(Callbacks, f, v)) \in Nat /\ Cardinality(Pairs(Callbacks, g, v)) \in Nat
      /\ Balance(Cardinality(Pairs(Callbacks, f, v)), Of(v, g[cb]), Of(v, f[cb]),
                 Cardinality(Pairs(Callbacks, g, v)))
  BY <1>1, <1>2, PairsChange
<1>. QED  BY <1>1, <1>2, <1>3

LEMMA StoredChanges ==
  ASSUME TypeOK, NEW u \in Values, NEW hs \in SUBSET Handles,
         value' = [value EXCEPT ![u] = hs], NEW v \in Values, IsFiniteSet(Stored(v))
  PROVE  /\ IsFiniteSet(Stored(v)')
         /\ Cardinality(Stored(v)) \in Nat /\ Cardinality(Stored(v)') \in Nat
         /\ Balance(Cardinality(Stored(v)), Of(v, hs), Of(v, value[u]), Cardinality(Stored(v)'))
<1>. DEFINE f == value
            g == value'
<1>1. /\ f \in [Values -> SUBSET Handles] /\ g \in [Values -> SUBSET Handles]
      /\ g[u] = hs /\ \A y \in Values \ {u} : g[y] = f[y]
  BY DEF TypeOK
<1>2. Stored(v) = Pairs(Values, f, v) /\ Stored(v)' = Pairs(Values, g, v)
  BY DEF Stored, Pairs
<1>. HIDE DEF g
<1>3. /\ IsFiniteSet(Pairs(Values, g, v))
      /\ Cardinality(Pairs(Values, f, v)) \in Nat /\ Cardinality(Pairs(Values, g, v)) \in Nat
      /\ Balance(Cardinality(Pairs(Values, f, v)), Of(v, g[u]), Of(v, f[u]),
                 Cardinality(Pairs(Values, g, v)))
  BY <1>1, <1>2, PairsChange
<1>. QED  BY <1>1, <1>2, <1>3

LEMMA SlotsChange ==
  ASSUME TypeOK, NEW s \in Slots, NEW h, slot' = [slot EXCEPT ![s] = h],
         NEW v \in Values, IsFiniteSet(InSlots(v))
  PROVE  /\ IsFiniteSet(InSlots(v)')
         /\ Cardinality(InSlots(v)) \in Nat /\ Cardinality(InSlots(v)') \in Nat
         /\ Balance(Cardinality(InSlots(v)), Of(v, {h}), Of(v, {slot[s]}), Cardinality(InSlots(v)'))
<1>. DEFINE A == InSlots(v)
            B == InSlots(v)'
<1>1. \A x \in Slots : slot'[x] = IF x = s THEN h ELSE slot[x]
  BY DEF TypeOK
<1>2. /\ s \in A <=> slot[s].of = v
      /\ h.of = v => B = A \cup {s}
      /\ h.of # v => B = A \ {s}
  BY <1>1 DEF InSlots
<1>. HIDE DEF A, B
<1>3. /\ IsFiniteSet(A \cup {s}) /\ IsFiniteSet(A \ {s}) /\ Cardinality(A) \in Nat
      /\ Cardinality(A \cup {s}) = IF s \in A THEN Cardinality(A) ELSE Cardinality(A) + 1
      /\ Cardinality(A \ {s}) = IF s \in A THEN Cardinality(A) - 1 ELSE Cardinality(A)
  BY FS_AddElement, FS_RemoveElement, FS_CardinalityType DEF A
<1>4. IsFiniteSet(B)
  BY <1>2, <1>3
<1>5. Cardinality(B) \in Nat
  BY <1>4, FS_CardinalityType
<1>6. Cardinality(B) = Cardinality(A) + Of(v, {h}) - Of(v, {slot[s]})
  <2>1. Of(v, {h}) = IF h.of = v THEN 1 ELSE 0
    BY OfOne
  <2>2. Of(v, {slot[s]}) = IF s \in A THEN 1 ELSE 0
    BY <1>2, OfOne
  <2>3. CASE h.of = v
    <3>1. Of(v, {h}) = 1 /\ B = A \cup {s}
      BY <1>2, <2>1, <2>3
    <3>. QED  BY <1>3, <2>2, <3>1
  <2>4. CASE h.of # v
    <3>1. Of(v, {h}) = 0 /\ B = A \ {s}
      BY <1>2, <2>1, <2>4
    <3>. QED  BY <1>3, <2>2, <3>1
  <2>. QED  BY <2>3, <2>4
<1>. QED  BY <1>3, <1>4, <1>5, <1>6 DEF A, B, Balance

-----------------------------------------------------------------------------
(* What a step keeps, for the activations that it leaves and puts.         *)

\* The callbacks that are executed, but for one activation of th above base, keep
\* their handles; the variables that the other threads call through, their values.
KeepsCarries(th, base) ==
    \A u \in Threads : \A e \in 1..Depth(u) :
        At(<<u, e>>).op = "execute" /\ (u = th => e <= base) =>
            carries'[At(<<u, e>>).cbs[1]] = carries[At(<<u, e>>).cbs[1]]
KeepsSlots(th) ==
    \A u \in Threads \ {th} : \A e \in 1..Depth(u) :
        At(<<u, e>>).op \in Uses /\ At(<<u, e>>).via # None =>
            slot'[At(<<u, e>>).via].of = slot[At(<<u, e>>).via].of

\* A new call is backed, and inside it nothing goes on but destructors; nor does anything
\* else begin inside a call below.
BackedAtFirst(th, base, fs) ==
    \A k \in 1..Len(fs) :
        /\ Fits(fs[k])
        /\ fs[k].op \in Uses =>
             /\ \A j \in 1..(k - 1) : fs[k].op = "swap" /\ fs[j].op \in Destructors
             /\ IF fs[k].via = None THEN \E e \in 1..base : Covers(th, e, fs[k].self)
                ELSE slot'[fs[k].via].of = fs[k].self
OnlyDestroys(th, base, fs) ==
    \A d \in 1..base : At(<<th, d>>).op \in Uses =>
        /\ At(<<th, d>>).op = "swap" /\ slot' = slot
        /\ \A k \in 1..Len(fs) : fs[k].op \in Destructors

LEMMA FramesStay ==
  ASSUME TypeOK, AllFit, UsesAreBacked, NEW th \in Threads, NEW fs \in Seq(Frames),
         NEW base \in Nat, base <= Depth(th), Lands(th, base, fs),
         OnlyDestroys(th, base, fs), KeepsCarries(th, base), KeepsSlots(th),
         BackedAtFirst(th, base, fs)
  PROVE  AllFit' /\ UsesAreBacked'
<1>1. \A u \in Threads : Depth(u) \in Nat /\ Len(fs) \in Nat
  BY Stacks, LenProperties
<1>2. ASSUME NEW u \in Threads, NEW d \in Nat, d \in 1..Depth(u)'
      PROVE  Fits(At(<<u, d>>)')
  <2>1. CASE d \in 1..Depth(u) /\ (u = th => d <= base)
    BY <2>1, Landed DEF AllFit
  <2>2. CASE u = th /\ d > base /\ base + Len(fs) + 1 - d \in 1..Len(fs)
    BY <2>2, Landed DEF BackedAtFirst
  <2>. QED  BY <1>2, <2>1, <2>2, Landed
<1>3. AllFit'
  <2>1. \A u \in Threads : \A d \in 1..Depth(u)' : d \in Nat
    OBVIOUS
  <2>. QED  BY <1>2, <2>1 DEF AllFit, Fits
<1>4. ASSUME NEW u \in Threads, NEW e \in 1..Depth(u), u = th => e <= base, NEW v,
             Covers(u, e, v)
      PROVE  Covers(u, e, v)'
  <2>1. At(<<u, e>>)' = At(<<u, e>>)
    BY <1>1, <1>4, Landed
  <2>2. carries'[At(<<u, e>>).cbs[1]] = carries[At(<<u, e>>).cbs[1]]
    BY <1>4 DEF KeepsCarries, Covers
  <2>. QED  BY <1>4, <2>1, <2>2 DEF Covers
<1>5. ASSUME NEW u \in Threads, NEW d \in Nat, d \in 1..Depth(u)', At(<<u, d>>)'.op \in Uses,
             NEW e \in Nat, e \in (d + 1)..Depth(u)'
      PROVE  At(<<u, d>>)'.op = "swap" /\ At(<<u, e>>)'.op \in Destructors
  <2>0. e \in 1..Depth(u)' /\ e > d
    BY <1>5
  <2>1. CASE d \in 1..Depth(u) /\ (u = th => d <= base)
    <3>1. At(<<u, d>>)' = At(<<u, d>>)
      BY <2>1, Landed
    <3>2. CASE e \in 1..Depth(u) /\ (u = th => e <= base)
      <4>1. At(<<u, e>>)' = At(<<u, e>>) /\ e \in (d + 1)..Depth(u)
        BY <1>1, <2>0, <3>2, Landed
      <4>. QED  BY <1>5, <2>1, <3>1, <4>1 DEF UsesAreBacked
    <3>3. CASE u = th /\ e > base /\ base + Len(fs) + 1 - e \in 1..Len(fs)
      <4>1. At(<<u, e>>)' = fs[base + Len(fs) + 1 - e]
        BY <3>3, Landed
      <4>2. d \in 1..base
        BY <1>1, <2>1, <3>3
      <4>. QED  BY <1>5, <3>1, <3>3, <4>1, <4>2 DEF OnlyDestroys
    <3>4. \/ e \in 1..Depth(u) /\ (u = th => e <= base)
          \/ u = th /\ e > base /\ base + Len(fs) + 1 - e \in 1..Len(fs)
      BY <2>0, Landed
    <3>. QED  BY <3>2, <3>3, <3>4
  <2>2. CASE u = th /\ d > base /\ base + Len(fs) + 1 - d \in 1..Len(fs)
    <3>. DEFINE k == base + Len(fs) + 1 - d
                j == base + Len(fs) + 1 - e
    <3>1. At(<<u, d>>)' = fs[k] /\ k \in 1..Len(fs)
      BY <2>2, Landed
    <3>2. e > base /\ e <= base + Len(fs) /\ j \in 1..Len(fs) /\ j \in 1..(k - 1)
      BY <1>1, <2>0, <2>2 DEF Lands
    <3>3. At(<<u, e>>)' = fs[j]
      BY <2>2, <3>2, Landed
    <3>. HIDE DEF k, j
    <3>. QED  BY <1>5, <3>1, <3>2, <3>3 DEF BackedAtFirst
  <2>3. \/ d \in 1..Depth(u) /\ (u = th => d <= base)
        \/ u = th /\ d > base /\ base + Len(fs) + 1 - d \in 1..Len(fs)
    BY <1>5, Landed
  <2>. QED  BY <2>1, <2>2, <2>3
<1>6. ASSUME NEW u \in Threads, NEW d \in Nat, d \in 1..Depth(u)', At(<<u, d>>)'.op \in Uses
      PROVE  IF At(<<u, d>>)'.via = None
             THEN \E e \in 1..(d - 1) : Covers(u, e, At(<<u, d>>).self)'
             ELSE slot'[At(<<u, d>>)'.via].of = At(<<u, d>>)'.self
  <2>1. CASE d \in 1..Depth(u) /\ (u = th => d <= base)
    <3>1. At(<<u, d>>)' = At(<<u, d>>)
      BY <2>1, Landed
    <3>2. CASE At(<<u, d>>).via = None
      <4>1. PICK e \in 1..(d - 1) : Covers(u, e, At(<<u, d>>).self)
        BY <1>6, <2>1, <3>1, <3>2 DEF UsesAreBacked
      <4>2. PICK v : v = At(<<u, d>>).self
        OBVIOUS
      <4>3. e \in 1..Depth(u) /\ (u = th => e <= base)
        BY <1>1, <2>1
      <4>4. Covers(u, e, v)'
        BY <1>4, <4>1, <4>2, <4>3
      <4>. QED  BY <3>1, <3>2, <4>2, <4>4 DEF Covers
    <3>3. CASE At(<<u, d>>).via # None /\ u # th
      BY <1>6, <2>1, <3>1, <3>3 DEF UsesAreBacked, KeepsSlots
    <3>4. CASE At(<<u, d>>).via # None /\ u = th
      <4>1. d \in 1..base
        BY <1>1, <2>1, <3>4
      <4>2. slot' = slot
        BY <1>6, <3>1, <3>4, <4>1 DEF OnlyDestroys
      <4>. QED  BY <1>6, <2>1, <3>1, <3>4, <4>2 DEF UsesAreBacked
    <3>. QED  BY <3>2, <3>3, <3>4
  <2>2. CASE u = th /\ d > base /\ base + Len(fs) + 1 - d \in 1..Len(fs)
    <3>. DEFINE k == base + Len(fs) + 1 - d
    <3>1. At(<<u, d>>)' = fs[k] /\ k \in 1..Len(fs)
      BY <2>2, Landed
    <3>2. IF fs[k].via = None THEN \E e \in 1..base : Covers(th, e, fs[k].self)
          ELSE slot'[fs[k].via].of = fs[k].self
      BY <1>6, <3>1 DEF BackedAtFirst
    <3>. HIDE DEF k
    <3>4. ASSUME fs[k].via = None
          PROVE  \E e \in 1..(d - 1) : Covers(u, e, At(<<u, d>>).self)'
      <4>1. PICK e \in 1..base : Covers(th, e, fs[k].self)
        BY <3>2, <3>4
      <4>2. PICK v : v = fs[k].self
        OBVIOUS
      <4>3. e \in 1..Depth(th) /\ e <= base /\ e \in 1..(d - 1)
        BY <1>1, <2>2
      <4>4. Covers(th, e, v)'
        BY <1>4, <4>1, <4>2, <4>3
      <4>. QED  BY <2>2, <3>1, <4>2, <4>3, <4>4 DEF Covers
    <3>. QED  BY <3>1, <3>2, <3>4
  <2>3. \/ d \in 1..Depth(u) /\ (u = th => d <= base)
        \/ u = th /\ d > base /\ base + Len(fs) + 1 - d \in 1..Len(fs)
    BY <1>6, Landed
  <2>. QED  BY <2>1, <2>2, <2>3
<1>7. UsesAreBacked'
  <2>1. \A u \in Threads : \A d \in 1..Depth(u)' : /\ d \in Nat
                                                 /\ \A e \in (d + 1)..Depth(u)' : e \in Nat
    OBVIOUS
  <2>. QED  BY <1>5, <1>6, <2>1 DEF UsesAreBacked
<1>. QED  BY <1>3, <1>7

\* Nobody is destroyed, or dead is about to be: its destructor is the innermost
\* activation.
LEMMA Deaths ==
  ASSUME TypeOK, DestroyedOnce, NEW th \in Threads, NEW fs \in Seq(Frames),
         NEW base \in Nat, base <= Depth(th), Lands(th, base, fs),
         \A d \in (base + 1)..Depth(th) : At(<<th, d>>).op # "destroy",
         NEW dead \in Values \cup {None},
         \A k \in 1..Len(fs) : fs[k].op = "destroy" => k = 1 /\ fs[k].self = dead,
         dead # None => /\ Len(fs) # 0 /\ fs[1].op = "destroy" /\ fs[1].self = dead
                        /\ life'[dead] = "live" /\ refs[dead] # 0 /\ refs'[dead] = 0,
         \A v \in Values \ {dead} :
            \/ life'[v] = life[v] /\ (refs'[v] = 0 <=> refs[v] = 0)
            \/ life[v] = "new" /\ life'[v] = "live" /\ refs'[v] # 0,
         \A v \in Values : life'[v] # "live" => queue'[v] = <<>> /\ value'[v] = {}
  PROVE  DestroyedOnce'
<1>1. \A u \in Threads : Depth(u) \in Nat /\ Len(fs) \in Nat
  BY Stacks, LenProperties
<1>2. \A u \in Threads : \A d \in 1..Depth(u)' : d \in Nat
  OBVIOUS
<1>3. ASSUME NEW u \in Threads, NEW d \in Nat, NEW v \in Values
      PROVE  /\ Dying(u, d, v)' => \/ Dying(u, d, v)
                                   \/ v = dead /\ u = th /\ d = base + Len(fs)
             /\ Dying(u, d, v) => Dying(u, d, v)'
  <2>1. ASSUME Dying(u, d, v)'
        PROVE  Dying(u, d, v) \/ (v = dead /\ u = th /\ d = base + Len(fs))
    <3>1. d \in 1..Depth(u)' /\ At(<<u, d>>)'.op = "destroy" /\ At(<<u, d>>)'.self = v
      BY <2>1 DEF Dying
    <3>2. CASE d \in 1..Depth(u) /\ (u = th => d <= base)
      BY <3>1, <3>2, Landed DEF Dying
    <3>3. CASE u = th /\ d > base /\ base + Len(fs) + 1 - d \in 1..Len(fs)
      <4>1. At(<<u, d>>)' = fs[base + Len(fs) + 1 - d]
        BY <3>3, Landed
      <4>2. base + Len(fs) + 1 - d = 1 /\ dead = v
        BY <3>1, <3>3, <4>1
      <4>3. Len(fs) \in Nat
        BY <1>1
      <4>4. d = base + Len(fs)
        BY <4>2, <4>3
      <4>. QED  BY <3>3, <4>2, <4>4
    <3>. QED  BY <3>1, <3>2, <3>3, Landed
  <2>2. ASSUME Dying(u, d, v)
        PROVE  Dying(u, d, v)'
    <3>1. d \in 1..Depth(u) /\ At(<<u, d>>).op = "destroy" /\ At(<<u, d>>).self = v
      BY <2>2 DEF Dying
    <3>2. u = th => d <= base
      BY <1>1, <3>1
    <3>. QED  BY <3>1, <3>2, Landed DEF Dying
  <2>. QED  BY <2>1, <2>2
<1>4. ASSUME dead # None
      PROVE  \A u \in Threads, d \in Nat : ~Dying(u, d, dead)
  BY <1>4 DEF DestroyedOnce, Dying
<1>5. ASSUME NEW v \in Values, NEW t \in Threads, NEW u \in Threads, NEW d \in Nat,
             NEW e \in Nat, Dying(t, d, v)', Dying(u, e, v)'
      PROVE  t = u /\ d = e
  <2>1. CASE v # dead
    <3>1. Dying(t, d, v) /\ Dying(u, e, v)
      BY <1>3, <1>5, <2>1
    <3>. QED  BY <3>1 DEF DestroyedOnce, Dying
  <2>2. CASE v = dead
    BY <1>3, <1>4, <1>5, <2>2, HandlesAssumption
  <2>. QED  BY <2>1, <2>2
<1>6. ASSUME NEW v \in Values, NEW u \in Threads, NEW d \in Nat, Dying(u, d, v)'
      PROVE  life'[v] = "live" /\ refs'[v] = 0
  <2>1. CASE v # dead
    <3>1. Dying(u, d, v)
      BY <1>3, <1>6, <2>1
    <3>2. life[v] = "live" /\ refs[v] = 0
      BY <3>1 DEF DestroyedOnce, Dying
    <3>. QED  BY <2>1, <3>2
  <2>2. CASE v = dead
    BY <2>2, HandlesAssumption
  <2>. QED  BY <2>1, <2>2
<1>7. ASSUME NEW v \in Values, life'[v] # "live"
      PROVE  refs'[v] = 0 /\ queue'[v] = <<>> /\ value'[v] = {}
  <2>1. v # dead
    BY <1>7, HandlesAssumption
  <2>2. life[v] # "live" => refs[v] = 0
    BY DEF DestroyedOnce
  <2>. QED  BY <1>7, <2>1, <2>2
<1>8. ASSUME NEW v \in Values, life'[v] = "live", refs'[v] = 0
      PROVE  \E u \in Threads : \E d \in 1..Depth(u)' : Dying(u, d, v)'
  <2>1. CASE v # dead
    <3>1. life[v] = "live" /\ refs[v] = 0
      BY <1>8, <2>1
    <3>2. PICK u \in Threads : \E d \in 1..Depth(u) : Dying(u, d, v)
      BY <3>1 DEF DestroyedOnce
    <3>3. PICK d \in 1..Depth(u) : Dying(u, d, v)
      BY <3>2
    <3>4. Dying(u, d, v)'
      BY <1>3, <3>3
    <3>. QED  BY <3>4 DEF Dying
  <2>2. CASE v = dead
    <3>1. dead # None /\ Len(fs) # 0
      BY <2>2, HandlesAssumption
    <3>2. /\ base + Len(fs) \in Nat /\ base + Len(fs) > base
          /\ base + Len(fs) + 1 - (base + Len(fs)) = 1 /\ 1 \in 1..Len(fs)
      BY <1>1, <3>1
    <3>3. base + Len(fs) \in 1..Depth(th)' /\ At(<<th, base + Len(fs)>>)' = fs[1]
      BY <3>2, Landed
    <3>. QED  BY <2>2, <3>1, <3>3 DEF Dying
  <2>. QED  BY <2>1, <2>2
<1>. QED  BY <1>2, <1>5, <1>6, <1>7, <1>8 DEF DestroyedOnce

\* No SharedValue is made or loses its last handle.
LEMMA NobodyDies ==
  ASSUME TypeOK, DestroyedOnce, NEW th \in Threads, NEW fs \in Seq(Frames), NEW base \in Nat,
         base = Depth(th) \/ base + 1 = Depth(th), Lands(th, base, fs), life' = life,
         base # Depth(th) => At(<<th, Depth(th)>>).op # "destroy",
         \A k \in 1..Len(fs) : fs[k].op # "destroy",
         \A v \in Values : refs'[v] = 0 <=> refs[v] = 0,
         \A v \in Values : life[v] # "live" => queue'[v] = <<>> /\ value'[v] = {}
  PROVE  DestroyedOnce'
<1>1. Depth(th) \in Nat /\ base <= Depth(th)
  BY Stacks
<1>2. \A d \in (base + 1)..Depth(th) : At(<<th, d>>).op # "destroy"
  <2>1. ASSUME NEW d \in (base + 1)..Depth(th) PROVE d = Depth(th) /\ base # Depth(th)
    BY <1>1
  <2>. QED  BY <2>1
<1>3. PICK dead : dead = None
  OBVIOUS
<1>4. /\ dead \in Values \cup {None} /\ ~(dead # None)
      /\ \A k \in 1..Len(fs) : fs[k].op = "destroy" => k = 1 /\ fs[k].self = dead
  BY <1>3
<1>5. \A v \in Values \ {dead} : life'[v] = life[v] /\ (refs'[v] = 0 <=> refs[v] = 0)
  OBVIOUS
<1>6. \A v \in Values : life'[v] # "live" => queue'[v] = <<>> /\ value'[v] = {}
  OBVIOUS
<1>. QED  BY <1>1, <1>2, <1>4, <1>5, <1>6, Deaths

-----------------------------------------------------------------------------
(* What the count of a SharedValue tells.                                  *)

LEMMA Counts ==
  ASSUME TypeOK, Counted, NEW v \in Values
  PROVE  refs[v] = 0 <=> InSlots(v) = {} /\ Carried(v) = {} /\ Stored(v) = {} /\ Dropped(v) = {}
<1>1. /\ IsFiniteSet(InSlots(v)) /\ IsFiniteSet(Carried(v))
      /\ IsFiniteSet(Stored(v)) /\ IsFiniteSet(Dropped(v))
      /\ refs[v] = Cardinality(InSlots(v)) + Cardinality(Carried(v))
                   + Cardinality(Stored(v)) + Cardinality(Dropped(v))
  BY DEF Counted, CountIsExact, InSlots
<1>2. /\ Cardinality(InSlots(v)) \in Nat /\ Cardinality(Carried(v)) \in Nat
      /\ Cardinality(Stored(v)) \in Nat /\ Cardinality(Dropped(v)) \in Nat
  BY <1>1, FS_CardinalityType
<1>3. /\ Cardinality(InSlots(v)) = 0 <=> InSlots(v) = {}
      /\ Cardinality(Carried(v)) = 0 <=> Carried(v) = {}
      /\ Cardinality(Stored(v)) = 0 <=> Stored(v) = {}
      /\ Cardinality(Dropped(v)) = 0 <=> Dropped(v) = {}
  BY <1>1, FS_EmptySet
<1>4. refs[v] = 0 <=> /\ Cardinality(InSlots(v)) = 0 /\ Cardinality(Carried(v)) = 0
                      /\ Cardinality(Stored(v)) = 0 /\ Cardinality(Dropped(v)) = 0
  BY <1>1, <1>2
<1>. QED  BY <1>3, <1>4

\* A SharedValue with a handle has a positive count.
LEMMA Handled ==
  ASSUME TypeOK, Counted, NEW v \in Values,
         \/ \E s \in Slots : slot[s].of = v
         \/ \E cb \in Callbacks : \E h \in carries[cb] : h.of = v
         \/ \E u \in Values : \E h \in value[u] : h.of = v
         \/ \E th \in Threads : \E d \in 1..Depth(th) : \E h \in At(<<th, d>>).drops : h.of = v
  PROVE  refs[v] # 0
<1>1. ASSUME NEW s \in Slots, slot[s].of = v PROVE InSlots(v) # {}
  BY <1>1 DEF InSlots
<1>2. ASSUME NEW cb \in Callbacks, NEW h \in carries[cb], h.of = v PROVE Carried(v) # {}
  <2>1. h \in Handles
    BY DEF TypeOK
  <2>2. <<cb, h>> \in Carried(v)
    BY <1>2, <2>1 DEF Carried
  <2>. QED  BY <2>2
<1>3. ASSUME NEW th \in Threads, NEW d \in 1..Depth(th), NEW h \in At(<<th, d>>).drops, h.of = v
      PROVE  Dropped(v) # {}
  <2>1. At(<<th, d>>) \in Frames
    BY Stacks
  <2>2. h \in Handles
    BY <2>1 DEF Frames
  <2>3. <<th, d>> \in Activations
    <3>1. stack[th] \in Seq(Frames)
      BY Stacks
    <3>2. d \in DOMAIN stack[th]
      BY <3>1, LenProperties DEF Depth
    <3>. QED  BY <3>2 DEF Activations
  <2>4. <<<<th, d>>, h>> \in Dropped(v)
    BY <1>3, <2>2, <2>3 DEF Dropped
  <2>. QED  BY <2>4
<1>4. ASSUME NEW u \in Values, NEW h \in value[u], h.of = v PROVE Stored(v) # {}
  <2>1. h \in Handles
    BY DEF TypeOK
  <2>2. <<u, h>> \in Stored(v)
    BY <1>4, <2>1 DEF Stored
  <2>. QED  BY <2>2
<1>. QED  BY <1>1, <1>2, <1>3, <1>4, Counts

\* The count after a step, from the numbers of handles.
LEMMA Recounted ==
  ASSUME IsFiniteSet({v \in Values : life'[v] = "live"}), refs' \in [Values -> Int],
         \A v \in Values :
            /\ IsFiniteSet(InSlots(v)') /\ IsFiniteSet(Carried(v)')
            /\ IsFiniteSet(Stored(v)') /\ IsFiniteSet(Dropped(v)')
            /\ refs'[v] = Cardinality(InSlots(v)') + Cardinality(Carried(v)')
                          + Cardinality(Stored(v)') + Cardinality(Dropped(v)')
  PROVE  Counted' /\ refs' \in [Values -> Nat]
<1>1. ASSUME NEW v \in Values PROVE refs'[v] \in Nat
  <2>1. /\ Cardinality(InSlots(v)') \in Nat /\ Cardinality(Carried(v)') \in Nat
        /\ Cardinality(Stored(v)') \in Nat /\ Cardinality(Dropped(v)') \in Nat
    BY FS_CardinalityType
  <2>. QED  BY <2>1
<1>. QED  BY <1>1 DEF Counted, CountIsExact, InSlots

LEMMA OfEmpty ==
  ASSUME NEW v PROVE Of(v, {}) = 0
<1>1. {h \in {} : h.of = v} = {}
  OBVIOUS
<1>. QED  BY <1>1, FS_EmptySet DEF Of

LEMMA OfRemoved ==
  ASSUME NEW v \in Values, NEW hs \in SUBSET Handles, NEW h \in hs
  PROVE  Of(v, hs \ {h}) = Of(v, hs) - Of(v, {h})
<1>. DEFINE S == {x \in hs : x.of = v}
            T == {x \in hs \ {h} : x.of = v}
<1>1. IsFiniteSet(S) /\ Cardinality(S) \in Nat
  BY OfIs DEF Of
<1>2. CASE h.of = v
  <2>1. h \in S /\ T = S \ {h}
    BY <1>2
  <2>. HIDE DEF S, T
  <2>2. Cardinality(T) = Cardinality(S) - 1
    BY <1>1, <2>1, FS_RemoveElement
  <2>3. Of(v, {h}) = 1
    BY <1>2, OfOne
  <2>4. Of(v, hs) = Cardinality(S) /\ Of(v, hs \ {h}) = Cardinality(T)
    BY DEF S, T, Of
  <2>. QED  BY <2>2, <2>3, <2>4
<1>3. CASE h.of # v
  <2>1. T = S
    BY <1>3
  <2>2. Of(v, hs \ {h}) = Of(v, hs) /\ Of(v, hs) \in Nat
    BY <1>1, <2>1 DEF Of
  <2>. QED  BY <1>3, <2>2, OfOne
<1>. QED  BY <1>2, <1>3

-----------------------------------------------------------------------------
(* What the callbacks are in.                                              *)

LEMMA PlaceIs ==
  /\ \A v \in Values : <<"queue", v>> \in Places /\ Held(<<"queue", v>>) = Elements(queue[v])
  /\ \A th \in Threads, d \in Nat :
       /\ <<"call", th, d>> \in Places
       /\ Held(<<"call", th, d>>) =
            IF d \in 1..Depth(th) THEN Elements(At(<<th, d>>).cbs) ELSE {}
  /\ \A x \in Places : \/ \E v \in Values : x = <<"queue", v>>
                       \/ \E th \in Threads, d \in Nat : x = <<"call", th, d>>
BY DEF Places, Held

LEMMA HeldLands ==
  ASSUME TypeOK, NEW th \in Threads, NEW fs \in Seq(Frames), NEW base \in Nat,
         base <= Depth(th), Lands(th, base, fs)
  PROVE  /\ \A u \in Threads, d \in Nat : (u = th => d <= base) =>
               Held(<<"call", u, d>>)' = Held(<<"call", u, d>>)
         /\ \A d \in Nat : d > base =>
               Held(<<"call", th, d>>)' =
                  IF d <= base + Len(fs) THEN Elements(fs[base + Len(fs) + 1 - d].cbs) ELSE {}
<1>1. \A u \in Threads : Depth(u) \in Nat /\ Len(fs) \in Nat
  BY Stacks, LenProperties
<1>2. \A u \in Threads, d \in Nat :
        /\ Held(<<"call", u, d>>) = IF d \in 1..Depth(u) THEN Elements(At(<<u, d>>).cbs) ELSE {}
        /\ Held(<<"call", u, d>>)' = IF d \in 1..Depth(u)' THEN Elements(At(<<u, d>>)'.cbs) ELSE {}
  BY DEF Held, Elements
<1>3. ASSUME NEW u \in Threads, NEW d \in Nat, u = th => d <= base
      PROVE  Held(<<"call", u, d>>)' = Held(<<"call", u, d>>)
  <2>1. d \in 1..Depth(u)' <=> d \in 1..Depth(u)
    <3>1. ~(u = th /\ d > base)
      BY <1>3
    <3>2. d \in 1..Depth(u)' => d \in 1..Depth(u)
      BY <3>1, Landed
    <3>3. d \in 1..Depth(u) => d \in 1..Depth(u)'
      BY <1>3, Landed
    <3>. QED  BY <3>2, <3>3
  <2>2. d \in 1..Depth(u) => At(<<u, d>>)' = At(<<u, d>>)
    BY <1>3, Landed
  <2>. QED  BY <1>2, <2>1, <2>2
<1>4. ASSUME NEW d \in Nat, d > base
      PROVE  Held(<<"call", th, d>>)' =
                IF d <= base + Len(fs) THEN Elements(fs[base + Len(fs) + 1 - d].cbs) ELSE {}
  <2>1. CASE d <= base + Len(fs)
    <3>1. base + Len(fs) + 1 - d \in 1..Len(fs)
      BY <1>1, <1>4, <2>1
    <3>2. d \in 1..Depth(th)' /\ At(<<th, d>>)' = fs[base + Len(fs) + 1 - d]
      BY <1>4, <3>1, Landed
    <3>. QED  BY <1>2, <2>1, <3>2
  <2>2. CASE ~(d <= base + Len(fs))
    <3>1. d \notin 1..Depth(th)'
      BY <1>1, <1>4, <2>2 DEF Lands
    <3>. QED  BY <1>2, <2>2, <3>1
  <2>. QED  BY <2>1, <2>2
<1>. QED  BY <1>3, <1>4

\* Callbacks move between the places x and y; those of gone leave, those of come arrive.
Only(x, y) == \A z \in Places \ {x, y} : Held(z)' = Held(z)
Moves(x, y, gone, come) ==
    /\ Only(x, y)
    /\ x = y \/ Held(x)' \cap Held(y)' = {}
    /\ Held(x)' \cup Held(y)' = ((Held(x) \cup Held(y)) \ gone) \cup come
    /\ \A cb \in Callbacks :
         fate'[cb] = "kept" <=> (fate[cb] = "kept" /\ cb \notin gone) \/ cb \in come

LEMMA OnePlace ==
  ASSUME TypeOK, InOnePlace, NEW th \in Threads, NEW fs \in Seq(Frames),
         NEW base \in Nat, base <= Depth(th), Lands(th, base, fs),
         NEW x \in Places, NEW y \in Places, NEW gone, NEW come, Moves(x, y, gone, come),
         gone \subseteq Held(x) \cup Held(y), come \subseteq Callbacks,
         \A cb \in come : fate[cb] # "kept",
         \A v \in Values : Distinct(queue'[v]),
         \A k \in 1..Len(fs) : Distinct(fs[k].cbs),
         \A cb \in Callbacks : fate'[cb] # "kept" => carries'[cb] = {}
  PROVE  InOnePlace'
<1>1. \A u \in Threads : Depth(u) \in Nat /\ Len(fs) \in Nat
  BY Stacks, LenProperties
<1>2. ASSUME NEW u \in Threads, NEW d \in 1..Depth(u)'
      PROVE  Distinct(At(<<u, d>>)'.cbs)
  <2>1. d \in Nat
    OBVIOUS
  <2>2. CASE d \in 1..Depth(u) /\ (u = th => d <= base)
    <3>1. At(<<u, d>>)' = At(<<u, d>>)
      BY <2>1, <2>2, Landed
    <3>. QED  BY <2>2, <3>1 DEF InOnePlace
  <2>3. CASE u = th /\ d > base /\ base + Len(fs) + 1 - d \in 1..Len(fs)
    BY <2>1, <2>3, Landed
  <2>. QED  BY <2>1, <2>2, <2>3, Landed
<1>3. \A cb \in come : \A z \in Places : cb \notin Held(z)
  BY DEF InOnePlace
<1>4. \A z, w \in Places : z # w => Held(z) \cap Held(w) = {}
  BY DEF InOnePlace
<1>5. ASSUME NEW z \in Places, NEW w \in Places, z # w
      PROVE  Held(z)' \cap Held(w)' = {}
  <2>1. CASE z \in {x, y} /\ w \in {x, y}
    BY <1>5, <2>1 DEF Moves, Only
  <2>2. CASE z \in {x, y} /\ w \notin {x, y}
    <3>1. Held(w)' = Held(w) /\ Held(z)' \subseteq Held(x) \cup Held(y) \cup come
      BY <2>2 DEF Moves, Only
    <3>. QED  BY <1>3, <1>4, <2>2, <3>1
  <2>3. CASE z \notin {x, y} /\ w \in {x, y}
    <3>1. Held(z)' = Held(z) /\ Held(w)' \subseteq Held(x) \cup Held(y) \cup come
      BY <2>3 DEF Moves, Only
    <3>. QED  BY <1>3, <1>4, <2>3, <3>1
  <2>4. CASE z \notin {x, y} /\ w \notin {x, y}
    <3>1. Held(w)' = Held(w) /\ Held(z)' = Held(z)
      BY <2>4 DEF Moves, Only
    <3>. QED  BY <1>4, <1>5, <3>1
  <2>. QED  BY <2>1, <2>2, <2>3, <2>4
<1>6. ASSUME NEW cb \in Callbacks
      PROVE  fate'[cb] = "kept" <=> \E z \in Places : cb \in Held(z)'
  <2>1. fate[cb] = "kept" <=> \E z \in Places : cb \in Held(z)
    BY DEF InOnePlace
  <2>2. ASSUME cb \in come
        PROVE  \E z \in Places : cb \in Held(z)'
    BY <2>2 DEF Moves, Only
  <2>3. ASSUME NEW z \in Places, cb \in Held(z), cb \notin gone
        PROVE  \E w \in Places : cb \in Held(w)'
    <3>1. CASE z \in {x, y}
      BY <2>3, <3>1 DEF Moves, Only
    <3>2. CASE z \notin {x, y}
      BY <2>3, <3>2 DEF Moves, Only
    <3>. QED  BY <3>1, <3>2
  <2>4. ASSUME NEW z \in Places, cb \in Held(z)', cb \notin come
        PROVE  cb \notin gone /\ \E w \in Places : cb \in Held(w)
    <3>1. CASE z \in {x, y}
      BY <2>4, <3>1 DEF Moves, Only
    <3>2. CASE z \notin {x, y}
      <4>1. cb \in Held(z)
        BY <2>4, <3>2 DEF Moves, Only
      <4>2. cb \notin Held(x) \cup Held(y)
        BY <1>4, <3>2, <4>1
      <4>. QED  BY <4>1, <4>2
    <3>. QED  BY <3>1, <3>2
  <2>. QED  BY <2>1, <2>2, <2>3, <2>4 DEF Moves, Only
<1>7. Places' = Places
  BY DEF Places
<1>. QED  BY <1>2, <1>5, <1>6, <1>7 DEF InOnePlace, Distinct

-----------------------------------------------------------------------------
(* What most steps have in common.                                         *)

LEMMA Inside ==
  ASSUME TypeOK, AllFit, UsesAreBacked, NEW th \in Threads, NEW op, In(th, op)
  PROVE  /\ stack[th] # <<>> /\ Depth(th) \in Nat /\ Depth(th) - 1 \in Nat
         /\ Depth(th) \in 1..Depth(th) /\ Top(th) = At(<<th, Depth(th)>>)
         /\ Top(th) \in Frames /\ Fits(Top(th)) /\ Top(th).op = op
         /\ \A d \in 1..(Depth(th) - 1) :
              At(<<th, d>>).op \in Uses => At(<<th, d>>).op = "swap" /\ op \in Destructors
<1>1. /\ stack[th] # <<>> /\ Depth(th) \in Nat /\ Depth(th) \in 1..Depth(th)
      /\ Top(th) = At(<<th, Depth(th)>>) /\ Top(th).op = op
  BY Stacks DEF In
<1>2. Top(th) \in Frames /\ Fits(Top(th))
  BY <1>1, Stacks DEF AllFit
<1>3. Depth(th) - 1 \in Nat
  BY <1>1
<1>4. ASSUME NEW d \in 1..(Depth(th) - 1), At(<<th, d>>).op \in Uses
      PROVE  At(<<th, d>>).op = "swap" /\ op \in Destructors
  <2>1. d \in 1..Depth(th) /\ Depth(th) \in (d + 1)..Depth(th)
    BY <1>1
  <2>. QED  BY <1>1, <1>4, <2>1 DEF UsesAreBacked
<1>. QED  BY <1>1, <1>2, <1>3, <1>4

\* No call is in progress where a thread acts.
LEMMA Acting ==
  ASSUME TypeOK, AllFit, UsesAreBacked, NEW th \in Threads,
         Acts(th) \/ In(th, "result")
  PROVE  Depth(th) \in Nat /\ \A d \in 1..Depth(th) : At(<<th, d>>).op \notin Uses
<1>1. CASE stack[th] = <<>>
  <2>1. Depth(th) = 0
    BY <1>1, Stacks
  <2>. QED  BY <2>1
<1>2. ASSUME NEW op \in {"execute", "result"}, In(th, op)
      PROVE  Depth(th) \in Nat /\ \A d \in 1..Depth(th) : At(<<th, d>>).op \notin Uses
  <2>1. Depth(th) \in Nat /\ At(<<th, Depth(th)>>).op = op
    BY <1>2, Inside
  <2>2. \A d \in 1..(Depth(th) - 1) : At(<<th, d>>).op \notin Uses
    BY <1>2, Inside DEF Destructors
  <2>3. ASSUME NEW d \in 1..Depth(th) PROVE At(<<th, d>>).op \notin Uses
    <3>1. d = Depth(th) \/ d \in 1..(Depth(th) - 1)
      BY <2>1
    <3>. QED  BY <2>1, <2>2, <3>1 DEF Uses
  <2>. QED  BY <2>1, <2>3
<1>. QED  BY <1>1, <1>2 DEF Acts

LEMMA Short ==
  /\ \A s \in Seq(Callbacks) : Len(s) = 0 => Distinct(s) /\ Elements(s) = {}
  /\ Distinct(<<>>) /\ Elements(<<>>) = {}
  /\ \A s \in Seq(Callbacks) : Len(s) = 1 => Distinct(s) /\ Elements(s) = {s[1]} /\ s[1] \in Callbacks
  /\ \A cb \in Callbacks : Distinct(<<cb>>) /\ Elements(<<cb>>) = {cb} /\ <<cb>> \in Seq(Callbacks)
<1>1. \A s \in Seq(Callbacks) : Len(s) = 0 => Distinct(s) /\ Elements(s) = {}
  <2>1. 1..0 = {}
    OBVIOUS
  <2>. QED  BY <2>1 DEF Distinct, Elements
<1>2. Distinct(<<>>) /\ Elements(<<>>) = {}
  BY <1>1, EmptySeq
<1>3. \A s \in Seq(Callbacks) :
         Len(s) = 1 => Distinct(s) /\ Elements(s) = {s[1]} /\ s[1] \in Callbacks
  <2>1. 1..1 = {1}
    OBVIOUS
  <2>. QED  BY <2>1, ElementOfSeq DEF Distinct, Elements
<1>4. ASSUME NEW cb \in Callbacks
      PROVE  Distinct(<<cb>>) /\ Elements(<<cb>>) = {cb} /\ <<cb>> \in Seq(Callbacks)
  <2>1. <<cb>> \in Seq(Callbacks) /\ Len(<<cb>>) = 1 /\ <<cb>>[1] = cb
    OBVIOUS
  <2>. QED  BY <1>3, <2>1
<1>. QED  BY <1>1, <1>2, <1>3, <1>4

LEMMA OthersKeep ==
  ASSUME TypeOK, AllFit, NEW th \in Threads, NEW base \in Nat, NEW cb \in Callbacks, NEW hs,
         carries' = [carries EXCEPT ![cb] = hs],
         \A u \in Threads, d \in Nat : (u = th => d <= base) => cb \notin Held(<<"call", u, d>>)
  PROVE  KeepsCarries(th, base)
<1>1. ASSUME NEW u \in Threads, NEW e \in 1..Depth(u), At(<<u, e>>).op = "execute",
             u = th => e <= base
      PROVE  carries'[At(<<u, e>>).cbs[1]] = carries[At(<<u, e>>).cbs[1]]
  <2>1. At(<<u, e>>) \in Frames /\ Len(At(<<u, e>>).cbs) = 1
    BY <1>1, Stacks DEF AllFit, Fits
  <2>2. At(<<u, e>>).cbs \in Seq(Callbacks)
    BY <2>1 DEF Frames
  <2>3. At(<<u, e>>).cbs[1] \in Callbacks /\ At(<<u, e>>).cbs[1] \in Elements(At(<<u, e>>).cbs)
    BY <2>1, <2>2, Short
  <2>4. At(<<u, e>>).cbs[1] \in Held(<<"call", u, e>>)
    BY <2>3, PlaceIs
  <2>5. At(<<u, e>>).cbs[1] # cb
    BY <1>1, <2>4
  <2>. QED  BY <2>3, <2>5 DEF TypeOK
<1>. QED  BY <1>1 DEF KeepsCarries

\* The counts after a step that moves handles into or out of the hands of a thread only.
LEMMA CountsHands ==
  ASSUME TypeOK, Inv, NEW th \in Threads, NEW fs \in Seq(Frames), NEW base \in Nat,
         base = Depth(th) \/ base + 1 = Depth(th),
         Lands(th, base, fs), stack' \in [Threads -> Seq(Frames)],
         UNCHANGED <<slot, life, value, carries>>,
         \A k \in 1..(Len(fs) - 1) : fs[k].drops = {},
         NEW old, old = IF base = Depth(th) THEN {} ELSE At(<<th, Depth(th)>>).drops,
         refs' \in [Values -> Int],
         \A v \in Values : Balance(refs[v], Of(v, Lowest(fs)), Of(v, old), refs'[v])
  PROVE  Counted' /\ refs' \in [Values -> Nat]
<1>1. \A v \in Values : InSlots(v)' = InSlots(v) /\ Carried(v)' = Carried(v)
                        /\ Stored(v)' = Stored(v)
  BY DEF InSlots, Carried, Stored
<1>2. ASSUME NEW v \in Values
      PROVE  /\ IsFiniteSet(InSlots(v)') /\ IsFiniteSet(Carried(v)')
             /\ IsFiniteSet(Stored(v)') /\ IsFiniteSet(Dropped(v)')
             /\ refs'[v] = Cardinality(InSlots(v)') + Cardinality(Carried(v)')
                           + Cardinality(Stored(v)') + Cardinality(Dropped(v)')
  <2>1. /\ IsFiniteSet(InSlots(v)) /\ IsFiniteSet(Carried(v))
        /\ IsFiniteSet(Stored(v)) /\ IsFiniteSet(Dropped(v))
        /\ refs[v] = Cardinality(InSlots(v)) + Cardinality(Carried(v))
                     + Cardinality(Stored(v)) + Cardinality(Dropped(v))
    BY DEF Inv, Counted, CountIsExact, InSlots
  <2>2. /\ IsFiniteSet(Dropped(v)')
        /\ Cardinality(Dropped(v)) \in Nat /\ Cardinality(Dropped(v)') \in Nat
        /\ Balance(Cardinality(Dropped(v)), Of(v, Lowest(fs)), Of(v, old),
                   Cardinality(Dropped(v)'))
    BY <2>1, DroppedLands
  <2>3. /\ Cardinality(InSlots(v)) \in Nat /\ Cardinality(Carried(v)) \in Nat
        /\ Cardinality(Stored(v)) \in Nat
    BY <2>1, FS_CardinalityType
  <2>4. Of(v, Lowest(fs)) \in Int /\ Of(v, old) \in Int
    <3>1. old \in SUBSET (Handles \cup {Invalid})
      <4>1. Depth(th) \in Nat /\ (base + 1 = Depth(th) => Depth(th) \in 1..Depth(th))
        BY Stacks
      <4>2. Depth(th) \in 1..Depth(th) => At(<<th, Depth(th)>>).drops \in SUBSET Handles
        BY Stacks DEF Frames
      <4>. QED  BY <4>1, <4>2
    <3>2. Lowest(fs) \in SUBSET (Handles \cup {Invalid})
      <4>1. Len(fs) \in Nat /\ (Len(fs) # 0 => Len(fs) \in 1..Len(fs))
        BY LenProperties
      <4>2. Len(fs) # 0 => fs[Len(fs)] \in Frames
        BY <4>1, ElementOfSeq
      <4>. QED  BY <4>2 DEF Lowest, Frames
    <3>3. Of(v, old) \in Nat
      BY <3>1, OfIs
    <3>4. Of(v, Lowest(fs)) \in Nat
      BY <3>2, OfIs
    <3>. QED  BY <3>3, <3>4
  <2>5. Balance(refs[v], Of(v, Lowest(fs)), Of(v, old), refs'[v])
    OBVIOUS
  <2>. QED  BY <1>1, <2>1, <2>2, <2>3, <2>4, <2>5 DEF Balance
<1>3. IsFiniteSet({v \in Values : life'[v] = "live"})
  BY DEF Inv, Counted
<1>. QED  BY <1>2, <1>3, Recounted

\* A step that neither makes nor ends a handle or a SharedValue.
LEMMA Quiet ==
  ASSUME TypeOK, Inv, NEW th \in Threads, NEW fs \in Seq(Frames), NEW base \in Nat,
         base = Depth(th) \/ base + 1 = Depth(th),
         Lands(th, base, fs), stack' \in [Threads -> Seq(Frames)],
         UNCHANGED <<slot, life, value, refs, carries>>,
         \A d \in 1..base : At(<<th, d>>).op \notin Uses,
         base # Depth(th) => /\ At(<<th, Depth(th)>>).op # "destroy"
                             /\ At(<<th, Depth(th)>>).drops = {},
         BackedAtFirst(th, base, fs),
         \A k \in 1..Len(fs) : fs[k].op # "destroy" /\ fs[k].drops = {},
         \A v \in Values : life[v] # "live" => queue'[v] = <<>>
  PROVE  AllFit' /\ UsesAreBacked' /\ DestroyedOnce' /\ Counted'
<1>1. Depth(th) \in Nat /\ base <= Depth(th) /\ Len(fs) \in Nat
  BY Stacks, LenProperties
<1>2. AllFit' /\ UsesAreBacked'
  <2>1. KeepsCarries(th, base) /\ KeepsSlots(th) /\ OnlyDestroys(th, base, fs)
    BY DEF KeepsCarries, KeepsSlots, OnlyDestroys
  <2>. QED  BY <1>1, <2>1, FramesStay DEF Inv
<1>3. DestroyedOnce'
  <2>1. \A v \in Values : life[v] # "live" => queue'[v] = <<>> /\ value'[v] = {}
    BY DEF Inv, DestroyedOnce
  <2>2. DestroyedOnce
    BY DEF Inv
  <2>. QED  BY <2>1, <2>2, NobodyDies
<1>4. Counted'
  <2>1. Lowest(fs) = {} /\ \A k \in 1..(Len(fs) - 1) : fs[k].drops = {}
    <3>1. Len(fs) # 0 => Len(fs) \in 1..Len(fs)
      BY <1>1
    <3>2. \A k \in 1..(Len(fs) - 1) : k \in 1..Len(fs)
      BY <1>1
    <3>. QED  BY <3>1, <3>2 DEF Lowest
  <2>2. PICK old : old = IF base = Depth(th) THEN {} ELSE At(<<th, Depth(th)>>).drops
    OBVIOUS
  <2>3. old = {}
    BY <2>2
  <2>4. refs' \in [Values -> Int]
    BY DEF TypeOK
  <2>5. \A v \in Values : Balance(refs[v], Of(v, Lowest(fs)), Of(v, old), refs'[v])
    <3>1. \A v : Of(v, Lowest(fs)) = 0 /\ Of(v, old) = 0
      BY <2>1, <2>3, OfEmpty
    <3>. QED  BY <3>1 DEF Balance, TypeOK
  <2>. QED  BY <2>1, <2>2, <2>4, <2>5, CountsHands
<1>. QED  BY <1>2, <1>3, <1>4

\* The places where a step changes no callbacks.
LEMMA Elsewhere ==
  ASSUME TypeOK, NEW th \in Threads, NEW fs \in Seq(Frames), NEW base \in Nat,
         base = Depth(th) \/ base + 1 = Depth(th), Lands(th, base, fs), NEW x, NEW y,
         base # Depth(th) => \/ At(<<th, Depth(th)>>).cbs = <<>>
                             \/ <<"call", th, base + 1>> \in {x, y},
         \A k \in 1..Len(fs) : \/ fs[k].cbs = <<>>
                               \/ <<"call", th, base + Len(fs) + 1 - k>> \in {x, y},
         \A w \in Values : <<"queue", w>> \notin {x, y} => queue'[w] = queue[w]
  PROVE  Only(x, y)
<1>1. Depth(th) \in Nat /\ base <= Depth(th) /\ Len(fs) \in Nat
  BY Stacks, LenProperties
<1>2. ASSUME NEW u \in Threads, NEW d \in Nat, <<"call", u, d>> \notin {x, y}
      PROVE  Held(<<"call", u, d>>)' = Held(<<"call", u, d>>)
  <2>1. CASE u = th => d <= base
    BY <1>1, <2>1, HeldLands
  <2>2. CASE u = th /\ d > base
    <3>1. Held(<<"call", th, d>>)' =
             IF d <= base + Len(fs) THEN Elements(fs[base + Len(fs) + 1 - d].cbs) ELSE {}
      BY <1>1, <2>2, HeldLands
    <3>2. ASSUME d <= base + Len(fs) PROVE fs[base + Len(fs) + 1 - d].cbs = <<>>
      <4>1. PICK k : k = base + Len(fs) + 1 - d
        OBVIOUS
      <4>2. k \in 1..Len(fs) /\ base + Len(fs) + 1 - k = d
        BY <1>1, <2>2, <3>2, <4>1
      <4>3. fs[k].cbs = <<>>
        BY <1>2, <2>2, <4>2
      <4>. QED  BY <4>1, <4>3
    <3>3. Held(<<"call", th, d>>)' = {}
      BY <3>1, <3>2, Short
    <3>4. d \in 1..Depth(th) => d = Depth(th) /\ base # Depth(th) /\ d = base + 1
      BY <1>1, <2>2
    <3>5. Held(<<"call", th, d>>) = {}
      BY <1>2, <2>2, <3>4, PlaceIs, Short
    <3>. QED  BY <2>2, <3>3, <3>5
  <2>3. (u = th => d <= base) \/ (u = th /\ d > base)
    BY <1>1
  <2>. QED  BY <2>1, <2>2, <2>3
<1>3. \A w \in Values : <<"queue", w>> \notin {x, y} =>
         Held(<<"queue", w>>)' = Held(<<"queue", w>>)
  BY DEF Held, Elements
<1>4. ASSUME NEW z \in Places \ {x, y} PROVE Held(z)' = Held(z)
  <2>1. CASE \E w \in Values : z = <<"queue", w>>
    <3>1. PICK w \in Values : z = <<"queue", w>>
      BY <2>1
    <3>. QED  BY <1>3, <3>1
  <2>2. CASE \E u \in Threads, d \in Nat : z = <<"call", u, d>>
    <3>1. PICK u \in Threads, d \in Nat : z = <<"call", u, d>>
      BY <2>2
    <3>. QED  BY <1>2, <3>1
  <2>. QED  BY <2>1, <2>2, PlaceIs
<1>. QED  BY <1>4 DEF Only

\* A step that moves no callback.
LEMMA Unmoved ==
  ASSUME TypeOK, InOnePlace, NEW th \in Threads, NEW fs \in Seq(Frames), NEW base \in Nat,
         base = Depth(th) \/ base + 1 = Depth(th), Lands(th, base, fs),
         UNCHANGED <<queue, fate, carries>>,
         base # Depth(th) => At(<<th, Depth(th)>>).cbs = <<>>,
         \A k \in 1..Len(fs) : fs[k].cbs = <<>>
  PROVE  InOnePlace'
<1>1. Depth(th) \in Nat /\ base <= Depth(th) /\ Len(fs) \in Nat
  BY Stacks, LenProperties
<1>2. PICK x : x = <<"call", th, base + Len(fs) + 1>>
  OBVIOUS
<1>3. base + Len(fs) + 1 \in Nat /\ base + Len(fs) + 1 > base
      /\ base + Len(fs) + 1 \notin 1..Depth(th)' /\ ~(base + Len(fs) + 1 <= base + Len(fs))
  BY <1>1 DEF Lands
<1>4. x \in Places
  BY <1>2, <1>3, PlaceIs
<1>5. Held(x)' = Held(x)
  <2>1. Held(<<"call", th, base + Len(fs) + 1>>)' = {}
    BY <1>1, <1>3, HeldLands
  <2>2. base + Len(fs) + 1 \in 1..Depth(th) =>
           base # Depth(th) /\ base + Len(fs) + 1 = Depth(th)
    BY <1>1
  <2>3. Held(<<"call", th, base + Len(fs) + 1>>) = {}
    BY <1>3, <2>2, PlaceIs, Short
  <2>. QED  BY <1>2, <2>1, <2>3
<1>6. Only(x, x)
  BY Elsewhere
<1>7. Moves(x, x, {}, {})
  BY <1>4, <1>5, <1>6 DEF Moves, Only
<1>8. /\ \A v \in Values : Distinct(queue'[v])
      /\ \A cb \in Callbacks : fate'[cb] # "kept" => carries'[cb] = {}
  BY DEF InOnePlace
<1>9. \A k \in 1..Len(fs) : Distinct(fs[k].cbs)
  BY Short
<1>10. {} \subseteq Held(x) \cup Held(x) /\ {} \subseteq Callbacks /\ \A cb \in {} : fate[cb] # "kept"
  OBVIOUS
<1>. QED  BY <1>1, <1>4, <1>7, <1>8, <1>9, <1>10, OnePlace

-----------------------------------------------------------------------------
(* Calls.                                                                  *)

LEMMA AtHandIs ==
  ASSUME TypeOK, Inv, NEW th \in Threads
  PROVE  /\ \A h \in AtHand(th) : h \in Handles /\ refs[h.of] # 0
         /\ \A h \in CopiesAtHand(th) : h \in Handles /\ refs[h.of] # 0
<1>1. ASSUME NEW h \in AtHand(th) PROVE h \in Handles /\ refs[h.of] # 0
  <2>1. CASE h \in {slot[s] : s \in Slots} \ {Invalid}
    <3>1. PICK s \in Slots : slot[s] = h
      BY <2>1
    <3>2. h \in Handles
      BY <2>1, <3>1 DEF TypeOK
    <3>3. h.of \in Values
      BY <3>2 DEF Handles
    <3>. QED  BY <3>1, <3>2, <3>3, Handled DEF Inv
  <2>2. CASE In(th, "execute") /\ h \in carries[Top(th).cbs[1]]
    <3>1. Top(th) \in Frames /\ Len(Top(th).cbs) = 1
      BY <2>2, Inside DEF Inv, Fits
    <3>2. Top(th).cbs[1] \in Callbacks
      BY <3>1, Short DEF Frames
    <3>3. h \in Handles
      BY <2>2, <3>2 DEF TypeOK
    <3>4. h.of \in Values
      BY <3>3 DEF Handles
    <3>. QED  BY <2>2, <3>2, <3>3, <3>4, Handled DEF Inv
  <2>. QED  BY <2>1, <2>2 DEF AtHand
<1>2. ASSUME NEW h \in CopiesAtHand(th) PROVE h \in Handles /\ refs[h.of] # 0
  <2>1. PICK g \in AtHand(th) : h \in Copies(g)
    BY DEF CopiesAtHand
  <2>2. h.of = g.of /\ h \in Handles
    BY <1>1, <2>1 DEF Copies, Handles
  <2>. QED  BY <1>1, <2>1, <2>2
<1>. QED  BY <1>1, <1>2

\* The handle of a call backs it.
LEMMA Backs ==
  ASSUME TypeOK, Inv, NEW th \in Threads, NEW h, NEW s \in Slots \cup {None}, Via(th, h, s),
         NEW base, base = Depth(th)
  PROVE  IF s = None THEN \E e \in 1..base : Covers(th, e, h.of) ELSE slot[s].of = h.of
<1>1. CASE s = None
  <2>1. In(th, "execute") /\ h \in carries[Top(th).cbs[1]]
    BY <1>1, HandlesAssumption DEF Via
  <2>2. Depth(th) \in 1..Depth(th) /\ Top(th) = At(<<th, Depth(th)>>) /\ Top(th).op = "execute"
    BY <2>1, Inside DEF Inv
  <2>. QED  BY <1>1, <2>1, <2>2 DEF Covers
<1>2. CASE s # None
  BY <1>2 DEF Via
<1>. QED  BY <1>1, <1>2

\* A SharedValue that is being used is alive.
LEMMA UsedIsLive ==
  ASSUME TypeOK, Inv, NEW th \in Threads, NEW d \in 1..Depth(th), At(<<th, d>>).op \in Uses
  PROVE  /\ At(<<th, d>>).self \in Values /\ refs[At(<<th, d>>).self] # 0
         /\ life[At(<<th, d>>).self] = "live"
<1>1. PICK f : f = At(<<th, d>>)
  OBVIOUS
<1>2. f \in Frames /\ Fits(f) /\ f.op \in Uses
  BY <1>1, Stacks DEF Inv, AllFit
<1>3. PICK v : v = f.self
  OBVIOUS
<1>4. v \in Values
  BY <1>2, <1>3 DEF Fits, Frames
<1>5. refs[v] # 0
  <2>1. CASE f.via = None
    <3>1. PICK e \in 1..(d - 1) : Covers(th, e, v)
      BY <1>1, <1>2, <1>3, <2>1 DEF Inv, UsesAreBacked
    <3>2. Depth(th) \in Nat /\ e \in 1..Depth(th)
      <4>1. Depth(th) \in Nat
        BY Stacks
      <4>. QED  BY <4>1
    <3>3. At(<<th, e>>) \in Frames /\ Len(At(<<th, e>>).cbs) = 1
      BY <3>1, <3>2, Stacks DEF Inv, AllFit, Fits, Covers
    <3>4. At(<<th, e>>).cbs[1] \in Callbacks
      BY <3>3, Short DEF Frames
    <3>. QED  BY <1>4, <3>1, <3>4, Handled DEF Inv, Covers
  <2>2. CASE f.via # None
    <3>1. f.via \in Slots /\ slot[f.via].of = v
      BY <1>1, <1>2, <1>3, <2>2 DEF Inv, UsesAreBacked, Frames
    <3>. QED  BY <1>4, <3>1, Handled DEF Inv
  <2>. QED  BY <2>1, <2>2
<1>6. life[v] = "live"
  BY <1>4, <1>5 DEF Inv, DestroyedOnce
<1>. QED  BY <1>1, <1>3, <1>4, <1>5, <1>6

\* The handles in hand that an activation is left with, if any.
Left(B, hs) ==
    /\ B \in Seq(Frames)
    /\ \/ Len(B) = 0 /\ hs = {}
       \/ /\ Len(B) = 1 /\ B[1].drops = hs /\ B[1].cbs = <<>> /\ Fits(B[1])
          /\ B[1].op \in {"release", "result", "swap"}

LEMMA Leaves ==
  ASSUME NEW hs \in SUBSET Handles
  PROVE  /\ Left(Releases(hs), hs) /\ Left(Results(hs), hs)
         /\ Len(Releases(hs)) = 1 => Releases(hs)[1].op = "release"
         /\ Len(Results(hs)) = 1 => Results(hs)[1].op = "result"
<1>1. ASSUME NEW op \in {"release", "result"}
      PROVE  /\ Left(<<Frame(op, None, None, <<>>, hs)>>, hs)
             /\ <<Frame(op, None, None, <<>>, hs)>>[1].op = op
  <2>1. PICK r : r = Frame(op, None, None, <<>>, hs)
    OBVIOUS
  <2>2. r \in Frames /\ r.op = op /\ r.cbs = <<>> /\ r.drops = hs /\ r.self = None
    <3>1. <<>> \in Seq(Callbacks)
      BY EmptySeq
    <3>. QED  BY <2>1, <3>1 DEF Frame, Frames
  <2>3. Fits(r)
    BY <2>2 DEF Fits, Uses
  <2>4. <<r>> \in Seq(Frames) /\ Len(<<r>>) = 1 /\ <<r>>[1] = r
    BY <2>2, Puts
  <2>. QED  BY <2>1, <2>2, <2>3, <2>4 DEF Left
<1>2. CASE hs = {}
  <2>1. Releases(hs) = <<>> /\ Results(hs) = <<>>
    BY <1>2 DEF Releases, Results
  <2>2. <<>> \in Seq(Frames) /\ Len(<<>>) = 0
    BY Puts
  <2>3. Left(<<>>, hs)
    BY <1>2, <2>2 DEF Left
  <2>. QED  BY <2>1, <2>2, <2>3
<1>3. CASE hs # {}
  <2>1. /\ Releases(hs) = <<Frame("release", None, None, <<>>, hs)>>
        /\ Results(hs) = <<Frame("result", None, None, <<>>, hs)>>
    BY <1>3 DEF Releases, Results
  <2>. QED  BY <1>1, <2>1
<1>. QED  BY <1>2, <1>3

\* They are with the lowest of the new activations.
Ends(fs, A, B, hs) ==
    /\ fs \in Seq(Frames) /\ Lowest(fs) = hs
    /\ \A k \in 1..Len(fs) :
         \/ /\ Len(B) = 1 /\ fs[k] = B[1] /\ \A j \in 1..(k - 1) : j = 1 /\ Len(A) = 1
         \/ k = 1 /\ Len(A) = 1 /\ fs[k] = A[1]
    /\ \A k \in 1..(Len(fs) - 1) : fs[k].drops = {}
    /\ Len(A) = 1 => Len(fs) # 0 /\ fs[1] = A[1]

LEMMA Over ==
  ASSUME NEW A \in Seq(Frames), Len(A) <= 1, \A k \in 1..Len(A) : A[k].drops = {},
         NEW hs, NEW B, Left(B, hs), NEW fs, fs = A \o B
  PROVE  Ends(fs, A, B, hs)
<1>1. Len(A) = 0 \/ Len(A) = 1
  <2>1. PICK n : n = Len(A)
    OBVIOUS
  <2>2. n \in Nat /\ n <= 1
    BY <2>1, LenProperties
  <2>3. n = 0 \/ n = 1
    BY <2>2
  <2>. QED  BY <2>1, <2>3
<1>2. B \in Seq(Frames) /\ (Len(B) = 0 \/ Len(B) = 1)
  BY DEF Left
<1>3. /\ fs \in Seq(Frames) /\ Len(fs) = Len(A) + Len(B)
      /\ \A i \in 1..(Len(A) + Len(B)) : fs[i] = IF i <= Len(A) THEN A[i] ELSE B[i - Len(A)]
  BY <1>2, ConcatProperties
<1>4. CASE Len(A) = 0 /\ Len(B) = 0
  <2>1. Len(fs) = 0 /\ hs = {}
    BY <1>3, <1>4 DEF Left
  <2>2. 1..Len(fs) = {} /\ 1..(Len(fs) - 1) = {}
    BY <2>1
  <2>3. Lowest(fs) = hs /\ Len(A) # 1
    BY <1>4, <2>1 DEF Lowest
  <2>. QED  BY <1>3, <2>2, <2>3 DEF Ends
<1>5. CASE Len(A) = 1 /\ Len(B) = 0
  <2>1. Len(fs) = 1 /\ hs = {} /\ fs[1] = A[1]
    BY <1>3, <1>5 DEF Left
  <2>2. 1..Len(fs) = {1} /\ 1..(Len(fs) - 1) = {}
    BY <2>1
  <2>3. Lowest(fs) = hs
    BY <1>5, <2>1 DEF Lowest
  <2>4. \A k \in 1..Len(fs) : k = 1 /\ Len(A) = 1 /\ fs[k] = A[1]
    BY <1>5, <2>1, <2>2
  <2>. QED  BY <1>3, <2>1, <2>2, <2>3, <2>4 DEF Ends
<1>6. CASE Len(A) = 0 /\ Len(B) = 1
  <2>0. Len(fs) = 1 /\ B[1].drops = hs
    BY <1>3, <1>6 DEF Left
  <2>1. fs[1] = B[1]
    <3>1. 1 \in 1..(Len(A) + Len(B)) /\ ~(1 <= Len(A)) /\ 1 - Len(A) = 1
      BY <1>6
    <3>. QED  BY <1>3, <3>1
  <2>2. 1..Len(fs) = {1} /\ 1..(Len(fs) - 1) = {} /\ 1..(1 - 1) = {}
    BY <2>0
  <2>3. Lowest(fs) = hs /\ Len(A) # 1
    BY <1>6, <2>0 DEF Lowest
  <2>. QED  BY <1>3, <1>6, <2>0, <2>1, <2>2, <2>3 DEF Ends
<1>7. CASE Len(A) = 1 /\ Len(B) = 1
  <2>1. Len(fs) = 2 /\ B[1].drops = hs /\ fs[1] = A[1] /\ fs[2] = B[1]
    BY <1>3, <1>7 DEF Left
  <2>2. 1..Len(fs) = {1, 2} /\ 1..(Len(fs) - 1) = {1} /\ 1..(2 - 1) = {1}
    BY <2>1
  <2>3. Lowest(fs) = hs /\ fs[1].drops = {}
    BY <1>7, <2>1 DEF Lowest
  <2>4. ASSUME NEW k \in 1..Len(fs)
        PROVE  \/ /\ Len(B) = 1 /\ fs[k] = B[1] /\ \A j \in 1..(k - 1) : j = 1 /\ Len(A) = 1
               \/ k = 1 /\ Len(A) = 1 /\ fs[k] = A[1]
    <3>1. k = 1 \/ k = 2
      BY <2>2
    <3>. QED  BY <1>7, <2>1, <2>2, <3>1
  <2>. QED  BY <1>3, <1>7, <2>1, <2>2, <2>3, <2>4 DEF Ends
<1>. QED  BY <1>1, <1>2, <1>4, <1>5, <1>6, <1>7

\* The handles hs end, and nothing else is put on the stack.
ReleasesAll(fs, hs) ==
    /\ fs \in Seq(Frames) /\ fs = Releases(hs) /\ Lowest(fs) = hs
    /\ \A k \in 1..Len(fs) : fs[k].op = "release" /\ fs[k].cbs = <<>> /\ Fits(fs[k])
    /\ \A k \in 1..(Len(fs) - 1) : fs[k].drops = {}

LEMMA OnlyReleases ==
  ASSUME NEW hs \in SUBSET Handles
  PROVE  /\ ReleasesAll(Releases(hs), hs)
         /\ LET fs == Results(hs) IN
              /\ fs \in Seq(Frames) /\ Lowest(fs) = hs
              /\ \A k \in 1..Len(fs) : fs[k].op = "result" /\ fs[k].cbs = <<>> /\ Fits(fs[k])
              /\ \A k \in 1..(Len(fs) - 1) : fs[k].drops = {}
<1>1. ASSUME NEW fs, Left(fs, hs)
      PROVE  /\ fs \in Seq(Frames) /\ Lowest(fs) = hs
             /\ \A k \in 1..Len(fs) : k = 1 /\ Len(fs) = 1 /\ fs[k].cbs = <<>> /\ Fits(fs[k])
             /\ \A k \in 1..(Len(fs) - 1) : fs[k].drops = {}
  <2>1. CASE Len(fs) = 0
    <3>1. 1..Len(fs) = {} /\ 1..(Len(fs) - 1) = {}
      BY <2>1
    <3>. QED  BY <1>1, <2>1, <3>1 DEF Left, Lowest
  <2>2. CASE Len(fs) = 1
    <3>1. 1..Len(fs) = {1} /\ 1..(Len(fs) - 1) = {}
      BY <2>2
    <3>. QED  BY <1>1, <2>2, <3>1 DEF Left, Lowest
  <2>. QED  BY <1>1, <2>1, <2>2 DEF Left
<1>2. Left(Releases(hs), hs) /\ Left(Results(hs), hs)
  BY Leaves
<1>3. /\ Len(Releases(hs)) = 1 => Releases(hs)[1].op = "release"
      /\ Len(Results(hs)) = 1 => Results(hs)[1].op = "result"
  BY Leaves
<1>. QED  BY <1>1, <1>2, <1>3 DEF ReleasesAll

\* Copies hs of handles that somebody has are counted.
LEMMA MoreHandles ==
  ASSUME TypeOK, NEW hs \in SUBSET Handles, \A h \in hs : refs[h.of] # 0,
         refs' = [v \in Values |-> refs[v] + Of(v, hs)]
  PROVE  /\ refs' \in [Values -> Int]
         /\ \A v \in Values : /\ Of(v, hs) \in Nat /\ refs[v] \in Nat
                              /\ refs'[v] = refs[v] + Of(v, hs)
                              /\ refs'[v] = 0 <=> refs[v] = 0
<1>1. hs \in SUBSET (Handles \cup {Invalid})
  OBVIOUS
<1>2. ASSUME NEW v \in Values
      PROVE  /\ Of(v, hs) \in Nat /\ refs[v] \in Nat
             /\ refs[v] = 0 => Of(v, hs) = 0
  <2>1. Of(v, hs) \in Nat /\ (Of(v, hs) = 0 <=> \A h \in hs : h.of # v)
    BY <1>1, OfIs
  <2>. QED  BY <2>1 DEF TypeOK
<1>. QED  BY <1>2

LEMMA CallKeeps ==
  ASSUME TypeOK, Inv, NEW th \in Threads, Acts(th), NEW h \in AtHand(th),
         NEW s \in Slots \cup {None}, Via(th, h, s), NEW op \in {"set", "get"},
         NEW hs \in SUBSET CopiesAtHand(th), op = "get" => hs = {},
         Enter(th, <<Frame(op, s, h.of, <<>>, hs)>>),
         refs' = [v \in Values |-> refs[v] + Of(v, hs)],
         UNCHANGED <<program, slot, valueVars, carries, fate>>
  PROVE  TypeOK' /\ Inv'
<1>1. UNCHANGED <<program, slot, life, ready, value, queue, carries, fate>>
  BY DEF valueVars
<1>2. h.of \in Values /\ hs \in SUBSET Handles /\ \A g \in hs : refs[g.of] # 0
  BY AtHandIs DEF Handles
<1>3. PICK f : f = Frame(op, s, h.of, <<>>, hs)
  OBVIOUS
<1>4. f \in Frames /\ f.op = op /\ f.via = s /\ f.self = h.of /\ f.cbs = <<>> /\ f.drops = hs
  <2>1. <<>> \in Seq(Callbacks)
    BY EmptySeq
  <2>. QED  BY <1>2, <1>3, <2>1 DEF Frame, Frames
<1>5. PICK base : base = Depth(th)
  OBVIOUS
<1>6. PICK fs : fs = <<f>>
  OBVIOUS
<1>7. fs \in Seq(Frames) /\ Len(fs) = 1 /\ fs[1] = f /\ \A k \in 1..Len(fs) : k = 1
  BY <1>4, <1>6, Puts
<1>8. base \in Nat /\ base <= Depth(th) /\ \A d \in 1..base : At(<<th, d>>).op \notin Uses
  BY <1>5, Acting DEF Inv
<1>9. Lands(th, base, fs) /\ stack' \in [Threads -> Seq(Frames)]
  BY <1>3, <1>5, <1>6, <1>7, EnterLands
<1>10. /\ refs' \in [Values -> Int]
       /\ \A v \in Values : /\ Of(v, hs) \in Nat /\ refs[v] \in Nat
                            /\ refs'[v] = refs[v] + Of(v, hs)
                            /\ refs'[v] = 0 <=> refs[v] = 0
  BY <1>2, MoreHandles
<1>11. AllFit' /\ UsesAreBacked'
  <2>1. Fits(f)
    BY <1>2, <1>4, HandlesAssumption DEF Fits, Uses
  <2>2. IF s = None THEN \E e \in 1..base : Covers(th, e, h.of) ELSE slot[s].of = h.of
    BY <1>5, Backs
  <2>3. \A k \in 1..Len(fs) : 1..(k - 1) = {}
    BY <1>7
  <2>4. BackedAtFirst(th, base, fs)
    BY <1>1, <1>4, <1>7, <2>1, <2>2, <2>3 DEF BackedAtFirst
  <2>5. KeepsCarries(th, base) /\ KeepsSlots(th) /\ OnlyDestroys(th, base, fs)
    BY <1>1, <1>8 DEF KeepsCarries, KeepsSlots, OnlyDestroys
  <2>. QED  BY <1>7, <1>8, <1>9, <2>4, <2>5, FramesStay DEF Inv
<1>12. DestroyedOnce'
  <2>1. \A v \in Values : life[v] # "live" => queue'[v] = <<>> /\ value'[v] = {}
    BY <1>1 DEF Inv, DestroyedOnce
  <2>2. DestroyedOnce /\ \A k \in 1..Len(fs) : fs[k].op # "destroy"
    BY <1>4, <1>7 DEF Inv
  <2>. QED  BY <1>1, <1>5, <1>7, <1>8, <1>9, <1>10, <2>1, <2>2, NobodyDies
<1>13. Counted' /\ refs' \in [Values -> Nat]
  <2>1. \A k \in 1..(Len(fs) - 1) : fs[k].drops = {}
    <3>1. 1..(Len(fs) - 1) = {}
      BY <1>7
    <3>. QED  BY <3>1
  <2>2. Lowest(fs) = hs
    BY <1>4, <1>7 DEF Lowest
  <2>3. PICK old : old = IF base = Depth(th) THEN {} ELSE At(<<th, Depth(th)>>).drops
    OBVIOUS
  <2>4. \A v \in Values : Balance(refs[v], Of(v, Lowest(fs)), Of(v, old), refs'[v])
    <3>1. \A v : Of(v, old) = 0
      BY <1>5, <2>3, OfEmpty
    <3>. QED  BY <1>10, <2>2, <3>1 DEF Balance
  <2>. QED  BY <1>1, <1>5, <1>7, <1>8, <1>9, <1>10, <2>1, <2>3, <2>4, CountsHands
<1>14. InOnePlace'
  <2>1. \A k \in 1..Len(fs) : fs[k].cbs = <<>>
    BY <1>4, <1>7
  <2>. QED  BY <1>1, <1>5, <1>7, <1>8, <1>9, <2>1, Unmoved DEF Inv
<1>15. TypeOK'
  BY <1>1, <1>9, <1>13 DEF TypeOK
<1>. QED  BY <1>11, <1>12, <1>13, <1>14, <1>15 DEF Inv

LEMMA CallSetKeeps ==
  ASSUME TypeOK, Inv, NEW th \in Threads, Acts(th), NEW h \in AtHand(th),
         NEW s \in Slots \cup {None}, Via(th, h, s),
         NEW hs \in SUBSET CopiesAtHand(th), CallSet(th, h, s, hs)
  PROVE  TypeOK' /\ Inv'
<1>1. PICK op \in {"set", "get"} : op = "set"
  OBVIOUS
<1>2. /\ Enter(th, <<Frame(op, s, h.of, <<>>, hs)>>)
      /\ refs' = [v \in Values |-> refs[v] + Of(v, hs)]
      /\ UNCHANGED <<program, slot, valueVars, carries, fate>>
  BY <1>1 DEF CallSet
<1>. QED  BY <1>1, <1>2, CallKeeps

LEMMA CallGetKeeps ==
  ASSUME TypeOK, Inv, NEW th \in Threads, Acts(th), NEW h \in AtHand(th),
         NEW s \in Slots \cup {None}, Via(th, h, s), CallGet(th, h, s)
  PROVE  TypeOK' /\ Inv'
<1>1. PICK op \in {"set", "get"}, hs \in SUBSET CopiesAtHand(th) : op = "get" /\ hs = {}
  OBVIOUS
<1>2. /\ Enter(th, <<Frame(op, s, h.of, <<>>, hs)>>)
      /\ UNCHANGED <<program, slot, valueVars, carries, fate>>
  BY <1>1 DEF CallGet
<1>3. refs' = [v \in Values |-> refs[v] + Of(v, hs)]
  <2>1. \A v \in Values : refs[v] + Of(v, hs) = refs[v]
    BY <1>1, OfEmpty DEF TypeOK
  <2>2. refs' = refs /\ refs = [v \in Values |-> refs[v]]
    BY DEF CallGet, TypeOK
  <2>. QED  BY <2>1, <2>2
<1>. QED  BY <1>1, <1>2, <1>3, CallKeeps

LEMMA GetKeeps ==
  ASSUME TypeOK, Inv, NEW th \in Threads, Get(th)
  PROVE  TypeOK' /\ Inv'
<1>1. In(th, "get") /\ UNCHANGED <<program, slot, life, ready, value, queue, carries, fate>>
  BY DEF Get, valueVars
<1>2. /\ stack[th] # <<>> /\ Depth(th) \in Nat /\ Depth(th) - 1 \in Nat
      /\ Top(th) = At(<<th, Depth(th)>>) /\ Fits(Top(th)) /\ Top(th).op = "get"
      /\ Top(th) \in Frames /\ \A d \in 1..(Depth(th) - 1) : At(<<th, d>>).op \notin Uses
  BY <1>1, Inside DEF Inv, Destructors
<1>3. PICK v : v = Top(th).self
  OBVIOUS
<1>4. v \in Values
  BY <1>2, <1>3 DEF Fits, Uses, Frames
<1>5. PICK hs : hs = value[v]
  OBVIOUS
<1>6. hs \in SUBSET Handles /\ \A h \in hs : refs[h.of] # 0
  <2>1. hs \in SUBSET Handles
    BY <1>4, <1>5 DEF TypeOK
  <2>2. \A h \in hs : h.of \in Values
    BY <2>1 DEF Handles
  <2>. QED  BY <1>4, <1>5, <2>1, <2>2, Handled DEF Inv
<1>7. Become(th, Results(hs)) /\ refs' = [u \in Values |-> refs[u] + Of(u, hs)]
  BY <1>3, <1>5 DEF Get
<1>8. PICK base : base = Depth(th) - 1
  OBVIOUS
<1>9. base \in Nat /\ base + 1 = Depth(th) /\ base # Depth(th) /\ base <= Depth(th)
  BY <1>2, <1>8
<1>10. PICK fs : fs = Results(hs)
  OBVIOUS
<1>11. /\ fs \in Seq(Frames) /\ Lowest(fs) = hs
       /\ \A k \in 1..Len(fs) : fs[k].op = "result" /\ fs[k].cbs = <<>> /\ Fits(fs[k])
       /\ \A k \in 1..(Len(fs) - 1) : fs[k].drops = {}
  BY <1>6, <1>10, OnlyReleases
<1>12. Lands(th, base, fs) /\ stack' \in [Threads -> Seq(Frames)]
  BY <1>2, <1>7, <1>8, <1>10, <1>11, BecomeLands
<1>13. /\ refs' \in [Values -> Int]
       /\ \A u \in Values : /\ Of(u, hs) \in Nat /\ refs[u] \in Nat
                            /\ refs'[u] = refs[u] + Of(u, hs)
                            /\ refs'[u] = 0 <=> refs[u] = 0
  BY <1>6, <1>7, MoreHandles
<1>14. AllFit' /\ UsesAreBacked'
  <2>1. BackedAtFirst(th, base, fs)
    BY <1>11 DEF BackedAtFirst, Uses
  <2>2. KeepsCarries(th, base) /\ KeepsSlots(th) /\ OnlyDestroys(th, base, fs)
    BY <1>1, <1>2, <1>8 DEF KeepsCarries, KeepsSlots, OnlyDestroys
  <2>. QED  BY <1>9, <1>11, <1>12, <2>1, <2>2, FramesStay DEF Inv
<1>15. DestroyedOnce'
  <2>1. \A u \in Values : life[u] # "live" => queue'[u] = <<>> /\ value'[u] = {}
    BY <1>1 DEF Inv, DestroyedOnce
  <2>2. /\ DestroyedOnce /\ \A k \in 1..Len(fs) : fs[k].op # "destroy"
        /\ At(<<th, Depth(th)>>).op # "destroy"
    BY <1>2, <1>11 DEF Inv
  <2>. QED  BY <1>1, <1>9, <1>11, <1>12, <1>13, <2>1, <2>2, NobodyDies
<1>16. Counted' /\ refs' \in [Values -> Nat]
  <2>1. PICK old : old = IF base = Depth(th) THEN {} ELSE At(<<th, Depth(th)>>).drops
    OBVIOUS
  <2>2. \A u \in Values : Balance(refs[u], Of(u, Lowest(fs)), Of(u, old), refs'[u])
    <3>1. old = {}
      BY <1>2, <1>9, <2>1 DEF Fits
    <3>2. \A u : Of(u, old) = 0
      BY <3>1, OfEmpty
    <3>. QED  BY <1>11, <1>13, <3>2 DEF Balance
  <2>. QED  BY <1>1, <1>9, <1>11, <1>12, <1>13, <2>1, <2>2, CountsHands
<1>17. InOnePlace'
  <2>1. At(<<th, Depth(th)>>).cbs = <<>>
    BY <1>2 DEF Fits
  <2>. QED  BY <1>1, <1>9, <1>11, <1>12, <2>1, Unmoved DEF Inv
<1>18. TypeOK'
  BY <1>1, <1>12, <1>16 DEF TypeOK
<1>. QED  BY <1>14, <1>15, <1>16, <1>17, <1>18 DEF Inv

LEMMA SetKeeps ==
  ASSUME TypeOK, Inv, NEW th \in Threads, Set(th)
  PROVE  TypeOK' /\ Inv'
<1>1. In(th, "set") /\ UNCHANGED <<program, slot, life, ready, queue, carries, fate>>
  BY DEF Set
<1>2. /\ stack[th] # <<>> /\ Depth(th) \in Nat /\ Depth(th) - 1 \in Nat /\ Top(th) \in Frames
      /\ Top(th) = At(<<th, Depth(th)>>) /\ Fits(Top(th)) /\ Top(th).op = "set"
      /\ Depth(th) \in 1..Depth(th)
      /\ \A d \in 1..(Depth(th) - 1) : At(<<th, d>>).op \notin Uses
  BY <1>1, Inside DEF Inv, Destructors
<1>3. PICK v : v = Top(th).self
  OBVIOUS
<1>4. PICK hs : hs = Top(th).drops
  OBVIOUS
<1>5. PICK was : was = value[v]
  OBVIOUS
<1>6. PICK via : via = Top(th).via
  OBVIOUS
<1>7. v \in Values /\ life[v] = "live" /\ via \in Slots \cup {None}
  <2>1. v \in Values /\ life[v] = "live"
    BY <1>2, <1>3, UsedIsLive DEF Uses
  <2>. QED  BY <1>2, <1>6, <2>1 DEF Frames
<1>8. hs \in SUBSET Handles /\ was \in SUBSET Handles /\ \A h \in hs : refs[h.of] # 0
  <2>1. hs \in SUBSET Handles /\ was \in SUBSET Handles
    BY <1>2, <1>4, <1>5, <1>7 DEF Frames, TypeOK
  <2>2. \A h \in hs : h.of \in Values
    BY <2>1 DEF Handles
  <2>. QED  BY <1>2, <1>4, <2>1, <2>2, Handled DEF Inv
<1>9. PICK f : f = Frame("swap", via, v, <<>>, was)
  OBVIOUS
<1>10. /\ f \in Frames /\ f.op = "swap" /\ f.via = via /\ f.self = v /\ f.cbs = <<>>
       /\ f.drops = was
  <2>1. <<>> \in Seq(Callbacks)
    BY EmptySeq
  <2>. QED  BY <1>7, <1>8, <1>9, <2>1 DEF Frame, Frames
<1>11. /\ value' = [value EXCEPT ![v] = hs]
       /\ refs' = [u \in Values |-> refs[u] + Of(u, hs)]
       /\ Become(th, <<f>> \o Releases(hs))
  BY <1>3, <1>4, <1>5, <1>6, <1>9 DEF Set
<1>12. PICK B : B = Releases(hs)
  OBVIOUS
<1>13. Left(B, hs) /\ (Len(B) = 1 => B[1].op = "release")
  BY <1>8, <1>12, Leaves
<1>14. PICK fs : fs = <<f>> \o B
  OBVIOUS
<1>15. PICK m : m = Len(B)
  OBVIOUS
<1>16. /\ fs \in Seq(Frames) /\ Len(fs) = 1 + m /\ fs[1] = f
       /\ \/ m = 0 /\ hs = {}
          \/ /\ m = 1 /\ fs[2].op = "release" /\ fs[2].drops = hs /\ fs[2].cbs = <<>>
             /\ Fits(fs[2])
  <2>1. PICK A : A = <<f>>
    OBVIOUS
  <2>2. A \in Seq(Frames) /\ Len(A) = 1 /\ A[1] = f
    BY <1>10, <2>1, Puts
  <2>3. B \in Seq(Frames) /\ (m = 0 \/ m = 1)
    BY <1>13, <1>15 DEF Left
  <2>4. /\ fs \in Seq(Frames) /\ Len(fs) = 1 + m
        /\ \A i \in 1..(1 + m) : fs[i] = IF i <= 1 THEN A[i] ELSE B[i - 1]
    BY <1>14, <1>15, <2>1, <2>2, <2>3, ConcatProperties
  <2>5. fs[1] = f
    BY <2>2, <2>3, <2>4
  <2>6. CASE m = 0
    BY <1>13, <1>15, <2>4, <2>5, <2>6 DEF Left
  <2>7. CASE m = 1
    <3>1. fs[2] = B[1]
      BY <2>4, <2>7
    <3>. QED  BY <1>13, <1>15, <2>4, <2>5, <2>7, <3>1 DEF Left
  <2>. QED  BY <2>3, <2>6, <2>7
<1>17. \A k \in 1..Len(fs) : k = 1 \/ (k = 2 /\ m = 1)
  <2>1. CASE m = 0
    <3>1. Len(fs) = 1
      BY <1>16, <2>1
    <3>. QED  BY <3>1
  <2>2. CASE m = 1
    <3>1. Len(fs) = 2
      BY <1>16, <2>2
    <3>. QED  BY <2>2, <3>1
  <2>. QED  BY <1>16, <2>1, <2>2
<1>18. Fits(f)
  BY <1>7, <1>10, HandlesAssumption DEF Fits, Uses
<1>19. PICK base : base = Depth(th) - 1
  OBVIOUS
<1>20. base \in Nat /\ base + 1 = Depth(th) /\ base # Depth(th) /\ base <= Depth(th)
  BY <1>2, <1>19
<1>21. Lands(th, base, fs) /\ stack' \in [Threads -> Seq(Frames)]
  BY <1>2, <1>11, <1>12, <1>14, <1>16, <1>19, BecomeLands
<1>22. /\ refs' \in [Values -> Int]
       /\ \A u \in Values : /\ Of(u, hs) \in Nat /\ refs[u] \in Nat
                            /\ refs'[u] = refs[u] + Of(u, hs)
                            /\ refs'[u] = 0 <=> refs[u] = 0
  BY <1>8, <1>11, MoreHandles
<1>23. AllFit' /\ UsesAreBacked'
  <2>1. IF via = None THEN \E e \in 1..base : Covers(th, e, v) ELSE slot[via].of = v
    BY <1>2, <1>3, <1>6, <1>19 DEF Inv, UsesAreBacked, Uses
  <2>2. \A k \in 1..Len(fs) : fs[k].op \in Uses => k = 1 /\ 1..(k - 1) = {}
    <3>1. m = 1 => fs[2].op \notin Uses
      BY <1>16 DEF Uses
    <3>2. 1..(1 - 1) = {}
      OBVIOUS
    <3>. QED  BY <1>17, <3>1, <3>2
  <2>3. \A k \in 1..Len(fs) : Fits(fs[k])
    BY <1>16, <1>17, <1>18
  <2>4. BackedAtFirst(th, base, fs)
    BY <1>1, <1>10, <1>16, <2>1, <2>2, <2>3 DEF BackedAtFirst
  <2>5. KeepsCarries(th, base) /\ KeepsSlots(th) /\ OnlyDestroys(th, base, fs)
    BY <1>1, <1>2, <1>19 DEF KeepsCarries, KeepsSlots, OnlyDestroys
  <2>. QED  BY <1>16, <1>20, <1>21, <2>4, <2>5, FramesStay DEF Inv
<1>24. DestroyedOnce'
  <2>1. \A u \in Values : life[u] # "live" => queue'[u] = <<>> /\ value'[u] = {}
    <3>1. \A u \in Values : value'[u] = IF u = v THEN hs ELSE value[u]
      BY <1>11 DEF TypeOK
    <3>. QED  BY <1>1, <1>7, <3>1 DEF Inv, DestroyedOnce
  <2>2. /\ DestroyedOnce /\ \A k \in 1..Len(fs) : fs[k].op # "destroy"
        /\ At(<<th, Depth(th)>>).op # "destroy"
    BY <1>2, <1>10, <1>16, <1>17 DEF Inv
  <2>. QED  BY <1>1, <1>16, <1>20, <1>21, <1>22, <2>1, <2>2, NobodyDies
<1>25. ASSUME NEW w \in Values, IsFiniteSet(Dropped(w))
       PROVE  /\ IsFiniteSet(Dropped(w)')
              /\ Cardinality(Dropped(w)) \in Nat /\ Cardinality(Dropped(w)') \in Nat
              /\ Balance(Cardinality(Dropped(w)), Of(w, was), 0, Cardinality(Dropped(w)'))
  <2>1. PICK x : x = base + 1 + m
    OBVIOUS
  <2>2. x \in Nat /\ x > base /\ x <= base + Len(fs) /\ base + Len(fs) + 1 - x = 1
        /\ (m = 0 \/ m = 1)
    BY <1>16, <1>20, <2>1
  <2>3. InHand(th, x)' = was
    <3>1. InHand(th, x)' = fs[base + Len(fs) + 1 - x].drops
      BY <1>16, <1>20, <1>21, <2>2, InHandLands
    <3>. QED  BY <1>10, <1>16, <2>2, <3>1
  <2>4. InHand(th, x) = {}
    <3>1. CASE m = 0
      <4>1. x = Depth(th) /\ x \in 1..Depth(th)
        BY <1>20, <2>1, <3>1
      <4>. QED  BY <1>2, <1>4, <1>16, <3>1, <4>1 DEF InHand
    <3>2. CASE m = 1
      <4>1. x \notin 1..Depth(th)
        BY <1>20, <2>1, <3>2
      <4>. QED  BY <4>1 DEF InHand
    <3>. QED  BY <2>2, <3>1, <3>2
  <2>5. ASSUME NEW u \in Threads, NEW d \in Nat, u # th \/ d # x
        PROVE  InHand(u, d)' = InHand(u, d)
    <3>1. CASE u = th => d <= base
      BY <1>16, <1>20, <1>21, <3>1, InHandLands
    <3>2. CASE u = th /\ d > base /\ d <= base + Len(fs)
      <4>0. Len(fs) = 1 + m /\ d # base + 1 + m
        BY <1>16, <2>1, <2>5, <3>2
      <4>1. m = 1 /\ d = base + 1 /\ base + Len(fs) + 1 - d = 2
        <5>1. d >= base + 1 /\ d <= base + 1 + m
          BY <1>20, <2>2, <3>2, <4>0
        <5>2. m = 1
          BY <1>20, <2>2, <4>0, <5>1
        <5>. QED  BY <1>20, <4>0, <5>1, <5>2
      <4>2. InHand(th, d)' = fs[base + Len(fs) + 1 - d].drops
        BY <1>16, <1>20, <1>21, <3>2, InHandLands
      <4>3. InHand(th, d)' = hs
        BY <1>16, <4>1, <4>2
      <4>4. InHand(th, d) = hs
        BY <1>2, <1>4, <1>20, <4>1 DEF InHand
      <4>. QED  BY <3>2, <4>3, <4>4
    <3>3. CASE u = th /\ d > base /\ ~(d <= base + Len(fs))
      <4>1. InHand(th, d)' = {}
        BY <1>16, <1>20, <1>21, <3>3, InHandLands
      <4>2. d \notin 1..Depth(th)
        BY <1>16, <1>20, <2>2, <3>3
      <4>. QED  BY <3>3, <4>1, <4>2 DEF InHand
    <3>. QED  BY <1>20, <3>1, <3>2, <3>3
  <2>6. PICK had : had = InHand(th, x)
    OBVIOUS
  <2>7. /\ IsFiniteSet(Dropped(w)')
        /\ Cardinality(Dropped(w)) \in Nat /\ Cardinality(Dropped(w)') \in Nat
        /\ Balance(Cardinality(Dropped(w)), Of(w, was), Of(w, had), Cardinality(Dropped(w)'))
    BY <1>21, <1>25, <2>2, <2>3, <2>5, <2>6, DroppedAt
  <2>8. Of(w, had) = 0
    BY <2>4, <2>6, OfEmpty
  <2>. QED  BY <2>7, <2>8
<1>26. Counted' /\ refs' \in [Values -> Nat]
  <2>1. ASSUME NEW w \in Values
        PROVE  /\ IsFiniteSet(InSlots(w)') /\ IsFiniteSet(Carried(w)')
               /\ IsFiniteSet(Stored(w)') /\ IsFiniteSet(Dropped(w)')
               /\ refs'[w] = Cardinality(InSlots(w)') + Cardinality(Carried(w)')
                             + Cardinality(Stored(w)') + Cardinality(Dropped(w)')
    <3>1. /\ IsFiniteSet(InSlots(w)) /\ IsFiniteSet(Carried(w))
          /\ IsFiniteSet(Stored(w)) /\ IsFiniteSet(Dropped(w))
          /\ refs[w] = Cardinality(InSlots(w)) + Cardinality(Carried(w))
                       + Cardinality(Stored(w)) + Cardinality(Dropped(w))
      BY DEF Inv, Counted, CountIsExact, InSlots
    <3>2. Carried(w)' = Carried(w) /\ InSlots(w)' = InSlots(w)
      BY <1>1 DEF Carried, InSlots
    <3>3. /\ IsFiniteSet(Stored(w)')
          /\ Cardinality(Stored(w)) \in Nat /\ Cardinality(Stored(w)') \in Nat
          /\ Balance(Cardinality(Stored(w)), Of(w, hs), Of(w, value[v]), Cardinality(Stored(w)'))
      BY <1>7, <1>8, <1>11, <3>1, StoredChanges
    <3>4. /\ IsFiniteSet(Dropped(w)')
          /\ Cardinality(Dropped(w)) \in Nat /\ Cardinality(Dropped(w)') \in Nat
          /\ Balance(Cardinality(Dropped(w)), Of(w, was), 0, Cardinality(Dropped(w)'))
      BY <1>25, <3>1
    <3>5. Of(w, was) \in Nat /\ Of(w, value[v]) = Of(w, was)
      <4>1. was \in SUBSET (Handles \cup {Invalid})
        BY <1>8
      <4>. QED  BY <1>5, <4>1, OfIs
    <3>6. Cardinality(Stored(w)') + Cardinality(Dropped(w)')
             = Cardinality(Stored(w)) + Cardinality(Dropped(w)) + Of(w, hs)
      BY <1>22, <3>3, <3>4, <3>5 DEF Balance
    <3>7. Cardinality(Carried(w)) \in Nat /\ Cardinality(InSlots(w)) \in Nat
      BY <3>1, FS_CardinalityType
    <3>. QED  BY <1>22, <3>1, <3>2, <3>3, <3>4, <3>6, <3>7
  <2>2. IsFiniteSet({w \in Values : life'[w] = "live"})
    BY <1>1 DEF Inv, Counted
  <2>. QED  BY <1>22, <2>1, <2>2, Recounted
<1>27. InOnePlace'
  <2>1. At(<<th, Depth(th)>>).cbs = <<>> /\ \A k \in 1..Len(fs) : fs[k].cbs = <<>>
    BY <1>2, <1>10, <1>16, <1>17 DEF Fits
  <2>. QED  BY <1>1, <1>16, <1>20, <1>21, <2>1, Unmoved DEF Inv
<1>28. TypeOK'
  <2>1. value' \in [Values -> SUBSET Handles]
    BY <1>8, <1>11 DEF TypeOK
  <2>. QED  BY <1>1, <1>21, <1>26, <2>1 DEF TypeOK
<1>. QED  BY <1>23, <1>24, <1>26, <1>27, <1>28 DEF Inv

LEMMA SwapKeeps ==
  ASSUME TypeOK, Inv, NEW th \in Threads, Swap(th)
  PROVE  TypeOK' /\ Inv'
<1>1. In(th, "swap") /\ Top(th).drops = {}
  BY DEF Swap
<1>2. /\ stack[th] # <<>> /\ Depth(th) \in Nat /\ Depth(th) - 1 \in Nat /\ Top(th) \in Frames
      /\ Top(th) = At(<<th, Depth(th)>>) /\ Fits(Top(th)) /\ Top(th).op = "swap"
      /\ \A d \in 1..(Depth(th) - 1) : At(<<th, d>>).op \notin Uses
  BY <1>1, Inside DEF Inv, Destructors
<1>3. PICK v : v = Top(th).self
  OBVIOUS
<1>4. PICK q : q = queue[v]
  OBVIOUS
<1>5. PICK via : via = Top(th).via
  OBVIOUS
<1>6. v \in Values /\ via \in Slots \cup {None} /\ Top(th).cbs = <<>>
  BY <1>2, <1>3, <1>5 DEF Fits, Uses, Frames
<1>7. q \in Seq(Callbacks)
  BY <1>4, <1>6 DEF TypeOK
<1>8. PICK f : f = Frame("dispatch", via, None, q, {})
  OBVIOUS
<1>9. f \in Frames /\ f.op = "dispatch" /\ f.self = None /\ f.cbs = q /\ f.drops = {}
  BY <1>6, <1>7, <1>8 DEF Frame, Frames
<1>10. /\ ready' = ready \cup {v} /\ queue' = [queue EXCEPT ![v] = <<>>]
       /\ Become(th, <<f>>) /\ UNCHANGED <<program, slot, life, value, refs, carries, fate>>
  BY <1>3, <1>4, <1>5, <1>8 DEF Swap, Swapped, AfterUnlock
<1>11. PICK base : base = Depth(th) - 1
  OBVIOUS
<1>12. base \in Nat /\ base + 1 = Depth(th) /\ base <= Depth(th) /\ Depth(th) \in 1..Depth(th)
  BY <1>2, <1>11
<1>13. PICK fs : fs = <<f>>
  OBVIOUS
<1>14. fs \in Seq(Frames) /\ Len(fs) = 1 /\ fs[1] = f /\ \A k \in 1..Len(fs) : k = 1
  BY <1>9, <1>13, Puts
<1>15. Lands(th, base, fs) /\ stack' \in [Threads -> Seq(Frames)]
  BY <1>2, <1>10, <1>11, <1>13, <1>14, BecomeLands
<1>16. \A w \in Values : queue'[w] = IF w = v THEN <<>> ELSE queue[w]
  BY <1>10 DEF TypeOK
<1>17. AllFit' /\ UsesAreBacked' /\ DestroyedOnce' /\ Counted'
  <2>1. \A w \in Values : life[w] # "live" => queue'[w] = <<>>
    BY <1>16 DEF Inv, DestroyedOnce
  <2>2. BackedAtFirst(th, base, fs)
    BY <1>9, <1>14 DEF BackedAtFirst, Fits, Uses
  <2>3. /\ \A d \in 1..base : At(<<th, d>>).op \notin Uses
        /\ \A k \in 1..Len(fs) : fs[k].op # "destroy" /\ fs[k].drops = {}
        /\ base # Depth(th) => /\ At(<<th, Depth(th)>>).op # "destroy"
                               /\ At(<<th, Depth(th)>>).drops = {}
    BY <1>1, <1>2, <1>9, <1>11, <1>14
  <2>. QED  BY <1>10, <1>12, <1>14, <1>15, <2>1, <2>2, <2>3, Quiet
<1>18. InOnePlace'
  <2>1. PICK x : x = <<"queue", v>>
    OBVIOUS
  <2>2. PICK y : y = <<"call", th, base + 1>>
    OBVIOUS
  <2>3. base + 1 \in Nat /\ base + 1 > base /\ base + 1 <= base + Len(fs)
        /\ base + Len(fs) + 1 - (base + 1) = 1
    BY <1>12, <1>14
  <2>4. x \in Places /\ y \in Places /\ x # y
    BY <1>6, <2>1, <2>2, <2>3, PlaceIs
  <2>5. Held(x) = Elements(q) /\ Held(x)' = {}
    <3>1. Held(x)' = Elements(queue'[v])
      BY <2>1 DEF Held, Elements
    <3>. QED  BY <1>4, <1>6, <1>16, <2>1, <3>1, PlaceIs, Short
  <2>6. Held(y) = {} /\ Held(y)' = Elements(q)
    <3>1. Held(<<"call", th, base + 1>>)' = Elements(fs[1].cbs)
      BY <1>12, <1>14, <1>15, <2>3, HeldLands
    <3>2. Held(<<"call", th, base + 1>>) = Elements(At(<<th, Depth(th)>>).cbs)
      BY <1>12, <2>3, PlaceIs
    <3>. QED  BY <1>2, <1>6, <1>9, <1>14, <2>2, <3>1, <3>2, Short
  <2>7. Only(x, y)
    <3>1. \A k \in 1..Len(fs) : <<"call", th, base + Len(fs) + 1 - k>> \in {x, y}
      <4>1. base + Len(fs) + 1 - 1 = base + 1
        BY <1>12, <1>14
      <4>. QED  BY <1>14, <2>2, <4>1
    <3>2. \A w \in Values : <<"queue", w>> \notin {x, y} => queue'[w] = queue[w]
      BY <1>16, <2>1
    <3>. QED  BY <1>2, <1>6, <1>12, <1>14, <1>15, <3>1, <3>2, Elsewhere
  <2>8. Moves(x, y, {}, {})
    BY <1>10, <2>5, <2>6, <2>7 DEF Moves, Only
  <2>9. /\ \A w \in Values : Distinct(queue'[w])
        /\ \A k \in 1..Len(fs) : Distinct(fs[k].cbs)
        /\ \A cb \in Callbacks : fate'[cb] # "kept" => carries'[cb] = {}
    BY <1>4, <1>6, <1>9, <1>10, <1>14, <1>16, Short DEF Inv, InOnePlace
  <2>10. {} \subseteq Held(x) \cup Held(y) /\ {} \subseteq Callbacks
         /\ \A cb \in {} : fate[cb] # "kept"
    OBVIOUS
  <2>. QED  BY <1>12, <1>14, <1>15, <2>4, <2>8, <2>9, <2>10, OnePlace DEF Inv
<1>19. TypeOK'
  <2>1. queue' \in [Values -> Seq(Callbacks)] /\ ready' \subseteq Values
    BY <1>6, <1>10, EmptySeq DEF TypeOK
  <2>. QED  BY <1>10, <1>15, <2>1 DEF TypeOK
<1>. QED  BY <1>17, <1>18, <1>19 DEF Inv

-----------------------------------------------------------------------------
(* Steps that move callbacks.                                              *)

LEMMA Splits ==
  ASSUME NEW q \in Seq(Callbacks), q # <<>>, Distinct(q)
  PROVE  /\ Head(q) \in Callbacks /\ Tail(q) \in Seq(Callbacks) /\ Distinct(Tail(q))
         /\ Elements(q) = {Head(q)} \cup Elements(Tail(q)) /\ Head(q) \notin Elements(Tail(q))
<1>. DEFINE n == Len(q)
            r == Tail(q)
<1>1. /\ n \in Nat /\ n # 0 /\ Head(q) = q[1] /\ r \in Seq(Callbacks) /\ Len(r) = n - 1
      /\ \A i \in 1..(n - 1) : r[i] = q[i + 1]
  BY HeadTailProperties, EmptySeq, LenProperties
<1>2. Distinct(q) /\ Len(q) = n
  OBVIOUS
<1>. HIDE DEF n, r
<1>3. q[1] \in Callbacks
  BY <1>1, <1>2, ElementOfSeq
<1>4. Distinct(r)
  <2>1. ASSUME NEW i \in 1..(n - 1), NEW j \in 1..(n - 1), r[i] = r[j] PROVE i = j
    <3>1. i + 1 \in 1..n /\ j + 1 \in 1..n /\ q[i + 1] = q[j + 1]
      BY <1>1, <2>1
    <3>2. i + 1 = j + 1
      BY <1>2, <3>1 DEF Distinct
    <3>. QED  BY <3>2
  <2>. QED  BY <1>1, <2>1 DEF Distinct
<1>5. Elements(q) \subseteq {q[1]} \cup Elements(r)
  <2>1. ASSUME NEW i \in 1..n PROVE q[i] = q[1] \/ q[i] \in Elements(r)
    <3>1. i = 1 \/ (i - 1 \in 1..(n - 1) /\ (i - 1) + 1 = i)
      BY <1>1
    <3>2. i - 1 \in 1..(n - 1) /\ (i - 1) + 1 = i => r[i - 1] = q[i]
      BY <1>1
    <3>. QED  BY <1>1, <3>1, <3>2 DEF Elements
  <2>. QED  BY <1>2, <2>1 DEF Elements
<1>6. {q[1]} \cup Elements(r) \subseteq Elements(q)
  <2>1. 1 \in 1..n /\ \A i \in 1..(n - 1) : i + 1 \in 1..n
    BY <1>1
  <2>. QED  BY <1>1, <1>2, <2>1 DEF Elements
<1>7. q[1] \notin Elements(r)
  <2>1. ASSUME NEW i \in 1..(n - 1) PROVE r[i] # q[1]
    <3>1. i + 1 \in 1..n /\ 1 \in 1..n /\ i + 1 # 1
      BY <1>1
    <3>. QED  BY <1>1, <1>2, <3>1 DEF Distinct
  <2>. QED  BY <1>1, <2>1 DEF Elements
<1>. QED  BY <1>1, <1>3, <1>4, <1>5, <1>6, <1>7 DEF r

LEMMA Appended ==
  ASSUME NEW q \in Seq(Callbacks), Distinct(q), NEW cb \in Callbacks, cb \notin Elements(q)
  PROVE  /\ Append(q, cb) \in Seq(Callbacks) /\ Distinct(Append(q, cb))
         /\ Elements(Append(q, cb)) = Elements(q) \cup {cb}
<1>. DEFINE n == Len(q)
            r == Append(q, cb)
<1>1. /\ n \in Nat /\ r \in Seq(Callbacks) /\ Len(r) = n + 1 /\ r[n + 1] = cb
      /\ \A i \in 1..n : r[i] = q[i]
  BY AppendProperties, LenProperties
<1>2. Len(q) = n
  OBVIOUS
<1>. HIDE DEF n, r
<1>3. \A i \in 1..(n + 1) : i = n + 1 \/ i \in 1..n
  BY <1>1
<1>4. \A i \in 1..n : i \in 1..(n + 1) /\ i # n + 1
  BY <1>1
<1>5. n + 1 \in 1..(n + 1)
  BY <1>1
<1>6. \A i \in 1..n : q[i] # cb
  BY <1>2 DEF Elements
<1>7. Distinct(r)
  <2>1. ASSUME NEW i \in 1..(n + 1), NEW j \in 1..(n + 1), r[i] = r[j] PROVE i = j
    BY <1>1, <1>2, <1>3, <1>6, <2>1 DEF Distinct
  <2>. QED  BY <1>1, <2>1 DEF Distinct
<1>8. Elements(r) = Elements(q) \cup {cb}
  BY <1>1, <1>2, <1>3, <1>4, <1>5 DEF Elements
<1>. QED  BY <1>1, <1>7, <1>8 DEF r

LEMMA DispatchKeeps ==
  ASSUME TypeOK, Inv, NEW th \in Threads, Dispatch(th)
  PROVE  TypeOK' /\ Inv'
<1>1. In(th, "dispatch") /\ UNCHANGED <<program, slot, life, ready, value, queue, refs, carries, fate>>
  BY DEF Dispatch, valueVars
<1>2. /\ stack[th] # <<>> /\ Depth(th) \in Nat /\ Depth(th) - 1 \in Nat /\ Top(th) \in Frames
      /\ Top(th) = At(<<th, Depth(th)>>) /\ Fits(Top(th)) /\ Top(th).op = "dispatch"
      /\ \A d \in 1..(Depth(th) - 1) : At(<<th, d>>).op \notin Uses
  BY <1>1, Inside DEF Inv, Destructors
<1>3. PICK f : f = Top(th)
  OBVIOUS
<1>4. PICK base : base = Depth(th) - 1
  OBVIOUS
<1>5. base \in Nat /\ base + 1 = Depth(th) /\ base <= Depth(th) /\ Depth(th) \in 1..Depth(th)
  BY <1>2, <1>4
<1>6. \A v \in Values : life[v] # "live" => queue'[v] = <<>>
  BY <1>1 DEF Inv, DestroyedOnce
<1>7. /\ \A d \in 1..base : At(<<th, d>>).op \notin Uses
      /\ base # Depth(th) => /\ At(<<th, Depth(th)>>).op # "destroy"
                             /\ At(<<th, Depth(th)>>).drops = {}
  BY <1>2, <1>4 DEF Fits
<1>8. f.cbs \in Seq(Callbacks) /\ Distinct(f.cbs)
  <2>1. f.cbs \in Seq(Callbacks)
    BY <1>2, <1>3 DEF Frames
  <2>2. Distinct(At(<<th, Depth(th)>>).cbs)
    BY <1>5 DEF Inv, InOnePlace
  <2>. QED  BY <1>2, <1>3, <2>1, <2>2
<1>9. CASE f.cbs = <<>>
  <2>1. PICK fs : fs = <<>>
    OBVIOUS
  <2>2. fs \in Seq(Frames) /\ \A k \in 1..Len(fs) : FALSE
    <3>1. fs \in Seq(Frames) /\ Len(fs) = 0
      BY <2>1, Puts
    <3>2. 1..0 = {}
      OBVIOUS
    <3>. QED  BY <3>1, <3>2
  <2>3. Become(th, fs)
    BY <1>3, <1>9, <2>1 DEF Dispatch
  <2>4. Lands(th, base, fs) /\ stack' \in [Threads -> Seq(Frames)]
    BY <1>2, <1>4, <2>2, <2>3, BecomeLands
  <2>5. BackedAtFirst(th, base, fs) /\ \A k \in 1..Len(fs) : fs[k].op # "destroy" /\ fs[k].drops = {}
    BY <2>2 DEF BackedAtFirst
  <2>6. AllFit' /\ UsesAreBacked' /\ DestroyedOnce' /\ Counted'
    BY <1>1, <1>5, <1>6, <1>7, <2>2, <2>4, <2>5, Quiet
  <2>7. InOnePlace'
    <3>1. At(<<th, Depth(th)>>).cbs = <<>> /\ \A k \in 1..Len(fs) : fs[k].cbs = <<>>
      BY <1>2, <1>3, <1>9, <2>2
    <3>. QED  BY <1>1, <1>5, <2>2, <2>4, <3>1, Unmoved DEF Inv
  <2>. QED  BY <1>1, <2>4, <2>6, <2>7 DEF Inv, TypeOK
<1>10. CASE f.cbs # <<>>
  <2>1. PICK cb : cb = Head(f.cbs)
    OBVIOUS
  <2>2. PICK rest : rest = Tail(f.cbs)
    OBVIOUS
  <2>3. /\ cb \in Callbacks /\ rest \in Seq(Callbacks) /\ Distinct(rest)
        /\ Elements(f.cbs) = {cb} \cup Elements(rest) /\ cb \notin Elements(rest)
    BY <1>8, <1>10, <2>1, <2>2, Splits
  <2>4. PICK e : e = Frame("execute", None, None, <<cb>>, {})
    OBVIOUS
  <2>5. PICK g : g = [f EXCEPT !.cbs = rest]
    OBVIOUS
  <2>6. <<cb>> \in Seq(Callbacks) /\ Len(<<cb>>) = 1 /\ Elements(<<cb>>) = {cb} /\ Distinct(<<cb>>)
    BY <2>3, Short
  <2>7. e \in Frames /\ e.op = "execute" /\ e.cbs = <<cb>> /\ e.self = None /\ e.drops = {}
    BY <2>4, <2>6 DEF Frame, Frames
  <2>8. g \in Frames /\ g.op = "dispatch" /\ g.cbs = rest /\ g.self = f.self /\ g.drops = f.drops
    BY <1>2, <1>3, <2>3, <2>5 DEF Frames
  <2>9. Fits(e) /\ Fits(g)
    <3>1. Fits(f) /\ f.op = "dispatch"
      BY <1>2, <1>3
    <3>2. Fits(e)
      BY <2>6, <2>7 DEF Fits, Uses
    <3>3. Fits(g)
      BY <2>8, <3>1 DEF Fits, Uses
    <3>. QED  BY <3>2, <3>3
  <2>10. PICK fs : fs = <<e, g>>
    OBVIOUS
  <2>11. fs \in Seq(Frames) /\ Len(fs) = 2 /\ fs[1] = e /\ fs[2] = g
    BY <2>7, <2>8, <2>10, Puts
  <2>12. \A k \in 1..Len(fs) : k = 1 \/ k = 2
    BY <2>11
  <2>13. Become(th, fs)
    <3>1. Become(th, Executes(cb) \o <<g>>)
      BY <1>3, <1>10, <2>1, <2>2, <2>5 DEF Dispatch
    <3>2. Executes(cb) = <<e>>
      BY <2>4 DEF Executes
    <3>3. Executes(cb) \o <<g>> = fs
      BY <2>7, <2>8, <2>10, <3>2, Puts
    <3>. QED  BY <3>1, <3>3
  <2>14. Lands(th, base, fs) /\ stack' \in [Threads -> Seq(Frames)]
    BY <1>2, <1>4, <2>11, <2>13, BecomeLands
  <2>15. AllFit' /\ UsesAreBacked' /\ DestroyedOnce' /\ Counted'
    <3>1. BackedAtFirst(th, base, fs)
      BY <2>7, <2>8, <2>9, <2>11, <2>12 DEF BackedAtFirst, Uses
    <3>2. \A k \in 1..Len(fs) : fs[k].op # "destroy" /\ fs[k].drops = {}
      BY <1>2, <1>3, <2>7, <2>8, <2>11, <2>12 DEF Fits
    <3>. QED  BY <1>1, <1>5, <1>6, <1>7, <2>11, <2>14, <3>1, <3>2, Quiet
  <2>16. InOnePlace'
    <3>1. PICK x : x = <<"call", th, base + 1>>
      OBVIOUS
    <3>2. PICK y : y = <<"call", th, base + 2>>
      OBVIOUS
    <3>3. /\ base + 1 \in Nat /\ base + 2 \in Nat /\ base + 1 # base + 2
          /\ base + 1 > base /\ base + 2 > base /\ base + 1 <= base + Len(fs)
          /\ base + 2 <= base + Len(fs) /\ base + Len(fs) + 1 - (base + 1) = 2
          /\ base + Len(fs) + 1 - (base + 2) = 1 /\ base + 2 \notin 1..Depth(th)
          /\ base + Len(fs) + 1 - 1 = base + 2 /\ base + Len(fs) + 1 - 2 = base + 1
      BY <1>5, <2>11
    <3>4. x \in Places /\ y \in Places /\ x # y
      BY <3>1, <3>2, <3>3, PlaceIs
    <3>5. Held(x) = Elements(f.cbs) /\ Held(y) = {}
      BY <1>2, <1>3, <1>5, <3>1, <3>2, <3>3, PlaceIs
    <3>6. Held(<<"call", th, base + 1>>)' = Elements(fs[2].cbs)
      BY <1>5, <2>11, <2>14, <3>3, HeldLands
    <3>7. Held(<<"call", th, base + 2>>)' = Elements(fs[1].cbs)
      BY <1>5, <2>11, <2>14, <3>3, HeldLands
    <3>8. Held(x)' = Elements(rest) /\ Held(y)' = {cb}
      BY <2>6, <2>7, <2>8, <2>11, <3>1, <3>2, <3>6, <3>7
    <3>9. Only(x, y)
      <4>1. /\ <<"call", th, base + 1>> \in {x, y}
            /\ \A k \in 1..Len(fs) : <<"call", th, base + Len(fs) + 1 - k>> \in {x, y}
            /\ \A w \in Values : queue'[w] = queue[w]
        BY <1>1, <2>12, <3>1, <3>2, <3>3
      <4>. QED  BY <1>5, <2>11, <2>14, <4>1, Elsewhere
    <3>10. Moves(x, y, {}, {})
      BY <1>1, <2>3, <3>5, <3>8, <3>9 DEF Moves
    <3>11. /\ \A v \in Values : Distinct(queue'[v])
           /\ \A k \in 1..Len(fs) : Distinct(fs[k].cbs)
           /\ \A c \in Callbacks : fate'[c] # "kept" => carries'[c] = {}
      BY <1>1, <2>3, <2>6, <2>7, <2>8, <2>11, <2>12 DEF Inv, InOnePlace
    <3>12. {} \subseteq Held(x) \cup Held(y) /\ {} \subseteq Callbacks
           /\ \A c \in {} : fate[c] # "kept"
      OBVIOUS
    <3>. QED  BY <1>5, <2>11, <2>14, <3>4, <3>10, <3>11, <3>12, OnePlace DEF Inv
  <2>. QED  BY <1>1, <2>14, <2>15, <2>16 DEF Inv, TypeOK
<1>. QED  BY <1>9, <1>10

LEMMA NotifyKeeps ==
  ASSUME TypeOK, Inv, NEW th \in Threads, Notify(th)
  PROVE  TypeOK' /\ Inv'
<1>1. In(th, "notify") /\ UNCHANGED <<program, slot, life, ready, value, refs, carries, fate>>
  BY DEF Notify
<1>2. /\ stack[th] # <<>> /\ Depth(th) \in Nat /\ Depth(th) - 1 \in Nat /\ Top(th) \in Frames
      /\ Top(th) = At(<<th, Depth(th)>>) /\ Fits(Top(th)) /\ Top(th).op = "notify"
      /\ \A d \in 1..(Depth(th) - 1) : At(<<th, d>>).op \notin Uses
  BY <1>1, Inside DEF Inv, Destructors
<1>3. PICK f : f = Top(th)
  OBVIOUS
<1>4. PICK base : base = Depth(th) - 1
  OBVIOUS
<1>5. base \in Nat /\ base + 1 = Depth(th) /\ base <= Depth(th) /\ Depth(th) \in 1..Depth(th)
      /\ base # Depth(th)
  BY <1>2, <1>4
<1>6. PICK v : v = f.self
  OBVIOUS
<1>7. PICK cb : cb = f.cbs[1]
  OBVIOUS
<1>8. /\ v \in Values /\ life[v] = "live"
      /\ cb \in Callbacks /\ Elements(f.cbs) = {cb}
  <2>1. v \in Values /\ life[v] = "live"
    BY <1>2, <1>3, <1>5, <1>6, UsedIsLive DEF Uses
  <2>2. f.cbs \in Seq(Callbacks) /\ Len(f.cbs) = 1
    BY <1>2, <1>3 DEF Fits, Frames
  <2>. QED  BY <1>7, <2>1, <2>2, Short
<1>9. /\ \A d \in 1..base : At(<<th, d>>).op \notin Uses
      /\ base # Depth(th) => /\ At(<<th, Depth(th)>>).op # "destroy"
                             /\ At(<<th, Depth(th)>>).drops = {}
  BY <1>2, <1>4 DEF Fits
<1>10. PICK y : y = <<"call", th, base + 1>>
  OBVIOUS
<1>11. y \in Places /\ Held(y) = {cb} /\ base + 1 \in Nat /\ base + 1 > base
  <2>1. base + 1 \in Nat /\ base + 1 > base
    BY <1>5
  <2>. QED  BY <1>2, <1>3, <1>5, <1>8, <1>10, <2>1, PlaceIs
<1>12. {} \subseteq Callbacks /\ \A c \in {} : fate[c] # "kept"
  OBVIOUS
<1>13. /\ \A w \in Values : Distinct(queue[w])
       /\ \A c \in Callbacks : fate'[c] # "kept" => carries'[c] = {}
       /\ \A x, z \in Places : x # z => Held(x) \cap Held(z) = {}
  BY <1>1 DEF Inv, InOnePlace
<1>14. CASE v \in ready
  <2>1. Become(th, Executes(cb)) /\ queue' = queue
    BY <1>3, <1>6, <1>7, <1>14 DEF Notify
  <2>2. PICK e : e = Frame("execute", None, None, <<cb>>, {})
    OBVIOUS
  <2>3. <<cb>> \in Seq(Callbacks) /\ Len(<<cb>>) = 1 /\ Elements(<<cb>>) = {cb} /\ Distinct(<<cb>>)
    BY <1>8, Short
  <2>4. e \in Frames /\ e.op = "execute" /\ e.cbs = <<cb>> /\ e.self = None /\ e.drops = {}
    BY <2>2, <2>3 DEF Frame, Frames
  <2>5. PICK fs : fs = <<e>>
    OBVIOUS
  <2>6. fs \in Seq(Frames) /\ Len(fs) = 1 /\ fs[1] = e /\ \A k \in 1..Len(fs) : k = 1
    BY <2>4, <2>5, Puts
  <2>7. Lands(th, base, fs) /\ stack' \in [Threads -> Seq(Frames)]
    <3>1. Become(th, fs)
      BY <2>1, <2>2, <2>5 DEF Executes
    <3>. QED  BY <1>2, <1>4, <2>6, <3>1, BecomeLands
  <2>8. AllFit' /\ UsesAreBacked' /\ DestroyedOnce' /\ Counted'
    <3>1. \A w \in Values : life[w] # "live" => queue'[w] = <<>>
      BY <2>1 DEF Inv, DestroyedOnce
    <3>2. BackedAtFirst(th, base, fs)
      BY <2>3, <2>4, <2>6 DEF BackedAtFirst, Fits, Uses
    <3>3. \A k \in 1..Len(fs) : fs[k].op # "destroy" /\ fs[k].drops = {}
      BY <2>4, <2>6
    <3>. QED  BY <1>1, <1>5, <1>9, <2>6, <2>7, <3>1, <3>2, <3>3, Quiet
  <2>9. InOnePlace'
    <3>1. base + 1 <= base + Len(fs) /\ base + Len(fs) + 1 - (base + 1) = 1
          /\ base + Len(fs) + 1 - 1 = base + 1
      BY <1>5, <2>6
    <3>2. Held(<<"call", th, base + 1>>)' = Elements(fs[1].cbs)
      BY <1>5, <1>11, <2>6, <2>7, <3>1, HeldLands
    <3>3. Held(y)' = {cb}
      BY <1>10, <2>3, <2>4, <2>6, <3>2
    <3>4. Only(y, y)
      <4>1. /\ <<"call", th, base + 1>> \in {y, y}
            /\ \A k \in 1..Len(fs) : <<"call", th, base + Len(fs) + 1 - k>> \in {y, y}
            /\ \A w \in Values : queue'[w] = queue[w]
        BY <1>10, <2>1, <2>6, <3>1
      <4>. QED  BY <1>5, <2>6, <2>7, <4>1, Elsewhere
    <3>5. Moves(y, y, {}, {})
      BY <1>1, <1>11, <3>3, <3>4 DEF Moves
    <3>6. \A k \in 1..Len(fs) : Distinct(fs[k].cbs)
      BY <2>3, <2>4, <2>6
    <3>7. {} \subseteq Held(y) \cup Held(y) /\ \A w \in Values : Distinct(queue'[w])
      BY <1>13, <2>1
    <3>. QED  BY <1>5, <1>11, <1>12, <1>13, <2>6, <2>7, <3>5, <3>6, <3>7, OnePlace DEF Inv
  <2>. QED  BY <1>1, <2>1, <2>7, <2>8, <2>9 DEF Inv, TypeOK
<1>15. CASE v \notin ready
  <2>1. Become(th, <<>>) /\ queue' = [queue EXCEPT ![v] = Append(@, cb)]
    BY <1>3, <1>6, <1>7, <1>15 DEF Notify
  <2>2. PICK q : q = Append(queue[v], cb)
    OBVIOUS
  <2>3. PICK x : x = <<"queue", v>>
    OBVIOUS
  <2>4. x \in Places /\ Held(x) = Elements(queue[v]) /\ x # y
    BY <1>8, <1>10, <2>3, PlaceIs
  <2>5. cb \notin Elements(queue[v])
    BY <1>11, <1>13, <2>4
  <2>6. q \in Seq(Callbacks) /\ Distinct(q) /\ Elements(q) = Held(x) \cup {cb}
    <3>1. queue[v] \in Seq(Callbacks)
      BY <1>8 DEF TypeOK
    <3>. QED  BY <1>8, <1>13, <2>2, <2>4, <2>5, <3>1, Appended
  <2>7. \A w \in Values : queue'[w] = IF w = v THEN q ELSE queue[w]
    BY <2>1, <2>2 DEF TypeOK
  <2>8. PICK fs : fs = <<>>
    OBVIOUS
  <2>9. fs \in Seq(Frames) /\ Len(fs) = 0 /\ \A k \in 1..Len(fs) : FALSE
    <3>1. fs \in Seq(Frames) /\ Len(fs) = 0
      BY <2>8, Puts
    <3>2. 1..0 = {}
      OBVIOUS
    <3>. QED  BY <3>1, <3>2
  <2>10. Lands(th, base, fs) /\ stack' \in [Threads -> Seq(Frames)]
    BY <1>2, <1>4, <2>1, <2>8, <2>9, BecomeLands
  <2>11. AllFit' /\ UsesAreBacked' /\ DestroyedOnce' /\ Counted'
    <3>1. \A w \in Values : life[w] # "live" => queue'[w] = <<>>
      BY <1>8, <2>7 DEF Inv, DestroyedOnce
    <3>2. BackedAtFirst(th, base, fs) /\ \A k \in 1..Len(fs) : fs[k].op # "destroy" /\ fs[k].drops = {}
      BY <2>9 DEF BackedAtFirst
    <3>. QED  BY <1>1, <1>5, <1>9, <2>9, <2>10, <3>1, <3>2, Quiet
  <2>12. InOnePlace'
    <3>1. ~(base + 1 <= base + Len(fs))
      BY <1>5, <2>9
    <3>2. Held(<<"call", th, base + 1>>)' = {}
      BY <1>5, <1>11, <2>9, <2>10, <3>1, HeldLands
    <3>3. Held(y)' = {}
      BY <1>10, <3>2
    <3>4. Held(x)' = Held(x) \cup {cb}
      <4>1. Held(x)' = Elements(queue'[v])
        BY <2>3 DEF Held, Elements
      <4>. QED  BY <1>8, <2>6, <2>7, <4>1
    <3>5. Only(x, y)
      <4>1. <<"call", th, base + 1>> \in {x, y}
        BY <1>10
      <4>2. \A k \in 1..Len(fs) : <<"call", th, base + Len(fs) + 1 - k>> \in {x, y}
        BY <2>9
      <4>3. \A w \in Values : <<"queue", w>> \notin {x, y} => queue'[w] = queue[w]
        BY <2>3, <2>7
      <4>. QED  BY <1>5, <2>9, <2>10, <4>1, <4>2, <4>3, Elsewhere
    <3>6. Moves(x, y, {}, {})
      BY <1>1, <1>11, <2>4, <3>3, <3>4, <3>5 DEF Moves
    <3>7. /\ {} \subseteq Held(x) \cup Held(y) /\ \A w \in Values : Distinct(queue'[w])
          /\ \A k \in 1..Len(fs) : Distinct(fs[k].cbs)
      BY <1>13, <2>6, <2>7, <2>9
    <3>. QED  BY <1>5, <1>11, <1>12, <1>13, <2>4, <2>9, <2>10, <3>6, <3>7, OnePlace DEF Inv
  <2>13. TypeOK'
    <3>1. queue' \in [Values -> Seq(Callbacks)]
      BY <2>1, <2>2, <2>6 DEF TypeOK
    <3>. QED  BY <1>1, <2>10, <3>1 DEF TypeOK
  <2>. QED  BY <2>11, <2>12, <2>13 DEF Inv
<1>. QED  BY <1>14, <1>15

LEMMA ReturnKeeps ==
  ASSUME TypeOK, Inv, NEW th \in Threads, Return(th)
  PROVE  TypeOK' /\ Inv'
<1>1. In(th, "execute") /\ UNCHANGED <<program, slot, life, ready, value, queue, refs>>
  BY DEF Return, valueVars
<1>2. /\ stack[th] # <<>> /\ Depth(th) \in Nat /\ Depth(th) - 1 \in Nat /\ Top(th) \in Frames
      /\ Top(th) = At(<<th, Depth(th)>>) /\ Fits(Top(th)) /\ Top(th).op = "execute"
      /\ \A d \in 1..(Depth(th) - 1) : At(<<th, d>>).op \notin Uses
  BY <1>1, Inside DEF Inv, Destructors
<1>3. PICK f : f = Top(th)
  OBVIOUS
<1>4. PICK base : base = Depth(th) - 1
  OBVIOUS
<1>5. base \in Nat /\ base + 1 = Depth(th) /\ base <= Depth(th) /\ Depth(th) \in 1..Depth(th)
      /\ base # Depth(th)
  BY <1>2, <1>4
<1>6. PICK cb : cb = f.cbs[1]
  OBVIOUS
<1>7. cb \in Callbacks /\ Elements(f.cbs) = {cb}
  <2>1. f.cbs \in Seq(Callbacks) /\ Len(f.cbs) = 1
    BY <1>2, <1>3 DEF Fits, Frames
  <2>. QED  BY <1>6, <2>1, Short
<1>8. PICK hs : hs = carries[cb]
  OBVIOUS
<1>9. hs \in SUBSET Handles
  BY <1>7, <1>8 DEF TypeOK
<1>10. /\ fate' = [fate EXCEPT ![cb] = "deleted"] /\ carries' = [carries EXCEPT ![cb] = {}]
       /\ Become(th, Releases(hs))
  BY <1>3, <1>6, <1>8 DEF Return, Deletes
<1>11. PICK fs : fs = Releases(hs)
  OBVIOUS
<1>12. /\ fs \in Seq(Frames) /\ Lowest(fs) = hs
       /\ \A k \in 1..Len(fs) : fs[k].op = "release" /\ fs[k].cbs = <<>> /\ Fits(fs[k])
       /\ \A k \in 1..(Len(fs) - 1) : fs[k].drops = {}
  BY <1>9, <1>11, OnlyReleases DEF ReleasesAll
<1>13. Lands(th, base, fs) /\ stack' \in [Threads -> Seq(Frames)]
  BY <1>2, <1>4, <1>10, <1>11, <1>12, BecomeLands
<1>14. PICK y : y = <<"call", th, base + 1>>
  OBVIOUS
<1>15. y \in Places /\ Held(y) = {cb} /\ base + 1 \in Nat /\ base + 1 > base
  <2>1. base + 1 \in Nat /\ base + 1 > base
    BY <1>5
  <2>. QED  BY <1>2, <1>3, <1>5, <1>7, <1>14, <2>1, PlaceIs
<1>16. \A x, z \in Places : x # z => Held(x) \cap Held(z) = {}
  BY DEF Inv, InOnePlace
<1>17. AllFit' /\ UsesAreBacked'
  <2>1. KeepsCarries(th, base)
    <3>1. ASSUME NEW u \in Threads, NEW d \in Nat, u = th => d <= base
          PROVE  cb \notin Held(<<"call", u, d>>)
      <4>1. <<"call", u, d>> \in Places /\ <<"call", u, d>> # y
        <5>1. u # th \/ d # base + 1
          BY <1>5, <3>1
        <5>. QED  BY <1>14, <5>1, PlaceIs
      <4>. QED  BY <1>15, <1>16, <4>1
    <3>2. AllFit
      BY DEF Inv
    <3>3. PICK none : none = {}
      OBVIOUS
    <3>4. carries' = [carries EXCEPT ![cb] = none]
      BY <1>10, <3>3
    <3>. QED  BY <1>5, <1>7, <3>1, <3>2, <3>4, OthersKeep
  <2>2. KeepsSlots(th)
    BY <1>1 DEF KeepsSlots
  <2>3. BackedAtFirst(th, base, fs) /\ OnlyDestroys(th, base, fs)
    BY <1>2, <1>4, <1>12 DEF BackedAtFirst, OnlyDestroys, Uses
  <2>. QED  BY <1>5, <1>12, <1>13, <2>1, <2>2, <2>3, FramesStay DEF Inv
<1>18. DestroyedOnce'
  <2>1. \A v \in Values : life[v] # "live" => queue'[v] = <<>> /\ value'[v] = {}
    BY <1>1 DEF Inv, DestroyedOnce
  <2>2. DestroyedOnce /\ At(<<th, Depth(th)>>).op # "destroy"
    BY <1>2 DEF Inv
  <2>3. \A k \in 1..Len(fs) : fs[k].op # "destroy"
    BY <1>12
  <2>. QED  BY <1>1, <1>5, <1>12, <1>13, <2>1, <2>2, <2>3, NobodyDies
<1>19. Counted'
  <2>1. ASSUME NEW v \in Values
        PROVE  /\ IsFiniteSet(InSlots(v)') /\ IsFiniteSet(Carried(v)')
               /\ IsFiniteSet(Stored(v)') /\ IsFiniteSet(Dropped(v)')
               /\ refs'[v] = Cardinality(InSlots(v)') + Cardinality(Carried(v)')
                             + Cardinality(Stored(v)') + Cardinality(Dropped(v)')
    <3>1. /\ IsFiniteSet(InSlots(v)) /\ IsFiniteSet(Carried(v))
          /\ IsFiniteSet(Stored(v)) /\ IsFiniteSet(Dropped(v))
          /\ refs[v] = Cardinality(InSlots(v)) + Cardinality(Carried(v))
                       + Cardinality(Stored(v)) + Cardinality(Dropped(v))
      BY DEF Inv, Counted, CountIsExact, InSlots
    <3>2. InSlots(v)' = InSlots(v) /\ Stored(v)' = Stored(v)
      BY <1>1 DEF InSlots, Stored
    <3>3. PICK none : none = {}
      OBVIOUS
    <3>4. /\ IsFiniteSet(Carried(v)')
          /\ Cardinality(Carried(v)) \in Nat /\ Cardinality(Carried(v)') \in Nat
          /\ Balance(Cardinality(Carried(v)), Of(v, none), Of(v, carries[cb]),
                     Cardinality(Carried(v)'))
      <4>1. none \in SUBSET Handles /\ carries' = [carries EXCEPT ![cb] = none]
        BY <1>10, <3>3
      <4>. QED  BY <1>7, <3>1, <4>1, CarriedChanges
    <3>5. PICK old : old = IF base = Depth(th) THEN {} ELSE At(<<th, Depth(th)>>).drops
      OBVIOUS
    <3>6. old = {}
      BY <1>2, <1>5, <3>5 DEF Fits
    <3>7. /\ IsFiniteSet(Dropped(v)')
          /\ Cardinality(Dropped(v)) \in Nat /\ Cardinality(Dropped(v)') \in Nat
          /\ Balance(Cardinality(Dropped(v)), Of(v, Lowest(fs)), Of(v, old),
                     Cardinality(Dropped(v)'))
      BY <1>5, <1>12, <1>13, <3>1, <3>5, DroppedLands
    <3>8. Of(v, none) = 0 /\ Of(v, old) = 0
      BY <3>3, <3>6, OfEmpty
    <3>9. Of(v, Lowest(fs)) = Of(v, carries[cb])
      BY <1>8, <1>12
    <3>10. Of(v, carries[cb]) \in Nat
      <4>1. hs \in SUBSET (Handles \cup {Invalid})
        BY <1>9
      <4>. QED  BY <1>8, <4>1, OfIs
    <3>11. /\ Cardinality(Carried(v)') = Cardinality(Carried(v)) - Of(v, carries[cb])
           /\ Cardinality(Dropped(v)') = Cardinality(Dropped(v)) + Of(v, carries[cb])
      BY <3>4, <3>7, <3>8, <3>9, <3>10 DEF Balance
    <3>12. Cardinality(InSlots(v)) \in Nat /\ Cardinality(Stored(v)) \in Nat
      BY <3>1, FS_CardinalityType
    <3>13. refs'[v] = refs[v]
      BY <1>1
    <3>. QED  BY <3>1, <3>2, <3>4, <3>7, <3>10, <3>11, <3>12, <3>13
  <2>2. IsFiniteSet({v \in Values : life'[v] = "live"}) /\ refs' \in [Values -> Int]
    BY <1>1 DEF Inv, Counted, TypeOK
  <2>. QED  BY <2>1, <2>2, Recounted
<1>20. InOnePlace'
  <2>1. Held(y)' = {}
    <3>1. Held(<<"call", th, base + 1>>)' =
             IF base + 1 <= base + Len(fs) THEN Elements(fs[base + Len(fs) + 1 - (base + 1)].cbs)
             ELSE {}
      BY <1>5, <1>12, <1>13, <1>15, HeldLands
    <3>2. base + 1 <= base + Len(fs) => base + Len(fs) + 1 - (base + 1) \in 1..Len(fs)
      <4>1. Len(fs) \in Nat
        BY <1>12, LenProperties
      <4>. QED  BY <1>5, <4>1
    <3>3. Held(<<"call", th, base + 1>>)' = {}
      BY <1>12, <3>1, <3>2, Short
    <3>. QED  BY <1>14, <3>3
  <2>2. Only(y, y)
    <3>1. /\ <<"call", th, base + 1>> \in {y, y}
          /\ \A w \in Values : <<"queue", w>> \notin {y, y} => queue'[w] = queue[w]
          /\ \A k \in 1..Len(fs) : \/ fs[k].cbs = <<>>
                                   \/ <<"call", th, base + Len(fs) + 1 - k>> \in {y, y}
      BY <1>1, <1>12, <1>14
    <3>. QED  BY <1>5, <1>12, <1>13, <3>1, Elsewhere
  <2>3. \A c \in Callbacks : fate'[c] = IF c = cb THEN "deleted" ELSE fate[c]
    BY <1>10 DEF TypeOK
  <2>4. Moves(y, y, {cb}, {})
    BY <1>15, <2>1, <2>2, <2>3 DEF Moves
  <2>5. /\ \A w \in Values : Distinct(queue'[w])
        /\ \A k \in 1..Len(fs) : Distinct(fs[k].cbs)
        /\ \A c \in Callbacks : fate'[c] # "kept" => carries'[c] = {}
    <3>1. \A c \in Callbacks : carries'[c] = IF c = cb THEN {} ELSE carries[c]
      BY <1>10 DEF TypeOK
    <3>. QED  BY <1>1, <1>12, <2>3, <3>1, Short DEF Inv, InOnePlace
  <2>6. {cb} \subseteq Held(y) \cup Held(y) /\ {} \subseteq Callbacks
        /\ \A c \in {} : fate[c] # "kept"
    BY <1>15
  <2>. QED  BY <1>5, <1>12, <1>13, <1>15, <2>4, <2>5, <2>6, OnePlace DEF Inv
<1>21. TypeOK'
  <2>1. carries' \in [Callbacks -> SUBSET Handles]
    BY <1>10 DEF TypeOK
  <2>2. fate' \in [Callbacks -> {"new", "kept", "deleted"}]
    BY <1>10 DEF TypeOK
  <2>. QED  BY <1>1, <1>13, <2>1, <2>2 DEF Inv, TypeOK
<1>. QED  BY <1>17, <1>18, <1>19, <1>20, <1>21 DEF Inv

LEMMA DeletesNextKeeps ==
  ASSUME TypeOK, Inv, NEW th \in Threads, In(th, "destroy"), NEW v, v = Top(th).self,
         DeletesNext(th, v), UNCHANGED <<program, slot, ready, refs>>
  PROVE  TypeOK' /\ Inv'
<1>1. v \in Values /\ Depth(th) \in Nat
  BY Inside DEF Inv, Fits, Frames
<1>2. \A d \in 1..Depth(th) : At(<<th, d>>).op \in Uses => At(<<th, d>>).op = "swap"
  <2>1. \A d \in 1..Depth(th) : d = Depth(th) \/ d \in 1..(Depth(th) - 1)
    BY <1>1
  <2>2. Top(th) = At(<<th, Depth(th)>>) /\ Top(th).op = "destroy"
    BY Inside DEF Inv
  <2>3. \A d \in 1..(Depth(th) - 1) : At(<<th, d>>).op \in Uses => At(<<th, d>>).op = "swap"
    BY Inside DEF Inv
  <2>. QED  BY <2>1, <2>2, <2>3 DEF Uses
<1>3. PICK base : base = Depth(th)
  OBVIOUS
<1>4. /\ base \in Nat /\ base <= Depth(th)
      /\ \A d \in 1..base : At(<<th, d>>).op \in Uses => At(<<th, d>>).op = "swap"
  BY <1>1, <1>2, <1>3
<1>5. PICK cb : cb = Head(queue[v])
  OBVIOUS
<1>6. PICK rest : rest = Tail(queue[v])
  OBVIOUS
<1>7. /\ cb \in Callbacks /\ rest \in Seq(Callbacks) /\ Distinct(rest)
      /\ Elements(queue[v]) = {cb} \cup Elements(rest) /\ cb \notin Elements(rest)
  <2>1. queue[v] \in Seq(Callbacks) /\ queue[v] # <<>> /\ Distinct(queue[v])
    BY <1>1 DEF DeletesNext, TypeOK, Inv, InOnePlace
  <2>. QED  BY <1>5, <1>6, <2>1, Splits
<1>8. PICK hs : hs = carries[cb]
  OBVIOUS
<1>9. hs \in SUBSET Handles
  BY <1>7, <1>8 DEF TypeOK
<1>10. /\ queue' = [queue EXCEPT ![v] = rest] /\ fate' = [fate EXCEPT ![cb] = "deleted"]
       /\ carries' = [carries EXCEPT ![cb] = {}] /\ Enter(th, Releases(hs))
       /\ life' = life /\ value' = value
  BY <1>5, <1>6, <1>8 DEF DeletesNext
<1>11. \A w \in Values : queue'[w] = IF w = v THEN rest ELSE queue[w]
  BY <1>10 DEF TypeOK
<1>12. PICK fs : fs = Releases(hs)
  OBVIOUS
<1>13. /\ fs \in Seq(Frames) /\ Lowest(fs) = hs
       /\ \A k \in 1..Len(fs) : fs[k].op = "release" /\ fs[k].cbs = <<>> /\ Fits(fs[k])
       /\ \A k \in 1..(Len(fs) - 1) : fs[k].drops = {}
  BY <1>9, <1>12, OnlyReleases DEF ReleasesAll
<1>14. Lands(th, base, fs) /\ stack' \in [Threads -> Seq(Frames)]
  BY <1>3, <1>10, <1>12, <1>13, EnterLands
<1>15. PICK x : x = <<"queue", v>>
  OBVIOUS
<1>16. x \in Places /\ Held(x) = Elements(queue[v]) /\ cb \in Held(x)
  BY <1>1, <1>7, <1>15, PlaceIs
<1>17. \A y, z \in Places : y # z => Held(y) \cap Held(z) = {}
  BY DEF Inv, InOnePlace
<1>18. AllFit' /\ UsesAreBacked'
  <2>1. KeepsCarries(th, base)
    <3>1. ASSUME NEW u \in Threads, NEW d \in Nat
          PROVE  cb \notin Held(<<"call", u, d>>)
      <4>1. <<"call", u, d>> \in Places /\ <<"call", u, d>> # x
        BY <1>15, PlaceIs
      <4>. QED  BY <1>16, <1>17, <4>1
    <3>2. AllFit
      BY DEF Inv
    <3>3. PICK none : none = {}
      OBVIOUS
    <3>4. carries' = [carries EXCEPT ![cb] = none]
      BY <1>10, <3>3
    <3>. QED  BY <1>4, <1>7, <3>1, <3>2, <3>4, OthersKeep
  <2>2. KeepsSlots(th)
    BY DEF KeepsSlots
  <2>3. BackedAtFirst(th, base, fs)
    BY <1>13 DEF BackedAtFirst, Uses
  <2>4. OnlyDestroys(th, base, fs)
    BY <1>4, <1>13 DEF OnlyDestroys, Destructors
  <2>. QED  BY <1>4, <1>13, <1>14, <2>1, <2>2, <2>3, <2>4, FramesStay DEF Inv
<1>19. life[v] = "live"
  BY <1>1 DEF Inv, DestroyedOnce, DeletesNext
<1>20. DestroyedOnce'
  <2>1. \A w \in Values : life[w] # "live" => queue'[w] = <<>> /\ value'[w] = {}
    BY <1>10, <1>11, <1>19 DEF Inv, DestroyedOnce
  <2>2. DestroyedOnce /\ \A k \in 1..Len(fs) : fs[k].op # "destroy"
    BY <1>13 DEF Inv
  <2>. QED  BY <1>3, <1>4, <1>10, <1>13, <1>14, <2>1, <2>2, NobodyDies
<1>21. Counted'
  <2>1. ASSUME NEW w \in Values
        PROVE  /\ IsFiniteSet(InSlots(w)') /\ IsFiniteSet(Carried(w)')
               /\ IsFiniteSet(Stored(w)') /\ IsFiniteSet(Dropped(w)')
               /\ refs'[w] = Cardinality(InSlots(w)') + Cardinality(Carried(w)')
                             + Cardinality(Stored(w)') + Cardinality(Dropped(w)')
    <3>1. /\ IsFiniteSet(InSlots(w)) /\ IsFiniteSet(Carried(w))
          /\ IsFiniteSet(Stored(w)) /\ IsFiniteSet(Dropped(w))
          /\ refs[w] = Cardinality(InSlots(w)) + Cardinality(Carried(w))
                       + Cardinality(Stored(w)) + Cardinality(Dropped(w))
      BY DEF Inv, Counted, CountIsExact, InSlots
    <3>2. InSlots(w)' = InSlots(w) /\ Stored(w)' = Stored(w)
      BY <1>10 DEF InSlots, Stored
    <3>3. PICK none : none = {}
      OBVIOUS
    <3>4. /\ IsFiniteSet(Carried(w)')
          /\ Cardinality(Carried(w)) \in Nat /\ Cardinality(Carried(w)') \in Nat
          /\ Balance(Cardinality(Carried(w)), Of(w, none), Of(w, carries[cb]),
                     Cardinality(Carried(w)'))
      <4>1. none \in SUBSET Handles /\ carries' = [carries EXCEPT ![cb] = none]
        BY <1>10, <3>3
      <4>. QED  BY <1>7, <3>1, <4>1, CarriedChanges
    <3>5. PICK old : old = IF base = Depth(th) THEN {} ELSE At(<<th, Depth(th)>>).drops
      OBVIOUS
    <3>6. old = {}
      BY <1>3, <3>5
    <3>7. /\ IsFiniteSet(Dropped(w)')
          /\ Cardinality(Dropped(w)) \in Nat /\ Cardinality(Dropped(w)') \in Nat
          /\ Balance(Cardinality(Dropped(w)), Of(w, Lowest(fs)), Of(w, old),
                     Cardinality(Dropped(w)'))
      BY <1>3, <1>4, <1>13, <1>14, <3>1, <3>5, DroppedLands
    <3>8. Of(w, none) = 0 /\ Of(w, old) = 0
      BY <3>3, <3>6, OfEmpty
    <3>9. Of(w, Lowest(fs)) = Of(w, carries[cb])
      BY <1>8, <1>13
    <3>10. Of(w, carries[cb]) \in Nat
      <4>1. hs \in SUBSET (Handles \cup {Invalid})
        BY <1>9
      <4>. QED  BY <1>8, <4>1, OfIs
    <3>11. /\ Cardinality(Carried(w)') = Cardinality(Carried(w)) - Of(w, carries[cb])
           /\ Cardinality(Dropped(w)') = Cardinality(Dropped(w)) + Of(w, carries[cb])
      BY <3>4, <3>7, <3>8, <3>9, <3>10 DEF Balance
    <3>12. Cardinality(InSlots(w)) \in Nat /\ Cardinality(Stored(w)) \in Nat
      BY <3>1, FS_CardinalityType
    <3>13. refs'[w] = refs[w]
      OBVIOUS
    <3>. QED  BY <3>1, <3>2, <3>4, <3>7, <3>10, <3>11, <3>12, <3>13
  <2>2. IsFiniteSet({w \in Values : life'[w] = "live"}) /\ refs' \in [Values -> Int]
    BY <1>10 DEF Inv, Counted, TypeOK
  <2>. QED  BY <2>1, <2>2, Recounted
<1>22. InOnePlace'
  <2>1. Held(x)' = Elements(rest)
    <3>1. Held(x)' = Elements(queue'[v])
      BY <1>15 DEF Held, Elements
    <3>. QED  BY <1>1, <1>11, <3>1
  <2>2. Only(x, x)
    <3>1. /\ \A w \in Values : <<"queue", w>> \notin {x, x} => queue'[w] = queue[w]
          /\ \A k \in 1..Len(fs) : \/ fs[k].cbs = <<>>
                                   \/ <<"call", th, base + Len(fs) + 1 - k>> \in {x, x}
      BY <1>11, <1>13, <1>15
    <3>. QED  BY <1>3, <1>4, <1>13, <1>14, <3>1, Elsewhere
  <2>3. \A c \in Callbacks : fate'[c] = IF c = cb THEN "deleted" ELSE fate[c]
    BY <1>10 DEF TypeOK
  <2>4. Moves(x, x, {cb}, {})
    BY <1>7, <1>16, <2>1, <2>2, <2>3 DEF Moves
  <2>5. /\ \A w \in Values : Distinct(queue'[w])
        /\ \A k \in 1..Len(fs) : Distinct(fs[k].cbs)
        /\ \A c \in Callbacks : fate'[c] # "kept" => carries'[c] = {}
    <3>1. \A c \in Callbacks : carries'[c] = IF c = cb THEN {} ELSE carries[c]
      BY <1>10 DEF TypeOK
    <3>. QED  BY <1>7, <1>11, <1>13, <2>3, <3>1, Short DEF Inv, InOnePlace
  <2>6. {cb} \subseteq Held(x) \cup Held(x) /\ {} \subseteq Callbacks
        /\ \A c \in {} : fate[c] # "kept"
    BY <1>16
  <2>. QED  BY <1>4, <1>13, <1>14, <1>16, <2>4, <2>5, <2>6, OnePlace DEF Inv
<1>23. TypeOK'
  <2>1. carries' \in [Callbacks -> SUBSET Handles]
    BY <1>10 DEF TypeOK
  <2>2. fate' \in [Callbacks -> {"new", "kept", "deleted"}]
    BY <1>10 DEF TypeOK
  <2>3. queue' \in [Values -> Seq(Callbacks)]
    BY <1>7, <1>10 DEF TypeOK
  <2>. QED  BY <1>10, <1>14, <2>1, <2>2, <2>3 DEF TypeOK
<1>. QED  BY <1>18, <1>20, <1>21, <1>22, <1>23 DEF Inv

LEMMA CallNotifyKeeps ==
  ASSUME TypeOK, Inv, NEW th \in Threads, Acts(th), NEW h \in AtHand(th),
         NEW s \in Slots \cup {None}, Via(th, h, s), NEW cb \in Callbacks,
         NEW hs \in SUBSET CopiesAtHand(th), CallNotify(th, h, s, cb, hs)
  PROVE  TypeOK' /\ Inv'
<1>1. /\ fate[cb] = "new" /\ UNCHANGED <<program, slot, life, ready, value, queue>>
      /\ fate' = [fate EXCEPT ![cb] = "kept"] /\ carries' = [carries EXCEPT ![cb] = hs]
      /\ refs' = [v \in Values |-> refs[v] + 2 * Of(v, hs)]
      /\ Enter(th, <<Frame("notify", s, h.of, <<cb>>, {})>> \o Releases(hs))
  BY DEF CallNotify, ByValue, valueVars
<1>2. h.of \in Values /\ hs \in SUBSET Handles /\ \A g \in hs : refs[g.of] # 0
  BY AtHandIs DEF Handles
<1>3. PICK base : base = Depth(th)
  OBVIOUS
<1>4. base \in Nat /\ base <= Depth(th) /\ \A d \in 1..base : At(<<th, d>>).op \notin Uses
  BY <1>3, Acting DEF Inv
<1>5. PICK n : n = Frame("notify", s, h.of, <<cb>>, {})
  OBVIOUS
<1>6. <<cb>> \in Seq(Callbacks) /\ Len(<<cb>>) = 1 /\ Elements(<<cb>>) = {cb} /\ Distinct(<<cb>>)
  BY Short
<1>7. /\ n \in Frames /\ n.op = "notify" /\ n.via = s /\ n.self = h.of /\ n.cbs = <<cb>>
      /\ n.drops = {}
  BY <1>2, <1>5, <1>6 DEF Frame, Frames
<1>8. Fits(n)
  BY <1>2, <1>6, <1>7, HandlesAssumption DEF Fits, Uses
<1>9. PICK fs : fs = <<n>> \o Releases(hs)
  OBVIOUS
<1>10. /\ fs \in Seq(Frames) /\ Lowest(fs) = hs
       /\ \A k \in 1..Len(fs) : \/ fs[k].op = "release" /\ fs[k].cbs = <<>> /\ Fits(fs[k])
                                \/ k = 1 /\ fs[k] = n
       /\ \A k \in 1..(Len(fs) - 1) : fs[k].drops = {}
       /\ Len(fs) # 0 /\ fs[1] = n
  <2>1. PICK A : A = <<n>>
    OBVIOUS
  <2>2. A \in Seq(Frames) /\ Len(A) = 1 /\ A[1] = n /\ \A k \in 1..Len(A) : k = 1
    BY <1>7, <2>1, Puts
  <2>3. Len(A) <= 1 /\ \A k \in 1..Len(A) : A[k].drops = {}
    BY <1>7, <2>2
  <2>4. PICK B : B = Releases(hs)
    OBVIOUS
  <2>5. Left(B, hs) /\ (Len(B) = 1 => B[1].op = "release")
    BY <1>2, <2>4, Leaves
  <2>6. fs = A \o B
    BY <1>9, <2>1, <2>4
  <2>7. Ends(fs, A, B, hs)
    BY <2>2, <2>3, <2>5, <2>6, Over
  <2>8. Len(B) = 1 => B[1].op = "release" /\ B[1].cbs = <<>> /\ Fits(B[1])
    BY <2>5 DEF Left
  <2>. QED  BY <2>2, <2>7, <2>8 DEF Ends
<1>11. Len(fs) \in Nat /\ Len(fs) # 0
  BY <1>10, LenProperties
<1>12. Lands(th, base, fs) /\ stack' \in [Threads -> Seq(Frames)]
  <2>1. Enter(th, fs)
    BY <1>1, <1>5, <1>9
  <2>. QED  BY <1>3, <1>10, <2>1, EnterLands
<1>13. \A z \in Places : cb \notin Held(z)
  BY <1>1 DEF Inv, InOnePlace
<1>14. carries[cb] = {}
  BY <1>1 DEF Inv, InOnePlace
<1>15. AllFit' /\ UsesAreBacked'
  <2>1. KeepsCarries(th, base)
    <3>1. \A u \in Threads, d \in Nat : cb \notin Held(<<"call", u, d>>)
      BY <1>13, PlaceIs
    <3>2. AllFit
      BY DEF Inv
    <3>. QED  BY <1>1, <1>4, <3>1, <3>2, OthersKeep
  <2>2. KeepsSlots(th)
    BY <1>1 DEF KeepsSlots
  <2>3. BackedAtFirst(th, base, fs)
    <3>1. IF s = None THEN \E e \in 1..base : Covers(th, e, h.of) ELSE slot[s].of = h.of
      BY <1>3, Backs
    <3>2. \A k \in 1..Len(fs) : Fits(fs[k]) /\ (fs[k].op \in Uses => k = 1 /\ 1..(k - 1) = {})
      <4>1. 1..(1 - 1) = {}
        OBVIOUS
      <4>. QED  BY <1>8, <1>10, <4>1 DEF Uses
    <3>. QED  BY <1>1, <1>7, <1>10, <3>1, <3>2 DEF BackedAtFirst
  <2>4. OnlyDestroys(th, base, fs)
    BY <1>4 DEF OnlyDestroys
  <2>. QED  BY <1>4, <1>10, <1>12, <2>1, <2>2, <2>3, <2>4, FramesStay DEF Inv
<1>16. \A v \in Values : /\ Of(v, hs) \in Nat /\ refs[v] \in Nat
                         /\ refs'[v] = refs[v] + 2 * Of(v, hs)
                         /\ Of(v, hs) # 0 => refs[v] # 0
  <2>1. hs \in SUBSET (Handles \cup {Invalid})
    BY <1>2
  <2>2. \A v \in Values : Of(v, hs) \in Nat /\ (Of(v, hs) = 0 <=> \A g \in hs : g.of # v)
    BY <2>1, OfIs
  <2>. QED  BY <1>1, <1>2, <2>2 DEF TypeOK
<1>17. DestroyedOnce'
  <2>1. \A v \in Values : life[v] # "live" => queue'[v] = <<>> /\ value'[v] = {}
    BY <1>1 DEF Inv, DestroyedOnce
  <2>2. DestroyedOnce /\ \A k \in 1..Len(fs) : fs[k].op # "destroy"
    BY <1>7, <1>10 DEF Inv
  <2>3. \A v \in Values : refs'[v] = 0 <=> refs[v] = 0
    BY <1>16
  <2>. QED  BY <1>1, <1>3, <1>4, <1>10, <1>12, <2>1, <2>2, <2>3, NobodyDies
<1>18. Counted'
  <2>1. ASSUME NEW v \in Values
        PROVE  /\ IsFiniteSet(InSlots(v)') /\ IsFiniteSet(Carried(v)')
               /\ IsFiniteSet(Stored(v)') /\ IsFiniteSet(Dropped(v)')
               /\ refs'[v] = Cardinality(InSlots(v)') + Cardinality(Carried(v)')
                             + Cardinality(Stored(v)') + Cardinality(Dropped(v)')
    <3>1. /\ IsFiniteSet(InSlots(v)) /\ IsFiniteSet(Carried(v))
          /\ IsFiniteSet(Stored(v)) /\ IsFiniteSet(Dropped(v))
          /\ refs[v] = Cardinality(InSlots(v)) + Cardinality(Carried(v))
                       + Cardinality(Stored(v)) + Cardinality(Dropped(v))
      BY DEF Inv, Counted, CountIsExact, InSlots
    <3>2. InSlots(v)' = InSlots(v) /\ Stored(v)' = Stored(v)
      BY <1>1 DEF InSlots, Stored
    <3>3. /\ IsFiniteSet(Carried(v)')
          /\ Cardinality(Carried(v)) \in Nat /\ Cardinality(Carried(v)') \in Nat
          /\ Balance(Cardinality(Carried(v)), Of(v, hs), Of(v, carries[cb]),
                     Cardinality(Carried(v)'))
      BY <1>1, <1>2, <3>1, CarriedChanges
    <3>4. PICK old : old = IF base = Depth(th) THEN {} ELSE At(<<th, Depth(th)>>).drops
      OBVIOUS
    <3>5. old = {}
      BY <1>3, <3>4
    <3>6. /\ IsFiniteSet(Dropped(v)')
          /\ Cardinality(Dropped(v)) \in Nat /\ Cardinality(Dropped(v)') \in Nat
          /\ Balance(Cardinality(Dropped(v)), Of(v, Lowest(fs)), Of(v, old),
                     Cardinality(Dropped(v)'))
      BY <1>3, <1>4, <1>10, <1>12, <3>1, <3>4, DroppedLands
    <3>7. Of(v, carries[cb]) = 0 /\ Of(v, old) = 0
      BY <1>14, <3>5, OfEmpty
    <3>8. Of(v, Lowest(fs)) = Of(v, hs)
      BY <1>10
    <3>9. /\ Cardinality(Carried(v)') = Cardinality(Carried(v)) + Of(v, hs)
          /\ Cardinality(Dropped(v)') = Cardinality(Dropped(v)) + Of(v, hs)
      BY <1>16, <3>3, <3>6, <3>7, <3>8 DEF Balance
    <3>10. Cardinality(InSlots(v)) \in Nat /\ Cardinality(Stored(v)) \in Nat
      BY <3>1, FS_CardinalityType
    <3>11. refs'[v] = refs[v] + 2 * Of(v, hs) /\ Of(v, hs) \in Nat
      BY <1>16
    <3>. QED  BY <3>1, <3>2, <3>3, <3>6, <3>9, <3>10, <3>11
  <2>2. IsFiniteSet({v \in Values : life'[v] = "live"})
    BY <1>1 DEF Inv, Counted
  <2>3. refs' \in [Values -> Int]
    BY <1>1, <1>16
  <2>. QED  BY <2>1, <2>2, <2>3, Recounted
<1>19. InOnePlace'
  <2>1. PICK y : y = <<"call", th, base + Len(fs)>>
    OBVIOUS
  <2>2. /\ base + Len(fs) \in Nat /\ base + Len(fs) > base /\ base + Len(fs) <= base + Len(fs)
        /\ base + Len(fs) + 1 - (base + Len(fs)) = 1 /\ base + Len(fs) \notin 1..Depth(th)
        /\ base + Len(fs) + 1 - 1 = base + Len(fs)
    BY <1>3, <1>4, <1>11
  <2>3. y \in Places /\ Held(y) = {}
    BY <2>1, <2>2, PlaceIs
  <2>4. Held(<<"call", th, base + Len(fs)>>)' = Elements(fs[1].cbs)
    BY <1>4, <1>10, <1>12, <2>2, HeldLands
  <2>5. Held(y)' = {cb}
    BY <1>6, <1>7, <1>10, <2>1, <2>4
  <2>6. Only(y, y)
    <3>1. /\ \A w \in Values : <<"queue", w>> \notin {y, y} => queue'[w] = queue[w]
          /\ \A k \in 1..Len(fs) : \/ fs[k].cbs = <<>>
                                   \/ <<"call", th, base + Len(fs) + 1 - k>> \in {y, y}
      BY <1>1, <1>10, <2>1, <2>2
    <3>. QED  BY <1>3, <1>4, <1>10, <1>12, <3>1, Elsewhere
  <2>7. \A c \in Callbacks : fate'[c] = IF c = cb THEN "kept" ELSE fate[c]
    BY <1>1 DEF TypeOK
  <2>8. Moves(y, y, {}, {cb})
    BY <2>3, <2>5, <2>6, <2>7 DEF Moves
  <2>9. /\ \A w \in Values : Distinct(queue'[w])
        /\ \A k \in 1..Len(fs) : Distinct(fs[k].cbs)
    BY <1>1, <1>6, <1>7, <1>10, Short DEF Inv, InOnePlace
  <2>10. \A c \in Callbacks : fate'[c] # "kept" => carries'[c] = {}
    <3>1. \A c \in Callbacks : carries'[c] = IF c = cb THEN hs ELSE carries[c]
      BY <1>1 DEF TypeOK
    <3>. QED  BY <2>7, <3>1 DEF Inv, InOnePlace
  <2>11. {} \subseteq Held(y) \cup Held(y) /\ {cb} \subseteq Callbacks
         /\ \A c \in {cb} : fate[c] # "kept"
    BY <1>1
  <2>. QED  BY <1>4, <1>10, <1>12, <2>3, <2>8, <2>9, <2>10, <2>11, OnePlace DEF Inv
<1>20. TypeOK'
  <2>1. carries' \in [Callbacks -> SUBSET Handles]
    BY <1>1, <1>2 DEF TypeOK
  <2>2. fate' \in [Callbacks -> {"new", "kept", "deleted"}]
    BY <1>1 DEF TypeOK
  <2>3. refs' \in [Values -> Nat]
    BY <1>1, <1>16
  <2>. QED  BY <1>1, <1>12, <2>1, <2>2, <2>3 DEF Inv, TypeOK
<1>. QED  BY <1>15, <1>17, <1>18, <1>19, <1>20 DEF Inv

-----------------------------------------------------------------------------
(* Steps that write a variable or end a handle or a SharedValue.           *)

LEMMA DestroysOne ==
  ASSUME NEW dead \in Values
  PROVE  \E f \in Frames : /\ Destroys(dead) = <<f>> /\ f.op = "destroy" /\ f.self = dead
                           /\ f.cbs = <<>> /\ f.drops = {} /\ Fits(f)
<1>1. PICK f : f = Frame("destroy", None, dead, <<>>, {})
  OBVIOUS
<1>2. f \in Frames /\ f.op = "destroy" /\ f.self = dead /\ f.cbs = <<>> /\ f.drops = {}
  <2>1. <<>> \in Seq(Callbacks) /\ {} \in SUBSET Handles
    BY EmptySeq
  <2>. QED  BY <1>1, <2>1 DEF Frame, Frames
<1>3. Fits(f)
  BY <1>2, HandlesAssumption DEF Fits, Uses
<1>. QED  BY <1>1, <1>2, <1>3 DEF Destroys

LEMMA AssignKeeps ==
  ASSUME TypeOK, Inv, NEW th \in Threads, Acts(th) \/ In(th, "result"),
         NEW s \in Slots, NEW h \in Handles \cup {Invalid}, Assign(th, s, h),
         UNCHANGED <<program, ready, value, queue, carries, fate>>,
         \/ life' = life /\ (h \in Handles => refs[h.of] # 0)
         \/ \E v \in Values :
              life[v] = "new" /\ h.of = v /\ life' = [life EXCEPT ![v] = "live"]
  PROVE  TypeOK' /\ Inv'
<1>1. /\ Writable(th, s) /\ slot' = [slot EXCEPT ![s] = h]
      /\ refs' = [v \in Values |-> refs[v] + Of(v, {h}) - Of(v, {slot[s]})]
  BY DEF Assign
<1>2. PICK o : o = slot[s]
  OBVIOUS
<1>3. /\ o \in Handles \cup {Invalid} /\ o.of \in Values \cup {None}
      /\ o.of \in Values => refs[o.of] # 0
  <2>1. o \in Handles \cup {Invalid}
    BY <1>2 DEF TypeOK
  <2>2. o.of \in Values \cup {None}
    BY <2>1 DEF Handles, Invalid
  <2>. QED  BY <1>2, <2>1, <2>2, Handled DEF Inv
<1>4. h.of \in Values \cup {None} /\ (h.of \in Values => h \in Handles)
  BY HandlesAssumption DEF Handles, Invalid
<1>5. \A v \in Values : /\ refs[v] \in Nat
                        /\ refs'[v] = refs[v] + (IF h.of = v THEN 1 ELSE 0)
                                      - (IF o.of = v THEN 1 ELSE 0)
  BY <1>1, <1>2, OfOne DEF TypeOK
<1>6. PICK dead : dead = IF Dies(o, h) THEN o.of ELSE None
  OBVIOUS
<1>7. /\ dead \in Values \cup {None}
      /\ dead # None => Dies(o, h) /\ dead = o.of /\ dead \in Values
      /\ dead = None => ~Dies(o, h)
  BY <1>3, <1>6 DEF Dies
<1>8. PICK base : base = Depth(th)
  OBVIOUS
<1>9. base \in Nat /\ base <= Depth(th) /\ \A d \in 1..base : At(<<th, d>>).op \notin Uses
  BY <1>8, Acting DEF Inv
<1>10. \E fs \in Seq(Frames) :
          /\ Lands(th, base, fs) /\ stack' \in [Threads -> Seq(Frames)]
          /\ dead = None => Len(fs) = 0
          /\ dead # None => /\ Len(fs) = 1 /\ fs[1].op = "destroy" /\ fs[1].self = dead
                            /\ fs[1].cbs = <<>> /\ fs[1].drops = {} /\ Fits(fs[1])
  <2>1. CASE dead = None
    <3>1. UNCHANGED stack
      BY <1>2, <1>7, <2>1 DEF Assign
    <3>2. Lands(th, base, <<>>) /\ stack' \in [Threads -> Seq(Frames)]
      BY <1>8, <3>1, StayLands
    <3>. QED  BY <2>1, <3>2, Puts
  <2>2. CASE dead # None
    <3>1. Enter(th, Destroys(dead))
      BY <1>2, <1>7, <2>2 DEF Assign
    <3>2. PICK f \in Frames : /\ Destroys(dead) = <<f>> /\ f.op = "destroy" /\ f.self = dead
                              /\ f.cbs = <<>> /\ f.drops = {} /\ Fits(f)
      BY <1>7, <2>2, DestroysOne
    <3>3. PICK fs : fs = <<f>>
      OBVIOUS
    <3>4. fs \in Seq(Frames) /\ Len(fs) = 1 /\ fs[1] = f /\ Enter(th, fs)
      BY <3>1, <3>2, <3>3, Puts
    <3>5. Lands(th, base, fs) /\ stack' \in [Threads -> Seq(Frames)]
      BY <1>8, <3>4, EnterLands
    <3>. QED  BY <2>2, <3>2, <3>4, <3>5
  <2>. QED  BY <2>1, <2>2
<1>11. PICK fs \in Seq(Frames) :
          /\ Lands(th, base, fs) /\ stack' \in [Threads -> Seq(Frames)]
          /\ dead = None => Len(fs) = 0
          /\ dead # None => /\ Len(fs) = 1 /\ fs[1].op = "destroy" /\ fs[1].self = dead
                            /\ fs[1].cbs = <<>> /\ fs[1].drops = {} /\ Fits(fs[1])
  BY <1>10
<1>12. \A k \in 1..Len(fs) : k = 1 /\ dead # None
  <2>1. CASE dead = None
    <3>1. 1..Len(fs) = {}
      BY <1>11, <2>1
    <3>. QED  BY <3>1
  <2>2. CASE dead # None
    <3>1. Len(fs) = 1
      BY <1>11, <2>2
    <3>2. 1..Len(fs) = {1}
      BY <3>1
    <3>. QED  BY <2>2, <3>2
  <2>. QED  BY <2>1, <2>2
<1>13. AllFit' /\ UsesAreBacked'
  <2>1. KeepsCarries(th, base)
    BY DEF KeepsCarries
  <2>2. KeepsSlots(th)
    <3>1. ASSUME NEW u \in Threads \ {th}, NEW e \in 1..Depth(u)
          PROVE  At(<<u, e>>).via # s
      <4>1. stack[u] \in Seq(Frames) /\ Depth(u) \in Nat
        BY Stacks
      <4>2. PICK i : i = Depth(u) + 1 - e
        OBVIOUS
      <4>3. i \in 1..Depth(u)
        BY <4>1, <4>2
      <4>4. i \in DOMAIN stack[u] /\ At(<<u, e>>) = stack[u][i]
        BY <4>1, <4>2, <4>3, LenProperties, AtIs DEF Depth
      <4>. QED  BY <1>1, <4>4 DEF Writable
    <3>2. ASSUME NEW u \in Threads \ {th}, NEW e \in 1..Depth(u), At(<<u, e>>).via # None
          PROVE  slot'[At(<<u, e>>).via] = slot[At(<<u, e>>).via]
      <4>1. At(<<u, e>>).via \in Slots
        BY <3>2, Stacks DEF Frames
      <4>. QED  BY <1>1, <3>1, <4>1 DEF TypeOK
    <3>. QED  BY <3>2 DEF KeepsSlots
  <2>3. BackedAtFirst(th, base, fs)
    BY <1>11, <1>12 DEF BackedAtFirst, Uses
  <2>4. OnlyDestroys(th, base, fs)
    BY <1>9 DEF OnlyDestroys
  <2>. QED  BY <1>9, <1>11, <2>1, <2>2, <2>3, <2>4, FramesStay DEF Inv
<1>14. \A v \in Values : refs[v] # 0 => life[v] = "live"
  BY DEF Inv, DestroyedOnce
<1>15. DestroyedOnce'
  <2>1. \A d \in (base + 1)..Depth(th) : At(<<th, d>>).op # "destroy"
    <3>1. \A d \in (base + 1)..Depth(th) : FALSE
      BY <1>8, <1>9
    <3>. QED  BY <3>1
  <2>2. dead # None => /\ Len(fs) # 0 /\ fs[1].op = "destroy" /\ fs[1].self = dead
                       /\ life'[dead] = "live" /\ refs[dead] # 0 /\ refs'[dead] = 0
    <3>1. ASSUME dead # None
          PROVE  life'[dead] = "live" /\ refs[dead] # 0 /\ refs'[dead] = 0
      <4>1. dead \in Values /\ refs[dead] = 1 /\ h.of # dead /\ o.of = dead
        BY <1>7, <3>1 DEF Dies
      <4>2. refs'[dead] = 0
        BY <1>5, <4>1
      <4>3. life[dead] = "live"
        BY <1>14, <4>1
      <4>4. life'[dead] = "live"
        BY <4>1, <4>3 DEF TypeOK
      <4>. QED  BY <4>1, <4>2, <4>4
    <3>2. ASSUME dead # None
          PROVE  Len(fs) # 0 /\ fs[1].op = "destroy" /\ fs[1].self = dead
      <4>1. Len(fs) = 1 /\ fs[1].op = "destroy" /\ fs[1].self = dead
        BY <1>11, <3>2
      <4>. QED  BY <4>1
    <3>. QED  BY <3>1, <3>2
  <2>3. ASSUME NEW w \in Values \ {dead}
        PROVE  \/ life'[w] = life[w] /\ (refs'[w] = 0 <=> refs[w] = 0)
               \/ life[w] = "new" /\ life'[w] = "live" /\ refs'[w] # 0
    <3>1. o.of = w => refs[w] # 0 /\ (h.of = w \/ refs[w] # 1)
      <4>1. ASSUME o.of = w, h.of # w PROVE refs[w] # 1
        <5>1. ~Dies(o, h)
          BY <1>6, <4>1
        <5>. QED  BY <4>1, <5>1, HandlesAssumption DEF Dies
      <4>. QED  BY <1>3, <4>1
    <3>2. CASE life' = life /\ (h \in Handles => refs[h.of] # 0)
      <4>1. h.of = w => refs[w] # 0
        BY <1>4, <3>2
      <4>2. refs'[w] = 0 <=> refs[w] = 0
        <5>1. /\ refs[w] \in Nat
              /\ refs'[w] = refs[w] + (IF h.of = w THEN 1 ELSE 0) - (IF o.of = w THEN 1 ELSE 0)
          BY <1>5
        <5>. QED  BY <3>1, <4>1, <5>1
      <4>. QED  BY <3>2, <4>2
    <3>3. CASE \E v \in Values :
                 life[v] = "new" /\ h.of = v /\ life' = [life EXCEPT ![v] = "live"]
      <4>1. PICK v \in Values :
                 life[v] = "new" /\ h.of = v /\ life' = [life EXCEPT ![v] = "live"]
        BY <3>3
      <4>2. CASE w = v
        <5>1. refs[w] = 0
          BY <1>14, <4>1, <4>2
        <5>2. refs'[w] = 1
          BY <1>5, <3>1, <4>1, <4>2, <5>1
        <5>. QED  BY <4>1, <4>2, <5>2 DEF TypeOK
      <4>3. CASE w # v
        <5>1. refs'[w] = 0 <=> refs[w] = 0
          BY <1>5, <3>1, <4>1, <4>3
        <5>2. life'[w] = life[w]
          BY <4>1, <4>3 DEF TypeOK
        <5>. QED  BY <5>1, <5>2
      <4>. QED  BY <4>2, <4>3
    <3>. QED  BY <3>2, <3>3
  <2>4. \A v \in Values : life'[v] # "live" => queue'[v] = <<>> /\ value'[v] = {}
    <3>1. \A v \in Values : life'[v] # "live" => life[v] # "live"
      BY DEF TypeOK
    <3>. QED  BY <3>1 DEF Inv, DestroyedOnce
  <2>5. \A k \in 1..Len(fs) : fs[k].op = "destroy" => k = 1 /\ fs[k].self = dead
    BY <1>11, <1>12
  <2>6. DestroyedOnce
    BY DEF Inv
  <2>. QED  BY <1>7, <1>9, <1>11, <2>1, <2>2, <2>3, <2>4, <2>5, <2>6, Deaths
<1>16. Counted' /\ refs' \in [Values -> Nat]
  <2>1. ASSUME NEW v \in Values
        PROVE  /\ IsFiniteSet(InSlots(v)') /\ IsFiniteSet(Carried(v)')
               /\ IsFiniteSet(Stored(v)') /\ IsFiniteSet(Dropped(v)')
               /\ refs'[v] = Cardinality(InSlots(v)') + Cardinality(Carried(v)')
                             + Cardinality(Stored(v)') + Cardinality(Dropped(v)')
    <3>1. /\ IsFiniteSet(InSlots(v)) /\ IsFiniteSet(Carried(v))
          /\ IsFiniteSet(Stored(v)) /\ IsFiniteSet(Dropped(v))
          /\ refs[v] = Cardinality(InSlots(v)) + Cardinality(Carried(v))
                       + Cardinality(Stored(v)) + Cardinality(Dropped(v))
      BY DEF Inv, Counted, CountIsExact, InSlots
    <3>2. Carried(v)' = Carried(v) /\ Stored(v)' = Stored(v)
      BY DEF Carried, Stored
    <3>3. /\ IsFiniteSet(InSlots(v)')
          /\ Cardinality(InSlots(v)) \in Nat /\ Cardinality(InSlots(v)') \in Nat
          /\ Balance(Cardinality(InSlots(v)), Of(v, {h}), Of(v, {slot[s]}), Cardinality(InSlots(v)'))
      BY <1>1, <3>1, SlotsChange
    <3>4. PICK old : old = IF base = Depth(th) THEN {} ELSE At(<<th, Depth(th)>>).drops
      OBVIOUS
    <3>5. old = {}
      BY <1>8, <3>4
    <3>6. Lowest(fs) = {} /\ \A k \in 1..(Len(fs) - 1) : fs[k].drops = {}
      <4>1. CASE Len(fs) = 0
        <5>1. \A k \in 1..(Len(fs) - 1) : FALSE
          BY <4>1
        <5>. QED  BY <4>1, <5>1 DEF Lowest
      <4>2. CASE Len(fs) = 1
        <5>1. \A k \in 1..(Len(fs) - 1) : FALSE
          BY <4>2
        <5>2. fs[1].drops = {}
          BY <1>11, <4>2
        <5>. QED  BY <4>2, <5>1, <5>2 DEF Lowest
      <4>. QED  BY <1>11, <4>1, <4>2
    <3>7. /\ IsFiniteSet(Dropped(v)')
          /\ Cardinality(Dropped(v)) \in Nat /\ Cardinality(Dropped(v)') \in Nat
          /\ Balance(Cardinality(Dropped(v)), Of(v, Lowest(fs)), Of(v, old),
                     Cardinality(Dropped(v)'))
      BY <1>8, <1>9, <1>11, <3>1, <3>4, <3>6, DroppedLands
    <3>8. Of(v, Lowest(fs)) = 0 /\ Of(v, old) = 0
      BY <3>5, <3>6, OfEmpty
    <3>9. Cardinality(Dropped(v)') = Cardinality(Dropped(v))
      BY <3>7, <3>8 DEF Balance
    <3>10. /\ Of(v, {h}) = (IF h.of = v THEN 1 ELSE 0)
           /\ Of(v, {slot[s]}) = (IF o.of = v THEN 1 ELSE 0)
      BY <1>2, OfOne
    <3>11. Cardinality(InSlots(v)') = Cardinality(InSlots(v)) + (IF h.of = v THEN 1 ELSE 0)
                                      - (IF o.of = v THEN 1 ELSE 0)
      BY <3>3, <3>10 DEF Balance
    <3>12. Cardinality(Carried(v)) \in Nat /\ Cardinality(Stored(v)) \in Nat
      BY <3>1, FS_CardinalityType
    <3>. QED  BY <1>5, <3>1, <3>2, <3>3, <3>7, <3>9, <3>11, <3>12
  <2>2. IsFiniteSet({v \in Values : life'[v] = "live"})
    <3>1. IsFiniteSet({v \in Values : life[v] = "live"})
      BY DEF Inv, Counted
    <3>2. ASSUME NEW v \in Values, life' = [life EXCEPT ![v] = "live"]
          PROVE  IsFiniteSet({w \in Values : life'[w] = "live"})
      <4>1. {w \in Values : life'[w] = "live"} = {w \in Values : life[w] = "live"} \cup {v}
        BY <3>2 DEF TypeOK
      <4>2. IsFiniteSet({w \in Values : life[w] = "live"} \cup {v})
        BY <3>1, FS_AddElement
      <4>. QED  BY <4>1, <4>2
    <3>. QED  BY <3>1, <3>2
  <2>3. refs' \in [Values -> Int]
    <3>1. \A v \in Values : refs'[v] \in Int
      BY <1>5
    <3>. QED  BY <1>1, <3>1
  <2>. QED  BY <2>1, <2>2, <2>3, Recounted
<1>17. InOnePlace'
  <2>1. \A k \in 1..Len(fs) : fs[k].cbs = <<>>
    BY <1>11, <1>12
  <2>. QED  BY <1>8, <1>9, <1>11, <2>1, Unmoved DEF Inv
<1>18. TypeOK'
  <2>1. slot' \in [Slots -> Handles \cup {Invalid}]
    BY <1>1 DEF TypeOK
  <2>2. life' \in [Values -> {"new", "live", "destroyed"}]
    BY DEF TypeOK
  <2>. QED  BY <1>11, <1>16, <2>1, <2>2 DEF Inv, TypeOK
<1>. QED  BY <1>13, <1>15, <1>16, <1>17, <1>18 DEF Inv

LEMMA ReleaseKeeps ==
  ASSUME TypeOK, Inv, NEW th \in Threads, ReleaseHandle(th)
  PROVE  TypeOK' /\ Inv'
<1>1. Releasing(th) /\ UNCHANGED <<program, slot, life, ready, value, queue, carries, fate>>
  BY DEF ReleaseHandle, valueVars
<1>2. PICK op \in {"release", "result", "swap"} : In(th, op)
  BY <1>1 DEF Releasing
<1>3. /\ stack[th] # <<>> /\ Depth(th) \in Nat /\ Depth(th) - 1 \in Nat /\ Top(th) \in Frames
      /\ Top(th) = At(<<th, Depth(th)>>) /\ Fits(Top(th)) /\ Top(th).op = op
      /\ Depth(th) \in 1..Depth(th)
      /\ \A d \in 1..(Depth(th) - 1) :
           At(<<th, d>>).op \in Uses => At(<<th, d>>).op = "swap" /\ op \in Destructors
  BY <1>2, Inside DEF Inv
<1>4. PICK f, drops : f = Top(th) /\ drops = f.drops
  OBVIOUS
<1>5. PICK h \in drops :
         /\ refs' = [refs EXCEPT ![h.of] = @ - 1]
         /\ Become(th, (IF Dies(h, Invalid) THEN Destroys(h.of) ELSE <<>>)
                       \o Rest(f, drops \ {h}))
  BY <1>4 DEF ReleaseHandle
<1>6. drops \in SUBSET Handles /\ h \in Handles /\ h.of \in Values /\ h.of # None
  <2>1. drops \in SUBSET Handles
    BY <1>3, <1>4 DEF Frames
  <2>. QED  BY <2>1, HandlesAssumption DEF Handles
<1>7. PICK base : base = Depth(th) - 1
  OBVIOUS
<1>8. base \in Nat /\ base + 1 = Depth(th) /\ base <= Depth(th) /\ Depth(th) \in 1..Depth(th)
      /\ base # Depth(th)
  BY <1>3, <1>7
<1>9. refs[h.of] # 0
  BY <1>3, <1>4, <1>6, <1>8, Handled DEF Inv
<1>10. \A v \in Values : refs[v] \in Nat /\ refs'[v] = IF v = h.of THEN refs[v] - 1 ELSE refs[v]
  BY <1>5, <1>6 DEF TypeOK
<1>11. PICK dead : dead = IF refs[h.of] = 1 THEN h.of ELSE None
  OBVIOUS
<1>12. /\ dead \in Values \cup {None} /\ (dead # None <=> refs[h.of] = 1)
       /\ dead # None => dead = h.of
       /\ Dies(h, Invalid) <=> dead # None
  BY <1>6, <1>11, HandlesAssumption DEF Dies, Invalid
<1>13. PICK hs : hs = drops \ {h}
  OBVIOUS
<1>14. PICK A \in Seq(Frames) :
         /\ A = (IF Dies(h, Invalid) THEN Destroys(h.of) ELSE <<>>)
         /\ dead = None => Len(A) = 0
         /\ dead # None => /\ Len(A) = 1 /\ A[1].op = "destroy" /\ A[1].self = dead
                           /\ A[1].cbs = <<>> /\ A[1].drops = {} /\ Fits(A[1])
  <2>1. CASE dead = None
    BY <1>12, <2>1, Puts
  <2>2. CASE dead # None
    <3>1. PICK g \in Frames : /\ Destroys(dead) = <<g>> /\ g.op = "destroy" /\ g.self = dead
                              /\ g.cbs = <<>> /\ g.drops = {} /\ Fits(g)
      BY <1>12, <2>2, DestroysOne
    <3>2. <<g>> \in Seq(Frames) /\ Len(<<g>>) = 1 /\ <<g>>[1] = g
      BY <3>1, Puts
    <3>. QED  BY <1>12, <2>2, <3>1, <3>2
  <2>. QED  BY <2>1, <2>2
<1>15. PICK B : B = Rest(f, hs)
  OBVIOUS
<1>16. /\ Left(B, hs)
       /\ Len(B) = 1 => \/ B[1].op = "release" /\ op # "swap"
                        \/ /\ op = "swap" /\ B[1].op = "swap"
                           /\ B[1].via = f.via /\ B[1].self = f.self
  <2>1. CASE op = "swap"
    <3>1. PICK g : g = [f EXCEPT !.drops = hs]
      OBVIOUS
    <3>2. /\ g \in Frames /\ g.op = "swap" /\ g.via = f.via /\ g.self = f.self
          /\ g.cbs = f.cbs /\ g.drops = hs
      BY <1>3, <1>4, <1>6, <1>13, <2>1, <3>1 DEF Frames
    <3>3. f.cbs = <<>> /\ Fits(g)
      BY <1>3, <1>4, <2>1, <3>2 DEF Fits, Uses
    <3>4. B = <<g>>
      BY <1>3, <1>4, <1>15, <2>1, <3>1 DEF Rest
    <3>5. B \in Seq(Frames) /\ Len(B) = 1 /\ B[1] = g
      BY <3>2, <3>4, Puts
    <3>. QED  BY <2>1, <3>2, <3>3, <3>5 DEF Left
  <2>2. CASE op # "swap"
    <3>1. B = Releases(hs)
      BY <1>3, <1>4, <1>15, <2>2 DEF Rest
    <3>. QED  BY <1>6, <1>13, <2>2, <3>1, Leaves
  <2>. QED  BY <2>1, <2>2
<1>17. PICK fs : fs = A \o B
  OBVIOUS
<1>18. Ends(fs, A, B, hs)
  <2>1. Len(A) = 0 \/ (Len(A) = 1 /\ A[1].drops = {})
    BY <1>14
  <2>2. Len(A) <= 1
    <3>1. CASE Len(A) = 0
      BY <3>1
    <3>2. CASE Len(A) = 1
      BY <3>2
    <3>. QED  BY <2>1, <3>1, <3>2
  <2>3. \A k \in 1..Len(A) : A[k].drops = {}
    <3>1. CASE Len(A) = 0
      <4>1. 1..Len(A) = {}
        BY <3>1
      <4>. QED  BY <4>1
    <3>2. CASE Len(A) = 1 /\ A[1].drops = {}
      <4>1. 1..Len(A) = {1}
        BY <3>2
      <4>. QED  BY <3>2, <4>1
    <3>. QED  BY <2>1, <3>1, <3>2
  <2>. QED  BY <1>16, <1>17, <2>2, <2>3, Over
<1>19. Len(A) = 1 => /\ dead # None /\ A[1].op = "destroy" /\ A[1].self = dead
                     /\ A[1].cbs = <<>> /\ A[1].drops = {} /\ Fits(A[1])
  <2>1. ASSUME Len(A) = 1 PROVE dead # None
    <3>1. dead = None => Len(A) = 0
      BY <1>14
    <3>. QED  BY <2>1, <3>1
  <2>2. dead # None => /\ A[1].op = "destroy" /\ A[1].self = dead
                       /\ A[1].cbs = <<>> /\ A[1].drops = {} /\ Fits(A[1])
    BY <1>14
  <2>. QED  BY <2>1, <2>2
<1>20. /\ fs \in Seq(Frames) /\ Lowest(fs) = hs
       /\ \A k \in 1..(Len(fs) - 1) : fs[k].drops = {}
       /\ Len(A) = 1 => Len(fs) # 0 /\ fs[1] = A[1]
       /\ \A k \in 1..Len(fs) :
            /\ fs[k].cbs = <<>> /\ Fits(fs[k]) /\ fs[k].op \in {"release", "swap", "destroy"}
            /\ fs[k].op = "swap" => /\ op = "swap" /\ fs[k].via = f.via /\ fs[k].self = f.self
                                   /\ \A j \in 1..(k - 1) : fs[j].op = "destroy"
            /\ fs[k].op = "destroy" => k = 1 /\ fs[k].self = dead
  <2>1. Len(B) = 1 => B[1].cbs = <<>> /\ Fits(B[1])
    BY <1>16 DEF Left
  <2>2. /\ fs \in Seq(Frames) /\ Lowest(fs) = hs
        /\ \A k \in 1..(Len(fs) - 1) : fs[k].drops = {}
        /\ Len(A) = 1 => Len(fs) # 0 /\ fs[1] = A[1]
    BY <1>18 DEF Ends
  <2>3. ASSUME NEW k \in 1..Len(fs),
               Len(B) = 1, fs[k] = B[1], \A j \in 1..(k - 1) : j = 1 /\ Len(A) = 1
        PROVE  /\ fs[k].cbs = <<>> /\ Fits(fs[k]) /\ fs[k].op \in {"release", "swap"}
               /\ fs[k].op = "swap" => /\ op = "swap" /\ fs[k].via = f.via /\ fs[k].self = f.self
                                      /\ \A j \in 1..(k - 1) : fs[j].op = "destroy"
    <3>1. \A j \in 1..(k - 1) : fs[j].op = "destroy"
      BY <1>19, <2>2, <2>3
    <3>. QED  BY <1>16, <2>1, <2>3, <3>1
  <2>4. ASSUME NEW k \in 1..Len(fs), k = 1 /\ Len(A) = 1 /\ fs[k] = A[1]
        PROVE  /\ fs[k].cbs = <<>> /\ Fits(fs[k]) /\ fs[k].op = "destroy"
               /\ k = 1 /\ fs[k].self = dead
    BY <1>19, <2>4
  <2>5. ASSUME NEW k \in 1..Len(fs)
        PROVE  \/ Len(B) = 1 /\ fs[k] = B[1] /\ \A j \in 1..(k - 1) : j = 1 /\ Len(A) = 1
               \/ k = 1 /\ Len(A) = 1 /\ fs[k] = A[1]
    BY <1>18 DEF Ends
  <2>6. ASSUME NEW k \in 1..Len(fs)
        PROVE  /\ fs[k].cbs = <<>> /\ Fits(fs[k]) /\ fs[k].op \in {"release", "swap", "destroy"}
               /\ fs[k].op = "swap" => /\ op = "swap" /\ fs[k].via = f.via /\ fs[k].self = f.self
                                      /\ \A j \in 1..(k - 1) : fs[j].op = "destroy"
               /\ fs[k].op = "destroy" => k = 1 /\ fs[k].self = dead
    <3>1. CASE Len(B) = 1 /\ fs[k] = B[1] /\ \A j \in 1..(k - 1) : j = 1 /\ Len(A) = 1
      BY <2>3, <3>1
    <3>2. CASE k = 1 /\ Len(A) = 1 /\ fs[k] = A[1]
      BY <2>4, <3>2
    <3>. QED  BY <2>5, <3>1, <3>2
  <2>. QED  BY <2>2, <2>6
<1>21. Lands(th, base, fs) /\ stack' \in [Threads -> Seq(Frames)]
  <2>1. Become(th, fs)
    BY <1>13, <1>14, <1>15, <1>17, <1>5
  <2>. QED  BY <1>3, <1>7, <1>20, <2>1, BecomeLands
<1>22. AllFit' /\ UsesAreBacked'
  <2>1. KeepsCarries(th, base) /\ KeepsSlots(th)
    BY <1>1 DEF KeepsCarries, KeepsSlots
  <2>2. BackedAtFirst(th, base, fs)
    <3>1. op = "swap" => IF f.via = None THEN \E e \in 1..base : Covers(th, e, f.self)
                         ELSE slot[f.via].of = f.self
      BY <1>3, <1>4, <1>7 DEF Inv, UsesAreBacked, Uses
    <3>2. \A k \in 1..Len(fs) : fs[k].op \in Uses => fs[k].op = "swap"
      BY <1>20 DEF Uses
    <3>. QED  BY <1>1, <1>20, <3>1, <3>2 DEF BackedAtFirst, Destructors
  <2>3. OnlyDestroys(th, base, fs)
    <3>1. ASSUME NEW d \in 1..base, At(<<th, d>>).op \in Uses
          PROVE  At(<<th, d>>).op = "swap" /\ op # "swap"
      BY <1>3, <1>7, <3>1 DEF Destructors
    <3>. QED  BY <1>1, <1>20, <3>1 DEF OnlyDestroys, Destructors
  <2>. QED  BY <1>8, <1>20, <1>21, <2>1, <2>2, <2>3, FramesStay DEF Inv
<1>23. DestroyedOnce'
  <2>1. \A d \in (base + 1)..Depth(th) : At(<<th, d>>).op # "destroy"
    <3>1. \A d \in (base + 1)..Depth(th) : d = Depth(th)
      BY <1>8
    <3>. QED  BY <1>3, <3>1
  <2>2. dead # None => /\ Len(fs) # 0 /\ fs[1].op = "destroy" /\ fs[1].self = dead
                       /\ life'[dead] = "live" /\ refs[dead] # 0 /\ refs'[dead] = 0
    <3>1. ASSUME dead # None
          PROVE  life'[dead] = "live" /\ refs[dead] # 0 /\ refs'[dead] = 0
      <4>1. dead \in Values /\ dead = h.of /\ refs[dead] = 1
        BY <1>6, <1>12, <3>1
      <4>2. life[dead] = "live"
        BY <4>1 DEF Inv, DestroyedOnce
      <4>. QED  BY <1>1, <1>10, <4>1, <4>2
    <3>2. ASSUME dead # None
          PROVE  Len(fs) # 0 /\ fs[1].op = "destroy" /\ fs[1].self = dead
      <4>1. Len(A) = 1
        BY <1>14, <3>2
      <4>. QED  BY <1>19, <1>20, <4>1
    <3>. QED  BY <3>1, <3>2
  <2>3. \A w \in Values \ {dead} : life'[w] = life[w] /\ (refs'[w] = 0 <=> refs[w] = 0)
    <3>1. ASSUME NEW w \in Values \ {dead}, w = h.of PROVE refs[w] # 1 /\ refs[w] # 0
      BY <1>9, <1>11, <3>1
    <3>. QED  BY <1>1, <1>10, <3>1
  <2>4. \A v \in Values : life'[v] # "live" => queue'[v] = <<>> /\ value'[v] = {}
    BY <1>1 DEF Inv, DestroyedOnce
  <2>5. \A k \in 1..Len(fs) : fs[k].op = "destroy" => k = 1 /\ fs[k].self = dead
    BY <1>20
  <2>6. DestroyedOnce /\ dead \in Values \cup {None} /\ fs \in Seq(Frames)
    BY <1>12, <1>20 DEF Inv
  <2>7. \A w \in Values \ {dead} :
           \/ life'[w] = life[w] /\ (refs'[w] = 0 <=> refs[w] = 0)
           \/ life[w] = "new" /\ life'[w] = "live" /\ refs'[w] # 0
    BY <2>3
  <2>. QED  BY <1>8, <1>21, <2>1, <2>2, <2>4, <2>5, <2>6, <2>7, Deaths, ZenonT(40)
<1>24. Counted' /\ refs' \in [Values -> Nat]
  <2>1. PICK old : old = IF base = Depth(th) THEN {} ELSE At(<<th, Depth(th)>>).drops
    OBVIOUS
  <2>2. old = drops
    BY <1>3, <1>4, <1>8, <2>1
  <2>3. ASSUME NEW v \in Values
        PROVE  Balance(refs[v], Of(v, Lowest(fs)), Of(v, old), refs'[v])
    <3>1. Of(v, Lowest(fs)) = Of(v, drops) - Of(v, {h}) /\ Of(v, old) = Of(v, drops)
      BY <1>6, <1>13, <1>20, <2>2, OfRemoved
    <3>2. Of(v, {h}) = (IF h.of = v THEN 1 ELSE 0)
      BY OfOne
    <3>3. Of(v, drops) \in Nat
      <4>1. drops \in SUBSET (Handles \cup {Invalid})
        BY <1>6
      <4>. QED  BY <4>1, OfIs
    <3>. QED  BY <1>10, <3>1, <3>2, <3>3 DEF Balance
  <2>4. refs' \in [Values -> Int]
    BY <1>6, <1>5 DEF TypeOK
  <2>5. fs \in Seq(Frames) /\ \A k \in 1..(Len(fs) - 1) : fs[k].drops = {}
    BY <1>20
  <2>6. \A v \in Values : Balance(refs[v], Of(v, Lowest(fs)), Of(v, old), refs'[v])
    BY <2>3
  <2>. QED  BY <1>1, <1>8, <1>21, <2>1, <2>4, <2>5, <2>6, CountsHands
<1>25. InOnePlace'
  <2>1. At(<<th, Depth(th)>>).cbs = <<>>
    BY <1>3 DEF Fits
  <2>. QED  BY <1>1, <1>8, <1>20, <1>21, <2>1, Unmoved DEF Inv
<1>26. TypeOK'
  BY <1>1, <1>21, <1>24 DEF Inv, TypeOK
<1>. QED  BY <1>22, <1>23, <1>24, <1>25, <1>26 DEF Inv

LEMMA DestroyedKeeps ==
  ASSUME TypeOK, Inv, NEW th \in Threads, In(th, "destroy"), NEW v, v = Top(th).self,
         queue[v] = <<>>, life' = [life EXCEPT ![v] = "destroyed"],
         value' = [value EXCEPT ![v] = {}], Become(th, Releases(value[v])),
         UNCHANGED <<program, slot, ready, refs, queue, fate, carries>>
  PROVE  TypeOK' /\ Inv'
<1>1. /\ stack[th] # <<>> /\ Depth(th) \in Nat /\ Depth(th) - 1 \in Nat /\ Top(th) \in Frames
      /\ Top(th) = At(<<th, Depth(th)>>) /\ Fits(Top(th)) /\ Top(th).op = "destroy"
      /\ \A d \in 1..(Depth(th) - 1) : At(<<th, d>>).op \in Uses => At(<<th, d>>).op = "swap"
  BY Inside DEF Inv
<1>2. v \in Values /\ At(<<th, Depth(th)>>).drops = {} /\ At(<<th, Depth(th)>>).cbs = <<>>
  BY <1>1 DEF Fits, Frames
<1>3. PICK base : base = Depth(th) - 1
  OBVIOUS
<1>4. base \in Nat /\ base + 1 = Depth(th) /\ base <= Depth(th) /\ Depth(th) \in 1..Depth(th)
      /\ base # Depth(th)
  BY <1>1, <1>3
<1>5. PICK hs : hs = value[v]
  OBVIOUS
<1>6. hs \in SUBSET Handles
  BY <1>2, <1>5 DEF TypeOK
<1>7. PICK fs : fs = Releases(hs)
  OBVIOUS
<1>8. /\ fs \in Seq(Frames) /\ Lowest(fs) = hs
      /\ \A k \in 1..Len(fs) : fs[k].op = "release" /\ fs[k].cbs = <<>> /\ Fits(fs[k])
      /\ \A k \in 1..(Len(fs) - 1) : fs[k].drops = {}
  BY <1>6, <1>7, OnlyReleases DEF ReleasesAll
<1>9. Lands(th, base, fs) /\ stack' \in [Threads -> Seq(Frames)]
  BY <1>1, <1>3, <1>5, <1>8, <1>7, BecomeLands
<1>10. AllFit' /\ UsesAreBacked'
  <2>1. KeepsCarries(th, base) /\ KeepsSlots(th)
    BY DEF KeepsCarries, KeepsSlots
  <2>2. BackedAtFirst(th, base, fs)
    BY <1>8 DEF BackedAtFirst, Uses
  <2>3. OnlyDestroys(th, base, fs)
    BY <1>1, <1>3, <1>8 DEF OnlyDestroys, Destructors
  <2>. QED  BY <1>4, <1>8, <1>9, <2>1, <2>2, <2>3, FramesStay DEF Inv
<1>11. DestroyedOnce'
  <2>1. \A u \in Threads : Depth(u) \in Nat
    BY Stacks
  <2>2. Dying(th, Depth(th), v)
    BY <1>1, <1>4 DEF Dying
  <2>3. life[v] = "live" /\ refs[v] = 0
    BY <1>2, <1>4, <2>2 DEF Inv, DestroyedOnce
  <2>0. fs \in Seq(Frames) /\ base \in Nat /\ base <= Depth(th) /\ Lands(th, base, fs)
    BY <1>4, <1>8, <1>9
  <2>4. ASSUME NEW u \in Threads, NEW d \in Nat, NEW w \in Values
        PROVE  Dying(u, d, w)' <=> Dying(u, d, w) /\ ~(u = th /\ d = Depth(th))
    <3>1. ASSUME Dying(u, d, w)'
          PROVE  Dying(u, d, w) /\ ~(u = th /\ d = Depth(th))
      <4>1. d \in 1..Depth(u)' /\ At(<<u, d>>)'.op = "destroy" /\ At(<<u, d>>)'.self = w
        BY <3>1 DEF Dying
      <4>2. d \in 1..Depth(u) /\ (u = th => d <= base)
        <5>1. ASSUME u = th, d > base, base + Len(fs) + 1 - d \in 1..Len(fs) PROVE FALSE
          <6>1. At(<<u, d>>)' = fs[base + Len(fs) + 1 - d]
            BY <2>0, <5>1, Landed
          <6>. QED  BY <1>8, <4>1, <5>1, <6>1
        <5>2. \/ d \in 1..Depth(u) /\ (u = th => d <= base)
              \/ u = th /\ d > base /\ base + Len(fs) + 1 - d \in 1..Len(fs)
          BY <2>0, <4>1, Landed
        <5>. QED  BY <5>1, <5>2
      <4>3. At(<<u, d>>)' = At(<<u, d>>)
        BY <2>0, <4>2, Landed
      <4>4. ~(u = th /\ d = Depth(th))
        BY <1>4, <4>2
      <4>. QED  BY <4>1, <4>2, <4>3, <4>4 DEF Dying
    <3>2. ASSUME Dying(u, d, w), ~(u = th /\ d = Depth(th))
          PROVE  Dying(u, d, w)'
      <4>1. d \in 1..Depth(u) /\ (u = th => d <= base)
        BY <1>4, <2>1, <3>2 DEF Dying
      <4>2. d \in 1..Depth(u)' /\ At(<<u, d>>)' = At(<<u, d>>)
        BY <2>0, <4>1, Landed
      <4>. QED  BY <3>2, <4>2 DEF Dying
    <3>. QED  BY <3>1, <3>2
  <2>5. \A u \in Threads, d \in Nat : Dying(u, d, v) => u = th /\ d = Depth(th)
    BY <1>2, <1>4, <2>2 DEF Inv, DestroyedOnce, Dying
  <2>6. \A u \in Threads : \A d \in 1..Depth(u)' : d \in Nat
    OBVIOUS
  <2>7. \A w \in Values : life'[w] = IF w = v THEN "destroyed" ELSE life[w]
    BY DEF TypeOK
  <2>8. ASSUME NEW w \in Values, NEW t \in Threads, NEW u \in Threads, NEW d \in Nat,
               NEW e \in Nat, Dying(t, d, w)', Dying(u, e, w)'
        PROVE  t = u /\ d = e
    <3>1. Dying(t, d, w) /\ Dying(u, e, w)
      BY <2>4, <2>8
    <3>. QED  BY <3>1 DEF Inv, DestroyedOnce, Dying
  <2>9. ASSUME NEW w \in Values, NEW u \in Threads, NEW d \in Nat, Dying(u, d, w)'
        PROVE  life'[w] = "live" /\ refs'[w] = 0
    <3>1. Dying(u, d, w) /\ w # v
      BY <2>4, <2>5, <2>9
    <3>2. life[w] = "live" /\ refs[w] = 0
      BY <3>1 DEF Inv, DestroyedOnce, Dying
    <3>. QED  BY <2>7, <3>1, <3>2
  <2>10. \A w \in Values : life'[w] # "live" =>
            refs'[w] = 0 /\ queue'[w] = <<>> /\ value'[w] = {}
    <3>1. \A w \in Values : value'[w] = IF w = v THEN {} ELSE value[w]
      BY DEF TypeOK
    <3>. QED  BY <2>3, <2>7, <3>1 DEF Inv, DestroyedOnce
  <2>11. ASSUME NEW w \in Values, life'[w] = "live", refs'[w] = 0
         PROVE  \E u \in Threads : \E d \in 1..Depth(u)' : Dying(u, d, w)'
    <3>1. w # v /\ life[w] = "live" /\ refs[w] = 0
      BY <2>7, <2>11
    <3>2. PICK u \in Threads : \E d \in 1..Depth(u) : Dying(u, d, w)
      BY <3>1 DEF Inv, DestroyedOnce
    <3>3. PICK d \in 1..Depth(u) : Dying(u, d, w)
      BY <3>2
    <3>4. ~(u = th /\ d = Depth(th))
      BY <1>1, <3>1, <3>3 DEF Dying
    <3>5. Dying(u, d, w)'
      <4>1. d \in Nat
        OBVIOUS
      <4>. QED  BY <2>4, <3>3, <3>4, <4>1
    <3>. QED  BY <3>5 DEF Dying
  <2>. QED  BY <2>6, <2>8, <2>9, <2>10, <2>11 DEF DestroyedOnce
<1>12. Counted'
  <2>1. ASSUME NEW w \in Values
        PROVE  /\ IsFiniteSet(InSlots(w)') /\ IsFiniteSet(Carried(w)')
               /\ IsFiniteSet(Stored(w)') /\ IsFiniteSet(Dropped(w)')
               /\ refs'[w] = Cardinality(InSlots(w)') + Cardinality(Carried(w)')
                             + Cardinality(Stored(w)') + Cardinality(Dropped(w)')
    <3>1. /\ IsFiniteSet(InSlots(w)) /\ IsFiniteSet(Carried(w))
          /\ IsFiniteSet(Stored(w)) /\ IsFiniteSet(Dropped(w))
          /\ refs[w] = Cardinality(InSlots(w)) + Cardinality(Carried(w))
                       + Cardinality(Stored(w)) + Cardinality(Dropped(w))
      BY DEF Inv, Counted, CountIsExact, InSlots
    <3>2. Carried(w)' = Carried(w) /\ InSlots(w)' = InSlots(w)
      BY DEF Carried, InSlots
    <3>3. PICK old : old = IF base = Depth(th) THEN {} ELSE At(<<th, Depth(th)>>).drops
      OBVIOUS
    <3>4. PICK none : none = {}
      OBVIOUS
    <3>5. old = {} /\ none \in SUBSET Handles /\ value' = [value EXCEPT ![v] = none]
      BY <1>2, <1>4, <3>3, <3>4
    <3>6. /\ IsFiniteSet(Dropped(w)')
          /\ Cardinality(Dropped(w)) \in Nat /\ Cardinality(Dropped(w)') \in Nat
          /\ Balance(Cardinality(Dropped(w)), Of(w, Lowest(fs)), Of(w, old),
                     Cardinality(Dropped(w)'))
      BY <1>4, <1>8, <1>9, <3>1, <3>3, DroppedLands
    <3>7. /\ IsFiniteSet(Stored(w)')
          /\ Cardinality(Stored(w)) \in Nat /\ Cardinality(Stored(w)') \in Nat
          /\ Balance(Cardinality(Stored(w)), Of(w, none), Of(w, value[v]),
                     Cardinality(Stored(w)'))
      BY <1>2, <3>1, <3>5, StoredChanges
    <3>8. Of(w, none) = 0 /\ Of(w, old) = 0
      BY <3>4, <3>5, OfEmpty
    <3>9. Of(w, Lowest(fs)) = Of(w, value[v])
      BY <1>5, <1>8
    <3>10. Of(w, value[v]) \in Nat
      <4>1. hs \in SUBSET (Handles \cup {Invalid})
        BY <1>6
      <4>. QED  BY <1>5, <4>1, OfIs
    <3>11. Cardinality(Stored(w)') + Cardinality(Dropped(w)')
              = Cardinality(Stored(w)) + Cardinality(Dropped(w))
      BY <3>6, <3>7, <3>8, <3>9, <3>10 DEF Balance
    <3>12. /\ Cardinality(Carried(w)) \in Nat /\ Cardinality(InSlots(w)) \in Nat
           /\ refs'[w] = refs[w]
      BY <3>1, FS_CardinalityType
    <3>. QED  BY <3>1, <3>2, <3>6, <3>7, <3>11, <3>12
  <2>2. IsFiniteSet({w \in Values : life'[w] = "live"})
    <3>1. IsFiniteSet({w \in Values : life[w] = "live"})
      BY DEF Inv, Counted
    <3>2. {w \in Values : life'[w] = "live"} \subseteq {w \in Values : life[w] = "live"}
      BY DEF TypeOK
    <3>. QED  BY <3>1, <3>2, FS_Subset
  <2>3. refs' \in [Values -> Int]
    BY DEF TypeOK
  <2>. QED  BY <2>1, <2>2, <2>3, Recounted
<1>13. InOnePlace'
  <2>1. \A k \in 1..Len(fs) : fs[k].cbs = <<>>
    BY <1>8
  <2>. QED  BY <1>2, <1>4, <1>8, <1>9, <2>1, Unmoved DEF Inv
<1>14. TypeOK'
  <2>1. value' \in [Values -> SUBSET Handles]
    BY DEF TypeOK
  <2>2. life' \in [Values -> {"new", "live", "destroyed"}]
    BY DEF TypeOK
  <2>. QED  BY <1>9, <2>1, <2>2 DEF TypeOK
<1>. QED  BY <1>10, <1>11, <1>12, <1>13, <1>14 DEF Inv

-----------------------------------------------------------------------------
(* The invariant.                                                          *)

LEMMA InitHolds == Init => TypeOK /\ Inv
<1>. SUFFICES ASSUME Init PROVE TypeOK /\ Inv
  OBVIOUS
<1>1. TypeOK
  BY EmptySeq DEF Init, TypeOK
<1>2. \A th \in Threads : Depth(th) = 0 /\ stack[th] = <<>> /\ 1..Depth(th) = {}
  BY EmptySeq DEF Init, Depth
<1>3. AllFit /\ UsesAreBacked
  BY <1>2 DEF AllFit, UsesAreBacked
<1>4. DestroyedOnce
  BY <1>2 DEF Init, DestroyedOnce
<1>5. Counted
  <2>1. \A v \in Values : InSlots(v) = {}
    BY HandlesAssumption DEF Init, InSlots, Invalid
  <2>2. \A v \in Values : Carried(v) = {} /\ Stored(v) = {}
    BY DEF Init, Carried, Stored
  <2>3. Activations = {}
    BY <1>2 DEF Activations
  <2>4. \A v \in Values : Dropped(v) = {}
    BY <2>3 DEF Dropped
  <2>5. {v \in Values : life[v] = "live"} = {}
    BY DEF Init
  <2>6. IsFiniteSet({}) /\ Cardinality({}) = 0
    BY FS_EmptySet
  <2>7. \A v \in Values : refs[v] = 0
    BY DEF Init
  <2>8. ASSUME NEW v \in Values
        PROVE  /\ IsFiniteSet(InSlots(v)) /\ IsFiniteSet(Carried(v))
               /\ IsFiniteSet(Stored(v)) /\ IsFiniteSet(Dropped(v))
               /\ refs[v] = Cardinality(InSlots(v)) + Cardinality(Carried(v))
                            + Cardinality(Stored(v)) + Cardinality(Dropped(v))
    <3>1. InSlots(v) = {} /\ Carried(v) = {} /\ Stored(v) = {} /\ Dropped(v) = {} /\ refs[v] = 0
      BY <2>1, <2>2, <2>4, <2>7
    <3>2. 0 = Cardinality({}) + Cardinality({}) + Cardinality({}) + Cardinality({})
      BY <2>6
    <3>. QED  BY <2>6, <3>1, <3>2
  <2>9. IsFiniteSet({v \in Values : life[v] = "live"})
    BY <2>5, <2>6
  <2>. QED  BY <2>8, <2>9 DEF Counted, CountIsExact, InSlots
<1>6. InOnePlace
  <2>1. \A z \in Places : Held(z) = {}
    BY <1>2, PlaceIs, Short DEF Init
  <2>2. \A v \in Values : Distinct(queue[v])
    BY Short DEF Init
  <2>. QED  BY <1>2, <2>1, <2>2 DEF Init, InOnePlace
<1>. QED  BY <1>1, <1>3, <1>4, <1>5, <1>6 DEF Inv

LEMMA UseKeeps ==
  ASSUME TypeOK, Inv, NEW th \in Threads, Use(th)
  PROVE  TypeOK' /\ Inv'
<1>1. Acts(th)
  BY DEF Use
<1>2. ASSUME NEW s \in Slots, NEW v \in Values, MakePromise(th, s, v)
      PROVE  TypeOK' /\ Inv'
  <2>1. PICK h : h = [kind |-> "promise", of |-> v]
    OBVIOUS
  <2>2. h \in Handles \cup {Invalid} /\ h.of = v
    BY <2>1 DEF Handles
  <2>3. /\ Assign(th, s, h) /\ UNCHANGED <<program, ready, value, queue, carries, fate>>
        /\ life[v] = "new" /\ life' = [life EXCEPT ![v] = "live"]
    BY <1>2, <2>1 DEF MakePromise
  <2>. QED  BY <1>1, <2>2, <2>3, AssignKeeps
<1>3. ASSUME NEW s \in Slots, NEW h \in CopiesAtHand(th), CopyHandle(th, s, h)
      PROVE  TypeOK' /\ Inv'
  <2>1. h \in Handles /\ refs[h.of] # 0
    BY AtHandIs
  <2>2. /\ Assign(th, s, h) /\ UNCHANGED <<program, ready, value, queue, carries, fate>> /\ life' = life
    BY <1>3 DEF CopyHandle, valueVars
  <2>. QED  BY <1>1, <2>1, <2>2, AssignKeeps
<1>4. ASSUME NEW s \in Slots, DropHandle(th, s)
      PROVE  TypeOK' /\ Inv'
  <2>1. PICK h : h = Invalid
    OBVIOUS
  <2>2. h \in Handles \cup {Invalid} /\ h \notin Handles
    BY <2>1, HandlesAssumption DEF Handles, Invalid
  <2>3. /\ Assign(th, s, h) /\ UNCHANGED <<program, ready, value, queue, carries, fate>> /\ life' = life
    BY <1>4, <2>1 DEF DropHandle, valueVars
  <2>. QED  BY <1>1, <2>2, <2>3, AssignKeeps
<1>5. ASSUME NEW h \in AtHand(th), NEW s \in Slots \cup {None}, Via(th, h, s),
             CallGet(th, h, s) \/ \E hs \in SUBSET CopiesAtHand(th) : CallSet(th, h, s, hs)
      PROVE  TypeOK' /\ Inv'
  BY <1>1, <1>5, CallSetKeeps, CallGetKeeps
<1>6. ASSUME NEW h \in AtHand(th), NEW s \in Slots \cup {None}, Via(th, h, s),
             NEW cb \in Callbacks, NEW hs \in SUBSET CopiesAtHand(th),
             CallNotify(th, h, s, cb, hs)
      PROVE  TypeOK' /\ Inv'
  BY <1>1, <1>6, CallNotifyKeeps
<1>. QED  BY <1>2, <1>3, <1>4, <1>5, <1>6 DEF Use

LEMMA TakeResultKeeps ==
  ASSUME TypeOK, Inv, NEW th \in Threads, TakeResult(th)
  PROVE  TypeOK' /\ Inv'
<1>1. In(th, "result")
  BY DEF TakeResult
<1>2. PICK s \in Slots, g \in Top(th).drops : \E h \in Copies(g) : CopyHandle(th, s, h)
  BY DEF TakeResult
<1>3. PICK h \in Copies(g) : CopyHandle(th, s, h)
  BY <1>2
<1>4. Top(th) = At(<<th, Depth(th)>>) /\ Top(th) \in Frames /\ Depth(th) \in 1..Depth(th)
  BY <1>1, Inside DEF Inv
<1>5. g \in Handles /\ g.of \in Values
  <2>1. g \in Handles
    BY <1>4 DEF Frames
  <2>. QED  BY <2>1 DEF Handles
<1>6. refs[g.of] # 0
  BY <1>4, <1>5, Handled DEF Inv
<1>7. h \in Handles /\ h.of = g.of
  BY <1>5 DEF Copies, Handles
<1>8. /\ Assign(th, s, h) /\ UNCHANGED <<program, ready, value, queue, carries, fate>>
      /\ life' = life
  BY <1>3 DEF CopyHandle, valueVars
<1>. QED  BY <1>1, <1>6, <1>7, <1>8, AssignKeeps

LEMMA DestroyKeeps ==
  ASSUME TypeOK, Inv, NEW th \in Threads, Destroy(th)
  PROVE  TypeOK' /\ Inv'
<1>1. PICK v : v = Top(th).self
  OBVIOUS
<1>2. In(th, "destroy") /\ UNCHANGED <<program, slot, ready, refs>>
  BY DEF Destroy
<1>3. CASE DeletesNext(th, v)
  BY <1>1, <1>2, <1>3, DeletesNextKeeps
<1>4. CASE /\ queue[v] = <<>> /\ life' = [life EXCEPT ![v] = "destroyed"]
           /\ value' = [value EXCEPT ![v] = {}] /\ Become(th, Releases(value[v]))
           /\ UNCHANGED <<queue, fate, carries>>
  BY <1>1, <1>2, <1>4, DestroyedKeeps
<1>. QED  BY <1>1, <1>3, <1>4 DEF Destroy

LEMMA StutterKeeps ==
  ASSUME TypeOK, Inv, UNCHANGED vars
  PROVE  TypeOK' /\ Inv'
<1>1. UNCHANGED <<program, slot, life, ready, value, queue, refs, carries, fate, stack>>
  BY DEF vars, valueVars
<1>2. TypeOK'
  BY <1>1 DEF TypeOK
<1>3. AllFit' /\ UsesAreBacked' /\ DestroyedOnce'
  BY <1>1 DEF Inv, AllFit, UsesAreBacked, DestroyedOnce, Depth, At, Covers, Dying
<1>4. Counted'
  <2>1. \A v \in Values : /\ InSlots(v)' = InSlots(v) /\ Carried(v)' = Carried(v)
                          /\ Stored(v)' = Stored(v)
    BY <1>1 DEF InSlots, Carried, Stored
  <2>2. Activations' = Activations /\ \A a : At(a)' = At(a)
    BY <1>1 DEF Activations, At
  <2>3. \A v \in Values : Dropped(v)' = Dropped(v)
    BY <2>2 DEF Dropped
  <2>4. IsFiniteSet({v \in Values : life'[v] = "live"}) /\ refs' \in [Values -> Int]
    BY <1>1 DEF Inv, Counted, TypeOK
  <2>5. \A v \in Values :
          /\ IsFiniteSet(InSlots(v)) /\ IsFiniteSet(Carried(v))
          /\ IsFiniteSet(Stored(v)) /\ IsFiniteSet(Dropped(v))
          /\ refs'[v] = Cardinality(InSlots(v)) + Cardinality(Carried(v))
                        + Cardinality(Stored(v)) + Cardinality(Dropped(v))
    BY <1>1 DEF Inv, Counted, CountIsExact, InSlots
  <2>6. \A v \in Values :
          /\ IsFiniteSet(InSlots(v)') /\ IsFiniteSet(Carried(v)')
          /\ IsFiniteSet(Stored(v)') /\ IsFiniteSet(Dropped(v)')
          /\ refs'[v] = Cardinality(InSlots(v)') + Cardinality(Carried(v)')
                        + Cardinality(Stored(v)') + Cardinality(Dropped(v)')
    BY <2>1, <2>3, <2>5
  <2>. QED  BY <2>4, <2>6, Recounted
<1>5. InOnePlace'
  <2>1. \A th \in Threads : /\ Depth(th)' = Depth(th)
                            /\ \A d \in 1..Depth(th) : At(<<th, d>>)' = At(<<th, d>>)
    BY <1>1 DEF Depth, At
  <2>2. \A z \in Places : Held(z)' = Held(z)
    <3>1. \A v \in Values : Held(<<"queue", v>>)' = Held(<<"queue", v>>)
      BY <1>1 DEF Held, Elements
    <3>2. \A th \in Threads, d \in Nat : Held(<<"call", th, d>>)' = Held(<<"call", th, d>>)
      <4>1. \A th \in Threads, d \in Nat :
              /\ Held(<<"call", th, d>>) =
                    IF d \in 1..Depth(th) THEN Elements(At(<<th, d>>).cbs) ELSE {}
              /\ Held(<<"call", th, d>>)' =
                    IF d \in 1..Depth(th)' THEN Elements(At(<<th, d>>)'.cbs) ELSE {}
        BY DEF Held, Elements
      <4>. QED  BY <2>1, <4>1
    <3>. QED  BY <3>1, <3>2, PlaceIs
  <2>3. Places' = Places
    BY DEF Places
  <2>. QED  BY <1>1, <2>1, <2>2, <2>3 DEF Inv, InOnePlace, Distinct
<1>. QED  BY <1>2, <1>3, <1>4, <1>5 DEF Inv

LEMMA NextKeeps == TypeOK /\ Inv /\ [Next]_vars => TypeOK' /\ Inv'
<1>. SUFFICES ASSUME TypeOK, Inv, [Next]_vars PROVE TypeOK' /\ Inv'
  OBVIOUS
<1>1. ASSUME NEW th \in Threads, Use(th) PROVE TypeOK' /\ Inv'
  BY <1>1, UseKeeps
<1>2. ASSUME NEW th \in Threads, Step(th) PROVE TypeOK' /\ Inv'
  BY <1>2, SetKeeps, SwapKeeps, DispatchKeeps, ReturnKeeps, GetKeeps, TakeResultKeeps, NotifyKeeps,
     ReleaseKeeps, DestroyKeeps DEF Step
<1>3. CASE Finished \/ UNCHANGED vars
  BY <1>3, StutterKeeps DEF Finished
<1>. QED  BY <1>1, <1>2, <1>3 DEF Next

\* What the state of the program is at any time, whatever the threads and callbacks do.
THEOREM InvariantHolds == Spec => [](TypeOK /\ Inv)
<1>1. Init => TypeOK /\ Inv
  BY InitHolds
<1>2. TypeOK /\ Inv /\ [Next]_vars => (TypeOK /\ Inv)'
  BY NextKeeps
<1>. QED  BY <1>1, <1>2, PTL DEF Spec

\* The state is of the declared types: no count of handles falls below zero.
THEOREM TypeCorrect == Spec => []TypeOK
BY InvariantHolds, PTL

\* The count of a SharedValue is at any time the number of its handles: in variables, in
\* callbacks, in what values are set to, and in arguments, results and deleted callbacks
\* that are being released (shared_pointer.h, futures.h).
THEOREM CountStaysExact == Spec => []CountIsExact
<1>1. Inv => CountIsExact
  BY DEF Inv, Counted
<1>. QED  BY <1>1, InvariantHolds, PTL

-----------------------------------------------------------------------------
(* Nothing is used after its destruction, and each callback has one owner. *)

LEMMA AnActivation ==
  ASSUME TypeOK, NEW a
  PROVE  a \in Activations <=> \E th \in Threads : \E d \in 1..Depth(th) : a = <<th, d>>
<1>1. \A th \in Threads : DOMAIN stack[th] = 1..Depth(th)
  BY Stacks, LenProperties DEF Depth
<1>2. ASSUME a \in Activations
      PROVE  \E th \in Threads : \E d \in 1..Depth(th) : a = <<th, d>>
  <2>1. PICK th \in Threads : a \in {<<th, d>> : d \in DOMAIN stack[th]}
    BY <1>2 DEF Activations
  <2>. QED  BY <1>1, <2>1
<1>3. ASSUME NEW th \in Threads, NEW d \in 1..Depth(th), a = <<th, d>>
      PROVE  a \in Activations
  <2>1. a \in {<<th, e>> : e \in DOMAIN stack[th]}
    BY <1>1, <1>3
  <2>. QED  BY <2>1 DEF Activations
<1>. QED  BY <1>2, <1>3

LEMMA AtMostOne ==
  ASSUME NEW S, \A a, b \in S : a = b
  PROVE  Cardinality(S) = IF S = {} THEN 0 ELSE 1
<1>1. CASE S = {}
  BY <1>1, FS_EmptySet
<1>2. CASE S # {}
  <2>1. PICK a \in S : TRUE
    BY <1>2
  <2>2. S = {a}
    BY <2>1
  <2>. QED  BY <1>2, <2>2, FS_Singleton
<1>. QED  BY <1>1, <1>2

LEMMA NoUse == TypeOK /\ Inv => NoUseAfterDestroy
<1>. SUFFICES ASSUME TypeOK, Inv, NEW v \in Values PROVE
        LET users == {a \in Activations : At(a).self = v}
            dying == {a \in users : At(a).op = "destroy"}
        IN  life[v] # "live" \/ dying # {} =>
                /\ users = dying /\ Cardinality(dying) <= 1
                /\ life[v] = "live" \/ dying = {}
                /\ refs[v] = 0 /\ \A s \in Slots : slot[s].of # v
  BY DEF NoUseAfterDestroy
<1>. DEFINE users == {a \in Activations : At(a).self = v}
            dying == {a \in users : At(a).op = "destroy"}
<1>1. ASSUME NEW a \in dying
      PROVE  \E th \in Threads : \E d \in 1..Depth(th) : a = <<th, d>> /\ Dying(th, d, v)
  <2>1. a \in Activations /\ At(a).self = v /\ At(a).op = "destroy"
    OBVIOUS
  <2>2. PICK th \in Threads : \E d \in 1..Depth(th) : a = <<th, d>>
    BY <2>1, AnActivation
  <2>3. PICK d \in 1..Depth(th) : a = <<th, d>>
    BY <2>2
  <2>. QED  BY <2>1, <2>3 DEF Dying
<1>2. \A a, b \in dying : a = b
  <2>1. ASSUME NEW a \in dying, NEW b \in dying PROVE a = b
    <3>1. PICK t \in Threads : \E d \in 1..Depth(t) : a = <<t, d>> /\ Dying(t, d, v)
      BY <1>1
    <3>2. PICK d \in 1..Depth(t) : a = <<t, d>> /\ Dying(t, d, v)
      BY <3>1
    <3>3. PICK u \in Threads : \E e \in 1..Depth(u) : b = <<u, e>> /\ Dying(u, e, v)
      BY <1>1
    <3>4. PICK e \in 1..Depth(u) : b = <<u, e>> /\ Dying(u, e, v)
      BY <3>3
    <3>5. t = u /\ d = e
      BY <3>2, <3>4 DEF Inv, DestroyedOnce
    <3>. QED  BY <3>2, <3>4, <3>5
  <2>. QED  BY <2>1
<1>3. dying # {} => life[v] = "live" /\ refs[v] = 0
  BY <1>1 DEF Inv, DestroyedOnce
<1>4. life[v] # "live" => refs[v] = 0
  BY DEF Inv, DestroyedOnce
<1>5. ASSUME refs[v] = 0, NEW a \in users PROVE a \in dying
  <2>1. a \in Activations /\ At(a).self = v
    OBVIOUS
  <2>2. PICK th \in Threads : \E d \in 1..Depth(th) : a = <<th, d>>
    BY <2>1, AnActivation
  <2>3. PICK d \in 1..Depth(th) : a = <<th, d>>
    BY <2>2
  <2>4. At(a).op \notin Uses
    BY <1>5, <2>1, <2>3, UsedIsLive
  <2>5. Fits(At(a))
    BY <2>3 DEF Inv, AllFit
  <2>6. At(a).op = "destroy"
    BY <2>1, <2>4, <2>5, HandlesAssumption DEF Fits
  <2>. QED  BY <2>6
<1>6. refs[v] = 0 => \A s \in Slots : slot[s].of # v
  BY Handled DEF Inv
<1>7. Cardinality(dying) <= 1
  BY <1>2, AtMostOne
<1>. HIDE DEF users, dying
<1>8. life[v] # "live" \/ dying # {} =>
        /\ users = dying /\ Cardinality(dying) <= 1
        /\ life[v] = "live" \/ dying = {}
        /\ refs[v] = 0 /\ \A s \in Slots : slot[s].of # v
  <2>1. dying \subseteq users
    BY DEF dying
  <2>. QED  BY <1>3, <1>4, <1>5, <1>6, <1>7, <2>1
<1>. QED  BY <1>8 DEF users, dying

\* No thread goes on to touch a SharedValue whose destruction has begun, no handle of
\* it is left, and its destructor runs once (futures.h:121-128, 151-155).
THEOREM NothingUsedAfterDestroy == Spec => []NoUseAfterDestroy
BY NoUse, InvariantHolds, PTL

LEMMA Owned == TypeOK /\ Inv => OneOwner
<1>. SUFFICES ASSUME TypeOK, Inv, NEW cb \in Callbacks PROVE
        LET queued  == {v \in Values : life[v] = "live" /\ \E i \in DOMAIN queue[v] : queue[v][i] = cb}
            inCalls == {a \in Activations : \E i \in DOMAIN At(a).cbs : At(a).cbs[i] = cb}
        IN  Cardinality(queued) + Cardinality(inCalls) = IF fate[cb] = "kept" THEN 1 ELSE 0
  BY DEF OneOwner
<1>. DEFINE queued  == {v \in Values : life[v] = "live" /\ \E i \in DOMAIN queue[v] : queue[v][i] = cb}
            inCalls == {a \in Activations : \E i \in DOMAIN At(a).cbs : At(a).cbs[i] = cb}
<1>1. \A v \in Values : v \in queued <=> cb \in Held(<<"queue", v>>)
  <2>1. ASSUME NEW v \in Values
        PROVE  v \in queued <=> cb \in Held(<<"queue", v>>)
    <3>1. queue[v] \in Seq(Callbacks)
      BY DEF TypeOK
    <3>2. DOMAIN queue[v] = 1..Len(queue[v])
      BY <3>1, LenProperties
    <3>3. life[v] # "live" => queue[v] = <<>>
      BY DEF Inv, DestroyedOnce
    <3>4. (\E i \in DOMAIN queue[v] : queue[v][i] = cb) <=> cb \in Elements(queue[v])
      BY <3>2 DEF Elements
    <3>5. cb \in Elements(queue[v]) => life[v] = "live"
      BY <3>3, Short
    <3>. QED  BY <3>4, <3>5, PlaceIs
  <2>. QED  BY <2>1
<1>2. \A th \in Threads, d \in Nat : <<th, d>> \in inCalls <=> cb \in Held(<<"call", th, d>>)
  <2>1. ASSUME NEW th \in Threads, NEW d \in Nat
        PROVE  <<th, d>> \in inCalls <=> cb \in Held(<<"call", th, d>>)
    <3>1. <<th, d>> \in Activations <=> d \in 1..Depth(th)
      <4>1. \A a : a \in Activations <=> \E u \in Threads : \E e \in 1..Depth(u) : a = <<u, e>>
        BY AnActivation
      <4>. QED  BY <4>1
    <3>2. ASSUME d \in 1..Depth(th)
          PROVE  DOMAIN At(<<th, d>>).cbs = 1..Len(At(<<th, d>>).cbs)
      <4>1. At(<<th, d>>).cbs \in Seq(Callbacks)
        BY <3>2, Stacks DEF Frames
      <4>. QED  BY <4>1, LenProperties
    <3>3. Held(<<"call", th, d>>) = IF d \in 1..Depth(th) THEN Elements(At(<<th, d>>).cbs) ELSE {}
      BY PlaceIs
    <3>4. CASE d \in 1..Depth(th)
      <4>1. (\E i \in DOMAIN At(<<th, d>>).cbs : At(<<th, d>>).cbs[i] = cb)
               <=> cb \in Elements(At(<<th, d>>).cbs)
        BY <3>2, <3>4 DEF Elements
      <4>. QED  BY <3>1, <3>3, <3>4, <4>1
    <3>5. CASE d \notin 1..Depth(th)
      BY <3>1, <3>3, <3>5
    <3>. QED  BY <3>4, <3>5
  <2>. QED  BY <2>1
<1>3. \A a \in inCalls : \E th \in Threads, d \in Nat : a = <<th, d>>
  <2>1. \A a \in Activations : \E th \in Threads : \E d \in 1..Depth(th) : a = <<th, d>>
    BY AnActivation
  <2>2. \A th \in Threads : \A d \in 1..Depth(th) : d \in Nat
    OBVIOUS
  <2>. QED  BY <2>1, <2>2
<1>4. \A x, y \in Places : cb \in Held(x) /\ cb \in Held(y) => x = y
  BY DEF Inv, InOnePlace
<1>5. fate[cb] = "kept" <=> \E x \in Places : cb \in Held(x)
  BY DEF Inv, InOnePlace
<1>6. queued \subseteq Values
  OBVIOUS
<1>. HIDE DEF queued, inCalls
<1>7. \A v, w \in queued : v = w
  <2>1. ASSUME NEW v \in queued, NEW w \in queued PROVE v = w
    <3>1. /\ <<"queue", v>> \in Places /\ cb \in Held(<<"queue", v>>)
          /\ <<"queue", w>> \in Places /\ cb \in Held(<<"queue", w>>)
      BY <1>1, <1>6, PlaceIs
    <3>2. <<"queue", v>> = <<"queue", w>>
      BY <1>4, <3>1
    <3>. QED  BY <3>2
  <2>. QED  BY <2>1
<1>8. \A a, b \in inCalls : a = b
  <2>1. ASSUME NEW a \in inCalls, NEW b \in inCalls PROVE a = b
    <3>1. PICK t \in Threads, d \in Nat : a = <<t, d>>
      BY <1>3
    <3>2. PICK u \in Threads, e \in Nat : b = <<u, e>>
      BY <1>3
    <3>3. /\ <<"call", t, d>> \in Places /\ cb \in Held(<<"call", t, d>>)
          /\ <<"call", u, e>> \in Places /\ cb \in Held(<<"call", u, e>>)
      BY <1>2, <3>1, <3>2, PlaceIs
    <3>4. <<"call", t, d>> = <<"call", u, e>>
      BY <1>4, <3>3
    <3>. QED  BY <3>1, <3>2, <3>4
  <2>. QED  BY <2>1
<1>9. queued = {} \/ inCalls = {}
  <2>1. ASSUME NEW v \in queued, NEW a \in inCalls PROVE FALSE
    <3>1. PICK t \in Threads, d \in Nat : a = <<t, d>>
      BY <1>3
    <3>2. /\ <<"call", t, d>> \in Places /\ cb \in Held(<<"call", t, d>>)
          /\ <<"queue", v>> \in Places /\ cb \in Held(<<"queue", v>>)
      BY <1>1, <1>2, <1>6, <3>1, PlaceIs
    <3>3. <<"call", t, d>> = <<"queue", v>>
      BY <1>4, <3>2
    <3>. QED  BY <3>3
  <2>. QED  BY <2>1
<1>10. fate[cb] = "kept" <=> queued # {} \/ inCalls # {}
  <2>1. ASSUME NEW x \in Places, cb \in Held(x) PROVE queued # {} \/ inCalls # {}
    <3>1. CASE \E v \in Values : x = <<"queue", v>>
      BY <1>1, <2>1, <3>1
    <3>2. CASE \E th \in Threads, d \in Nat : x = <<"call", th, d>>
      BY <1>2, <2>1, <3>2
    <3>. QED  BY <3>1, <3>2, PlaceIs
  <2>2. ASSUME NEW v \in queued PROVE \E x \in Places : cb \in Held(x)
    BY <1>1, <1>6, PlaceIs
  <2>3. ASSUME NEW a \in inCalls PROVE \E x \in Places : cb \in Held(x)
    <3>1. PICK t \in Threads, d \in Nat : a = <<t, d>>
      BY <1>3
    <3>2. <<"call", t, d>> \in Places /\ cb \in Held(<<"call", t, d>>)
      BY <1>2, <3>1, PlaceIs
    <3>. QED  BY <3>2
  <2>. QED  BY <1>5, <2>1, <2>2, <2>3
<1>11. Cardinality(queued) = IF queued = {} THEN 0 ELSE 1
  BY <1>7, AtMostOne
<1>12. Cardinality(inCalls) = IF inCalls = {} THEN 0 ELSE 1
  BY <1>8, AtMostOne
<1>13. Cardinality(queued) + Cardinality(inCalls) = IF fate[cb] = "kept" THEN 1 ELSE 0
  BY <1>9, <1>10, <1>11, <1>12
<1>. QED  BY <1>13 DEF queued, inCalls

\* Every callback that was handed over is in one queue of a live value or in one call,
\* until it is deleted: none is lost and none is deleted twice (futures.h:95-161).
THEOREM EveryCallbackHasOneOwner == Spec => []OneOwner
BY Owned, InvariantHolds, PTL

-----------------------------------------------------------------------------
(* What nobody can get at.  A leaked value is held by what another one, or *)
(* itself, is set to, or by a callback queued there, and so on backwards;  *)
(* as the leaked values are finite in number, the way back ends in a       *)
(* circle.                                                                 *)

LEMMA Reached ==
  /\ \A R : \A v \in R \cap Values : v \in Reach(R)
  /\ \A R : \A u \in Reach(R) : \A v \in Next_(u) \cap Values : v \in Reach(R)
  /\ \A R : \A u \in Reach(R) : Reach({u}) \subseteq Reach(R)
BY DEF Reach

LEMMA Behinds ==
  ASSUME NEW s \in Seq(Callbacks), NEW cb \in Elements(s), NEW h \in carries[cb]
  PROVE  h.of \in Behind(ToSet(s))
<1>1. cb \in ToSet(s)
  BY LenProperties DEF ToSet, Elements
<1>. QED  BY <1>1 DEF Behind

\* What variables, calls and what these have in hand refer to.
LEMMA Rooted ==
  ASSUME TypeOK, NEW v \in Values,
         \/ \E s \in Slots : slot[s].of = v
         \/ \E a \in Activations : \/ At(a).self = v
                                   \/ \E h \in At(a).drops : h.of = v
                                   \/ v \in Behind(ToSet(At(a).cbs))
  PROVE  v \in Reach(Roots)
<1>1. v # None
  BY HandlesAssumption
<1>2. v \in Roots
  BY <1>1 DEF Roots
<1>. QED  BY <1>2, Reached

\* Where the handle of a leaked value is.
LEMMA HeldByLeaked ==
  ASSUME TypeOK, Inv, NEW v \in Leaked
  PROVE  \E u \in Leaked : v \in Next_(u)
<1>1. v \in Values /\ life[v] = "live" /\ v \notin Reach(Roots)
  BY DEF Leaked
<1>2. ASSUME NEW th \in Threads, NEW d \in 1..Depth(th), At(<<th, d>>).self = v
      PROVE  FALSE
  <2>1. <<th, d>> \in Activations
    BY AnActivation
  <2>. QED  BY <1>1, <1>2, <2>1, Rooted
<1>3. refs[v] # 0
  BY <1>1, <1>2 DEF Inv, DestroyedOnce, Dying
<1>4. InSlots(v) = {}
  BY <1>1, Rooted DEF InSlots
<1>5. Dropped(v) = {}
  BY <1>1, Rooted DEF Dropped
<1>6. Carried(v) # {} \/ Stored(v) # {}
  BY <1>1, <1>3, <1>4, <1>5, Counts DEF Inv
<1>7. ASSUME NEW u \in Values, life[u] = "live", v \in Next_(u)
      PROVE  \E w \in Leaked : v \in Next_(w)
  <2>1. u \notin Reach(Roots)
    BY <1>1, <1>7, Reached
  <2>. QED  BY <1>7, <2>1 DEF Leaked
<1>8. CASE Stored(v) # {}
  <2>1. PICK u \in Values : \E h \in value[u] : h.of = v
    BY <1>8 DEF Stored
  <2>2. life[u] = "live"
    BY <2>1 DEF Inv, DestroyedOnce
  <2>3. v \in Next_(u)
    BY <2>1 DEF Next_
  <2>. QED  BY <1>7, <2>2, <2>3
<1>9. CASE Carried(v) # {}
  <2>1. PICK cb \in Callbacks : \E h \in carries[cb] : h.of = v
    BY <1>9 DEF Carried
  <2>2. PICK h \in carries[cb] : h.of = v
    BY <2>1
  <2>3. fate[cb] = "kept"
    BY <2>2 DEF Inv, InOnePlace
  <2>4. PICK x \in Places : cb \in Held(x)
    BY <2>3 DEF Inv, InOnePlace
  <2>5. ASSUME NEW th \in Threads, NEW d \in Nat, x = <<"call", th, d>> PROVE FALSE
    <3>1. d \in 1..Depth(th) /\ cb \in Elements(At(<<th, d>>).cbs)
      BY <2>4, <2>5, PlaceIs
    <3>2. At(<<th, d>>).cbs \in Seq(Callbacks)
      BY <3>1, Stacks DEF Frames
    <3>3. v \in Behind(ToSet(At(<<th, d>>).cbs))
      BY <2>2, <3>1, <3>2, Behinds
    <3>4. <<th, d>> \in Activations
      BY <3>1, AnActivation
    <3>. QED  BY <1>1, <3>3, <3>4, Rooted
  <2>6. PICK u \in Values : x = <<"queue", u>>
    BY <2>4, <2>5, PlaceIs
  <2>7. cb \in Elements(queue[u]) /\ queue[u] \in Seq(Callbacks)
    BY <2>4, <2>6, PlaceIs DEF TypeOK
  <2>8. v \in Next_(u)
    BY <2>2, <2>7, Behinds DEF Next_
  <2>9. queue[u] # <<>>
    BY <2>7, Short
  <2>10. life[u] = "live"
    BY <2>9 DEF Inv, DestroyedOnce
  <2>. QED  BY <1>7, <2>8, <2>10
<1>. QED  BY <1>6, <1>8, <1>9

\* The leaked values one of which leads to v; fewer of them as one goes back from v,
\* unless v is in a circle.
LeadTo(v) == {y \in Leaked : v \in Reach({y})}

LEMMA Earliest ==
  ASSUME IsFiniteSet(Leaked), NEW v \in Leaked
  PROVE  \E x \in LeadTo(v) : \A y \in LeadTo(v) : LeadTo(y) \subseteq LeadTo(x) =>
            LeadTo(y) = LeadTo(x)
<1>. DEFINE T == {LeadTo(x) : x \in LeadTo(v)}
<1>1. IsWellFoundedOn(StrictSubsetOrdering(Leaked), SUBSET Leaked)
  BY FS_StrictSubsetOrderingWellFounded, FS_FiniteSubsetsOfFinite
<1>2. v \in LeadTo(v)
  BY Reached DEF LeadTo, Leaked
<1>3. T \subseteq SUBSET Leaked /\ T # {}
  <2>1. \A x : LeadTo(x) \subseteq Leaked
    BY DEF LeadTo
  <2>. QED  BY <1>2, <2>1
<1>. HIDE DEF T
<1>4. PICK A \in T : \A B \in T : ~(<<B, A>> \in StrictSubsetOrdering(Leaked))
  BY <1>1, <1>3, WFMin
<1>5. \A B \in T : B \subseteq A => B = A
  BY <1>3, <1>4 DEF StrictSubsetOrdering
<1>6. PICK x \in LeadTo(v) : A = LeadTo(x)
  BY DEF T
<1>7. \A y \in LeadTo(v) : LeadTo(y) \in T
  BY DEF T
<1>. QED  BY <1>5, <1>6, <1>7

LEMMA Circles == TypeOK /\ Inv => LeaksAreCycles
<1>. SUFFICES ASSUME TypeOK, Inv, NEW v \in Leaked
              PROVE  \E u \in Leaked : u \in Reach(Next_(u)) /\ v \in Reach({u})
  BY DEF LeaksAreCycles
<1>1. IsFiniteSet(Leaked)
  <2>1. Leaked \subseteq {w \in Values : life[w] = "live"}
    BY DEF Leaked
  <2>. QED  BY <2>1, FS_Subset DEF Inv, Counted
<1>2. PICK x \in LeadTo(v) : \A y \in LeadTo(v) : LeadTo(y) \subseteq LeadTo(x) =>
         LeadTo(y) = LeadTo(x)
  BY <1>1, Earliest
<1>3. x \in Leaked /\ x \in Values /\ v \in Reach({x})
  BY DEF LeadTo, Leaked
<1>4. PICK u \in Leaked : x \in Next_(u)
  BY <1>3, HeldByLeaked
<1>5. u \in Values
  BY DEF Leaked
<1>6. x \in Reach({u})
  BY <1>3, <1>4, <1>5, Reached
<1>7. v \in Reach({u}) /\ u \in LeadTo(v)
  BY <1>3, <1>6, Reached DEF LeadTo
<1>8. LeadTo(u) \subseteq LeadTo(x)
  BY <1>3, <1>4, Reached DEF LeadTo
<1>9. LeadTo(u) = LeadTo(x)
  BY <1>2, <1>7, <1>8
<1>10. x \in LeadTo(x)
  BY <1>3, Reached DEF LeadTo
<1>11. u \in Reach({x})
  BY <1>9, <1>10 DEF LeadTo
<1>12. x \in Reach(Next_(u))
  BY <1>3, <1>4, Reached
<1>13. u \in Reach(Next_(u))
  BY <1>11, <1>12, Reached
<1>. QED  BY <1>4, <1>7, <1>13

\* A live SharedValue that nobody can get at hangs on a circle of such values, each of
\* which holds a handle of the next one in what it was set to or in a callback of its
\* queue (futures.h:95-161): nothing else leaks.
THEOREM LeaksAreOnlyCycles == Spec => []LeaksAreCycles
BY Circles, InvariantHolds, PTL
==============================================================================

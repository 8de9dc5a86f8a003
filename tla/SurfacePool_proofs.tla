-------------------------- MODULE SurfacePool_proofs --------------------------
(***************************************************************************)
(* Proofs about SurfacePool.  That a checked-out surface belongs to a      *)
(* frame is inductive together with the types and two facts: nothing is    *)
(* left when the movie is closed, and no more frames are queued than       *)
(* frameQueueSem has places.  That a surface is in one frame rests on the  *)
(* converse: the surface of a frame not given back is checked out.         *)
(***************************************************************************)
EXTENDS SurfacePool, FiniteSetTheorems, TLAPS

Elements(s) == {s[i] : i \in 1..Len(s)}

ClosedIsEmpty ==
  ~playing => pool = {} /\ frames = <<>> /\ fresh = None /\ shown = None
QueueIsBounded == Len(frames) <= VideoPacketBufferSize
GivenIsShown == given => shown # None

PoolInv ==
  /\ TypeOK
  /\ ClosedIsEmpty
  /\ QueueIsBounded
  /\ GivenIsShown
  /\ OutBelongsToAFrame
  /\ NothingIsLost
  /\ PoolIsBounded

\* The empty queue is a queue of any pool.
LEMMA EmptyQueue == \A S : <<>> \in Seq(S) /\ Len(<<>>) = 0
OBVIOUS

\* A longer sequence has one element more, a shorter one its head less.
LEMMA ElementsOfAppend ==
  ASSUME NEW S, NEW s \in Seq(S), NEW x
  PROVE  Elements(Append(s, x)) = Elements(s) \cup {x}
BY DEF Elements

LEMMA ElementsOfTail ==
  ASSUME NEW S, NEW s \in Seq(S), s # <<>>
  PROVE  Elements(s) = {Head(s)} \cup Elements(Tail(s))
<1>1. \A i \in 1..Len(Tail(s)) : Tail(s)[i] = s[i + 1] /\ i + 1 \in 1..Len(s)
  OBVIOUS
<1>2. \A i \in 1..Len(s) : i = 1 \/ (i - 1 \in 1..Len(Tail(s)) /\ s[i] = Tail(s)[i - 1])
  OBVIOUS
<1>3. Head(s) = s[1] /\ 1 \in 1..Len(s)
  OBVIOUS
<1>4. QED
  BY <1>1, <1>2, <1>3 DEF Elements

\* A sequence has no more elements than its length.
LEMMA ElementsAreFew ==
  ASSUME NEW S, NEW s \in Seq(S)
  PROVE  /\ IsFiniteSet(Elements(s))
         /\ Cardinality(Elements(s)) <= Len(s)
<1> DEFINE f == [i \in 1..Len(s) |-> s[i]]
<1>1. f \in Surjection(1..Len(s), Elements(s))
  BY DEF Surjection, Elements
<1>2. IsFiniteSet(1..Len(s)) /\ Cardinality(1..Len(s)) = Len(s)
  <2>1. Len(s) \in Nat
    OBVIOUS
  <2>2. /\ IsFiniteSet(1..Len(s))
        /\ Cardinality(1..Len(s)) = IF 1 > Len(s) THEN 0 ELSE Len(s) - 1 + 1
    BY <2>1, FS_Interval
  <2>3. QED
    BY <2>1, <2>2
<1> HIDE DEF f
<1>3. /\ IsFiniteSet(Elements(s))
      /\ Cardinality(Elements(s)) <= Cardinality(1..Len(s))
  BY <1>1, <1>2, FS_Surjection, Zenon
<1>4. QED
  BY <1>2, <1>3

\* One element more adds at most one to the size.
LEMMA OneMore ==
  ASSUME NEW S, NEW x, IsFiniteSet(S)
  PROVE  /\ IsFiniteSet(S \cup {x})
         /\ Cardinality(S) \in Nat /\ Cardinality(S \cup {x}) \in Nat
         /\ Cardinality(S \cup {x}) <= Cardinality(S) + 1
<1> DEFINE T == S \cup {x}
<1>1. /\ IsFiniteSet(T)
      /\ Cardinality(T) = IF x \in S THEN Cardinality(S) ELSE Cardinality(S) + 1
  BY FS_AddElement, Zenon
<1>2. Cardinality(S) \in Nat
  BY FS_CardinalityType, Zenon
<1> HIDE DEF T
<1>3. Cardinality(T) \in Nat /\ Cardinality(T) <= Cardinality(S) + 1
  BY <1>1, <1>2
<1>4. QED
  BY <1>1, <1>2, <1>3 DEF T

\* The pool is finite.
LEMMA PoolIsFinite == ASSUME TypeOK PROVE IsFiniteSet(pool) /\ IsFiniteSet(out)
BY SurfaceAssumption, FS_Subset DEF TypeOK

\* While the decoder has no surface at most one more than the queue holds are
\* checked out: the one shown.
LEMMA FewAreOut ==
  ASSUME PoolInv, fresh = None
  PROVE  Cardinality(out) <= VideoPacketBufferSize + 1
<1>1. frames \in Seq(pool) /\ Queued = Elements(frames)
  BY DEF PoolInv, TypeOK, Queued, Elements
<1>2. IsFiniteSet(Queued) /\ Cardinality(Queued) <= Len(frames)
  BY <1>1, ElementsAreFew
<1>3. out \subseteq Queued \cup {shown}
  BY SurfaceAssumption DEF PoolInv, OutBelongsToAFrame, TypeOK
<1>4. /\ IsFiniteSet(Queued \cup {shown})
      /\ Cardinality(Queued \cup {shown}) <= Cardinality(Queued) + 1
  BY <1>2, OneMore
<1>5. Cardinality(out) <= Cardinality(Queued \cup {shown})
  BY <1>3, <1>4, FS_Subset
<1>6. Len(frames) \in Nat /\ Len(frames) <= VideoPacketBufferSize
  BY <1>1 DEF PoolInv, QueueIsBounded
<1>7. Cardinality(Queued) \in Nat /\ Cardinality(Queued \cup {shown}) \in Nat
  BY <1>2, <1>4, FS_CardinalityType
<1>8. Cardinality(out) \in Nat /\ VideoPacketBufferSize \in Nat
  BY PoolIsFinite, FS_CardinalityType, SurfaceAssumption DEF PoolInv
<1>9. QED
  BY <1>2, <1>4, <1>5, <1>6, <1>7, <1>8

LEMMA PoolInit == Init => PoolInv
<1> SUFFICES ASSUME Init PROVE PoolInv
  OBVIOUS
<1>1. Cardinality(pool) = 0
  BY FS_EmptySet DEF Init
<1>2. Queued = {}
  BY DEF Init, Queued
<1>3. TypeOK /\ ClosedIsEmpty /\ GivenIsShown
  BY EmptyQueue DEF Init, TypeOK, ClosedIsEmpty, GivenIsShown
<1>4. QueueIsBounded
  BY SurfaceAssumption DEF Init, QueueIsBounded
<1>5. OutBelongsToAFrame /\ NothingIsLost
  BY DEF Init, OutBelongsToAFrame, NothingIsLost
<1>6. PoolIsBounded
  BY <1>1, SurfaceAssumption DEF PoolIsBounded
<1>7. QED
  BY <1>3, <1>4, <1>5, <1>6 DEF PoolInv

LEMMA PoolStep == PoolInv /\ [Next]_vars => PoolInv'
<1> SUFFICES ASSUME PoolInv, [Next]_vars PROVE PoolInv'
  OBVIOUS
<1> USE SurfaceAssumption
<1>a. /\ TypeOK /\ ClosedIsEmpty /\ QueueIsBounded /\ GivenIsShown
      /\ OutBelongsToAFrame /\ NothingIsLost /\ PoolIsBounded
  BY DEF PoolInv
<1>b. /\ frames \in Seq(pool) /\ out \subseteq pool /\ pool \subseteq Surface
      /\ fresh \in pool \cup {None} /\ shown \in pool \cup {None}
      /\ given \in BOOLEAN /\ playing \in BOOLEAN /\ lost = {}
      /\ early \subseteq Surface
  BY <1>a DEF TypeOK, NothingIsLost
<1>c. Queued = Elements(frames) /\ Queued' = Elements(frames')
  BY DEF Queued, Elements
<1>d. out \subseteq {fresh, shown} \cup Elements(frames)
  BY <1>a, <1>c DEF OutBelongsToAFrame
<1>1. CASE Open
  <2>1. pool = {} /\ frames = <<>> /\ fresh = None /\ shown = None /\ out = {}
    BY <1>1, <1>a, <1>b DEF Open, ClosedIsEmpty
  <2>2. pool' \subseteq Surface /\ Cardinality(pool') = VideoPacketBufferSize
    BY <1>1 DEF Open
  <2>3. UNCHANGED <<out, fresh, frames, shown, given, lost, early>> /\ playing'
    BY <1>1 DEF Open
  <2>4. TypeOK'
    BY <2>1, <2>2, <2>3, <1>b DEF TypeOK
  <2>5. QED
    BY <2>1, <2>2, <2>3, <2>4, <1>a
       DEF PoolInv, ClosedIsEmpty, QueueIsBounded, GivenIsShown, OutBelongsToAFrame,
           NothingIsLost, PoolIsBounded, Queued
<1>2. CASE GetImage
  <2>1. playing /\ fresh = None /\ UNCHANGED <<playing, frames, shown, given, lost>>
    BY <1>2 DEF GetImage
  <2>2. fresh' \in Surface /\ pool' = pool \cup {fresh'} /\ out' = out \cup {fresh'}
    BY <1>2, <1>b DEF GetImage
  <2>3. frames' \in Seq(pool')
    BY <2>1, <2>2, <1>b
  <2>4. TypeOK'
    <3>1. early' \subseteq Surface
      BY <1>2, <1>b, <2>2 DEF GetImage, HandedOutEarly
    <3>2. QED
      BY <2>1, <2>2, <2>3, <3>1, <1>b DEF TypeOK
  <2>5. OutBelongsToAFrame'
    BY <2>1, <2>2, <1>a, <1>b DEF OutBelongsToAFrame, Queued
  <2>6. PoolIsBounded'
    <3>1. IsFiniteSet(pool) /\ Cardinality(pool) \in Nat
      BY <1>a, PoolIsFinite, FS_CardinalityType
    <3>2. CASE pool # out
      <4>1. pool' = pool
        BY <1>2, <2>2, <3>2 DEF GetImage
      <4>2. QED
        BY <4>1, <1>a DEF PoolIsBounded
    <3>3. CASE pool = out
      <4>1. Cardinality(pool) <= VideoPacketBufferSize + 1
        BY <2>1, <3>3, FewAreOut
      <4>2. Cardinality(pool') <= Cardinality(pool) + 1
        BY <2>2, <3>1, OneMore
      <4>3. Cardinality(pool') \in Nat
        BY <2>2, <3>1, OneMore
      <4>4. QED
        BY <4>1, <4>2, <4>3, <3>1 DEF PoolIsBounded
    <3>4. QED
      BY <3>2, <3>3
  <2>7. QED
    BY <2>1, <2>4, <2>5, <2>6, <1>a
       DEF PoolInv, ClosedIsEmpty, QueueIsBounded, GivenIsShown, NothingIsLost
<1>3. CASE PushFrame
  <2>1. /\ fresh # None /\ Len(frames) < VideoPacketBufferSize
        /\ frames' = Append(frames, fresh) /\ fresh' = None
        /\ UNCHANGED <<playing, pool, out, shown, given, lost, early>>
    BY <1>3 DEF PushFrame
  <2>2. frames' \in Seq(pool) /\ Len(frames') <= VideoPacketBufferSize
    BY <2>1, <1>b
  <2>3. Elements(frames') = Elements(frames) \cup {fresh}
    BY <2>1, <1>b, ElementsOfAppend
  <2>4. OutBelongsToAFrame'
    BY <2>1, <2>3, <1>c, <1>d DEF OutBelongsToAFrame
  <2>5. QED
    BY <2>1, <2>2, <2>4, <1>a, <1>b
       DEF PoolInv, TypeOK, ClosedIsEmpty, QueueIsBounded, GivenIsShown,
           NothingIsLost, PoolIsBounded
<1>4. CASE DropFresh
  <2>1. /\ fresh # None /\ out' = out \ {fresh} /\ fresh' = None
        /\ UNCHANGED <<playing, pool, frames, shown, given, lost, early>>
    BY <1>4 DEF DropFresh
  <2>2. OutBelongsToAFrame'
    BY <2>1, <1>c, <1>d DEF OutBelongsToAFrame
  <2>3. QED
    BY <2>1, <2>2, <1>a, <1>b
       DEF PoolInv, TypeOK, ClosedIsEmpty, QueueIsBounded, GivenIsShown,
           NothingIsLost, PoolIsBounded
<1>5. CASE TakeFrame
  <2>1. /\ frames # <<>> /\ shown = None /\ shown' = Head(frames)
        /\ frames' = Tail(frames)
        /\ UNCHANGED <<playing, pool, out, fresh, given, lost, early>>
    BY <1>5 DEF TakeFrame
  <2>2. /\ frames' \in Seq(pool) /\ Len(frames') <= VideoPacketBufferSize
        /\ Head(frames) \in pool
    BY <2>1, <1>a, <1>b DEF QueueIsBounded
  <2>3. Elements(frames) = {shown'} \cup Elements(frames')
    BY <2>1, <1>b, ElementsOfTail
  <2>4. OutBelongsToAFrame'
    BY <2>1, <2>3, <1>b, <1>c, <1>d DEF OutBelongsToAFrame
  <2>5. QED
    BY <2>1, <2>2, <2>4, <1>a, <1>b
       DEF PoolInv, TypeOK, ClosedIsEmpty, QueueIsBounded, GivenIsShown,
           NothingIsLost, PoolIsBounded
<1>6. CASE SkipFrame
  <2>1. /\ frames # <<>> /\ out' = out \ {Head(frames)} /\ frames' = Tail(frames)
        /\ UNCHANGED <<playing, pool, fresh, shown, given, lost, early>>
    BY <1>6 DEF SkipFrame
  <2>2. frames' \in Seq(pool) /\ Len(frames') <= VideoPacketBufferSize
    BY <2>1, <1>a, <1>b DEF QueueIsBounded
  <2>3. Elements(frames) = {Head(frames)} \cup Elements(frames')
    BY <2>1, <1>b, ElementsOfTail
  <2>4. OutBelongsToAFrame'
    BY <2>1, <2>3, <1>c, <1>d DEF OutBelongsToAFrame
  <2>5. QED
    BY <2>1, <2>2, <2>4, <1>a, <1>b
       DEF PoolInv, TypeOK, ClosedIsEmpty, QueueIsBounded, GivenIsShown,
           NothingIsLost, PoolIsBounded
<1>7. CASE GiveImageBack
  <2>1. /\ shown # None /\ out' = out \ {shown} /\ given'
        /\ UNCHANGED <<playing, pool, fresh, frames, shown, lost, early>>
    BY <1>7 DEF GiveImageBack
  <2>2. OutBelongsToAFrame'
    BY <2>1, <1>c, <1>d DEF OutBelongsToAFrame
  <2>3. given' \in BOOLEAN
    BY <1>7 DEF GiveImageBack
  <2>4. QED
    BY <2>1, <2>2, <2>3, <1>a, <1>b
       DEF PoolInv, TypeOK, ClosedIsEmpty, QueueIsBounded, GivenIsShown,
           NothingIsLost, PoolIsBounded
<1>8. CASE DestroyShown
  <2>1. /\ out' = out \ {shown} /\ shown' = None /\ given' = FALSE
        /\ UNCHANGED <<playing, pool, fresh, frames, lost, early>>
    BY <1>8 DEF DestroyShown
  <2>2. OutBelongsToAFrame'
    BY <2>1, <1>c, <1>d DEF OutBelongsToAFrame
  <2>3. QED
    BY <2>1, <2>2, <1>a, <1>b
       DEF PoolInv, TypeOK, ClosedIsEmpty, QueueIsBounded, GivenIsShown,
           NothingIsLost, PoolIsBounded
<1>9. CASE Close
  <2>1. /\ fresh = None /\ shown = None /\ playing' = FALSE
        /\ lost' = lost \cup (out \ Queued)
        /\ pool' = {} /\ out' = {} /\ frames' = <<>> /\ early' = {}
        /\ UNCHANGED <<fresh, shown, given>>
    BY <1>9 DEF Close
  <2>2. lost' = {}
    BY <2>1, <1>a, <1>b DEF OutBelongsToAFrame
  <2>3. Cardinality(pool') = 0
    BY <2>1, FS_EmptySet
  <2>4. TypeOK' /\ ClosedIsEmpty' /\ GivenIsShown'
    BY <2>1, <2>2, <1>a, <1>b, EmptyQueue DEF TypeOK, ClosedIsEmpty, GivenIsShown
  <2>5. QueueIsBounded' /\ PoolIsBounded'
    BY <2>1, <2>3 DEF QueueIsBounded, PoolIsBounded
  <2>6. OutBelongsToAFrame'
    BY <2>1 DEF OutBelongsToAFrame
  <2>7. QED
    BY <2>2, <2>4, <2>5, <2>6 DEF PoolInv, NothingIsLost
<1>10. CASE UNCHANGED vars
  BY <1>10, <1>a, <1>b
     DEF vars, PoolInv, TypeOK, ClosedIsEmpty, QueueIsBounded, GivenIsShown,
         OutBelongsToAFrame, NothingIsLost, PoolIsBounded, Queued
<1>11. QED
  BY <1>1, <1>2, <1>3, <1>4, <1>5, <1>6, <1>7, <1>8, <1>9, <1>10 DEF Next

-----------------------------------------------------------------------------
(* One frame each.  The pool hands out what is not checked out, so it is     *)
(* enough that the surfaces of frames are, and that the one given back stays *)
(* so until the frame is gone, unless it was handed out early.               *)

HeldAreOut ==
  \A s \in Surface \ early :
    fresh = s \/ s \in Queued \/ (shown = s /\ ~given) => s \in out

GivenIsIn == given => shown \notin out \/ shown \in early

FramesInv == HeldAreOut /\ GivenIsIn /\ OneFrameEach

Once(q, s) == \A i, j \in 1..Len(q) : q[i] = s /\ q[j] = s => i = j

\* A surface not in the queue comes into it once,
LEMMA OnceInAppend ==
  ASSUME NEW S, NEW q \in Seq(S), NEW x, NEW s, Once(q, s), x = s => s \notin Elements(q)
  PROVE  Once(Append(q, x), s)
BY DEF Once, Elements

\* and once at its head it is not in the rest.
LEMMA OnceInTail ==
  ASSUME NEW S, NEW q \in Seq(S), q # <<>>, NEW s, Once(q, s)
  PROVE  /\ Once(Tail(q), s)
         /\ Head(q) = s => s \notin Elements(Tail(q))
<1>1. \A i \in 1..Len(Tail(q)) : Tail(q)[i] = q[i + 1] /\ i + 1 \in 1..Len(q)
  OBVIOUS
<1>2. Head(q) = q[1] /\ 1 \in 1..Len(q)
  OBVIOUS
<1>3. Once(Tail(q), s)
  BY <1>1 DEF Once
<1>4. ASSUME Head(q) = s, NEW i \in 1..Len(Tail(q)), Tail(q)[i] = s PROVE FALSE
  BY <1>1, <1>2, <1>4 DEF Once
<1>5. QED
  BY <1>3, <1>4 DEF Elements

LEMMA FramesStep == PoolInv /\ FramesInv /\ [Next]_vars => FramesInv'
<1> SUFFICES ASSUME PoolInv, FramesInv, [Next]_vars PROVE FramesInv'
  OBVIOUS
<1> USE SurfaceAssumption
<1>a. /\ frames \in Seq(pool) /\ out \subseteq pool /\ pool \subseteq Surface
      /\ fresh \in pool \cup {None} /\ shown \in pool \cup {None}
      /\ given \in BOOLEAN /\ (given => shown # None)
      /\ (~playing => pool = {} /\ frames = <<>> /\ fresh = None /\ shown = None)
  BY DEF PoolInv, TypeOK, GivenIsShown, ClosedIsEmpty
<1>b. \A s \in Surface \ early :
        /\ fresh = s \/ s \in Elements(frames) \/ (shown = s /\ ~given) => s \in out
        /\ fresh = s => shown # s /\ s \notin Elements(frames)
        /\ shown = s => s \notin Elements(frames)
        /\ Once(frames, s)
  BY DEF FramesInv, HeldAreOut, OneFrameEach, Queued, Elements, Once
<1>c. given => shown \notin out \/ shown \in early
  BY DEF FramesInv, GivenIsIn
<1>d. SUFFICES /\ \A s \in Surface \ early' :
                    /\ \/ fresh' = s \/ s \in Elements(frames') \/ (shown' = s /\ ~given')
                       => s \in out'
                    /\ fresh' = s => shown' # s /\ s \notin Elements(frames')
                    /\ shown' = s => s \notin Elements(frames')
                    /\ Once(frames', s)
               /\ given' => shown' \notin out' \/ shown' \in early'
  BY DEF FramesInv, HeldAreOut, GivenIsIn, OneFrameEach, Queued, Elements, Once
<1>1. CASE Open
  BY <1>1, <1>a, <1>b, <1>c DEF Open
<1>2. CASE GetImage
  <2>1. /\ fresh = None /\ fresh' \in Surface \ out /\ out' = out \cup {fresh'}
        /\ UNCHANGED <<frames, shown, given>>
        /\ early' = IF given /\ fresh' = shown THEN early \cup {shown} ELSE early
    BY <1>2, <1>a DEF GetImage, HandedOutEarly
  <2>2. ASSUME NEW s \in Surface \ early', fresh' = s
        PROVE  shown' # s /\ s \notin Elements(frames')
    BY <2>1, <2>2, <1>b
  <2>3. QED
    BY <2>1, <2>2, <1>b, <1>c
<1>3. CASE PushFrame
  <2>1. /\ fresh # None /\ frames' = Append(frames, fresh) /\ fresh' = None
        /\ UNCHANGED <<out, shown, given, early>>
    BY <1>3 DEF PushFrame
  <2>2. Elements(frames') = Elements(frames) \cup {fresh}
    BY <2>1, <1>a, ElementsOfAppend
  <2>3. ASSUME NEW s \in Surface \ early' PROVE Once(frames', s)
    BY <2>1, <1>a, <1>b, OnceInAppend
  <2>4. QED
    BY <2>1, <2>2, <2>3, <1>b, <1>c
<1>4. CASE DropFresh
  <2>1. /\ fresh # None /\ out' = out \ {fresh} /\ fresh' = None
        /\ UNCHANGED <<frames, shown, given, early>>
    BY <1>4 DEF DropFresh
  <2>2. QED
    BY <2>1, <1>b, <1>c
<1>5. CASE TakeFrame
  <2>1. /\ frames # <<>> /\ shown = None /\ shown' = Head(frames)
        /\ frames' = Tail(frames) /\ UNCHANGED <<out, fresh, given, early>>
    BY <1>5 DEF TakeFrame
  <2>2. Elements(frames) = {shown'} \cup Elements(frames')
    BY <2>1, <1>a, ElementsOfTail
  <2>3. ASSUME NEW s \in Surface \ early'
        PROVE  Once(frames', s) /\ (shown' = s => s \notin Elements(frames'))
    BY <2>1, <1>a, <1>b, OnceInTail
  <2>4. QED
    BY <2>1, <2>2, <2>3, <1>a, <1>b
<1>6. CASE SkipFrame
  <2>1. /\ frames # <<>> /\ shown = None /\ out' = out \ {Head(frames)}
        /\ frames' = Tail(frames) /\ UNCHANGED <<fresh, shown, given, early>>
    BY <1>6 DEF SkipFrame
  <2>2. Elements(frames) = {Head(frames)} \cup Elements(frames')
    BY <2>1, <1>a, ElementsOfTail
  <2>3. ASSUME NEW s \in Surface \ early'
        PROVE  Once(frames', s) /\ (Head(frames) = s => s \notin Elements(frames'))
    BY <2>1, <1>a, <1>b, OnceInTail
  <2>4. QED
    BY <2>1, <2>2, <2>3, <1>a, <1>b
<1>7. CASE GiveImageBack
  <2>1. /\ shown # None /\ out' = out \ {shown} /\ given'
        /\ UNCHANGED <<fresh, frames, shown, early>>
    BY <1>7 DEF GiveImageBack
  <2>2. QED
    BY <2>1, <1>b
<1>8. CASE DestroyShown
  <2>1. /\ shown # None /\ out' = out \ {shown} /\ shown' = None /\ ~given'
        /\ UNCHANGED <<fresh, frames, early>>
    BY <1>8 DEF DestroyShown
  <2>2. QED
    BY <2>1, <1>b
<1>9. CASE Close
  <2>1. /\ fresh' = None /\ shown' = None /\ frames' = <<>> /\ ~given'
    BY <1>9, <1>a DEF Close
  <2>2. Elements(frames') = {} /\ \A s : Once(frames', s)
    BY <2>1 DEF Elements, Once
  <2>3. QED
    BY <2>1, <2>2
<1>10. CASE UNCHANGED vars
  BY <1>10, <1>b, <1>c DEF vars
<1>11. QED
  BY <1>1, <1>2, <1>3, <1>4, <1>5, <1>6, <1>7, <1>8, <1>9, <1>10 DEF Next

LEMMA PoolInvariant == Spec => []PoolInv
BY PoolInit, PoolStep, PTL DEF Spec

LEMMA FramesInvariant == Spec => []FramesInv
<1>1. Init => FramesInv
  BY SurfaceAssumption DEF Init, FramesInv, HeldAreOut, GivenIsIn, OneFrameEach, Queued
<1>2. QED
  BY <1>1, FramesStep, PoolInvariant, PTL DEF Spec

\* Over any number of surfaces no surface is in two frames, but for those the
\* pool handed out between the two times update gives them back.
THEOREM OneFrameEachAlways == Spec => []OneFrameEach
BY FramesInvariant, PTL DEF FramesInv

\* A checked-out surface belongs to a frame that has not been given back.
THEOREM OutBelongsToAFrameAlways == Spec => []OutBelongsToAFrame
BY PoolInvariant, PTL DEF PoolInv

\* Destroying the pool frees every surface, for any number of movies.
THEOREM NothingIsLostAlways == Spec => []NothingIsLost
BY PoolInvariant, PTL DEF PoolInv

\* The pool never grows by more than two surfaces, whatever the buffer size.
THEOREM PoolIsBoundedAlways == Spec => []PoolIsBounded
BY PoolInvariant, PTL DEF PoolInv
=============================================================================

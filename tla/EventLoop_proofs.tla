-------------------------- MODULE EventLoop_proofs --------------------------
(***************************************************************************)
(* Proofs about EventLoop.  Every step leaves the events on their way as   *)
(* they are or does to them what EventStream allows; that is the           *)
(* refinement, and with the number of the last event handled it keeps the  *)
(* events numbered in order, all later than that one, which is why a click *)
(* that has been handled answers no wait that begins after it.             *)
(***************************************************************************)
EXTENDS EventLoop, SequenceTheorems, TLAPS

Event == [type : UserTypes \cup {"chunk"}, id : Nat]

QueuesTyped ==
  /\ arrived \in Nat
  /\ sdl \in Seq(Event) /\ fetched \in Seq(Event) /\ local \in Seq(Event)
  /\ inHand \in Seq(Event) /\ Len(inHand) <= 1

-----------------------------------------------------------------------------
(* Sequences *)

LEMMA EmptyIsASeq == \A S : <<>> \in Seq(S) /\ Len(<<>>) = 0
OBVIOUS

LEMMA SingletonIsASeq ==
  ASSUME NEW S, NEW e \in S
  PROVE  <<e>> \in Seq(S) /\ Len(<<e>>) = 1 /\ <<e>>[1] = e
OBVIOUS

LEMMA HeadThenTail ==
  ASSUME NEW S, NEW s \in Seq(S), s # <<>>
  PROVE  <<Head(s)>> \o Tail(s) = s
<1>1. <<Head(s)>> \in Seq(S) /\ Tail(s) \in Seq(S) /\ Len(<<Head(s)>>) = 1
      /\ Len(Tail(s)) = Len(s) - 1 /\ Len(s) \in Nat /\ Len(s) > 0
  BY EmptySeq, HeadTailProperties, SingletonIsASeq
<1>2. \A i \in 1..Len(Tail(s)) : Tail(s)[i] = s[i + 1]
  BY HeadTailProperties
<1>3. <<Head(s)>> \o Tail(s) \in Seq(S) /\ Len(<<Head(s)>> \o Tail(s)) = Len(s)
  BY <1>1, ConcatProperties
<1>4. \A i \in 1..Len(s) : (<<Head(s)>> \o Tail(s))[i] = s[i]
  <2> TAKE i \in 1..Len(s)
  <2>1. (<<Head(s)>> \o Tail(s))[i] = IF i <= 1 THEN <<Head(s)>>[i] ELSE Tail(s)[i - 1]
    BY <1>1, ConcatProperties
  <2>2. CASE i = 1
    BY <2>1, <2>2
  <2>3. CASE i # 1
    BY <2>1, <2>3, <1>1, <1>2
  <2>4. QED
    BY <2>2, <2>3
<1>5. QED
  BY <1>3, <1>4, SeqEqual

LEMMA OneBetween ==
  ASSUME NEW S, NEW s \in Seq(S), NEW t \in Seq(S), t # <<>>
  PROVE  (s \o <<Head(t)>>) \o Tail(t) = s \o t
<1>1. <<Head(t)>> \in Seq(S) /\ Tail(t) \in Seq(S)
  BY HeadTailProperties, SingletonIsASeq
<1>2. (s \o <<Head(t)>>) \o Tail(t) = s \o (<<Head(t)>> \o Tail(t))
  BY <1>1, ConcatAssociative
<1>3. QED
  BY <1>2, HeadThenTail

LEMMA ConcatOfAppend ==
  ASSUME NEW S, NEW s \in Seq(S), NEW t \in Seq(S), NEW e \in S
  PROVE  s \o Append(t, e) = Append(s \o t, e)
<1>1. s \o Append(t, e) = s \o (t \o <<e>>)
  BY AppendIsConcat
<1>2. s \o (t \o <<e>>) = (s \o t) \o <<e>>
  BY ConcatAssociative, SingletonIsASeq
<1>3. (s \o t) \o <<e>> = Append(s \o t, e)
  BY AppendIsConcat, ConcatProperties
<1>4. QED
  BY <1>1, <1>2, <1>3

\* The same for queues of events, under names that keep the leaves below small.
Events == Seq(Event)
Cat(s, t) == s \o t

LEMMA EventsConcat ==
  \A s, t, u \in Events :
    Cat(s, t) \in Events /\ Cat(Cat(s, t), u) = Cat(s, Cat(t, u))
BY ConcatProperties, ConcatAssociative DEF Events, Cat

LEMMA EventsAppend ==
  \A s, t \in Events, e \in Event : Cat(s, Append(t, e)) = Append(Cat(s, t), e)
BY ConcatOfAppend DEF Events, Cat

\* The tail of two queues in a row, the first of which is not empty.
LEMMA TailOfConcat ==
  ASSUME NEW S, NEW s \in Seq(S), NEW t \in Seq(S), s # <<>>
  PROVE  s \o t # <<>> /\ Head(s \o t) = Head(s) /\ Tail(s \o t) = Tail(s) \o t
<1>1. Len(s) \in Nat /\ Len(s) > 0 /\ Len(t) \in Nat
  BY EmptySeq, LenProperties
<1>2. /\ s \o t \in Seq(S) /\ Len(s \o t) = Len(s) + Len(t)
      /\ \A i \in 1..Len(s) + Len(t) :
           (s \o t)[i] = IF i <= Len(s) THEN s[i] ELSE t[i - Len(s)]
  BY ConcatProperties
<1>3. s \o t # <<>>
  BY <1>1, <1>2, EmptyIsASeq
<1>4. Head(s \o t) = Head(s)
  BY <1>1, <1>2
<1>5. /\ Tail(s) \in Seq(S) /\ Len(Tail(s)) = Len(s) - 1
      /\ \A i \in 1..Len(Tail(s)) : Tail(s)[i] = s[i + 1]
  BY HeadTailProperties
<1>6. /\ Tail(s \o t) \in Seq(S) /\ Len(Tail(s \o t)) = Len(s) + Len(t) - 1
      /\ \A i \in 1..Len(Tail(s \o t)) : Tail(s \o t)[i] = (s \o t)[i + 1]
  BY <1>2, <1>3, HeadTailProperties
<1>7. /\ Tail(s) \o t \in Seq(S) /\ Len(Tail(s) \o t) = Len(s) - 1 + Len(t)
      /\ \A i \in 1..Len(s) - 1 + Len(t) :
           (Tail(s) \o t)[i] = IF i <= Len(s) - 1 THEN Tail(s)[i] ELSE t[i - (Len(s) - 1)]
  <2>1. /\ Tail(s) \o t \in Seq(S) /\ Len(Tail(s) \o t) = Len(Tail(s)) + Len(t)
        /\ \A i \in 1..Len(Tail(s)) + Len(t) :
             (Tail(s) \o t)[i] = IF i <= Len(Tail(s)) THEN Tail(s)[i] ELSE t[i - Len(Tail(s))]
    BY <1>5, ConcatProperties
  <2>2. QED
    BY <2>1, <1>5
<1>8. \A i \in 1..Len(s) + Len(t) - 1 : Tail(s \o t)[i] = (Tail(s) \o t)[i]
  <2> TAKE i \in 1..Len(s) + Len(t) - 1
  <2>1. Tail(s \o t)[i] = IF i + 1 <= Len(s) THEN s[i + 1] ELSE t[i + 1 - Len(s)]
    BY <1>1, <1>2, <1>6
  <2>2. i <= Len(s) - 1 => Tail(s)[i] = s[i + 1]
    BY <1>1, <1>5
  <2>3. (Tail(s) \o t)[i] = IF i <= Len(s) - 1 THEN Tail(s)[i] ELSE t[i - (Len(s) - 1)]
    BY <1>1, <1>7
  <2>4. i - (Len(s) - 1) = i + 1 - Len(s) /\ (i + 1 <= Len(s) <=> i <= Len(s) - 1)
    BY <1>1
  <2>5. QED
    BY <2>1, <2>2, <2>3, <2>4
<1>9. Tail(s \o t) = Tail(s) \o t
  BY <1>1, <1>6, <1>7, <1>8, SeqEqual
<1>10. QED
  BY <1>3, <1>4, <1>9

\* The two parts of two queues in a row.
LEMMA PartsOfConcat ==
  ASSUME NEW S, NEW s \in Seq(S), NEW t \in Seq(S)
  PROVE  /\ SubSeq(s \o t, 1, Len(s)) = s
         /\ SubSeq(s \o t, Len(s) + 1, Len(s \o t)) = t
<1>1. Len(s) \in Nat /\ Len(t) \in Nat
  BY LenProperties
<1>2. /\ s \o t \in Seq(S) /\ Len(s \o t) = Len(s) + Len(t)
      /\ \A i \in 1..Len(s) + Len(t) :
           (s \o t)[i] = IF i <= Len(s) THEN s[i] ELSE t[i - Len(s)]
  BY ConcatProperties
<1>3. \A i \in 1..Len(s) + Len(t) : (s \o t)[i] \in S
  BY <1>2, ElementOfSeq
<1>4. SubSeq(s \o t, 1, Len(s)) = s
  <2>1. /\ SubSeq(s \o t, 1, Len(s)) \in Seq(S)
        /\ Len(SubSeq(s \o t, 1, Len(s))) = Len(s)
        /\ \A i \in 1..Len(s) : SubSeq(s \o t, 1, Len(s))[i] = (s \o t)[i]
    BY <1>1, <1>3, SubSeqProperties
  <2>2. \A i \in 1..Len(s) : SubSeq(s \o t, 1, Len(s))[i] = s[i]
    BY <2>1, <1>1, <1>2
  <2>3. QED
    BY <2>1, <2>2, SeqEqual
<1>5. SubSeq(s \o t, Len(s) + 1, Len(s) + Len(t)) = t
  <2> DEFINE r == SubSeq(s \o t, Len(s) + 1, Len(s) + Len(t))
  <2>1. /\ r \in Seq(S)
        /\ Len(r) = Len(t)
        /\ \A i \in 1..Len(t) : r[i] = (s \o t)[Len(s) + i]
    <3>1. \A i \in Len(s) + 1..Len(s) + Len(t) : (s \o t)[i] \in S
      BY <1>1, <1>3
    <3>2. /\ r \in Seq(S)
          /\ Len(r) = IF Len(s) + 1 <= Len(s) + Len(t)
                      THEN Len(s) + Len(t) - (Len(s) + 1) + 1 ELSE 0
          /\ \A i \in 1..Len(s) + Len(t) - (Len(s) + 1) + 1 : r[i] = (s \o t)[Len(s) + 1 + i - 1]
      BY <1>1, <3>1, SubSeqProperties
    <3>3. /\ Len(s) + Len(t) - (Len(s) + 1) + 1 = Len(t)
          /\ Len(s) + 1 <= Len(s) + Len(t) <=> Len(t) # 0
          /\ \A i \in 1..Len(t) : Len(s) + 1 + i - 1 = Len(s) + i
      BY <1>1
    <3> HIDE DEF r
    <3>4. \A i \in 1..Len(t) : r[i] = (s \o t)[Len(s) + i]
      BY <3>2, <3>3
    <3>5. Len(r) = Len(t)
      BY <3>2, <3>3
    <3>6. QED
      BY <3>2, <3>4, <3>5
  <2>2. \A i \in 1..Len(t) : r[i] = t[i]
    <3> HIDE DEF r
    <3> TAKE i \in 1..Len(t)
    <3>1. Len(s) + i \in 1..Len(s) + Len(t) /\ ~(Len(s) + i <= Len(s)) /\ Len(s) + i - Len(s) = i
      BY <1>1
    <3>2. QED
      BY <3>1, <2>1, <1>2
  <2>3. QED
    BY <2>1, <2>2, SeqEqual
<1>6. QED
  BY <1>2, <1>4, <1>5
\* What follows the first n elements of a sequence.
LEMMA SuffixElements ==
  ASSUME NEW S, NEW s \in Seq(S), NEW n \in 1..Len(s)
  PROVE  LET p == SubSeq(s, n + 1, Len(s))
         IN  /\ p \in Seq(S) /\ Len(p) = Len(s) - n /\ DOMAIN p = 1..(Len(s) - n)
             /\ \A i \in 1..(Len(s) - n) : p[i] = s[n + i]
<1> DEFINE p == SubSeq(s, n + 1, Len(s))
<1>1. Len(s) \in Nat /\ \A i \in (n + 1)..Len(s) : s[i] \in S
  BY LenProperties, ElementOfSeq
<1>2. /\ p \in Seq(S)
      /\ Len(p) = IF n + 1 <= Len(s) THEN Len(s) - (n + 1) + 1 ELSE 0
      /\ \A i \in 1..(Len(s) - (n + 1) + 1) : p[i] = s[n + 1 + i - 1]
  BY <1>1, SubSeqProperties
<1> HIDE DEF p
<1>3. Len(p) = Len(s) - n
  BY <1>1, <1>2
<1>4. DOMAIN p = 1..(Len(s) - n)
  BY <1>2, <1>3, LenProperties
<1>5. \A i \in 1..(Len(s) - n) : p[i] = s[n + i]
  <2> TAKE i \in 1..(Len(s) - n)
  <2>1. i \in 1..(Len(s) - (n + 1) + 1) /\ n + 1 + i - 1 = n + i
    BY <1>1
  <2>2. QED
    BY <1>2, <2>1
<1>6. QED
  BY <1>2, <1>3, <1>4, <1>5 DEF p

\* A sequence without its k-th element.
LEMMA CoalescedElements ==
  ASSUME NEW S, NEW s \in Seq(S), NEW k \in 1..(Len(s) - 1)
  PROVE  LET p == SubSeq(s, 1, k - 1) \o SubSeq(s, k + 1, Len(s))
         IN  /\ Len(p) = Len(s) - 1 /\ DOMAIN p = 1..(Len(s) - 1)
             /\ \A i \in 1..(Len(s) - 1) : p[i] = IF i < k THEN s[i] ELSE s[i + 1]
<1>1. Len(s) \in Nat /\ \A i \in 1..Len(s) : s[i] \in S
  BY LenProperties, ElementOfSeq
<1> DEFINE a == SubSeq(s, 1, k - 1)
           b == SubSeq(s, k + 1, Len(s))
           p == a \o b
<1>2. /\ a \in Seq(S) /\ Len(a) = k - 1
      /\ \A i \in 1..(k - 1) : a[i] = s[i]
  <2>1. \A i \in 1..(k - 1) : s[i] \in S
    BY <1>1
  <2>2. /\ a \in Seq(S) /\ Len(a) = IF 1 <= k - 1 THEN k - 1 - 1 + 1 ELSE 0
        /\ \A i \in 1..(k - 1 - 1 + 1) : a[i] = s[1 + i - 1]
    BY <1>1, <2>1, SubSeqProperties
  <2> HIDE DEF a
  <2>3. Len(a) = k - 1
    BY <2>2
  <2>4. \A i \in 1..(k - 1) : a[i] = s[i]
    <3> TAKE i \in 1..(k - 1)
    <3>1. i \in 1..(k - 1 - 1 + 1) /\ 1 + i - 1 = i
      OBVIOUS
    <3>2. QED
      BY <2>2, <3>1
  <2>5. QED
    BY <2>2, <2>3, <2>4
<1>3. b \in Seq(S) /\ Len(b) = Len(s) - k /\ \A i \in 1..(Len(s) - k) : b[i] = s[k + i]
  BY SuffixElements
<1> HIDE DEF a, b
<1>4. /\ p \in Seq(S) /\ Len(p) = Len(a) + Len(b)
      /\ \A i \in 1..(Len(a) + Len(b)) : p[i] = IF i <= Len(a) THEN a[i] ELSE b[i - Len(a)]
  BY <1>2, <1>3, ConcatProperties
<1> HIDE DEF p
<1>5. Len(p) = Len(s) - 1 /\ DOMAIN p = 1..(Len(s) - 1)
  BY <1>1, <1>2, <1>3, <1>4, LenProperties
<1>6. ASSUME NEW i \in 1..(Len(s) - 1)
      PROVE  p[i] = IF i < k THEN s[i] ELSE s[i + 1]
  <2>1. i \in 1..(Len(a) + Len(b)) /\ (i <= Len(a) <=> i < k)
    BY <1>1, <1>2, <1>3
  <2>2. CASE i < k
    BY <2>1, <2>2, <1>2, <1>4
  <2>3. CASE ~(i < k)
    <3>1. i - Len(a) \in 1..(Len(s) - k) /\ k + (i - Len(a)) = i + 1
      BY <2>3, <1>1, <1>2
    <3>2. b[i - Len(a)] = s[i + 1]
      BY <3>1, <1>3
    <3>3. QED
      BY <3>2, <2>1, <2>3, <1>4
  <2>4. QED
    BY <2>2, <2>3
<1>7. QED
  BY <1>5, <1>6 DEF p, a, b

-----------------------------------------------------------------------------
(* What the steps do to the events on their way *)

StreamStep ==
  \/ Pending' = Pending /\ UNCHANGED <<arrived, handled>>
  \/ \E t \in UserTypes \cup {"chunk"} : Stream!Arrive(t) /\ UNCHANGED handled
  \/ Stream!Handle /\ handled' = Head(Pending).id
  \/ \E i \in 1..(Len(Pending) - 1) : Stream!Coalesce(i) /\ UNCHANGED handled
  \/ \E n \in 1..Len(Pending) : Stream!Forget(n) /\ UNCHANGED handled

LEMMA PendingTyped ==
  ASSUME QueuesTyped
  PROVE  /\ local \o fetched \in Seq(Event)
         /\ local \o fetched \o inHand \in Seq(Event)
         /\ Pending \in Seq(Event)
<1>1. local \o fetched \in Seq(Event)
  BY ConcatProperties DEF QueuesTyped
<1>2. local \o fetched \o inHand \in Seq(Event)
  BY <1>1, ConcatProperties DEF QueuesTyped
<1>3. QED
  BY <1>1, <1>2, ConcatProperties DEF QueuesTyped, Pending

\* An event happens: it is the last.
LEMMA HappenAppends ==
  ASSUME QueuesTyped, NEW t \in UserTypes \cup {"chunk"}, Happen(t),
         UNCHANGED <<local, fetched, inHand, handled>>
  PROVE  QueuesTyped' /\ StreamStep /\ Stream!Arrive(t)
<1> DEFINE e == [type |-> t, id |-> arrived + 1]
<1>1. e \in Event
  BY DEF Event, QueuesTyped
<1>2. sdl' = Append(sdl, e) /\ arrived' = arrived + 1
  BY DEF Happen
<1>3. QueuesTyped'
  <2> HIDE DEF e
  <2>1. sdl' \in Seq(Event)
    BY <1>1, <1>2, AppendProperties DEF QueuesTyped
  <2>2. QED
    BY <1>2, <2>1 DEF QueuesTyped
<1>4. Pending' = Append(Pending, e)
  <2> HIDE DEF e
  <2>1. (local \o fetched \o inHand) \o Append(sdl, e)
          = Append((local \o fetched \o inHand) \o sdl, e)
    <3>1. local \o fetched \o inHand \in Events /\ sdl \in Events
      BY PendingTyped DEF QueuesTyped, Events
    <3>2. Cat(local \o fetched \o inHand, Append(sdl, e))
            = Append(Cat(local \o fetched \o inHand, sdl), e)
      BY <1>1, <3>1, EventsAppend
    <3>3. QED
      BY <3>2 DEF Cat
  <2>2. QED
    BY <1>2, <2>1 DEF Pending
<1>5. Stream!Arrive(t)
  BY <1>2, <1>4 DEF Stream!Arrive
<1>6. QED
  BY <1>3, <1>5 DEF StreamStep

\* The oldest event of the list is the oldest on its way.
LEMMA HeadIsPending ==
  ASSUME QueuesTyped, local # <<>>
  PROVE  /\ Pending # <<>> /\ Head(Pending) = Head(local)
         /\ 1 \in DOMAIN Pending /\ 1 \in 1..Len(Pending) /\ Pending[1] = Head(local)
         /\ Tail(Pending) = Tail(local) \o fetched \o inHand \o sdl
<1>1. /\ local \o fetched # <<>> /\ Head(local \o fetched) = Head(local)
      /\ Tail(local \o fetched) = Tail(local) \o fetched
  BY TailOfConcat DEF QueuesTyped
<1>2. /\ local \o fetched \o inHand # <<>> /\ Head(local \o fetched \o inHand) = Head(local)
      /\ Tail(local \o fetched \o inHand) = Tail(local) \o fetched \o inHand
  <2>1. /\ local \o fetched \o inHand # <<>>
        /\ Head(local \o fetched \o inHand) = Head(local \o fetched)
        /\ Tail(local \o fetched \o inHand) = Tail(local \o fetched) \o inHand
    BY <1>1, PendingTyped, TailOfConcat DEF QueuesTyped
  <2>2. QED
    BY <1>1, <2>1
<1>3. /\ Pending # <<>> /\ Head(Pending) = Head(local)
      /\ Tail(Pending) = Tail(local) \o fetched \o inHand \o sdl
  <2>1. /\ local \o fetched \o inHand \o sdl # <<>>
        /\ Head(local \o fetched \o inHand \o sdl) = Head(local \o fetched \o inHand)
        /\ Tail(local \o fetched \o inHand \o sdl) = Tail(local \o fetched \o inHand) \o sdl
    BY <1>2, PendingTyped, TailOfConcat, SMTT(30) DEF QueuesTyped
  <2>2. QED
    BY <1>2, <2>1 DEF Pending
<1>4. Pending \in Seq(Event) /\ Len(Pending) \in Nat /\ Len(Pending) > 0
      /\ DOMAIN Pending = 1..Len(Pending)
  BY <1>3, PendingTyped, EmptySeq, LenProperties
<1>5. Head(Pending) = Pending[1] /\ 1 \in 1..Len(Pending)
  BY <1>4
<1>6. QED
  BY <1>3, <1>4, <1>5, ZenonT(30)

\* The oldest event is popped.
LEMMA PopHandles ==
  ASSUME QueuesTyped, local # <<>>, local' = Tail(local), handled' = Head(local).id,
         UNCHANGED queueVars
  PROVE  QueuesTyped' /\ StreamStep
<1>1. local' \in Seq(Event)
  BY HeadTailProperties DEF QueuesTyped
<1>2. QueuesTyped'
  BY <1>1 DEF QueuesTyped, queueVars
<1>3. Pending' = Tail(Pending) /\ arrived' = arrived
  BY HeadIsPending DEF Pending, queueVars
<1>4. Stream!Handle
  BY <1>3, HeadIsPending DEF Stream!Handle
<1>5. QED
  BY <1>2, <1>4, HeadIsPending DEF StreamStep

\* The event thread moves events without changing their order, but for motions in a row.
LEMMA EventThreadStep ==
  ASSUME QueuesTyped, EventThread
  PROVE  QueuesTyped' /\ StreamStep
<1> DEFINE p == local \o fetched
<1>0. /\ p \in Seq(Event) /\ p \o inHand \in Seq(Event)
      /\ UNCHANGED <<local, arrived, handled>>
  BY PendingTyped DEF EventThread, Fetch, Merge, Peek, PushFetched, inputVars
<1>1. CASE Fetch
  <2>1. /\ sdl # <<>> /\ inHand = <<>> /\ inHand' = <<Head(sdl)>> /\ sdl' = Tail(sdl)
        /\ fetched' = fetched
    BY <1>1 DEF Fetch
  <2>2. /\ Head(sdl) \in Event /\ Tail(sdl) \in Seq(Event)
        /\ <<Head(sdl)>> \in Seq(Event) /\ Len(<<Head(sdl)>>) = 1
    BY <2>1, HeadTailProperties, SingletonIsASeq DEF QueuesTyped
  <2>3. QueuesTyped'
    BY <1>0, <2>1, <2>2 DEF QueuesTyped
  <2>4. (p \o <<Head(sdl)>>) \o Tail(sdl) = p \o sdl
    <3> HIDE DEF p
    <3>1. p \in Seq(Event) /\ sdl \in Seq(Event) /\ sdl # <<>>
      BY <1>0, <2>1 DEF QueuesTyped
    <3>2. QED
      BY <3>1, OneBetween
  <2>5. p \o inHand = p
    BY <1>0, <2>1, ConcatEmptySeq
  <2>6. Pending' = Pending
    BY <1>0, <2>1, <2>4, <2>5 DEF Pending
  <2>7. QED
    BY <1>0, <2>3, <2>6 DEF StreamStep
<1>2. CASE Merge
  <2>1. /\ inHand # <<>> /\ inHand[1].type = "motion"
        /\ sdl # <<>> /\ Head(sdl).type = "motion"
        /\ inHand' = <<Head(sdl)>> /\ sdl' = Tail(sdl) /\ fetched' = fetched
    BY <1>2 DEF Merge, MotionFollows
  <2>2. /\ Head(sdl) \in Event /\ Tail(sdl) \in Seq(Event)
        /\ <<Head(sdl)>> \in Seq(Event) /\ Len(<<Head(sdl)>>) = 1
    BY <2>1, HeadTailProperties, SingletonIsASeq DEF QueuesTyped
  <2>3. QueuesTyped'
    BY <1>0, <2>1, <2>2 DEF QueuesTyped
  <2>4. Len(inHand) = 1 /\ Len(p) \in Nat /\ Len(sdl) \in Nat /\ Len(sdl) > 0
    BY <1>0, <2>1, EmptySeq, LenProperties DEF QueuesTyped
  <2> DEFINE i == Len(p) + 1
  <2>5. /\ Pending = (p \o inHand) \o sdl
        /\ Len(p \o inHand) = i /\ Len(Pending) = i + Len(sdl)
        /\ (p \o inHand)[i] = inHand[1]
        /\ \A k \in 1..Len(Pending) :
             Pending[k] = IF k <= i THEN (p \o inHand)[k] ELSE sdl[k - i]
    <3>1. Pending = (p \o inHand) \o sdl
      BY DEF Pending
    <3>2. /\ Len(p \o inHand) = Len(p) + Len(inHand)
          /\ \A k \in 1..Len(p) + Len(inHand) :
               (p \o inHand)[k] = IF k <= Len(p) THEN p[k] ELSE inHand[k - Len(p)]
      BY <1>0, ConcatProperties DEF QueuesTyped
    <3>3. /\ Len((p \o inHand) \o sdl) = Len(p \o inHand) + Len(sdl)
          /\ \A k \in 1..Len(p \o inHand) + Len(sdl) :
               ((p \o inHand) \o sdl)[k]
                 = IF k <= Len(p \o inHand) THEN (p \o inHand)[k] ELSE sdl[k - Len(p \o inHand)]
      BY <1>0, ConcatProperties DEF QueuesTyped
    <3>4. Len(p \o inHand) = i
      BY <2>4, <3>2
    <3>5. (p \o inHand)[i] = inHand[1]
      <4> HIDE DEF p
      <4>1. i \in 1..Len(p) + Len(inHand) /\ ~(i <= Len(p)) /\ i - Len(p) = 1
        BY <2>4
      <4>2. QED
        BY <3>2, <4>1
    <3>6. QED
      BY <3>1, <3>3, <3>4, <3>5
  <2>6. i \in 1..(Len(Pending) - 1) /\ i - 1 = Len(p)
    <3> HIDE DEF p
    <3>1. QED
      BY <2>4, <2>5
  <2>7. Pending[i].type = "motion" /\ Pending[i + 1].type = "motion"
    <3>1. Head(sdl) = sdl[1]
      BY <2>1 DEF QueuesTyped
    <3> HIDE DEF p
    <3>2. Pending[i] = inHand[1]
      BY <2>4, <2>5
    <3>3. Pending[i + 1] = sdl[1]
      BY <2>4, <2>5
    <3>4. QED
      BY <2>1, <3>1, <3>2, <3>3
  <2>8. SubSeq(Pending, 1, i - 1) = p
    <3>1. Pending = p \o (inHand \o sdl) /\ inHand \o sdl \in Seq(Event)
      <4>1. p \in Events /\ inHand \in Events /\ sdl \in Events
        BY <1>0 DEF QueuesTyped, Events
      <4>2. Pending = (p \o inHand) \o sdl
        BY DEF Pending
      <4> HIDE DEF p
      <4>3. Cat(Cat(p, inHand), sdl) = Cat(p, Cat(inHand, sdl)) /\ Cat(inHand, sdl) \in Events
        BY <4>1, EventsConcat
      <4>4. QED
        BY <4>2, <4>3 DEF Events, Cat
    <3>2. SubSeq(Pending, 1, Len(p)) = p
      BY <1>0, <3>1, PartsOfConcat
    <3>3. QED
      BY <2>6, <3>2
  <2>9. SubSeq(Pending, i + 1, Len(Pending)) = sdl
    <3>1. SubSeq((p \o inHand) \o sdl, Len(p \o inHand) + 1, Len((p \o inHand) \o sdl)) = sdl
      BY <1>0, PartsOfConcat DEF QueuesTyped
    <3>2. QED
      BY <2>5, <3>1
  <2>10. Pending' = p \o sdl
    <3>1. p \in Seq(Event) /\ sdl \in Seq(Event) /\ sdl # <<>>
      BY <1>0, <2>1 DEF QueuesTyped
    <3>2. (p \o <<Head(sdl)>>) \o Tail(sdl) = p \o sdl
      <4> HIDE DEF p
      <4>1. QED
        BY <3>1, OneBetween
    <3>3. QED
      BY <1>0, <2>1, <3>2 DEF Pending
  <2>11. Stream!Coalesce(i)
    BY <1>0, <2>7, <2>8, <2>9, <2>10 DEF Stream!Coalesce
  <2> HIDE DEF i, p
  <2>12. QED
    BY <1>0, <2>3, <2>6, <2>11 DEF StreamStep
<1>3. CASE Peek
  <2>1. UNCHANGED <<sdl, fetched, inHand>>
    BY <1>3 DEF Peek
  <2>2. QED
    BY <1>0, <2>1 DEF QueuesTyped, StreamStep, Pending
<1>4. CASE PushFetched
  <2>1. fetched' = fetched \o inHand /\ inHand' = <<>> /\ sdl' = sdl
    BY <1>4 DEF PushFetched
  <2>2. fetched \o inHand \in Seq(Event)
    BY ConcatProperties DEF QueuesTyped
  <2>3. QueuesTyped'
    BY <1>0, <2>1, <2>2, EmptyIsASeq DEF QueuesTyped
  <2>4. local \o (fetched \o inHand) = p \o inHand
    <3>1. local \in Events /\ fetched \in Events /\ inHand \in Events
      BY DEF QueuesTyped, Events
    <3>2. Cat(local, Cat(fetched, inHand)) = Cat(Cat(local, fetched), inHand)
      BY <3>1, EventsConcat
    <3>3. QED
      BY <3>2 DEF Cat
  <2>5. (p \o inHand) \o <<>> = p \o inHand
    BY <1>0, ConcatEmptySeq
  <2>6. Pending' = Pending
    BY <1>0, <2>1, <2>4, <2>5 DEF Pending
  <2>7. QED
    BY <1>0, <2>3, <2>6 DEF StreamStep
<1>5. QED
  BY <1>1, <1>2, <1>3, <1>4 DEF EventThread
\* updateEventQueue takes the fetched events over, behind those that are there.
LEMMA UpdateKeepsOrder ==
  ASSUME QueuesTyped, UpdateEventQueue, UNCHANGED <<inHand, sdl>>
  PROVE  /\ Updated \in Seq(Event) /\ fetched' \in Seq(Event)
         /\ fetched' \o inHand \o sdl \in Seq(Event)
         /\ Updated \o fetched' \o inHand \o sdl = Pending
         /\ Updated \o (fetched' \o inHand \o sdl) = Pending
<1>1. Updated \in Seq(Event)
  BY PendingTyped DEF QueuesTyped, Updated
<1>2. fetched' \in Seq(Event)
  BY EmptyIsASeq DEF QueuesTyped, UpdateEventQueue
<1>3. Updated \o fetched' = local \o fetched
  <2>1. (local \o fetched) \o <<>> = local \o fetched
    BY PendingTyped, ConcatEmptySeq
  <2>2. QED
    BY <2>1 DEF Updated, UpdateEventQueue
<1> DEFINE u == Updated
           f == fetched'
<1>4. u \in Seq(Event) /\ f \in Seq(Event) /\ inHand \in Seq(Event) /\ sdl \in Seq(Event)
  BY <1>1, <1>2 DEF QueuesTyped
<1>5. u \o f \o inHand \o sdl = Pending
  BY <1>3 DEF Pending
<1> HIDE DEF u, f
<1>6. u \in Events /\ f \in Events /\ inHand \in Events /\ sdl \in Events
  BY <1>4 DEF Events
<1>7. /\ Cat(f, inHand) \in Events /\ Cat(Cat(f, inHand), sdl) \in Events
      /\ Cat(Cat(u, f), inHand) = Cat(u, Cat(f, inHand))
  BY <1>6, EventsConcat
<1>8. u \o (f \o inHand \o sdl) = Pending /\ (f \o inHand) \o sdl \in Seq(Event)
  <2>1. Cat(Cat(u, Cat(f, inHand)), sdl) = Cat(u, Cat(Cat(f, inHand), sdl))
    BY <1>6, <1>7, EventsConcat
  <2>2. Cat(Cat(Cat(u, f), inHand), sdl) = Cat(u, Cat(Cat(f, inHand), sdl))
    BY <1>7, <2>1
  <2>3. u \o (f \o inHand \o sdl) = Pending
    BY <1>5, <2>2 DEF Cat
  <2>4. QED
    BY <1>7, <2>3 DEF Cat, Events
<1>9. QED
  BY <1>4, <1>5, <1>8 DEF u, f

LEMMA BeginBatchStep ==
  ASSUME QueuesTyped, BeginBatch
  PROVE  QueuesTyped' /\ StreamStep
<1>1. /\ UpdateEventQueue /\ local' = Updated
      /\ UNCHANGED <<arrived, sdl, inHand, handled>>
  BY DEF BeginBatch, inputVars
<1>2. QueuesTyped'
  BY <1>1, UpdateKeepsOrder DEF QueuesTyped
<1>3. Pending' = Pending
  BY <1>1, UpdateKeepsOrder DEF Pending
<1>4. QED
  BY <1>1, <1>2, <1>3 DEF StreamStep

\* A reset forgets what was taken over, unless there is a quit in it.
LEMMA ResetStep ==
  ASSUME QueuesTyped, Reset
  PROVE  QueuesTyped' /\ StreamStep
<1>1. /\ UpdateEventQueue
      /\ UNCHANGED <<arrived, sdl, inHand, handled>>
  BY DEF Reset, inputVars
<1>2. CASE QuitTaken
  <2>1. local' = Updated
    BY <1>2 DEF Reset
  <2>2. QueuesTyped'
    BY <1>1, <2>1, UpdateKeepsOrder DEF QueuesTyped
  <2>3. Pending' = Pending
    BY <1>1, <2>1, UpdateKeepsOrder DEF Pending
  <2>4. QED
    BY <1>1, <2>2, <2>3 DEF StreamStep
<1>3. CASE ~QuitTaken
  <2> DEFINE rest == fetched' \o inHand \o sdl
  <2>1. local' = <<>>
    BY <1>3 DEF Reset
  <2>2. QueuesTyped'
    BY <1>1, <2>1, UpdateKeepsOrder, EmptyIsASeq DEF QueuesTyped
  <2>3. Pending' = rest
    <3>1. <<>> \o fetched' = fetched'
      BY <1>1, UpdateKeepsOrder, ConcatEmptySeq
    <3>2. QED
      BY <1>1, <2>1, <3>1 DEF Pending
  <2>4. /\ Updated \in Seq(Event) /\ rest \in Seq(Event) /\ Updated \o rest = Pending
    BY <1>1, UpdateKeepsOrder
  <2> HIDE DEF rest
  <2>5. /\ Len(Updated) \in Nat /\ Len(Pending) = Len(Updated) + Len(rest) /\ Len(rest) \in Nat
        /\ \A i \in 1..Len(Updated) : Pending[i] = Updated[i]
    <3>1. /\ Len(Updated) \in Nat /\ Len(rest) \in Nat
          /\ DOMAIN Updated = 1..Len(Updated)
      BY <2>4, LenProperties
    <3>2. /\ Len(Updated \o rest) = Len(Updated) + Len(rest)
          /\ \A i \in 1..Len(Updated) + Len(rest) :
               (Updated \o rest)[i] = IF i <= Len(Updated) THEN Updated[i] ELSE rest[i - Len(Updated)]
      BY <2>4, ConcatProperties
    <3>3. QED
      BY <2>4, <3>1, <3>2
  <2>6. CASE Len(Updated) = 0
    <3>1. Updated = <<>>
      BY <2>4, <2>6, EmptySeq
    <3>2. Pending = rest
      BY <2>4, <3>1, ConcatEmptySeq
    <3>3. QED
      BY <1>1, <2>2, <2>3, <3>2 DEF StreamStep
  <2>7. CASE Len(Updated) # 0
    <3>1. \A i \in 1..Len(Updated) : Pending[i].type # "quit"
      BY <1>3, <2>4, <2>5, LenProperties DEF QuitTaken
    <3>2. SubSeq(Pending, Len(Updated) + 1, Len(Pending)) = rest
      <4>1. SubSeq(Updated \o rest, Len(Updated) + 1, Len(Updated \o rest)) = rest
        BY <2>4, PartsOfConcat
      <4>2. QED
        BY <2>4, <4>1
    <3>3. Stream!Forget(Len(Updated))
      BY <1>1, <2>3, <3>1, <3>2 DEF Stream!Forget
    <3>4. Len(Updated) \in 1..Len(Pending)
      BY <2>5, <2>7
    <3>5. QED
      BY <1>1, <2>2, <3>3, <3>4 DEF StreamStep
  <2>8. QED
    BY <2>6, <2>7
<1>4. QED
  BY <1>2, <1>3

\* The events are where they were.
LEMMA StillStep ==
  ASSUME QueuesTyped, UNCHANGED <<queueVars, local, handled>>
  PROVE  QueuesTyped' /\ StreamStep
BY DEF QueuesTyped, StreamStep, Pending, queueVars

\* Every step does to the events what the abstract stream does, or nothing.
LEMMA EveryStepIsOfTheStream ==
  ASSUME QueuesTyped, [Next]_vars
  PROVE  QueuesTyped' /\ StreamStep
<1>1. CASE UserActs
  <2>1. PICK t \in UserTypes : Happen(t)
    BY <1>1 DEF UserActs
  <2>2. QED
    BY <1>1, <2>1, HappenAppends DEF UserActs, inputVars
<1>2. CASE VoiceFinishes
  BY <1>2, HappenAppends DEF VoiceFinishes, inputVars
<1>3. CASE EventThread
  BY <1>3, EventThreadStep
<1>4. CASE BeginBatch
  BY <1>4, BeginBatchStep
<1>5. CASE Handle
  <2>1. CASE \E t \in {"click", "motion", "chunk", "quit"} : Pop(t)
    <3>1. /\ local # <<>> /\ local' = Tail(local) /\ handled' = Head(local).id
      BY <2>1 DEF Pop
    <3>2. UNCHANGED queueVars
      BY <1>5 DEF Handle, HandleClick, HandleMotion, HandleChunk, HandleQuit, HandleUpkeep,
                  HandleBatchEnd, DropWhenExiting, HandlingLeaves
    <3>3. QED
      BY <3>1, <3>2, PopHandles
  <2>2. CASE HandleUpkeep \/ HandleBatchEnd
    <3>1. UNCHANGED <<queueVars, local, handled>>
      BY <2>2 DEF HandleUpkeep, HandleBatchEnd, Reached, HandlingLeaves, inputVars
    <3>2. QED
      BY <3>1, StillStep
  <2>3. CASE DropWhenExiting
    <3>1. UNCHANGED queueVars
      BY <2>3 DEF DropWhenExiting, HandlingLeaves
    <3>2. \/ local # <<>> /\ local' = Tail(local) /\ handled' = Head(local).id
          \/ UNCHANGED <<local, handled>>
      BY <2>3 DEF DropWhenExiting
    <3>3. QED
      BY <3>1, <3>2, PopHandles, StillStep
  <2>4. QED
    BY <1>5, <2>1, <2>2, <2>3 DEF Handle, HandleClick, HandleMotion, HandleChunk, HandleQuit
<1>6. CASE TimePasses \/ StepFrame \/ Frame \/ EndBatch \/ LoadFrame \/ LoadReturn \/ PlayWave
  <2>1. UNCHANGED <<queueVars, local, handled>>
    BY <1>6 DEF TimePasses, StepFrame, Frame, EndBatch, LoadFrame, LoadReturn, PlayWave, inputVars
  <2>2. QED
    BY <2>1, StillStep
<1>7. CASE ClickWait \/ Wait \/ BtnWait \/ Dwave \/ DwaveStop
  <2>1. UNCHANGED <<queueVars, local, handled>>
    BY <1>7 DEF ClickWait, Wait, BtnWait, Dwave, DwaveStop, inputVars
  <2>2. QED
    BY <2>1, StillStep
<1>8. CASE DwavePlay
  <2>1. UNCHANGED <<inHand, peeked, fetched, flag, local, handled>>
    BY <1>8 DEF DwavePlay, inputVars
  <2>2. CASE Happen("chunk")
    BY <2>1, <2>2, HappenAppends
  <2>3. CASE UNCHANGED <<sdl, arrived>>
    BY <2>1, <2>3, StillStep DEF queueVars
  <2>4. QED
    BY <1>8, <2>2, <2>3 DEF DwavePlay
<1>9. CASE Reset
  BY <1>9, ResetStep
<1>10. CASE UNCHANGED vars
  BY <1>10, StillStep DEF vars, inputVars
<1>11. QED
  BY <1>1, <1>2, <1>3, <1>4, <1>5, <1>6, <1>7, <1>8, <1>9, <1>10
     DEF Next, MainStep, Command

LEMMA QueuesTypedInit == Init => QueuesTyped
BY EmptyIsASeq DEF Init, QueuesTyped

LEMMA QueuesTypedAlways == Spec => []QueuesTyped
<1>1. QueuesTyped /\ [Next]_vars => QueuesTyped'
  BY EveryStepIsOfTheStream
<1>2. QED
  BY QueuesTypedInit, <1>1, PTL DEF Spec

\* IsEventStream: whatever the user does and however the threads are scheduled, the
\* three queues of Event.cpp together are one stream of events (see EventLoop).
THEOREM ImplementsEventStream == Spec => IsEventStream
<1>1. Init => Stream!Init
  <2>1. <<>> \o <<>> \o <<>> \o <<>> = <<>>
    BY EmptyIsASeq, ConcatEmptySeq
  <2>2. QED
    BY <2>1 DEF Init, Stream!Init, Pending
<1>2. QueuesTyped /\ [Next]_vars => [Stream!Next]_Stream!streamVars
  <2> SUFFICES ASSUME QueuesTyped, [Next]_vars PROVE [Stream!Next]_Stream!streamVars
    OBVIOUS
  <2>1. StreamStep
    BY EveryStepIsOfTheStream
  <2>2. QED
    BY <2>1 DEF StreamStep, Stream!Next, Stream!streamVars
<1>3. QED
  BY <1>1, <1>2, QueuesTypedAlways, PTL DEF Spec, IsEventStream, Stream!Spec
-----------------------------------------------------------------------------
(* The marks of a batch *)

\* While events are popped, the mark of the batch's end is still there.
MarksOutlast ==
  /\ marks \in {<<>>, <<"batchEnd">>, BatchMarks}
  /\ pc = "pop" => marks # <<>>

LEMMA MarksInit == Init => MarksOutlast
BY DEF Init, MarksOutlast

LEMMA MarksStep ==
  ASSUME MarksOutlast, [Next]_vars
  PROVE  MarksOutlast'
<1>1. /\ BatchMarks # <<>> /\ Tail(BatchMarks) = <<"batchEnd">> /\ Head(BatchMarks) = "upkeep"
      /\ <<"batchEnd">> # <<>> /\ Tail(<<"batchEnd">>) = <<>> /\ Head(<<"batchEnd">>) = "batchEnd"
  BY DEF BatchMarks
<1>2. CASE UNCHANGED <<marks, pc>>
  BY <1>2 DEF MarksOutlast
<1>3. CASE UNCHANGED marks /\ pc' # "pop"
  BY <1>3 DEF MarksOutlast
<1>4. CASE UNCHANGED marks /\ pc = "pop"
  BY <1>4 DEF MarksOutlast
<1>5. CASE BeginBatch
  BY <1>1, <1>5 DEF BeginBatch, MarksOutlast
<1>6. CASE EndBatch
  BY <1>6 DEF EndBatch, MarksOutlast
<1>7. CASE HandleUpkeep
  BY <1>1, <1>7 DEF HandleUpkeep, Reached, MarksOutlast
<1>8. CASE HandleBatchEnd
  BY <1>1, <1>8 DEF HandleBatchEnd, Reached, MarksOutlast
<1>9. CASE DropWhenExiting
  BY <1>1, <1>9 DEF DropWhenExiting, MarksOutlast
<1>10. CASE UserActs \/ VoiceFinishes \/ TimePasses \/ EventThread
  BY <1>10, <1>2 DEF UserActs, VoiceFinishes, TimePasses, EventThread, Fetch, Merge, Peek,
                     PushFetched, loopVars
<1>11. CASE StepFrame \/ Frame \/ LoadFrame \/ LoadReturn
  BY <1>11, <1>3 DEF StepFrame, Frame, LoadFrame, LoadReturn
<1>12. CASE Command \/ PlayWave
  BY <1>12, <1>2, <1>3 DEF Command, ClickWait, Wait, BtnWait, Dwave, DwavePlay, DwaveStop, Reset,
                           PlayWave, loopVars
<1>13. CASE \E t \in {"click", "motion", "chunk", "quit"} : Pop(t)
  BY <1>13, <1>4 DEF Pop
<1>14. CASE UNCHANGED vars
  BY <1>14, <1>2 DEF vars, loopVars
<1>15. QED
  BY <1>5, <1>6, <1>7, <1>8, <1>9, <1>10, <1>11, <1>12, <1>13, <1>14
     DEF Next, MainStep, Handle, HandleClick, HandleMotion, HandleChunk, HandleQuit

\* NeverPopsEmpty: runEventLoop's pop_back always has something to take.
THEOREM NeverPopsEmptyAlways == Spec => []NeverPopsEmpty
<1>1. QueuesTyped /\ MarksOutlast => NeverPopsEmpty
  <2> SUFFICES ASSUME QueuesTyped, MarksOutlast, pc = "pop" PROVE local \o marks # <<>>
    BY DEF NeverPopsEmpty
  <2> DEFINE T == Event \cup {"upkeep", "batchEnd"}
  <2>1. local \in Seq(T)
    BY SeqMonotonic DEF QueuesTyped
  <2>2. marks \in Seq(T) /\ marks # <<>>
    <3>1. "upkeep" \in T /\ "batchEnd" \in T
      OBVIOUS
    <3> HIDE DEF T
    <3>2. <<"upkeep", "batchEnd">> \in Seq(T) /\ <<"batchEnd">> \in Seq(T) /\ <<>> \in Seq(T)
      BY <3>1
    <3>3. QED
      BY <3>2 DEF MarksOutlast, BatchMarks
  <2> HIDE DEF T
  <2>3. QED
    BY <2>1, <2>2, ConcatEqualIffEmpty
<1>2. MarksOutlast /\ [Next]_vars => MarksOutlast'
  BY MarksStep
<1>3. QED
  BY MarksInit, QueuesTypedAlways, <1>1, <1>2, PTL DEF Spec

-----------------------------------------------------------------------------
(* Who gets the input *)

\* Outside of the script's own steps an action that waits finds the mode idle.
ActionMeansIdle == (action # None /\ pc # "script") => mode = "idle"

\* The handlers never make up an action.
LEMMA NoActionStays ==
  ASSUME NEW id, NEW plays
  PROVE  Answered(None, id) = None /\ AfterButton(None, plays) = None
BY DEF Answered, AfterButton, HeardOut

LEMMA ActionMeansIdleStep ==
  ASSUME ActionMeansIdle, [Next]_vars
  PROVE  ActionMeansIdle'
<1>1. CASE pc # "script" /\ mode' = mode /\ (action' # None => action # None)
  BY <1>1 DEF ActionMeansIdle
<1>2. CASE pc' = "script" \/ mode' = "idle"
  BY <1>2 DEF ActionMeansIdle
<1>3. CASE action' = None
  BY <1>3 DEF ActionMeansIdle
<1>4. CASE UNCHANGED <<pc, mode>> /\ (action' # None => action # None)
  BY <1>4 DEF ActionMeansIdle
<1>5. CASE UserActs \/ VoiceFinishes \/ TimePasses \/ EventThread \/ UNCHANGED vars
  BY <1>5, <1>4 DEF UserActs, VoiceFinishes, TimePasses, EventThread, Fetch, Merge, Peek,
                    PushFetched, loopVars, inputVars, vars
<1>6. CASE BeginBatch \/ EndBatch \/ Frame
  BY <1>6, <1>1 DEF BeginBatch, EndBatch, Frame, inputVars
<1>7. CASE StepFrame \/ LoadFrame
  BY <1>7, <1>2 DEF StepFrame, LoadFrame, ModeOfAStep
<1>8. CASE LoadReturn \/ PlayWave
  BY <1>8, <1>1 DEF LoadReturn, PlayWave, loopVars, inputVars
<1>9. CASE Handle
  <2>1. pc # "script" /\ mode' = mode
    BY <1>9 DEF Handle, HandleClick, HandleMotion, HandleChunk, HandleQuit, HandleUpkeep,
                HandleBatchEnd, DropWhenExiting, Pop, Reached, HandlingLeaves
  <2>2. action = None => action' = None
    <3>1. CASE HandleClick \/ HandleMotion \/ HandleChunk
      BY <3>1, NoActionStays DEF HandleClick, HandleMotion, HandleChunk
    <3>2. CASE HandleQuit \/ HandleUpkeep \/ HandleBatchEnd \/ DropWhenExiting
      BY <3>2 DEF HandleQuit, HandleUpkeep, HandleBatchEnd, DropWhenExiting, inputVars
    <3>3. QED
      BY <1>9, <3>1, <3>2 DEF Handle
  <2>3. QED
    BY <1>1, <2>1, <2>2
<1>10. CASE ClickWait \/ Dwave
  BY <1>10, <1>3 DEF ClickWait, Dwave, Permitted, inputVars
<1>11. CASE Wait \/ BtnWait \/ DwavePlay \/ DwaveStop
  BY <1>11, <1>2 DEF Wait, BtnWait, DwavePlay, DwaveStop, Permitted, loopVars
<1>12. CASE Reset
  BY <1>12, <1>3 DEF Reset, Permitted, inputVars
<1>13. QED
  BY <1>5, <1>6, <1>7, <1>8, <1>9, <1>10, <1>11, <1>12 DEF Next, MainStep, Command

\* InputGoesToOne: a click is never claimed by an action and by a click command at once.
THEOREM InputGoesToOneAlways == Spec => []InputGoesToOne
<1>1. Init => ActionMeansIdle
  BY DEF Init, ActionMeansIdle
<1>2. ActionMeansIdle /\ [Next]_vars => ActionMeansIdle'
  BY ActionMeansIdleStep
<1>3. ActionMeansIdle => InputGoesToOne
  BY DEF ActionMeansIdle, InputGoesToOne
<1>4. QED
  BY <1>1, <1>2, <1>3, PTL DEF Spec
-----------------------------------------------------------------------------
(* The numbers of the events *)

\* The events on their way are numbered in order, above low and up to high.
Numbered(s, low, high) ==
  /\ \A i \in 1..Len(s) : low < s[i].id /\ s[i].id <= high
  /\ \A i, j \in 1..Len(s) : i < j => s[i].id < s[j].id

Types == {"wait", "delay", "voice", "button"}
ActionType ==
  [type : Types, clickable : BOOLEAN, timed : BOOLEAN, due : BOOLEAN, ended : BOOLEAN,
   voiced : BOOLEAN, heard : BOOLEAN, since : Nat, answer : Nat \cup {None}]

\* What an action knows is older than it, and what answers it is younger.
Fresh(a, b, h) ==
  /\ a \in ActionType
  /\ a.since <= h
  /\ a.answer # None => a.answer > a.since
  /\ a.type = "button" /\ b # None => b > a.since

FreshInv ==
  /\ handled \in Nat /\ handled <= arrived
  /\ Numbered(Pending, handled, arrived)
  /\ button \in Nat \cup {None}
  /\ action # None => Fresh(action, button, handled)

\* Leaving events out of a numbered sequence keeps it numbered.
LEMMA PartIsNumbered ==
  ASSUME NEW s, NEW p, NEW low, NEW high, Numbered(s, low, high),
         NEW f \in [1..Len(p) -> 1..Len(s)],
         \A i \in 1..Len(p) : p[i] = s[f[i]],
         \A i, j \in 1..Len(p) : i < j => f[i] < f[j]
  PROVE  Numbered(p, low, high)
<1>1. \A i \in 1..Len(p) : f[i] \in 1..Len(s)
  OBVIOUS
<1>2. \A i, j \in 1..Len(p) : i < j => s[f[i]].id < s[f[j]].id
  BY <1>1 DEF Numbered
<1>3. QED
  BY <1>1, <1>2 DEF Numbered

LEMMA StreamKeepsNumbers ==
  ASSUME QueuesTyped, StreamStep, handled \in Nat, handled <= arrived,
         Numbered(Pending, handled, arrived)
  PROVE  /\ handled' \in Nat /\ handled' >= handled /\ handled' <= arrived'
         /\ Numbered(Pending', handled', arrived')
<1>1. Pending \in Seq(Event) /\ Len(Pending) \in Nat /\ arrived \in Nat
      /\ \A i \in 1..Len(Pending) : Pending[i].id \in Nat
  <2>1. Pending \in Seq(Event) /\ Len(Pending) \in Nat
    BY PendingTyped, LenProperties
  <2>2. \A i \in 1..Len(Pending) : Pending[i] \in Event
    BY <2>1, ElementOfSeq
  <2>3. QED
    BY <2>1, <2>2 DEF QueuesTyped, Event
<1>2. CASE Pending' = Pending /\ UNCHANGED <<arrived, handled>>
  BY <1>2, <1>1
<1>3. CASE \E t \in UserTypes \cup {"chunk"} : Stream!Arrive(t) /\ UNCHANGED handled
  <2>1. PICK t \in UserTypes \cup {"chunk"} : Stream!Arrive(t) /\ UNCHANGED handled
    BY <1>3
  <2> DEFINE e == [type |-> t, id |-> arrived + 1]
             p == Append(Pending, e)
  <2>2. e \in Event /\ e.id = arrived + 1
    BY <1>1 DEF Event
  <2>3. Pending' = p /\ arrived' = arrived + 1 /\ handled' = handled
    BY <2>1 DEF Stream!Arrive
  <2> HIDE DEF e
  <2>4. /\ Len(p) = Len(Pending) + 1 /\ p[Len(Pending) + 1] = e
        /\ \A i \in 1..Len(Pending) : p[i] = Pending[i]
    BY <1>1, <2>2, AppendProperties
  <2> HIDE DEF p
  <2>5. \A i \in 1..Len(p) : handled < p[i].id /\ p[i].id <= arrived + 1
    BY <1>1, <2>2, <2>4 DEF Numbered
  <2>6. \A i, j \in 1..Len(p) : i < j => p[i].id < p[j].id
    <3> SUFFICES ASSUME NEW i \in 1..Len(p), NEW j \in 1..Len(p), i < j
                 PROVE  p[i].id < p[j].id
      OBVIOUS
    <3>1. i \in 1..Len(Pending) /\ p[i] = Pending[i]
      BY <1>1, <2>4
    <3>2. CASE j = Len(Pending) + 1
      <4>1. Pending[i].id <= arrived /\ p[j].id = arrived + 1
        BY <3>1, <3>2, <2>2, <2>4 DEF Numbered
      <4>2. QED
        BY <3>1, <4>1, <1>1
    <3>3. CASE j # Len(Pending) + 1
      <4>1. j \in 1..Len(Pending) /\ p[j] = Pending[j]
        BY <3>3, <1>1, <2>4
      <4>2. Pending[i].id < Pending[j].id
        BY <3>1, <4>1 DEF Numbered
      <4>3. QED
        BY <3>1, <4>1, <4>2
    <3>4. QED
      BY <3>2, <3>3
  <2>7. Numbered(p, handled, arrived + 1)
    BY <2>5, <2>6 DEF Numbered
  <2>8. handled <= arrived + 1 /\ handled >= handled
    BY <1>1
  <2>9. QED
    BY <2>3, <2>7, <2>8
<1>4. CASE Stream!Handle /\ handled' = Head(Pending).id
  <2> DEFINE p == Tail(Pending)
  <2>1. Pending # <<>> /\ Pending' = p /\ arrived' = arrived
    BY <1>4 DEF Stream!Handle
  <2>2. /\ Len(Pending) > 0 /\ Head(Pending) = Pending[1]
        /\ Len(p) = Len(Pending) - 1 /\ \A i \in 1..Len(p) : p[i] = Pending[i + 1]
    BY <1>1, <2>1, EmptySeq, HeadTailProperties
  <2> HIDE DEF p
  <2>3. handled' \in Nat /\ handled' >= handled /\ handled' <= arrived
    BY <1>1, <1>4, <2>2 DEF Numbered
  <2>4. \A i \in 1..Len(p) : handled' < p[i].id /\ p[i].id <= arrived
    <3> TAKE i \in 1..Len(p)
    <3>1. 1 \in 1..Len(Pending) /\ i + 1 \in 1..Len(Pending) /\ 1 < i + 1 /\ p[i] = Pending[i + 1]
      BY <1>1, <2>2
    <3>2. QED
      BY <1>1, <1>4, <2>2, <3>1 DEF Numbered
  <2>5. \A i, j \in 1..Len(p) : i < j => p[i].id < p[j].id
    <3> SUFFICES ASSUME NEW i \in 1..Len(p), NEW j \in 1..Len(p), i < j
                 PROVE  p[i].id < p[j].id
      OBVIOUS
    <3>1. i + 1 \in 1..Len(Pending) /\ j + 1 \in 1..Len(Pending) /\ i + 1 < j + 1
          /\ p[i] = Pending[i + 1] /\ p[j] = Pending[j + 1]
      BY <1>1, <2>2
    <3>2. QED
      BY <3>1 DEF Numbered
  <2>6. QED
    BY <2>1, <2>3, <2>4, <2>5 DEF Numbered
<1>5. CASE \E i \in 1..(Len(Pending) - 1) : Stream!Coalesce(i) /\ UNCHANGED handled
  <2>1. PICK k \in 1..(Len(Pending) - 1) : Stream!Coalesce(k) /\ UNCHANGED handled
    BY <1>5
  <2> DEFINE p == SubSeq(Pending, 1, k - 1) \o SubSeq(Pending, k + 1, Len(Pending))
  <2>2. Pending' = p /\ arrived' = arrived /\ handled' = handled
    BY <2>1 DEF Stream!Coalesce
  <2>3. /\ Len(p) = Len(Pending) - 1
        /\ \A i \in 1..(Len(Pending) - 1) : p[i] = IF i < k THEN Pending[i] ELSE Pending[i + 1]
    BY <1>1, CoalescedElements
  <2> HIDE DEF p
  <2> DEFINE f == [i \in 1..Len(p) |-> IF i < k THEN i ELSE i + 1]
  <2>4. f \in [1..Len(p) -> 1..Len(Pending)]
    BY <1>1, <2>3
  <2>5. /\ \A i \in 1..Len(p) : p[i] = Pending[f[i]]
        /\ \A i, j \in 1..Len(p) : i < j => f[i] < f[j]
    BY <1>1, <2>3
  <2> HIDE DEF f
  <2>6. Numbered(p, handled, arrived)
    BY <2>4, <2>5, PartIsNumbered
  <2>7. QED
    BY <1>1, <2>2, <2>6
<1>6. CASE \E n \in 1..Len(Pending) : Stream!Forget(n) /\ UNCHANGED handled
  <2>1. PICK n \in 1..Len(Pending) : Stream!Forget(n) /\ UNCHANGED handled
    BY <1>6
  <2> DEFINE p == SubSeq(Pending, n + 1, Len(Pending))
  <2>2. Pending' = p /\ arrived' = arrived /\ handled' = handled
    BY <2>1 DEF Stream!Forget
  <2>3. /\ Len(p) = Len(Pending) - n
        /\ \A i \in 1..(Len(Pending) - n) : p[i] = Pending[n + i]
    BY <1>1, SuffixElements
  <2> HIDE DEF p
  <2> DEFINE f == [i \in 1..Len(p) |-> n + i]
  <2>4. f \in [1..Len(p) -> 1..Len(Pending)]
    BY <1>1, <2>3
  <2>5. /\ \A i \in 1..Len(p) : p[i] = Pending[f[i]]
        /\ \A i, j \in 1..Len(p) : i < j => f[i] < f[j]
    BY <1>1, <2>3
  <2> HIDE DEF f
  <2>6. Numbered(p, handled, arrived)
    BY <2>4, <2>5, PartIsNumbered
  <2>7. QED
    BY <1>1, <2>2, <2>6
<1>7. QED
  BY <1>2, <1>3, <1>4, <1>5, <1>6 DEF StreamStep
LEMMA FreshLater ==
  ASSUME NEW a, NEW b, NEW h \in Nat, NEW k \in Nat, h <= k, Fresh(a, b, h)
  PROVE  Fresh(a, b, k)
BY DEF Fresh, ActionType

LEMMA AnsweredIsFresh ==
  ASSUME NEW a, NEW b, NEW h \in Nat, Fresh(a, b, h), NEW id \in Nat, id > a.since
  PROVE  Fresh(Answered(a, id), b, h)
<1>1. CASE Answered(a, id) = a
  BY <1>1
<1>2. CASE Answered(a, id) = [a EXCEPT !.ended = TRUE, !.answer = id]
  <2> DEFINE r == [a EXCEPT !.ended = TRUE, !.answer = id]
  <2>1. r \in ActionType /\ r.since = a.since /\ r.answer = id /\ r.type = a.type
    BY DEF Fresh, ActionType
  <2> HIDE DEF r
  <2>2. Fresh(r, b, h)
    BY <2>1 DEF Fresh
  <2>3. QED
    BY <1>2, <2>2 DEF r
<1>3. QED
  BY <1>1, <1>2 DEF Answered

LEMMA AfterButtonIsFresh ==
  ASSUME NEW a, NEW b \in Nat \cup {None}, b = button, NEW h \in Nat, Fresh(a, b, h), NEW plays
  PROVE  Fresh(AfterButton(a, plays), b, h)
<1>1. CASE a.type = "button" /\ b # None
  <2>1. b \in Nat /\ b > a.since
    BY <1>1 DEF Fresh
  <2>2. Fresh(Answered(a, b), b, h)
    BY <2>1, AnsweredIsFresh
  <2>3. CASE a = None
    BY <2>3 DEF AfterButton, HeardOut
  <2>4. QED
    BY <1>1, <2>2, <2>3 DEF AfterButton
<1>2. CASE ~(a.type = "button" /\ b # None)
  <2>1. CASE HeardOut(a, plays) = a
    BY <1>2, <2>1 DEF AfterButton
  <2>2. CASE HeardOut(a, plays) = [a EXCEPT !.timed = TRUE, !.due = TRUE]
    <3> DEFINE r == [a EXCEPT !.timed = TRUE, !.due = TRUE]
    <3>1. r \in ActionType /\ r.since = a.since /\ r.answer = a.answer /\ r.type = a.type
      BY DEF Fresh, ActionType
    <3> HIDE DEF r
    <3>2. Fresh(r, b, h)
      BY <3>1 DEF Fresh
    <3>3. QED
      BY <1>2, <2>2, <3>2 DEF AfterButton, r
  <2>3. QED
    BY <2>1, <2>2 DEF HeardOut
<1>3. QED
  BY <1>1, <1>2

\* The event that is popped is younger than all that were handled.
LEMMA HeadIsYoung ==
  ASSUME QueuesTyped, handled \in Nat, Numbered(Pending, handled, arrived), local # <<>>
  PROVE  Head(local).id \in Nat /\ Head(local).id > handled
<1>1. Head(local) \in Event
  BY HeadTailProperties DEF QueuesTyped
<1>2. QED
  BY <1>1, HeadIsPending DEF Numbered, Event

LEMMA FreshStep ==
  ASSUME QueuesTyped, FreshInv, [Next]_vars
  PROVE  FreshInv'
<1>1. StreamStep
  BY EveryStepIsOfTheStream
<1>2. /\ handled' \in Nat /\ handled' >= handled /\ handled' <= arrived'
      /\ Numbered(Pending', handled', arrived')
  BY <1>1, StreamKeepsNumbers DEF FreshInv
<1>3. SUFFICES /\ button' \in Nat \cup {None}
               /\ action' # None => Fresh(action', button', handled')
  BY <1>2 DEF FreshInv
<1>4. /\ handled \in Nat /\ button \in Nat \cup {None}
      /\ action # None => Fresh(action, button, handled)
      /\ action # None => Fresh(action, button, handled')
  BY <1>2, FreshLater DEF FreshInv
<1>5. CASE UNCHANGED <<action, button>>
  BY <1>4, <1>5
<1>6. CASE HandleClick
  <2>1. local # <<>> /\ button' = Head(local).id /\ action' = Answered(action, Head(local).id)
    BY <1>6 DEF HandleClick, Pop
  <2>2. Head(local).id \in Nat /\ Head(local).id > handled
    BY <2>1, HeadIsYoung DEF FreshInv
  <2>3. CASE action = None
    BY <2>1, <2>2, <2>3, NoActionStays
  <2>4. CASE action # None
    <3>1. action.since \in Nat /\ action.since <= handled
      BY <1>4, <2>4 DEF Fresh, ActionType
    <3>2. Fresh(action, Head(local).id, handled')
      BY <1>4, <2>2, <2>4, <3>1 DEF Fresh
    <3>3. Head(local).id > action.since
      BY <1>4, <2>2, <3>1
    <3>4. Fresh(Answered(action, Head(local).id), Head(local).id, handled')
      BY <1>2, <2>2, <3>2, <3>3, AnsweredIsFresh
    <3>5. QED
      BY <2>1, <2>2, <3>4
  <2>5. QED
    BY <2>3, <2>4
<1>7. CASE HandleMotion \/ HandleChunk
  <2>1. button' = button /\ \E plays \in BOOLEAN : action' = AfterButton(action, plays)
    <3>1. CASE HandleMotion
      BY <3>1 DEF HandleMotion, VoicePlays
    <3>2. CASE HandleChunk
      BY <3>2 DEF HandleChunk
    <3>3. QED
      BY <1>7, <3>1, <3>2
  <2>2. PICK plays \in BOOLEAN : action' = AfterButton(action, plays)
    BY <2>1
  <2>3. CASE action = None
    BY <1>4, <2>1, <2>2, <2>3, NoActionStays
  <2>4. CASE action # None
    BY <1>2, <1>4, <2>1, <2>2, <2>4, AfterButtonIsFresh
  <2>5. QED
    BY <2>3, <2>4
<1>8. CASE Frame
  BY <1>8, <1>4 DEF Frame
<1>9. CASE TimePasses
  <2>1. action # None /\ action' = [action EXCEPT !.due = TRUE] /\ button' = button
    BY <1>9 DEF TimePasses
  <2>2. [action EXCEPT !.due = TRUE] \in ActionType
    BY <1>4, <2>1 DEF Fresh, ActionType
  <2>3. QED
    BY <1>4, <2>1, <2>2 DEF Fresh, ActionType
<1>10. ASSUME NEW type \in Types, NEW clickable \in BOOLEAN, NEW timed \in BOOLEAN
       PROVE  /\ Action(type, clickable, timed) \in ActionType
              /\ Action(type, clickable, timed).since = handled
              /\ Action(type, clickable, timed).answer = None
              /\ Action(type, clickable, timed).type = type
  <2>1. VoicePlays \in BOOLEAN
    BY DEF VoicePlays
  <2>2. QED
    BY <1>4, <2>1 DEF Action, ActionType
<1>11. CASE Wait
  <2>1. PICK type \in {"wait", "delay", "voice"}, clickable \in BOOLEAN, timed \in BOOLEAN :
          action' = Action(type, clickable, timed)
    BY <1>11 DEF Wait
  <2>2. type # "button" /\ type \in Types
    BY DEF Types
  <2>3. Fresh(action', button, handled)
    BY <1>4, <1>10, <2>1, <2>2 DEF Fresh
  <2>4. button' = button /\ handled' = handled
    BY <1>11 DEF Wait
  <2>5. QED
    BY <1>4, <2>3, <2>4
<1>12. CASE BtnWait
  <2>1. PICK timed \in BOOLEAN, voiced \in BOOLEAN :
          action' = [Action("button", TRUE, timed) EXCEPT !.voiced = voiced]
    <3>1. PICK text \in BOOLEAN, btntime \in {"none", "btntime", "btntime2"} :
            action' = [Action("button", TRUE, ~text /\ btntime # "none")
                         EXCEPT !.voiced = text /\ btntime = "btntime2"]
      BY <1>12 DEF BtnWait
    <3>2. (~text /\ btntime # "none") \in BOOLEAN /\ (text /\ btntime = "btntime2") \in BOOLEAN
      OBVIOUS
    <3>3. QED
      BY <3>1, <3>2, Zenon
  <2> DEFINE a == Action("button", TRUE, timed)
  <2>2. a \in ActionType /\ a.since = handled /\ a.answer = None
    <3>1. "button" \in Types /\ TRUE \in BOOLEAN
      BY DEF Types
    <3>2. QED
      BY <1>10, <3>1
  <2> HIDE DEF a
  <2>3. [a EXCEPT !.voiced = voiced] \in ActionType /\ [a EXCEPT !.voiced = voiced].since = handled
        /\ [a EXCEPT !.voiced = voiced].answer = None
    BY <2>2 DEF ActionType
  <2>4. button' = None /\ handled' = handled
    BY <1>12 DEF BtnWait, NoButton
  <2>5. action' \in ActionType /\ action'.since = handled /\ action'.answer = None
    BY <2>1, <2>3 DEF a
  <2>6. Fresh(action', button', handled')
    BY <1>4, <2>4, <2>5 DEF Fresh
  <2>7. QED
    BY <2>4, <2>6
<1>13. CASE UserActs \/ VoiceFinishes \/ EventThread \/ PlayWave \/ UNCHANGED vars
  BY <1>13, <1>5 DEF UserActs, VoiceFinishes, EventThread, Fetch, Merge, Peek, PushFetched,
                     PlayWave, inputVars, vars
<1>14. CASE StepFrame \/ BeginBatch \/ EndBatch \/ LoadFrame \/ LoadReturn
  BY <1>14, <1>5 DEF StepFrame, BeginBatch, EndBatch, LoadFrame, LoadReturn, inputVars
<1>15. CASE HandleQuit \/ HandleUpkeep \/ HandleBatchEnd \/ DropWhenExiting
  BY <1>15, <1>5 DEF HandleQuit, HandleUpkeep, HandleBatchEnd, DropWhenExiting, inputVars
<1>16. CASE ClickWait \/ Dwave \/ DwavePlay \/ DwaveStop \/ Reset
  BY <1>16, <1>5 DEF ClickWait, Dwave, DwavePlay, DwaveStop, Reset, inputVars
<1>17. QED
  BY <1>6, <1>7, <1>8, <1>9, <1>11, <1>12, <1>13, <1>14, <1>15, <1>16
     DEF Next, MainStep, Handle, Command

LEMMA FreshInit == Init => FreshInv
<1>1. Init => Pending = <<>>
  <2>1. <<>> \o <<>> \o <<>> \o <<>> = <<>>
    BY EmptyIsASeq, ConcatEmptySeq
  <2>2. QED
    BY <2>1 DEF Init, Pending
<1>2. Numbered(<<>>, 0, 0)
  BY EmptyIsASeq DEF Numbered
<1>3. QED
  BY <1>1, <1>2 DEF Init, FreshInv

\* HandledClickAnswersNone: no wait is ever answered by a click that was handled before it
\* began, for any number of events and commands.
THEOREM HandledClickAnswersNoneAlways == Spec => []HandledClickAnswersNone
<1>1. QueuesTyped /\ FreshInv /\ [Next]_vars => FreshInv'
  BY FreshStep
<1>2. FreshInv => HandledClickAnswersNone
  BY DEF FreshInv, Fresh, HandledClickAnswersNone
<1>3. QED
  BY FreshInit, QueuesTypedAlways, <1>1, <1>2, PTL DEF Spec
=============================================================================

------------------------- MODULE SubtitleLayer_proofs -------------------------
(***************************************************************************)
(* Proofs about SubtitleLayer.  A layer the thread works on, or will, is   *)
(* open and its semaphore is zero; whoever closes a layer has waited for   *)
(* the semaphore: that is why the thread never meets a closed layer.       *)
(* The queue of an open layer holds every change between the one shown     *)
(* last and the moment the thread has reached, in order: that is why the   *)
(* last frame not in the future is the picture of the display time.        *)
(***************************************************************************)
EXTENDS SubtitleLayer, TLAPS, FiniteSetTheorems

Stopping == {"stop", "load", "delete"}
Working == {"room", "extract", "push", "advance", "post"}

OwnTypes ==
  /\ open \in [Layer -> BOOLEAN] /\ finish \in [Layer -> BOOLEAN] /\ sem \in [Layer -> Nat]
  /\ jobs \in Seq(Layer)
  /\ dec = Idle \/ dec \in [at : Working, layer : Layer]
  /\ mpc \in [op : {"script", "update", "endThreads"} \cup Stopping, layer : Layer \cup {None}]

\* A layer with an instruction in the queue waits for the thread, and once.
QueuedIsOpen ==
  \A i \in 1..Len(jobs) :
    /\ open[jobs[i]] /\ sem[jobs[i]] = 0 /\ dec.layer # jobs[i]
    /\ finish[jobs[i]] => mpc.layer = jobs[i] /\ mpc.op \in Stopping
    /\ \A j \in 1..Len(jobs) : jobs[i] = jobs[j] => i = j

ServedIsOpen == dec # Idle => open[dec.layer] /\ sem[dec.layer] = 0

OwnInv == OwnTypes /\ QueuedIsOpen /\ ServedIsOpen

LEMMA JobsTail ==
  ASSUME jobs \in Seq(Layer), jobs # <<>>
  PROVE  /\ Tail(jobs) \in Seq(Layer) /\ Head(jobs) = jobs[1] /\ Head(jobs) \in Layer
         /\ 1 \in 1..Len(jobs)
         /\ \A i \in 1..Len(Tail(jobs)) : i + 1 \in 1..Len(jobs) /\ Tail(jobs)[i] = jobs[i + 1]
OBVIOUS

LEMMA JobsAppend ==
  ASSUME jobs \in Seq(Layer), NEW l \in Layer
  PROVE  /\ Append(jobs, l) \in Seq(Layer) /\ Len(Append(jobs, l)) = Len(jobs) + 1
         /\ Len(jobs) \in Nat
         /\ \A i \in 1..Len(jobs) : Append(jobs, l)[i] = jobs[i]
         /\ Append(jobs, l)[Len(jobs) + 1] = l
OBVIOUS

LEMMA EmptyIsASeq == \A S : <<>> \in Seq(S) /\ Len(<<>>) = 0
OBVIOUS

LEMMA NoneIsNoLayer == None \notin Layer
BY SubtitleAssumption

LEMMA OwnInit == Init => OwnInv
<1> SUFFICES ASSUME Init PROVE OwnInv
  OBVIOUS
<1>1. jobs \in Seq(Layer) /\ Len(jobs) = 0
  BY DEF Init
<1>2. mpc \in [op : {"script", "update", "endThreads"} \cup Stopping, layer : Layer \cup {None}]
  BY DEF Init, Script
<1>3. QED
  BY <1>1, <1>2 DEF Init, OwnInv, OwnTypes, QueuedIsOpen, ServedIsOpen

\* Whoever has waited for a layer finds it neither queued nor served.
LEMMA WaitedIsFree ==
  ASSUME OwnInv, NEW l \in Layer, Waited(l)
  PROVE  dec.layer # l /\ \A i \in 1..Len(jobs) : jobs[i] # l
<1>1. ASSUME dec.layer = l PROVE FALSE
  BY <1>1, NoneIsNoLayer DEF OwnInv, OwnTypes, ServedIsOpen, Waited, Idle
<1>2. ASSUME NEW i \in 1..Len(jobs), jobs[i] = l PROVE FALSE
  BY <1>2 DEF OwnInv, OwnTypes, QueuedIsOpen, Waited
<1>3. QED
  BY <1>1, <1>2

LEMMA OwnStep == OwnInv /\ [Next]_vars => OwnInv'
<1> SUFFICES ASSUME OwnInv, [Next]_vars PROVE OwnInv'
  OBVIOUS
<1> USE NoneIsNoLayer
<1>1. ASSUME TakeJob PROVE OwnInv'
  <2>1. /\ dec = Idle /\ jobs # <<>> /\ dec' = [at |-> "room", layer |-> Head(jobs)]
        /\ jobs' = Tail(jobs) /\ mpc' = mpc
        /\ open' = open /\ sem' = sem /\ finish' = finish
    BY <1>1 DEF TakeJob, perLayer
  <2> DEFINE h == Head(jobs)
  <2>2. /\ h \in Layer /\ h = jobs[1] /\ 1 \in 1..Len(jobs) /\ jobs' \in Seq(Layer)
        /\ \A i \in 1..Len(jobs') : i + 1 \in 1..Len(jobs) /\ jobs'[i] = jobs[i + 1]
    BY <2>1, JobsTail DEF OwnInv, OwnTypes
  <2>3. dec' \in [at : Working, layer : Layer] /\ dec'.layer = h
    BY <2>1, <2>2 DEF Working
  <2>4. OwnTypes'
    BY <2>1, <2>2, <2>3 DEF OwnInv, OwnTypes
  <2>5. ServedIsOpen'
    BY <2>1, <2>2, <2>3 DEF OwnInv, QueuedIsOpen, ServedIsOpen
  <2>6. \A i \in 1..Len(jobs') : i + 1 # 1
    OBVIOUS
  <2>7. QueuedIsOpen'
    <3> SUFFICES ASSUME NEW i \in 1..Len(jobs')
                 PROVE  /\ open[jobs'[i]] /\ sem[jobs'[i]] = 0 /\ h # jobs'[i]
                        /\ finish[jobs'[i]] => mpc.layer = jobs'[i] /\ mpc.op \in Stopping
                        /\ \A j \in 1..Len(jobs') : jobs'[i] = jobs'[j] => i = j
      BY <2>1, <2>3 DEF QueuedIsOpen
    <3>1. i + 1 \in 1..Len(jobs) /\ jobs'[i] = jobs[i + 1]
      BY <2>2
    <3>2. /\ open[jobs'[i]] /\ sem[jobs'[i]] = 0
          /\ finish[jobs'[i]] => mpc.layer = jobs'[i] /\ mpc.op \in Stopping
      BY <3>1 DEF OwnInv, QueuedIsOpen
    <3>3. h # jobs'[i]
      BY <2>2, <2>6, <3>1 DEF OwnInv, QueuedIsOpen
    <3>4. ASSUME NEW j \in 1..Len(jobs'), jobs'[i] = jobs'[j] PROVE i = j
      <4>1. j + 1 \in 1..Len(jobs) /\ jobs[i + 1] = jobs[j + 1]
        BY <2>2, <3>1, <3>4
      <4>2. i + 1 = j + 1
        BY <3>1, <4>1 DEF OwnInv, QueuedIsOpen
      <4>3. QED
        BY <4>2
    <3>5. QED
      BY <3>2, <3>3, <3>4
  <2>8. QED
    BY <2>4, <2>5, <2>7 DEF OwnInv
<1>2. ASSUME AwaitRoom \/ Extract \/ Push \/ Advance PROVE OwnInv'
  <2>1. /\ jobs' = jobs /\ mpc' = mpc /\ open' = open /\ sem' = sem
        /\ dec # Idle /\ \E to \in Working : dec' = [dec EXCEPT !.at = to]
        /\ finish' = finish \/ finish' = [finish EXCEPT ![dec.layer] = TRUE]
    BY <1>2 DEF AwaitRoom, Extract, Push, Advance, perLayer, Step, Working, Idle
  <2>2. dec \in [at : Working, layer : Layer]
    BY <2>1 DEF OwnInv, OwnTypes
  <2>3. dec' \in [at : Working, layer : Layer] /\ dec'.layer = dec.layer /\ dec.layer \in Layer
    BY <2>1, <2>2
  <2>4. finish' \in [Layer -> BOOLEAN] /\ \A l \in Layer : l # dec.layer => finish'[l] = finish[l]
    BY <2>1, <2>3 DEF OwnInv, OwnTypes
  <2>5. OwnTypes'
    BY <2>1, <2>3, <2>4 DEF OwnInv, OwnTypes
  <2>6. ServedIsOpen'
    BY <2>1, <2>3 DEF OwnInv, ServedIsOpen
  <2>7. \A i \in 1..Len(jobs) : jobs[i] \in Layer
    BY DEF OwnInv, OwnTypes
  <2>8. QueuedIsOpen'
    BY <2>1, <2>3, <2>4, <2>7 DEF OwnInv, QueuedIsOpen
  <2>9. QED
    BY <2>5, <2>6, <2>8 DEF OwnInv
<1>3. ASSUME PostEnd PROVE OwnInv'
  <2>1. /\ jobs' = jobs /\ mpc' = mpc /\ open' = open /\ finish' = finish
        /\ dec' = Idle /\ dec # Idle /\ sem' = [sem EXCEPT ![dec.layer] = @ + 1]
    BY <1>3 DEF PostEnd, Idle
  <2>2. dec.layer \in Layer
    BY <2>1 DEF OwnInv, OwnTypes
  <2>3. sem' \in [Layer -> Nat] /\ \A l \in Layer : l # dec.layer => sem'[l] = sem[l]
    BY <2>1, <2>2 DEF OwnInv, OwnTypes
  <2>4. OwnTypes' /\ ServedIsOpen'
    BY <2>1, <2>3 DEF OwnInv, OwnTypes, ServedIsOpen
  <2>5. \A i \in 1..Len(jobs) : jobs[i] \in Layer /\ Idle.layer # jobs[i]
    BY DEF OwnInv, OwnTypes, Idle
  <2>6. QueuedIsOpen'
    BY <2>1, <2>3, <2>5 DEF OwnInv, QueuedIsOpen
  <2>7. QED
    BY <2>4, <2>6 DEF OwnInv
<1>4. ASSUME NEW l \in Layer, Tick(l) \/ Show(l) PROVE OwnInv'
  <2>1. /\ jobs' = jobs /\ open' = open /\ sem' = sem /\ finish' = finish /\ dec' = dec
        /\ mpc.op \notin Stopping
        /\ mpc' = Script \/ mpc' = [op |-> "update", layer |-> l]
    BY <1>4 DEF Tick, Show, Script, Stopping
  <2>2. mpc' \in [op : {"script", "update", "endThreads"} \cup Stopping, layer : Layer \cup {None}]
    BY <2>1 DEF Script
  <2>3. OwnTypes' /\ ServedIsOpen'
    BY <2>1, <2>2 DEF OwnInv, OwnTypes, ServedIsOpen
  <2>4. QueuedIsOpen'
    BY <2>1 DEF OwnInv, QueuedIsOpen
  <2>5. QED
    BY <2>3, <2>4 DEF OwnInv
<1>5. ASSUME NEW l \in Layer, NEW op \in Stopping, StopPlayback(l, op) PROVE OwnInv'
  <2>1. /\ jobs' = jobs /\ open' = open /\ sem' = sem /\ dec' = dec /\ mpc = Script
        /\ mpc' = [op |-> op, layer |-> l] /\ finish' = [finish EXCEPT ![l] = open[l]]
    BY <1>5 DEF StopPlayback
  <2>2. mpc.op \notin Stopping
    BY <2>1 DEF Script, Stopping
  <2>3. finish' \in [Layer -> BOOLEAN] /\ \A k \in Layer : k # l => finish'[k] = finish[k]
    BY <2>1 DEF OwnInv, OwnTypes
  <2>4. mpc' \in [op : {"script", "update", "endThreads"} \cup Stopping, layer : Layer \cup {None}]
        /\ mpc'.layer = l /\ mpc'.op \in Stopping
    BY <2>1
  <2>5. OwnTypes' /\ ServedIsOpen'
    BY <2>1, <2>3, <2>4 DEF OwnInv, OwnTypes, ServedIsOpen
  <2>6. \A i \in 1..Len(jobs) : jobs[i] \in Layer
    BY DEF OwnInv, OwnTypes
  <2>7. QueuedIsOpen'
    BY <2>1, <2>2, <2>3, <2>4, <2>6 DEF OwnInv, QueuedIsOpen
  <2>8. QED
    BY <2>5, <2>7 DEF OwnInv
<1>6. ASSUME NEW l \in Layer, Stopped(l) PROVE OwnInv'
  <2>1. /\ jobs' = jobs /\ dec' = dec /\ mpc' = Script /\ mpc.layer = l /\ Waited(l)
        /\ open' = [open EXCEPT ![l] = FALSE] /\ sem' = [sem EXCEPT ![l] = 0]
        /\ finish' = [finish EXCEPT ![l] = FALSE]
    BY <1>6 DEF Stopped
  <2>2. dec.layer # l /\ \A i \in 1..Len(jobs) : jobs[i] \in Layer /\ jobs[i] # l
    BY <2>1, WaitedIsFree DEF OwnInv, OwnTypes
  <2>3. /\ open' \in [Layer -> BOOLEAN] /\ sem' \in [Layer -> Nat] /\ finish' \in [Layer -> BOOLEAN]
        /\ \A k \in Layer : k # l => open'[k] = open[k] /\ sem'[k] = sem[k] /\ finish'[k] = finish[k]
    BY <2>1 DEF OwnInv, OwnTypes
  <2>4. mpc' \in [op : {"script", "update", "endThreads"} \cup Stopping, layer : Layer \cup {None}]
    BY <2>1 DEF Script
  <2>5. OwnTypes'
    BY <2>1, <2>3, <2>4 DEF OwnInv, OwnTypes
  <2>6. ServedIsOpen'
    BY <2>1, <2>2, <2>3 DEF OwnInv, OwnTypes, ServedIsOpen
  <2>7. QueuedIsOpen'
    BY <2>1, <2>2, <2>3 DEF OwnInv, QueuedIsOpen
  <2>8. QED
    BY <2>5, <2>6, <2>7 DEF OwnInv
<1>7. ASSUME NEW l \in Layer, StartDecoding(l) PROVE OwnInv'
  <2>1. /\ jobs' = Append(jobs, l) /\ dec' = dec /\ mpc' = Script /\ mpc.layer = l /\ Waited(l)
        /\ open' = [open EXCEPT ![l] = TRUE] /\ sem' = [sem EXCEPT ![l] = 0]
        /\ finish' = [finish EXCEPT ![l] = FALSE]
    BY <1>7 DEF StartDecoding
  <2>2. dec.layer # l /\ \A i \in 1..Len(jobs) : jobs[i] \in Layer /\ jobs[i] # l
    BY <2>1, WaitedIsFree DEF OwnInv, OwnTypes
  <2>3. /\ open' \in [Layer -> BOOLEAN] /\ sem' \in [Layer -> Nat] /\ finish' \in [Layer -> BOOLEAN]
        /\ open'[l] = TRUE /\ sem'[l] = 0 /\ finish'[l] = FALSE
        /\ \A k \in Layer : k # l => open'[k] = open[k] /\ sem'[k] = sem[k] /\ finish'[k] = finish[k]
    BY <2>1 DEF OwnInv, OwnTypes
  <2>4. mpc' \in [op : {"script", "update", "endThreads"} \cup Stopping, layer : Layer \cup {None}]
    BY <2>1 DEF Script
  <2>5. /\ jobs' \in Seq(Layer) /\ Len(jobs') = Len(jobs) + 1 /\ Len(jobs) \in Nat
        /\ \A i \in 1..Len(jobs) : jobs'[i] = jobs[i]
        /\ jobs'[Len(jobs) + 1] = l
    BY <2>1, JobsAppend DEF OwnInv, OwnTypes
  <2>6. OwnTypes'
    BY <2>1, <2>3, <2>4, <2>5 DEF OwnInv, OwnTypes
  <2>7. ServedIsOpen'
    BY <2>1, <2>2, <2>3 DEF OwnInv, OwnTypes, ServedIsOpen
  <2>8. \A i \in 1..Len(jobs') : i \in 1..Len(jobs) \/ i = Len(jobs) + 1
    BY <2>5
  <2>9. QueuedIsOpen'
    <3> SUFFICES ASSUME NEW i \in 1..Len(jobs')
                 PROVE  /\ open'[jobs'[i]] /\ sem'[jobs'[i]] = 0 /\ dec.layer # jobs'[i]
                        /\ ~finish'[jobs'[i]]
                        /\ \A j \in 1..Len(jobs') : jobs'[i] = jobs'[j] => i = j
      BY <2>1 DEF QueuedIsOpen
    <3>1. CASE i \in 1..Len(jobs)
      <4>1. jobs'[i] = jobs[i] /\ jobs[i] \in Layer /\ jobs[i] # l
        BY <2>2, <2>5, <3>1
      <4>2. /\ open'[jobs'[i]] /\ sem'[jobs'[i]] = 0 /\ dec.layer # jobs'[i]
            /\ ~finish'[jobs'[i]]
        BY <2>1, <2>3, <3>1, <4>1 DEF OwnInv, QueuedIsOpen
      <4>3. \A j \in 1..Len(jobs') : jobs'[i] = jobs'[j] => i = j
        BY <2>5, <2>8, <3>1, <4>1 DEF OwnInv, QueuedIsOpen
      <4>4. QED
        BY <4>2, <4>3
    <3>2. CASE i = Len(jobs) + 1
      <4>1. jobs'[i] = l
        BY <2>5, <3>2
      <4>2. \A j \in 1..Len(jobs') : jobs'[i] = jobs'[j] => i = j
        BY <2>2, <2>5, <2>8, <3>2, <4>1
      <4>3. QED
        BY <2>2, <2>3, <4>1, <4>2
    <3>3. QED
      BY <2>8, <3>1, <3>2
  <2>10. QED
    BY <2>6, <2>7, <2>9 DEF OwnInv
<1>8. ASSUME EndThreads \/ ThreadsEnded PROVE OwnInv'
  <2>1. /\ open' = open /\ sem' = sem /\ finish' = finish /\ dec' = dec
        /\ mpc.op \notin Stopping
        /\ mpc' = Script \/ mpc' = [op |-> "endThreads", layer |-> None]
        /\ jobs' = jobs \/ jobs' = <<>>
    BY <1>8 DEF EndThreads, ThreadsEnded, perLayer, Script, Stopping
  <2>2. mpc' \in [op : {"script", "update", "endThreads"} \cup Stopping, layer : Layer \cup {None}]
    BY <2>1 DEF Script
  <2>3. jobs' \in Seq(Layer) /\ (jobs' = jobs \/ Len(jobs') = 0)
    <3>1. jobs \in Seq(Layer)
      BY DEF OwnInv, OwnTypes
    <3>2. <<>> \in Seq(Layer) /\ Len(<<>>) = 0
      BY EmptyIsASeq
    <3>3. CASE jobs' = jobs
      BY <3>1, <3>3
    <3>4. CASE jobs' = <<>>
      BY <3>2, <3>4
    <3>5. QED
      BY <2>1, <3>3, <3>4
  <2>4. OwnTypes' /\ ServedIsOpen'
    BY <2>1, <2>2, <2>3 DEF OwnInv, OwnTypes, ServedIsOpen
  <2>5. QueuedIsOpen'
    BY <2>1, <2>3 DEF OwnInv, QueuedIsOpen
  <2>6. QED
    BY <2>4, <2>5 DEF OwnInv
<1>9. CASE UNCHANGED vars
  BY <1>9 DEF vars, perLayer, OwnInv, OwnTypes, QueuedIsOpen, ServedIsOpen
<1>10. QED
  BY <1>1, <1>2, <1>3, <1>4, <1>5, <1>6, <1>7, <1>8, <1>9
     DEF Next, DoDecoding, Proceed, Stopping

\* The subtitle thread works only on a layer whose mutex, semaphore and libass state
\* exist, and starts on one only with should_finish lowered, for any number of layers,
\* loads and resets (Subtitle.cpp:80-87, 279-293).
THEOREM DecoderOwnsItsLayerAlways == Spec => []DecoderOwnsItsLayer
<1>1. OwnInv => DecoderOwnsItsLayer
  BY DEF OwnInv, QueuedIsOpen, ServedIsOpen, DecoderOwnsItsLayer, Contains
<1>2. QED
  BY OwnInit, OwnStep, <1>1, PTL DEF Spec
-----------------------------------------------------------------------------
(* The picture that is shown *)

\* The first moment of the layer that extractFrame has not seen.
Upto(l) == IF dec = [at |-> "advance", layer |-> l] THEN decoded[l] + Rate ELSE decoded[l]

Drawn(s) == {i \in 1..Len(s) : s[i].drawn}

\* The queue begins with what was shown last ...
Begun(s, now) == Len(s) >= 1 /\ s[1].start <= now

\* ... holds changes in their order, after the blank picture at most ...
Ordered(s) ==
  /\ \A i, j \in 1..Len(s) : i < j => s[i].start <= s[j].start
  /\ \A i \in Drawn(s), j \in 1..Len(s) : i < j => s[i].start < s[j].start
Genuine(s, upto, times) ==
  /\ \A i \in Drawn(s) : s[i].start \in times /\ s[i].start < upto
  /\ \A i \in 1..Len(s) : i \notin Drawn(s) => i = 1 /\ s[i].start = 0

\* ... and lacks none of those the decoder has passed.
Complete(s, upto, times) ==
  \A t \in times : s[1].start <= t /\ t < upto => \E i \in Drawn(s) : s[i].start = t

Clear(s, now, upto, times) ==
  Begun(s, now) /\ Ordered(s) /\ Genuine(s, upto, times) /\ Complete(s, upto, times)

QueueTypes ==
  /\ frames \in [Layer -> Seq([start : Nat, drawn : BOOLEAN])]
  /\ display \in [Layer -> Nat] /\ decoded \in [Layer -> Nat]
  /\ changes \in [Layer -> SUBSET Times] /\ DOMAIN picture = Layer
  /\ \A l \in Layer : \E k \in Nat : decoded[l] = Rate * k

QueuesAreClear ==
  \A l \in Layer :
    /\ open[l] => Clear(frames[l], display[l], Upto(l), changes[l])
    /\ dec = [at |-> "push", layer |-> l] => decoded[l] \in changes[l]
    /\ mpc = [op |-> "update", layer |-> l] => open[l]

PictureInv == OwnInv /\ QueueTypes /\ QueuesAreClear

LEMMA TimesOfMultiples ==
  ASSUME NEW t \in Times
  PROVE  t \in Nat /\ \E q \in Nat : t = Rate * q
<1> DEFINE q == t \div Rate
<1>1. t \in Nat /\ t % Rate = 0 /\ Rate \in Nat /\ Rate > 0
  BY SubtitleAssumption DEF Times
<1>2. q \in Nat /\ t = Rate * q + (t % Rate)
  BY <1>1
<1>3. t = Rate * q
  BY <1>1, <1>2
<1>4. QED
  BY <1>1, <1>2, <1>3

\* Of two multiples of the rate the smaller is smaller by a rate.
LEMMA NoTimeBetween ==
  ASSUME NEW p \in Nat, NEW q \in Nat, Rate * p < Rate * q + Rate
  PROVE  Rate * p <= Rate * q
<1>1. Rate \in Nat /\ Rate > 0
  BY SubtitleAssumption
<1>2. CASE p <= q
  <2>1. q - p \in Nat
    BY <1>2
  <2>2. Rate * (q - p) \in Nat
    BY <1>1, <2>1
  <2>3. Rate * q = Rate * p + Rate * (q - p)
    BY <1>1, <2>1
  <2>4. Rate * p \in Nat /\ Rate * q \in Nat
    BY <1>1
  <2>5. QED
    BY <2>2, <2>3, <2>4
<1>3. CASE q + 1 <= p
  <2>1. p - (q + 1) \in Nat
    BY <1>3
  <2>2. Rate * (p - (q + 1)) \in Nat
    BY <1>1, <2>1
  <2>3. Rate * p = Rate * q + Rate + Rate * (p - (q + 1))
    BY <1>1, <2>1
  <2>4. Rate * p \in Nat /\ Rate * q \in Nat
    BY <1>1
  <2>5. QED
    BY <1>1, <2>2, <2>3, <2>4
<1>4. QED
  BY <1>2, <1>3

LEMMA NextTime ==
  ASSUME NEW t \in Times, NEW d \in Nat, \E k \in Nat : d = Rate * k, t < d + Rate
  PROVE  t \in Nat /\ (t < d \/ t = d)
<1>1. PICK p \in Nat : t = Rate * p
  BY TimesOfMultiples
<1>2. PICK q \in Nat : d = Rate * q
  OBVIOUS
<1>3. t <= d
  BY <1>1, <1>2, NoTimeBetween
<1>4. t \in Nat
  BY TimesOfMultiples
<1>5. QED
  BY <1>3, <1>4

LEMMA Elements ==
  ASSUME NEW S, NEW s \in Seq(S)
  PROVE  Len(s) \in Nat /\ \A i \in 1..Len(s) : s[i] \in S
OBVIOUS

LEMMA Suffix ==
  ASSUME NEW S, NEW s \in Seq(S), NEW m \in 2..Len(s)
  PROVE  LET r == SubSeq(s, m, Len(s))
         IN  /\ r \in Seq(S) /\ Len(r) = Len(s) - m + 1
             /\ \A i \in 1..Len(r) : r[i] = s[i + m - 1]
OBVIOUS

LEMMA FrameTypes ==
  ASSUME NEW s \in Seq([start : Nat, drawn : BOOLEAN])
  PROVE  Len(s) \in Nat /\ \A i \in 1..Len(s) : s[i].start \in Nat
<1>1. Len(s) \in Nat /\ \A i \in 1..Len(s) : s[i] \in [start : Nat, drawn : BOOLEAN]
  BY Elements
<1>2. \A i \in 1..Len(s) : s[i].start \in Nat
  BY <1>1
<1>3. QED
  BY <1>1, <1>2

\* The frames that are not in the future are the first ones: Chosen is the last of them.
LEMMA ChosenIsLast ==
  ASSUME NEW s \in Seq([start : Nat, drawn : BOOLEAN]), NEW now \in Nat, Begun(s, now), Ordered(s)
  PROVE  LET k == Cardinality({i \in 1..Len(s) : s[i].start <= now})
         IN  k \in 1..Len(s) /\ \A i \in 1..Len(s) : s[i].start <= now <=> i <= k
<1> DEFINE P == {i \in 1..Len(s) : s[i].start <= now}
           k == Cardinality(P)
<1>0. Len(s) \in Nat /\ Len(s) >= 1 /\ s[1].start <= now /\ \A i \in 1..Len(s) : s[i].start \in Nat
  BY FrameTypes DEF Begun
<1>1. IsFiniteSet(1..Len(s)) /\ Cardinality(1..Len(s)) = Len(s)
  BY <1>0, FS_Interval
<1>2. P \subseteq 1..Len(s)
  OBVIOUS
<1>3. IsFiniteSet(P) /\ k \in Nat /\ k <= Len(s)
  BY <1>1, <1>2, FS_Subset, FS_CardinalityType
<1>4. \A i \in P : \A j \in 1..i : j \in P
  <2> SUFFICES ASSUME NEW i \in P, NEW j \in 1..i PROVE j \in P
    OBVIOUS
  <2>1. i \in 1..Len(s) /\ s[i].start <= now /\ j \in 1..Len(s) /\ (j < i \/ j = i)
    BY <1>0
  <2>2. s[j].start <= s[i].start
    BY <1>0, <2>1 DEF Ordered
  <2>3. s[j].start <= now
    BY <1>0, <2>1, <2>2
  <2>4. QED
    BY <2>1, <2>3
<1>5. \A i \in P : i <= k
  <2> SUFFICES ASSUME NEW i \in P PROVE i <= k
    OBVIOUS
  <2>1. 1..i \subseteq P /\ i \in Nat
    BY <1>4
  <2>2. Cardinality(1..i) <= k
    BY <1>3, <2>1, FS_Subset
  <2>3. Cardinality(1..i) = i
    BY <2>1, FS_Interval
  <2>4. QED
    BY <2>2, <2>3
<1>6. P \subseteq 1..k
  BY <1>3, <1>5
<1>7. IsFiniteSet(1..k) /\ Cardinality(1..k) = k
  BY <1>3, FS_Interval
<1>8. P = 1..k
  BY <1>3, <1>6, <1>7, FS_Subset
<1>9. 1 \in P
  BY <1>0
<1> HIDE DEF k
<1>10. k \in 1..Len(s)
  BY <1>3, <1>5, <1>9
<1>11. \A i \in 1..Len(s) : s[i].start <= now <=> i <= k
  BY <1>8, <1>10
<1>12. QED
  BY <1>10, <1>11 DEF k
\* The frame that is chosen is that of the latest change, if the decoder is ahead.
LEMMA ChosenIsLatest ==
  ASSUME NEW s \in Seq([start : Nat, drawn : BOOLEAN]), NEW now \in Nat, NEW upto \in Nat,
         NEW times \in SUBSET Nat, Clear(s, now, upto, times), now < upto, NEW k \in 1..Len(s),
         \A i \in 1..Len(s) : s[i].start <= now <=> i <= k
  PROVE  /\ s[k].start = Max({0} \cup {t \in times : t <= now})
         /\ k \in Drawn(s) <=> s[k].start \in times
<1> DEFINE M == {0} \cup {t \in times : t <= now}
           f == s[k].start
<1>0. \A t \in times : t \in Nat
  OBVIOUS
<1>1. Len(s) \in Nat /\ \A i \in 1..Len(s) : s[i].start \in Nat
  BY FrameTypes
<1>2. f \in Nat /\ f <= now /\ 1 \in 1..Len(s) /\ 1 <= k
  BY <1>1
<1>3. k \in Drawn(s) => f \in times
  BY DEF Clear, Genuine
<1>4. k \notin Drawn(s) => f = 0
  BY DEF Clear, Genuine
<1>5. f \in M
  BY <1>2, <1>3, <1>4
<1>6. \A i \in 1..Len(s) : i <= k => s[i].start <= f
  <2> SUFFICES ASSUME NEW i \in 1..Len(s), i <= k PROVE s[i].start <= f
    OBVIOUS
  <2>1. i < k \/ i = k
    BY <1>1
  <2>2. i < k => s[i].start <= f
    BY DEF Clear, Ordered
  <2>3. QED
    BY <1>1, <2>1, <2>2
<1>7. \A t \in M : t <= f
  <2> SUFFICES ASSUME NEW t \in times, t <= now PROVE t <= f
    BY <1>2
  <2>0. t \in Nat /\ t < upto
    <3>1. t \in Nat
      BY <1>0
    <3>2. \A a, b, c \in Nat : a <= b /\ b < c => a < c
      OBVIOUS
    <3>3. QED
      BY <3>1, <3>2
  <2>1. CASE t < s[1].start
    BY <1>1, <1>2, <1>6, <2>1
  <2>2. CASE s[1].start <= t
    <3>2. PICK i \in Drawn(s) : s[i].start = t
      BY <2>0, <2>2 DEF Clear, Complete
    <3>3. i \in 1..Len(s) /\ i <= k
      BY <3>2 DEF Drawn
    <3>4. QED
      BY <1>6, <3>2, <3>3
  <2>3. t \in Nat /\ s[1].start \in Nat
    BY <2>0, <1>1, <1>2
  <2>4. QED
    BY <2>1, <2>2, <2>3
<1>8. \A t \in M : t \in Nat
  BY <1>0
<1>9. f = Max(M)
  <2>1. PICK x \in M : x = Max(M) /\ \A y \in M : x >= y
    BY <1>2, <1>5, <1>7, <1>8 DEF Max
  <2>2. QED
    BY <1>2, <1>5, <1>7, <1>8, <2>1
<1>10. ASSUME f \in times PROVE k \in Drawn(s)
  <2> SUFFICES ASSUME k \notin Drawn(s) PROVE FALSE
    OBVIOUS
  <2>1. f = 0 /\ k = 1
    BY DEF Clear, Genuine
  <2>2. PICK i \in Drawn(s) : s[i].start = f
    BY <1>10, <1>2, <2>1 DEF Clear, Complete
  <2>3. i \in 1..Len(s) /\ i <= k
    BY <1>2, <2>2 DEF Drawn
  <2>4. i = 1
    BY <2>1, <2>3
  <2>5. QED
    BY <2>1, <2>2, <2>4
<1>11. QED
  BY <1>3, <1>9, <1>10

\* Dropping the frames before one that is not in the future loses no change that is awaited.
LEMMA ClearAfterDrop ==
  ASSUME NEW s \in Seq([start : Nat, drawn : BOOLEAN]), NEW now \in Nat, NEW upto \in Nat,
         NEW times \in SUBSET Nat, Clear(s, now, upto, times), NEW m \in 2..Len(s),
         s[m].start <= now
  PROVE  SubSeq(s, m, Len(s)) \in Seq([start : Nat, drawn : BOOLEAN]) /\ Clear(SubSeq(s, m, Len(s)), now, upto, times)
<1> DEFINE n == Len(s)
           r == SubSeq(s, m, n)
<1>1. n \in Nat /\ \A i \in 1..n : s[i].start \in Nat
  BY FrameTypes
<1>2. /\ r \in Seq([start : Nat, drawn : BOOLEAN]) /\ Len(r) = n - m + 1
      /\ \A i \in 1..Len(r) : r[i] = s[i + m - 1]
  BY Suffix
<1>3. Len(r) \in Nat /\ Len(r) >= 1 /\ \A i \in 1..Len(r) : i + m - 1 \in 2..n
  BY <1>1, <1>2
<1>4. 2..n \subseteq 1..n /\ \A i \in 2..n : i # 1
  BY <1>1
<1>5. \A i \in 2..n : i \in Drawn(s)
  BY <1>4 DEF Clear, Genuine
<1> HIDE DEF r
<1>6. \A i \in 1..Len(r) : i \in Drawn(r)
  <2> SUFFICES ASSUME NEW i \in 1..Len(r) PROVE i \in Drawn(r)
    OBVIOUS
  <2>1. i + m - 1 \in Drawn(s) /\ r[i] = s[i + m - 1]
    BY <1>2, <1>3, <1>5
  <2>2. QED
    BY <2>1 DEF Drawn
<1>7. Begun(r, now) /\ r[1] = s[m]
  <2>1. 1 \in 1..Len(r) /\ 1 + m - 1 = m
    BY <1>3
  <2>2. r[1] = s[m]
    BY <1>2, <2>1
  <2>3. QED
    BY <1>3, <2>2 DEF Begun
<1>8. \A i, j \in 1..Len(r) : i < j => r[i].start < r[j].start
  <2> SUFFICES ASSUME NEW i \in 1..Len(r), NEW j \in 1..Len(r), i < j PROVE r[i].start < r[j].start
    OBVIOUS
  <2>1. i + m - 1 \in Drawn(s) /\ j + m - 1 \in 1..n /\ i + m - 1 < j + m - 1
    BY <1>3, <1>4, <1>5
  <2>2. s[i + m - 1].start < s[j + m - 1].start
    BY <2>1 DEF Clear, Ordered
  <2>3. QED
    BY <1>2, <2>2
<1>9. Ordered(r)
  <2>1. \A i \in 1..Len(r) : r[i].start \in Nat
    BY <1>2, FrameTypes
  <2>2. \A i, j \in 1..Len(r) : i < j => r[i].start <= r[j].start
    <3>1. \A a, b \in Nat : a < b => a <= b
      OBVIOUS
    <3>2. QED
      BY <1>8, <2>1, <3>1
  <2>3. \A i \in Drawn(r) : i \in 1..Len(r)
    BY DEF Drawn
  <2>4. QED
    BY <1>8, <2>2, <2>3 DEF Ordered
<1>10. Genuine(r, upto, times)
  <2>1. \A i \in Drawn(r) : i \in 1..Len(r)
    BY DEF Drawn
  <2>2. \A i \in Drawn(r) : r[i].start \in times /\ r[i].start < upto
    BY <1>2, <1>3, <1>5, <2>1 DEF Clear, Genuine
  <2>3. QED
    BY <1>6, <2>2 DEF Genuine
<1>11. Complete(r, upto, times)
  <2> SUFFICES ASSUME NEW t \in times, r[1].start <= t, t < upto
               PROVE  \E i \in Drawn(r) : r[i].start = t
    BY DEF Complete
  <2>1. r[1].start = s[m].start
    BY <1>7
  <2>2. s[1].start <= s[m].start /\ s[1].start \in Nat /\ s[m].start \in Nat
    <3>1. 1 \in 1..n /\ m \in 1..n /\ 1 < m
      BY <1>1
    <3>2. QED
      BY <1>1, <3>1 DEF Clear, Ordered
  <2>2a. s[1].start <= t
    <3>1. t \in Nat
      OBVIOUS
    <3>2. QED
      BY <2>1, <2>2, <3>1
  <2>3. PICK i \in Drawn(s) : s[i].start = t
    BY <2>2a DEF Clear, Complete
  <2>4. i \in 1..n /\ m \in 1..n
    BY <1>4 DEF Drawn
  <2>5. i < m => s[i].start < s[m].start
    BY <2>4 DEF Clear, Ordered
  <2>6. m <= i
    <3>1. ~(s[i].start < s[m].start)
      BY <2>1, <2>2, <2>3
    <3>2. QED
      BY <1>1, <2>4, <2>5, <3>1
  <2>7. i - m + 1 \in 1..Len(r) /\ (i - m + 1) + m - 1 = i
    BY <1>1, <1>2, <2>4, <2>6
  <2>8. r[i - m + 1] = s[i]
    BY <1>2, <2>7
  <2>9. QED
    BY <1>6, <2>3, <2>7, <2>8
<1>12. QED
  BY <1>2, <1>7, <1>9, <1>10, <1>11 DEF Clear, r
LEMMA DrawnAreFrames == \A s : \A i \in Drawn(s) : i \in 1..Len(s)
BY DEF Drawn

LEMMA ClearAtStart ==
  ASSUME NEW times \in SUBSET Times
  PROVE  <<ZeroFrame>> \in Seq([start : Nat, drawn : BOOLEAN]) /\ Clear(<<ZeroFrame>>, 0, 0, times)
<1> DEFINE s == <<ZeroFrame>>
<1>1. ZeroFrame \in [start : Nat, drawn : BOOLEAN] /\ ZeroFrame.start = 0 /\ ~ZeroFrame.drawn
  BY DEF ZeroFrame
<1>2. \A f : Len(<<f>>) = 1 /\ <<f>>[1] = f
  OBVIOUS
<1>3. \A S : \A f \in S : <<f>> \in Seq(S)
  OBVIOUS
<1>4. Len(s) = 1 /\ s[1] = ZeroFrame /\ s \in Seq([start : Nat, drawn : BOOLEAN])
  BY <1>1, <1>2, <1>3
<1> HIDE DEF s
<1>5. 1..Len(s) = {1} /\ Drawn(s) = {}
  BY <1>1, <1>4 DEF Drawn
<1>6. Begun(s, 0)
  BY <1>1, <1>4 DEF Begun
<1>7. Ordered(s)
  BY <1>5 DEF Ordered
<1>8. Genuine(s, 0, times)
  BY <1>1, <1>4, <1>5 DEF Genuine
<1>9. Complete(s, 0, times)
  <2>1. \A t \in times : t \in Nat
    BY TimesOfMultiples
  <2>2. \A t \in Nat : ~(t < 0)
    OBVIOUS
  <2>3. QED
    BY <2>1, <2>2 DEF Complete
<1>10. QED
  BY <1>4, <1>6, <1>7, <1>8, <1>9 DEF Clear, s

LEMMA ClearLater ==
  ASSUME NEW s \in Seq([start : Nat, drawn : BOOLEAN]), NEW now \in Nat, NEW later \in Nat,
         now <= later, NEW upto, NEW times, Clear(s, now, upto, times)
  PROVE  Clear(s, later, upto, times)
<1>1. Begun(s, now) /\ Len(s) \in Nat /\ \A i \in 1..Len(s) : s[i].start \in Nat
  BY FrameTypes DEF Clear
<1>2. 1 \in 1..Len(s) /\ s[1].start <= now
  BY <1>1 DEF Begun
<1>3. s[1].start <= later
  BY <1>1, <1>2
<1>4. Begun(s, later)
  BY <1>1, <1>3 DEF Begun
<1>5. QED
  BY <1>4 DEF Clear

\* A moment at which the picture does not change needs no frame.
LEMMA ClearAfterSkip ==
  ASSUME NEW s, NEW now, NEW d \in Nat, \E k \in Nat : d = Rate * k,
         NEW times \in SUBSET Times, d \notin times, Clear(s, now, d, times)
  PROVE  Clear(s, now, d + Rate, times)
<1>1. \A t \in times : t < d + Rate => t < d
  BY NextTime
<1>2. \A t \in times : t < d => t < d + Rate
  <2>1. Rate \in Nat
    BY SubtitleAssumption
  <2>2. \A t \in times : t \in Nat
    BY TimesOfMultiples
  <2>3. QED
    BY <2>1, <2>2
<1>3. Genuine(s, d + Rate, times)
  BY <1>2 DEF Clear, Genuine
<1>4. Complete(s, d + Rate, times)
  BY <1>1 DEF Clear, Complete
<1>5. QED
  BY <1>3, <1>4 DEF Clear

LEMMA Appended ==
  ASSUME NEW S, NEW s \in Seq(S), NEW f \in S
  PROVE  LET r == Append(s, f)
         IN  /\ r \in Seq(S) /\ Len(r) = Len(s) + 1 /\ r[Len(s) + 1] = f
             /\ \A i \in 1..Len(s) : r[i] = s[i]
OBVIOUS

\* A change is queued behind those before it.
LEMMA ClearAfterPush ==
  ASSUME NEW s \in Seq([start : Nat, drawn : BOOLEAN]), NEW now \in Nat,
         NEW d \in Nat, \E k \in Nat : d = Rate * k,
         NEW times \in SUBSET Times, d \in times, Clear(s, now, d, times)
  PROVE  LET r == Append(s, [start |-> d, drawn |-> TRUE])
         IN  r \in Seq([start : Nat, drawn : BOOLEAN]) /\ Clear(r, now, d + Rate, times)
<1> DEFINE f == [start |-> d, drawn |-> TRUE]
           r == Append(s, f)
           n == Len(s)
<1>1. n \in Nat /\ n >= 1 /\ \A i \in 1..n : s[i].start \in Nat
  BY FrameTypes DEF Clear, Begun
<1>2. f \in [start : Nat, drawn : BOOLEAN]
  OBVIOUS
<1>3. /\ r \in Seq([start : Nat, drawn : BOOLEAN]) /\ Len(r) = n + 1 /\ r[n + 1] = f
      /\ \A i \in 1..n : r[i] = s[i]
  BY <1>2, Appended
<1>4. f.start = d /\ f.drawn
  OBVIOUS
<1> HIDE DEF f, r
<1>5. 1..Len(r) = (1..n) \cup {n + 1} /\ n + 1 \notin 1..n
  BY <1>1, <1>3
<1>6. Drawn(r) = Drawn(s) \cup {n + 1}
  BY <1>3, <1>4, <1>5 DEF Drawn
<1>7. \A i \in 1..n : s[i].start <= d
  <2> SUFFICES ASSUME NEW i \in 1..n PROVE s[i].start <= d
    OBVIOUS
  <2>1. CASE i \in Drawn(s)
    <3>1. s[i].start < d
      BY <2>1 DEF Clear, Genuine
    <3>2. QED
      BY <1>1, <3>1
  <2>2. CASE i \notin Drawn(s)
    <3>1. s[i].start = 0
      BY <2>2 DEF Clear, Genuine
    <3>2. QED
      BY <3>1
  <2>3. QED
    BY <2>1, <2>2
<1>8. Begun(r, now)
  <2>1. 1 \in 1..n /\ n + 1 >= 1
    BY <1>1
  <2>2. s[1].start <= now
    BY DEF Clear, Begun
  <2>3. QED
    BY <1>3, <2>1, <2>2 DEF Begun
<1>9. Ordered(r)
  <2>1. ASSUME NEW i \in 1..Len(r), NEW j \in 1..Len(r), i < j
        PROVE  i \in 1..n /\ (j \in 1..n \/ j = n + 1)
    BY <1>1, <1>3, <2>1
  <2>2. ASSUME NEW i \in 1..Len(r), NEW j \in 1..Len(r), i < j
        PROVE  r[i].start <= r[j].start
    <3>1. CASE j \in 1..n
      <4>1. s[i].start <= s[j].start
        BY <2>1, <2>2, <3>1 DEF Clear, Ordered
      <4>2. QED
        BY <1>3, <2>1, <2>2, <3>1, <4>1
    <3>2. CASE j = n + 1
      BY <1>3, <1>4, <1>7, <2>1, <2>2, <3>2
    <3>3. QED
      BY <2>1, <2>2, <3>1, <3>2
  <2>3. ASSUME NEW i \in Drawn(r), NEW j \in 1..Len(r), i < j
        PROVE  r[i].start < r[j].start
    <3>1. i \in 1..Len(r)
      BY DrawnAreFrames
    <3>2. i \in 1..n /\ (j \in 1..n \/ j = n + 1)
      BY <2>1, <2>3, <3>1
    <3>3. i \in Drawn(s)
      BY <1>5, <1>6, <3>2
    <3>4. CASE j \in 1..n
      <4>1. s[i].start < s[j].start
        BY <2>3, <3>3, <3>4 DEF Clear, Ordered
      <4>2. QED
        BY <1>3, <3>2, <3>4, <4>1
    <3>5. CASE j = n + 1
      <4>1. s[i].start < d
        BY <3>3 DEF Clear, Genuine
      <4>2. QED
        BY <1>3, <1>4, <3>2, <3>5, <4>1
    <3>6. QED
      BY <3>2, <3>4, <3>5
  <2>4. QED
    BY <2>2, <2>3 DEF Ordered
<1>10. Genuine(r, d + Rate, times)
  <2>1. Rate \in Nat /\ d < d + Rate
    BY SubtitleAssumption
  <2>2. ASSUME NEW i \in Drawn(s) PROVE r[i].start \in times /\ r[i].start < d + Rate
    <3>1. i \in 1..n /\ r[i] = s[i]
      BY <1>3, DrawnAreFrames
    <3>2. s[i].start \in times /\ s[i].start < d
      BY DEF Clear, Genuine
    <3>3. QED
      BY <1>1, <2>1, <3>1, <3>2
  <2>3. r[n + 1].start \in times /\ r[n + 1].start < d + Rate
    BY <1>3, <1>4, <2>1
  <2>4. ASSUME NEW i \in 1..Len(r), i \notin Drawn(r) PROVE i = 1 /\ r[i].start = 0
    <3>1. i \in 1..n /\ i \notin Drawn(s)
      BY <1>5, <1>6, <2>4
    <3>2. i = 1 /\ s[i].start = 0
      BY <3>1 DEF Clear, Genuine
    <3>3. QED
      BY <1>3, <3>1, <3>2
  <2>5. QED
    BY <1>6, <2>2, <2>3, <2>4 DEF Genuine
<1>11. Complete(r, d + Rate, times)
  <2> SUFFICES ASSUME NEW t \in times, r[1].start <= t, t < d + Rate
               PROVE  \E i \in Drawn(r) : r[i].start = t
    BY DEF Complete
  <2>1. 1 \in 1..n /\ r[1] = s[1]
    BY <1>1, <1>3
  <2>2. t < d \/ t = d
    BY NextTime
  <2>3. CASE t < d
    <3>1. PICK i \in Drawn(s) : s[i].start = t
      BY <2>1, <2>3 DEF Clear, Complete
    <3>2. r[i] = s[i] /\ i \in Drawn(r)
      BY <1>3, <1>6, DrawnAreFrames
    <3>3. QED
      BY <3>1, <3>2
  <2>4. CASE t = d
    BY <1>3, <1>4, <1>6, <2>4
  <2>5. QED
    BY <2>2, <2>3, <2>4
<1>12. QED
  BY <1>3, <1>8, <1>9, <1>10, <1>11 DEF Clear, f, r
LEMMA PictureInit == Init => PictureInv
<1> SUFFICES ASSUME Init PROVE PictureInv
  OBVIOUS
<1>1. OwnInv
  BY OwnInit
<1>2. QueueTypes
  <2>1. <<>> \in Seq([start : Nat, drawn : BOOLEAN])
    BY EmptyIsASeq
  <2>2. 0 \in Nat /\ 0 = Rate * 0
    BY SubtitleAssumption
  <2>3. QED
    BY <2>1, <2>2 DEF Init, QueueTypes
<1>3. QueuesAreClear
  BY DEF Init, QueuesAreClear, Idle, Script
<1>4. QED
  BY <1>1, <1>2, <1>3 DEF PictureInv

\* What a step of the subtitle thread says of the layer it works on.
LEMMA DecMoves ==
  ASSUME OwnInv, NEW from \in Working, NEW to, Step(from, to)
  PROVE  /\ dec.layer \in Layer /\ open[dec.layer]
         /\ dec = [at |-> from, layer |-> dec.layer] /\ dec' = [at |-> to, layer |-> dec.layer]
<1>1. dec # Idle
  BY DEF Step, Idle, Working
<1>2. dec \in [at : Working, layer : Layer]
  BY <1>1 DEF OwnInv, OwnTypes
<1>3. QED
  BY <1>1, <1>2 DEF OwnInv, ServedIsOpen, Step

\* A layer whose queue, clock and file are left alone, and where the thread neither begins
\* nor ends to advance or push.
LEMMA QueueKept ==
  ASSUME NEW l \in Layer, QueuesAreClear,
         open'[l] = open[l], frames'[l] = frames[l], display'[l] = display[l],
         changes'[l] = changes[l], decoded'[l] = decoded[l],
         \A at \in {"advance", "push"} : dec' = [at |-> at, layer |-> l] <=> dec = [at |-> at, layer |-> l]
  PROVE  /\ open'[l] => Clear(frames'[l], display'[l], Upto(l)', changes'[l])
         /\ dec' = [at |-> "push", layer |-> l] => decoded'[l] \in changes'[l]
<1>1. Upto(l)' = Upto(l)
  BY DEF Upto
<1>2. QED
  BY <1>1 DEF QueuesAreClear

\* The thread looks for room and renders: only a picture that did not change is passed over.
LEMMA ClearRender ==
  ASSUME PictureInv, TakeJob \/ AwaitRoom \/ Extract \/ PostEnd
  PROVE  QueueTypes' /\ QueuesAreClear'
<1>1. /\ changes' = changes /\ open' = open /\ decoded' = decoded /\ display' = display
      /\ frames' = frames /\ picture' = picture /\ mpc' = mpc
  BY DEF TakeJob, AwaitRoom, Extract, PostEnd, perLayer
<1>2. QueueTypes'
  BY <1>1 DEF PictureInv, QueueTypes
<1> DEFINE d == dec.layer
<1>2a. ASSUME Extract
      PROVE  /\ d \in Layer /\ open[d] /\ dec = [at |-> "extract", layer |-> d]
             /\ \/ dec' = [at |-> "post", layer |-> d]
                \/ dec' = [at |-> "push", layer |-> d] /\ decoded[d] \in changes[d]
                \/ dec' = [at |-> "advance", layer |-> d] /\ decoded[d] \notin changes[d]
  <2>1. \/ Step("extract", "post")
        \/ Step("extract", "push") /\ decoded[d] \in changes[d]
        \/ Step("extract", "advance") /\ decoded[d] \notin changes[d]
    BY <1>2a DEF Extract
  <2>2. QED
    BY <2>1, DecMoves DEF PictureInv, Working
<1> HIDE DEF d
<1>3. ASSUME NEW l \in Layer
      PROVE  /\ open'[l] => Clear(frames'[l], display'[l], Upto(l)', changes'[l])
             /\ dec' = [at |-> "push", layer |-> l] => decoded'[l] \in changes'[l]
  <2>1. CASE \A at \in {"advance", "push"} :
               dec' # [at |-> at, layer |-> l] /\ dec # [at |-> at, layer |-> l]
    BY <1>1, <2>1, QueueKept DEF PictureInv
  <2>2. CASE Extract /\ dec'.layer = l /\ dec'.at = "push"
    <3>2. /\ dec = [at |-> "extract", layer |-> l] /\ dec' = [at |-> "push", layer |-> l]
          /\ decoded[l] \in changes[l]
      BY <1>2a, <2>2
    <3>3. Upto(l)' = Upto(l) /\ decoded[l] \in changes[l]
      BY <1>1, <3>2 DEF Upto
    <3>4. QED
      BY <1>1, <3>3 DEF PictureInv, QueuesAreClear
  <2>3. CASE Extract /\ dec'.layer = l /\ dec'.at = "advance"
    <3>2. /\ dec = [at |-> "extract", layer |-> l] /\ dec' = [at |-> "advance", layer |-> l]
          /\ open[l] /\ decoded[l] \notin changes[l]
      BY <1>2a, <2>3
    <3>3. Upto(l) = decoded[l] /\ Upto(l)' = decoded[l] + Rate /\ decoded[l] \notin changes[l]
      BY <1>1, <3>2 DEF Upto
    <3>4. Clear(frames[l], display[l], decoded[l], changes[l])
      BY <3>2, <3>3 DEF PictureInv, QueuesAreClear
    <3>5. Clear(frames[l], display[l], decoded[l] + Rate, changes[l])
      BY <3>3, <3>4, ClearAfterSkip DEF PictureInv, QueueTypes
    <3>6. QED
      BY <1>1, <3>2, <3>3, <3>5
  <2>4. \/ \A at \in {"advance", "push"} : dec' # [at |-> at, layer |-> l] /\ dec # [at |-> at, layer |-> l]
        \/ Extract /\ dec'.layer = l /\ dec'.at = "push"
        \/ Extract /\ dec'.layer = l /\ dec'.at = "advance"
    <3>1. CASE TakeJob
      BY <3>1 DEF TakeJob, Idle
    <3>2. CASE PostEnd
      BY <3>2 DEF PostEnd, Idle
    <3>3. CASE AwaitRoom
      <4>1. Step("room", "post") \/ Step("room", "extract")
        BY <3>3 DEF AwaitRoom
      <4>2. dec.at = "room" /\ dec'.at \in {"post", "extract"}
        BY <4>1, DecMoves DEF Step, PictureInv, Working
      <4>3. QED
        BY <4>2
    <3>4. CASE Extract
      BY <1>2a, <3>4
    <3>5. QED
      BY <3>1, <3>2, <3>3, <3>4
  <2>5. QED
    BY <2>1, <2>2, <2>3, <2>4
<1>4. QueuesAreClear'
  BY <1>1, <1>3 DEF PictureInv, QueuesAreClear
<1>5. QED
  BY <1>2, <1>4

LEMMA ClearPush ==
  ASSUME PictureInv, Push
  PROVE  QueueTypes' /\ QueuesAreClear'
<1>0. Step("push", "advance") /\ dec.layer \in Layer
  BY DecMoves DEF Push, PictureInv, Working
<1>0a. PICK l \in Layer : l = dec.layer
  BY <1>0
<1> DEFINE r == Append(frames[l], [start |-> decoded[l], drawn |-> TRUE])
<1>1. /\ changes' = changes /\ open' = open /\ decoded' = decoded /\ display' = display
      /\ picture' = picture /\ mpc' = mpc /\ Step("push", "advance")
      /\ frames' = [frames EXCEPT ![l] = r]
  BY <1>0a DEF Push
<1>2. /\ l \in Layer /\ open[l]
      /\ dec = [at |-> "push", layer |-> l] /\ dec' = [at |-> "advance", layer |-> l]
  BY <1>1, <1>0a, DecMoves DEF PictureInv, Working
<1>3. /\ frames[l] \in Seq([start : Nat, drawn : BOOLEAN]) /\ display[l] \in Nat
      /\ decoded[l] \in Nat /\ \E k \in Nat : decoded[l] = Rate * k
      /\ changes[l] \in SUBSET Times
  BY <1>2 DEF PictureInv, QueueTypes
<1>4. Upto(l) = decoded[l] /\ Upto(l)' = decoded[l] + Rate /\ decoded[l] \in changes[l]
  BY <1>1, <1>2 DEF Upto, PictureInv, QueuesAreClear
<1>5. Clear(frames[l], display[l], decoded[l], changes[l])
  BY <1>2, <1>4 DEF PictureInv, QueuesAreClear
<1>6. r \in Seq([start : Nat, drawn : BOOLEAN]) /\ Clear(r, display[l], decoded[l] + Rate, changes[l])
  BY <1>3, <1>4, <1>5, ClearAfterPush
<1> HIDE DEF r
<1>7. /\ frames' \in [Layer -> Seq([start : Nat, drawn : BOOLEAN])] /\ frames'[l] = r
      /\ \A k \in Layer : k # l => frames'[k] = frames[k]
  BY <1>1, <1>2, <1>6 DEF PictureInv, QueueTypes
<1>8. QueueTypes'
  BY <1>1, <1>7 DEF PictureInv, QueueTypes
<1>9. ASSUME NEW k \in Layer
      PROVE  /\ open'[k] => Clear(frames'[k], display'[k], Upto(k)', changes'[k])
             /\ dec' = [at |-> "push", layer |-> k] => decoded'[k] \in changes'[k]
  <2>1. CASE k = l
    <3>1. Clear(frames'[l], display'[l], Upto(l)', changes'[l])
      BY <1>1, <1>4, <1>6, <1>7
    <3>2. dec' # [at |-> "push", layer |-> l]
      BY <1>2
    <3>3. Upto(k)' = Upto(l)'
      BY <2>1 DEF Upto
    <3>4. QED
      BY <2>1, <3>1, <3>2, <3>3
  <2>2. CASE k # l
    <3>1. \A at \in {"advance", "push"} :
            dec' # [at |-> at, layer |-> k] /\ dec # [at |-> at, layer |-> k]
      BY <1>2, <2>2
    <3>2. QED
      BY <1>1, <1>7, <2>2, <3>1, QueueKept DEF PictureInv
  <2>3. QED
    BY <2>1, <2>2
<1>10. QueuesAreClear'
  BY <1>1, <1>9 DEF PictureInv, QueuesAreClear
<1>11. QED
  BY <1>8, <1>10
LEMMA ClearAdvance ==
  ASSUME PictureInv, Advance
  PROVE  QueueTypes' /\ QueuesAreClear'
<1>0. Step("advance", "room") /\ dec.layer \in Layer
  BY DecMoves DEF Advance, PictureInv, Working
<1>0a. PICK l \in Layer : l = dec.layer
  BY <1>0
<1>1. /\ changes' = changes /\ open' = open /\ frames' = frames /\ display' = display
      /\ picture' = picture /\ mpc' = mpc /\ Step("advance", "room")
      /\ decoded' = [decoded EXCEPT ![l] = @ + Rate]
  BY <1>0a DEF Advance
<1>2. /\ l \in Layer
      /\ dec = [at |-> "advance", layer |-> l] /\ dec' = [at |-> "room", layer |-> l]
  BY <1>1, <1>0a, DecMoves DEF PictureInv, Working
<1>3. /\ decoded' \in [Layer -> Nat] /\ decoded'[l] = decoded[l] + Rate
      /\ \A k \in Layer : k # l => decoded'[k] = decoded[k]
  <2>1. Rate \in Nat
    BY SubtitleAssumption
  <2>2. QED
    BY <1>1, <1>2, <2>1 DEF PictureInv, QueueTypes
<1>4. \A k \in Layer : \E q \in Nat : decoded'[k] = Rate * q
  <2> SUFFICES ASSUME NEW k \in Layer PROVE \E q \in Nat : decoded'[k] = Rate * q
    OBVIOUS
  <2>1. PICK q \in Nat : decoded[k] = Rate * q
    BY DEF PictureInv, QueueTypes
  <2>2. q + 1 \in Nat /\ Rate * (q + 1) = Rate * q + Rate
    BY SubtitleAssumption
  <2>3. decoded'[k] = Rate * q \/ decoded'[k] = Rate * (q + 1)
    BY <1>3, <2>1, <2>2
  <2>4. QED
    BY <2>2, <2>3
<1>5. QueueTypes'
  BY <1>1, <1>3, <1>4 DEF PictureInv, QueueTypes
<1>6. Upto(l)' = Upto(l)
  BY <1>2, <1>3 DEF Upto
<1>7. ASSUME NEW k \in Layer
      PROVE  /\ open'[k] => Clear(frames'[k], display'[k], Upto(k)', changes'[k])
             /\ dec' = [at |-> "push", layer |-> k] => decoded'[k] \in changes'[k]
  <2>1. CASE k = l
    <3>1. open[k] => Clear(frames[k], display[k], Upto(k), changes[k])
      BY DEF PictureInv, QueuesAreClear
    <3>2. Upto(k)' = Upto(k)
      BY <1>2, <1>3, <2>1 DEF Upto
    <3>3. dec' # [at |-> "push", layer |-> k]
      BY <1>2
    <3>4. QED
      BY <1>1, <3>1, <3>2, <3>3
  <2>2. CASE k # l
    <3>1. \A at \in {"advance", "push"} :
            dec' # [at |-> at, layer |-> k] /\ dec # [at |-> at, layer |-> k]
      BY <1>2, <2>2
    <3>2. QED
      BY <1>1, <1>3, <2>2, <3>1, QueueKept DEF PictureInv
  <2>3. QED
    BY <2>1, <2>2
<1>8. QueuesAreClear'
  BY <1>1, <1>7 DEF PictureInv, QueuesAreClear
<1>9. QED
  BY <1>5, <1>8

LEMMA ClearTick ==
  ASSUME PictureInv, NEW l \in Layer, Tick(l)
  PROVE  QueueTypes' /\ QueuesAreClear'
<1>1. /\ changes' = changes /\ open' = open /\ frames' = frames /\ decoded' = decoded
      /\ picture' = picture /\ dec' = dec /\ open[l]
      /\ mpc' = [op |-> "update", layer |-> l]
      /\ \E n \in 1..MaxLag : display' = [display EXCEPT ![l] = @ + n * Frame]
  BY DEF Tick
<1>2. PICK n \in 1..MaxLag : display' = [display EXCEPT ![l] = @ + n * Frame]
  BY <1>1
<1>3. n * Frame \in Nat /\ display[l] \in Nat
  BY SubtitleAssumption DEF PictureInv, QueueTypes
<1>4. /\ display' \in [Layer -> Nat] /\ display'[l] = display[l] + n * Frame
      /\ \A k \in Layer : k # l => display'[k] = display[k]
  BY <1>2, <1>3 DEF PictureInv, QueueTypes
<1>5. QueueTypes'
  BY <1>1, <1>4 DEF PictureInv, QueueTypes
<1>6. ASSUME NEW k \in Layer
      PROVE  /\ open'[k] => Clear(frames'[k], display'[k], Upto(k)', changes'[k])
             /\ dec' = [at |-> "push", layer |-> k] => decoded'[k] \in changes'[k]
  <2>1. Upto(k)' = Upto(k) /\ display[k] \in Nat /\ display'[k] \in Nat /\ display[k] <= display'[k]
    <3>1. Upto(k)' = Upto(k)
      BY <1>1 DEF Upto
    <3>2. display[k] \in Nat /\ display'[k] \in Nat
      BY <1>4 DEF PictureInv, QueueTypes
    <3>3. QED
      BY <1>3, <1>4, <3>1, <3>2
  <2>2. frames[k] \in Seq([start : Nat, drawn : BOOLEAN])
    BY DEF PictureInv, QueueTypes
  <2>3. open[k] => Clear(frames[k], display[k], Upto(k), changes[k])
    BY DEF PictureInv, QueuesAreClear
  <2>4. open[k] => Clear(frames[k], display'[k], Upto(k), changes[k])
    BY <2>1, <2>2, <2>3, ClearLater
  <2>5. dec = [at |-> "push", layer |-> k] => decoded[k] \in changes[k]
    BY DEF PictureInv, QueuesAreClear
  <2>6. QED
    BY <1>1, <2>1, <2>4, <2>5
<1>7. \A k \in Layer : mpc' = [op |-> "update", layer |-> k] => open'[k]
  <2>1. \A k : [op |-> "update", layer |-> l] = [op |-> "update", layer |-> k] => k = l
    OBVIOUS
  <2>2. QED
    BY <1>1, <2>1
<1>8. QueuesAreClear'
  BY <1>6, <1>7 DEF QueuesAreClear
<1>9. QED
  BY <1>5, <1>8

\* Where the chosen frame is, and what it is the picture of.
LEMMA ShownFrame ==
  ASSUME PictureInv, NEW l \in Layer, open[l]
  PROVE  /\ Chosen(l) \in 1..Len(frames[l])
         /\ \A i \in 1..Len(frames[l]) : frames[l][i].start <= display[l] <=> i <= Chosen(l)
         /\ Ahead(l) => /\ frames[l][Chosen(l)].start = Latest(l)
                        /\ Chosen(l) \in Drawn(frames[l]) <=> Latest(l) \in changes[l]
<1>1. /\ frames[l] \in Seq([start : Nat, drawn : BOOLEAN]) /\ display[l] \in Nat
      /\ decoded[l] \in Nat /\ changes[l] \in SUBSET Times
  BY DEF PictureInv, QueueTypes
<1>2. Clear(frames[l], display[l], Upto(l), changes[l])
  BY DEF PictureInv, QueuesAreClear
<1>3. /\ Chosen(l) \in 1..Len(frames[l])
      /\ \A i \in 1..Len(frames[l]) : frames[l][i].start <= display[l] <=> i <= Chosen(l)
  BY <1>1, <1>2, ChosenIsLast DEF Clear, Chosen
<1>4. ASSUME Ahead(l)
      PROVE  /\ frames[l][Chosen(l)].start = Latest(l)
             /\ Chosen(l) \in Drawn(frames[l]) <=> Latest(l) \in changes[l]
  <2>1. Upto(l) \in Nat /\ display[l] < Upto(l)
    <3>1. Rate \in Nat /\ Rate > 0
      BY SubtitleAssumption
    <3>2. display[l] < decoded[l]
      BY <1>1, <1>4, <3>1 DEF Ahead
    <3>3. QED
      BY <1>1, <3>1, <3>2 DEF Upto
  <2>2. changes[l] \in SUBSET Nat
    BY <1>1, TimesOfMultiples
  <2> DEFINE c == Chosen(l)
             s == frames[l]
             M == {0} \cup {t \in changes[l] : t <= display[l]}
  <2>3. s \in Seq([start : Nat, drawn : BOOLEAN]) /\ c \in 1..Len(s)
    BY <1>1, <1>3
  <2>4. \A i \in 1..Len(s) : s[i].start <= display[l] <=> i <= c
    BY <1>3
  <2>5. Clear(s, display[l], Upto(l), changes[l])
    BY <1>2
  <2> HIDE DEF c, s
  <2>6. s[c].start = Max(M) /\ (c \in Drawn(s) <=> s[c].start \in changes[l])
    BY <1>1, <2>1, <2>2, <2>3, <2>4, <2>5, ChosenIsLatest
  <2>7. QED
    BY <2>6 DEF Latest, c, s
<1>5. QED
  BY <1>3, <1>4

LEMMA ClearShow ==
  ASSUME PictureInv, NEW l \in Layer, Show(l)
  PROVE  QueueTypes' /\ QueuesAreClear'
<1> DEFINE s == frames[l]
           c == Chosen(l)
           r == IF c > 2 THEN SubSeq(s, c - 1, Len(s)) ELSE s
<1>1. /\ changes' = changes /\ open' = open /\ display' = display /\ decoded' = decoded
      /\ dec' = dec /\ mpc' = Script /\ mpc = [op |-> "update", layer |-> l]
      /\ frames' = [frames EXCEPT ![l] = r] /\ DOMAIN picture' = DOMAIN picture
  BY DEF Show
<1>2. open[l]
  BY <1>1 DEF PictureInv, QueuesAreClear
<1>3. /\ s \in Seq([start : Nat, drawn : BOOLEAN]) /\ display[l] \in Nat
      /\ decoded[l] \in Nat /\ changes[l] \in SUBSET Nat /\ Len(s) \in Nat
  BY TimesOfMultiples, FrameTypes DEF PictureInv, QueueTypes
<1>4. Upto(l) \in Nat
  BY <1>3, SubtitleAssumption DEF Upto
<1>5. Clear(s, display[l], Upto(l), changes[l])
  BY <1>2 DEF PictureInv, QueuesAreClear
<1>6. c \in 1..Len(s) /\ \A i \in 1..Len(s) : s[i].start <= display[l] <=> i <= c
  BY <1>2, ShownFrame
<1> HIDE DEF c, s
<1>7. r \in Seq([start : Nat, drawn : BOOLEAN]) /\ Clear(r, display[l], Upto(l), changes[l])
  <2>1. CASE c > 2
    <3>1. c - 1 \in 2..Len(s) /\ c - 1 \in 1..Len(s) /\ c - 1 <= c
      BY <1>3, <1>6, <2>1
    <3>2. s[c - 1].start <= display[l]
      BY <1>6, <3>1
    <3>3. QED
      BY <1>3, <1>4, <1>5, <2>1, <3>1, <3>2, ClearAfterDrop
  <2>2. CASE ~(c > 2)
    BY <1>3, <1>5, <2>2
  <2>3. QED
    BY <2>1, <2>2
<1> HIDE DEF r
<1>8. /\ frames' \in [Layer -> Seq([start : Nat, drawn : BOOLEAN])] /\ frames'[l] = r
      /\ \A k \in Layer : k # l => frames'[k] = frames[k]
  BY <1>1, <1>7 DEF PictureInv, QueueTypes
<1>9. QueueTypes'
  BY <1>1, <1>8 DEF PictureInv, QueueTypes
<1>10. ASSUME NEW k \in Layer
       PROVE  /\ open'[k] => Clear(frames'[k], display'[k], Upto(k)', changes'[k])
              /\ dec' = [at |-> "push", layer |-> k] => decoded'[k] \in changes'[k]
  <2>1. CASE k = l
    <3>1. Upto(l)' = Upto(l) /\ Upto(k) = Upto(l) /\ Upto(k)' = Upto(k)
      BY <1>1, <2>1 DEF Upto
    <3>2. Clear(frames'[k], display'[k], Upto(k)', changes'[k])
      BY <1>1, <1>7, <1>8, <2>1, <3>1
    <3>3. QED
      BY <1>1, <3>2 DEF PictureInv, QueuesAreClear
  <2>2. CASE k # l
    BY <1>1, <1>8, <2>2, QueueKept DEF PictureInv
  <2>3. QED
    BY <2>1, <2>2
<1>11. QueuesAreClear'
  BY <1>1, <1>10 DEF QueuesAreClear, Script
<1>12. QED
  BY <1>9, <1>11
LEMMA ClearScript ==
  ASSUME PictureInv,
         (\E l \in Layer, op \in Stopping : StopPlayback(l, op)) \/ EndThreads \/ ThreadsEnded
  PROVE  QueueTypes' /\ QueuesAreClear'
<1>1. /\ changes' = changes /\ open' = open /\ frames' = frames /\ display' = display
      /\ decoded' = decoded /\ picture' = picture /\ dec' = dec
      /\ mpc'.op # "update"
  BY DEF StopPlayback, EndThreads, ThreadsEnded, perLayer, Script, Stopping
<1>2. QueueTypes'
  BY <1>1 DEF PictureInv, QueueTypes
<1>3. ASSUME NEW k \in Layer
      PROVE  /\ open'[k] => Clear(frames'[k], display'[k], Upto(k)', changes'[k])
             /\ dec' = [at |-> "push", layer |-> k] => decoded'[k] \in changes'[k]
  BY <1>1, QueueKept DEF PictureInv
<1>4. QueuesAreClear'
  BY <1>1, <1>3 DEF QueuesAreClear
<1>5. QED
  BY <1>2, <1>4

\* A layer is closed or opened when the thread is not about to do anything with it.
LEMMA ClearReset ==
  ASSUME PictureInv, NEW l \in Layer, Stopped(l) \/ StartDecoding(l)
  PROVE  QueueTypes' /\ QueuesAreClear'
<1>1. dec' = dec /\ mpc' = Script /\ Waited(l)
  BY DEF Stopped, StartDecoding
<1>2. dec.layer # l
  BY <1>1, WaitedIsFree DEF PictureInv
<1>3. /\ frames' = [frames EXCEPT ![l] = <<>>] \/ frames' = [frames EXCEPT ![l] = <<ZeroFrame>>]
      /\ display' = display \/ display' = [display EXCEPT ![l] = 0]
      /\ decoded' = decoded \/ decoded' = [decoded EXCEPT ![l] = 0]
      /\ changes' = [changes EXCEPT ![l] = {}]
         \/ changes' \in {[changes EXCEPT ![l] = c] : c \in Files}
      /\ picture' = [picture EXCEPT ![l] = None]
      /\ open' = [open EXCEPT ![l] = FALSE] \/ open' = [open EXCEPT ![l] = TRUE]
  BY DEF Stopped, StartDecoding
<1>4. /\ frames' \in [Layer -> Seq([start : Nat, drawn : BOOLEAN])]
      /\ \A k \in Layer : k # l => frames'[k] = frames[k]
  <2>1. <<>> \in Seq([start : Nat, drawn : BOOLEAN])
        /\ <<ZeroFrame>> \in Seq([start : Nat, drawn : BOOLEAN])
    <3>1. {} \in SUBSET Times
      OBVIOUS
    <3>2. QED
      BY <3>1, ClearAtStart, EmptyIsASeq
  <2>2. \A S : \A f \in [Layer -> S] : \A v \in S :
          /\ [f EXCEPT ![l] = v] \in [Layer -> S]
          /\ \A k \in Layer : k # l => [f EXCEPT ![l] = v][k] = f[k]
    OBVIOUS
  <2>3. frames \in [Layer -> Seq([start : Nat, drawn : BOOLEAN])]
    BY DEF PictureInv, QueueTypes
  <2>4. PICK v \in Seq([start : Nat, drawn : BOOLEAN]) : frames' = [frames EXCEPT ![l] = v]
    BY <1>3, <2>1, Zenon
  <2>5. QED
    BY <2>2, <2>3, <2>4
<1>5. /\ display' \in [Layer -> Nat] /\ decoded' \in [Layer -> Nat]
      /\ \A k \in Layer : k # l => display'[k] = display[k] /\ decoded'[k] = decoded[k]
      /\ decoded'[l] = decoded[l] \/ decoded'[l] = 0
  <2>1. display \in [Layer -> Nat] /\ decoded \in [Layer -> Nat] /\ 0 \in Nat
    BY DEF PictureInv, QueueTypes
  <2>2. display' \in [Layer -> Nat] /\ \A k \in Layer : k # l => display'[k] = display[k]
    BY <1>3, <2>1
  <2>3. decoded' \in [Layer -> Nat] /\ \A k \in Layer : k # l => decoded'[k] = decoded[k]
    BY <1>3, <2>1
  <2>4. decoded'[l] = decoded[l] \/ decoded'[l] = 0
    BY <1>3, <2>1
  <2>5. QED
    BY <2>2, <2>3, <2>4
<1>6. /\ changes' \in [Layer -> SUBSET Times]
      /\ \A k \in Layer : k # l => changes'[k] = changes[k]
  <2>1. PICK c \in SUBSET Times : changes' = [changes EXCEPT ![l] = c]
    <3>1. Files \subseteq SUBSET Times
      BY SubtitleAssumption DEF Times
    <3>2. CASE changes' = [changes EXCEPT ![l] = {}]
      BY <3>2
    <3>3. CASE changes' \in {[changes EXCEPT ![l] = c] : c \in Files}
      BY <3>1, <3>3
    <3>4. QED
      BY <1>3, <3>2, <3>3
  <2>2. QED
    BY <2>1 DEF PictureInv, QueueTypes
<1>7. \A k \in Layer : \E q \in Nat : decoded'[k] = Rate * q
  <2> SUFFICES ASSUME NEW k \in Layer PROVE \E q \in Nat : decoded'[k] = Rate * q
    OBVIOUS
  <2>1. CASE decoded'[k] = decoded[k]
    BY <2>1 DEF PictureInv, QueueTypes
  <2>2. CASE decoded'[k] = 0
    <3>1. 0 \in Nat /\ Rate * 0 = 0
      BY SubtitleAssumption
    <3>2. QED
      BY <2>2, <3>1
  <2>3. QED
    BY <1>5, <2>1, <2>2
<1>8. DOMAIN picture' = Layer
  BY <1>3 DEF PictureInv, QueueTypes
<1>9. QueueTypes'
  BY <1>4, <1>5, <1>6, <1>7, <1>8 DEF QueueTypes
<1>10. ASSUME NEW k \in Layer
       PROVE  /\ open'[k] => Clear(frames'[k], display'[k], Upto(k)', changes'[k])
              /\ dec' = [at |-> "push", layer |-> k] => decoded'[k] \in changes'[k]
  <2>1. CASE k # l
    <3>1. open'[k] = open[k]
      BY <1>3, <2>1 DEF PictureInv, OwnInv, OwnTypes
    <3>2. QED
      BY <1>1, <1>4, <1>5, <1>6, <2>1, <3>1, QueueKept DEF PictureInv
  <2>2. CASE k = l /\ Stopped(l)
    <3>1. ~open'[k]
      BY <2>2 DEF Stopped, PictureInv, OwnInv, OwnTypes
    <3>2. dec' # [at |-> "push", layer |-> k]
      BY <1>1, <1>2, <2>2
    <3>3. QED
      BY <3>1, <3>2
  <2>3. CASE k = l /\ StartDecoding(l)
    <3>1. frames'[k] = <<ZeroFrame>> /\ display'[k] = 0 /\ decoded'[k] = 0
      BY <2>3 DEF StartDecoding, PictureInv, QueueTypes
    <3>2. dec' # [at |-> "push", layer |-> k] /\ dec' # [at |-> "advance", layer |-> k]
      BY <1>1, <1>2, <2>3
    <3>3. Upto(k)' = 0
      BY <3>1, <3>2 DEF Upto
    <3>4. Clear(<<ZeroFrame>>, 0, 0, changes'[k])
      BY <1>6, ClearAtStart
    <3>5. QED
      BY <3>1, <3>2, <3>3, <3>4
  <2>4. QED
    BY <2>1, <2>2, <2>3
<1>11. QueuesAreClear'
  BY <1>1, <1>10 DEF QueuesAreClear, Script
<1>12. QED
  BY <1>9, <1>11

LEMMA PictureStep == PictureInv /\ [Next]_vars => PictureInv'
<1> SUFFICES ASSUME PictureInv, [Next]_vars PROVE PictureInv'
  OBVIOUS
<1>1. OwnInv'
  BY OwnStep DEF PictureInv
<1>2. ASSUME Next PROVE QueueTypes' /\ QueuesAreClear'
  <2>1. CASE DoDecoding
    BY <2>1, ClearRender, ClearPush, ClearAdvance DEF DoDecoding
  <2>2. ASSUME NEW l \in Layer, Show(l) \/ Tick(l) \/ Stopped(l) \/ StartDecoding(l)
        PROVE  QueueTypes' /\ QueuesAreClear'
    BY <2>2, ClearShow, ClearTick, ClearReset
  <2>3. ASSUME NEW l \in Layer, NEW op \in Stopping, StopPlayback(l, op)
        PROVE  QueueTypes' /\ QueuesAreClear'
    BY <2>3, ClearScript
  <2>4. CASE EndThreads \/ ThreadsEnded
    BY <2>4, ClearScript
  <2>5. QED
    BY <1>2, <2>1, <2>2, <2>3, <2>4 DEF Next, Proceed, Stopping
<1>3. ASSUME UNCHANGED vars PROVE QueueTypes' /\ QueuesAreClear'
  <2>1. /\ changes' = changes /\ open' = open /\ frames' = frames /\ display' = display
        /\ decoded' = decoded /\ picture' = picture /\ dec' = dec /\ mpc' = mpc
    BY <1>3 DEF vars, perLayer
  <2>2. \A l \in Layer : Upto(l)' = Upto(l)
    BY <2>1 DEF Upto
  <2>3. QED
    BY <2>1, <2>2 DEF PictureInv, QueueTypes, QueuesAreClear
<1>4. QED
  BY <1>1, <1>2, <1>3 DEF PictureInv

\* What update draws while the decoder is ahead is the picture of the display time, whatever
\* the two rates, however many frames late the update, for any number of layers, loads and
\* resets: the queue holds every change the decoder has passed (Subtitle.cpp:100-165).
THEOREM PictureIsCurrentAlways == Spec => PictureIsCurrent
<1>1. ASSUME PictureInv, [Next]_vars, NEW l \in Layer, Show(l), Ahead(l), current[l] # Latest(l)
      PROVE  picture'[l] = IF Latest(l) \in changes[l] THEN Latest(l) ELSE None
  <2> DEFINE f == frames[l][Chosen(l)]
  <2>1. /\ mpc = [op |-> "update", layer |-> l]
        /\ picture' = [picture EXCEPT ![l] =
              IF f.start = current[l] THEN @ ELSE IF f.drawn THEN f.start ELSE None]
    BY <1>1 DEF Show
  <2>2. open[l] /\ l \in DOMAIN picture
    BY <1>1, <2>1 DEF PictureInv, QueuesAreClear, QueueTypes
  <2>3. /\ f.start = Latest(l) /\ Chosen(l) \in 1..Len(frames[l])
        /\ Chosen(l) \in Drawn(frames[l]) <=> Latest(l) \in changes[l]
    BY <1>1, <2>2, ShownFrame
  <2>4. f.drawn <=> Latest(l) \in changes[l]
    BY <2>3 DEF Drawn
  <2>5. QED
    BY <1>1, <2>1, <2>2, <2>3, <2>4
<1>2. PictureInv /\ [Next]_vars =>
        [\A l \in Layer : Show(l) /\ Ahead(l) /\ current[l] # Latest(l) =>
           picture'[l] = IF Latest(l) \in changes[l] THEN Latest(l) ELSE None]_vars
  BY <1>1
<1>3. QED
  BY PictureInit, PictureStep, <1>2, PTL DEF Spec, PictureIsCurrent
=============================================================================

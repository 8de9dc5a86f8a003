---------------------- MODULE DynamicProperties_proofs ----------------------
(***************************************************************************)
(* Theorems about DynamicProperties, for queues of any length and changes  *)
(* of any duration.  The loops over a queue are recursive functions; what  *)
(* they compute is shown by an induction over sets of numbers: a set that  *)
(* holds 0 and with each number the next holds all.  The invariant says    *)
(* that a marked change is alone in its queue, which is what a patient     *)
(* script keeps, that spritesets have absolute changes, and that a         *)
(* replaced sprite has a backup.                                           *)
(***************************************************************************)
EXTENDS DynamicProperties, FiniteSetTheorems, TLAPS

-----------------------------------------------------------------------------
(* Induction, and the loops over a queue *)

\* A set of numbers that holds 0 and the successor of each of its own holds
\* all: of the others there would be a least, as the order of finite sets is
\* well-founded.
LEMMA AllBySteps ==
  ASSUME NEW S, 0 \in S, \A n \in Nat : n \in S => n + 1 \in S
  PROVE  Nat \subseteq S
<1> SUFFICES ASSUME NEW m \in Nat, m \notin S PROVE FALSE
  OBVIOUS
<1> DEFINE Left == {U \in FiniteSubsetsOf(Nat) : \E n \in Nat : n \notin S /\ U = 0..n}
           R == StrictSubsetOrdering(Nat)
<1>1. ASSUME NEW n \in Nat PROVE 0..n \in FiniteSubsetsOf(Nat)
  <2>1. IsFiniteSet(0..n)
    BY FS_Interval
  <2>2. 0..n \subseteq Nat
    OBVIOUS
  <2>3. QED
    BY <2>1, <2>2 DEF FiniteSubsetsOf
<1>2. 0..m \in Left
  BY <1>1
<1>3. PICK U \in Left : \A V \in Left : <<V, U>> \notin R
  <2>1. IsWellFoundedOn(R, FiniteSubsetsOf(Nat))
    BY FS_StrictSubsetOrderingWellFounded
  <2>2. Left \subseteq FiniteSubsetsOf(Nat) /\ Left # {}
    BY <1>2
  <2> HIDE DEF R, Left
  <2>3. QED
    BY <2>1, <2>2, WFMin
<1>4. PICK n \in Nat : n \notin S /\ U = 0..n
  OBVIOUS
<1>5. n # 0 /\ n - 1 \in Nat /\ (n - 1) + 1 = n
  BY <1>4
<1>6. 0..(n - 1) \in Left
  BY <1>1, <1>4, <1>5
<1>7. <<0..(n - 1), U>> \in R
  <2>1. 0..(n - 1) \in SUBSET Nat /\ 0..n \in SUBSET Nat
    BY <1>5
  <2>2. 0..(n - 1) \subseteq 0..n /\ n \notin 0..(n - 1) /\ n \in 0..n
    BY <1>5
  <2>3. 0..(n - 1) # 0..n
    BY <2>2
  <2>4. QED
    BY <1>4, <2>1, <2>2, <2>3 DEF StrictSubsetOrdering
<1>8. QED
  BY <1>3, <1>6, <1>7

\* The same for the numbers up to N.
LEMMA PrefixBySteps ==
  ASSUME NEW N \in Nat, NEW S, 0 \in S,
         \A n \in 0..N : n \in S /\ n # N => n + 1 \in S
  PROVE  0..N \subseteq S
<1> DEFINE T == {n \in Nat : n <= N => n \in S}
<1>1. 0 \in T
  OBVIOUS
<1>2. ASSUME NEW n \in Nat, n \in T PROVE n + 1 \in T
  <2>1. CASE n + 1 <= N
    BY <1>2, <2>1
  <2>2. CASE ~(n + 1 <= N)
    BY <2>2
  <2>3. QED
    BY <2>1, <2>2
<1> HIDE DEF T
<1>3. Nat \subseteq T
  BY <1>1, <1>2, AllBySteps
<1>4. QED
  BY <1>3 DEF T

\* One step of each of the four loops.
OneStep(loop, acc, c) ==
  CASE loop = "apply" -> ApplyNext(acc, c)
    [] loop = "sprite" -> EndForSprite(acc, c)
    [] loop = "set" -> EndForSet(acc, c)
    [] OTHER -> After(loop, acc, c)

\* f[n] is what the loop has done with the first n changes.
Runs(loop, base, q, N, f) ==
  f = [n \in 0..N |-> IF n = 0 THEN base ELSE OneStep(loop, f[n - 1], q[n])]

LEMMA LoopRuns ==
  ASSUME NEW loop, NEW base, NEW q, NEW N \in Nat
  PROVE  \E f : Runs(loop, base, q, N, f)
<1> DEFINE Is(g, m) == g = [n \in 0..m |-> IF n = 0 THEN base ELSE OneStep(loop, g[n - 1], q[n])]
           S == {m \in Nat : \E g : Is(g, m)}
<1>1. 0 \in S
  <2>1. Is([n \in 0..0 |-> base], 0)
    OBVIOUS
  <2>2. QED
    BY <2>1
<1>2. ASSUME NEW m \in Nat, m \in S PROVE m + 1 \in S
  <2>1. PICK g : Is(g, m)
    BY <1>2
  <2> DEFINE h == [n \in 0..(m + 1) |-> IF n = m + 1 THEN OneStep(loop, g[m], q[m + 1]) ELSE g[n]]
  <2>2. /\ \A n \in 0..m : h[n] = g[n] /\ n # m + 1
        /\ h[m + 1] = OneStep(loop, g[m], q[m + 1])
        /\ (m + 1) - 1 = m /\ m + 1 # 0 /\ m \in 0..m
    OBVIOUS
  <2>3. \A n \in 0..m : n # 0 => n - 1 \in 0..m
    OBVIOUS
  <2>4. \A n \in 0..(m + 1) : n \in 0..m \/ n = m + 1
    OBVIOUS
  <2>5. \A n \in 0..m : g[n] = IF n = 0 THEN base ELSE OneStep(loop, g[n - 1], q[n])
    BY <2>1
  <2> HIDE DEF h
  <2>6. \A n \in 0..(m + 1) : h[n] = IF n = 0 THEN base ELSE OneStep(loop, h[n - 1], q[n])
    BY <2>2, <2>3, <2>4, <2>5
  <2>7. Is(h, m + 1)
    BY <2>6 DEF h
  <2>8. QED
    BY <2>7
<1> HIDE DEF S
<1>3. Nat \subseteq S
  BY <1>1, <1>2, AllBySteps
<1>4. QED
  BY <1>3 DEF S, Runs

\* The loop of apply.
AppliedBy(base, q, f) ==
  /\ f[0] = base
  /\ \A n \in 1..Len(q) : f[n] = ApplyNext(f[n - 1], q[n])
  /\ Folded(ApplyNext, base, q) = f[Len(q)]

LEMMA AppliedFolds ==
  ASSUME NEW base, NEW q, Len(q) \in Nat
  PROVE  \E f : AppliedBy(base, q, f)
<1> DEFINE Step(g, n) == IF n = 0 THEN base
                         ELSE CHOOSE r \in {ApplyNext(acc, q[n]) : acc \in {g[n - 1]}} : TRUE
           Is(g) == g = [n \in 0..Len(q) |-> Step(g, n)]
           f == CHOOSE g : Is(g)
<1>1. \A g, n : n # 0 => Step(g, n) = ApplyNext(g[n - 1], q[n])
  BY Zenon
<1>2. \A x, c : OneStep("apply", x, c) = ApplyNext(x, c)
  BY DEF OneStep
<1>3. PICK g : Runs("apply", base, q, Len(q), g)
  BY LoopRuns
<1>4. \A n \in 0..Len(q) : (IF n = 0 THEN base ELSE OneStep("apply", g[n - 1], q[n])) = Step(g, n)
  <2>1. \A n \in 0..Len(q) : n # 0 => OneStep("apply", g[n - 1], q[n]) = Step(g, n)
    <3> HIDE DEF Step
    <3>1. QED
      BY <1>1, <1>2
  <2>2. QED
    BY <2>1, Zenon
<1>5. Is(g)
  <2> HIDE DEF Step
  <2>1. QED
    BY <1>3, <1>4 DEF Runs
<1>6. Folded(ApplyNext, base, q) = f[Len(q)]
  BY DEF Folded
<1>7. Is(f)
  BY <1>5, Zenon
<1> HIDE DEF f, Step
<1>8. f[0] = base
  BY <1>7 DEF Step
<1>9. \A n \in 1..Len(q) : f[n] = ApplyNext(f[n - 1], q[n])
  BY <1>7, <1>1
<1>10. QED
  BY <1>6, <1>8, <1>9 DEF AppliedBy

\* The loop of terminateSpriteProperties.
EndedBy(base, q, f) ==
  /\ f[0] = base
  /\ \A n \in 1..Len(q) : f[n] = EndForSprite(f[n - 1], q[n])
  /\ Folded(EndForSprite, base, q) = f[Len(q)]

LEMMA EndedFolds ==
  ASSUME NEW base, NEW q, Len(q) \in Nat
  PROVE  \E f : EndedBy(base, q, f)
<1> DEFINE Step(g, n) == IF n = 0 THEN base
                         ELSE CHOOSE r \in {EndForSprite(acc, q[n]) : acc \in {g[n - 1]}} : TRUE
           Is(g) == g = [n \in 0..Len(q) |-> Step(g, n)]
           f == CHOOSE g : Is(g)
<1>1. \A g, n : n # 0 => Step(g, n) = EndForSprite(g[n - 1], q[n])
  BY Zenon
<1>2. \A x, c : OneStep("sprite", x, c) = EndForSprite(x, c)
  BY DEF OneStep
<1>3. PICK g : Runs("sprite", base, q, Len(q), g)
  BY LoopRuns
<1>4. \A n \in 0..Len(q) : (IF n = 0 THEN base ELSE OneStep("sprite", g[n - 1], q[n])) = Step(g, n)
  <2>1. \A n \in 0..Len(q) : n # 0 => OneStep("sprite", g[n - 1], q[n]) = Step(g, n)
    <3> HIDE DEF Step
    <3>1. QED
      BY <1>1, <1>2
  <2>2. QED
    BY <2>1, Zenon
<1>5. Is(g)
  <2> HIDE DEF Step
  <2>1. QED
    BY <1>3, <1>4 DEF Runs
<1>6. Folded(EndForSprite, base, q) = f[Len(q)]
  BY DEF Folded
<1>7. Is(f)
  BY <1>5, Zenon
<1> HIDE DEF f, Step
<1>8. f[0] = base
  BY <1>7 DEF Step
<1>9. \A n \in 1..Len(q) : f[n] = EndForSprite(f[n - 1], q[n])
  BY <1>7, <1>1
<1>10. QED
  BY <1>6, <1>8, <1>9 DEF EndedBy

\* The loop of terminateSpritesetProperties.
SetBy(base, q, f) ==
  /\ f[0] = base
  /\ \A n \in 1..Len(q) : f[n] = EndForSet(f[n - 1], q[n])
  /\ Folded(EndForSet, base, q) = f[Len(q)]

LEMMA SetFolds ==
  ASSUME NEW base, NEW q, Len(q) \in Nat
  PROVE  \E f : SetBy(base, q, f)
<1> DEFINE Step(g, n) == IF n = 0 THEN base
                         ELSE CHOOSE r \in {EndForSet(acc, q[n]) : acc \in {g[n - 1]}} : TRUE
           Is(g) == g = [n \in 0..Len(q) |-> Step(g, n)]
           f == CHOOSE g : Is(g)
<1>1. \A g, n : n # 0 => Step(g, n) = EndForSet(g[n - 1], q[n])
  BY Zenon
<1>2. \A x, c : OneStep("set", x, c) = EndForSet(x, c)
  BY DEF OneStep
<1>3. PICK g : Runs("set", base, q, Len(q), g)
  BY LoopRuns
<1>4. \A n \in 0..Len(q) : (IF n = 0 THEN base ELSE OneStep("set", g[n - 1], q[n])) = Step(g, n)
  <2>1. \A n \in 0..Len(q) : n # 0 => OneStep("set", g[n - 1], q[n]) = Step(g, n)
    <3> HIDE DEF Step
    <3>1. QED
      BY <1>1, <1>2
  <2>2. QED
    BY <2>1, Zenon
<1>5. Is(g)
  <2> HIDE DEF Step
  <2>1. QED
    BY <1>3, <1>4 DEF Runs
<1>6. Folded(EndForSet, base, q) = f[Len(q)]
  BY DEF Folded
<1>7. Is(f)
  BY <1>5, Zenon
<1> HIDE DEF f, Step
<1>8. f[0] = base
  BY <1>7 DEF Step
<1>9. \A n \in 1..Len(q) : f[n] = EndForSet(f[n - 1], q[n])
  BY <1>7, <1>1
<1>10. QED
  BY <1>6, <1>8, <1>9 DEF SetBy

\* Where an object rests.
RestsBy(scene, v, q, f) ==
  /\ f[0] = v
  /\ \A n \in 1..Len(q) : f[n] = After(scene, f[n - 1], q[n])
  /\ RestsAt(scene, v, q) = f[Len(q)]

LEMMA RestsFolds ==
  ASSUME NEW scene \in {"new", "both"}, NEW v, NEW q, Len(q) \in Nat
  PROVE  \E f : RestsBy(scene, v, q, f)
<1> DEFINE Step(g, n) == IF n = 0 THEN v
                         ELSE CHOOSE r \in {After(scene, acc, q[n]) : acc \in {g[n - 1]}} : TRUE
           Is(g) == g = [n \in 0..Len(q) |-> Step(g, n)]
           f == CHOOSE g : Is(g)
<1>1. \A g, n : n # 0 => Step(g, n) = After(scene, g[n - 1], q[n])
  BY Zenon
<1>2. \A x, c : OneStep(scene, x, c) = After(scene, x, c)
  BY DEF OneStep
<1>3. PICK g : Runs(scene, v, q, Len(q), g)
  BY LoopRuns
<1>4. \A n \in 0..Len(q) : (IF n = 0 THEN v ELSE OneStep(scene, g[n - 1], q[n])) = Step(g, n)
  <2>1. \A n \in 0..Len(q) : n # 0 => OneStep(scene, g[n - 1], q[n]) = Step(g, n)
    <3> HIDE DEF Step
    <3>1. QED
      BY <1>1, <1>2
  <2>2. QED
    BY <2>1, Zenon
<1>5. Is(g)
  <2> HIDE DEF Step
  <2>1. QED
    BY <1>3, <1>4 DEF Runs
<1>6. RestsAt(scene, v, q) = f[Len(q)]
  BY DEF Folded, RestsAt
<1>7. Is(f)
  BY <1>5, Zenon
<1> HIDE DEF f, Step
<1>8. f[0] = v
  BY <1>7 DEF Step
<1>9. \A n \in 1..Len(q) : f[n] = After(scene, f[n - 1], q[n])
  BY <1>7, <1>1
<1>10. QED
  BY <1>6, <1>8, <1>9 DEF RestsBy

-----------------------------------------------------------------------------
(* One change *)

\* The changes that are queued: one that has not begun takes time, a wave has a period.
Queued == {c \in Change : /\ c.time = 0 => c.duration > 0
                          /\ c.endless => c.duration > 0}
Objects == [now : Int, old : Int \cup {None}]

LEMMA Division ==
  /\ \A a \in Int, b \in Nat \ {0} : a \div b \in Int
  /\ \A a \in Nat, b \in Nat \ {0} : a \div b \in Nat
  /\ \A a \in Nat, b \in Nat \ {0} : a % b \in Nat
OBVIOUS

\* begin fixes the end and the clock, and leaves the rest.
LEMMA BegunIs ==
  ASSUME NEW c \in Queued, NEW v \in Int
  PROVE  /\ Begun(c, v) \in Queued
         /\ Begun(c, v).time > 0
         /\ Begun(c, v).end = EndFrom(v, c)
         /\ Begun(c, v).forNew = c.forNew
         /\ Begun(c, v).abs = c.abs
<1>1. CASE c.time = 0
  <2> DEFINE end == IF c.abs THEN c.end ELSE v + c.end
             duration == IF c.equation = "rotate" THEN Magnitude(end - v) \div c.duration
                         ELSE c.duration
             endless == c.equation = "wave"
             b == [abs |-> c.abs, end |-> end, start |-> v, time |-> 1, duration |-> duration,
                   equation |-> c.equation, endless |-> endless, forNew |-> c.forNew]
  <2>1. end \in Int
    BY DEF Queued, Change
  <2>2. c.duration \in Nat \ {0}
    BY <1>1 DEF Queued, Change
  <2>3. duration \in Nat /\ (endless => duration > 0)
    <3>1. Magnitude(end - v) \in Nat
      BY <2>1 DEF Magnitude
    <3>2. Magnitude(end - v) \div c.duration \in Nat
      BY <3>1, <2>2, Division
    <3>3. QED
      BY <3>2, <2>2
  <2>4. Begin(c, v) = b
    <3>1. Begin(c, v) = [c EXCEPT !.start = v, !.end = end, !.time = 1,
                                  !.endless = endless, !.duration = duration]
      BY DEF Begin
    <3> HIDE DEF end, duration, endless
    <3>2. QED
      BY <3>1 DEF Queued, Change
  <2>5. b \in Queued /\ b.time > 0
    <3>1. endless \in BOOLEAN
      OBVIOUS
    <3>2. /\ c.abs \in BOOLEAN /\ c.forNew \in BOOLEAN /\ c.equation \in Equation
      BY DEF Queued, Change
    <3>3. /\ b.abs = c.abs /\ b.end = end /\ b.start = v /\ b.time = 1
          /\ b.duration = duration /\ b.equation = c.equation
          /\ b.endless = endless /\ b.forNew = c.forNew
      OBVIOUS
    <3> HIDE DEF end, duration, endless
    <3>4. b \in Change
      BY <2>1, <2>3, <3>1, <3>2 DEF Change
    <3> HIDE DEF b
    <3>5. QED
      BY <2>3, <3>3, <3>4 DEF Queued
  <2>6. b.end = EndFrom(v, c)
    BY <1>1 DEF EndFrom
  <2>7. QED
    BY <1>1, <2>4, <2>5, <2>6 DEF Begun
<1>2. CASE c.time # 0
  <2>1. c.time > 0
    BY <1>2 DEF Queued, Change
  <2>2. QED
    BY <1>2, <2>1 DEF Begun, EndFrom
<1>3. QED
  BY <1>1, <1>2

\* The clock leaves where the change goes.
LEMMA TickedIs ==
  ASSUME NEW c \in Queued, c.time > 0, NEW ms \in Nat
  PROVE  /\ Ticked(c, ms) \in Queued
         /\ Ticked(c, ms).time > 0
         /\ Ticked(c, ms).end = c.end
         /\ Ticked(c, ms).forNew = c.forNew
         /\ Ticked(c, ms).abs = c.abs
<1>1. CASE c.duration = 0
  BY <1>1 DEF Ticked
<1>2. CASE c.duration # 0
  <2> DEFINE time == IF c.endless THEN 1 + ((c.time + ms - 1) % c.duration)
                     ELSE IF c.time + ms > c.duration THEN c.duration ELSE c.time + ms
  <2>1. c.duration \in Nat \ {0} /\ c.time \in Nat /\ c.time + ms - 1 \in Nat
    BY <1>2 DEF Queued, Change
  <2>2. (c.time + ms - 1) % c.duration \in Nat
    BY <2>1, Division
  <2>3. time \in Nat /\ time > 0
    BY <2>1, <2>2
  <2> HIDE DEF time
  <2>4. Ticked(c, ms) = [c EXCEPT !.time = time]
    BY <1>2 DEF Ticked, time, Queued, Change
  <2>5. QED
    BY <2>1, <2>3, <2>4 DEF Queued, Change
<1>3. QED
  BY <1>1, <1>2

LEMMA InterpolatedIs ==
  ASSUME NEW c \in Queued, c.time > 0
  PROVE  /\ Interpolated(c) \in Int
         /\ Finished(c) => Interpolated(c) = c.end
<1>1. CASE Finished(c)
  BY <1>1 DEF Interpolated, Queued, Change
<1>2. CASE ~Finished(c)
  <2> DEFINE t == IF c.endless THEN (2 * c.time) % (2 * c.duration) ELSE c.time
             up == IF c.endless /\ t > c.duration THEN 2 * c.duration - t ELSE t
  <2>1. c.duration \in Nat \ {0} /\ c.time \in Nat
    BY <1>2 DEF Finished, Queued, Change
  <2>2. 2 * c.duration \in Nat \ {0} /\ 2 * c.time \in Nat
    BY <2>1
  <2>3. (2 * c.time) % (2 * c.duration) \in Nat
    BY <2>2, Division
  <2>4. up \in Int
    BY <2>1, <2>3
  <2> HIDE DEF up
  <2>5. c.start \in Int /\ c.end - c.start \in Int
    BY DEF Queued, Change
  <2>6. (c.end - c.start) * up \in Int
    BY <2>4, <2>5
  <2>7. ((c.end - c.start) * up) \div c.duration \in Int
    BY <2>1, <2>6, Division
  <2>8. Interpolated(c) = c.start + ((c.end - c.start) * up) \div c.duration
    BY <1>2 DEF Interpolated, up
  <2>9. QED
    BY <1>2, <2>5, <2>7, <2>8
<1>3. QED
  BY <1>1, <1>2

\* A replaced sprite's value is reached by marked changes alone, and a backup stays.
LEMMA WriteIs ==
  ASSUME NEW o \in Objects, NEW c, NEW v \in Int, distinct => o.old # None
  PROVE  /\ Write(o, c, v) \in Objects
         /\ distinct => Write(o, c, v).old # None
         /\ Write(o, c, v).now = IF distinct /\ ~c.forNew THEN o.now ELSE v
<1> DEFINE backup == IF effect /\ kind = "sprite" /\ o.old = None THEN o.now ELSE o.old
<1>1. /\ o.now \in Int /\ backup \in Int \cup {None}
      /\ distinct => backup # None
  BY DEF Objects
<1>2. v # None
  BY PropertyAssumption
<1> HIDE DEF backup
<1>3. Write(o, c, v) =
        IF backup # None /\ distinct /\ ~c.forNew THEN [now |-> o.now, old |-> v]
        ELSE [now |-> v, old |-> IF backup = None \/ c.forNew THEN backup ELSE v]
  BY DEF Write, backup
<1>4. QED
  BY <1>1, <1>2, <1>3 DEF Objects

-----------------------------------------------------------------------------
(* Where an object rests *)

LEMMA EmptyQueue == \A S : <<>> \in Seq(S) /\ Len(<<>>) = 0
OBVIOUS

LEMMA SceneIs ==
  ASSUME distinct => old # None
  PROVE  /\ Scene \in {"new", "both"}
         /\ distinct => Scene = "new"
         /\ ~distinct => Scene = "both"
BY DEF Scene, Hidden

SameSteps(scene, M, N, f, g, p, q) ==
  \A n \in (M + 1)..N : /\ f[n] = After(scene, f[n - 1], p[n])
                        /\ g[n] = After(scene, g[n - 1], q[n])
                        /\ p[n] = q[n]

\* The same changes after the same value come to the same.
LEMMA StepsAgree ==
  ASSUME NEW scene, NEW M \in Nat, NEW N \in Nat, M <= N,
         NEW f, NEW g, NEW p, NEW q, f[M] = g[M], SameSteps(scene, M, N, f, g, p, q)
  PROVE  f[N] = g[N]
<1> DEFINE S == {n \in 0..N : n >= M => f[n] = g[n]}
<1>1. 0 \in S
  OBVIOUS
<1>2. ASSUME NEW n \in 0..N, n \in S, n # N PROVE n + 1 \in S
  <2>1. n + 1 \in 0..N /\ (n + 1) - 1 = n
    BY <1>2
  <2>2. CASE n + 1 = M
    BY <2>1, <2>2
  <2>3. CASE n + 1 < M
    BY <2>1, <2>3
  <2>4. CASE n >= M
    <3>1. f[n] = g[n] /\ n + 1 \in (M + 1)..N
      BY <1>2, <2>4
    <3>2. f[n + 1] = g[n + 1]
      BY <2>1, <3>1 DEF SameSteps
    <3>3. QED
      BY <2>1, <3>2
  <2>5. QED
    BY <2>2, <2>3, <2>4
<1> HIDE DEF S
<1>3. N \in S
  BY <1>1, <1>2, PrefixBySteps
<1>4. QED
  BY <1>3 DEF S

LEMMA RestsOfNone ==
  ASSUME NEW scene \in {"new", "both"}, NEW v
  PROVE  RestsAt(scene, v, <<>>) = v
<1>1. Len(<<>>) = 0 /\ Len(<<>>) \in Nat
  OBVIOUS
<1>2. PICK f : RestsBy(scene, v, <<>>, f)
  BY <1>1, RestsFolds
<1>3. QED
  BY <1>1, <1>2 DEF RestsBy

LEMMA RestsOfAppend ==
  ASSUME NEW scene \in {"new", "both"}, NEW v,
         NEW q \in Seq(Queued), NEW c \in Queued
  PROVE  RestsAt(scene, v, Append(q, c)) = After(scene, RestsAt(scene, v, q), c)
<1> DEFINE p == Append(q, c)
<1>1. /\ Len(q) \in Nat /\ Len(p) = Len(q) + 1 /\ Len(p) \in Nat /\ p[Len(q) + 1] = c
      /\ \A n \in 1..Len(q) : p[n] = q[n]
  OBVIOUS
<1> HIDE DEF p
<1>2. PICK f : RestsBy(scene, v, p, f)
  BY <1>1, RestsFolds
<1>3. PICK g : RestsBy(scene, v, q, g)
  BY <1>1, RestsFolds
<1>4. f[Len(q)] = g[Len(q)]
  <2>1. SameSteps(scene, 0, Len(q), f, g, p, q)
    BY <1>1, <1>2, <1>3 DEF SameSteps, RestsBy
  <2>2. f[0] = g[0] /\ 0 <= Len(q) /\ 0 \in Nat
    BY <1>1, <1>2, <1>3 DEF RestsBy
  <2>3. QED
    BY <1>1, <2>1, <2>2, StepsAgree
<1>5. f[Len(q) + 1] = After(scene, f[Len(q)], c)
  <2>1. Len(q) + 1 \in 1..Len(p) /\ (Len(q) + 1) - 1 = Len(q)
    BY <1>1
  <2>2. QED
    BY <1>1, <1>2, <2>1 DEF RestsBy
<1>6. QED
  BY <1>1, <1>2, <1>3, <1>4, <1>5 DEF p, RestsBy

LEMMA RestsOfOne ==
  ASSUME NEW scene \in {"new", "both"}, NEW v, NEW c \in Queued
  PROVE  RestsAt(scene, v, <<c>>) = After(scene, v, c)
<1> DEFINE e == <<>>
<1>1. e \in Seq(Queued)
  OBVIOUS
<1>2. Append(e, c) = <<c>>
  OBVIOUS
<1>3. RestsAt(scene, v, e) = v
  BY RestsOfNone
<1> HIDE DEF e
<1>4. RestsAt(scene, v, Append(e, c)) = After(scene, RestsAt(scene, v, e), c)
  BY <1>1, RestsOfAppend
<1>5. QED
  BY <1>2, <1>3, <1>4

\* What the front change comes to is all that matters of it.
LEMMA RestsOfFront ==
  ASSUME NEW scene \in {"new", "both"}, NEW v, NEW q \in Seq(Queued), q # <<>>,
         NEW d \in Queued, After(scene, v, d) = After(scene, v, Head(q))
  PROVE  RestsAt(scene, v, <<d>> \o Tail(q)) = RestsAt(scene, v, q)
<1> DEFINE p == <<d>> \o Tail(q)
<1>1. /\ Len(q) \in Nat \ {0} /\ Len(p) = Len(q) /\ p[1] = d /\ q[1] = Head(q)
      /\ \A n \in 2..Len(q) : p[n] = q[n]
  OBVIOUS
<1> HIDE DEF p
<1>2. PICK f : RestsBy(scene, v, p, f)
  BY <1>1, RestsFolds
<1>3. PICK g : RestsBy(scene, v, q, g)
  BY <1>1, RestsFolds
<1>4. f[1] = g[1]
  <2>1. 1 \in 1..Len(q) /\ 1 - 1 = 0
    BY <1>1
  <2>2. QED
    BY <1>1, <1>2, <1>3, <2>1 DEF RestsBy
<1>5. SameSteps(scene, 1, Len(q), f, g, p, q)
  BY <1>1, <1>2, <1>3 DEF SameSteps, RestsBy
<1>6. f[Len(q)] = g[Len(q)]
  BY <1>1, <1>4, <1>5, StepsAgree
<1>7. QED
  BY <1>1, <1>2, <1>3, <1>6 DEF p, RestsBy

-----------------------------------------------------------------------------
(* apply *)

BackupStays == distinct => old # None

\* What apply has made of the first n changes of q, which bring the object to v.
Applies(q, n, a, v) ==
  /\ a \in [o : Objects, rest : Seq(Queued), stopped : BOOLEAN]
  /\ distinct => a.o.old # None
  /\ Len(a.rest) <= n
  /\ ~a.stopped => a.rest = <<>>
  /\ \A i \in 1..Len(a.rest) : \E j \in 1..n : q[j].forNew = a.rest[i].forNew
  /\ \A i \in 1..Len(a.rest) : \E j \in 1..n : q[j].abs = a.rest[i].abs
  /\ RestsAt(Scene, a.o.now, a.rest) = v

LEMMA AppliesStopped ==
  ASSUME BackupStays, NEW q, NEW n \in Nat, NEW a, NEW v, Applies(q, n, a, v),
         NEW c \in Queued, q[n + 1] = c, a.stopped
  PROVE  Applies(q, n + 1, ApplyNext(a, c), After(Scene, v, c))
<1> DEFINE rest == Append(a.rest, c)
           r == ApplyNext(a, c)
<1>1. /\ a \in [o : Objects, rest : Seq(Queued), stopped : BOOLEAN]
      /\ a.rest \in Seq(Queued)
  BY DEF Applies
<1>2. r = [o |-> a.o, rest |-> rest, stopped |-> a.stopped]
  BY <1>1 DEF ApplyNext
<1>3. /\ rest \in Seq(Queued) /\ Len(rest) = Len(a.rest) + 1 /\ Len(a.rest) \in Nat
      /\ rest[Len(a.rest) + 1] = c
      /\ \A i \in 1..Len(a.rest) : rest[i] = a.rest[i]
  BY <1>1
<1>4. \A i \in 1..Len(rest) : i \in 1..Len(a.rest) \/ i = Len(a.rest) + 1
  BY <1>3
<1>5. \A j \in 1..n : j \in 1..(n + 1)
  OBVIOUS
<1>6. n + 1 \in 1..(n + 1)
  OBVIOUS
<1>7. RestsAt(Scene, a.o.now, rest) = After(Scene, v, c)
  <2>1. Scene \in {"new", "both"}
    BY SceneIs DEF BackupStays
  <2>2. RestsAt(Scene, a.o.now, a.rest) = v
    BY DEF Applies
  <2>3. QED
    BY <1>1, <2>1, <2>2, RestsOfAppend
<1> HIDE DEF rest, r
<1>8. \A i \in 1..Len(rest) : \E j \in 1..(n + 1) : q[j].forNew = rest[i].forNew
  BY <1>3, <1>4, <1>5, <1>6 DEF Applies
<1>9. \A i \in 1..Len(rest) : \E j \in 1..(n + 1) : q[j].abs = rest[i].abs
  BY <1>3, <1>4, <1>5, <1>6 DEF Applies
<1>10. /\ r \in [o : Objects, rest : Seq(Queued), stopped : BOOLEAN]
       /\ r.rest = rest /\ r.o = a.o /\ r.stopped
  BY <1>1, <1>2, <1>3
<1>11. Len(rest) <= n + 1
  BY <1>3 DEF Applies
<1>12. Applies(q, n + 1, r, After(Scene, v, c))
  BY <1>7, <1>8, <1>9, <1>10, <1>11 DEF Applies
<1>13. QED
  BY <1>12 DEF r

LEMMA AppliesFront ==
  ASSUME BackupStays, NEW q, NEW n \in Nat, NEW a, NEW v, Applies(q, n, a, v),
         NEW c \in Queued, q[n + 1] = c, ~a.stopped
  PROVE  Applies(q, n + 1, ApplyNext(a, c), After(Scene, v, c))
<1> DEFINE d == Begun(c, a.o.now)
           o == Write(a.o, d, Interpolated(d))
           r == ApplyNext(a, c)
<1>1. /\ a \in [o : Objects, rest : Seq(Queued), stopped : BOOLEAN]
      /\ a.o \in Objects /\ a.o.now \in Int /\ a.rest = <<>>
      /\ distinct => a.o.old # None
  BY DEF Applies, Objects
<1>2. /\ d \in Queued /\ d.time > 0 /\ d.end = EndFrom(a.o.now, c)
      /\ d.forNew = c.forNew /\ d.abs = c.abs
  <2> DEFINE x == a.o.now
  <2>1. x \in Int
    BY <1>1
  <2> HIDE DEF x
  <2>2. /\ Begun(c, x) \in Queued /\ Begun(c, x).time > 0
        /\ Begun(c, x).end = EndFrom(x, c)
        /\ Begun(c, x).forNew = c.forNew /\ Begun(c, x).abs = c.abs
    BY <2>1, BegunIs
  <2>3. QED
    BY <2>2 DEF x
<1> HIDE DEF d
<1>3. Interpolated(d) \in Int /\ (Finished(d) => Interpolated(d) = d.end)
  BY <1>2, InterpolatedIs
<1>4. /\ o \in Objects
      /\ distinct => o.old # None
      /\ o.now = IF distinct /\ ~d.forNew THEN a.o.now ELSE Interpolated(d)
  <2> DEFINE x == Interpolated(d)
             p == a.o
  <2>1. x \in Int /\ p \in Objects /\ (distinct => p.old # None)
    BY <1>1, <1>3
  <2> HIDE DEF x, p, o
  <2>2. /\ Write(p, d, x) \in Objects
        /\ distinct => Write(p, d, x).old # None
        /\ Write(p, d, x).now = IF distinct /\ ~d.forNew THEN p.now ELSE x
    BY <2>1, WriteIs
  <2>3. QED
    BY <2>2 DEF x, p, o
<1>5. r = IF Finished(d) THEN [a EXCEPT !.o = o]
          ELSE [o |-> o, rest |-> <<d>>, stopped |-> TRUE]
  BY DEF ApplyNext, d
<1> HIDE DEF o, r
<1>6. /\ Scene \in {"new", "both"}
      /\ distinct => Scene = "new"
      /\ ~distinct => Scene = "both"
  BY SceneIs DEF BackupStays
<1>7. v = a.o.now
  <2>1. RestsAt(Scene, a.o.now, <<>>) = a.o.now
    BY <1>6, RestsOfNone
  <2>2. QED
    BY <1>1, <2>1 DEF Applies
<1>8. n + 1 \in 1..(n + 1)
  OBVIOUS
<1>9. CASE Finished(d)
  <2>1. r = [o |-> o, rest |-> <<>>, stopped |-> a.stopped]
    <3>1. r = [a EXCEPT !.o = o]
      BY <1>5, <1>9
    <3>2. a = [o |-> a.o, rest |-> <<>>, stopped |-> a.stopped]
      BY <1>1
    <3>3. QED
      BY <3>1, <3>2
  <2>2. RestsAt(Scene, o.now, <<>>) = o.now
    BY <1>6, RestsOfNone
  <2>3. o.now = After(Scene, v, c)
    BY <1>2, <1>3, <1>4, <1>6, <1>7, <1>9 DEF After, Reached
  <2>4. <<>> \in Seq(Queued) /\ Len(<<>>) = 0
    BY EmptyQueue
  <2>5. /\ r \in [o : Objects, rest : Seq(Queued), stopped : BOOLEAN]
        /\ r.o = o /\ r.rest = <<>>
    <3>1. o \in Objects /\ a.stopped \in BOOLEAN
      BY <1>1, <1>4
    <3>2. QED
      BY <2>1, <2>4, <3>1
  <2>6. QED
    BY <1>4, <2>2, <2>3, <2>4, <2>5 DEF Applies, r
<1>10. CASE ~Finished(d)
  <2>1. r = [o |-> o, rest |-> <<d>>, stopped |-> TRUE]
    BY <1>5, <1>10
  <2>2. /\ <<d>> \in Seq(Queued) /\ Len(<<d>>) = 1 /\ <<d>>[1] = d
    BY <1>2
  <2>3. RestsAt(Scene, o.now, <<d>>) = After(Scene, o.now, d)
    BY <1>2, <1>6, RestsOfOne
  <2>4. After(Scene, o.now, d) = After(Scene, v, c)
    BY <1>2, <1>4, <1>6, <1>7 DEF After, Reached, EndFrom
  <2>5. /\ r \in [o : Objects, rest : Seq(Queued), stopped : BOOLEAN]
        /\ r.o = o /\ r.rest = <<d>> /\ r.stopped
    <3>1. o \in Objects
      BY <1>4
    <3>2. QED
      BY <2>1, <2>2, <3>1
  <2>6. \A i \in 1..Len(r.rest) : r.rest[i] = d
    BY <2>2, <2>5
  <2>7. q[n + 1].forNew = d.forNew /\ q[n + 1].abs = d.abs
    BY <1>2
  <2>8. Len(r.rest) <= n + 1
    BY <2>2, <2>5
  <2>9. RestsAt(Scene, r.o.now, r.rest) = After(Scene, v, c)
    BY <2>3, <2>4, <2>5
  <2>10. distinct => r.o.old # None
    BY <1>4, <2>5
  <2>11. Applies(q, n + 1, r, After(Scene, v, c))
    BY <1>8, <2>5, <2>6, <2>7, <2>8, <2>9, <2>10 DEF Applies
  <2>12. QED
    BY <2>11 DEF r
<1>11. QED
  BY <1>9, <1>10

\* apply keeps where the object rests, and makes no change of its own.
LEMMA AppliedIs ==
  ASSUME BackupStays, NEW o \in Objects, distinct => o.old # None, NEW q \in Seq(Queued)
  PROVE  Applies(q, Len(q), Applied(o, q), RestsAt(Scene, o.now, q))
<1> DEFINE base == [o |-> o, rest |-> <<>>, stopped |-> FALSE]
<1>1. Len(q) \in Nat /\ \A n \in 1..Len(q) : q[n] \in Queued
  OBVIOUS
<1>2. Scene \in {"new", "both"}
  BY SceneIs DEF BackupStays
<1>3. PICK r : RestsBy(Scene, o.now, q, r)
  BY <1>1, <1>2, RestsFolds
<1>4. PICK f : AppliedBy(base, q, f)
  <2> HIDE DEF base
  <2>1. QED
    BY <1>1, AppliedFolds
<1> DEFINE S == {n \in 0..Len(q) : Applies(q, n, f[n], r[n])}
<1>5. 0 \in S
  <2>1. f[0] = base /\ r[0] = o.now
    BY <1>3, <1>4 DEF AppliedBy, RestsBy
  <2>2. base \in [o : Objects, rest : Seq(Queued), stopped : BOOLEAN]
    BY EmptyQueue
  <2>3. base.o = o /\ base.rest = <<>> /\ ~base.stopped /\ Len(<<>>) = 0
    OBVIOUS
  <2>4. RestsAt(Scene, o.now, <<>>) = o.now
    BY <1>2, RestsOfNone
  <2> HIDE DEF base
  <2>5. Applies(q, 0, base, o.now)
    BY <2>2, <2>3, <2>4 DEF Applies
  <2>6. QED
    BY <1>1, <2>1, <2>5
<1>6. ASSUME NEW n \in 0..Len(q), n \in S, n # Len(q) PROVE n + 1 \in S
  <2>1. n \in Nat /\ n + 1 \in 1..Len(q) /\ n + 1 \in 0..Len(q) /\ (n + 1) - 1 = n
    BY <1>1, <1>6
  <2>2. f[n + 1] = ApplyNext(f[n], q[n + 1]) /\ r[n + 1] = After(Scene, r[n], q[n + 1])
    BY <1>3, <1>4, <2>1 DEF AppliedBy, RestsBy
  <2>3. Applies(q, n, f[n], r[n]) /\ q[n + 1] \in Queued
    BY <1>1, <1>6, <2>1
  <2>4. Applies(q, n + 1, ApplyNext(f[n], q[n + 1]), After(Scene, r[n], q[n + 1]))
    BY <2>1, <2>3, AppliesStopped, AppliesFront
  <2>5. QED
    BY <2>1, <2>2, <2>4
<1> HIDE DEF S
<1>7. Len(q) \in S
  <2>1. 0..Len(q) \subseteq S
    <3> DEFINE N == Len(q)
    <3>1. /\ N \in Nat
          /\ \A n \in 0..N : n \in S /\ n # N => n + 1 \in S
      BY <1>1, <1>6
    <3> HIDE DEF N
    <3>2. 0..N \subseteq S
      BY <1>5, <3>1, PrefixBySteps
    <3>3. QED
      BY <3>2 DEF N
  <2>2. Len(q) \in 0..Len(q)
    BY <1>1
  <2>3. QED
    BY <2>1, <2>2
<1>8. Applied(o, q) = f[Len(q)]
  BY <1>4 DEF Applied, AppliedBy
<1>9. QED
  BY <1>3, <1>7, <1>8 DEF S, RestsBy

-----------------------------------------------------------------------------
(* The invariant *)

TypeOK ==
  /\ kind \in Kinds
  /\ now \in Int /\ old \in Int \cup {None}
  /\ distinct \in BOOLEAN /\ effect \in BOOLEAN
  /\ queue \in Seq(Queued)
  /\ waiting \in BOOLEAN
  /\ added \in Nat /\ replaced \in Nat

OnlySprites == distinct => kind = "sprite"

\* A marked change is alone in its queue.
MarkedIsAlone ==
  \/ \A i \in 1..Len(queue) : ~queue[i].forNew
  \/ distinct /\ Len(queue) = 1

SetsAreAbsolute == kind = "set" => \A i \in 1..Len(queue) : queue[i].abs

PropertyInv ==
  /\ TypeOK
  /\ BackupStays
  /\ OnlySprites
  /\ MarkedIsAlone
  /\ SetsAreAbsolute

LEMMA PropertyInit == Init => PropertyInv
<1> SUFFICES ASSUME Init PROVE PropertyInv
  OBVIOUS
<1>1. <<>> \in Seq(Queued) /\ Len(<<>>) = 0
  BY EmptyQueue
<1>2. /\ kind \in Kinds /\ now = 0 /\ old = None /\ ~distinct /\ ~effect
      /\ queue = <<>> /\ ~waiting /\ added = 0 /\ replaced = 0
      /\ distinct \in BOOLEAN /\ effect \in BOOLEAN /\ waiting \in BOOLEAN
  BY DEF Init
<1>3. QED
  BY <1>1, <1>2
     DEF PropertyInv, TypeOK, BackupStays, OnlySprites, MarkedIsAlone, SetsAreAbsolute

-----------------------------------------------------------------------------
(* The script *)

LEMMA ObjectIs ==
  ASSUME PropertyInv
  PROVE  /\ Object \in Objects /\ Object.now = now /\ Object.old = old
         /\ distinct => Object.old # None
BY DEF PropertyInv, TypeOK, BackupStays, Object, Objects

\* A queue keeps its rules when it gets a change the script may add.
LEMMA EnqueueKeeps ==
  ASSUME Patient, PropertyInv, NEW o \in Objects, distinct => o.old # None,
         NEW q, q = queue \/ q = <<>>,
         NEW abs \in BOOLEAN, NEW v \in Int, NEW d \in Durations, NEW eq \in Equation,
         MayAdd(abs, d, eq), Enqueue(o, q, NewChange(abs, v, d, eq))
  PROVE  PropertyInv'
<1> DEFINE c == NewChange(abs, v, d, eq)
           w == Write(o, Begin(c, o.now), Begin(c, o.now).end)
<1>1. /\ UNCHANGED <<kind, distinct, effect, waiting, replaced>>
      /\ added' = added + 1
  BY DEF Enqueue, sceneVars
<1>2. /\ c = [abs |-> abs, end |-> v, start |-> 0, time |-> 0, duration |-> d, equation |-> eq,
              endless |-> FALSE, forNew |-> c.forNew]
      /\ c.forNew = (kind = "sprite" /\ Hidden)
      /\ c.forNew \in BOOLEAN
  BY DEF NewChange
<1>3. d \in Nat
  BY PropertyAssumption
<1>4. q \in Seq(Queued) /\ Len(q) \in Nat
  <2>1. queue \in Seq(Queued)
    BY DEF PropertyInv, TypeOK
  <2>2. q \in Seq(Queued)
    BY <2>1, EmptyQueue
  <2>3. QED
    BY <2>2
<1>5. /\ kind = "set" => \A i \in 1..Len(q) : q[i].abs
      /\ (\A i \in 1..Len(q) : ~q[i].forNew) \/ (distinct /\ Len(q) = 1)
  BY EmptyQueue DEF PropertyInv, MarkedIsAlone, SetsAreAbsolute
<1>6. CASE d = 0
  <2>1. w \in Objects /\ (distinct => w.old # None)
    <3> DEFINE b == Begin(c, o.now)
    <3>1. o.now \in Int
      BY DEF Objects
    <3>2. b.end = IF c.abs THEN c.end ELSE o.now + c.end
      BY <1>2 DEF Begin
    <3>3. b.end \in Int
      BY <1>2, <3>1, <3>2
    <3> HIDE DEF b
    <3>4. Write(o, b, b.end) \in Objects /\ (distinct => Write(o, b, b.end).old # None)
      BY <3>3, WriteIs
    <3>5. QED
      BY <3>4 DEF b
  <2>2. now' = w.now /\ old' = w.old /\ queue' = q
    BY <1>2, <1>6 DEF Enqueue
  <2> HIDE DEF w, c
  <2>3. QED
    BY <1>1, <1>4, <1>5, <2>1, <2>2
       DEF PropertyInv, TypeOK, BackupStays, OnlySprites, MarkedIsAlone, SetsAreAbsolute, Objects
<1>7. CASE d # 0
  <2>1. now' = o.now /\ old' = o.old /\ queue' = Append(q, c)
    BY <1>2, <1>7 DEF Enqueue
  <2>2. c \in Queued
    <3> HIDE DEF c
    <3>1. c \in Change
      <4> DEFINE mark == c.forNew
      <4>1. /\ c = [abs |-> abs, end |-> v, start |-> 0, time |-> 0, duration |-> d,
                    equation |-> eq, endless |-> FALSE, forNew |-> mark]
            /\ mark \in BOOLEAN
        BY <1>2
      <4> HIDE DEF mark
      <4>2. QED
        BY <1>3, <4>1 DEF Change
    <3>2. c.duration > 0 /\ ~c.endless
      BY <1>2, <1>3, <1>7
    <3>3. QED
      BY <3>1, <3>2 DEF Queued
  <2> HIDE DEF c
  <2>3. /\ queue' \in Seq(Queued) /\ Len(queue') = Len(q) + 1 /\ queue'[Len(q) + 1] = c
        /\ \A i \in 1..Len(q) : queue'[i] = q[i]
        /\ \A i \in 1..Len(queue') : i \in 1..Len(q) \/ i = Len(q) + 1
    BY <1>4, <2>1, <2>2
  <2>4. MarkedIsAlone'
    <3>1. CASE distinct
      <4>1. Hidden
        BY <3>1 DEF Hidden, PropertyInv, BackupStays
      <4>2. q = <<>>
        BY <4>1 DEF MayAdd
      <4>3. Len(queue') = 1
        BY <2>3, <4>2
      <4>4. QED
        BY <1>1, <3>1, <4>3 DEF MarkedIsAlone
    <3>2. CASE ~distinct
      <4>1. ~c.forNew
        BY <1>2, <3>2 DEF Hidden
      <4>2. QED
        BY <1>5, <2>3, <3>2, <4>1 DEF MarkedIsAlone
    <3>3. QED
      BY <3>1, <3>2
  <2>5. SetsAreAbsolute'
    <3>1. kind = "set" => c.abs
      <4>1. c.abs = abs
        BY <1>2
      <4>2. kind = "set" => abs
        BY DEF MayAdd
      <4>3. QED
        BY <4>1, <4>2
    <3>2. QED
      BY <1>1, <1>5, <2>3, <3>1 DEF SetsAreAbsolute
  <2>6. QED
    BY <1>1, <2>1, <2>3, <2>4, <2>5
       DEF PropertyInv, TypeOK, BackupStays, OnlySprites, Objects
<1>8. QED
  BY <1>6, <1>7

LEMMA AddKeeps ==
  ASSUME Patient, PropertyInv, NEW abs \in BOOLEAN, NEW v \in Values, NEW d \in Durations,
         NEW eq \in Equation, Add(abs, v, d, eq)
  PROVE  PropertyInv'
<1>1. /\ MayAdd(abs, d, eq)
      /\ Enqueue(Object, queue, NewChange(abs, v, d, eq))
  BY DEF Add
<1>2. v \in Int
  BY PropertyAssumption
<1>3. QED
  BY <1>1, <1>2, ObjectIs, EnqueueKeeps

LEMMA OverrideKeeps ==
  ASSUME Patient, PropertyInv, NEW abs \in BOOLEAN, NEW v \in Values, NEW d \in Durations,
         NEW eq \in Equation, Override(abs, v, d, eq)
  PROVE  PropertyInv'
<1> DEFINE c == Begun(Head(queue), now)
           o == Write(Object, c, Interpolated(c))
           x == IF abs THEN v ELSE v + c.end - o.now
<1>1. /\ MayAdd(abs, d, eq) /\ queue # <<>>
      /\ Enqueue(o, <<>>, NewChange(abs, x, d, eq))
  BY DEF Override
<1>2. v \in Int /\ now \in Int /\ Head(queue) \in Queued
  BY <1>1, PropertyAssumption DEF PropertyInv, TypeOK
<1>3. c \in Queued /\ c.time > 0
  BY <1>2, BegunIs
<1> HIDE DEF c
<1>4. Interpolated(c) \in Int /\ c.end \in Int
  BY <1>3, InterpolatedIs DEF Queued, Change
<1>5. o \in Objects /\ (distinct => o.old # None)
  BY <1>4, ObjectIs, WriteIs
<1> HIDE DEF o
<1>6. x \in Int
  BY <1>2, <1>4, <1>5 DEF Objects
<1> HIDE DEF x
<1>7. QED
  BY <1>1, <1>5, <1>6, EnqueueKeeps

LEMMA ReplaceMoveKeep ==
  ASSUME PropertyInv, NEW v \in Values, Replace(v) \/ Move(v)
  PROVE  PropertyInv'
<1>1. /\ kind = "sprite" /\ now' = v /\ old' = BackedUp
      /\ distinct' = TRUE \/ distinct' = distinct
      /\ replaced' = replaced + 1
      /\ UNCHANGED <<kind, effect, queue, waiting, added>>
  BY DEF Replace, Move, sceneVars
<1>2. v \in Int
  BY PropertyAssumption
<1>3. BackedUp \in Int
  BY DEF BackedUp, PropertyInv, TypeOK
<1>4. BackedUp # None
  BY <1>3, PropertyAssumption
<1>5. TypeOK'
  <2>1. TypeOK
    BY DEF PropertyInv
  <2>2. distinct' \in BOOLEAN
    BY <1>1, <2>1 DEF TypeOK
  <2>3. replaced' \in Nat
    BY <1>1, <2>1 DEF TypeOK
  <2>4. QED
    BY <1>1, <1>2, <1>3, <2>1, <2>2, <2>3 DEF TypeOK
<1>6. MarkedIsAlone'
  BY <1>1 DEF PropertyInv, MarkedIsAlone
<1>7. QED
  BY <1>1, <1>4, <1>5, <1>6
     DEF PropertyInv, BackupStays, OnlySprites, SetsAreAbsolute

-----------------------------------------------------------------------------
(* The frame loop *)

\* The clock of the front change does not move where the object rests.
LEMMA AdvancedIs ==
  ASSUME BackupStays, now \in Int, NEW q \in Seq(Queued), NEW ms \in Nat
  PROVE  /\ Advanced(q, ms) \in Seq(Queued) /\ Len(Advanced(q, ms)) = Len(q)
         /\ \A i \in 1..Len(q) : /\ Advanced(q, ms)[i].forNew = q[i].forNew
                                 /\ Advanced(q, ms)[i].abs = q[i].abs
         /\ RestsAt(Scene, now, Advanced(q, ms)) = RestsAt(Scene, now, q)
<1>1. CASE q = <<>>
  BY <1>1 DEF Advanced
<1>2. CASE q # <<>>
  <2> DEFINE b == Begun(Head(q), now)
             d == Ticked(b, ms)
             p == <<d>> \o Tail(q)
  <2>1. Head(q) \in Queued
    BY <1>2
  <2>2. /\ b \in Queued /\ b.time > 0 /\ b.end = EndFrom(now, Head(q))
        /\ b.forNew = Head(q).forNew /\ b.abs = Head(q).abs
    <3> DEFINE c == Head(q)
    <3>1. c \in Queued
      BY <2>1
    <3> HIDE DEF c
    <3>2. /\ Begun(c, now) \in Queued /\ Begun(c, now).time > 0
          /\ Begun(c, now).end = EndFrom(now, c)
          /\ Begun(c, now).forNew = c.forNew /\ Begun(c, now).abs = c.abs
      BY <3>1, BegunIs
    <3>3. QED
      BY <3>2 DEF c
  <2> HIDE DEF b
  <2>3. /\ d \in Queued /\ d.time > 0 /\ d.end = b.end
        /\ d.forNew = b.forNew /\ d.abs = b.abs
    BY <2>2, TickedIs
  <2> HIDE DEF d
  <2>4. Advanced(q, ms) = p
    BY <1>2 DEF Advanced, b, d
  <2>5. /\ p \in Seq(Queued) /\ Len(p) = Len(q) /\ p[1] = d /\ q[1] = Head(q)
        /\ \A i \in 1..Len(q) : i # 1 => p[i] = q[i]
    BY <1>2, <2>3
  <2>6. After(Scene, now, d) = After(Scene, now, Head(q))
    BY <2>2, <2>3 DEF After, Reached, EndFrom
  <2>7. RestsAt(Scene, now, p) = RestsAt(Scene, now, q)
    <3>1. Scene \in {"new", "both"}
      BY SceneIs DEF BackupStays
    <3>2. QED
      BY <1>2, <2>3, <2>6, <3>1, RestsOfFront
  <2> HIDE DEF p
  <2>8. \A i \in 1..Len(q) : p[i].forNew = q[i].forNew /\ p[i].abs = q[i].abs
    BY <2>2, <2>3, <2>5
  <2>9. QED
    BY <2>4, <2>5, <2>7, <2>8
<1>3. QED
  BY <1>1, <1>2

LEMMA AtMostOne == \A m \in Nat : m <= 1 => m = 0 \/ m = 1
OBVIOUS

\* No change is new.
LEMMA FewerKeep ==
  ASSUME PropertyInv, queue' \in Seq(Queued), Len(queue') <= Len(queue),
         \A i \in 1..Len(queue') : \E j \in 1..Len(queue) : queue[j].forNew = queue'[i].forNew,
         \A i \in 1..Len(queue') : \E j \in 1..Len(queue) : queue[j].abs = queue'[i].abs,
         UNCHANGED <<kind, distinct>>
  PROVE  MarkedIsAlone' /\ SetsAreAbsolute'
<1>1. Len(queue) \in Nat /\ Len(queue') \in Nat
  BY DEF PropertyInv, TypeOK
<1>2. SetsAreAbsolute'
  BY DEF PropertyInv, SetsAreAbsolute
<1>3. CASE \A i \in 1..Len(queue) : ~queue[i].forNew
  <2>1. \A i \in 1..Len(queue') : ~queue'[i].forNew
    BY <1>3, Zenon
  <2>2. QED
    BY <1>2, <2>1 DEF MarkedIsAlone
<1>4. CASE distinct /\ Len(queue) = 1
  <2>1. Len(queue') = 0 \/ Len(queue') = 1
    <3>1. Len(queue') <= 1
      BY <1>4, Zenon
    <3>2. QED
      BY <1>1, <3>1, AtMostOne, Zenon
  <2>2. Len(queue') = 0 => \A i \in 1..Len(queue') : ~queue'[i].forNew
    OBVIOUS
  <2>3. QED
    BY <1>2, <1>4, <2>1, <2>2 DEF MarkedIsAlone
<1>5. QED
  BY <1>2, <1>3, <1>4 DEF PropertyInv, MarkedIsAlone

\* The scene the queue is about changes with a replacement or a commit only.
LEMMA SceneStays ==
  ASSUME BackupStays, BackupStays', UNCHANGED distinct, distinct \in BOOLEAN
  PROVE  Scene' = Scene
BY DEF Scene, Hidden, BackupStays

LEMMA SkipKeeps ==
  ASSUME PropertyInv, Skip
  PROVE  PropertyInv' /\ Destination' = Destination
<1>1. PICK c \in {queue[i] : i \in 1..Len(queue)} : queue' = Advanced(queue, Remaining(c))
  BY DEF Skip
<1>2. UNCHANGED <<kind, now, old, distinct, effect, waiting, added, replaced>>
  BY DEF Skip, sceneVars, countVars
<1>3. /\ BackupStays /\ now \in Int /\ queue \in Seq(Queued) /\ distinct \in BOOLEAN
  BY DEF PropertyInv, TypeOK
<1>4. Remaining(c) \in Nat
  <2>1. c \in Queued
    BY <1>3
  <2>2. QED
    BY <2>1 DEF Remaining, Queued, Change
<1>5. /\ queue' \in Seq(Queued) /\ Len(queue') = Len(queue)
      /\ \A i \in 1..Len(queue) : queue'[i].forNew = queue[i].forNew /\ queue'[i].abs = queue[i].abs
      /\ RestsAt(Scene, now, queue') = RestsAt(Scene, now, queue)
  <2> DEFINE ms == Remaining(c)
  <2> HIDE DEF ms
  <2>1. queue' = Advanced(queue, ms) /\ ms \in Nat
    BY <1>1, <1>4 DEF ms
  <2>2. QED
    BY <1>3, <2>1, AdvancedIs
<1>6. MarkedIsAlone' /\ SetsAreAbsolute'
  <2>1. Len(queue') <= Len(queue)
    BY <1>3, <1>5
  <2>2. QED
    BY <1>2, <1>5, <2>1, FewerKeep
<1>7. BackupStays'
  BY <1>2, <1>3 DEF BackupStays
<1>8. PropertyInv'
  BY <1>2, <1>5, <1>6, <1>7 DEF PropertyInv, TypeOK, OnlySprites
<1>9. Scene' = Scene
  BY <1>2, <1>3, <1>7, SceneStays
<1>10. QED
  BY <1>2, <1>5, <1>8, <1>9 DEF Destination

LEMMA FrameKeeps ==
  ASSUME PropertyInv, Frame
  PROVE  PropertyInv' /\ Destination' = Destination
<1> DEFINE p == Advanced(queue, FrameTime)
           a == Applied(Object, p)
<1>1. /\ now' = a.o.now /\ old' = a.o.old /\ queue' = a.rest
      /\ UNCHANGED <<kind, distinct, effect, waiting, added, replaced>>
  BY DEF Frame, sceneVars, countVars
<1>2. /\ BackupStays /\ now \in Int /\ queue \in Seq(Queued) /\ distinct \in BOOLEAN
      /\ FrameTime \in Nat
  BY PropertyAssumption DEF PropertyInv, TypeOK
<1>3. /\ p \in Seq(Queued) /\ Len(p) = Len(queue)
      /\ \A i \in 1..Len(queue) : p[i].forNew = queue[i].forNew /\ p[i].abs = queue[i].abs
      /\ RestsAt(Scene, now, p) = RestsAt(Scene, now, queue)
  BY <1>2, AdvancedIs
<1> HIDE DEF p
<1>4. /\ Object \in Objects /\ Object.now = now
      /\ distinct => Object.old # None
  BY ObjectIs
<1>5. Applies(p, Len(p), a, RestsAt(Scene, now, queue))
  <2> DEFINE o == Object
  <2>1. o \in Objects /\ (distinct => o.old # None) /\ o.now = now
    BY <1>4
  <2> HIDE DEF o
  <2>2. Applies(p, Len(p), Applied(o, p), RestsAt(Scene, o.now, p))
    BY <1>2, <1>3, <2>1, AppliedIs
  <2>3. QED
    BY <1>3, <2>1, <2>2 DEF o
<1> HIDE DEF a
<1>6. /\ a.o \in Objects /\ (distinct => a.o.old # None)
      /\ a.rest \in Seq(Queued) /\ Len(a.rest) <= Len(queue)
      /\ RestsAt(Scene, a.o.now, a.rest) = RestsAt(Scene, now, queue)
  BY <1>3, <1>5 DEF Applies
<1>7. /\ \A i \in 1..Len(queue') : \E j \in 1..Len(queue) : queue[j].forNew = queue'[i].forNew
      /\ \A i \in 1..Len(queue') : \E j \in 1..Len(queue) : queue[j].abs = queue'[i].abs
  BY <1>1, <1>3, <1>5 DEF Applies
<1>8. MarkedIsAlone' /\ SetsAreAbsolute'
  BY <1>1, <1>6, <1>7, FewerKeep
<1>9. BackupStays'
  BY <1>1, <1>6 DEF BackupStays
<1>10. PropertyInv'
  BY <1>1, <1>6, <1>8, <1>9 DEF PropertyInv, TypeOK, OnlySprites, Objects
<1>11. Scene' = Scene
  BY <1>1, <1>2, <1>9, SceneStays
<1>12. QED
  BY <1>1, <1>6, <1>10, <1>11 DEF Destination

-----------------------------------------------------------------------------
(* commitVisualState *)

LEMMA EndedIs ==
  ASSUME NEW c \in Queued
  PROVE  /\ Ended(c) \in Queued /\ Ended(c).end = c.end /\ Ended(c).end \in Int
         /\ Ended(c).forNew = c.forNew
<1> DEFINE time == c.time + Remaining(c)
<1>1. c.time \in Nat /\ c.duration \in Nat /\ (c.time = 0 => c.duration > 0)
  BY DEF Queued, Change
<1>2. time \in Nat /\ (time = 0 => c.duration > 0)
  BY <1>1 DEF Remaining
<1>3. Ended(c) = [c EXCEPT !.endless = FALSE, !.time = time]
  BY DEF Ended
<1> HIDE DEF time
<1>4. Ended(c) \in Change /\ Ended(c).time = time /\ Ended(c).duration = c.duration
      /\ ~Ended(c).endless /\ Ended(c).end = c.end /\ Ended(c).forNew = c.forNew
  BY <1>2, <1>3 DEF Queued, Change
<1>5. c.end \in Int
  BY DEF Queued, Change
<1>6. QED
  BY <1>2, <1>4, <1>5 DEF Queued

\* terminateSpriteProperties has ended the first n changes, all of the old sprite.
Ends(a) ==
  /\ a \in [o : Objects, rest : Seq(Queued), stopped : BOOLEAN]
  /\ ~a.stopped
  /\ a.o.now = now
  /\ distinct => a.o.old # None

LEMMA EndsNext ==
  ASSUME distinct, NEW a, Ends(a), NEW c \in Queued, ~c.forNew
  PROVE  Ends(EndForSprite(a, c)) /\ After("new", now, c) = now
<1> DEFINE e == Ended(c)
           x == e.end
           w == Write(a.o, e, x)
           rest == Append(a.rest, e)
<1>1. /\ a \in [o : Objects, rest : Seq(Queued), stopped : BOOLEAN]
      /\ a.o \in Objects /\ a.rest \in Seq(Queued) /\ a.stopped \in BOOLEAN
      /\ ~a.stopped /\ a.o.now = now
      /\ distinct => a.o.old # None
  BY DEF Ends
<1>2. e \in Queued /\ x \in Int /\ ~e.forNew
  BY EndedIs
<1>3. EndForSprite(a, c) = [a EXCEPT !.o = w, !.rest = rest]
  BY <1>1 DEF EndForSprite
<1> HIDE DEF e, x
<1>4. /\ w \in Objects /\ w.now = a.o.now
      /\ distinct => w.old # None
  BY <1>1, <1>2, WriteIs
<1>5. rest \in Seq(Queued)
  BY <1>1, <1>2
<1> HIDE DEF w, rest
<1>6. EndForSprite(a, c) = [o |-> w, rest |-> rest, stopped |-> a.stopped]
  BY <1>1, <1>3
<1> DEFINE r == [o |-> w, rest |-> rest, stopped |-> a.stopped]
<1>7. /\ r \in [o : Objects, rest : Seq(Queued), stopped : BOOLEAN]
      /\ r.o = w /\ r.stopped = a.stopped
  BY <1>1, <1>4, <1>5
<1> HIDE DEF r
<1>8. Ends(r)
  BY <1>1, <1>4, <1>7 DEF Ends
<1>9. QED
  BY <1>6, <1>8 DEF After, Reached, r

\* The end of a transition in which only the old sprite changed.
LEMMA OldOnly ==
  ASSUME PropertyInv, kind = "sprite", distinct, \A i \in 1..Len(queue) : ~queue[i].forNew
  PROVE  /\ TerminatedSprite.o.now = now /\ TerminatedSprite.rest = <<>>
         /\ RestsAt("new", now, queue) = now
<1> DEFINE base == [o |-> Object, rest |-> <<>>, stopped |-> FALSE]
<1>1. /\ Len(queue) \in Nat /\ \A n \in 1..Len(queue) : queue[n] \in Queued
  BY DEF PropertyInv, TypeOK
<1>2. PICK r : RestsBy("new", now, queue, r)
  BY <1>1, RestsFolds
<1>3. PICK f : EndedBy(base, queue, f)
  <2> HIDE DEF base
  <2>1. QED
    BY <1>1, EndedFolds
<1> DEFINE S == {n \in 0..Len(queue) : Ends(f[n]) /\ r[n] = now}
<1>4. 0 \in S
  <2>1. f[0] = base /\ r[0] = now
    BY <1>2, <1>3 DEF EndedBy, RestsBy
  <2>2. /\ Object \in Objects /\ Object.now = now
        /\ distinct => Object.old # None
    BY ObjectIs
  <2>3. base \in [o : Objects, rest : Seq(Queued), stopped : BOOLEAN]
    BY <2>2, EmptyQueue
  <2>4. base.o = Object /\ ~base.stopped
    OBVIOUS
  <2> HIDE DEF base
  <2>5. Ends(base)
    BY <2>2, <2>3, <2>4 DEF Ends
  <2>6. QED
    BY <1>1, <2>1, <2>5
<1>5. ASSUME NEW n \in 0..Len(queue), n \in S, n # Len(queue) PROVE n + 1 \in S
  <2>1. n + 1 \in 1..Len(queue) /\ n + 1 \in 0..Len(queue) /\ (n + 1) - 1 = n
    BY <1>1, <1>5
  <2>2. /\ f[n + 1] = EndForSprite(f[n], queue[n + 1])
        /\ r[n + 1] = After("new", r[n], queue[n + 1])
    BY <1>2, <1>3, <2>1 DEF EndedBy, RestsBy
  <2>3. Ends(f[n]) /\ r[n] = now
    BY <1>5
  <2>4. Ends(EndForSprite(f[n], queue[n + 1])) /\ After("new", now, queue[n + 1]) = now
    BY <1>1, <2>1, <2>3, EndsNext
  <2>5. QED
    BY <2>1, <2>2, <2>3, <2>4
<1> HIDE DEF S
<1>6. Len(queue) \in S
  <2>1. 0..Len(queue) \subseteq S
    BY <1>1, <1>4, <1>5, PrefixBySteps
  <2>2. Len(queue) \in 0..Len(queue)
    BY <1>1
  <2>3. QED
    BY <2>1, <2>2
<1>7. /\ Ends(f[Len(queue)]) /\ r[Len(queue)] = now
  BY <1>6 DEF S
<1> DEFINE t == f[Len(queue)]
<1>8. t = Folded(EndForSprite, base, queue)
  BY <1>3 DEF EndedBy
<1> HIDE DEF t
<1>9. /\ t \in [o : Objects, rest : Seq(Queued), stopped : BOOLEAN]
      /\ ~t.stopped /\ t.o.now = now
  BY <1>7 DEF Ends, t
<1>10. TerminatedSprite = [t EXCEPT !.rest = <<>>]
  BY <1>8, <1>9 DEF TerminatedSprite
<1>11. TerminatedSprite.o.now = now /\ TerminatedSprite.rest = <<>>
  BY <1>9, <1>10
<1>12. QED
  BY <1>2, <1>7, <1>11 DEF RestsBy

\* What the commit leaves is all the new scene's, and takes its object where
\* it was going.
Committed(o, rest) ==
  /\ o.now \in Int
  /\ rest \in Seq(Queued)
  /\ \A i \in 1..Len(rest) : ~rest[i].forNew
  /\ kind = "set" => rest = <<>>
  /\ RestsAt("both", o.now, rest) = Destination

LEMMA SpriteCommitted ==
  ASSUME PropertyInv, kind = "sprite", distinct
  PROVE  Committed(TerminatedSprite.o, TerminatedSprite.rest)
<1> DEFINE t == TerminatedSprite
<1>1. /\ BackupStays /\ now \in Int /\ queue \in Seq(Queued)
  BY DEF PropertyInv, TypeOK
<1>2. Scene = "new"
  BY <1>1, SceneIs DEF BackupStays
<1>3. <<>> \in Seq(Queued) /\ Len(<<>>) = 0
  BY EmptyQueue
<1>4. CASE \A i \in 1..Len(queue) : ~queue[i].forNew
  <2>1. /\ t.o.now = now /\ t.rest = <<>>
        /\ RestsAt("new", now, queue) = now
    BY <1>4, OldOnly
  <2>2. RestsAt("both", now, <<>>) = now
    BY RestsOfNone
  <2> HIDE DEF t
  <2>3. Committed(t.o, t.rest)
    BY <1>1, <1>2, <1>3, <2>1, <2>2 DEF Committed, Destination
  <2>4. QED
    BY <2>3 DEF t
<1>5. CASE Len(queue) = 1 /\ ~\A i \in 1..Len(queue) : ~queue[i].forNew
  <2> DEFINE c == queue[1]
             d == [c EXCEPT !.forNew = FALSE]
             base == [o |-> Object, rest |-> <<>>, stopped |-> FALSE]
  <2>1. Len(queue) = 1 /\ 1 \in 1..Len(queue) /\ 1 - 1 = 0
    BY <1>5
  <2>2. c.forNew
    <3>1. PICK i \in 1..Len(queue) : queue[i].forNew
      BY <1>5
    <3>2. i = 1
      BY <2>1
    <3>3. QED
      BY <3>1, <3>2
  <2>3. c \in Queued /\ queue = <<c>>
    <3>1. \A s \in Seq(Queued) : Len(s) = 1 => s[1] \in Queued /\ s = <<s[1]>>
      OBVIOUS
    <3>2. QED
      BY <1>1, <2>1, <3>1, Zenon
  <2>4. PICK f : EndedBy(base, queue, f)
    <3>1. Len(queue) \in Nat
      BY <2>1
    <3> HIDE DEF base
    <3>2. QED
      BY <3>1, EndedFolds
  <2>5. f[1] = EndForSprite(base, c) /\ Folded(EndForSprite, base, queue) = f[1]
    BY <2>1, <2>4 DEF EndedBy
  <2>6. EndForSprite(base, c) = [o |-> Object, rest |-> <<d>>, stopped |-> TRUE]
    <3>1. Append(<<>>, d) = <<d>>
      OBVIOUS
    <3> HIDE DEF d
    <3>2. QED
      BY <2>2, <3>1 DEF EndForSprite, d
  <2>7. t = [o |-> Object, rest |-> <<d>>, stopped |-> TRUE]
    <3> DEFINE u == [o |-> Object, rest |-> <<d>>, stopped |-> TRUE]
    <3>1. u.stopped
      OBVIOUS
    <3>2. Folded(EndForSprite, base, queue) = u
      BY <2>5, <2>6
    <3> HIDE DEF u
    <3>3. QED
      BY <3>1, <3>2 DEF TerminatedSprite, u
  <2>8. d \in Queued /\ ~d.forNew /\ d.abs = c.abs /\ d.time = c.time /\ d.end = c.end
    BY <2>3 DEF Queued, Change
  <2>9. Object.now = now
    BY DEF Object
  <2> HIDE DEF d
  <2>10. t.o.now = now /\ t.rest = <<d>>
    BY <2>7, <2>9
  <2>11. RestsAt("both", now, <<d>>) = After("both", now, d)
    BY <2>8, RestsOfOne
  <2>12. RestsAt("new", now, <<c>>) = After("new", now, c)
    BY <2>3, RestsOfOne
  <2>13. After("both", now, d) = After("new", now, c)
    BY <2>2, <2>8 DEF After, Reached, EndFrom
  <2>14. RestsAt("both", t.o.now, t.rest) = Destination
    BY <1>2, <2>3, <2>10, <2>11, <2>12, <2>13 DEF Destination
  <2>15. /\ <<d>> \in Seq(Queued) /\ Len(<<d>>) = 1
         /\ \A i \in 1..Len(<<d>>) : <<d>>[i] = d
    BY <2>8
  <2> HIDE DEF t
  <2>16. Committed(t.o, t.rest)
    BY <1>1, <2>8, <2>10, <2>14, <2>15 DEF Committed
  <2>17. QED
    BY <2>16 DEF t
<1>6. QED
  BY <1>4, <1>5 DEF PropertyInv, MarkedIsAlone

\* Of a spriteset every change ends, and all are absolute.
LEMMA SetCommitted ==
  ASSUME PropertyInv, kind = "set"
  PROVE  Committed(TerminatedSet.o, TerminatedSet.rest)
<1>1. /\ BackupStays /\ now \in Int /\ ~distinct
      /\ Len(queue) \in Nat /\ \A n \in 1..Len(queue) : queue[n] \in Queued
      /\ \A n \in 1..Len(queue) : queue[n].abs
  BY DEF PropertyInv, TypeOK, OnlySprites, SetsAreAbsolute
<1>2. Scene = "both"
  BY <1>1, SceneIs DEF BackupStays
<1>3. PICK r : RestsBy("both", now, queue, r)
  BY <1>1, RestsFolds
<1>4. PICK f : SetBy(Object, queue, f)
  <2> DEFINE o == Object
  <2> HIDE DEF o
  <2>1. \E f : SetBy(o, queue, f)
    BY <1>1, SetFolds
  <2>2. QED
    BY <2>1 DEF o
<1> DEFINE S == {n \in 0..Len(queue) : f[n] \in Objects /\ f[n].now = r[n]}
<1>5. 0 \in S
  <2>1. f[0] = Object /\ r[0] = now
    BY <1>3, <1>4 DEF SetBy, RestsBy
  <2>2. QED
    BY <1>1, <2>1, ObjectIs
<1>6. ASSUME NEW n \in 0..Len(queue), n \in S, n # Len(queue) PROVE n + 1 \in S
  <2> DEFINE c == queue[n + 1]
  <2>1. n + 1 \in 1..Len(queue) /\ n + 1 \in 0..Len(queue) /\ (n + 1) - 1 = n
    BY <1>1, <1>6
  <2>2. /\ f[n + 1] = EndForSet(f[n], c) /\ r[n + 1] = After("both", r[n], c)
    BY <1>3, <1>4, <2>1 DEF SetBy, RestsBy
  <2>3. c \in Queued /\ c.abs /\ f[n] \in Objects
    BY <1>1, <1>6, <2>1
  <2> HIDE DEF c
  <2>4. EndForSet(f[n], c) \in Objects /\ EndForSet(f[n], c).now = c.end
    <3> DEFINE e == Ended(c)
               x == e.end
               o == f[n]
    <3>1. e.end = c.end /\ x = c.end /\ x \in Int
      BY <2>3, EndedIs
    <3>2. o \in Objects
      BY <2>3
    <3> HIDE DEF e, x, o
    <3>3. Write(o, e, x) \in Objects /\ Write(o, e, x).now = x
      BY <1>1, <3>1, <3>2, WriteIs
    <3>4. QED
      BY <3>1, <3>3 DEF EndForSet, e, x, o
  <2>5. After("both", r[n], c) = c.end
    BY <2>3 DEF After, Reached, EndFrom
  <2>6. QED
    BY <2>1, <2>2, <2>4, <2>5
<1> HIDE DEF S
<1>7. Len(queue) \in S
  <2>1. 0..Len(queue) \subseteq S
    BY <1>1, <1>5, <1>6, PrefixBySteps
  <2>2. Len(queue) \in 0..Len(queue)
    BY <1>1
  <2>3. QED
    BY <2>1, <2>2
<1>8. TerminatedSet.o = f[Len(queue)] /\ TerminatedSet.rest = <<>>
  BY <1>4 DEF TerminatedSet, SetBy
<1>9. TerminatedSet.o.now = Destination /\ TerminatedSet.o.now \in Int
  BY <1>2, <1>3, <1>7, <1>8 DEF S, Destination, RestsBy, Objects
<1>10. RestsAt("both", TerminatedSet.o.now, <<>>) = TerminatedSet.o.now
  BY RestsOfNone
<1>11. <<>> \in Seq(Queued) /\ Len(<<>>) = 0
  BY EmptyQueue
<1>12. QED
  BY <1>8, <1>9, <1>10, <1>11 DEF Committed

\* What is not replaced goes on as it is.
LEMMA OtherCommitted ==
  ASSUME PropertyInv, ~distinct, kind # "set"
  PROVE  Committed(Object, queue)
<1>1. BackupStays /\ now \in Int /\ queue \in Seq(Queued)
  BY DEF PropertyInv, TypeOK
<1>2. Scene = "both"
  BY <1>1, SceneIs DEF BackupStays
<1>3. \A i \in 1..Len(queue) : ~queue[i].forNew
  BY DEF PropertyInv, MarkedIsAlone
<1>4. QED
  BY <1>1, <1>2, <1>3, ObjectIs DEF Committed, Destination

LEMMA CommitKeeps ==
  ASSUME PropertyInv, Commit
  PROVE  PropertyInv' /\ Destination' = Destination
<1>1. Hidden <=> distinct
  BY DEF Hidden, PropertyInv, BackupStays
<1>2. PICK o, rest : /\ Committed(o, rest)
                     /\ now' = o.now /\ queue' = rest
  <2>1. CASE kind = "sprite" /\ distinct
    <3>1. now' = TerminatedSprite.o.now /\ queue' = TerminatedSprite.rest
      BY <1>1, <2>1 DEF Commit
    <3>2. QED
      BY <2>1, <3>1, SpriteCommitted
  <2>2. CASE kind = "set"
    <3>1. now' = TerminatedSet.o.now /\ queue' = TerminatedSet.rest
      BY <2>2 DEF Commit
    <3>2. QED
      BY <2>2, <3>1, SetCommitted
  <2>3. CASE ~distinct /\ kind # "set"
    <3>1. now' = Object.now /\ queue' = queue
      BY <1>1, <2>3 DEF Commit
    <3>2. QED
      BY <2>3, <3>1, OtherCommitted
  <2>4. QED
    BY <2>1, <2>2, <2>3 DEF PropertyInv, OnlySprites
<1>3. /\ old' = None /\ distinct' = (distinct /\ old = None) /\ effect' = FALSE
      /\ UNCHANGED <<kind, waiting, added, replaced>>
  BY DEF Commit, countVars
<1>4. ~distinct' /\ distinct' \in BOOLEAN /\ effect' \in BOOLEAN
  BY <1>3 DEF PropertyInv, BackupStays
<1>5. TypeOK'
  BY <1>2, <1>3, <1>4 DEF PropertyInv, TypeOK, Committed
<1>6. MarkedIsAlone'
  <2>1. \A i \in 1..Len(queue') : ~queue'[i].forNew
    BY <1>2 DEF Committed
  <2>2. QED
    BY <2>1 DEF MarkedIsAlone
<1>7. SetsAreAbsolute'
  BY <1>2, <1>3, EmptyQueue DEF Committed, SetsAreAbsolute
<1>8. PropertyInv'
  BY <1>4, <1>5, <1>6, <1>7 DEF PropertyInv, BackupStays, OnlySprites
<1>9. Scene' = "both"
  BY <1>4 DEF Scene, Hidden
<1>10. Destination' = Destination
  BY <1>2, <1>9 DEF Destination, Committed
<1>11. QED
  BY <1>8, <1>10

-----------------------------------------------------------------------------
(* The theorems *)

LEMMA OtherKeeps ==
  ASSUME PropertyInv, StartEffect \/ Wait \/ StopWaiting \/ UNCHANGED vars
  PROVE  PropertyInv'
<1>1. UNCHANGED <<kind, now, old, distinct, queue, added, replaced>>
  BY DEF StartEffect, Wait, StopWaiting, vars, sceneVars, countVars
<1>2. effect' \in BOOLEAN /\ waiting' \in BOOLEAN
  BY DEF StartEffect, Wait, StopWaiting, vars, sceneVars, countVars, PropertyInv, TypeOK
<1>3. QED
  BY <1>1, <1>2
     DEF PropertyInv, TypeOK, BackupStays, OnlySprites, MarkedIsAlone, SetsAreAbsolute

LEMMA PropertyStep ==
  ASSUME Patient, PropertyInv, [Next]_vars
  PROVE  PropertyInv'
<1>1. CASE \E abs \in BOOLEAN, v \in Values, d \in Durations, eq \in Equation :
             Add(abs, v, d, eq) \/ Override(abs, v, d, eq)
  BY <1>1, AddKeeps, OverrideKeeps
<1>2. CASE \E v \in Values : Replace(v) \/ Move(v)
  BY <1>2, ReplaceMoveKeep
<1>3. CASE StartEffect \/ Wait \/ StopWaiting \/ UNCHANGED vars
  BY <1>3, OtherKeeps
<1>4. CASE Skip
  BY <1>4, SkipKeeps
<1>5. CASE Frame
  BY <1>5, FrameKeeps
<1>6. CASE Commit
  BY <1>6, CommitKeeps
<1>7. QED
  BY <1>1, <1>2, <1>3, <1>4, <1>5, <1>6 DEF Next, Script

LEMMA PropertyInvariant ==
  ASSUME Patient
  PROVE  Spec => []PropertyInv
<1>1. PropertyInv /\ [Next]_vars => PropertyInv'
  BY PropertyStep
<1>2. QED
  BY <1>1, PropertyInit, PTL DEF Spec

\* Frames, skips and commits leave the destination of the new scene as the
\* script set it, for queues of any length, changes of any duration and any
\* frame time, if the script is patient (advance, apply,
\* terminateSpriteProperties, terminateSpritesetProperties).
THEOREM DestinationKeptAlways ==
  ASSUME Patient
  PROVE  Spec => DestinationKept
<1>1. PropertyInv /\ [Next]_vars => [Frame \/ Skip \/ Commit => Destination' = Destination]_vars
  BY FrameKeeps, SkipKeeps, CommitKeeps
<1>2. QED
  BY <1>1, PropertyInvariant, PTL DEF Spec, DestinationKept
=============================================================================

------------------------- MODULE DynamicProperties -------------------------
(***************************************************************************)
(* The queue of changes of one property of one object: a sprite, which has *)
(* an old state while a transition shows both scenes, a spriteset, or a    *)
(* global value (Engine/Components/DynamicProperty.cpp).  The script adds  *)
(* changes, the frame loop advances and applies the front one, a commit    *)
(* ends the transition.  Queues of different properties share only the     *)
(* commit, so one is enough.                                               *)
(***************************************************************************)
EXTENDS Integers, Sequences

CONSTANTS
  Kinds,        \* the kinds of object explored, of "sprite", "set", "global"
  Values,       \* values a script passes
  Durations,    \* durations in milliseconds, 0 among them
  FrameTime,    \* milliseconds per frame
  MaxChanges,   \* bound: changes the script adds
  MaxReplaced,  \* bound: times the script replaces the sprite
  Patient,      \* the script avoids the two uses that mix changes up at a commit
  None          \* no old state

ASSUME PropertyAssumption ==
  /\ Kinds \subseteq {"sprite", "set", "global"}
  /\ Values \subseteq Nat /\ Durations \subseteq Nat
  /\ FrameTime \in Nat \ {0}
  /\ MaxChanges \in Nat /\ MaxReplaced \in Nat
  /\ Patient \in BOOLEAN
  /\ None \notin Int

VARIABLES
  kind,      \* what the property belongs to
  now,       \* its value: ai, the spriteset or the global variable
  old,       \* its value in old_ai, or None
  distinct,  \* distinguish_from_old_ai
  effect,    \* effect_current is set
  queue,     \* the deque of changes
  waiting,   \* the script is in waitOnPropertyGeneric
  added,     \* changes added so far
  replaced   \* replacements so far

vars == <<kind, now, old, distinct, effect, queue, waiting, added, replaced>>
sceneVars == <<distinct, effect>>
countVars == <<added, replaced>>

Equation == {"linear", "rotate", "wave"}
Change == [abs : BOOLEAN, end : Int, start : Int, time : Nat, duration : Nat,
           equation : Equation, endless : BOOLEAN, forNew : BOOLEAN]

(***************************************************************************)
(* One change.                                                             *)
(***************************************************************************)
Magnitude(x) == IF x < 0 THEN -x ELSE x

\* The new sprite will be another one after the commit.
Hidden == old # None /\ distinct

\* begin: the change learns where it starts and ends.  A rotation's duration
\* was its speed so far.  The millisecond marks it as begun.
Begin(c, v) ==
  LET end == IF c.abs THEN c.end ELSE v + c.end
  IN  [c EXCEPT !.start = v, !.end = end, !.time = 1,
                !.endless = c.equation = "wave",
                !.duration = IF c.equation = "rotate" THEN Magnitude(end - v) \div @ ELSE @]

Begun(c, v) == IF c.time = 0 THEN Begin(c, v) ELSE c

Finished(c) == ~c.endless /\ c.time >= c.duration

\* getInterpolatedValue, linear; a wave is at its end half-way and at its
\* start again at the end of each period.
Interpolated(c) ==
  IF Finished(c) THEN c.end
  ELSE LET t == IF c.endless THEN (2 * c.time) % (2 * c.duration) ELSE c.time
           up == IF c.endless /\ t > c.duration THEN 2 * c.duration - t ELSE t
       IN  c.start + ((c.end - c.start) * up) \div c.duration

\* The clock.  A finished change's time is kept at its duration and a wave's
\* within its period: nothing looks further.
Ticked(c, ms) ==
  IF c.duration = 0 THEN c
  ELSE [c EXCEPT !.time = IF c.endless THEN 1 + ((@ + ms - 1) % c.duration)
                          ELSE IF @ + ms > c.duration THEN c.duration ELSE @ + ms]

Remaining(c) == IF c.duration > c.time THEN c.duration - c.time ELSE 0

\* Mutant: an old change goes to the new sprite as well.
WriteBoth(o, c, v) ==
  LET backup == IF effect /\ kind = "sprite" /\ o.old = None THEN o.now ELSE o.old
  IN  [now |-> v, old |-> IF backup = None \/ c.forNew THEN backup ELSE v]

\* setValue: during an effect the sprite is backed up first; a change made
\* before the sprite was replaced goes to the old one alone, one made since to
\* the new one alone, and any other to both.
Write(o, c, v) ==
  LET backup == IF effect /\ kind = "sprite" /\ o.old = None THEN o.now ELSE o.old
  IN  IF backup # None /\ distinct /\ ~c.forNew THEN [now |-> o.now, old |-> v]
      ELSE [now |-> v, old |-> IF backup = None \/ c.forNew THEN backup ELSE v]

Object == [now |-> now, old |-> old]

\* The loops over a queue: Op folded over it, from the front.  (The library's
\* folds have TLC evaluate each step once per use of its result.)
Folded(Op(_, _), base, q) ==
  LET f[n \in 0..Len(q)] ==
        IF n = 0 THEN base ELSE CHOOSE r \in {Op(acc, q[n]) : acc \in {f[n - 1]}} : TRUE
  IN  f[Len(q)]

(***************************************************************************)
(* The script.                                                             *)
(***************************************************************************)
\* A change the script asked for goes into the queue, or is carried out at
\* once when it takes no time.
Enqueue(o, q, c) ==
  /\ IF c.duration = 0
     THEN LET w == Write(o, Begin(c, o.now), Begin(c, o.now).end)
          IN  now' = w.now /\ old' = w.old /\ queue' = q
     ELSE now' = o.now /\ old' = o.old /\ queue' = Append(q, c)
  /\ added' = added + 1
  /\ UNCHANGED <<kind, sceneVars, waiting, replaced>>

NewChange(abs, v, d, eq) ==
  [abs |-> abs, end |-> v, start |-> 0, time |-> 0, duration |-> d, equation |-> eq,
   endless |-> FALSE, forNew |-> kind = "sprite" /\ Hidden]

MayAdd(abs, d, eq) ==
  /\ ~waiting
  /\ added < MaxChanges
  /\ d = 0 => eq = "linear"
  /\ Patient /\ Hidden => queue = <<>>
  /\ Patient /\ kind = "set" => abs

\* addSpriteProperty, addSpritesetProperty, addGlobalProperty, addCustomProperty.
Add(abs, v, d, eq) ==
  /\ MayAdd(abs, d, eq)
  /\ Enqueue(Object, queue, NewChange(abs, v, d, eq))

\* The same with _is_override: the front change is brought up to date, what is
\* left of it is added to a relative change, and the queue is emptied.
Override(abs, v, d, eq) ==
  /\ MayAdd(abs, d, eq)
  /\ kind # "set" /\ (kind = "sprite" => abs)
  /\ queue # <<>>
  /\ LET c == Begun(Head(queue), now)
         o == Write(Object, c, Interpolated(c))
     IN  Enqueue(o, <<>>, NewChange(abs, IF abs THEN v ELSE v + c.end - o.now, d, eq))

\* backupState, for a command that is about to change the sprite.
BackedUp == IF old = None THEN now ELSE old

\* A command loads another image into the sprite: backupState, then
\* deleteImage and the new sprite's own values.
Replace(v) ==
  /\ kind = "sprite" /\ ~waiting
  /\ replaced < MaxReplaced
  /\ replaced' = replaced + 1
  /\ old' = BackedUp
  /\ now' = v
  /\ distinct' = TRUE
  /\ UNCHANGED <<kind, effect, queue, waiting, added>>

\* A command sets the value of the sprite without replacing it.
Move(v) ==
  /\ kind = "sprite" /\ ~waiting
  /\ replaced < MaxReplaced
  /\ replaced' = replaced + 1
  /\ old' = BackedUp
  /\ now' = v
  /\ UNCHANGED <<kind, sceneVars, queue, waiting, added>>

\* print: waits for the previous effect, then starts one that the frames carry
\* on, also behind the script's back (async).
StartEffect ==
  /\ ~waiting /\ ~effect
  /\ effect' = TRUE
  /\ UNCHANGED <<kind, now, old, distinct, queue, waiting, countVars>>

\* waitOnPropertyGeneric is entered, and left when its condition fails.
Wait ==
  /\ ~waiting /\ queue # <<>>
  /\ waiting' = TRUE
  /\ UNCHANGED <<kind, now, old, sceneVars, queue, countVars>>

\* Mutant: it waits for waves as well.
WaitOverWhenEmpty == queue = <<>>

WaitOver == queue # <<>> => Head(queue).endless

StopWaiting ==
  /\ waiting /\ WaitOver
  /\ waiting' = FALSE
  /\ UNCHANGED <<kind, now, old, sceneVars, queue, countVars>>

(***************************************************************************)
(* The frame loop.                                                         *)
(***************************************************************************)
\* advanceNanos: only the front change gets older.
Advanced(q, ms) ==
  IF q = <<>> THEN q ELSE <<Ticked(Begun(Head(q), now), ms)>> \o Tail(q)

\* While skipping, waitOnPropertyGeneric advances by the longest duration left.
Skip ==
  /\ waiting /\ ~WaitOver
  /\ \E c \in {queue[i] : i \in 1..Len(queue)} :
       /\ \A d \in {queue[i] : i \in 1..Len(queue)} : Remaining(d) <= Remaining(c)
       /\ queue' = Advanced(queue, Remaining(c))
  /\ UNCHANGED <<kind, now, old, sceneVars, waiting, countVars>>

\* apply: changes are applied from the front, and those that are finished
\* popped, up to the first that is not.
ApplyNext(acc, c) ==
  IF acc.stopped THEN [acc EXCEPT !.rest = Append(@, c)]
  ELSE LET d == Begun(c, acc.o.now)
           o == Write(acc.o, d, Interpolated(d))
       IN  IF Finished(d) THEN [acc EXCEPT !.o = o]
           ELSE [o |-> o, rest |-> <<d>>, stopped |-> TRUE]

Applied(o, q) == Folded(ApplyNext, [o |-> o, rest |-> <<>>, stopped |-> FALSE], q)

\* advanceGameState: advanceNanos and apply.
Frame ==
  /\ queue # <<>>
  /\ \E a \in {Applied(Object, Advanced(queue, FrameTime))} :
       now' = a.o.now /\ old' = a.o.old /\ queue' = a.rest
  /\ UNCHANGED <<kind, sceneVars, waiting, countVars>>

\* The early end of a change: its clock is run to the end and it is applied.
\* A change that had not begun is not begun either, once its clock runs.
Ended(c) == [c EXCEPT !.endless = FALSE, !.time = @ + Remaining(c)]

\* terminateSpriteProperties: changes end, up to the first that belongs to the
\* new sprite; that one loses its mark, and then all of them stay queued.
EndForSprite(acc, c) ==
  IF acc.stopped THEN [acc EXCEPT !.rest = Append(@, c)]
  ELSE IF c.forNew
       THEN [acc EXCEPT !.rest = Append(@, [c EXCEPT !.forNew = FALSE]), !.stopped = TRUE]
       ELSE [acc EXCEPT !.o = Write(@, Ended(c), Ended(c).end), !.rest = Append(@, Ended(c))]

TerminatedSprite ==
  LET t == Folded(EndForSprite, [o |-> Object, rest |-> <<>>, stopped |-> FALSE], queue)
  IN  IF t.stopped THEN t ELSE [t EXCEPT !.rest = <<>>]

\* terminateSpritesetProperties: all changes end.
EndForSet(o, c) == Write(o, Ended(c), Ended(c).end)
TerminatedSet == [o |-> Folded(EndForSet, Object, queue), rest |-> <<>>]

\* commitVisualState, at the end of an effect or called by a command; sprites
\* are committed when they were backed up, spritesets always.
Commit ==
  /\ LET t == IF kind = "sprite" /\ Hidden THEN TerminatedSprite
              ELSE IF kind = "set" THEN TerminatedSet
              ELSE [o |-> Object, rest |-> queue]
     IN  now' = t.o.now /\ queue' = t.rest
  /\ old' = None
  /\ distinct' = (distinct /\ old = None)
  /\ effect' = FALSE
  /\ UNCHANGED <<kind, waiting, countVars>>

Init ==
  /\ kind \in Kinds
  /\ now = 0
  /\ old = None
  /\ distinct = FALSE
  /\ effect = FALSE
  /\ queue = <<>>
  /\ waiting = FALSE
  /\ added = 0 /\ replaced = 0

Script ==
  \/ \E abs \in BOOLEAN, v \in Values, d \in Durations, eq \in Equation :
       Add(abs, v, d, eq) \/ Override(abs, v, d, eq)
  \/ \E v \in Values : Replace(v) \/ Move(v)
  \/ StartEffect
  \/ Wait
  \/ StopWaiting
  \/ Skip

Next == Script \/ Frame \/ Commit

\* The loop of a waiting command runs frames and looks at its condition
\* between them.
Spec == Init /\ [][Next]_vars /\ WF_vars(waiting /\ Frame) /\ WF_vars(StopWaiting)
----------------------------------------------------------------------------
\* Where an object of value v comes to rest when the changes of q that reach
\* it are done, one after the other: once the old sprite is another one, the
\* new scene's object is reached by the marked changes alone.
Scene == IF Hidden THEN "new" ELSE "both"
Reached(scene, c) == scene = "both" \/ c.forNew
EndFrom(v, c) == IF c.abs \/ c.time > 0 THEN c.end ELSE v + c.end
After(scene, v, c) == IF Reached(scene, c) THEN EndFrom(v, c) ELSE v
RestsAt(scene, v, q) == LET Then(x, c) == After(scene, x, c) IN Folded(Then, v, q)
Destination == RestsAt(Scene, now, queue)

\* Time and commits decide when a property comes to rest, never where: a
\* frame, a skip or a commit in the middle of queued, relative, overridden or
\* replaced changes leaves the destination of the new scene as the script set
\* it (advance, apply, terminateSpriteProperties, terminateSpritesetProperties).
DestinationKept == [][Frame \/ Skip \/ Commit => Destination' = Destination]_vars

\* A command that waits for a property goes on in the end, also when a wave
\* is queued behind other changes and when a commit ends changes under it.
WaitReturns == waiting ~> ~waiting
=============================================================================

-------------------------- MODULE Dialogue_proofs --------------------------
(***************************************************************************)
(* Proofs about Dialogue, for every script that keeps the rules, of any    *)
(* length.  A dialogue is always in one of eleven situations; which one    *)
(* says what its queue holds, whose state the interpreter works on and     *)
(* what will move the dialogue on.  From that no exchange comes out of     *)
(* turn and there is always one continuation.  What each situation means   *)
(* to the script and to its dialogue makes every step one of Duet.         *)
(***************************************************************************)
EXTENDS Dialogue, FiniteSetTheorems, TLAPS

-----------------------------------------------------------------------------
(* The interpreter: what ScriptState's functions do to a sound one. *)

IsContext(c) ==
  /\ c = [pc |-> c.pc, routine |-> c.routine, reports |-> c.reports]
  /\ c.reports \in BOOLEAN

Shaped(i) ==
  /\ i = [cur |-> i.cur, kept |-> i.kept, swaps |-> i.swaps, wonky |-> i.wonky]
  /\ IsContext(i.cur) /\ IsContext(i.kept) /\ i.swaps \in Nat

\* No error was met, and the script's own commands report to no dialogue.
Sound(i) ==
  /\ Shaped(i) /\ i.wonky = FALSE
  /\ (IF InDialogue(i) THEN i.kept ELSE i.cur).reports = FALSE

LEMMA Parity == \A n \in Nat : ((n + 1) % 2 = 1 <=> n % 2 # 1) /\ 0 % 2 # 1 /\ 1 % 2 = 1
OBVIOUS

LEMMA NewRoutine ==
  ASSUME NEW c, IsContext(c), NEW r
  PROVE  IsContext([c EXCEPT !.routine = r]) /\ [c EXCEPT !.routine = r].reports = c.reports
BY DEF IsContext

LEMMA NewPc ==
  ASSUME NEW c, IsContext(c), NEW p
  PROVE  IsContext([c EXCEPT !.pc = p]) /\ [c EXCEPT !.pc = p].reports = c.reports
BY DEF IsContext

LEMMA NewReports ==
  ASSUME NEW c, IsContext(c), NEW b \in BOOLEAN
  PROVE  IsContext([c EXCEPT !.reports = b]) /\ [c EXCEPT !.reports = b].reports = b
BY DEF IsContext

\* A change of what is carried out, by which the script reports no more than before.
LEMMA CurrentChange ==
  ASSUME NEW i, Sound(i), NEW c, IsContext(c),
         InDialogue(i) \/ c.reports = FALSE
  PROVE  Sound([i EXCEPT !.cur = c]) /\ (InDialogue([i EXCEPT !.cur = c]) <=> InDialogue(i))
BY DEF Sound, Shaped, InDialogue

LEMMA ReadTokenKeeps ==
  ASSUME NEW i, Sound(i)
  PROVE  Sound(ReadToken(i)) /\ (InDialogue(ReadToken(i)) <=> InDialogue(i))
<1> DEFINE c == IF i.cur.routine # <<>> THEN [i.cur EXCEPT !.routine = Tail(@)]
                ELSE [i.cur EXCEPT !.pc = @ + 1]
<1>1. IsContext(c) /\ c.reports = i.cur.reports
  <2>1. IsContext(i.cur)
    BY DEF Sound, Shaped
  <2>2. CASE i.cur.routine # <<>>
    BY <2>1, <2>2, NewRoutine
  <2>3. CASE i.cur.routine = <<>>
    BY <2>1, <2>3, NewPc
  <2>4. QED
    BY <2>2, <2>3
<1>2. ReadToken(i) = [i EXCEPT !.cur = c]
  BY DEF ReadToken, Sound, Shaped
<1>3. InDialogue(i) \/ c.reports = FALSE
  BY <1>1 DEF Sound
<1> HIDE DEF c
<1>4. Sound([i EXCEPT !.cur = c]) /\ (InDialogue([i EXCEPT !.cur = c]) <=> InDialogue(i))
  BY <1>1, <1>3, CurrentChange
<1>5. QED
  BY <1>2, <1>4

\* A routine that reports is begun on the dialogue's side only.
LEMMA GosubKeeps ==
  ASSUME NEW i, Sound(i), NEW body, NEW b \in BOOLEAN, b => InDialogue(i)
  PROVE  Sound(Gosub(i, body, b)) /\ (InDialogue(Gosub(i, body, b)) <=> InDialogue(i))
<1> DEFINE r == <<"gosub">> \o body \o <<"return">>
           d == [i.cur EXCEPT !.routine = r]
           c == [d EXCEPT !.reports = b]
<1>1. IsContext(c) /\ c.reports = b
  <2> HIDE DEF r
  <2>1. IsContext(d)
    BY NewRoutine DEF Sound, Shaped
  <2> HIDE DEF d
  <2>2. QED
    BY <2>1, NewReports
<1>2. Gosub(i, body, b) = [i EXCEPT !.cur = c]
  <2> HIDE DEF r
  <2>1. Gosub(i, body, b) = [[i EXCEPT !.cur.routine = r] EXCEPT !.cur.reports = b]
    BY DEF Gosub, r, Sound, Shaped
  <2>2. QED
    BY <2>1 DEF Sound, Shaped
<1>3. InDialogue(i) \/ c.reports = FALSE
  BY <1>1
<1> HIDE DEF c
<1>4. Sound([i EXCEPT !.cur = c]) /\ (InDialogue([i EXCEPT !.cur = c]) <=> InDialogue(i))
  BY <1>1, <1>3, CurrentChange
<1>5. QED
  BY <1>2, <1>4

LEMMA ReturnKeeps ==
  ASSUME NEW i, Sound(i),
         NEW j, j = [i EXCEPT !.cur.routine = <<>>, !.cur.reports = FALSE]
  PROVE  Sound(j) /\ (InDialogue(j) <=> InDialogue(i))
<1> DEFINE d == [i.cur EXCEPT !.routine = <<>>]
           c == [d EXCEPT !.reports = FALSE]
<1>1. IsContext(c) /\ c.reports = FALSE
  <2>1. IsContext(d)
    BY NewRoutine DEF Sound, Shaped
  <2> HIDE DEF d
  <2>2. QED
    BY <2>1, NewReports
<1>2. j = [i EXCEPT !.cur = c]
  BY DEF Sound, Shaped
<1> HIDE DEF c
<1>3. Sound([i EXCEPT !.cur = c]) /\ (InDialogue([i EXCEPT !.cur = c]) <=> InDialogue(i))
  BY <1>1, CurrentChange
<1>4. QED
  BY <1>2, <1>3

LEMMA UseDialogueKeeps ==
  ASSUME NEW i, Sound(i), ~InDialogue(i)
  PROVE  Sound(UseDialogue(i)) /\ InDialogue(UseDialogue(i))
<1>1. i.swaps \in Nat /\ i.swaps % 2 # 1 /\ i.wonky = FALSE /\ i.cur.reports = FALSE
  BY DEF Sound, Shaped, InDialogue
<1>2. CASE i.swaps = 0
  <2>1. UseDialogue(i) = [cur |-> i.cur, kept |-> i.cur, swaps |-> 1, wonky |-> FALSE]
    BY <1>1, <1>2 DEF UseDialogue, InDialogue, Sound, Shaped
  <2>2. QED
    BY <1>1, <2>1, Parity DEF Sound, Shaped, InDialogue
<1>3. CASE i.swaps # 0
  <2>1. UseDialogue(i) = [cur |-> i.kept, kept |-> i.cur, swaps |-> i.swaps + 1, wonky |-> FALSE]
    BY <1>1, <1>3 DEF UseDialogue, InDialogue, Swap, Sound, Shaped
  <2>2. (i.swaps + 1) % 2 = 1 /\ i.swaps + 1 \in Nat
    BY <1>1, Parity
  <2>3. QED
    BY <1>1, <2>1, <2>2 DEF Sound, Shaped, InDialogue
<1>4. QED
  BY <1>2, <1>3

LEMMA UseMainScriptKeeps ==
  ASSUME NEW i, Sound(i), InDialogue(i)
  PROVE  Sound(UseMainScript(i)) /\ ~InDialogue(UseMainScript(i))
<1>1. i.swaps \in Nat /\ i.swaps % 2 = 1 /\ i.wonky = FALSE /\ i.kept.reports = FALSE
  BY DEF Sound, Shaped, InDialogue
<1>2. UseMainScript(i) = [cur |-> i.kept, kept |-> i.cur, swaps |-> i.swaps + 1, wonky |-> FALSE]
  BY <1>1 DEF UseMainScript, InDialogue, Swap, Sound, Shaped
<1>3. (i.swaps + 1) % 2 # 1 /\ i.swaps + 1 \in Nat
  BY <1>1, Parity
<1>4. QED
  BY <1>1, <1>2, <1>3 DEF Sound, Shaped, InDialogue

\* Whoever does not force the end of the exchange has to be on the dialogue's side.
LEMMA DisposeKeeps ==
  ASSUME NEW i, Sound(i), NEW force \in BOOLEAN, force \/ InDialogue(i)
  PROVE  Sound(DisposeDialogue(i, force)) /\ ~InDialogue(DisposeDialogue(i, force))
<1>1. i.wonky = FALSE /\ (IF InDialogue(i) THEN i.kept ELSE i.cur).reports = FALSE
      /\ IsContext(IF InDialogue(i) THEN i.kept ELSE i.cur)
  BY DEF Sound, Shaped
<1>2. DisposeDialogue(i, force) =
        [cur |-> IF InDialogue(i) THEN i.kept ELSE i.cur, kept |-> Nobody,
         swaps |-> 0, wonky |-> FALSE]
  BY <1>1 DEF DisposeDialogue, NothingToDispose, Swap, Sound, Shaped
<1>3. IsContext(Nobody)
  BY DEF IsContext, Nobody
<1>4. QED
  BY <1>1, <1>2, <1>3, Parity DEF Sound, Shaped, InDialogue

-----------------------------------------------------------------------------
(***************************************************************************)
(* The situations of a dialogue.  What passes and segments compare to is   *)
(* kept behind names of its own.                                           *)
(***************************************************************************)

\* The text monitor has told that the last segment is complete.
Drawn == monitor = segment /\ segment \in Int /\ segment >= -1
Drawing == monitor \notin {NoMonitor, segment} /\ segment \in Int /\ segment >= -1
Undrawn == monitor = NoMonitor /\ segment = -1
Free == passes \in Int /\ passes >= 0
Held == passes = -1

\* The interpreter is the script's, and no action of the dialogue is waited for.
Idle == executing = FALSE /\ loan = FALSE /\ inlineWaits = 0 /\ ~InDialogue(interpreter)

Stopped == ready = FALSE /\ Idle /\ events = <<>> /\ Undrawn /\ Free
First == ready = TRUE /\ Idle /\ events = <<"first">> /\ Undrawn /\ Free
Turn == ready = TRUE /\ Idle /\ events = <<"next">> /\ Drawn /\ Free
Text == ready = TRUE /\ Idle /\ events = <<>> /\ Drawing /\ Free
Star == ready = TRUE /\ Idle /\ events = <<>> /\ Drawn /\ Held

\* A built-in command's action is waited for; the script goes on meanwhile.
Waiting ==
  /\ ready = TRUE /\ executing = FALSE /\ loan = FALSE /\ inlineWaits = 1
  /\ ~InDialogue(interpreter) /\ events = <<>> /\ Drawn /\ Free

\* A routine of the dialogue is executed: it runs, it has asked for a loan, the
\* script has the loan, the wait behind it is over, it has returned.
Executing == ready = TRUE /\ executing = TRUE /\ Drawn /\ Free
Running ==
  /\ Executing /\ loan = FALSE /\ inlineWaits = 0 /\ InDialogue(interpreter) /\ events = <<>>
Asking ==
  /\ Executing /\ loan = FALSE /\ inlineWaits = 1 /\ InDialogue(interpreter)
  /\ events = <<"loanStart">>
Loaned ==
  /\ Executing /\ loan = TRUE /\ inlineWaits = 1 /\ ~InDialogue(interpreter) /\ events = <<>>
LoanOver ==
  /\ Executing /\ loan = TRUE /\ inlineWaits = 0 /\ ~InDialogue(interpreter)
  /\ events = <<"loanEnd">>
Returned ==
  /\ Executing /\ loan = FALSE /\ inlineWaits = 0 /\ InDialogue(interpreter)
  /\ events = <<"commandEnd">>

Situation ==
  \/ Stopped \/ First \/ Turn \/ Text \/ Star \/ Waiting
  \/ Running \/ Asking \/ Loaned \/ LoanOver \/ Returned

DialogueInv == Sound(interpreter) /\ (ready = TRUE => active = TRUE) /\ Situation

LEMMA InitSituation == Init => DialogueInv
<1> SUFFICES ASSUME Init PROVE DialogueInv
  OBVIOUS
<1>1. Stopped
  BY DEF Init, Stopped, Idle, Undrawn, Free, InDialogue
<1>2. Sound(interpreter)
  BY DEF Init, Sound, Shaped, IsContext, InDialogue, Nobody
<1>3. QED
  BY <1>1, <1>2 DEF DialogueInv, Situation, Stopped

\* A step after which the interpreter is on the same side changes no situation.
LEMMA Same ==
  ASSUME DialogueInv, Sound(interpreter'), InDialogue(interpreter') <=> InDialogue(interpreter),
         UNCHANGED <<events, ready, active, executing, loan, inlineWaits, monitor, segment, passes>>
  PROVE  DialogueInv'
<1>1. Drawn' = Drawn /\ Drawing' = Drawing /\ Undrawn' = Undrawn /\ Free' = Free /\ Held' = Held
  BY DEF Drawn, Drawing, Undrawn, Free, Held
<1>2. Stopped => Stopped'
  BY <1>1 DEF Stopped, Idle
<1>3. First => First'
  BY <1>1 DEF First, Idle
<1>4. Turn => Turn'
  BY <1>1 DEF Turn, Idle
<1>5. Text => Text'
  BY <1>1 DEF Text, Idle
<1>6. Star => Star'
  BY <1>1 DEF Star, Idle
<1>7. Waiting => Waiting'
  BY <1>1 DEF Waiting
<1>8. Running => Running'
  BY <1>1 DEF Running, Executing
<1>9. Asking => Asking'
  BY <1>1 DEF Asking, Executing
<1>10. Loaned => Loaned'
  BY <1>1 DEF Loaned, Executing
<1>11. LoanOver => LoanOver'
  BY <1>1 DEF LoanOver, Executing
<1>12. Returned => Returned'
  BY <1>1 DEF Returned, Executing
<1>13. Situation'
  BY <1>2, <1>3, <1>4, <1>5, <1>6, <1>7, <1>8, <1>9, <1>10, <1>11, <1>12
  DEF DialogueInv, Situation
<1>14. QED
  BY <1>13 DEF DialogueInv

\* The head of the queue tells the situation.
LEMMA Heads == ASSUME NEW x PROVE Head(<<x>>) = x /\ Tail(<<x>>) = <<>> /\ <<x>> # <<>>
OBVIOUS

LEMMA EventSituation ==
  ASSUME DialogueInv, NEW e, Event(e)
  PROVE  \/ e = "first" /\ First
         \/ e = "next" /\ Turn
         \/ e = "loanStart" /\ Asking
         \/ e = "loanEnd" /\ LoanOver
         \/ e = "commandEnd" /\ Returned
<1>1. events # <<>> /\ Head(events) = e
  BY DEF Event
<1>2. ~Stopped /\ ~Text /\ ~Star /\ ~Waiting /\ ~Running /\ ~Loaned
  BY <1>1 DEF Stopped, Text, Star, Waiting, Running, Loaned
<1>3. CASE First
  BY <1>1, <1>3, Heads DEF First
<1>4. CASE Turn
  BY <1>1, <1>4, Heads DEF Turn
<1>5. CASE Asking
  BY <1>1, <1>5, Heads DEF Asking
<1>6. CASE LoanOver
  BY <1>1, <1>6, Heads DEF LoanOver
<1>7. CASE Returned
  BY <1>1, <1>7, Heads DEF Returned
<1>8. QED
  BY <1>2, <1>3, <1>4, <1>5, <1>6, <1>7 DEF DialogueInv, Situation

\* A command is carried out, and a frame is drawn, when the queue is empty or about
\* to be emptied; a command only when it is empty.
LEMMA RunSituation ==
  ASSUME DialogueInv, NEW c, Run(c)
  PROVE  Stopped \/ Text \/ Star \/ Waiting \/ Running \/ Loaned
<1>1. ~(ready = TRUE /\ events # <<>>)
  BY DEF Run, WantsControl
<1>2. ~First /\ ~Turn /\ ~Asking /\ ~LoanOver /\ ~Returned
  BY <1>1, Heads DEF First, Turn, Asking, LoanOver, Returned, Executing
<1>3. QED
  BY <1>2 DEF DialogueInv, Situation

-----------------------------------------------------------------------------
(* The script's commands. *)

LEMMA PlainStep == ASSUME DialogueInv, Plain PROVE DialogueInv'
<1>1. Sound(interpreter') /\ (InDialogue(interpreter') <=> InDialogue(interpreter))
  BY ReadTokenKeeps DEF Plain, Advance, DialogueInv
<1>2. QED
  BY <1>1, Same DEF Plain, textVars, modeVars, turnVars, pipeVars, waitVars

LEMMA EndOfLineStep == ASSUME DialogueInv, EndOfLine PROVE DialogueInv'
<1>1. Sound(interpreter') /\ (InDialogue(interpreter') <=> InDialogue(interpreter))
  BY ReadTokenKeeps DEF EndOfLine, Advance, DialogueInv
<1>2. QED
  BY <1>1, Same DEF EndOfLine, textVars, modeVars, turnVars, pipeVars, waitVars

LEMMA WaitOnDialogueStep == ASSUME DialogueInv, WaitOnDialogue PROVE DialogueInv'
<1>1. Sound(interpreter') /\ (InDialogue(interpreter') <=> InDialogue(interpreter))
  BY ReadTokenKeeps DEF WaitOnDialogue, Advance, DialogueInv
<1>2. QED
  BY <1>1, Same DEF WaitOnDialogue, textVars, modeVars, turnVars, waitVars

\* The state between two steps, seen without its numbers.
LEMMA WaitStep == ASSUME DialogueInv, Wait, KeepsRules PROVE DialogueInv'
<1>1. /\ Sound(interpreter') /\ (InDialogue(interpreter') <=> InDialogue(interpreter))
      /\ UNCHANGED <<ready, active, executing, loan, monitor, segment, passes>>
  BY ReadTokenKeeps
  DEF Wait, Advance, DialogueInv, textVars, modeVars, turnVars, pipeVars
<1>2. CASE UNCHANGED <<waitVars, events>>
  BY <1>1, <1>2, Same DEF waitVars
<1>3. CASE UNCHANGED <<inlineWaits, events>>
  BY <1>1, <1>3, Same
<1>4. CASE executing /\ inlineWaits' = inlineWaits + 1 /\ events' = Append(events, "loanStart")
  <2>1. ~loan
    BY DEF KeepsRules, Wait
  <2>2. Running
    BY <1>4, <2>1, RunSituation DEF Wait, Stopped, Text, Star, Waiting, Loaned, Idle
  <2>3. inlineWaits' = 1 /\ events' = <<"loanStart">>
    BY <1>4, <2>2 DEF Running
  <2>4. Drawn' = Drawn /\ Free' = Free
    BY <1>1 DEF Drawn, Free
  <2>5. Asking'
    BY <1>1, <2>2, <2>3, <2>4 DEF Running, Asking, Executing
  <2>6. QED
    BY <1>1, <2>5 DEF DialogueInv, Situation
<1>5. QED
  BY <1>2, <1>3, <1>4 DEF Wait

LEMMA ReturnStep == ASSUME DialogueInv, Return PROVE DialogueInv'
<1>1. /\ Sound(interpreter') /\ (InDialogue(interpreter') <=> InDialogue(interpreter))
      /\ UNCHANGED <<ready, active, executing, loan, inlineWaits, monitor, segment, passes>>
  BY ReturnKeeps DEF Return, DialogueInv, textVars, modeVars, turnVars, pipeVars, waitVars
<1>2. CASE ~interpreter.cur.reports
  BY <1>1, <1>2, Same DEF Return
<1>3. CASE interpreter.cur.reports
  <2>1. InDialogue(interpreter)
    BY <1>3 DEF DialogueInv, Sound
  <2>2. Running
    BY <2>1, RunSituation DEF Return, Stopped, Text, Star, Waiting, Loaned, Idle
  <2>3. events' = <<"commandEnd">>
    BY <1>3, <2>2 DEF Return, Running
  <2>4. Drawn' = Drawn /\ Free' = Free
    BY <1>1 DEF Drawn, Free
  <2>5. Returned'
    BY <1>1, <2>2, <2>3, <2>4 DEF Running, Returned, Executing
  <2>6. QED
    BY <1>1, <2>5 DEF DialogueInv, Situation
<1>4. QED
  BY <1>2, <1>3

\* A d begins where no dialogue is ready.
LEMMA DialogueCommandStep == ASSUME DialogueInv, DialogueCommand, KeepsRules PROVE DialogueInv'
<1>1. ~ready
  BY DEF DialogueCommand, KeepsRules
<1>2. Stopped
  BY <1>1, RunSituation DEF DialogueCommand, Text, Star, Waiting, Running, Loaned, Executing
<1>3. /\ active' = TRUE
      /\ UNCHANGED <<executing, loan, inlineWaits, monitor, segment, passes>>
  BY DEF DialogueCommand, turnVars, pipeVars, waitVars
<1>4. Undrawn' /\ Free'
  BY <1>2, <1>3 DEF Stopped, Undrawn, Free
<1>5. ~InDialogue(interpreter) /\ Sound(interpreter)
  BY <1>2 DEF Stopped, Idle, DialogueInv
<1>6. CASE Pretext # <<>> /\ ~pretold
  <2>1. Sound(interpreter') /\ ~InDialogue(interpreter')
    <3>1. Sound(Gosub(interpreter, Pretext, FALSE)) /\ ~InDialogue(Gosub(interpreter, Pretext, FALSE))
      BY <1>5, GosubKeeps
    <3>2. QED
      BY <1>6, <3>1, ReadTokenKeeps DEF DialogueCommand
  <2>2. Stopped'
    BY <1>2, <1>3, <1>4, <1>6, <2>1 DEF DialogueCommand, Stopped, Idle
  <2>3. QED
    BY <1>3, <2>1, <2>2 DEF DialogueInv, Situation
<1>7. CASE ~(Pretext # <<>> /\ ~pretold)
  <2>1. Sound(interpreter') /\ ~InDialogue(interpreter')
    BY <1>5, <1>7, ReadTokenKeeps DEF DialogueCommand, Advance
  <2>2. events' = <<"first">> /\ ready' = TRUE
    <3>1. events' = Append(events, "first") /\ ready' = TRUE
      BY <1>7 DEF DialogueCommand
    <3>2. QED
      BY <1>2, <3>1 DEF Stopped
  <2>3. First'
    BY <1>2, <1>3, <1>4, <2>1, <2>2 DEF Stopped, First, Idle
  <2>4. QED
    BY <1>3, <2>1, <2>3 DEF DialogueInv, Situation
<1>8. QED
  BY <1>6, <1>7

LEMMA DialogueContinueStep == ASSUME DialogueInv, DialogueContinue, KeepsRules PROVE DialogueInv'
<1>1. active
  BY DEF DialogueContinue, KeepsRules
<1>2. /\ Sound(interpreter') /\ (InDialogue(interpreter') <=> InDialogue(interpreter))
      /\ UNCHANGED <<ready, active, executing, loan, inlineWaits, monitor, segment>>
      /\ passes' = passes + 1
      /\ events' = IF Suspended THEN Append(events, "next") ELSE events
  BY <1>1, ReadTokenKeeps
  DEF DialogueContinue, Advance, DialogueInv, textVars, modeVars, turnVars, waitVars
<1>3. CASE Star
  <2>1. events' = <<"next">>
    BY <1>2, <1>3 DEF Star, Held, Suspended
  <2>2. Free' /\ Drawn'
    BY <1>2, <1>3 DEF Star, Held, Free, Drawn
  <2>3. Turn'
    BY <1>2, <1>3, <2>1, <2>2 DEF Star, Turn, Idle
  <2>4. QED
    BY <1>2, <2>3 DEF DialogueInv, Situation
<1>4. CASE ~Star
  <2>1. Free
    BY <1>4, RunSituation
    DEF DialogueContinue, Stopped, Text, Waiting, Running, Loaned, Executing
  <2>2. Free' /\ events' = events
    BY <1>2, <2>1 DEF Free, Suspended
  <2>3. Drawn' = Drawn /\ Drawing' = Drawing /\ Undrawn' = Undrawn
    BY <1>2 DEF Drawn, Drawing, Undrawn
  <2>4. Stopped => Stopped'
    BY <1>2, <2>2, <2>3 DEF Stopped, Idle
  <2>5. Text => Text'
    BY <1>2, <2>2, <2>3 DEF Text, Idle
  <2>6. Waiting => Waiting'
    BY <1>2, <2>2, <2>3 DEF Waiting
  <2>7. Running => Running'
    BY <1>2, <2>2, <2>3 DEF Running, Executing
  <2>8. Loaned => Loaned'
    BY <1>2, <2>2, <2>3 DEF Loaned, Executing
  <2>9. Situation'
    BY <1>4, <2>4, <2>5, <2>6, <2>7, <2>8, RunSituation DEF DialogueContinue, Situation
  <2>10. QED
    BY <1>2, <2>9 DEF DialogueInv
<1>5. QED
  BY <1>3, <1>4

-----------------------------------------------------------------------------
(* The events of the dialogue. *)

LEMMA TakeControlStep == ASSUME DialogueInv, TakeControl PROVE DialogueInv'
<1>1. Sound(interpreter') /\ (InDialogue(interpreter') <=> InDialogue(interpreter))
  BY DEF TakeControl, DialogueInv, scriptVars
<1>2. QED
  BY <1>1, Same DEF TakeControl, textVars, modeVars, turnVars, pipeVars, waitVars

LEMMA LeaveControlStep == ASSUME DialogueInv, LeaveControl PROVE DialogueInv'
<1>1. Sound(interpreter') /\ (InDialogue(interpreter') <=> InDialogue(interpreter))
  BY ReadTokenKeeps DEF LeaveControl, DialogueInv
<1>2. QED
  BY <1>1, Same DEF LeaveControl, textVars, modeVars, turnVars, pipeVars, waitVars

LEMMA FirstEventStep == ASSUME DialogueInv, FirstEvent PROVE DialogueInv'
<1>1. First
  BY EventSituation DEF FirstEvent
<1>2. /\ UNCHANGED <<interpreter, ready, active, executing, loan, inlineWaits, segment, passes>>
      /\ monitor' = -1 /\ events' = <<"next">> \o Tail(events)
  BY DEF FirstEvent, scriptVars, modeVars, turnVars, pipeVars, waitVars
<1>3. events' = <<"next">>
  BY <1>1, <1>2 DEF First
<1>4. Drawn' /\ Free'
  BY <1>1, <1>2 DEF First, Undrawn, Drawn, Free
<1>5. Turn'
  BY <1>1, <1>2, <1>3, <1>4 DEF First, Turn, Idle
<1>6. QED
  BY <1>2, <1>5 DEF DialogueInv, Situation

LEMMA StartLoanExecutionStep == ASSUME DialogueInv, StartLoanExecution PROVE DialogueInv'
<1>1. Asking
  BY EventSituation DEF StartLoanExecution
<1>2. /\ UNCHANGED <<ready, active, executing, inlineWaits, monitor, segment, passes>>
      /\ loan' = TRUE /\ events' = Tail(events) /\ interpreter' = UseMainScript(interpreter)
  BY DEF StartLoanExecution, textVars, modeVars, pipeVars, waitVars
<1>3. Sound(interpreter') /\ ~InDialogue(interpreter')
  BY <1>1, <1>2, UseMainScriptKeeps DEF Asking, DialogueInv
<1>4. events' = <<>>
  BY <1>1, <1>2, Heads DEF Asking
<1>5. Drawn' = Drawn /\ Free' = Free
  BY <1>2 DEF Drawn, Free
<1>6. Loaned'
  BY <1>1, <1>2, <1>3, <1>4, <1>5 DEF Asking, Loaned, Executing
<1>7. QED
  BY <1>2, <1>3, <1>6 DEF DialogueInv, Situation

LEMMA EndLoanExecutionStep == ASSUME DialogueInv, EndLoanExecution PROVE DialogueInv'
<1>1. LoanOver
  BY EventSituation DEF EndLoanExecution
<1>2. /\ UNCHANGED <<ready, active, executing, inlineWaits, monitor, segment, passes>>
      /\ loan' = FALSE /\ events' = Tail(events) /\ interpreter' = UseDialogue(interpreter)
  BY DEF EndLoanExecution, textVars, modeVars, pipeVars, waitVars
<1>3. Sound(interpreter') /\ InDialogue(interpreter')
  BY <1>1, <1>2, UseDialogueKeeps DEF LoanOver, DialogueInv
<1>4. events' = <<>>
  BY <1>1, <1>2, Heads DEF LoanOver
<1>5. Drawn' = Drawn /\ Free' = Free
  BY <1>2 DEF Drawn, Free
<1>6. Running'
  BY <1>1, <1>2, <1>3, <1>4, <1>5 DEF LoanOver, Running, Executing
<1>7. QED
  BY <1>2, <1>3, <1>6 DEF DialogueInv, Situation

LEMMA InlineCommandEndStep == ASSUME DialogueInv, InlineCommandEnd PROVE DialogueInv'
<1>1. Returned
  BY EventSituation DEF InlineCommandEnd
<1>2. /\ UNCHANGED <<ready, active, loan, inlineWaits, monitor, segment, passes>>
      /\ executing' = FALSE /\ interpreter' = DisposeDialogue(interpreter, FALSE)
      /\ events' = Append(Tail(events), "next")
  BY DEF InlineCommandEnd, textVars, modeVars, pipeVars, waitVars
<1>3. Sound(interpreter') /\ ~InDialogue(interpreter')
  BY <1>1, <1>2, DisposeKeeps DEF Returned, DialogueInv
<1>4. events' = <<"next">>
  BY <1>1, <1>2 DEF Returned
<1>5. Drawn' = Drawn /\ Free' = Free
  BY <1>2 DEF Drawn, Free
<1>6. Turn'
  BY <1>1, <1>2, <1>3, <1>4, <1>5 DEF Returned, Executing, Turn, Idle
<1>7. QED
  BY <1>2, <1>3, <1>6 DEF DialogueInv, Situation

\* A part is taken in a turn, which it uses up: the dialogue goes on at once or not.
LEMMA TakeSituation ==
  ASSUME DialogueInv, NEW kind, Take(kind)
  PROVE  Turn /\ (ready = TRUE) /\ (active = TRUE) /\ position < Len(parts) /\ Part.kind = kind
<1>1. Turn
  BY EventSituation DEF Take
<1>2. QED
  BY <1>1 DEF Turn, DialogueInv, Take

LEMMA GoOnEvents ==
  ASSUME Turn, NEW now \in BOOLEAN, GoOn(now)
  PROVE  events' = IF now THEN <<"next">> ELSE <<>>
BY DEF Turn, GoOn

LEMMA TakeTextStep == ASSUME DialogueInv, TakeText PROVE DialogueInv'
<1>1. Turn
  BY TakeSituation DEF TakeText
<1>2. /\ UNCHANGED <<interpreter, ready, active, executing, loan, inlineWaits, passes>>
      /\ segment' = segment + 1
  BY DEF TakeText, scriptVars, modeVars, turnVars, pipeVars, waitVars
<1>3. Free'
  BY <1>1, <1>2 DEF Turn, Free
<1>4. CASE GoOn(TRUE) /\ monitor' = MonitorAlong
  <2>1. Drawn'
    BY <1>1, <1>2, <1>4 DEF Turn, Drawn, MonitorAlong, NoMonitor
  <2>2. events' = <<"next">>
    BY <1>1, <1>4, GoOnEvents
  <2>3. Turn'
    BY <1>1, <1>2, <1>3, <2>1, <2>2 DEF Turn, Idle
  <2>4. QED
    BY <1>2, <2>3 DEF DialogueInv, Situation
<1>5. CASE GoOn(FALSE) /\ monitor' = monitor
  <2>1. Drawing'
    BY <1>1, <1>2, <1>5 DEF Turn, Drawn, Drawing, NoMonitor
  <2>2. events' = <<>>
    BY <1>1, <1>5, GoOnEvents
  <2>3. Text'
    BY <1>1, <1>2, <1>3, <2>1, <2>2 DEF Turn, Text, Idle
  <2>4. QED
    BY <1>2, <2>3 DEF DialogueInv, Situation
<1>6. QED
  BY <1>4, <1>5 DEF TakeText

LEMMA TakeBuiltInStep == ASSUME DialogueInv, TakeBuiltIn PROVE DialogueInv'
<1>1. Turn
  BY TakeSituation DEF TakeBuiltIn
<1>2. UNCHANGED <<ready, active, loan, segment, monitor, passes>> /\ executing' = FALSE
  BY DEF TakeBuiltIn, modeVars, pipeVars
<1>3. Drawn' /\ Free'
  BY <1>1, <1>2 DEF Turn, Drawn, Free
<1>4. Sound(UseDialogue(interpreter)) /\ InDialogue(UseDialogue(interpreter))
  BY <1>1, UseDialogueKeeps DEF Turn, Idle, DialogueInv
<1>5. CASE /\ GoOn(TRUE)
           /\ interpreter' = DisposeDialogue(UseDialogue(interpreter), FALSE)
           /\ UNCHANGED inlineWaits
  <2>1. Sound(interpreter') /\ ~InDialogue(interpreter')
    BY <1>4, <1>5, DisposeKeeps
  <2>2. events' = <<"next">>
    BY <1>1, <1>5, GoOnEvents
  <2>3. Turn'
    BY <1>1, <1>2, <1>3, <1>5, <2>1, <2>2 DEF Turn, Idle
  <2>4. QED
    BY <1>2, <2>1, <2>3 DEF DialogueInv, Situation
<1>6. CASE /\ GoOn(FALSE)
           /\ interpreter' = UseMainScript(UseDialogue(interpreter))
           /\ inlineWaits' = inlineWaits + 1
  <2>1. Sound(interpreter') /\ ~InDialogue(interpreter')
    BY <1>4, <1>6, UseMainScriptKeeps
  <2>2. events' = <<>>
    BY <1>1, <1>6, GoOnEvents
  <2>3. inlineWaits' = 1
    BY <1>1, <1>6 DEF Turn, Idle
  <2>4. Waiting'
    BY <1>1, <1>2, <1>3, <2>1, <2>2, <2>3 DEF Turn, Waiting, Idle
  <2>5. QED
    BY <1>1, <1>2, <2>1, <2>4 DEF DialogueInv, Situation
<1>7. QED
  BY <1>5, <1>6 DEF TakeBuiltIn

LEMMA TakeRoutineStep == ASSUME DialogueInv, TakeRoutine PROVE DialogueInv'
<1>1. Turn
  BY TakeSituation DEF TakeRoutine
<1>2. /\ UNCHANGED <<ready, active, loan, inlineWaits, segment, monitor, passes>>
      /\ executing' = TRUE /\ GoOn(FALSE)
      /\ interpreter' = Gosub(UseDialogue(interpreter), Part.body, TRUE)
  BY DEF TakeRoutine, modeVars, pipeVars, waitVars
<1>3. Drawn' /\ Free'
  BY <1>1, <1>2 DEF Turn, Drawn, Free
<1>4. Sound(interpreter') /\ InDialogue(interpreter')
  <2>1. Sound(UseDialogue(interpreter)) /\ InDialogue(UseDialogue(interpreter))
    BY <1>1, UseDialogueKeeps DEF Turn, Idle, DialogueInv
  <2>2. QED
    BY <1>2, <2>1, GosubKeeps
<1>5. events' = <<>>
  BY <1>1, <1>2, GoOnEvents
<1>6. Running'
  BY <1>1, <1>2, <1>3, <1>4, <1>5 DEF Turn, Idle, Running, Executing
<1>7. QED
  BY <1>2, <1>4, <1>6 DEF DialogueInv, Situation

\* [*] stands only where d2 began the dialogue.
LEMMA TakeStarStep == ASSUME DialogueInv, TakeStar, KeepsRules PROVE DialogueInv'
<1>1. Turn /\ active /\ position < Len(parts) /\ Part.kind = "star"
  BY TakeSituation DEF TakeStar
<1>2. d2
  BY <1>1 DEF KeepsRules
<1>3. /\ UNCHANGED <<interpreter, ready, active, executing, loan, inlineWaits, segment, monitor>>
      /\ passes' = passes - 1 /\ GoOn(passes > 0)
  BY <1>2 DEF TakeStar, modeVars, turnVars, waitVars
<1>4. Drawn'
  BY <1>1, <1>3 DEF Turn, Drawn
<1>5. CASE passes > 0
  <2>1. Free'
    BY <1>1, <1>3, <1>5 DEF Turn, Free
  <2>2. events' = <<"next">>
    BY <1>1, <1>3, <1>5 DEF GoOn, Turn
  <2>3. Turn'
    BY <1>1, <1>3, <1>4, <2>1, <2>2 DEF Turn, Idle
  <2>4. QED
    BY <1>3, <2>3 DEF DialogueInv, Situation
<1>6. CASE ~(passes > 0)
  <2>1. Held'
    BY <1>1, <1>3, <1>6 DEF Turn, Free, Held
  <2>2. events' = <<>>
    BY <1>1, <1>3, <1>6 DEF GoOn, Turn
  <2>3. Star'
    BY <1>1, <1>3, <1>4, <2>1, <2>2 DEF Turn, Star, Idle
  <2>4. QED
    BY <1>3, <2>3 DEF DialogueInv, Situation
<1>7. QED
  BY <1>5, <1>6

LEMMA TakeHashStep == ASSUME DialogueInv, TakeHash, KeepsRules PROVE DialogueInv'
<1>1. Turn /\ active /\ position < Len(parts) /\ Part.kind = "hash"
  BY TakeSituation DEF TakeHash
<1>2. d2
  BY <1>1 DEF KeepsRules
<1>3. /\ UNCHANGED <<interpreter, ready, active, executing, loan, inlineWaits, segment, monitor, passes>>
      /\ GoOn(TRUE)
  BY <1>2 DEF TakeHash, modeVars, turnVars, waitVars
<1>4. Drawn' /\ Free'
  BY <1>1, <1>3 DEF Turn, Drawn, Free
<1>5. events' = <<"next">>
  BY <1>1, <1>3, GoOnEvents
<1>6. Turn'
  BY <1>1, <1>3, <1>4, <1>5 DEF Turn, Idle
<1>7. QED
  BY <1>3, <1>6 DEF DialogueInv, Situation

LEMMA TakeEndStep == ASSUME DialogueInv, TakeEnd PROVE DialogueInv'
<1>1. Turn /\ active = TRUE
  <2>1. Turn
    BY EventSituation DEF TakeEnd
  <2>2. QED
    BY <2>1 DEF Turn, DialogueInv
<1>2. /\ UNCHANGED <<loan, inlineWaits>>
      /\ ready' = FALSE /\ executing' = (executing /\ ~active)
      /\ segment' = -1 /\ monitor' = NoMonitor /\ passes' = 0 /\ GoOn(FALSE)
      /\ interpreter' = DisposeDialogue(interpreter, TRUE)
  BY <1>1 DEF TakeEnd, waitVars
<1>3. executing' = FALSE
  BY <1>1, <1>2
<1>4. Undrawn' /\ Free'
  BY <1>2 DEF Undrawn, Free
<1>5. Sound(interpreter') /\ ~InDialogue(interpreter')
  BY <1>2, DisposeKeeps DEF DialogueInv
<1>6. events' = <<>>
  BY <1>1, <1>2, GoOnEvents
<1>7. Stopped'
  BY <1>1, <1>2, <1>3, <1>4, <1>5, <1>6 DEF Turn, Stopped, Idle
<1>8. QED
  BY <1>2, <1>5, <1>7 DEF DialogueInv, Situation

-----------------------------------------------------------------------------
(* Frames. *)

LEMMA ScriptWaitExpiresStep == ASSUME DialogueInv, ScriptWaitExpires PROVE DialogueInv'
<1>1. Sound(interpreter') /\ (InDialogue(interpreter') <=> InDialogue(interpreter))
  BY DEF ScriptWaitExpires, DialogueInv, scriptVars
<1>2. QED
  BY <1>1, Same DEF ScriptWaitExpires, textVars, modeVars, turnVars, pipeVars

\* The queue is empty when the wait of a loan or of a built-in command ends.
LEMMA InlineWaitExpiresStep ==
  ASSUME DialogueInv, InlineWaitExpires, ~Asking
  PROVE  DialogueInv'
<1>1. inlineWaits > 0
  BY DEF InlineWaitExpires
<1>2. ~Asking
  OBVIOUS
<1>3. inlineWaits # 0
  BY <1>1
<1>4. Waiting \/ Loaned
  BY <1>2, <1>3
  DEF DialogueInv, Situation, Stopped, First, Turn, Text, Star, Running, LoanOver, Returned, Idle
<1>5. /\ UNCHANGED <<ready, active, executing, loan, monitor, segment, passes>>
      /\ inlineWaits' = inlineWaits - 1
  BY DEF InlineWaitExpires, textVars, modeVars, turnVars, pipeVars
<1>6. Drawn' = Drawn /\ Free' = Free
  BY <1>5 DEF Drawn, Free
<1>7. inlineWaits' = 0 /\ events = <<>>
  BY <1>4, <1>5 DEF Waiting, Loaned
<1>8. CASE Loaned
  <2>1. events' = Append(events, "loanEnd") /\ interpreter' = interpreter
    BY <1>8 DEF InlineWaitExpires, Loaned
  <2>2. events' = <<"loanEnd">>
    BY <1>7, <2>1
  <2>3. LoanOver'
    BY <1>5, <1>6, <1>7, <1>8, <2>1, <2>2 DEF Loaned, LoanOver, Executing
  <2>4. QED
    BY <1>5, <2>1, <2>3 DEF DialogueInv, Situation
<1>9. CASE Waiting
  <2>1. /\ events' = Append(events, "next")
        /\ interpreter' = DisposeDialogue(UseDialogue(interpreter), FALSE)
    BY <1>9 DEF InlineWaitExpires, Waiting
  <2>2. events' = <<"next">>
    BY <1>7, <2>1
  <2>3. Sound(UseDialogue(interpreter)) /\ InDialogue(UseDialogue(interpreter))
    BY <1>9, UseDialogueKeeps DEF Waiting, DialogueInv
  <2>4. Sound(interpreter') /\ ~InDialogue(interpreter')
    BY <2>1, <2>3, DisposeKeeps
  <2>5. Turn'
    BY <1>5, <1>6, <1>7, <1>9, <2>2, <2>4 DEF Waiting, Turn, Idle
  <2>6. QED
    BY <1>5, <2>4, <2>5 DEF DialogueInv, Situation
<1>10. QED
  BY <1>4, <1>8, <1>9

\* When the loan is still to begin the exchange is out of turn and the program ends.
LEMMA EarlyExpiryStep ==
  ASSUME DialogueInv, InlineWaitExpires, Asking
  PROVE  EndedEarly' /\ interpreter' = Abort(interpreter)
<1>1. /\ ~draining' /\ loan = FALSE /\ events = <<"loanStart">> /\ InDialogue(interpreter)
      /\ Shaped(interpreter)
  BY DEF InlineWaitExpires, loopVars, Asking, Executing, DialogueInv, Sound
<1>2. /\ events' = Append(events, "next")
      /\ interpreter' = DisposeDialogue(UseDialogue(interpreter), FALSE)
  BY <1>1 DEF InlineWaitExpires
<1>3. UseDialogue(interpreter) = Abort(interpreter)
  BY <1>1 DEF UseDialogue
<1>4. Abort(interpreter).wonky = TRUE /\ Abort(Abort(interpreter)) = Abort(interpreter)
  BY <1>1 DEF Abort, Shaped
<1>5. interpreter' = Abort(interpreter)
  BY <1>2, <1>3, <1>4 DEF DisposeDialogue, NothingToDispose
<1>6. Len(events') = 2 /\ events'[1] = "loanStart"
  BY <1>1, <1>2
<1>7. QED
  BY <1>1, <1>4, <1>5, <1>6 DEF EndedEarly, Alive, LoanAsked

LEMMA SegmentCompletedStep == ASSUME DialogueInv, SegmentCompleted PROVE DialogueInv'
<1>1. /\ UNCHANGED <<interpreter, ready, active, executing, loan, inlineWaits, segment, passes>>
      /\ monitor' = segment /\ events' = Append(events, "next")
      /\ monitor # NoMonitor /\ monitor # segment
  BY DEF SegmentCompleted, scriptVars, modeVars, turnVars, pipeVars, waitVars
<1>2. ~Drawn /\ ~Undrawn
  BY <1>1 DEF Drawn, Undrawn
<1>3. Text
  BY <1>2
  DEF DialogueInv, Situation, Stopped, First, Turn, Star, Waiting, Running, Asking, Loaned, LoanOver,
      Returned, Executing
<1>4. events' = <<"next">>
  BY <1>1, <1>3 DEF Text
<1>5. Drawn' /\ Free'
  BY <1>1, <1>3 DEF Text, Drawing, Drawn, Free
<1>6. Turn'
  BY <1>1, <1>3, <1>4, <1>5 DEF Text, Turn, Idle
<1>7. QED
  BY <1>1, <1>6 DEF DialogueInv, Situation

-----------------------------------------------------------------------------
(* The invariant. *)

LEMMA ScriptStep == ASSUME DialogueInv, ScriptCommand, KeepsRules PROVE DialogueInv'
BY PlainStep, EndOfLineStep, WaitStep, ReturnStep, DialogueCommandStep, WaitOnDialogueStep,
   DialogueContinueStep
DEF ScriptCommand

LEMMA DialogueStep == ASSUME DialogueInv, ProcessDialogueEvents, KeepsRules PROVE DialogueInv'
<1>1. CASE ProcessDialogue
  BY <1>1, TakeTextStep, TakeBuiltInStep, TakeRoutineStep, TakeStarStep, TakeHashStep, TakeEndStep
  DEF ProcessDialogue
<1>2. CASE ~ProcessDialogue
  BY <1>2, TakeControlStep, FirstEventStep, StartLoanExecutionStep, EndLoanExecutionStep,
     InlineCommandEndStep, LeaveControlStep
  DEF ProcessDialogueEvents
<1>3. QED
  BY <1>1, <1>2

\* The dialogue is in one of its situations until a wait that ends before its loan has
\* begun ends the program.
SafeInv == DialogueInv \/ EndedEarly

LEMMA FrameStep == ASSUME DialogueInv, Frame PROVE SafeInv'
<1>1. CASE InlineWaitExpires /\ Asking
  BY <1>1, EarlyExpiryStep DEF SafeInv
<1>2. CASE ~(InlineWaitExpires /\ Asking)
  BY <1>2, ScriptWaitExpiresStep, InlineWaitExpiresStep, SegmentCompletedStep DEF Frame, SafeInv
<1>3. QED
  BY <1>1, <1>2

LEMMA UnchangedKeeps == ASSUME DialogueInv, UNCHANGED vars PROVE DialogueInv'
<1>1. Sound(interpreter') /\ (InDialogue(interpreter') <=> InDialogue(interpreter))
  BY DEF vars, scriptVars, DialogueInv
<1>2. QED
  BY <1>1, Same DEF vars, textVars, modeVars, turnVars, pipeVars, waitVars

\* A program that has ended takes no step.
LEMMA DeadStays == ASSUME ~Alive, Next PROVE FALSE
BY DEF Next, MainLoop, Frame, ScriptCommand, Plain, EndOfLine, Wait, Return, DialogueCommand,
       WaitOnDialogue, DialogueContinue, Run, ProcessDialogueEvents, TakeControl, FirstEvent,
       StartLoanExecution, EndLoanExecution, InlineCommandEnd, ProcessDialogue, TakeText,
       TakeBuiltIn, TakeRoutine, TakeStar, TakeHash, TakeEnd, Take, Event, LeaveControl,
       ScriptWaitExpires, InlineWaitExpires, SegmentCompleted

LEMMA StepKeeps ==
  ASSUME SafeInv, [Next]_vars, KeepsRules
  PROVE  SafeInv'
<1>1. CASE DialogueInv /\ MainLoop
  BY <1>1, ScriptStep, DialogueStep DEF MainLoop, SafeInv
<1>2. CASE DialogueInv /\ Frame
  BY <1>2, FrameStep
<1>3. CASE DialogueInv /\ UNCHANGED vars
  BY <1>3, UnchangedKeeps DEF SafeInv
<1>4. CASE EndedEarly /\ UNCHANGED vars
  BY <1>4 DEF EndedEarly, Alive, LoanAsked, SafeInv, vars, scriptVars, loopVars
<1>5. CASE EndedEarly /\ Next
  BY <1>5, DeadStays DEF EndedEarly
<1>6. QED
  BY <1>1, <1>2, <1>3, <1>4, <1>5 DEF Next, SafeInv

\* Turns is the number of events that let the dialogue take a part.
LEMMA NoTurns == ASSUME events = <<>> PROVE Turns = 0
<1>1. {n \in 1 .. Len(events) : events[n] \in {"first", "next"}} = {}
  OBVIOUS
<1>2. QED
  BY <1>1, FS_EmptySet DEF Turns

LEMMA OtherTurns ==
  ASSUME NEW e, e \notin {"first", "next"}, events = <<e>>
  PROVE  Turns = 0
<1>1. Len(events) = 1 /\ events[1] = e
  OBVIOUS
<1>2. {n \in 1 .. Len(events) : events[n] \in {"first", "next"}} = {}
  BY <1>1
<1>3. QED
  BY <1>2, FS_EmptySet DEF Turns

LEMMA OneTurn ==
  ASSUME NEW e \in {"first", "next"}, events = <<e>>
  PROVE  Turns = 1
<1>1. Len(events) = 1 /\ events[1] = e
  OBVIOUS
<1>2. {n \in 1 .. Len(events) : events[n] \in {"first", "next"}} = {1}
  BY <1>1
<1>3. QED
  BY <1>2, FS_Singleton DEF Turns

\* In every situation of a dialogue that is ready one of the five goes on, and only one.
LEMMA SituationsContinue == ASSUME DialogueInv PROVE OneContinuation
<1> DEFINE drawing == monitor \notin {NoMonitor, segment}
           waits == IF executing THEN 0 ELSE inlineWaits
<1>1. Drawn \/ Undrawn => ~drawing
  BY DEF Drawn, Undrawn, NoMonitor
<1>2. Drawing => drawing
  BY DEF Drawing
<1>3. (Free => ~Suspended) /\ (Held => Suspended)
  BY DEF Free, Held, Suspended
<1>4. /\ (~drawing => One(drawing) = 0) /\ (drawing => One(drawing) = 1)
      /\ (~Suspended => One(Suspended) = 0) /\ (Suspended => One(Suspended) = 1)
  BY DEF One
<1>5. /\ executing = TRUE => One(executing) = 1 /\ waits = 0
      /\ executing = FALSE => One(executing) = 0 /\ waits = inlineWaits
  BY DEF One
<1> HIDE DEF drawing, waits
<1> DEFINE Sums == Turns + One(drawing) + One(executing) + waits + One(Suspended) = 1
           Counts(t, m, x, w, h) ==
             /\ Turns = t /\ One(drawing) = m /\ One(executing) = x
             /\ waits = w /\ One(Suspended) = h
<1>6. ASSUME First \/ Turn PROVE Sums
  <2>1. (events = <<"first">> \/ events = <<"next">>) /\ Idle /\ (Drawn \/ Undrawn) /\ Free
    BY <1>6 DEF First, Turn
  <2>2. Turns = 1
    BY <2>1, OneTurn
  <2>3. Counts(1, 0, 0, 0, 0)
    BY <1>1, <1>3, <1>4, <1>5, <2>1, <2>2 DEF Idle
  <2>4. QED
    BY <2>3
<1>7. ASSUME Text PROVE Sums
  <2>1. Turns = 0
    BY <1>7, NoTurns DEF Text
  <2>2. Counts(0, 1, 0, 0, 0)
    BY <1>2, <1>3, <1>4, <1>5, <1>7, <2>1 DEF Text, Idle
  <2>3. QED
    BY <2>2
<1>8. ASSUME Star PROVE Sums
  <2>1. Turns = 0
    BY <1>8, NoTurns DEF Star
  <2>2. Counts(0, 0, 0, 0, 1)
    BY <1>1, <1>3, <1>4, <1>5, <1>8, <2>1 DEF Star, Idle
  <2>3. QED
    BY <2>2
<1>9. ASSUME Waiting PROVE Sums
  <2>1. Turns = 0
    BY <1>9, NoTurns DEF Waiting
  <2>2. Counts(0, 0, 0, 1, 0)
    BY <1>1, <1>3, <1>4, <1>5, <1>9, <2>1 DEF Waiting
  <2>3. QED
    BY <2>2
<1>10. ASSUME Running \/ Asking \/ Loaned \/ LoanOver \/ Returned PROVE Sums
  <2>1. Executing
    BY <1>10 DEF Running, Asking, Loaned, LoanOver, Returned
  <2>2. \/ events = <<>> \/ events = <<"loanStart">> \/ events = <<"loanEnd">>
        \/ events = <<"commandEnd">>
    BY <1>10 DEF Running, Asking, Loaned, LoanOver, Returned
  <2>3. Turns = 0
    <3>1. /\ "loanStart" \notin {"first", "next"} /\ "loanEnd" \notin {"first", "next"}
          /\ "commandEnd" \notin {"first", "next"}
      OBVIOUS
    <3>2. QED
      BY <2>2, <3>1, NoTurns, OtherTurns
  <2>4. Counts(0, 0, 1, 0, 0)
    BY <1>1, <1>3, <1>4, <1>5, <2>1, <2>3 DEF Executing
  <2>5. QED
    BY <2>4
<1>11. CASE Stopped
  <2>1. ~ready
    BY <1>11 DEF Stopped
  <2>2. QED
    BY <2>1 DEF OneContinuation
<1>12. Sums => OneContinuation
  BY DEF OneContinuation, drawing, waits
<1>13. QED
  BY <1>6, <1>7, <1>8, <1>9, <1>10, <1>11, <1>12 DEF DialogueInv, Situation

-----------------------------------------------------------------------------
(* The theorems. *)

LEMMA SafeInvAlways == Spec /\ []KeepsRules => []SafeInv
<1>1. Init => SafeInv
  BY InitSituation DEF SafeInv
<1>2. SafeInv /\ KeepsRules /\ [Next]_vars => SafeInv'
  BY StepKeeps
<1>3. QED
  BY <1>1, <1>2, PTL DEF Spec

\* Whatever a script does that keeps the rules, the program ends with an error, the
\* interpreter's two states exchanged out of turn or a dialogue command used where it is
\* not allowed (ScriptState, d_continue, [*], [#]), by one way only: the wait of an inline
\* command is over in the frame before its loan.
THEOREM NeverWonkyWhenRulesKept == Spec /\ []KeepsRules => []NeverWonky
<1>1. SafeInv => NeverWonky
  BY DEF SafeInv, DialogueInv, Sound, NeverWonky, Alive
<1>2. QED
  BY SafeInvAlways, <1>1, PTL

\* And a dialogue that is ready has always exactly one thing that makes it go on: it
\* neither hangs nor runs ahead of its text, however long it is.
THEOREM OneContinuationWhenRulesKept == Spec /\ []KeepsRules => []OneContinuation
<1>1. SafeInv => OneContinuation
  BY SituationsContinue DEF SafeInv, EndedEarly, OneContinuation
<1>2. QED
  BY SafeInvAlways, <1>1, PTL

-----------------------------------------------------------------------------
(* Script and dialogue carry out Duet: what each side of the interpreter holds. *)

ScriptOf(i) == IF InDialogue(i) THEN i.kept ELSE i.cur
TalkOf(i) ==
  IF i.swaps = 0 THEN Nobody ELSE IF InDialogue(i) THEN i.cur ELSE i.kept

LEMMA Sides ==
  /\ ScriptSide = ScriptOf(interpreter) /\ ScriptSide' = ScriptOf(interpreter')
  /\ DialogueSide = TalkOf(interpreter) /\ DialogueSide' = TalkOf(interpreter')
BY DEF ScriptSide, DialogueSide, ScriptOf, TalkOf

LEMMA SideTypes ==
  ASSUME NEW i, Sound(i)
  PROVE  /\ IsContext(ScriptOf(i)) /\ IsContext(TalkOf(i)) /\ ScriptOf(i).reports = FALSE
         /\ InDialogue(i) => i.cur = TalkOf(i) /\ i.kept = ScriptOf(i) /\ i.swaps # 0
         /\ ~InDialogue(i) => i.cur = ScriptOf(i)
<1>1. IsContext(Nobody) /\ Shaped(i)
  BY DEF IsContext, Nobody, Sound
<1>2. i.swaps = 0 => ~InDialogue(i)
  BY Parity DEF InDialogue
<1>3. ScriptOf(i).reports = FALSE
  BY DEF Sound, ScriptOf
<1>4. QED
  BY <1>1, <1>2, <1>3 DEF Shaped, ScriptOf, TalkOf

\* The one who carries out changes, the other does not.
LEMMA CurrentSides ==
  ASSUME NEW i, Sound(i), NEW c
  PROVE  /\ InDialogue(i) =>
              ScriptOf([i EXCEPT !.cur = c]) = ScriptOf(i) /\ TalkOf([i EXCEPT !.cur = c]) = c
         /\ ~InDialogue(i) =>
              ScriptOf([i EXCEPT !.cur = c]) = c /\ TalkOf([i EXCEPT !.cur = c]) = TalkOf(i)
<1> DEFINE j == [i EXCEPT !.cur = c]
<1>1. j.cur = c /\ j.kept = i.kept /\ j.swaps = i.swaps
  BY DEF Sound, Shaped
<1>2. InDialogue(j) <=> InDialogue(i)
  BY <1>1 DEF InDialogue
<1>3. i.swaps = 0 => ~InDialogue(i)
  BY Parity DEF InDialogue
<1> HIDE DEF j
<1>4. QED
  BY <1>1, <1>2, <1>3 DEF ScriptOf, TalkOf, j

\* Read(c): the next token of c.
Read(c) ==
  IF c.routine # <<>> THEN [c EXCEPT !.routine = Tail(@)] ELSE [c EXCEPT !.pc = @ + 1]

LEMMA ReadOf ==
  ASSUME NEW c, IsContext(c)
  PROVE  /\ c.routine # <<>> =>
              Read(c).pc = c.pc /\ Read(c).routine = Tail(c.routine) /\ Read(c).reports = c.reports
         /\ c.routine = <<>> =>
              Read(c).pc = c.pc + 1 /\ Read(c).routine = <<>> /\ Read(c).reports = c.reports
BY DEF Read, IsContext

LEMMA ReadSides ==
  ASSUME NEW i, Sound(i)
  PROVE  /\ InDialogue(i) => ScriptOf(ReadToken(i)) = ScriptOf(i) /\ TalkOf(ReadToken(i)) = Read(TalkOf(i))
         /\ ~InDialogue(i) => ScriptOf(ReadToken(i)) = Read(ScriptOf(i)) /\ TalkOf(ReadToken(i)) = TalkOf(i)
<1> DEFINE c == Read(i.cur)
           j == ReadToken(i)
<1>1. j = [i EXCEPT !.cur = c]
  BY DEF ReadToken, Read, Sound, Shaped
<1>2. /\ InDialogue(i) => i.cur = TalkOf(i)
      /\ ~InDialogue(i) => i.cur = ScriptOf(i)
  BY SideTypes
<1> HIDE DEF c, j
<1>3. /\ InDialogue(i) => ScriptOf(j) = ScriptOf(i) /\ TalkOf(j) = c
      /\ ~InDialogue(i) => ScriptOf(j) = c /\ TalkOf(j) = TalkOf(i)
  BY <1>1, CurrentSides
<1>4. QED
  BY <1>2, <1>3 DEF c, j

\* What is carried out after a gosub, of the script's and of the dialogue's, and after
\* its return.
LEMMA GosubOfScript ==
  ASSUME NEW i, Sound(i), NEW body, ~InDialogue(i)
  PROVE  /\ ScriptOf(Gosub(i, body, FALSE)).routine = <<"gosub">> \o body \o <<"return">>
         /\ ScriptOf(Gosub(i, body, FALSE)).pc = ScriptOf(i).pc
         /\ TalkOf(Gosub(i, body, FALSE)) = TalkOf(i)
<1> DEFINE r == <<"gosub">> \o body \o <<"return">>
           c == [[i.cur EXCEPT !.routine = r] EXCEPT !.reports = FALSE]
           g == Gosub(i, body, FALSE)
<1>1. g = [i EXCEPT !.cur = c] /\ c.routine = r /\ c.pc = i.cur.pc /\ c.reports = FALSE
  <2> HIDE DEF r
  <2>1. g = [[i EXCEPT !.cur.routine = r] EXCEPT !.cur.reports = FALSE]
    BY DEF Gosub, r, Sound, Shaped
  <2>2. g = [i EXCEPT !.cur = c]
    BY <2>1 DEF Sound, Shaped
  <2>3. c.routine = r /\ c.pc = i.cur.pc /\ c.reports = FALSE
    BY DEF Sound, Shaped, IsContext
  <2>4. QED
    BY <2>2, <2>3
<1>2. i.cur = ScriptOf(i)
  BY SideTypes
<1> HIDE DEF r, g, c
<1>3. ScriptOf(g) = c /\ TalkOf(g) = TalkOf(i)
  BY <1>1, CurrentSides
<1>4. QED
  BY <1>1, <1>2, <1>3 DEF r, g

LEMMA GosubOfTalk ==
  ASSUME NEW i, Sound(i), NEW body, InDialogue(i)
  PROVE  /\ ScriptOf(Gosub(i, body, TRUE)) = ScriptOf(i)
         /\ TalkOf(Gosub(i, body, TRUE)).routine = <<"gosub">> \o body \o <<"return">>
         /\ TalkOf(Gosub(i, body, TRUE)).reports = TRUE
<1> DEFINE r == <<"gosub">> \o body \o <<"return">>
           c == [[i.cur EXCEPT !.routine = r] EXCEPT !.reports = TRUE]
           g == Gosub(i, body, TRUE)
<1>1. g = [i EXCEPT !.cur = c] /\ c.routine = r /\ c.pc = i.cur.pc /\ c.reports = TRUE
  <2> HIDE DEF r
  <2>1. g = [[i EXCEPT !.cur.routine = r] EXCEPT !.cur.reports = TRUE]
    BY DEF Gosub, r, Sound, Shaped
  <2>2. g = [i EXCEPT !.cur = c]
    BY <2>1 DEF Sound, Shaped
  <2>3. c.routine = r /\ c.pc = i.cur.pc /\ c.reports = TRUE
    BY DEF Sound, Shaped, IsContext
  <2>4. QED
    BY <2>2, <2>3
<1> HIDE DEF r, g, c
<1>2. ScriptOf(g) = ScriptOf(i) /\ TalkOf(g) = c
  BY <1>1, CurrentSides
<1>3. QED
  BY <1>1, <1>2 DEF r, g

LEMMA ReturnSides ==
  ASSUME NEW i, Sound(i)
  PROVE  LET j == [i EXCEPT !.cur.routine = <<>>, !.cur.reports = FALSE]
         IN  /\ InDialogue(i) => ScriptOf(j) = ScriptOf(i) /\ TalkOf(j).routine = <<>>
             /\ ~InDialogue(i) =>
                  /\ ScriptOf(j).routine = <<>> /\ ScriptOf(j).pc = ScriptOf(i).pc
                  /\ TalkOf(j) = TalkOf(i)
<1> DEFINE c == [[i.cur EXCEPT !.routine = <<>>] EXCEPT !.reports = FALSE]
           j == [i EXCEPT !.cur.routine = <<>>, !.cur.reports = FALSE]
<1>1. j = [i EXCEPT !.cur = c]
  BY DEF Sound, Shaped
<1>2. c.routine = <<>> /\ c.pc = i.cur.pc
  BY DEF Sound, Shaped, IsContext
<1>3. ~InDialogue(i) => i.cur = ScriptOf(i)
  BY SideTypes
<1> HIDE DEF c, j
<1>4. /\ InDialogue(i) => ScriptOf(j) = ScriptOf(i) /\ TalkOf(j) = c
      /\ ~InDialogue(i) => ScriptOf(j) = c /\ TalkOf(j) = TalkOf(i)
  BY <1>1, CurrentSides
<1>5. QED
  BY <1>2, <1>3, <1>4 DEF j

\* The exchanges change neither side, but for the first, which copies the script's, and the
\* last, which forgets the dialogue's.
LEMMA UseDialogueSides ==
  ASSUME NEW i, Sound(i), ~InDialogue(i)
  PROVE  /\ ScriptOf(UseDialogue(i)) = ScriptOf(i)
         /\ TalkOf(UseDialogue(i)) = IF i.swaps = 0 THEN ScriptOf(i) ELSE TalkOf(i)
<1>1. i.swaps \in Nat /\ i.swaps % 2 # 1 /\ i.wonky = FALSE
  BY DEF Sound, Shaped, InDialogue
<1>2. CASE i.swaps = 0
  <2>1. UseDialogue(i) = [cur |-> i.cur, kept |-> i.cur, swaps |-> 1, wonky |-> FALSE]
    BY <1>1, <1>2 DEF UseDialogue, InDialogue, Sound, Shaped
  <2>2. QED
    BY <1>1, <1>2, <2>1, Parity DEF ScriptOf, TalkOf, InDialogue
<1>3. CASE i.swaps # 0
  <2>1. UseDialogue(i) = [cur |-> i.kept, kept |-> i.cur, swaps |-> i.swaps + 1, wonky |-> FALSE]
    BY <1>1, <1>3 DEF UseDialogue, InDialogue, Swap, Sound, Shaped
  <2>2. (i.swaps + 1) % 2 = 1 /\ i.swaps + 1 # 0
    BY <1>1, Parity
  <2>3. QED
    BY <1>1, <1>3, <2>1, <2>2 DEF ScriptOf, TalkOf, InDialogue
<1>4. QED
  BY <1>2, <1>3

LEMMA UseMainScriptSides ==
  ASSUME NEW i, Sound(i), InDialogue(i)
  PROVE  ScriptOf(UseMainScript(i)) = ScriptOf(i) /\ TalkOf(UseMainScript(i)) = TalkOf(i)
<1>1. i.swaps \in Nat /\ i.swaps % 2 = 1 /\ i.wonky = FALSE
  BY DEF Sound, Shaped, InDialogue
<1>2. UseMainScript(i) = [cur |-> i.kept, kept |-> i.cur, swaps |-> i.swaps + 1, wonky |-> FALSE]
  BY <1>1 DEF UseMainScript, InDialogue, Swap, Sound, Shaped
<1>3. (i.swaps + 1) % 2 # 1 /\ i.swaps + 1 # 0 /\ i.swaps # 0
  BY <1>1, Parity
<1>4. QED
  BY <1>1, <1>2, <1>3 DEF ScriptOf, TalkOf, InDialogue

LEMMA DisposeSides ==
  ASSUME NEW i, Sound(i), NEW force \in BOOLEAN, force \/ InDialogue(i)
  PROVE  ScriptOf(DisposeDialogue(i, force)) = ScriptOf(i) /\ TalkOf(DisposeDialogue(i, force)) = Nobody
<1>1. i.wonky = FALSE
  BY DEF Sound
<1>2. DisposeDialogue(i, force) =
        [cur |-> IF InDialogue(i) THEN i.kept ELSE i.cur, kept |-> Nobody,
         swaps |-> 0, wonky |-> FALSE]
  BY <1>1 DEF DisposeDialogue, NothingToDispose, Swap, Sound, Shaped
<1>3. QED
  BY <1>2, Parity DEF ScriptOf, TalkOf, InDialogue

-----------------------------------------------------------------------------
(* What remains of a routine. *)

IsRest(r) ==
  /\ r \in Seq({"plain", "wait", "return"}) /\ Len(r) >= 1 /\ r[Len(r)] = "return"
  /\ \A n \in 1 .. Len(r) : r[n] = "return" => n = Len(r)

LEMMA RestOfRoutine ==
  ASSUME NEW b \in Routines
  PROVE  LET r == <<"gosub">> \o b \o <<"return">>
         IN  r # <<>> /\ Head(r) = "gosub" /\ Tail(r) = b \o <<"return">> /\ IsRest(b \o <<"return">>)
<1> DEFINE s == b \o <<"return">>
           r == <<"gosub">> \o b \o <<"return">>
           C == {"plain", "wait", "return"}
<1>1. b \in Seq({"plain", "wait"})
  BY DEF Routines
<1>2. Len(b) \in Nat /\ \A n \in 1 .. Len(b) : b[n] \in {"plain", "wait"}
  BY <1>1
<1>3. b \in Seq(C)
  BY <1>1
<1>4. s \in Seq(C) /\ Len(s) = Len(b) + 1 /\ s[Len(b) + 1] = "return"
      /\ \A n \in 1 .. Len(b) : s[n] = b[n]
  BY <1>3
<1>5. IsRest(s)
  <2> HIDE DEF s
  <2>1. \A n \in 1 .. Len(s) : n = Len(s) \/ n \in 1 .. Len(b)
    BY <1>2, <1>4
  <2>2. \A n \in 1 .. Len(b) : s[n] # "return"
    BY <1>2, <1>4
  <2>3. QED
    BY <1>2, <1>4, <2>1, <2>2 DEF IsRest
<1>6. r # <<>> /\ Head(r) = "gosub" /\ Tail(r) = s
  <2>1. \A S : \A q \in Seq(S) : \A g \in S :
          LET t == <<g>> \o q IN t # <<>> /\ Head(t) = g /\ Tail(t) = q
    OBVIOUS
  <2>2. s \in Seq(C \cup {"gosub"}) /\ "gosub" \in C \cup {"gosub"}
    BY <1>4
  <2>3. r = <<"gosub">> \o s
    <3>1. \A S : \A q, t, u \in Seq(S) : q \o t \o u = q \o (t \o u)
      OBVIOUS
    <3>2. b \in Seq(C \cup {"gosub"}) /\ <<"gosub">> \in Seq(C \cup {"gosub"})
          /\ <<"return">> \in Seq(C \cup {"gosub"})
      BY <1>3
    <3>3. QED
      BY <3>1, <3>2
  <2>4. QED
    BY <2>1, <2>2, <2>3
<1>7. QED
  BY <1>5, <1>6

LEMMA RestTail ==
  ASSUME NEW r, IsRest(r)
  PROVE  /\ r # <<>> /\ Head(r) \in {"plain", "wait", "return"}
         /\ Head(r) = "return" => Tail(r) = <<>>
         /\ Head(r) # "return" => IsRest(Tail(r))
<1> DEFINE C == {"plain", "wait", "return"}
           t == Tail(r)
<1>1. r \in Seq(C) /\ Len(r) \in Nat /\ Len(r) >= 1 /\ r[Len(r)] = "return"
      /\ \A n \in 1 .. Len(r) : r[n] = "return" => n = Len(r)
  BY DEF IsRest
<1>2. r # <<>> /\ Head(r) = r[1] /\ Head(r) \in C /\ 1 \in 1 .. Len(r)
  BY <1>1
<1>3. t \in Seq(C) /\ Len(t) = Len(r) - 1 /\ \A n \in 1 .. Len(t) : t[n] = r[n + 1]
  BY <1>1
<1>4. ASSUME Head(r) = "return" PROVE t = <<>>
  <2>1. Len(r) = 1
    BY <1>1, <1>2, <1>4
  <2>2. Len(t) = 0
    BY <1>3, <2>1
  <2>3. \A S : \A q \in Seq(S) : Len(q) = 0 => q = <<>>
    OBVIOUS
  <2>4. QED
    BY <1>3, <2>2, <2>3
<1>5. ASSUME Head(r) # "return" PROVE IsRest(t)
  <2>1. Len(r) # 1
    BY <1>1, <1>2, <1>5
  <2>2. Len(t) >= 1 /\ Len(t) \in 1 .. Len(t) /\ Len(t) + 1 = Len(r)
        /\ \A n \in 1 .. Len(t) : n + 1 \in 1 .. Len(r)
    <3>1. \A a, c \in Nat : a >= 1 /\ a # 1 /\ c = a - 1 =>
            c >= 1 /\ c \in 1 .. c /\ c + 1 = a /\ \A n \in 1 .. c : n + 1 \in 1 .. a
      OBVIOUS
    <3>2. Len(t) \in Nat
      BY <1>3
    <3>3. Len(t) = Len(r) - 1 /\ Len(r) \in Nat /\ Len(r) >= 1
      BY <1>1, <1>3
    <3> HIDE DEF t
    <3>4. QED
      BY <2>1, <3>1, <3>2, <3>3
  <2>3. t[Len(t)] = "return"
    BY <1>1, <1>3, <2>2
  <2>4. \A n \in 1 .. Len(t) : t[n] = "return" => n + 1 = Len(r)
    BY <1>1, <1>3, <2>2
  <2> HIDE DEF t
  <2>5. \A n \in 1 .. Len(t) : t[n] = "return" => n = Len(t)
    BY <2>2, <2>4
  <2>6. QED
    BY <1>3, <2>2, <2>3, <2>5 DEF IsRest
<1>6. QED
  BY <1>2, <1>4, <1>5

\* A routine that has begun is its own rest.
LEMMA RestIs ==
  /\ Rest(<<>>) = <<>>
  /\ \A r : IsRest(r) => Rest(r) = r
  /\ \A r : r # <<>> /\ Head(r) = "gosub" => Rest(r) = Tail(r)
<1>1. \A r : IsRest(r) => Head(r) # "gosub"
  BY RestTail
<1>2. QED
  BY <1>1 DEF Rest
-----------------------------------------------------------------------------
(* What the parties of Duet see of the queue of events. *)

TurnsOf(q) == Cardinality({n \in 1 .. Len(q) : q[n] \in {"first", "next"}})
RestingOf(l, q) == l \/ \E n \in 1 .. Len(q) : q[n] = "loanStart"

Resting == loan \/ LoanAsked

LEMMA Seen ==
  /\ Turns = TurnsOf(events) /\ Turns' = TurnsOf(events')
  /\ Resting = RestingOf(loan, events) /\ Resting' = RestingOf(loan', events')
BY DEF Turns, TurnsOf, Resting, LoanAsked, RestingOf

Turning == {<<"first">>, <<"next">>}
Quiet == {<<>>, <<"loanStart">>, <<"loanEnd">>, <<"commandEnd">>}

LEMMA TurnsAre == (\A q \in Turning : TurnsOf(q) = 1) /\ (\A q \in Quiet : TurnsOf(q) = 0)
<1>1. ASSUME NEW e, NEW q, q = <<e>>
      PROVE  TurnsOf(q) = IF e \in {"first", "next"} THEN 1 ELSE 0
  <2>1. Len(q) = 1 /\ q[1] = e
    BY <1>1
  <2>2. CASE e \in {"first", "next"}
    <3>1. {n \in 1 .. Len(q) : q[n] \in {"first", "next"}} = {1}
      BY <2>1, <2>2
    <3>2. QED
      BY <2>2, <3>1, FS_Singleton DEF TurnsOf
  <2>3. CASE e \notin {"first", "next"}
    <3>1. {n \in 1 .. Len(q) : q[n] \in {"first", "next"}} = {}
      BY <2>1, <2>3
    <3>2. QED
      BY <2>3, <3>1, FS_EmptySet DEF TurnsOf
  <2>4. QED
    BY <2>2, <2>3
<1>2. TurnsOf(<<>>) = 0
  <2>1. {n \in 1 .. Len(<<>>) : <<>>[n] \in {"first", "next"}} = {}
    OBVIOUS
  <2>2. QED
    BY <2>1, FS_EmptySet DEF TurnsOf
<1>3. /\ "first" \in {"first", "next"} /\ "next" \in {"first", "next"}
      /\ "loanStart" \notin {"first", "next"} /\ "loanEnd" \notin {"first", "next"}
      /\ "commandEnd" \notin {"first", "next"}
  OBVIOUS
<1>4. TurnsOf(<<"first">>) = 1 /\ TurnsOf(<<"next">>) = 1
  BY <1>1, <1>3
<1>5. TurnsOf(<<"loanStart">>) = 0 /\ TurnsOf(<<"loanEnd">>) = 0 /\ TurnsOf(<<"commandEnd">>) = 0
  BY <1>1, <1>3
<1>6. QED
  BY <1>2, <1>4, <1>5 DEF Turning, Quiet

LEMMA RestingTable ==
  ASSUME NEW q
  PROVE  /\ RestingOf(TRUE, q) = TRUE
         /\ RestingOf(FALSE, <<"loanStart">>) = TRUE
         /\ q \in Turning \cup {<<>>, <<"loanEnd">>, <<"commandEnd">>} => RestingOf(FALSE, q) = FALSE
<1>1. ASSUME NEW l \in BOOLEAN, NEW e, NEW s, s = <<e>>
      PROVE  RestingOf(l, s) = (l \/ e = "loanStart")
  <2>1. Len(s) = 1 /\ s[1] = e
    BY <1>1
  <2>2. 1 .. Len(s) = {1}
    BY <2>1
  <2>3. (\E n \in 1 .. Len(s) : s[n] = "loanStart") <=> e = "loanStart"
    BY <2>1, <2>2
  <2>4. QED
    BY <2>3 DEF RestingOf
<1>2. RestingOf(FALSE, <<>>) = FALSE
  <2>1. ~ \E n \in 1 .. Len(<<>>) : <<>>[n] = "loanStart"
    OBVIOUS
  <2>2. QED
    BY <2>1 DEF RestingOf
<1>3. RestingOf(FALSE, <<"loanStart">>) = TRUE
  BY <1>1
<1>4. "first" # "loanStart" /\ "next" # "loanStart" /\ "loanEnd" # "loanStart" /\ "commandEnd" # "loanStart"
  OBVIOUS
<1>5. /\ RestingOf(FALSE, <<"first">>) = FALSE /\ RestingOf(FALSE, <<"next">>) = FALSE
      /\ RestingOf(FALSE, <<"loanEnd">>) = FALSE /\ RestingOf(FALSE, <<"commandEnd">>) = FALSE
  BY <1>1, <1>4
<1>6. RestingOf(TRUE, q) = TRUE
  BY DEF RestingOf
<1>7. QED
  BY <1>2, <1>3, <1>5, <1>6 DEF Turning

\* The same in terms of the variables, before and after a step.
LEMMA SeenNow ==
  ASSUME active \in BOOLEAN
  PROVE  /\ active = FALSE => Doing = IF draining /\ ret = "continue" THEN "over" ELSE "off"
         /\ active = TRUE /\ ready = FALSE => Doing = "fed"
         /\ active = TRUE /\ ready = TRUE =>
              /\ events \in Turning /\ executing = FALSE => Doing = "nothing"
              /\ executing = TRUE => Doing = "routine"
              /\ events \in Quiet /\ executing = FALSE /\ inlineWaits = 1 => Doing = "wait"
              /\ events \in Quiet /\ executing = FALSE /\ inlineWaits = 0 /\ passes = -1 => Doing = "star"
              /\ events \in Quiet /\ executing = FALSE /\ inlineWaits = 0 /\ passes \in Int /\ passes >= 0 => Doing = "text"
         /\ loan = TRUE => Resting = TRUE
         /\ loan = FALSE /\ events = <<"loanStart">> => Resting = TRUE
         /\ loan = FALSE /\ events \in Turning \cup {<<>>, <<"loanEnd">>, <<"commandEnd">>} => Resting = FALSE
<1>1. Turns = TurnsOf(events) /\ Resting = RestingOf(loan, events)
  BY Seen
<1> DEFINE more == Turns > 0
           waits == inlineWaits > 0
           held == passes < 0
<1>1a. Doing =
         IF ~active THEN IF draining /\ ret = "continue" THEN "over" ELSE "off"
         ELSE IF ~ready THEN "fed" ELSE IF executing THEN "routine"
         ELSE IF more THEN "nothing" ELSE IF waits THEN "wait" ELSE IF held THEN "star" ELSE "text"
  BY DEF Doing, Leaving, Suspended
<1>1b. (events \in Turning => more) /\ (events \in Quiet => ~more)
  <2>1. (events \in Turning => Turns = 1) /\ (events \in Quiet => Turns = 0)
    BY <1>1, TurnsAre
  <2>2. QED
    BY <2>1
<1>1c. /\ inlineWaits = 1 => waits
       /\ inlineWaits = 0 => ~waits
       /\ passes = -1 => held
       /\ passes \in Int /\ passes >= 0 => ~held
  BY SMT
<1> HIDE DEF more, waits, held
<1>2. /\ active = FALSE => Doing = IF draining /\ ret = "continue" THEN "over" ELSE "off"
      /\ active = TRUE /\ ready = FALSE => Doing = "fed"
      /\ active = TRUE /\ ready = TRUE =>
           /\ events \in Turning /\ executing = FALSE => Doing = "nothing"
           /\ executing = TRUE => Doing = "routine"
           /\ events \in Quiet /\ executing = FALSE /\ inlineWaits = 1 => Doing = "wait"
           /\ events \in Quiet /\ executing = FALSE /\ inlineWaits = 0 /\ passes = -1 => Doing = "star"
           /\ events \in Quiet /\ executing = FALSE /\ inlineWaits = 0 /\ passes \in Int /\ passes >= 0 => Doing = "text"
  BY <1>1a, <1>1b, <1>1c, Zenon
<1>3. /\ loan = TRUE => Resting = TRUE
      /\ loan = FALSE /\ events = <<"loanStart">> => Resting = TRUE
      /\ loan = FALSE /\ events \in Turning \cup {<<>>, <<"loanEnd">>, <<"commandEnd">>} => Resting = FALSE
  BY <1>1, RestingTable, Zenon
<1>4. QED
  BY <1>2, <1>3

LEMMA SeenNext ==
  ASSUME active' \in BOOLEAN
  PROVE  /\ active' = FALSE => Doing' = IF draining' /\ ret' = "continue" THEN "over" ELSE "off"
         /\ active' = TRUE /\ ready' = FALSE => Doing' = "fed"
         /\ active' = TRUE /\ ready' = TRUE =>
              /\ events' \in Turning /\ executing' = FALSE => Doing' = "nothing"
              /\ executing' = TRUE => Doing' = "routine"
              /\ events' \in Quiet /\ executing' = FALSE /\ inlineWaits' = 1 => Doing' = "wait"
              /\ events' \in Quiet /\ executing' = FALSE /\ inlineWaits' = 0 /\ passes' = -1 => Doing' = "star"
              /\ events' \in Quiet /\ executing' = FALSE /\ inlineWaits' = 0 /\ passes' \in Int /\ passes' >= 0 => Doing' = "text"
         /\ loan' = TRUE => Resting' = TRUE
         /\ loan' = FALSE /\ events' = <<"loanStart">> => Resting' = TRUE
         /\ loan' = FALSE /\ events' \in Turning \cup {<<>>, <<"loanEnd">>, <<"commandEnd">>} => Resting' = FALSE
<1>1. Turns' = TurnsOf(events') /\ Resting' = RestingOf(loan', events')
  BY Seen
<1> DEFINE more == Turns' > 0
           waits == inlineWaits' > 0
           held == passes' < 0
<1>1a. Doing' =
         IF ~active' THEN IF draining' /\ ret' = "continue" THEN "over" ELSE "off"
         ELSE IF ~ready' THEN "fed" ELSE IF executing' THEN "routine"
         ELSE IF more THEN "nothing" ELSE IF waits THEN "wait" ELSE IF held THEN "star" ELSE "text"
  BY DEF Doing, Leaving, Suspended
<1>1b. (events' \in Turning => more) /\ (events' \in Quiet => ~more)
  <2>1. (events' \in Turning => Turns' = 1) /\ (events' \in Quiet => Turns' = 0)
    BY <1>1, TurnsAre
  <2>2. QED
    BY <2>1
<1>1c. /\ inlineWaits' = 1 => waits
       /\ inlineWaits' = 0 => ~waits
       /\ passes' = -1 => held
       /\ passes' \in Int /\ passes' >= 0 => ~held
  BY SMT
<1> HIDE DEF more, waits, held
<1>2. /\ active' = FALSE => Doing' = IF draining' /\ ret' = "continue" THEN "over" ELSE "off"
      /\ active' = TRUE /\ ready' = FALSE => Doing' = "fed"
      /\ active' = TRUE /\ ready' = TRUE =>
           /\ events' \in Turning /\ executing' = FALSE => Doing' = "nothing"
           /\ executing' = TRUE => Doing' = "routine"
           /\ events' \in Quiet /\ executing' = FALSE /\ inlineWaits' = 1 => Doing' = "wait"
           /\ events' \in Quiet /\ executing' = FALSE /\ inlineWaits' = 0 /\ passes' = -1 => Doing' = "star"
           /\ events' \in Quiet /\ executing' = FALSE /\ inlineWaits' = 0 /\ passes' \in Int /\ passes' >= 0 => Doing' = "text"
  BY <1>1a, <1>1b, <1>1c, Zenon
<1>3. /\ loan' = TRUE => Resting' = TRUE
      /\ loan' = FALSE /\ events' = <<"loanStart">> => Resting' = TRUE
      /\ loan' = FALSE /\ events' \in Turning \cup {<<>>, <<"loanEnd">>, <<"commandEnd">>} => Resting' = FALSE
  BY <1>1, RestingTable, Zenon
<1>4. QED
  BY <1>2, <1>3

-----------------------------------------------------------------------------
(* The invariant. *)

PartyTypes ==
  /\ program \in Scripts /\ ScriptSide.pc \in Nat \ {0}
  /\ \A n \in DOMAIN pipes : pipes[n] \in Int
  /\ scriptWaits \in {0, 1} /\ position \in Nat /\ parts \in Talk /\ active \in BOOLEAN

\* A routine of the script's is the pretext routine, which runs before the dialogue; the
\* command that begins the dialogue comes again after it.
ScriptSays ==
  /\ ScriptSide.routine # <<>> => IsRest(ScriptSide.routine) /\ active = TRUE /\ ready = FALSE
  /\ active = FALSE => pretold = FALSE
  /\ active = TRUE /\ ready = FALSE =>
       /\ pretold = TRUE /\ Pretext # <<>> /\ ScriptSide.pc <= Len(program)
       /\ program[ScriptSide.pc].cmd \in {"d", "d2"} /\ parts = program[ScriptSide.pc].arg

\* A routine of the dialogue's has something left to do until it has returned.
TalkSays ==
  /\ executing = FALSE \/ events = <<"commandEnd">> => DialogueSide.routine = <<>>
  /\ executing = TRUE /\ events # <<"commandEnd">> =>
       /\ DialogueSide.reports = TRUE
       /\ ~Leaving => IsRest(DialogueSide.routine)
       /\ Leaving => /\ DialogueSide.routine # <<>> /\ Head(DialogueSide.routine) = "gosub"
                      /\ IsRest(Tail(DialogueSide.routine))

\* The token that is read is a routine's first or the one the script has come to.
StartSays ==
  /\ Leaving => events = <<>> /\ loan = FALSE
  /\ Leaving /\ executing = FALSE =>
       active = FALSE /\ ready = FALSE /\ ScriptSide.routine = <<>>

DuetInv == DialogueInv /\ PartyTypes /\ ScriptSays /\ TalkSays /\ StartSays

LEMMA DuetInit == Init => DuetInv /\ TheDuet!Init
<1> SUFFICES ASSUME Init PROVE DuetInv /\ TheDuet!Init
  OBVIOUS
<1>1. DialogueInv
  BY InitSituation
<1>2. ScriptSide = [Nobody EXCEPT !.pc = 1] /\ DialogueSide = Nobody
  BY Sides, Parity DEF Init, ScriptOf, TalkOf, InDialogue
<1>3. ScriptSide.pc = 1 /\ ScriptSide.routine = <<>> /\ DialogueSide.routine = <<>>
  BY <1>2 DEF Nobody
<1>4. PartyTypes
  <2>1. <<>> \in Talk
    BY DEF Talk
  <2>2. /\ program \in Scripts /\ pipes = <<>> /\ scriptWaits = 0 /\ position = 0
        /\ parts = <<>> /\ active = FALSE
    BY DEF Init
  <2>3. DOMAIN pipes = {}
    BY <2>2
  <2>4. ScriptSide.pc \in Nat \ {0} /\ scriptWaits \in {0, 1} /\ position \in Nat
    BY <1>3, <2>2
  <2>5. QED
    BY <2>1, <2>2, <2>3, <2>4 DEF PartyTypes
<1>5. ScriptSays /\ TalkSays /\ StartSays
  BY <1>3 DEF Init, ScriptSays, TalkSays, StartSays, Leaving
<1>6. Doing = "off" /\ Resting = FALSE
  BY SeenNow DEF Init
<1>7. Rest(ScriptSide.routine) = <<>> /\ Rest(DialogueSide.routine) = <<>>
  BY <1>3, RestIs
<1>8. TheDuet!Init
  BY <1>3, <1>6, <1>7 DEF Init, TheDuet!Init, Resting
<1>9. QED
  BY <1>1, <1>4, <1>5, <1>8 DEF DuetInv

\* What the dialogue does, in each of its situations.
LEMMA DoingNow ==
  ASSUME DuetInv
  PROVE  /\ Stopped => Resting = FALSE /\ Doing = IF active THEN "fed" ELSE IF Leaving THEN "over" ELSE "off"
         /\ First \/ Turn => Resting = FALSE /\ Doing = "nothing"
         /\ Text => Resting = FALSE /\ Doing = "text"
         /\ Star => Resting = FALSE /\ Doing = "star"
         /\ Waiting => Resting = FALSE /\ Doing = "wait"
         /\ Running \/ Returned => Resting = FALSE /\ Doing = "routine"
         /\ Asking \/ Loaned \/ LoanOver => Resting = TRUE /\ Doing = "routine"
<1>1. active \in BOOLEAN /\ (ready = TRUE => active = TRUE)
  BY DEF DuetInv, PartyTypes, DialogueInv
<1>2. Stopped => Resting = FALSE /\ Doing = IF active THEN "fed" ELSE IF Leaving THEN "over" ELSE "off"
  BY <1>1, SeenNow DEF Stopped, Idle, Leaving
<1>3. First \/ Turn => Resting = FALSE /\ Doing = "nothing"
  BY <1>1, SeenNow DEF First, Turn, Idle, Turning
<1>4. Text => Resting = FALSE /\ Doing = "text"
  BY <1>1, SeenNow DEF Text, Idle, Quiet, Free
<1>5. Star => Resting = FALSE /\ Doing = "star"
  BY <1>1, SeenNow DEF Star, Idle, Quiet, Held
<1>6. Waiting => Resting = FALSE /\ Doing = "wait"
  BY <1>1, SeenNow DEF Waiting, Quiet
<1>7. Running \/ Returned => Resting = FALSE /\ Doing = "routine"
  BY <1>1, SeenNow DEF Running, Returned, Executing, Quiet
<1>8. Asking \/ Loaned \/ LoanOver => Resting = TRUE /\ Doing = "routine"
  BY <1>1, SeenNow DEF Asking, Loaned, LoanOver, Executing, Quiet
<1>9. QED
  BY <1>2, <1>3, <1>4, <1>5, <1>6, <1>7, <1>8

\* A command of the script's side is one of the script, which may run, or of its routine.
LEMMA OnScript ==
  ASSUME DuetInv, NEW c, Run(c), ~InDialogue(interpreter)
  PROVE  /\ Stopped \/ Text \/ Star \/ Waiting \/ Loaned
         /\ scriptWaits = 0 /\ ~draining /\ TheDuet!MayRun
         /\ ScriptSide.routine = <<>> =>
              /\ ScriptSide.pc <= Len(program) /\ program[ScriptSide.pc].cmd = c
              /\ Token = program[ScriptSide.pc]
         /\ ScriptSide.routine # <<>> =>
              /\ IsRest(ScriptSide.routine) /\ Head(ScriptSide.routine) = c
              /\ c \in {"plain", "wait", "return"} /\ Stopped /\ active = TRUE /\ ready = FALSE
<1>1. Stopped \/ Text \/ Star \/ Waiting \/ Loaned
  BY RunSituation DEF DuetInv, Running
<1>2. loan = TRUE \/ executing = FALSE
  BY <1>1 DEF Stopped, Text, Star, Waiting, Loaned, Idle
<1>3. ~(ready /\ ~d2) /\ ~(ready /\ Awaited) /\ scriptWaits = 0 /\ ~draining
  BY <1>2 DEF Run, ScriptExecutionPermitted
<1>4. interpreter.cur = ScriptSide
  BY Sides, SideTypes DEF DuetInv, DialogueInv
<1>5. ASSUME ScriptSide.routine = <<>>
      PROVE  /\ ScriptSide.pc <= Len(program) /\ program[ScriptSide.pc].cmd = c
             /\ Token = program[ScriptSide.pc]
  <2>1. ScriptSide.pc \in Nat /\ Len(program) \in Nat
    BY DialogueAssumption DEF DuetInv, PartyTypes
  <2>2. ~(ScriptSide.pc > Len(program)) /\ Token.cmd = c /\ Token = program[ScriptSide.pc]
    BY <1>4, <1>5 DEF Run, Ended, Token
  <2>3. QED
    BY <2>1, <2>2
<1>6. ASSUME ScriptSide.routine # <<>>
      PROVE  /\ IsRest(ScriptSide.routine) /\ Head(ScriptSide.routine) = c
             /\ c \in {"plain", "wait", "return"} /\ Stopped /\ active = TRUE /\ ready = FALSE
  <2>1. IsRest(ScriptSide.routine) /\ active = TRUE /\ ready = FALSE
    BY <1>6 DEF DuetInv, ScriptSays
  <2>2. Stopped
    BY <1>1, <2>1 DEF Text, Star, Waiting, Loaned, Executing
  <2>3. Token.cmd = c /\ Token.cmd = Head(ScriptSide.routine)
    BY <1>4, <1>6 DEF Run, Token
  <2>4. QED
    BY <2>1, <2>2, <2>3, RestTail
<1>7. TheDuet!MayRun
  <2>1. Doing \notin {"off", "fed"} => d2 /\ ~Awaited
    <3>1. CASE Stopped
      BY <1>3, <3>1, DoingNow DEF Leaving
    <3>2. CASE ~Stopped
      <4>1. ready = TRUE
        BY <1>1, <3>2 DEF Text, Star, Waiting, Loaned, Executing
      <4>2. QED
        BY <1>3, <4>1
    <3>3. QED
      BY <3>1, <3>2
  <2>2. Doing = "routine" => Resting
    BY <1>1, DoingNow
  <2>3. ~Awaited => \A n \in DOMAIN pipes : pipes[n] > -1
    <3>1. \A n \in DOMAIN pipes : pipes[n] \in Int
      BY DEF DuetInv, PartyTypes
    <3>2. \A z \in Int : ~(z <= -1) => z > -1
      OBVIOUS
    <3>3. QED
      BY <3>1, <3>2 DEF Awaited
  <2>4. QED
    BY <1>3, <2>1, <2>2, <2>3 DEF TheDuet!MayRun, TheDuet!On, Resting
<1>8. QED
  BY <1>1, <1>3, <1>5, <1>6, <1>7

\* A command of the dialogue's side is one of its routine.
LEMMA OnTalk ==
  ASSUME DuetInv, NEW c, Run(c), InDialogue(interpreter)
  PROVE  /\ Running /\ ~draining /\ DialogueSide.reports = TRUE
         /\ IsRest(DialogueSide.routine) /\ Head(DialogueSide.routine) = c
         /\ c \in {"plain", "wait", "return"}
         /\ interpreter.cur = DialogueSide /\ ScriptSide.routine = <<>>
<1>1. Running
  BY RunSituation DEF DuetInv, Stopped, Text, Star, Waiting, Loaned, Idle
<1>2. ~draining
  BY DEF Run
<1>3. interpreter.cur = DialogueSide
  BY Sides, SideTypes DEF DuetInv, DialogueInv
<1>4. IsRest(DialogueSide.routine) /\ DialogueSide.reports = TRUE
  BY <1>1, <1>2, Heads DEF Running, Executing, DuetInv, TalkSays, Leaving
<1>5. Token.cmd = c /\ Token.cmd = Head(DialogueSide.routine)
  BY <1>3, <1>4, RestTail DEF Run, Token
<1>6. ScriptSide.routine = <<>>
  BY <1>1 DEF Running, Executing, DuetInv, ScriptSays
<1>7. QED
  BY <1>1, <1>2, <1>3, <1>4, <1>5, <1>6, RestTail

PartyInv == PartyTypes /\ ScriptSays /\ TalkSays /\ StartSays

LEMMA BumpTyped ==
  ASSUME NEW m, \A n \in DOMAIN m : m[n] \in Int, NEW p, NEW by \in Int
  PROVE  \A n \in DOMAIN Bump(m, p, by) : Bump(m, p, by)[n] \in Int
<1> SUFFICES ASSUME NEW n \in DOMAIN m \cup {p}
             PROVE  (IF n \in DOMAIN m THEN m[n] ELSE 0) + (IF n = p THEN by ELSE 0) \in Int
  BY DEF Bump
<1>1. (IF n \in DOMAIN m THEN m[n] ELSE 0) \in Int /\ (IF n = p THEN by ELSE 0) \in Int
  OBVIOUS
<1>2. QED
  BY <1>1

LEMMA SameBump == ASSUME NEW m, NEW p, NEW by PROVE TheDuet!Bump(m, p, by) = Bump(m, p, by)
BY DEF Bump, TheDuet!Bump

-----------------------------------------------------------------------------
(* What a step leaves alone. *)

LEMMA SeenKept ==
  ASSUME UNCHANGED <<active, ready, events, executing, inlineWaits, passes, loan>>,
         (Leaving' <=> Leaving) \/ active = TRUE
  PROVE  Doing' = Doing /\ Resting' = Resting
BY DEF Doing, Turns, Suspended, Resting, LoanAsked

LEMMA TalkVarsKept ==
  ASSUME DialogueSide'.routine = DialogueSide.routine, UNCHANGED <<parts, position, d2, pretold>>,
         Doing' = Doing, Resting' = Resting
  PROVE  UNCHANGED TheDuet!talkVars
BY DEF TheDuet!talkVars, Resting

LEMMA ScriptVarsKept ==
  ASSUME ScriptSide'.routine = ScriptSide.routine, ScriptSide'.pc = ScriptSide.pc,
         UNCHANGED <<program, effects, scriptWaits>>
  PROVE  UNCHANGED TheDuet!scriptVars
BY DEF TheDuet!scriptVars

LEMMA PipeVarsKept == ASSUME UNCHANGED pipeVars PROVE UNCHANGED TheDuet!pipeVars
BY DEF pipeVars, TheDuet!pipeVars

LEMMA NothingSeen ==
  ASSUME UNCHANGED TheDuet!scriptVars, UNCHANGED TheDuet!talkVars, UNCHANGED TheDuet!pipeVars
  PROVE  UNCHANGED TheDuet!duetVars
BY DEF TheDuet!duetVars

LEMMA NotLeaving ==
  ASSUME ~draining' \/ ret' # "continue"
  PROVE  ~Leaving' /\ StartSays'
BY DEF Leaving, StartSays

\* A queue that holds something is not about to let a token be read.
LEMMA EventKeeps ==
  ASSUME DuetInv, NEW e, Event(e), ret' = ret, draining' = draining
  PROVE  ~Leaving /\ ~Leaving' /\ StartSays'
<1>1. events # <<>>
  BY DEF Event
<1>2. ~Leaving
  BY <1>1 DEF DuetInv, StartSays
<1>3. QED
  BY <1>2 DEF Leaving, StartSays

\* The script reads the next token of its own.
LEMMA ScriptReads ==
  ASSUME DuetInv, NEW c, Run(c), ~InDialogue(interpreter), c \notin {"return", "d", "d2"},
         interpreter' = ReadToken(interpreter),
         UNCHANGED <<program, parts, position, active, ready, pretold, executing, draining>>,
         \A n \in DOMAIN pipes' : pipes'[n] \in Int, scriptWaits' \in {0, 1},
         events' = events \/ executing = FALSE
  PROVE  /\ PartyInv' /\ DialogueSide' = DialogueSide
         /\ ScriptSide.routine = <<>> =>
              ScriptSide'.pc = ScriptSide.pc + 1 /\ ScriptSide'.routine = <<>>
         /\ ScriptSide.routine # <<>> =>
              ScriptSide'.pc = ScriptSide.pc /\ ScriptSide'.routine = Tail(ScriptSide.routine)
<1>1. /\ ScriptSide' = Read(ScriptSide) /\ DialogueSide' = DialogueSide
      /\ IsContext(ScriptSide) /\ Sound(interpreter)
  BY Sides, ReadSides, SideTypes DEF DuetInv, DialogueInv
<1>2. /\ ScriptSide.routine = <<>> =>
           ScriptSide'.pc = ScriptSide.pc + 1 /\ ScriptSide'.routine = <<>>
      /\ ScriptSide.routine # <<>> =>
           ScriptSide'.pc = ScriptSide.pc /\ ScriptSide'.routine = Tail(ScriptSide.routine)
  BY <1>1, ReadOf
<1>3. ~draining /\ ~draining' /\ ~Leaving /\ ~Leaving' /\ StartSays'
  BY NotLeaving DEF Run, Leaving
<1>4. PartyTypes'
  <2>1. ScriptSide'.pc \in Nat \ {0}
    BY <1>2 DEF DuetInv, PartyTypes
  <2>2. QED
    BY <2>1 DEF DuetInv, PartyTypes
<1>5. ScriptSays'
  <2>1. CASE ScriptSide.routine = <<>>
    <3>1. program[ScriptSide.pc].cmd = c
      BY <2>1, OnScript
    <3>2. ~(active = TRUE /\ ready = FALSE)
      BY <3>1 DEF DuetInv, ScriptSays
    <3>3. QED
      BY <1>2, <2>1, <3>2 DEF DuetInv, ScriptSays
  <2>2. CASE ScriptSide.routine # <<>>
    <3>1. IsRest(ScriptSide.routine) /\ Head(ScriptSide.routine) = c /\ active = TRUE /\ ready = FALSE
      BY <2>2, OnScript
    <3>2. IsRest(Tail(ScriptSide.routine))
      BY <3>1, RestTail
    <3>3. QED
      BY <1>2, <2>2, <3>1, <3>2 DEF DuetInv, ScriptSays
  <2>3. QED
    BY <2>1, <2>2
<1>6. TalkSays'
  BY <1>1, <1>3 DEF DuetInv, TalkSays
<1>7. QED
  BY <1>1, <1>2, <1>3, <1>4, <1>5, <1>6 DEF PartyInv

\* A step of the pretext routine.
LEMMA ScriptOwn ==
  ASSUME DuetInv, NEW c, Run(c), ~InDialogue(interpreter), ScriptSide.routine # <<>>,
         ScriptSide'.pc = ScriptSide.pc, ScriptSide'.routine = Tail(ScriptSide.routine),
         DialogueSide' = DialogueSide,
         IF c = "wait" THEN scriptWaits' \in {0, 1} ELSE scriptWaits' = 0,
         UNCHANGED <<program, effects, parts, position, d2, pretold, pipeVars>>,
         Doing' = Doing, Resting' = Resting,
         ScriptSide'.routine = <<>> \/ IsRest(ScriptSide'.routine)
  PROVE  TheDuet!OwnCommand
<1>1. IsRest(ScriptSide.routine) /\ Head(ScriptSide.routine) = c /\ TheDuet!MayRun
  BY OnScript
<1>2. Rest(ScriptSide.routine) = ScriptSide.routine /\ Rest(ScriptSide'.routine) = ScriptSide'.routine
  BY <1>1, RestIs
<1>3. scriptWaits' \in IF Head(ScriptSide.routine) = "wait" THEN {0, 1} ELSE {0}
  BY <1>1
<1>4. UNCHANGED TheDuet!talkVars /\ UNCHANGED TheDuet!pipeVars
  BY TalkVarsKept, PipeVarsKept
<1>5. QED
  BY <1>1, <1>2, <1>3, <1>4 DEF TheDuet!OwnCommand

\* A step of the dialogue's routine, which leaves the script alone.
LEMMA TalkReads ==
  ASSUME DuetInv, NEW c, Run(c), InDialogue(interpreter), c \in {"plain", "wait"},
         interpreter' = ReadToken(interpreter),
         UNCHANGED <<program, effects, scriptWaits, parts, position, modeVars, executing, pipeVars, draining>>,
         events' = events \/ events' = <<"loanStart">>,
         Doing' = "routine", Resting' = TRUE => c = "wait", Resting' \in BOOLEAN
  PROVE  PartyInv' /\ TheDuet!RoutineCommand
<1>1. /\ ScriptSide' = ScriptSide /\ DialogueSide' = Read(DialogueSide)
      /\ IsContext(DialogueSide) /\ Sound(interpreter)
  BY Sides, ReadSides, SideTypes DEF DuetInv, DialogueInv
<1>2. /\ Running /\ IsRest(DialogueSide.routine) /\ Head(DialogueSide.routine) = c
      /\ DialogueSide.reports = TRUE /\ ~draining
  BY OnTalk
<1>3. DialogueSide.routine # <<>> /\ IsRest(Tail(DialogueSide.routine))
  BY <1>2, RestTail
<1>4. DialogueSide'.routine = Tail(DialogueSide.routine) /\ DialogueSide'.reports = TRUE
  BY <1>1, <1>2, <1>3, ReadOf
<1>5. ~Leaving /\ ~Leaving' /\ StartSays'
  BY <1>2, NotLeaving DEF Leaving
<1>6. PartyTypes' /\ ScriptSays'
  BY <1>1 DEF DuetInv, PartyTypes, ScriptSays, modeVars, pipeVars
<1>7. executing = TRUE /\ events = <<>> /\ Resting = FALSE /\ Doing = "routine"
  BY <1>2, DoingNow DEF Running, Executing
<1>8. TalkSays'
  <2>1. events' # <<"commandEnd">>
    BY <1>7, Heads
  <2>2. QED
    BY <1>3, <1>4, <1>5, <1>7, <2>1 DEF TalkSays
<1>9. TheDuet!RoutineCommand
  <2>1. Rest(DialogueSide.routine) = DialogueSide.routine /\ Rest(DialogueSide'.routine) = DialogueSide'.routine
    BY <1>2, <1>3, <1>4, RestIs
  <2>2. Resting' \in IF Head(DialogueSide.routine) = "wait" THEN BOOLEAN ELSE {FALSE}
    BY <1>2
  <2>3. UNCHANGED TheDuet!scriptVars /\ UNCHANGED TheDuet!pipeVars
    BY <1>1, ScriptVarsKept, PipeVarsKept
  <2>4. QED
    BY <1>3, <1>4, <1>7, <2>1, <2>2, <2>3 DEF TheDuet!RoutineCommand, Resting, modeVars
<1>10. QED
  BY <1>5, <1>6, <1>8, <1>9 DEF PartyInv

-----------------------------------------------------------------------------
(* Every command is a step of Duet. *)

LEMMA ScriptToken ==
  ASSUME DuetInv, NEW c, Run(c), ~InDialogue(interpreter), ScriptSide.routine = <<>>
  PROVE  TheDuet!Script(c) /\ TheDuet!MayRun
<1>1. ScriptSide.pc <= Len(program) /\ program[ScriptSide.pc].cmd = c /\ TheDuet!MayRun
  BY OnScript
<1>2. Rest(ScriptSide.routine) = <<>>
  BY RestIs
<1>3. QED
  BY <1>1, <1>2 DEF TheDuet!Script

LEMMA ActiveType == ASSUME DuetInv PROVE active \in BOOLEAN /\ (ready = TRUE => active = TRUE)
BY DEF DuetInv, PartyTypes, DialogueInv

LEMMA PlainDuet == ASSUME DuetInv, Plain PROVE PartyInv' /\ TheDuet!Next
<1>1. /\ Run("plain") /\ interpreter' = ReadToken(interpreter)
      /\ UNCHANGED <<program, parts, position, modeVars, active, ready, pretold, d2>>
      /\ UNCHANGED <<executing, loan, pipeVars, pipes, passes, inlineWaits, scriptWaits, events, draining>>
  BY DEF Plain, Advance, textVars, modeVars, turnVars, pipeVars, waitVars, loopVars
<1>2. Doing' = Doing /\ Resting' = Resting
  BY <1>1, SeenKept DEF Run, Leaving
<1>3. (\A n \in DOMAIN pipes' : pipes'[n] \in Int) /\ scriptWaits' \in {0, 1}
  BY <1>1 DEF DuetInv, PartyTypes
<1>4. CASE InDialogue(interpreter)
  <2>1. Running /\ interpreter.cur = DialogueSide /\ IsRest(DialogueSide.routine)
    BY <1>1, <1>4, OnTalk
  <2>2. effects' = effects
    BY <2>1, RestTail DEF Plain
  <2>3. Doing' = "routine" /\ Resting' = FALSE
    BY <1>2, <2>1, DoingNow
  <2>4. PartyInv' /\ TheDuet!RoutineCommand
    BY <1>1, <1>4, <2>2, <2>3, TalkReads
  <2>5. QED
    BY <2>4 DEF TheDuet!Next
<1>5. CASE ~InDialogue(interpreter)
  <2>1. /\ PartyInv' /\ DialogueSide' = DialogueSide
        /\ ScriptSide.routine = <<>> =>
             ScriptSide'.pc = ScriptSide.pc + 1 /\ ScriptSide'.routine = <<>>
        /\ ScriptSide.routine # <<>> =>
             ScriptSide'.pc = ScriptSide.pc /\ ScriptSide'.routine = Tail(ScriptSide.routine)
    BY <1>1, <1>3, <1>5, ScriptReads
  <2>2. interpreter.cur = ScriptSide
    BY <1>5, Sides, SideTypes DEF DuetInv, DialogueInv
  <2>3. UNCHANGED TheDuet!talkVars /\ UNCHANGED TheDuet!pipeVars
    BY <1>1, <1>2, <2>1, TalkVarsKept, PipeVarsKept
  <2>4. CASE ScriptSide.routine = <<>>
    <3>1. TheDuet!Script("plain") /\ TheDuet!MayRun
      BY <1>1, <1>5, <2>4, ScriptToken
    <3>2. effects' = effects + 1
      BY <2>2, <2>4 DEF Plain
    <3>3. TheDuet!Plain
      BY <1>1, <2>1, <2>3, <2>4, <3>1, <3>2 DEF TheDuet!Plain
    <3>4. QED
      BY <2>1, <3>3 DEF TheDuet!Next
  <2>5. CASE ScriptSide.routine # <<>>
    <3>1. effects' = effects
      BY <2>2, <2>5 DEF Plain
    <3>2. scriptWaits' = 0
      BY <1>1, <1>5, OnScript
    <3>3. ScriptSide'.routine = <<>> \/ IsRest(ScriptSide'.routine)
      BY <2>1 DEF PartyInv, ScriptSays
    <3>4. TheDuet!OwnCommand
      BY <1>1, <1>2, <1>5, <2>1, <2>5, <3>1, <3>2, <3>3, ScriptOwn
    <3>5. QED
      BY <2>1, <3>4 DEF TheDuet!Next
  <2>6. QED
    BY <2>4, <2>5
<1>6. QED
  BY <1>4, <1>5

LEMMA EndOfLineDuet == ASSUME DuetInv, EndOfLine PROVE PartyInv' /\ TheDuet!Next
<1>1. /\ Run("eol") /\ interpreter' = ReadToken(interpreter)
      /\ UNCHANGED <<program, effects, parts, position, active, ready, pretold, d2>>
      /\ UNCHANGED <<executing, loan, pipeVars, pipes, passes, inlineWaits, scriptWaits, events, draining>>
  BY DEF EndOfLine, Advance, textVars, modeVars, turnVars, pipeVars, waitVars, loopVars
<1>2. Doing' = Doing /\ Resting' = Resting
  BY <1>1, SeenKept DEF Run, Leaving
<1>3. (\A n \in DOMAIN pipes' : pipes'[n] \in Int) /\ scriptWaits' \in {0, 1}
  BY <1>1 DEF DuetInv, PartyTypes
<1>3a. "eol" \notin {"plain", "wait", "return"}
  OBVIOUS
<1>4. ~InDialogue(interpreter)
  <2>1. InDialogue(interpreter) => "eol" \in {"plain", "wait", "return"}
    BY <1>1, OnTalk
  <2>2. QED
    BY <1>3a, <2>1
<1>5. ScriptSide.routine = <<>>
  <2>1. ScriptSide.routine # <<>> => "eol" \in {"plain", "wait", "return"}
    BY <1>1, <1>4, OnScript
  <2>2. QED
    BY <1>3a, <2>1
<1>6. PartyInv' /\ DialogueSide' = DialogueSide /\ ScriptSide'.pc = ScriptSide.pc + 1
      /\ ScriptSide'.routine = <<>>
  BY <1>1, <1>3, <1>4, <1>5, ScriptReads
<1>7. UNCHANGED TheDuet!talkVars /\ UNCHANGED TheDuet!pipeVars
  BY <1>1, <1>2, <1>6, TalkVarsKept, PipeVarsKept
<1>8. TheDuet!Script("eol")
  BY <1>1, <1>4, <1>5, ScriptToken
<1>9. TheDuet!Pass
  BY <1>1, <1>5, <1>6, <1>7, <1>8 DEF TheDuet!Pass
<1>10. QED
  BY <1>6, <1>9 DEF TheDuet!Next

LEMMA WaitDuet == ASSUME DuetInv, Wait, KeepsRules PROVE PartyInv' /\ TheDuet!Next
<1>1. /\ Run("wait") /\ interpreter' = ReadToken(interpreter) /\ ~loan
      /\ UNCHANGED <<program, effects, parts, position, modeVars, active, ready, pretold, d2>>
      /\ UNCHANGED <<executing, loan, pipeVars, pipes, passes, draining>>
  BY DEF Wait, Advance, KeepsRules, textVars, modeVars, turnVars, pipeVars, loopVars
<1>2. CASE InDialogue(interpreter)
  <2>1. Running /\ executing = TRUE /\ loan = FALSE /\ events = <<>> /\ ready = TRUE
    BY <1>1, <1>2, OnTalk DEF Running, Executing
  <2>2. CASE UNCHANGED <<waitVars, events>>
    <3>1. Doing' = "routine" /\ Resting' = FALSE
      BY <1>1, <2>1, <2>2, SeenKept, DoingNow DEF waitVars, Run, Leaving
    <3>2. PartyInv' /\ TheDuet!RoutineCommand
      BY <1>1, <1>2, <2>2, <3>1, TalkReads DEF waitVars
    <3>3. QED
      BY <3>2 DEF TheDuet!Next
  <2>3. CASE executing /\ events' = Append(events, "loanStart") /\ UNCHANGED scriptWaits
    <3>1. events' = <<"loanStart">>
      BY <2>1, <2>3
    <3>2. Doing' = "routine" /\ Resting' = TRUE
      BY <1>1, <2>1, <3>1, SeenNext, ActiveType DEF Quiet
    <3>3. PartyInv' /\ TheDuet!RoutineCommand
      BY <1>1, <1>2, <2>3, <3>1, <3>2, TalkReads
    <3>4. QED
      BY <3>3 DEF TheDuet!Next
  <2>4. QED
    BY <2>1, <2>2, <2>3 DEF Wait
<1>3. CASE ~InDialogue(interpreter)
  <2>1. executing = FALSE
    BY <1>1, <1>3, OnScript DEF Stopped, Text, Star, Waiting, Loaned, Idle
  <2>2. UNCHANGED <<inlineWaits, events>> /\ scriptWaits' \in {0, 1}
    <3>1. scriptWaits = 0
      BY <1>1, <1>3, OnScript
    <3>2. QED
      BY <2>1, <3>1 DEF Wait, waitVars
  <2>3. Doing' = Doing /\ Resting' = Resting
    BY <1>1, <2>2, SeenKept DEF Run, Leaving
  <2>4. \A n \in DOMAIN pipes' : pipes'[n] \in Int
    BY <1>1 DEF DuetInv, PartyTypes
  <2>5. /\ PartyInv' /\ DialogueSide' = DialogueSide
        /\ ScriptSide.routine = <<>> =>
             ScriptSide'.pc = ScriptSide.pc + 1 /\ ScriptSide'.routine = <<>>
        /\ ScriptSide.routine # <<>> =>
             ScriptSide'.pc = ScriptSide.pc /\ ScriptSide'.routine = Tail(ScriptSide.routine)
    BY <1>1, <1>3, <2>1, <2>2, <2>4, ScriptReads
  <2>6. UNCHANGED TheDuet!talkVars /\ UNCHANGED TheDuet!pipeVars
    BY <1>1, <2>3, <2>5, TalkVarsKept, PipeVarsKept
  <2>7. CASE ScriptSide.routine = <<>>
    <3>1. TheDuet!Script("wait") /\ TheDuet!MayRun
      BY <1>1, <1>3, <2>7, ScriptToken
    <3>2. TheDuet!Wait
      BY <1>1, <2>2, <2>5, <2>6, <2>7, <3>1 DEF TheDuet!Wait
    <3>3. QED
      BY <2>5, <3>2 DEF TheDuet!Next
  <2>8. CASE ScriptSide.routine # <<>>
    <3>1. ScriptSide'.routine = <<>> \/ IsRest(ScriptSide'.routine)
      BY <2>5 DEF PartyInv, ScriptSays
    <3>2. TheDuet!OwnCommand
      BY <1>1, <1>3, <2>2, <2>3, <2>5, <2>8, <3>1, ScriptOwn
    <3>3. QED
      BY <2>5, <3>2 DEF TheDuet!Next
  <2>9. QED
    BY <2>7, <2>8
<1>4. QED
  BY <1>2, <1>3

LEMMA ReturnDuet == ASSUME DuetInv, Return PROVE PartyInv' /\ [TheDuet!Next]_(TheDuet!duetVars)
<1>1. /\ Run("return")
      /\ interpreter' = [interpreter EXCEPT !.cur.routine = <<>>, !.cur.reports = FALSE]
      /\ events' = IF interpreter.cur.reports THEN Append(events, "commandEnd") ELSE events
      /\ UNCHANGED <<program, effects, parts, position, modeVars, active, ready, pretold, d2>>
      /\ UNCHANGED <<executing, loan, pipeVars, pipes, passes, inlineWaits, scriptWaits, draining>>
  BY DEF Return, textVars, modeVars, turnVars, pipeVars, waitVars, loopVars
<1>2. Sound(interpreter)
  BY DEF DuetInv, DialogueInv
<1>3. /\ InDialogue(interpreter) => ScriptSide' = ScriptSide /\ DialogueSide'.routine = <<>>
      /\ ~InDialogue(interpreter) =>
           /\ ScriptSide'.routine = <<>> /\ ScriptSide'.pc = ScriptSide.pc
           /\ DialogueSide' = DialogueSide
  BY <1>1, <1>2, Sides, ReturnSides
<1>4. ~draining /\ ~draining'
  BY <1>1 DEF Run
<1>5. ~Leaving /\ ~Leaving' /\ StartSays'
  BY <1>4, NotLeaving DEF Leaving
<1>6. ScriptSide'.pc = ScriptSide.pc
  BY <1>3
<1>7. PartyTypes'
  BY <1>1, <1>6 DEF DuetInv, PartyTypes
<1>8. ScriptSays'
  <2>1. ScriptSide'.routine = <<>> \/ ScriptSide'.routine = ScriptSide.routine
    BY <1>3
  <2>2. QED
    BY <1>1, <1>6, <2>1 DEF DuetInv, ScriptSays
<1>9. CASE InDialogue(interpreter)
  <2>1. /\ Running /\ DialogueSide.reports = TRUE /\ IsRest(DialogueSide.routine)
        /\ Head(DialogueSide.routine) = "return" /\ interpreter.cur = DialogueSide
    BY <1>1, <1>9, OnTalk
  <2>2. DialogueSide.routine # <<>> /\ Tail(DialogueSide.routine) = <<>>
    BY <2>1, RestTail
  <2>3. events' = <<"commandEnd">> /\ executing = TRUE /\ loan = FALSE /\ ready = TRUE
    BY <1>1, <2>1 DEF Running, Executing
  <2>4. Doing' = "routine" /\ Resting' = FALSE
    BY <1>1, <2>3, SeenNext, ActiveType DEF Quiet
  <2>5. Doing = "routine" /\ Resting = FALSE
    BY <2>1, DoingNow
  <2>6. TalkSays'
    BY <1>3, <1>9, <2>3 DEF TalkSays
  <2>7. UNCHANGED TheDuet!scriptVars /\ UNCHANGED TheDuet!pipeVars
    BY <1>1, <1>3, <1>9, ScriptVarsKept, PipeVarsKept
  <2>8. Rest(DialogueSide.routine) = DialogueSide.routine /\ Rest(DialogueSide'.routine) = <<>>
    BY <1>3, <1>9, <2>1, RestIs
  <2>9. Resting' \in IF Head(DialogueSide.routine) = "wait" THEN BOOLEAN ELSE {FALSE}
    BY <2>4
  <2>10. TheDuet!RoutineCommand
    BY <1>1, <2>2, <2>4, <2>5, <2>7, <2>8, <2>9 DEF TheDuet!RoutineCommand, Resting, modeVars
  <2>11. QED
    BY <1>5, <1>7, <1>8, <2>6, <2>10 DEF PartyInv, TheDuet!Next
<1>10. CASE ~InDialogue(interpreter)
  <2>1. interpreter.cur = ScriptSide /\ ScriptSide.reports = FALSE
    BY <1>2, <1>10, Sides, SideTypes
  <2>2. events' = events
    BY <1>1, <2>1
  <2>3. Doing' = Doing /\ Resting' = Resting
    BY <1>1, <1>5, <2>2, SeenKept
  <2>4. TalkSays'
    BY <1>1, <1>3, <1>5, <1>10, <2>2 DEF DuetInv, TalkSays
  <2>5. PartyInv'
    BY <1>5, <1>7, <1>8, <2>4 DEF PartyInv
  <2>6. CASE ScriptSide.routine = <<>>
    <3>1. UNCHANGED TheDuet!scriptVars
      BY <1>1, <1>3, <1>10, <2>6, ScriptVarsKept
    <3>2. UNCHANGED TheDuet!talkVars /\ UNCHANGED TheDuet!pipeVars
      BY <1>1, <1>3, <1>10, <2>3, TalkVarsKept, PipeVarsKept
    <3>3. QED
      BY <2>5, <3>1, <3>2, NothingSeen
  <2>7. CASE ScriptSide.routine # <<>>
    <3>1. IsRest(ScriptSide.routine) /\ Head(ScriptSide.routine) = "return" /\ scriptWaits = 0
      BY <1>1, <1>10, <2>7, OnScript
    <3>2. ScriptSide'.routine = Tail(ScriptSide.routine) /\ ScriptSide'.routine = <<>>
      BY <1>3, <1>10, <3>1, RestTail
    <3>3. scriptWaits' = 0 /\ DialogueSide' = DialogueSide
      BY <1>1, <1>3, <1>10, <3>1
    <3>4. TheDuet!OwnCommand
      BY <1>1, <1>6, <1>10, <2>3, <2>7, <3>2, <3>3, ScriptOwn
    <3>5. QED
      BY <2>5, <3>4 DEF TheDuet!Next
  <2>8. QED
    BY <2>6, <2>7
<1>11. QED
  BY <1>9, <1>10

LEMMA WaitOnDialogueDuet == ASSUME DuetInv, WaitOnDialogue PROVE PartyInv' /\ TheDuet!Next
<1>1. /\ Run("wait_on_d") /\ interpreter' = ReadToken(interpreter)
      /\ pipes' = IF active THEN Bump(pipes, Token.arg, -1) ELSE pipes
      /\ UNCHANGED <<program, effects, parts, position, active, ready, pretold, d2>>
      /\ UNCHANGED <<executing, loan, passes, pipe, inlineWaits, scriptWaits, events, draining>>
  BY DEF WaitOnDialogue, Advance, textVars, modeVars, turnVars, waitVars, loopVars
<1>2. Doing' = Doing /\ Resting' = Resting
  BY <1>1, SeenKept DEF Run, Leaving
<1>3. \A n \in DOMAIN pipes : pipes[n] \in Int
  BY DEF DuetInv, PartyTypes
<1>4. (\A n \in DOMAIN pipes' : pipes'[n] \in Int) /\ scriptWaits' \in {0, 1}
  <2>1. CASE active
    <3>1. -1 \in Int
      OBVIOUS
    <3>2. QED
      BY <1>1, <1>3, <2>1, <3>1, BumpTyped DEF DuetInv, PartyTypes
  <2>2. CASE ~active
    BY <1>1, <1>3, <2>2 DEF DuetInv, PartyTypes
  <2>3. QED
    BY <2>1, <2>2
<1>5. "wait_on_d" \notin {"plain", "wait", "return"}
  OBVIOUS
<1>6. ~InDialogue(interpreter)
  <2>1. InDialogue(interpreter) => "wait_on_d" \in {"plain", "wait", "return"}
    BY <1>1, OnTalk
  <2>2. QED
    BY <1>5, <2>1
<1>7. ScriptSide.routine = <<>>
  <2>1. ScriptSide.routine # <<>> => "wait_on_d" \in {"plain", "wait", "return"}
    BY <1>1, <1>6, OnScript
  <2>2. QED
    BY <1>5, <2>1
<1>8. PartyInv' /\ DialogueSide' = DialogueSide /\ ScriptSide'.pc = ScriptSide.pc + 1
      /\ ScriptSide'.routine = <<>>
  BY <1>1, <1>4, <1>6, <1>7, ScriptReads
<1>9. UNCHANGED TheDuet!talkVars
  BY <1>1, <1>2, <1>8, TalkVarsKept
<1>10. TheDuet!Script("wait_on_d") /\ TheDuet!MayRun
  BY <1>1, <1>6, <1>7, ScriptToken
<1>11. CASE active = FALSE
  <2>1. Doing = "off"
    BY <1>1, <1>11, SeenNow DEF Run
  <2>2. UNCHANGED TheDuet!pipeVars
    BY <1>1, <1>11 DEF TheDuet!pipeVars
  <2>3. TheDuet!Pass
    BY <1>1, <1>7, <1>8, <1>9, <1>10, <2>1, <2>2 DEF TheDuet!Pass
  <2>4. QED
    BY <1>8, <2>3 DEF TheDuet!Next
<1>12. CASE active = TRUE
  <2>1. Doing # "off"
    BY <1>12 DEF Doing
  <2>2. Token = program[ScriptSide.pc]
    BY <1>1, <1>6, <1>7, OnScript
  <2>3. pipes' = TheDuet!Bump(pipes, program[ScriptSide.pc].arg, -1)
    BY <1>1, <1>12, <2>2, SameBump
  <2>4. TheDuet!WaitOn
    BY <1>1, <1>7, <1>8, <1>9, <1>10, <2>1, <2>3 DEF TheDuet!WaitOn
  <2>5. QED
    BY <1>8, <2>4 DEF TheDuet!Next
<1>13. QED
  BY <1>11, <1>12, ActiveType

\* A d or d2 comes when no dialogue is ready, and its dialogue is then the script's.
LEMMA DialogueCommandSide ==
  ASSUME DuetInv, DialogueCommand, KeepsRules
  PROVE  /\ Stopped /\ ~InDialogue(interpreter) /\ ~draining /\ scriptWaits = 0
         /\ ScriptSide.routine = <<>> /\ Token = program[ScriptSide.pc]
         /\ TheDuet!Script("d") \/ TheDuet!Script("d2")
         /\ TheDuet!MayRun /\ program[ScriptSide.pc].cmd \in {"d", "d2"}
         /\ ScriptSide.pc <= Len(program) /\ program[ScriptSide.pc].arg \in Talk
<1>1. PICK c : Run(c) /\ c \in {"d", "d2"}
  BY DEF DialogueCommand
<1>2. ~ready
  BY DEF DialogueCommand, KeepsRules
<1>3. Stopped
  BY <1>1, <1>2, RunSituation DEF Text, Star, Waiting, Running, Loaned, Executing, DuetInv
<1>4. ~InDialogue(interpreter)
  BY <1>3 DEF Stopped, Idle
<1>5. c \notin {"plain", "wait", "return"}
  BY <1>1
<1>6. ScriptSide.routine = <<>>
  BY <1>1, <1>4, <1>5, OnScript
<1>7. /\ scriptWaits = 0 /\ ~draining /\ Token = program[ScriptSide.pc]
      /\ program[ScriptSide.pc].cmd = c /\ ScriptSide.pc <= Len(program)
  BY <1>1, <1>4, <1>6, OnScript
<1>8. TheDuet!Script(c) /\ TheDuet!MayRun
  BY <1>1, <1>4, <1>6, ScriptToken
<1>9. TheDuet!Script("d") \/ TheDuet!Script("d2")
  BY <1>1, <1>8
<1>10. program[ScriptSide.pc].arg \in Talk
  <2>1. program \in Scripts /\ ScriptSide.pc \in Nat \ {0}
    BY DEF DuetInv, PartyTypes
  <2>2. Len(program) \in Nat
    BY <2>1, DialogueAssumption
  <2>3. ScriptSide.pc \in 1 .. Len(program)
    BY <1>7, <2>1, <2>2
  <2>4. QED
    BY <1>1, <1>7, <2>1, <2>3, DialogueAssumption
<1>11. QED
  BY <1>1, <1>3, <1>4, <1>6, <1>7, <1>8, <1>9, <1>10

LEMMA FeedDuet ==
  ASSUME DuetInv, DialogueCommand, KeepsRules, Pretext # <<>>, ~pretold
  PROVE  PartyInv' /\ TheDuet!Feed
<1> DEFINE g == Gosub(interpreter, Pretext, FALSE)
           r == <<"gosub">> \o Pretext \o <<"return">>
           s == Pretext \o <<"return">>
<1>1. /\ Stopped /\ ~InDialogue(interpreter) /\ ~draining /\ scriptWaits = 0
      /\ ScriptSide.routine = <<>> /\ Token = program[ScriptSide.pc]
      /\ TheDuet!Script("d") \/ TheDuet!Script("d2")
      /\ TheDuet!MayRun /\ program[ScriptSide.pc].cmd \in {"d", "d2"}
      /\ ScriptSide.pc <= Len(program) /\ program[ScriptSide.pc].arg \in Talk
  BY DialogueCommandSide
<1>2. active = FALSE /\ ready = FALSE
  BY <1>1, ActiveType DEF DuetInv, ScriptSays, Stopped
<1>3. /\ d2' = (Token.cmd = "d2") /\ active' = TRUE /\ ready' = FALSE /\ pretold' = TRUE
      /\ parts' = program[ScriptSide.pc].arg /\ interpreter' = ReadToken(g)
      /\ UNCHANGED <<program, effects, position, executing, loan, pipeVars, pipes, scriptWaits, events, draining>>
  BY <1>1, <1>2 DEF DialogueCommand, turnVars, pipeVars, waitVars, loopVars
<1>4. r # <<>> /\ Tail(r) = s /\ IsRest(s)
  BY RestOfRoutine, DialogueAssumption
<1>5. Sound(interpreter) /\ Sound(g) /\ ~InDialogue(g)
  BY <1>1, GosubKeeps DEF DuetInv, DialogueInv
<1>6. ScriptOf(g).routine = r /\ ScriptOf(g).pc = ScriptSide.pc /\ TalkOf(g) = DialogueSide
  <2>1. /\ ScriptOf(g).routine = r /\ ScriptOf(g).pc = ScriptOf(interpreter).pc
        /\ TalkOf(g) = TalkOf(interpreter)
    <3>1. Sound(interpreter) /\ ~InDialogue(interpreter)
      BY <1>1, <1>5
    <3>2. QED
      BY <3>1, GosubOfScript
  <2>2. QED
    BY <2>1, Sides
<1> HIDE DEF g, r, s
<1>7. ScriptSide'.routine = s /\ ScriptSide'.pc = ScriptSide.pc /\ DialogueSide' = DialogueSide
  <2>1. ScriptSide' = Read(ScriptOf(g)) /\ DialogueSide' = TalkOf(g)
    BY <1>3, <1>5, ReadSides, Sides
  <2>2. IsContext(ScriptOf(g))
    BY <1>5, SideTypes
  <2>3. QED
    BY <1>4, <1>6, <2>1, <2>2, ReadOf
<1>8. StartSays' /\ ~Leaving' /\ ~Leaving
  BY <1>1, <1>3, NotLeaving DEF Leaving
<1>9. PartyTypes'
  BY <1>1, <1>3, <1>7 DEF DuetInv, PartyTypes
<1>10. ScriptSays'
  BY <1>1, <1>3, <1>4, <1>7 DEF ScriptSays
<1>11. TalkSays'
  BY <1>3, <1>7, <1>8 DEF DuetInv, TalkSays
<1>12. Doing = "off" /\ Doing' = "fed" /\ Resting = FALSE /\ Resting' = FALSE
  <2>1. Doing = "off" /\ Resting = FALSE
    BY <1>1, <1>2, <1>8, DoingNow
  <2>2. Doing' = "fed"
    BY <1>3, SeenNext
  <2>3. loan' = FALSE /\ events' = <<>>
    BY <1>1, <1>3 DEF Stopped, Idle
  <2>4. Resting' = FALSE
    BY <1>3, <2>3, SeenNext
  <2>5. QED
    BY <2>1, <2>2, <2>4
<1>13. (~d2)' = (program[ScriptSide.pc].cmd = "d")
  BY <1>1, <1>3
<1>14. Rest(ScriptSide'.routine) = s
  BY <1>4, <1>7, RestIs
<1>15. UNCHANGED TheDuet!pipeVars
  BY <1>3, PipeVarsKept
<1>16. TheDuet!Feed
  BY <1>1, <1>3, <1>7, <1>12, <1>13, <1>14, <1>15 DEF TheDuet!Feed, Resting, s
<1>17. QED
  BY <1>8, <1>9, <1>10, <1>11, <1>16 DEF PartyInv

LEMMA StartDuet ==
  ASSUME DuetInv, DialogueCommand, KeepsRules, ~(Pretext # <<>> /\ ~pretold)
  PROVE  PartyInv' /\ TheDuet!Start
<1>1. /\ Stopped /\ ~InDialogue(interpreter) /\ ~draining /\ scriptWaits = 0
      /\ ScriptSide.routine = <<>> /\ Token = program[ScriptSide.pc]
      /\ TheDuet!Script("d") \/ TheDuet!Script("d2")
      /\ TheDuet!MayRun /\ program[ScriptSide.pc].cmd \in {"d", "d2"}
      /\ ScriptSide.pc <= Len(program) /\ program[ScriptSide.pc].arg \in Talk
  BY DialogueCommandSide
<1>2. ready = FALSE /\ executing = FALSE /\ loan = FALSE /\ events = <<>>
  BY <1>1 DEF Stopped, Idle
<1>3. /\ d2' = (Token.cmd = "d2") /\ active' = TRUE /\ ready' = TRUE
      /\ parts' = IF active THEN parts ELSE Token.arg
      /\ interpreter' = ReadToken(interpreter) /\ events' = Append(events, "first")
      /\ UNCHANGED <<program, effects, position, pretold, executing, loan, pipeVars, pipes, scriptWaits, draining>>
  BY DEF DialogueCommand, Advance, turnVars, pipeVars, waitVars, loopVars
<1>4. parts' = program[ScriptSide.pc].arg
  BY <1>1, <1>2, <1>3, ActiveType DEF DuetInv, ScriptSays
<1>5. Doing = IF Pretext = <<>> THEN "off" ELSE "fed"
  <2>1. Pretext = <<>> => active = FALSE
    BY <1>2, ActiveType DEF DuetInv, ScriptSays
  <2>2. Pretext # <<>> => active = TRUE
    BY ActiveType DEF DuetInv, ScriptSays
  <2>3. Doing = IF active THEN "fed" ELSE "off"
    BY <1>1, DoingNow DEF Leaving
  <2>4. QED
    BY <2>1, <2>2, <2>3
<1>6. events' = <<"first">>
  BY <1>2, <1>3
<1>7. Doing' = "nothing" /\ Resting' = FALSE /\ Resting = FALSE
  <2>1. Resting = FALSE
    BY <1>1, DoingNow
  <2>2. Doing' = "nothing"
    BY <1>2, <1>3, <1>6, SeenNext DEF Turning
  <2>3. Resting' = FALSE
    BY <1>2, <1>3, <1>6, SeenNext DEF Turning
  <2>4. QED
    BY <2>1, <2>2, <2>3
<1>8. Sound(interpreter)
  BY DEF DuetInv, DialogueInv
<1>9. ScriptSide'.pc = ScriptSide.pc + 1 /\ ScriptSide'.routine = <<>> /\ DialogueSide' = DialogueSide
  <2>1. ScriptSide' = Read(ScriptSide) /\ DialogueSide' = DialogueSide /\ IsContext(ScriptSide)
    BY <1>1, <1>3, <1>8, ReadSides, Sides, SideTypes
  <2>2. QED
    BY <1>1, <2>1, ReadOf
<1>10. StartSays' /\ ~Leaving' /\ ~Leaving
  BY <1>1, <1>3, NotLeaving DEF Leaving
<1>11. PartyTypes'
  <2>1. ScriptSide'.pc \in Nat \ {0}
    BY <1>9 DEF DuetInv, PartyTypes
  <2>2. QED
    BY <1>1, <1>3, <1>4, <2>1 DEF DuetInv, PartyTypes
<1>12. ScriptSays'
  BY <1>3, <1>9 DEF ScriptSays
<1>13. TalkSays'
  BY <1>2, <1>3, <1>9 DEF DuetInv, TalkSays
<1>14. (~d2)' = (program[ScriptSide.pc].cmd = "d")
  BY <1>1, <1>3
<1>15. UNCHANGED TheDuet!pipeVars
  BY <1>3, PipeVarsKept
<1>16. TheDuet!Start
  BY <1>1, <1>3, <1>4, <1>5, <1>7, <1>9, <1>14, <1>15 DEF TheDuet!Start, Resting
<1>17. QED
  BY <1>10, <1>11, <1>12, <1>13, <1>16 DEF PartyInv

LEMMA DialogueCommandDuet ==
  ASSUME DuetInv, DialogueCommand, KeepsRules
  PROVE  PartyInv' /\ TheDuet!Next
BY FeedDuet, StartDuet DEF TheDuet!Next

\* A d_continue ends a [*], or will let the next one pass.
LEMMA ContinueSeen ==
  ASSUME DuetInv, DialogueContinue, KeepsRules
  PROVE  /\ active = TRUE /\ ~InDialogue(interpreter)
         /\ Resting' = Resting /\ Doing' = IF Doing = "star" THEN "nothing" ELSE Doing
         /\ events' = events \/ executing = FALSE
<1>1. active = TRUE
  BY ActiveType DEF DialogueContinue, KeepsRules
<1>2. /\ Run("d_continue") /\ UNCHANGED <<active, ready, executing, loan, inlineWaits>>
      /\ passes' = passes + 1 /\ events' = IF Suspended THEN Append(events, "next") ELSE events
  BY <1>1 DEF DialogueContinue, modeVars, turnVars, waitVars
<1>3. ~InDialogue(interpreter)
  <2>1. "d_continue" \notin {"plain", "wait", "return"}
    OBVIOUS
  <2>2. InDialogue(interpreter) => "d_continue" \in {"plain", "wait", "return"}
    BY <1>2, OnTalk
  <2>3. QED
    BY <2>1, <2>2
<1>4. Stopped \/ Text \/ Star \/ Waiting \/ Loaned
  BY <1>2, <1>3, OnScript
<1>5. CASE Star
  <2>1. /\ ready = TRUE /\ executing = FALSE /\ loan = FALSE /\ events = <<>> /\ passes = -1
    BY <1>5 DEF Star, Idle, Held
  <2>2. events' = <<"next">>
    BY <1>2, <2>1 DEF Suspended
  <2>3. Doing' = "nothing" /\ Resting' = FALSE
    BY <1>1, <1>2, <2>1, <2>2, SeenNext DEF Turning
  <2>4. Doing = "star" /\ Resting = FALSE
    BY <1>5, DoingNow
  <2>5. QED
    BY <1>1, <1>3, <2>1, <2>3, <2>4
<1>6. CASE ~Star
  <2>1. Free
    BY <1>4, <1>6 DEF Stopped, Text, Waiting, Loaned, Executing
  <2>2. passes' \in Int /\ passes' >= 0 /\ events' = events
    BY <1>2, <2>1 DEF Free, Suspended
  <2>3. Resting' = Resting
    BY <1>2, <2>2 DEF Resting, LoanAsked
  <2>4. CASE Stopped
    <3>1. Doing' = "fed"
      BY <1>1, <1>2, <2>4, SeenNext DEF Stopped
    <3>2. Doing = "fed"
      BY <1>1, <2>4, DoingNow
    <3>3. QED
      BY <1>1, <1>3, <2>2, <2>3, <3>1, <3>2
  <2>5. CASE Text
    <3>1. Doing' = "text"
      BY <1>1, <1>2, <2>2, <2>5, SeenNext DEF Text, Idle, Quiet
    <3>2. Doing = "text"
      BY <2>5, DoingNow
    <3>3. QED
      BY <1>1, <1>3, <2>2, <2>3, <3>1, <3>2
  <2>6. CASE Waiting
    <3>1. Doing' = "wait"
      BY <1>1, <1>2, <2>2, <2>6, SeenNext DEF Waiting, Quiet
    <3>2. Doing = "wait"
      BY <2>6, DoingNow
    <3>3. QED
      BY <1>1, <1>3, <2>2, <2>3, <3>1, <3>2
  <2>7. CASE Loaned
    <3>1. Doing' = "routine"
      BY <1>1, <1>2, <2>2, <2>7, SeenNext DEF Loaned, Executing, Quiet
    <3>2. Doing = "routine"
      BY <2>7, DoingNow
    <3>3. QED
      BY <1>1, <1>3, <2>2, <2>3, <3>1, <3>2
  <2>8. QED
    BY <1>4, <1>6, <2>4, <2>5, <2>6, <2>7
<1>7. QED
  BY <1>5, <1>6

LEMMA DialogueContinueDuet ==
  ASSUME DuetInv, DialogueContinue, KeepsRules
  PROVE  PartyInv' /\ TheDuet!Next
<1>1. /\ active = TRUE /\ ~InDialogue(interpreter) /\ Resting' = Resting
      /\ Doing' = IF Doing = "star" THEN "nothing" ELSE Doing
      /\ events' = events \/ executing = FALSE
  BY ContinueSeen
<1>2. /\ Run("d_continue") /\ interpreter' = ReadToken(interpreter) /\ passes' = passes + 1
      /\ UNCHANGED <<program, effects, parts, position, active, ready, pretold, d2>>
      /\ UNCHANGED <<executing, pipes, pipe, scriptWaits, draining>>
  BY <1>1 DEF DialogueContinue, Advance, textVars, modeVars, turnVars, waitVars, loopVars
<1>3. (\A n \in DOMAIN pipes' : pipes'[n] \in Int) /\ scriptWaits' \in {0, 1}
  BY <1>2 DEF DuetInv, PartyTypes
<1>4. "d_continue" \notin {"plain", "wait", "return", "d", "d2"}
  OBVIOUS
<1>5. ScriptSide.routine = <<>>
  <2>1. ScriptSide.routine # <<>> => "d_continue" \in {"plain", "wait", "return"}
    BY <1>1, <1>2, OnScript
  <2>2. QED
    BY <1>4, <2>1
<1>6. PartyInv' /\ DialogueSide' = DialogueSide /\ ScriptSide'.pc = ScriptSide.pc + 1
      /\ ScriptSide'.routine = <<>>
  BY <1>1, <1>2, <1>3, <1>4, <1>5, ScriptReads
<1>7. TheDuet!Script("d_continue") /\ TheDuet!MayRun
  BY <1>1, <1>2, <1>5, ScriptToken
<1>8. Doing # "off"
  BY <1>1 DEF Doing
<1>9. TheDuet!Continue
  BY <1>1, <1>2, <1>5, <1>6, <1>7, <1>8 DEF TheDuet!Continue, Resting
<1>10. QED
  BY <1>6, <1>9 DEF TheDuet!Next

LEMMA ScriptCommandDuet ==
  ASSUME DuetInv, ScriptCommand, KeepsRules
  PROVE  PartyInv' /\ [TheDuet!Next]_(TheDuet!duetVars)
BY PlainDuet, EndOfLineDuet, WaitDuet, ReturnDuet, DialogueCommandDuet, WaitOnDialogueDuet,
   DialogueContinueDuet
DEF ScriptCommand

-----------------------------------------------------------------------------
(* Every event is a step of Duet, or nothing it sees. *)

LEMMA Stutter ==
  ASSUME ScriptSide' = ScriptSide, DialogueSide' = DialogueSide,
         UNCHANGED <<program, effects, parts, position, d2, pretold, scriptWaits, pipeVars>>,
         Doing' = Doing, Resting' = Resting
  PROVE  UNCHANGED TheDuet!duetVars
BY TalkVarsKept, ScriptVarsKept, PipeVarsKept, NothingSeen

LEMMA TakeControlDuet == ASSUME DuetInv, TakeControl PROVE PartyInv' /\ UNCHANGED TheDuet!duetVars
<1>1. /\ ~draining /\ ret' = "noRead"
      /\ UNCHANGED <<program, interpreter, effects, parts, position, active, ready, pretold, d2>>
      /\ UNCHANGED <<executing, loan, pipeVars, pipes, passes, inlineWaits, scriptWaits, events>>
  BY DEF TakeControl, scriptVars, textVars, modeVars, turnVars, pipeVars, waitVars
<1>2. Doing' = Doing /\ Resting' = Resting
  BY <1>1, SeenKept DEF Leaving
<1>3. ScriptSide' = ScriptSide /\ DialogueSide' = DialogueSide
  BY <1>1, Sides
<1>4. ~Leaving /\ ~Leaving' /\ StartSays'
  BY <1>1, NotLeaving DEF Leaving
<1>5. PartyInv'
  BY <1>1, <1>3, <1>4 DEF DuetInv, PartyInv, PartyTypes, ScriptSays, TalkSays
<1>6. QED
  BY <1>1, <1>2, <1>3, <1>5, Stutter

LEMMA FirstEventDuet == ASSUME DuetInv, FirstEvent PROVE PartyInv' /\ UNCHANGED TheDuet!duetVars
<1>1. First /\ ready = TRUE /\ executing = FALSE /\ loan = FALSE /\ events = <<"first">>
  <2>1. First
    BY EventSituation DEF FirstEvent, DuetInv
  <2>2. QED
    BY <2>1 DEF First, Idle
<1>2. /\ Event("first") /\ draining' = draining /\ ret' = ret /\ events' = <<"next">> \o Tail(events)
      /\ UNCHANGED <<program, interpreter, effects, parts, position, active, ready, pretold, d2>>
      /\ UNCHANGED <<executing, loan, pipeVars, pipes, passes, inlineWaits, scriptWaits>>
  BY DEF FirstEvent, scriptVars, modeVars, turnVars, pipeVars, waitVars, loopVars
<1>3. events' = <<"next">>
  BY <1>1, <1>2
<1>4. Doing' = "nothing" /\ Resting' = FALSE
  BY <1>1, <1>2, <1>3, SeenNext, ActiveType DEF Turning
<1>5. Doing = "nothing" /\ Resting = FALSE
  BY <1>1, DoingNow
<1>6. ScriptSide' = ScriptSide /\ DialogueSide' = DialogueSide
  BY <1>2, Sides
<1>7. ~Leaving /\ ~Leaving' /\ StartSays'
  BY <1>2, EventKeeps
<1>8. PartyInv'
  BY <1>1, <1>2, <1>6, <1>7 DEF DuetInv, PartyInv, PartyTypes, ScriptSays, TalkSays
<1>9. QED
  BY <1>2, <1>4, <1>5, <1>6, <1>8, Stutter

LEMMA StartLoanExecutionDuet ==
  ASSUME DuetInv, StartLoanExecution PROVE PartyInv' /\ UNCHANGED TheDuet!duetVars
<1>1. /\ Asking /\ ready = TRUE /\ executing = TRUE /\ events = <<"loanStart">>
      /\ InDialogue(interpreter)
  <2>1. Asking
    BY EventSituation DEF StartLoanExecution, DuetInv
  <2>2. QED
    BY <2>1 DEF Asking, Executing
<1>2. /\ Event("loanStart") /\ draining' = draining /\ ret' = ret /\ events' = Tail(events)
      /\ loan' = TRUE /\ interpreter' = UseMainScript(interpreter)
      /\ UNCHANGED <<program, effects, parts, position, active, ready, pretold, d2>>
      /\ UNCHANGED <<executing, pipeVars, pipes, passes, inlineWaits, scriptWaits>>
  BY DEF StartLoanExecution, textVars, modeVars, pipeVars, waitVars, loopVars
<1>3. events' = <<>>
  BY <1>1, <1>2, Heads
<1>4. Doing' = "routine" /\ Resting' = TRUE
  BY <1>1, <1>2, <1>3, SeenNext, ActiveType DEF Quiet
<1>5. Doing = "routine" /\ Resting = TRUE
  BY <1>1, DoingNow
<1>6. ScriptSide' = ScriptSide /\ DialogueSide' = DialogueSide
  BY <1>1, <1>2, Sides, UseMainScriptSides DEF DuetInv, DialogueInv
<1>7. ~Leaving /\ ~Leaving' /\ StartSays'
  BY <1>2, EventKeeps
<1>8. events # <<"commandEnd">> /\ events' # <<"commandEnd">>
  BY <1>1, <1>3
<1>9. TalkSays'
  BY <1>1, <1>2, <1>6, <1>7, <1>8 DEF DuetInv, TalkSays
<1>10. PartyInv'
  BY <1>2, <1>6, <1>7, <1>9 DEF DuetInv, PartyInv, PartyTypes, ScriptSays
<1>11. QED
  BY <1>2, <1>4, <1>5, <1>6, <1>10, Stutter

LEMMA EndLoanExecutionDuet == ASSUME DuetInv, EndLoanExecution PROVE PartyInv' /\ TheDuet!RestOver
<1>1. /\ LoanOver /\ ready = TRUE /\ executing = TRUE /\ events = <<"loanEnd">>
      /\ ~InDialogue(interpreter)
  <2>1. LoanOver
    BY EventSituation DEF EndLoanExecution, DuetInv
  <2>2. QED
    BY <2>1 DEF LoanOver, Executing
<1>2. /\ Event("loanEnd") /\ draining' = draining /\ ret' = ret /\ events' = Tail(events)
      /\ loan' = FALSE /\ interpreter' = UseDialogue(interpreter)
      /\ UNCHANGED <<program, effects, parts, position, active, ready, pretold, d2>>
      /\ UNCHANGED <<executing, pipeVars, pipes, passes, inlineWaits, scriptWaits>>
  BY DEF EndLoanExecution, textVars, modeVars, pipeVars, waitVars, loopVars
<1>3. events' = <<>>
  BY <1>1, <1>2, Heads
<1>4. Doing' = "routine" /\ Resting' = FALSE
  BY <1>1, <1>2, <1>3, SeenNext, ActiveType DEF Quiet
<1>5. Doing = "routine" /\ Resting = TRUE
  BY <1>1, DoingNow
<1>6. events # <<"commandEnd">> /\ events' # <<"commandEnd">>
  BY <1>1, <1>3
<1>7. interpreter.swaps # 0
  <2>1. DialogueSide.reports = TRUE
    BY <1>1, <1>6 DEF DuetInv, TalkSays
  <2>2. QED
    BY <2>1 DEF DialogueSide, Nobody
<1>8. ScriptSide' = ScriptSide /\ DialogueSide' = DialogueSide
  BY <1>1, <1>2, <1>7, Sides, UseDialogueSides DEF DuetInv, DialogueInv
<1>9. ~Leaving /\ ~Leaving' /\ StartSays'
  BY <1>2, EventKeeps
<1>10. TalkSays'
  BY <1>1, <1>2, <1>6, <1>8, <1>9 DEF DuetInv, TalkSays
<1>11. PartyInv'
  BY <1>2, <1>8, <1>9, <1>10 DEF DuetInv, PartyInv, PartyTypes, ScriptSays
<1>12. UNCHANGED TheDuet!scriptVars /\ UNCHANGED TheDuet!pipeVars
  BY <1>2, <1>8, ScriptVarsKept, PipeVarsKept
<1>13. TheDuet!RestOver
  BY <1>2, <1>4, <1>5, <1>8, <1>12 DEF TheDuet!RestOver, Resting
<1>14. QED
  BY <1>11, <1>13

LEMMA InlineCommandEndDuet == ASSUME DuetInv, InlineCommandEnd PROVE PartyInv' /\ TheDuet!Over
<1>1. /\ Returned /\ ready = TRUE /\ executing = TRUE /\ events = <<"commandEnd">> /\ loan = FALSE
      /\ InDialogue(interpreter)
  <2>1. Returned
    BY EventSituation DEF InlineCommandEnd, DuetInv
  <2>2. QED
    BY <2>1 DEF Returned, Executing
<1>2. /\ Event("commandEnd") /\ draining' = draining /\ ret' = ret
      /\ events' = Append(Tail(events), "next")
      /\ executing' = FALSE /\ interpreter' = DisposeDialogue(interpreter, FALSE)
      /\ UNCHANGED <<program, effects, parts, position, active, ready, pretold, d2>>
      /\ UNCHANGED <<loan, pipeVars, pipes, passes, inlineWaits, scriptWaits>>
  BY DEF InlineCommandEnd, textVars, modeVars, pipeVars, waitVars, loopVars
<1>3. events' = <<"next">>
  BY <1>1, <1>2
<1>4. Doing' = "nothing" /\ Resting' = FALSE
  BY <1>1, <1>2, <1>3, SeenNext, ActiveType DEF Turning
<1>5. Doing = "routine" /\ Resting = FALSE
  BY <1>1, DoingNow
<1>6. DialogueSide.routine = <<>>
  BY <1>1 DEF DuetInv, TalkSays
<1>7. ScriptSide' = ScriptSide /\ DialogueSide'.routine = <<>>
  <2>1. ScriptSide' = ScriptSide /\ DialogueSide' = Nobody
    BY <1>1, <1>2, Sides, DisposeSides DEF DuetInv, DialogueInv
  <2>2. QED
    BY <2>1 DEF Nobody
<1>8. ~Leaving /\ ~Leaving' /\ StartSays'
  BY <1>2, EventKeeps
<1>9. TalkSays'
  BY <1>2, <1>7 DEF TalkSays
<1>10. PartyInv'
  BY <1>2, <1>7, <1>8, <1>9 DEF DuetInv, PartyInv, PartyTypes, ScriptSays
<1>11. UNCHANGED TheDuet!scriptVars /\ UNCHANGED TheDuet!pipeVars
  BY <1>2, <1>7, ScriptVarsKept, PipeVarsKept
<1>12. Rest(DialogueSide.routine) = <<>> /\ Rest(DialogueSide'.routine) = <<>>
  BY <1>6, <1>7, RestIs
<1>13. TheDuet!Over
  BY <1>2, <1>4, <1>5, <1>11, <1>12 DEF TheDuet!Over, Resting
<1>14. QED
  BY <1>10, <1>13

-----------------------------------------------------------------------------
(* Taking a part. *)

\* What every part has in common.
LEMMA TakeParty ==
  ASSUME DuetInv, NEW kind, Take(kind), active' = active, draining' = draining,
         UNCHANGED <<parts, d2, pretold, ready>>
  PROVE  /\ Turn /\ active = TRUE /\ active' = TRUE /\ ready = TRUE /\ ready' = TRUE
         /\ executing = FALSE /\ loan = FALSE /\ inlineWaits = 0 /\ events = <<"next">>
         /\ Free /\ ~InDialogue(interpreter) /\ Sound(interpreter)
         /\ draining /\ Doing = "nothing" /\ Resting = FALSE
         /\ ScriptSide.routine = <<>> /\ DialogueSide.routine = <<>>
         /\ TheDuet!Begin(kind) /\ position' \in Nat /\ ~Leaving
<1>1. Turn /\ active = TRUE /\ ready = TRUE
  BY TakeSituation DEF DuetInv
<1>2. /\ executing = FALSE /\ loan = FALSE /\ inlineWaits = 0 /\ events = <<"next">>
      /\ Free /\ ~InDialogue(interpreter)
  BY <1>1 DEF Turn, Idle
<1>3. Sound(interpreter)
  BY DEF DuetInv, DialogueInv
<1>4. draining
  BY DEF Take, Event
<1>5. Doing = "nothing" /\ Resting = FALSE
  BY <1>1, DoingNow
<1>6. ScriptSide.routine = <<>> /\ DialogueSide.routine = <<>>
  BY <1>1, <1>2 DEF DuetInv, ScriptSays, TalkSays
<1>7. position' = position + 1 /\ position < Len(parts) /\ Part.kind = kind
  BY DEF Take
<1>8. TheDuet!Begin(kind)
  BY <1>5, <1>7 DEF TheDuet!Begin, Part
<1>9. position' \in Nat
  BY <1>7 DEF DuetInv, PartyTypes
<1>10. events # <<>>
  BY <1>2
<1>11. ~Leaving
  BY <1>10 DEF DuetInv, StartSays
<1>12. QED
  BY <1>1, <1>2, <1>3, <1>4, <1>5, <1>6, <1>8, <1>9, <1>11

LEMMA TakeTextDuet == ASSUME DuetInv, TakeText PROVE PartyInv' /\ TheDuet!Text
<1>1. /\ Take("text") /\ ret' = "noRead" /\ draining' = draining
      /\ UNCHANGED <<program, interpreter, effects, parts, active, ready, pretold, d2>>
      /\ UNCHANGED <<executing, loan, pipeVars, pipes, passes, inlineWaits, scriptWaits>>
      /\ GoOn(TRUE) \/ GoOn(FALSE)
  BY DEF TakeText, scriptVars, modeVars, turnVars, pipeVars, waitVars
<1>2. /\ Turn /\ active' = TRUE /\ ready' = TRUE /\ executing = FALSE /\ loan = FALSE
      /\ inlineWaits = 0 /\ Free /\ Resting = FALSE /\ TheDuet!Begin("text")
      /\ position' \in Nat /\ ~Leaving
  BY <1>1, TakeParty
<1>3. events' = <<"next">> \/ events' = <<>>
  BY <1>1, <1>2, GoOnEvents
<1>4. passes' \in Int /\ passes' >= 0
  BY <1>1, <1>2 DEF Free
<1>5. Doing' \in {"text", "nothing"}
  BY <1>1, <1>2, <1>3, <1>4, SeenNext DEF Turning, Quiet
<1>6. Resting' = FALSE
  BY <1>1, <1>2, <1>3, SeenNext DEF Turning
<1>7. ScriptSide' = ScriptSide /\ DialogueSide' = DialogueSide
  BY <1>1, Sides
<1>8. ~Leaving' /\ StartSays'
  BY <1>1, NotLeaving
<1>9. PartyInv'
  BY <1>1, <1>2, <1>7, <1>8 DEF DuetInv, PartyInv, PartyTypes, ScriptSays, TalkSays
<1>10. UNCHANGED TheDuet!scriptVars /\ UNCHANGED TheDuet!pipeVars
  BY <1>1, <1>7, ScriptVarsKept, PipeVarsKept
<1>11. TheDuet!Text
  BY <1>1, <1>2, <1>5, <1>6, <1>7, <1>10 DEF TheDuet!Text, Resting
<1>12. QED
  BY <1>9, <1>11

LEMMA TakeBuiltInDuet == ASSUME DuetInv, TakeBuiltIn PROVE PartyInv' /\ TheDuet!BuiltIn
<1>1. /\ Take("builtin") /\ ret' = "noRead" /\ draining' = draining /\ executing' = FALSE
      /\ UNCHANGED <<program, effects, parts, active, ready, pretold, d2>>
      /\ UNCHANGED <<loan, pipeVars, pipes, passes, scriptWaits>>
      /\ \/ /\ GoOn(TRUE) /\ inlineWaits' = inlineWaits
            /\ interpreter' = DisposeDialogue(UseDialogue(interpreter), FALSE)
         \/ /\ GoOn(FALSE) /\ inlineWaits' = inlineWaits + 1
            /\ interpreter' = UseMainScript(UseDialogue(interpreter))
  BY DEF TakeBuiltIn, modeVars, pipeVars
<1>2. /\ Turn /\ active' = TRUE /\ ready' = TRUE /\ loan = FALSE /\ inlineWaits = 0
      /\ ~InDialogue(interpreter) /\ Sound(interpreter)
      /\ Resting = FALSE /\ TheDuet!Begin("builtin") /\ position' \in Nat /\ ~Leaving
      /\ ScriptSide.routine = <<>> /\ DialogueSide.routine = <<>>
  BY <1>1, TakeParty
<1> DEFINE u == UseDialogue(interpreter)
<1>3. Sound(u) /\ InDialogue(u)
  BY <1>2, UseDialogueKeeps
<1>4. ScriptOf(u) = ScriptSide /\ TalkOf(u).routine = <<>>
  <2>1. /\ ScriptOf(u) = ScriptOf(interpreter)
        /\ TalkOf(u) = IF interpreter.swaps = 0 THEN ScriptOf(interpreter) ELSE TalkOf(interpreter)
    BY <1>2, UseDialogueSides
  <2> HIDE DEF u
  <2>2. QED
    BY <1>2, <2>1, Sides
<1> HIDE DEF u
<1>7. /\ ScriptSide' = ScriptSide /\ DialogueSide'.routine = <<>>
      /\ Doing' \in {"wait", "nothing"} /\ Resting' = FALSE
  <2>1. CASE GoOn(TRUE) /\ interpreter' = DisposeDialogue(u, FALSE)
    <3>1. ScriptOf(interpreter') = ScriptOf(u) /\ TalkOf(interpreter') = Nobody
      BY <1>3, <2>1, DisposeSides
    <3>2. ScriptSide' = ScriptSide /\ DialogueSide'.routine = <<>>
      BY <1>4, <3>1, Sides DEF Nobody
    <3>3. events' = <<"next">>
      BY <1>2, <2>1, GoOnEvents
    <3>4. Doing' = "nothing" /\ Resting' = FALSE
      BY <1>1, <1>2, <3>3, SeenNext DEF Turning
    <3>5. QED
      BY <3>2, <3>4
  <2>2. CASE GoOn(FALSE) /\ interpreter' = UseMainScript(u) /\ inlineWaits' = inlineWaits + 1
    <3>1. ScriptOf(interpreter') = ScriptOf(u) /\ TalkOf(interpreter') = TalkOf(u)
      BY <1>3, <2>2, UseMainScriptSides
    <3>2. ScriptSide' = ScriptSide /\ DialogueSide'.routine = <<>>
      BY <1>4, <3>1, Sides
    <3>3. events' = <<>> /\ inlineWaits' = 1
      <4>1. events' = <<>>
        BY <1>2, <2>2, GoOnEvents
      <4>2. QED
        BY <1>2, <2>2, <4>1
    <3>4. Doing' = "wait" /\ Resting' = FALSE
      BY <1>1, <1>2, <3>3, SeenNext DEF Quiet
    <3>5. QED
      BY <3>2, <3>4
  <2>3. QED
    BY <1>1, <2>1, <2>2 DEF u
<1>8. ~Leaving' /\ StartSays'
  BY <1>1, NotLeaving
<1>9. PartyInv'
  BY <1>1, <1>2, <1>7, <1>8 DEF DuetInv, PartyInv, PartyTypes, ScriptSays, TalkSays
<1>10. UNCHANGED TheDuet!scriptVars /\ UNCHANGED TheDuet!pipeVars
  BY <1>1, <1>7, ScriptVarsKept, PipeVarsKept
<1>11. TheDuet!BuiltIn
  BY <1>1, <1>2, <1>7, <1>10 DEF TheDuet!BuiltIn, Resting
<1>12. QED
  BY <1>9, <1>11

LEMMA TakeRoutineDuet == ASSUME DuetInv, TakeRoutine PROVE PartyInv' /\ TheDuet!Routine
<1>1. /\ Take("routine") /\ ret' = "continue" /\ draining' = draining /\ executing' = TRUE
      /\ GoOn(FALSE) /\ interpreter' = Gosub(UseDialogue(interpreter), Part.body, TRUE)
      /\ UNCHANGED <<program, effects, parts, active, ready, pretold, d2>>
      /\ UNCHANGED <<loan, pipeVars, pipes, passes, inlineWaits, scriptWaits>>
  BY DEF TakeRoutine, modeVars, pipeVars, waitVars
<1>2. /\ Turn /\ active' = TRUE /\ ready' = TRUE /\ loan = FALSE
      /\ ~InDialogue(interpreter) /\ Sound(interpreter) /\ draining
      /\ Resting = FALSE /\ TheDuet!Begin("routine") /\ position' \in Nat /\ ~Leaving
      /\ ScriptSide.routine = <<>>
  BY <1>1, TakeParty
<1> DEFINE u == UseDialogue(interpreter)
           b == Part.body
           r == <<"gosub">> \o b \o <<"return">>
           s == b \o <<"return">>
           g == Gosub(u, b, TRUE)
<1>3. b \in Routines
  <2>1. parts \in Talk /\ position \in Nat /\ position < Len(parts)
    BY <1>1 DEF DuetInv, PartyTypes, Take
  <2>2. position + 1 \in 1 .. Len(parts)
    BY <2>1 DEF Talk
  <2>3. parts[position + 1] \in [kind : {"text", "builtin", "routine", "star", "hash"}, body : Routines]
    <3>1. \A S : \A q \in Seq(S) : \A n \in 1 .. Len(q) : q[n] \in S
      OBVIOUS
    <3>2. QED
      BY <2>1, <2>2, <3>1 DEF Talk
  <2>4. QED
    BY <2>3 DEF Part
<1>4. r # <<>> /\ Head(r) = "gosub" /\ Tail(r) = s /\ IsRest(s)
  <2> HIDE DEF b
  <2>1. QED
    BY <1>3, RestOfRoutine
<1>5. Sound(u) /\ InDialogue(u)
  BY <1>2, UseDialogueKeeps
<1>6. ScriptOf(u) = ScriptSide
  BY <1>2, UseDialogueSides, Sides
<1>7. ScriptOf(g) = ScriptOf(u) /\ TalkOf(g).routine = r /\ TalkOf(g).reports = TRUE
  <2> HIDE DEF u, b
  <2>1. /\ ScriptOf(Gosub(u, b, TRUE)) = ScriptOf(u)
        /\ TalkOf(Gosub(u, b, TRUE)).routine = <<"gosub">> \o b \o <<"return">>
        /\ TalkOf(Gosub(u, b, TRUE)).reports = TRUE
    <3>1. Sound(u) /\ InDialogue(u)
      BY <1>5
    <3>2. QED
      BY <3>1, GosubOfTalk
  <2>2. QED
    BY <2>1
<1>8. ScriptSide' = ScriptSide /\ DialogueSide'.routine = r /\ DialogueSide'.reports = TRUE
  BY <1>1, <1>6, <1>7, Sides
<1>9. events' = <<>>
  BY <1>1, <1>2, GoOnEvents
<1>10. Doing' = "routine" /\ Resting' = FALSE
  BY <1>1, <1>2, <1>9, SeenNext DEF Quiet
<1> HIDE DEF u, b, r, g, s
<1>11. Leaving' /\ StartSays'
  BY <1>1, <1>2, <1>9 DEF Leaving, StartSays
<1>12. TalkSays'
  <2>1. events' # <<"commandEnd">>
    BY <1>9
  <2>2. QED
    BY <1>1, <1>4, <1>8, <1>11, <2>1 DEF TalkSays
<1>13. PartyInv'
  BY <1>1, <1>2, <1>8, <1>11, <1>12 DEF DuetInv, PartyInv, PartyTypes, ScriptSays
<1>14. UNCHANGED TheDuet!scriptVars /\ UNCHANGED TheDuet!pipeVars
  BY <1>1, <1>8, ScriptVarsKept, PipeVarsKept
<1>15. Rest(DialogueSide'.routine) = parts[position + 1].body \o <<"return">>
  BY <1>4, <1>8, RestIs DEF s, b, Part
<1>16. TheDuet!Routine
  BY <1>1, <1>2, <1>10, <1>14, <1>15 DEF TheDuet!Routine, Resting
<1>17. QED
  BY <1>13, <1>16

LEMMA TakeStarDuet == ASSUME DuetInv, TakeStar, KeepsRules PROVE PartyInv' /\ TheDuet!Star
<1>1. /\ Take("star") /\ ret' = "noRead" /\ draining' = draining /\ passes' = passes - 1
      /\ GoOn(passes > 0)
      /\ UNCHANGED <<program, effects, parts, active, ready, pretold, d2>>
      /\ UNCHANGED <<executing, loan, pipes, pipe, inlineWaits, scriptWaits>>
  BY DEF TakeStar, modeVars, turnVars, waitVars
<1>2. /\ Turn /\ active' = TRUE /\ ready' = TRUE /\ executing = FALSE /\ loan = FALSE
      /\ inlineWaits = 0 /\ Free /\ Resting = FALSE /\ TheDuet!Begin("star")
      /\ position' \in Nat /\ ~Leaving
  BY <1>1, TakeParty
<1>3. d2 /\ interpreter' = interpreter
  BY <1>1 DEF KeepsRules, TakeStar, Take
<1>6. Resting' = FALSE /\ Doing' = IF passes > 0 THEN "nothing" ELSE "star"
  <2>1. CASE passes > 0
    <3>1. events' = <<"next">>
      BY <1>1, <1>2, <2>1 DEF Turn, GoOn
    <3>2. Doing' = "nothing" /\ Resting' = FALSE
      BY <1>1, <1>2, <3>1, SeenNext DEF Turning
    <3>3. QED
      BY <2>1, <3>2
  <2>2. CASE ~(passes > 0)
    <3>1. events' = <<>>
      BY <1>1, <1>2, <2>2 DEF Turn, GoOn
    <3>2. passes' = -1
      BY <1>1, <1>2, <2>2 DEF Free
    <3>3. Doing' = "star" /\ Resting' = FALSE
      BY <1>1, <1>2, <3>1, <3>2, SeenNext DEF Quiet
    <3>4. QED
      BY <2>2, <3>3
  <2>3. QED
    BY <2>1, <2>2
<1>7. ScriptSide' = ScriptSide /\ DialogueSide' = DialogueSide
  BY <1>3, Sides
<1>8. ~Leaving' /\ StartSays'
  BY <1>1, NotLeaving
<1>9. PartyInv'
  BY <1>1, <1>2, <1>7, <1>8 DEF DuetInv, PartyInv, PartyTypes, ScriptSays, TalkSays
<1>10. UNCHANGED TheDuet!scriptVars
  BY <1>1, <1>7, ScriptVarsKept
<1>11. TheDuet!Star
  BY <1>1, <1>2, <1>3, <1>6, <1>7, <1>10 DEF TheDuet!Star, Resting
<1>12. QED
  BY <1>9, <1>11

LEMMA TakeHashDuet == ASSUME DuetInv, TakeHash, KeepsRules PROVE PartyInv' /\ TheDuet!Hash
<1>1. /\ Take("hash") /\ ret' = "noRead" /\ draining' = draining
      /\ pipes' = Bump(pipes, pipe, 1) /\ pipe' = pipe + 1 /\ GoOn(TRUE)
      /\ UNCHANGED <<program, effects, parts, active, ready, pretold, d2>>
      /\ UNCHANGED <<executing, loan, passes, inlineWaits, scriptWaits>>
  BY DEF TakeHash, modeVars, turnVars, waitVars
<1>2. /\ Turn /\ active' = TRUE /\ ready' = TRUE /\ executing = FALSE /\ loan = FALSE
      /\ Doing = "nothing" /\ Resting = FALSE /\ TheDuet!Begin("hash")
      /\ position' \in Nat /\ ~Leaving
  BY <1>1, TakeParty
<1>3. d2 /\ interpreter' = interpreter
  BY <1>1 DEF KeepsRules, TakeHash, Take
<1>4. events' = <<"next">>
  BY <1>1, <1>2, GoOnEvents
<1>5. Doing' = "nothing" /\ Resting' = FALSE
  BY <1>1, <1>2, <1>4, SeenNext DEF Turning
<1>6. ScriptSide' = ScriptSide /\ DialogueSide' = DialogueSide
  BY <1>3, Sides
<1>7. ~Leaving' /\ StartSays'
  BY <1>1, NotLeaving
<1>8. \A n \in DOMAIN pipes' : pipes'[n] \in Int
  <2>1. \A n \in DOMAIN pipes : pipes[n] \in Int
    BY DEF DuetInv, PartyTypes
  <2>2. 1 \in Int
    OBVIOUS
  <2>3. QED
    BY <1>1, <2>1, <2>2, BumpTyped
<1>9. PartyInv'
  BY <1>1, <1>2, <1>6, <1>7, <1>8 DEF DuetInv, PartyInv, PartyTypes, ScriptSays, TalkSays
<1>10. UNCHANGED TheDuet!scriptVars
  BY <1>1, <1>6, ScriptVarsKept
<1>11. TheDuet!Hash
  BY <1>1, <1>2, <1>3, <1>5, <1>6, <1>10, SameBump DEF TheDuet!Hash, Resting
<1>12. QED
  BY <1>9, <1>11

\* The dialogue is over, and a token is still to be read.
LEMMA TakeEndDuet == ASSUME DuetInv, TakeEnd PROVE PartyInv' /\ TheDuet!End
<1>1. /\ Turn /\ ready = TRUE /\ active = TRUE /\ executing = FALSE /\ loan = FALSE
      /\ events = <<"next">> /\ ~InDialogue(interpreter) /\ Sound(interpreter)
  <2>1. Turn
    BY EventSituation DEF TakeEnd, DuetInv
  <2>2. QED
    BY <2>1, ActiveType DEF Turn, Idle, DuetInv, DialogueInv
<1>2. /\ Event("next") /\ position = Len(parts) /\ GoOn(FALSE) /\ draining' = draining
      /\ active' = FALSE /\ ready' = FALSE /\ pretold' = FALSE /\ d2' = FALSE
      /\ parts' = <<>> /\ position' = 0 /\ executing' = (executing /\ ~active)
      /\ passes' = 0 /\ pipes' = <<>> /\ pipe' = 0
      /\ interpreter' = DisposeDialogue(interpreter, TRUE)
      /\ ret' = "continue" /\ draining = TRUE
      /\ UNCHANGED <<program, effects, loan, inlineWaits, scriptWaits>>
  BY <1>1 DEF TakeEnd, waitVars, Event
<1>3. executing' = FALSE
  BY <1>1, <1>2
<1>4. events' = <<>>
  BY <1>1, <1>2, GoOnEvents
<1>5. Doing' = "over" /\ Resting' = FALSE
  BY <1>1, <1>2, <1>4, SeenNext
<1>6. Doing = "nothing" /\ Resting = FALSE
  BY <1>1, DoingNow
<1>7. ScriptSide.routine = <<>> /\ DialogueSide.routine = <<>>
  BY <1>1 DEF DuetInv, ScriptSays, TalkSays
<1>8. ScriptSide' = ScriptSide /\ DialogueSide'.routine = <<>>
  <2>1. TRUE \in BOOLEAN
    OBVIOUS
  <2>2. ScriptSide' = ScriptSide /\ DialogueSide' = Nobody
    BY <1>1, <1>2, <2>1, Sides, DisposeSides
  <2>3. QED
    BY <2>2 DEF Nobody
<1>10. StartSays'
  BY <1>1, <1>2, <1>3, <1>4, <1>7, <1>8 DEF StartSays
<1>11. PartyTypes'
  <2>1. <<>> \in Talk
    BY DEF Talk
  <2>2. DOMAIN pipes' = {} /\ position' \in Nat
    BY <1>2
  <2>3. QED
    BY <1>2, <1>8, <2>1, <2>2 DEF DuetInv, PartyTypes
<1>12. ScriptSays'
  BY <1>2, <1>7, <1>8 DEF ScriptSays
<1>13. TalkSays'
  BY <1>3, <1>8 DEF TalkSays
<1>14. UNCHANGED TheDuet!scriptVars
  BY <1>2, <1>8, ScriptVarsKept
<1>15. TheDuet!End
  BY <1>2, <1>5, <1>6, <1>7, <1>8, <1>14 DEF TheDuet!End, Resting
<1>16. QED
  BY <1>10, <1>11, <1>12, <1>13, <1>15 DEF PartyInv

\* On the way out a routine of the dialogue's begins, or the script passes over what it
\* has come to when its dialogue ended, or nothing is read.
LEMMA LeaveControlDuet ==
  ASSUME DuetInv, LeaveControl PROVE PartyInv' /\ [TheDuet!Next]_(TheDuet!duetVars)
<1>1. /\ draining /\ events = <<>> /\ draining' = FALSE
      /\ interpreter' = IF ret = "continue" /\ ~(active /\ ~d2 /\ ~executing)
                        THEN ReadToken(interpreter) ELSE interpreter
      /\ UNCHANGED <<program, effects, parts, position, active, ready, pretold, d2>>
      /\ UNCHANGED <<executing, loan, pipeVars, pipes, passes, inlineWaits, scriptWaits, events>>
  BY DEF LeaveControl, textVars, modeVars, turnVars, pipeVars, waitVars
<1>2. /\ Resting' = Resting
      /\ (Leaving => active = TRUE) => Doing' = Doing
  <2>1. Resting' = Resting
    BY <1>1 DEF Resting, LoanAsked
  <2>2. ~Leaving'
    BY <1>1 DEF Leaving
  <2>3. (Leaving => active = TRUE) => Doing' = Doing
    BY <1>1, <2>2, SeenKept
  <2>4. QED
    BY <2>1, <2>3
<1>3. ~Leaving' /\ StartSays'
  BY <1>1, NotLeaving
<1>4. Sound(interpreter)
  BY DEF DuetInv, DialogueInv
<1>5. UNCHANGED TheDuet!pipeVars
  BY <1>1, PipeVarsKept
<1>6. CASE ret # "continue"
  <2>1. interpreter' = interpreter
    BY <1>1, <1>6
  <2>2. ScriptSide' = ScriptSide /\ DialogueSide' = DialogueSide
    BY <2>1, Sides
  <2>3. ~Leaving
    BY <1>6 DEF Leaving
  <2>4. PartyInv'
    BY <1>1, <1>3, <2>2, <2>3 DEF DuetInv, PartyInv, PartyTypes, ScriptSays, TalkSays
  <2>5. QED
    BY <1>1, <1>2, <2>2, <2>3, <2>4, Stutter
<1>7. CASE ret = "continue" /\ executing = TRUE
  <2>1. Leaving
    BY <1>1, <1>7 DEF Leaving
  <2>2. loan = FALSE
    BY <2>1 DEF DuetInv, StartSays
  <2>3. Running
    BY <1>1, <1>7, <2>2, Heads
    DEF DuetInv, DialogueInv, Situation, Stopped, First, Turn, Text, Star, Waiting, Asking,
        Loaned, LoanOver, Returned, Idle
  <2>4. events # <<"commandEnd">> /\ InDialogue(interpreter)
    BY <1>1, <2>3, Heads DEF Running
  <2>5. /\ DialogueSide.reports = TRUE /\ DialogueSide.routine # <<>>
        /\ Head(DialogueSide.routine) = "gosub" /\ IsRest(Tail(DialogueSide.routine))
    BY <1>7, <2>1, <2>4 DEF DuetInv, TalkSays
  <2>6. ScriptSide' = ScriptSide /\ DialogueSide' = Read(DialogueSide) /\ IsContext(DialogueSide)
    BY <1>1, <1>4, <1>7, <2>4, Sides, ReadSides, SideTypes
  <2>7. DialogueSide'.routine = Tail(DialogueSide.routine) /\ DialogueSide'.reports = TRUE
    BY <2>5, <2>6, ReadOf
  <2>8. TalkSays'
    BY <1>1, <1>3, <1>7, <2>4, <2>5, <2>7 DEF TalkSays
  <2>9. PartyInv'
    BY <1>1, <1>3, <2>6, <2>8 DEF DuetInv, PartyInv, PartyTypes, ScriptSays
  <2>10. Rest(DialogueSide'.routine) = Rest(DialogueSide.routine)
    BY <2>5, <2>7, RestIs
  <2>11. UNCHANGED TheDuet!talkVars
    BY <1>1, <1>2, <2>3, <2>10, ActiveType DEF Running, Executing, TheDuet!talkVars, Resting
  <2>12. UNCHANGED TheDuet!scriptVars
    BY <1>1, <2>6, ScriptVarsKept
  <2>13. QED
    BY <1>5, <2>9, <2>11, <2>12, NothingSeen
<1>8. CASE ret = "continue" /\ executing = FALSE
  <2>1. Leaving
    BY <1>1, <1>8 DEF Leaving
  <2>2. active = FALSE /\ ready = FALSE /\ ScriptSide.routine = <<>>
    BY <1>8, <2>1 DEF DuetInv, StartSays
  <2>3. Stopped
    BY <2>2
    DEF DuetInv, DialogueInv, Situation, First, Turn, Text, Star, Waiting, Running, Asking,
        Loaned, LoanOver, Returned, Executing
  <2>4. /\ ~InDialogue(interpreter)
        /\ Doing = "over" /\ Doing' = "off" /\ Resting' = Resting
    BY <1>1, <1>2, <1>3, <2>1, <2>2, <2>3, DoingNow, SeenNext DEF Stopped, Idle, Leaving
  <2>5. ScriptSide' = Read(ScriptSide) /\ DialogueSide' = DialogueSide /\ IsContext(ScriptSide)
    BY <1>1, <1>4, <1>8, <2>2, <2>4, Sides, ReadSides, SideTypes
  <2>6. ScriptSide'.pc = ScriptSide.pc + 1 /\ ScriptSide'.routine = <<>>
    BY <2>2, <2>5, ReadOf
  <2>7. PartyTypes'
    <3>1. ScriptSide'.pc \in Nat \ {0}
      BY <2>6 DEF DuetInv, PartyTypes
    <3>2. QED
      BY <1>1, <3>1 DEF DuetInv, PartyTypes
  <2>8. ScriptSays' /\ TalkSays'
    BY <1>1, <1>8, <2>2, <2>5, <2>6 DEF DuetInv, ScriptSays, TalkSays
  <2>9. PartyInv'
    BY <1>3, <2>7, <2>8 DEF PartyInv
  <2>10. Rest(ScriptSide.routine) = <<>> /\ Rest(ScriptSide'.routine) = <<>>
    BY <2>2, <2>6, RestIs
  <2>11. TheDuet!Leave
    BY <1>1, <1>5, <2>4, <2>5, <2>6, <2>10 DEF TheDuet!Leave, Resting
  <2>12. QED
    BY <2>9, <2>11 DEF TheDuet!Next
<1>9. executing \in BOOLEAN
  BY DEF DuetInv, DialogueInv, Situation, Stopped, First, Turn, Text, Star, Waiting, Running,
         Asking, Loaned, LoanOver, Returned, Executing, Idle
<1>10. QED
  BY <1>6, <1>7, <1>8, <1>9

LEMMA EventsDuet ==
  ASSUME DuetInv, ProcessDialogueEvents, KeepsRules
  PROVE  PartyInv' /\ [TheDuet!Next]_(TheDuet!duetVars)
<1>1. CASE ProcessDialogue
  BY <1>1, TakeTextDuet, TakeBuiltInDuet, TakeRoutineDuet, TakeStarDuet, TakeHashDuet, TakeEndDuet
  DEF ProcessDialogue, TheDuet!Next
<1>2. CASE ~ProcessDialogue
  BY <1>2, TakeControlDuet, FirstEventDuet, StartLoanExecutionDuet, EndLoanExecutionDuet,
     InlineCommandEndDuet, LeaveControlDuet
  DEF ProcessDialogueEvents, TheDuet!Next
<1>3. QED
  BY <1>1, <1>2

-----------------------------------------------------------------------------
(* And what happens in a frame. *)

LEMMA ScriptWaitExpiresDuet == ASSUME DuetInv, ScriptWaitExpires PROVE PartyInv' /\ TheDuet!WaitOver
<1>1. /\ ~draining /\ draining' = draining /\ scriptWaits > 0 /\ scriptWaits' = scriptWaits - 1
      /\ UNCHANGED <<program, interpreter, effects, parts, position, active, ready, pretold, d2>>
      /\ UNCHANGED <<executing, loan, pipeVars, pipes, passes, inlineWaits, events>>
  BY DEF ScriptWaitExpires, scriptVars, textVars, modeVars, turnVars, pipeVars, loopVars
<1>2. scriptWaits = 1 /\ scriptWaits' = 0
  BY <1>1 DEF DuetInv, PartyTypes
<1>3. Doing' = Doing /\ Resting' = Resting
  BY <1>1, SeenKept DEF Leaving
<1>4. ScriptSide' = ScriptSide /\ DialogueSide' = DialogueSide
  BY <1>1, Sides
<1>5. ~Leaving /\ ~Leaving' /\ StartSays'
  BY <1>1, NotLeaving DEF Leaving
<1>6. PartyInv'
  BY <1>1, <1>2, <1>4, <1>5 DEF DuetInv, PartyInv, PartyTypes, ScriptSays, TalkSays
<1>7. UNCHANGED TheDuet!talkVars /\ UNCHANGED TheDuet!pipeVars
  BY <1>1, <1>3, <1>4, TalkVarsKept, PipeVarsKept
<1>8. TheDuet!WaitOver
  BY <1>1, <1>2, <1>4, <1>7 DEF TheDuet!WaitOver
<1>9. QED
  BY <1>6, <1>8

LEMMA InlineWaitExpiresDuet ==
  ASSUME DuetInv, InlineWaitExpires, ~Asking
  PROVE  PartyInv' /\ [TheDuet!Next]_(TheDuet!duetVars)
<1>1. /\ ~draining /\ draining' = draining /\ inlineWaits > 0 /\ inlineWaits' = inlineWaits - 1
      /\ UNCHANGED <<program, effects, parts, position, active, ready, pretold, d2>>
      /\ UNCHANGED <<executing, loan, pipeVars, pipes, passes, scriptWaits>>
  BY DEF InlineWaitExpires, textVars, modeVars, turnVars, pipeVars, loopVars
<1>3. inlineWaits # 0
  BY <1>1
<1>4. Waiting \/ Loaned
  BY <1>3
  DEF DuetInv, DialogueInv, Situation, Stopped, First, Turn, Text, Star, Running, LoanOver,
      Returned, Idle
<1>5. ~Leaving /\ ~Leaving' /\ StartSays'
  BY <1>1, NotLeaving DEF Leaving
<1>6. UNCHANGED TheDuet!pipeVars
  BY <1>1, PipeVarsKept
<1>7. CASE Waiting
  <2>1. /\ ready = TRUE /\ executing = FALSE /\ loan = FALSE /\ events = <<>>
        /\ ~InDialogue(interpreter) /\ Sound(interpreter)
    BY <1>7 DEF Waiting, DuetInv, DialogueInv
  <2>2. /\ events' = Append(events, "next")
        /\ interpreter' = DisposeDialogue(UseDialogue(interpreter), FALSE)
    BY <2>1 DEF InlineWaitExpires
  <2>3. events' = <<"next">>
    BY <2>1, <2>2
  <2>4. Doing' = "nothing" /\ Resting' = FALSE
    BY <1>1, <2>1, <2>3, SeenNext, ActiveType DEF Turning
  <2>5. Doing = "wait" /\ Resting = FALSE
    BY <1>7, DoingNow
  <2>6. DialogueSide.routine = <<>>
    BY <2>1 DEF DuetInv, TalkSays
  <2>7. ScriptSide' = ScriptSide /\ DialogueSide'.routine = <<>>
    <3>1. Sound(UseDialogue(interpreter)) /\ InDialogue(UseDialogue(interpreter))
      BY <2>1, UseDialogueKeeps
    <3>2. ScriptOf(UseDialogue(interpreter)) = ScriptOf(interpreter)
      BY <2>1, UseDialogueSides
    <3>3. ScriptOf(interpreter') = ScriptOf(interpreter) /\ TalkOf(interpreter') = Nobody
      BY <2>2, <3>1, <3>2, DisposeSides
    <3>4. QED
      BY <3>3, Sides DEF Nobody
  <2>8. TalkSays'
    BY <1>1, <2>1, <2>7 DEF TalkSays
  <2>9. PartyInv'
    BY <1>1, <1>5, <2>7, <2>8 DEF DuetInv, PartyInv, PartyTypes, ScriptSays
  <2>10. UNCHANGED TheDuet!scriptVars
    BY <1>1, <2>7, ScriptVarsKept
  <2>11. TheDuet!Over
    BY <1>1, <1>6, <2>4, <2>5, <2>6, <2>7, <2>10 DEF TheDuet!Over, Resting
  <2>12. QED
    BY <2>9, <2>11 DEF TheDuet!Next
<1>8. CASE Loaned
  <2>1. ready = TRUE /\ executing = TRUE /\ loan = TRUE /\ events = <<>>
    BY <1>8 DEF Loaned, Executing
  <2>2. events' = Append(events, "loanEnd") /\ interpreter' = interpreter
    BY <2>1 DEF InlineWaitExpires
  <2>3. events' = <<"loanEnd">>
    BY <2>1, <2>2
  <2>4. Doing' = "routine" /\ Resting' = TRUE
    BY <1>1, <2>1, <2>3, SeenNext, ActiveType DEF Quiet
  <2>5. Doing = "routine" /\ Resting = TRUE
    BY <1>8, DoingNow
  <2>6. ScriptSide' = ScriptSide /\ DialogueSide' = DialogueSide
    BY <2>2, Sides
  <2>7. events # <<"commandEnd">> /\ events' # <<"commandEnd">>
    BY <2>1, <2>3, Heads
  <2>8. TalkSays'
    BY <1>1, <1>5, <2>1, <2>6, <2>7 DEF DuetInv, TalkSays
  <2>9. PartyInv'
    BY <1>1, <1>5, <2>6, <2>8 DEF DuetInv, PartyInv, PartyTypes, ScriptSays
  <2>10. QED
    BY <1>1, <2>4, <2>5, <2>6, <2>9, Stutter
<1>9. QED
  BY <1>4, <1>7, <1>8

\* A wait that is over before its loan has begun leaves the two as they were.
LEMMA EarlyExpiryDuet ==
  ASSUME DuetInv, InlineWaitExpires, Asking
  PROVE  EndedEarly' /\ UNCHANGED TheDuet!duetVars
<1>1. EndedEarly' /\ interpreter' = Abort(interpreter)
  BY EarlyExpiryStep DEF DuetInv
<1>2. UNCHANGED <<program, effects, parts, position, active, ready, d2, pretold, executing, loan,
                  scriptWaits, pipeVars>>
  BY DEF InlineWaitExpires, textVars, modeVars, turnVars
<1>3. ready = TRUE /\ executing = TRUE /\ Shaped(interpreter)
  BY DEF Asking, Executing, DuetInv, DialogueInv, Sound
<1>4. ScriptSide' = ScriptSide /\ DialogueSide' = DialogueSide
  <2>1. /\ interpreter'.cur = interpreter.cur /\ interpreter'.kept = interpreter.kept
        /\ interpreter'.swaps = interpreter.swaps
    BY <1>1, <1>3 DEF Abort, Shaped
  <2>2. QED
    BY <2>1 DEF ScriptSide, DialogueSide, InDialogue
<1>5. Doing = "routine" /\ Doing' = "routine"
  BY <1>2, <1>3, DoingNow, SeenNext, ActiveType
<1>6. Resting = TRUE /\ Resting' = TRUE
  BY <1>1, DoingNow DEF EndedEarly, Resting
<1>7. QED
  BY <1>1, <1>2, <1>4, <1>5, <1>6, Stutter

LEMMA SegmentCompletedDuet == ASSUME DuetInv, SegmentCompleted PROVE PartyInv' /\ TheDuet!Over
<1>1. /\ ~draining /\ draining' = draining /\ events' = Append(events, "next")
      /\ monitor # NoMonitor /\ monitor # segment
      /\ UNCHANGED <<program, interpreter, effects, parts, position, active, ready, pretold, d2>>
      /\ UNCHANGED <<executing, loan, pipeVars, pipes, passes, inlineWaits, scriptWaits>>
  BY DEF SegmentCompleted, scriptVars, modeVars, turnVars, pipeVars, waitVars, loopVars
<1>2. ~Drawn /\ ~Undrawn
  BY <1>1 DEF Drawn, Undrawn
<1>3. Text
  BY <1>2
  DEF DuetInv, DialogueInv, Situation, Stopped, First, Turn, Star, Waiting, Running, Asking,
      Loaned, LoanOver, Returned, Executing
<1>4. ready = TRUE /\ executing = FALSE /\ loan = FALSE /\ events = <<>>
  BY <1>3 DEF Text, Idle
<1>5. events' = <<"next">>
  BY <1>1, <1>4
<1>6. Doing' = "nothing" /\ Resting' = FALSE
  BY <1>1, <1>4, <1>5, SeenNext, ActiveType DEF Turning
<1>7. Doing = "text" /\ Resting = FALSE
  BY <1>3, DoingNow
<1>8. ScriptSide' = ScriptSide /\ DialogueSide' = DialogueSide
  BY <1>1, Sides
<1>9. ~Leaving /\ ~Leaving' /\ StartSays'
  BY <1>1, NotLeaving DEF Leaving
<1>10. PartyInv'
  BY <1>1, <1>4, <1>8, <1>9 DEF DuetInv, PartyInv, PartyTypes, ScriptSays, TalkSays
<1>11. UNCHANGED TheDuet!scriptVars /\ UNCHANGED TheDuet!pipeVars
  BY <1>1, <1>8, ScriptVarsKept, PipeVarsKept
<1>12. TheDuet!Over
  BY <1>1, <1>6, <1>7, <1>8, <1>11 DEF TheDuet!Over, Resting
<1>13. QED
  BY <1>10, <1>12

-----------------------------------------------------------------------------
(* The refinement. *)

LEMMA UnchangedDuet ==
  ASSUME DuetInv, UNCHANGED vars
  PROVE  PartyInv'
<1>1. /\ UNCHANGED <<program, interpreter, effects, parts, position, active, ready, pretold, d2>>
      /\ UNCHANGED <<executing, loan, pipes, scriptWaits, events, draining, ret>>
  BY DEF vars, scriptVars, textVars, modeVars, turnVars, pipeVars, waitVars, loopVars
<1>2. ScriptSide' = ScriptSide /\ DialogueSide' = DialogueSide
  BY <1>1, Sides
<1>3. Leaving' <=> Leaving
  BY <1>1 DEF Leaving
<1>4. PartyTypes' /\ ScriptSays'
  BY <1>1, <1>2 DEF DuetInv, PartyTypes, ScriptSays
<1>5. TalkSays' /\ StartSays'
  BY <1>1, <1>2, <1>3 DEF DuetInv, TalkSays, StartSays
<1>6. QED
  BY <1>4, <1>5 DEF PartyInv

\* What stays as it is looks the same.
LEMMA UnchangedSeen == ASSUME UNCHANGED vars PROVE UNCHANGED TheDuet!duetVars
<1>1. /\ UNCHANGED <<program, interpreter, effects, parts, position, active, ready, pretold, d2>>
      /\ UNCHANGED <<executing, loan, pipeVars, pipes, passes, inlineWaits, scriptWaits>>
      /\ UNCHANGED <<events, draining, ret>>
  BY DEF vars, scriptVars, textVars, modeVars, turnVars, pipeVars, waitVars, loopVars
<1>2. Doing' = Doing /\ Resting' = Resting
  BY <1>1, SeenKept DEF Leaving
<1>3. ScriptSide' = ScriptSide /\ DialogueSide' = DialogueSide
  BY <1>1, Sides
<1>4. QED
  BY <1>1, <1>2, <1>3, Stutter

LEMMA DuetStep ==
  ASSUME DuetInv \/ EndedEarly, [Next]_vars, KeepsRules
  PROVE  (DuetInv \/ EndedEarly)' /\ [TheDuet!Next]_(TheDuet!duetVars)
<1>1. CASE UNCHANGED vars
  <2>1. CASE DuetInv
    BY <1>1, <2>1, UnchangedKeeps, UnchangedDuet, UnchangedSeen DEF DuetInv, PartyInv
  <2>2. CASE EndedEarly
    BY <1>1, <2>2, UnchangedSeen DEF EndedEarly, Alive, LoanAsked, vars, scriptVars, loopVars
  <2>3. QED
    BY <2>1, <2>2
<1>2. CASE Next /\ DuetInv
  <2>1. CASE MainLoop
    <3>1. DialogueInv'
      BY <1>2, <2>1, ScriptStep, DialogueStep DEF MainLoop, DuetInv
    <3>2. PartyInv' /\ [TheDuet!Next]_(TheDuet!duetVars)
      BY <1>2, <2>1, ScriptCommandDuet, EventsDuet DEF MainLoop
    <3>3. QED
      BY <3>1, <3>2 DEF DuetInv, PartyInv
  <2>2. CASE InlineWaitExpires /\ Asking
    BY <1>2, <2>2, EarlyExpiryDuet
  <2>3. CASE Frame /\ ~(InlineWaitExpires /\ Asking)
    <3>1. DialogueInv'
      BY <1>2, <2>3, ScriptWaitExpiresStep, InlineWaitExpiresStep, SegmentCompletedStep
      DEF Frame, DuetInv
    <3>2. PartyInv' /\ [TheDuet!Next]_(TheDuet!duetVars)
      BY <1>2, <2>3, ScriptWaitExpiresDuet, InlineWaitExpiresDuet, SegmentCompletedDuet
      DEF Frame, TheDuet!Next
    <3>3. QED
      BY <3>1, <3>2 DEF DuetInv, PartyInv
  <2>4. QED
    BY <1>2, <2>1, <2>2, <2>3 DEF Next
<1>3. CASE Next /\ EndedEarly
  BY <1>3, DeadStays DEF EndedEarly
<1>4. QED
  BY <1>1, <1>2, <1>3

\* Script and dialogue are the two parties of Duet, whatever the script that keeps the
\* rules: every command of the script and every part and command of the dialogue is
\* carried out once, in order, but for the command the script has come to when its
\* dialogue ends, which is passed over; and each side waits for the other where it must
\* and only there.
THEOREM DuetWhenRulesKept == Spec /\ []KeepsRules => IsDuet
<1>1. Init => (DuetInv \/ EndedEarly) /\ TheDuet!Init
  BY DuetInit
<1>2. (DuetInv \/ EndedEarly) /\ KeepsRules /\ [Next]_vars
        => (DuetInv \/ EndedEarly)' /\ [TheDuet!Next]_(TheDuet!duetVars)
  BY DuetStep
<1>3. QED
  BY <1>1, <1>2, PTL DEF Spec, IsDuet, TheDuet!Spec
=============================================================================

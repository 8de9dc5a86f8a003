------------------------------ MODULE Dialogue ------------------------------
(***************************************************************************)
(* The dialogue controller (Engine/Components/Dialogue.cpp) and the script *)
(* it shares the interpreter with.  A command d or d2 starts a dialogue, a *)
(* text with inline commands between its segments.  Both are carried out   *)
(* by the main loop: what moves the dialogue on are the events of its      *)
(* queue, what runs its commands is the script's own interpreter, whose    *)
(* state is exchanged for that, and given back ("loaned") while an inline  *)
(* command waits.  The queue is emptied in one go; frames, in which waits  *)
(* end and segments finish, happen between two turns of the loop.          *)
(* Routines that are not interruptible, event_callback, lua, dialogueAddEnds  *)
(* and a d without textgosub are left out; a d comes when no dialogue is   *)
(* active.                                                                 *)
(***************************************************************************)
EXTENDS Integers, Sequences, FiniteSets

CONSTANTS
  Scripts,    \* each a sequence of commands [cmd, arg], line ends ("eol") among them
  Pretext     \* the commands of the pretextgosub routine, empty if there is none

\* What a routine does is a step of its own or a wait; a dialogue has parts.
Routines == Seq({"plain", "wait"})
Talk == Seq([kind : {"text", "builtin", "routine", "star", "hash"}, body : Routines])

ASSUME DialogueAssumption ==
  /\ Pretext \in Routines
  /\ \A s \in Scripts :
       /\ Len(s) \in Nat
       /\ \A n \in 1 .. Len(s) : s[n].cmd \in {"d", "d2"} => s[n].arg \in Talk

VARIABLES
  program,       \* the script that runs
  interpreter,   \* the interpreter's state and the ScriptState that holds the other one
  effects,       \* plain commands the script has carried out
  parts,         \* dataPart: the parts of the dialogue, [kind, body]
  position,      \* currentTextPos: how many were taken
  active, ready, pretold,  \* dialogueProcessingState
  d2,            \* continueScriptExecution
  executing,     \* executingDialogueInlineCommand
  loan,          \* loanExecutionActive
  passes,        \* suspendDialoguePasses
  pipes, pipe,   \* suspendScriptPasses, suspendScriptIndex
  segment,       \* segmentIndex
  monitor,       \* the text monitor's lastCompletedSegment, or NoMonitor
  inlineWaits,   \* wait actions created by the dialogue's commands
  scriptWaits,   \* and by the script's
  events,        \* what the controller has to do, oldest first
  draining,      \* processDialogueEvents is running
  ret            \* what it will return

scriptVars == <<program, interpreter, effects>>
textVars == <<parts, position, segment, monitor>>
modeVars == <<active, ready, pretold, d2>>
turnVars == <<executing, loan>>
pipeVars == <<passes, pipes, pipe>>
waitVars == <<inlineWaits, scriptWaits>>
loopVars == <<draining, ret>>
vars == <<scriptVars, textVars, modeVars, turnVars, pipeVars, waitVars, events, loopVars>>

NoMonitor == -2
AtEnd == -1    \* the pipe wait_on_d names for the end of the dialogue

(***************************************************************************)
(* What the interpreter works on: the script's next command, the rest of   *)
(* the routine that interrupts it, and whether that routine's return is    *)
(* reported to the dialogue.                                               *)
(***************************************************************************)
Nobody == [pc |-> 0, routine |-> <<>>, reports |-> FALSE]

Gosub(i, body, reports) ==
  [i EXCEPT !.cur.routine = <<"gosub">> \o body \o <<"return">>, !.cur.reports = reports]

\* The next token becomes the one to carry out.
ReadToken(i) ==
  IF i.cur.routine # <<>>
  THEN [i EXCEPT !.cur.routine = Tail(@)]
  ELSE [i EXCEPT !.cur.pc = @ + 1]

(***************************************************************************)
(* ScriptState.  An exchange in the wrong state ends the program, and none *)
(* comes after it.                                                         *)
(***************************************************************************)
Abort(i) == [i EXCEPT !.wonky = TRUE]
Swap(i) == [i EXCEPT !.cur = i.kept, !.kept = i.cur]
InDialogue(i) == i.swaps % 2 = 1

UseDialogue(i) ==
  IF InDialogue(i) THEN Abort(i)
  ELSE IF i.swaps = 0 THEN [i EXCEPT !.kept = i.cur, !.swaps = 1]
  ELSE [Swap(i) EXCEPT !.swaps = @ + 1]

UseMainScript(i) ==
  IF i.wonky \/ ~InDialogue(i) THEN Abort(i) ELSE [Swap(i) EXCEPT !.swaps = @ + 1]

\* What disposeDialogue refuses.
NothingToDispose(i, force) == i.wonky \/ (~InDialogue(i) /\ ~force)

\* Mutant: the exchanges are not counted from the start again.
DisposeKeepsCount(i, force) ==
  IF NothingToDispose(i, force) THEN Abort(i)
  ELSE [(IF InDialogue(i) THEN Swap(i) ELSE i) EXCEPT !.kept = Nobody]

\* Mutant: the script's state is thrown away instead of the dialogue's.
DisposeWrongSide(i, force) ==
  IF NothingToDispose(i, force) THEN Abort(i)
  ELSE [i EXCEPT !.kept = Nobody, !.swaps = 0]

DisposeDialogue(i, force) ==
  IF NothingToDispose(i, force) THEN Abort(i)
  ELSE [(IF InDialogue(i) THEN Swap(i) ELSE i) EXCEPT !.kept = Nobody, !.swaps = 0]

(***************************************************************************)
(* The main loop (executeLabel) lets the dialogue have its events before   *)
(* the script has its command.                                             *)
(***************************************************************************)
\* errorAndExit was not reached.
Alive == ~interpreter.wonky

WantsControl == ready /\ events # <<>>

Awaited == \E n \in DOMAIN pipes : pipes[n] <= -1

ScriptExecutionPermitted ==
  loan \/ ~executing => /\ ~(ready /\ ~d2)
                        /\ ~(ready /\ Awaited)
                        /\ scriptWaits = 0

Ended == interpreter.cur.routine = <<>> /\ interpreter.cur.pc > Len(program)

Token ==
  IF interpreter.cur.routine # <<>>
  THEN [cmd |-> Head(interpreter.cur.routine), arg |-> 0]
  ELSE program[interpreter.cur.pc]

Run(cmd) ==
  /\ Alive /\ ~draining /\ ~WantsControl /\ ScriptExecutionPermitted
  /\ ~Ended /\ Token.cmd = cmd

Advance == interpreter' = ReadToken(interpreter)

Plain ==
  /\ Run("plain")
  /\ Advance
  /\ effects' = IF interpreter.cur.routine = <<>> THEN effects + 1 ELSE effects
  /\ UNCHANGED <<program, textVars, modeVars, turnVars, pipeVars, waitVars, events, loopVars>>

EndOfLine ==
  /\ Run("eol")
  /\ Advance
  /\ UNCHANGED <<program, effects, textVars, modeVars, turnVars, pipeVars, waitVars, events, loopVars>>

\* A wait, a delay, a button wait: there may be nothing to wait for.
Wait ==
  /\ Run("wait")
  /\ Advance
  /\ \/ UNCHANGED <<waitVars, events>>
     \/ /\ ~executing
        /\ scriptWaits' = scriptWaits + 1
        /\ UNCHANGED <<inlineWaits, events>>
     \/ /\ executing
        /\ inlineWaits' = inlineWaits + 1
        /\ events' = Append(events, "loanStart")
        /\ UNCHANGED scriptWaits
  /\ UNCHANGED <<program, effects, textVars, modeVars, turnVars, pipeVars, loopVars>>

Return ==
  /\ Run("return")
  /\ interpreter' = [interpreter EXCEPT !.cur.routine = <<>>, !.cur.reports = FALSE]
  /\ events' = IF interpreter.cur.reports THEN Append(events, "commandEnd") ELSE events
  /\ UNCHANGED <<program, effects, textVars, modeVars, turnVars, pipeVars, waitVars, loopVars>>

(***************************************************************************)
(* The script's commands about dialogues.                                  *)
(***************************************************************************)
DialogueCommand ==
  /\ Run("d") \/ Run("d2")
  /\ d2' = (Token.cmd = "d2")
  /\ active' = TRUE
  /\ parts' = IF active THEN parts ELSE Token.arg
  /\ IF Pretext # <<>> /\ ~pretold
     THEN /\ interpreter' = ReadToken(Gosub(interpreter, Pretext, FALSE))
          /\ pretold' = TRUE
          /\ UNCHANGED <<ready, events>>
     ELSE /\ Advance
          /\ ready' = TRUE
          /\ events' = Append(events, "first")
          /\ UNCHANGED pretold
  /\ UNCHANGED <<program, effects, position, segment, monitor, turnVars, pipeVars, waitVars, loopVars>>

\* suspendScriptPasses is a map, in which a pipe not seen before stands at 0.
Bump(map, n, by) ==
  [k \in DOMAIN map \cup {n} |->
     (IF k \in DOMAIN map THEN map[k] ELSE 0) + (IF k = n THEN by ELSE 0)]

WaitOnDialogue ==
  /\ Run("wait_on_d")
  /\ Advance
  /\ pipes' = IF active THEN Bump(pipes, Token.arg, -1) ELSE pipes
  /\ UNCHANGED <<program, effects, textVars, modeVars, turnVars, passes, pipe, waitVars, events, loopVars>>

\* Mutant: the event only comes when two [*] wait.
SuspendedTwice == passes < -1

\* The dialogue stands at a [*].
Suspended == passes < 0

DialogueContinue ==
  /\ Run("d_continue")
  /\ IF active
     THEN /\ Advance
          /\ events' = IF Suspended THEN Append(events, "next") ELSE events
          /\ passes' = passes + 1
     ELSE /\ interpreter' = Abort(interpreter)
          /\ UNCHANGED <<events, passes>>
  /\ UNCHANGED <<program, effects, textVars, modeVars, turnVars, pipes, pipe, waitVars, loopVars>>

ScriptCommand ==
  \/ Plain
  \/ EndOfLine
  \/ Wait
  \/ Return
  \/ DialogueCommand
  \/ WaitOnDialogue
  \/ DialogueContinue

(***************************************************************************)
(* processDialogueEvents.                                                  *)
(***************************************************************************)
TakeControl ==
  /\ Alive /\ ~draining /\ WantsControl
  /\ draining' = TRUE
  /\ ret' = "noRead"
  /\ UNCHANGED <<scriptVars, textVars, modeVars, turnVars, pipeVars, waitVars, events>>

Event(e) == Alive /\ draining /\ events # <<>> /\ Head(events) = e

\* A dialogue's first event creates the text monitor, and is a usual one then.
FirstEvent ==
  /\ Event("first")
  /\ monitor' = -1
  /\ events' = <<"next">> \o Tail(events)
  /\ UNCHANGED <<scriptVars, parts, position, segment, modeVars, turnVars, pipeVars, waitVars, loopVars>>

StartLoanExecution ==
  /\ Event("loanStart")
  /\ loan' = TRUE
  /\ interpreter' = UseMainScript(interpreter)
  /\ events' = Tail(events)
  /\ UNCHANGED <<program, effects, textVars, modeVars, executing, pipeVars, waitVars, loopVars>>

EndLoanExecution ==
  /\ Event("loanEnd")
  /\ loan' = FALSE
  /\ interpreter' = UseDialogue(interpreter)
  /\ events' = Tail(events)
  /\ UNCHANGED <<program, effects, textVars, modeVars, executing, pipeVars, waitVars, loopVars>>

InlineCommandEnd ==
  /\ Event("commandEnd")
  /\ executing' = FALSE
  /\ interpreter' = DisposeDialogue(interpreter, FALSE)
  /\ events' = Append(Tail(events), "next")
  /\ UNCHANGED <<program, effects, textVars, modeVars, loan, pipeVars, waitVars, loopVars>>

(***************************************************************************)
(* processDialogue takes the next part.                                    *)
(***************************************************************************)
Part == parts[position + 1]

Take(kind) ==
  /\ Event("next") /\ active
  /\ position < Len(parts) /\ Part.kind = kind
  /\ position' = position + 1

\* What has to go on at once leaves an event for that.
GoOn(now) == events' = IF now THEN Append(Tail(events), "next") ELSE Tail(events)

\* Mutant: the monitor is not told that the segment needs no completion.
MonitorBehind == monitor

MonitorAlong == IF monitor = NoMonitor THEN monitor ELSE monitor + 1

\* displayDialogue: a text that is skipped is over, any other is timed.
TakeText ==
  /\ Take("text")
  /\ segment' = segment + 1
  /\ \/ GoOn(TRUE) /\ monitor' = MonitorAlong
     \/ GoOn(FALSE) /\ UNCHANGED monitor
  /\ ret' = "noRead"
  /\ UNCHANGED <<scriptVars, parts, modeVars, turnVars, pipeVars, waitVars, draining>>

\* A built-in command may create an action to wait for; waitForAction returns
\* the interpreter to the script then.
TakeBuiltIn ==
  /\ Take("builtin")
  /\ \/ /\ GoOn(TRUE)
        /\ interpreter' = DisposeDialogue(UseDialogue(interpreter), FALSE)
        /\ UNCHANGED inlineWaits
     \/ /\ GoOn(FALSE)
        /\ interpreter' = UseMainScript(UseDialogue(interpreter))
        /\ inlineWaits' = inlineWaits + 1
  /\ executing' = FALSE
  /\ ret' = "noRead"
  /\ UNCHANGED <<program, effects, parts, segment, monitor, modeVars, loan, pipeVars, scriptWaits, draining>>

\* A user's command, or the routine of textgosub at a click wait.
TakeRoutine ==
  /\ Take("routine")
  /\ GoOn(FALSE)
  /\ interpreter' = Gosub(UseDialogue(interpreter), Part.body, TRUE)
  /\ executing' = TRUE
  /\ ret' = "continue"
  /\ UNCHANGED <<program, effects, parts, segment, monitor, modeVars, loan, pipeVars, waitVars, draining>>

\* [*] waits for a d_continue, unless one came before.
TakeStar ==
  /\ Take("star")
  /\ interpreter' = IF d2 THEN interpreter ELSE Abort(interpreter)
  /\ GoOn(passes > 0)
  /\ passes' = passes - 1
  /\ ret' = "noRead"
  /\ UNCHANGED <<program, effects, parts, segment, monitor, modeVars, turnVars, pipes, pipe, waitVars, draining>>

\* [#] lets the script pass the wait_on_d of this number.
TakeHash ==
  /\ Take("hash")
  /\ interpreter' = IF d2 THEN interpreter ELSE Abort(interpreter)
  /\ GoOn(TRUE)
  /\ pipes' = Bump(pipes, pipe, 1)
  /\ pipe' = pipe + 1
  /\ ret' = "noRead"
  /\ UNCHANGED <<program, effects, parts, segment, monitor, modeVars, turnVars, passes, waitVars, draining>>

\* setDialogueActive(false).  An event that outlived its dialogue does nothing.
TakeEnd ==
  /\ Event("next") /\ (active => position = Len(parts))
  /\ active' = FALSE /\ ready' = FALSE /\ pretold' = FALSE /\ d2' = FALSE
  /\ parts' = <<>> /\ position' = 0 /\ segment' = -1 /\ monitor' = NoMonitor
  /\ executing' = (executing /\ ~active)
  /\ passes' = 0 /\ pipes' = <<>> /\ pipe' = 0
  /\ interpreter' = IF active THEN DisposeDialogue(interpreter, TRUE) ELSE interpreter
  /\ GoOn(FALSE)
  /\ ret' = IF active THEN "continue" ELSE "noRead"
  /\ UNCHANGED <<program, effects, loan, waitVars, draining>>

ProcessDialogue ==
  \/ TakeText
  \/ TakeBuiltIn
  \/ TakeRoutine
  \/ TakeStar
  \/ TakeHash
  \/ TakeEnd

\* The queue is empty; the main loop reads a token if it is told to.
LeaveControl ==
  /\ Alive /\ draining /\ events = <<>>
  /\ draining' = FALSE
  /\ interpreter' = IF ret = "continue" /\ ~(active /\ ~d2 /\ ~executing)
                    THEN ReadToken(interpreter) ELSE interpreter
  /\ UNCHANGED <<program, effects, textVars, modeVars, turnVars, pipeVars, waitVars, events, ret>>

ProcessDialogueEvents ==
  \/ TakeControl
  \/ FirstEvent
  \/ StartLoanExecution
  \/ EndLoanExecution
  \/ InlineCommandEnd
  \/ ProcessDialogue
  \/ LeaveControl

(***************************************************************************)
(* A frame: handleRegisteredActions ends waits and runs the text monitor.  *)
(***************************************************************************)
ScriptWaitExpires ==
  /\ Alive /\ ~draining /\ scriptWaits > 0
  /\ scriptWaits' = scriptWaits - 1
  /\ UNCHANGED <<scriptVars, textVars, modeVars, turnVars, pipeVars, inlineWaits, events, loopVars>>

\* The wait of an inline command may end before the event that begins its loan is
\* processed; the exchange that follows is out of turn then.
InlineWaitExpires ==
  /\ Alive /\ ~draining /\ inlineWaits > 0
  /\ inlineWaits' = inlineWaits - 1
  /\ IF loan
     THEN /\ events' = Append(events, "loanEnd")
          /\ UNCHANGED interpreter
     ELSE /\ events' = Append(events, "next")
          /\ interpreter' = DisposeDialogue(UseDialogue(interpreter), FALSE)
  /\ UNCHANGED <<program, effects, textVars, modeVars, turnVars, pipeVars, scriptWaits, loopVars>>

\* The last glyph of the current segment has started to fade in.
SegmentCompleted ==
  /\ Alive /\ ~draining /\ monitor # NoMonitor /\ monitor # segment
  /\ monitor' = segment
  /\ events' = Append(events, "next")
  /\ UNCHANGED <<scriptVars, parts, position, segment, modeVars, turnVars, pipeVars, waitVars, loopVars>>

Init ==
  /\ program \in Scripts
  /\ interpreter = [cur |-> [Nobody EXCEPT !.pc = 1], kept |-> Nobody, swaps |-> 0, wonky |-> FALSE]
  /\ effects = 0
  /\ parts = <<>> /\ position = 0 /\ segment = -1 /\ monitor = NoMonitor
  /\ active = FALSE /\ ready = FALSE /\ pretold = FALSE /\ d2 = FALSE
  /\ executing = FALSE /\ loan = FALSE
  /\ passes = 0 /\ pipes = <<>> /\ pipe = 0
  /\ inlineWaits = 0 /\ scriptWaits = 0
  /\ events = <<>> /\ draining = FALSE /\ ret = "noRead"

MainLoop == ScriptCommand \/ ProcessDialogueEvents
Frame == ScriptWaitExpires \/ InlineWaitExpires \/ SegmentCompleted
Next == MainLoop \/ Frame

Spec == Init /\ [][Next]_vars

(***************************************************************************)
(* The main loop does not stop, waits end, and segments are drawn.         *)
(***************************************************************************)
FairSpec ==
  /\ Spec
  /\ WF_vars(MainLoop)
  /\ WF_vars(ScriptWaitExpires)
  /\ WF_vars(InlineWaitExpires)
  /\ WF_vars(SegmentCompleted)
(***************************************************************************)
(* Properties.                                                             *)
(***************************************************************************)
TypeOK ==
  /\ interpreter.swaps \in Nat /\ interpreter.wonky \in BOOLEAN
  /\ effects \in Nat /\ position \in 0 .. Len(parts)
  /\ segment \in -1 .. Len(parts) /\ monitor \in -2 .. Len(parts)
  /\ {active, ready, pretold, d2, executing, loan, draining} \subseteq BOOLEAN
  /\ passes \in Int /\ pipe \in Nat
  /\ DOMAIN pipes \subseteq Int /\ \A n \in DOMAIN pipes : pipes[n] \in Int
  /\ inlineWaits \in Nat /\ scriptWaits \in Nat
  /\ events \in Seq({"first", "next", "loanStart", "loanEnd", "commandEnd"})
  /\ ret \in {"noRead", "continue"}

LoanAsked == \E n \in 1 .. Len(events) : events[n] = "loanStart"

\* The program ended in a frame, because a wait was over before its loan had begun.
EndedEarly == ~Alive /\ ~draining /\ LoanAsked

\* The two states of the interpreter are never exchanged out of turn, and no
\* dialogue command is used where it is not allowed: errorAndExit is reached
\* (ScriptState's four functions, d_continue, [*] and [#]) by no other way than a wait
\* that ends in the frame between its command and its loan (ConstantRefresh.cpp:52).
NeverWonky == Alive \/ EndedEarly

One(b) == IF b THEN 1 ELSE 0
Turns == Cardinality({n \in 1 .. Len(events) : events[n] \in {"first", "next"}})

\* While a dialogue is ready there is exactly one thing that will make it take
\* its next part: an event, a segment being drawn, a command being executed, an
\* action being waited for or a d_continue.  With none it would hang, with two it
\* would run ahead of its text (every place that emplaces an event).
OneContinuation ==
  ready /\ Alive =>
    Turns + One(monitor \notin {NoMonitor, segment}) + One(executing)
      + (IF executing THEN 0 ELSE inlineWaits) + One(Suspended) = 1

\* What a script has to keep to: it begins no dialogue beside another, continues
\* only one that is active, does not wait while it runs on loan, and uses [*] and
\* [#] only in a dialogue begun with d2.
KeepsRules ==
  /\ Run("d") \/ Run("d2") => ~ready
  /\ Run("d_continue") => active
  /\ Run("wait") => ~loan
  /\ active /\ position < Len(parts) /\ Part.kind \in {"star", "hash"} => d2

(***************************************************************************)
(* Script and dialogue are the two parties of Duet.                        *)
(***************************************************************************)
ScriptSide == IF InDialogue(interpreter) THEN interpreter.kept ELSE interpreter.cur
DialogueSide ==
  IF interpreter.swaps = 0 THEN Nobody
  ELSE IF InDialogue(interpreter) THEN interpreter.cur ELSE interpreter.kept

Rest(routine) == IF routine # <<>> /\ Head(routine) = "gosub" THEN Tail(routine) ELSE routine

\* The dialogue is over and the main loop has still to read a token.
Leaving == draining /\ ret = "continue"

Doing ==
  IF ~active THEN IF Leaving THEN "over" ELSE "off"
  ELSE IF ~ready THEN "fed"
  ELSE IF executing THEN "routine"
  ELSE IF Turns > 0 THEN "nothing"
  ELSE IF inlineWaits > 0 THEN "wait"
  ELSE IF Suspended THEN "star"
  ELSE "text"

TheDuet == INSTANCE Duet WITH
  pc <- ScriptSide.pc, own <- Rest(ScriptSide.routine), waits <- scriptWaits,
  at <- position, routine <- Rest(DialogueSide.routine), doing <- Doing,
  resting <- loan \/ LoanAsked, alone <- ~d2, told <- pretold

\* Every command of the script and every part and command of the dialogue is
\* carried out once, in order, but for the command the script has come to when its
\* dialogue ends, which it passes over; and each side waits for the other where it
\* must and only there.
IsDuet == TheDuet!Spec

\* The script comes to its end, its dialogues with it, unless a wait ends before its
\* loan has begun.
ScriptEnds == <>((Ended /\ ~active) \/ EndedEarly)
=============================================================================

------------------------------ MODULE EventLoop ------------------------------
(***************************************************************************)
(* The way of an event from SDL to the script (Engine/Core/Event.cpp): the *)
(* event thread takes it from SDL's queue and hands it to the main thread, *)
(* which handles batches of events between frames, while the script        *)
(* carries out commands, waits for a click, for a time or for the voice on *)
(* channel 0, or waits for a sound to be loaded.  The end of the voice is  *)
(* itself an event, pushed by the mixer's thread.  Touch events, which are *)
(* held back to be grouped, and automode are left out.                     *)
(***************************************************************************)
EXTENDS Integers, Sequences

CONSTANTS
  UserTypes,    \* what the user does, of "click", "motion" and "quit"
  MaxEvents,    \* bound: the user acts, and preloaded sounds are played, while fewer happened
  MaxSounds,    \* bound: sounds the script loads
  HoverSounds,  \* buttons play a sound when the pointer is over them
  None

ASSUME EventAssumption ==
  /\ UserTypes \subseteq {"click", "motion", "quit"}
  /\ MaxEvents \in Nat /\ MaxSounds \in Nat
  /\ HoverSounds \in BOOLEAN
  /\ None \notin Nat

VARIABLES
  arrived,   \* events so far, which number them
  sdl,       \* SDL's queue, oldest first, as all queues here
  inHand,    \* the event fetchEventsToQueue works on, or none
  peeked,    \* it has looked behind that event
  fetched,   \* fetchedEventQueue
  flag,      \* eventsArrived
  local,     \* localEventQueue, but for
  marks,     \* the marks of handleSDLEvents, which are behind all else in it
  pc,        \* the main thread; "after" and "broken" tell endOfEventBatch
  call,      \* who called waitEvent: "step", "click" or "load"
  mode,      \* event_mode when no action waits: "idle" or "input"
  action,    \* the constant refresh action the script waits for
  button,    \* current_button_state: the click in it if it is valid
  handled,   \* the last event handled
  exiting,   \* exitCode is set, the exit is put off
  mixer,     \* the sound channel 0 plays
  sample,    \* wave_sample[0]
  preloaded, \* channel_preloaded[0]
  paused,    \* Mix_Pause held channel 0
  loading,   \* the sound playSoundThreaded waits for
  sounds     \* sounds loaded so far, which number them

queueVars == <<arrived, sdl, inHand, peeked, fetched, flag>>
loopVars == <<pc, call, mode>>
inputVars == <<action, button, handled>>
soundVars == <<mixer, paused, sample, preloaded, loading, sounds>>
vars == <<queueVars, local, marks, loopVars, inputVars, exiting, soundVars>>

(***************************************************************************)
(* Events happen.                                                          *)
(***************************************************************************)
Happen(t) ==
  /\ sdl' = Append(sdl, [type |-> t, id |-> arrived + 1])
  /\ arrived' = arrived + 1

UserActs ==
  /\ arrived < MaxEvents
  /\ pc # "stopped"
  /\ \E t \in UserTypes : Happen(t)
  /\ UNCHANGED <<inHand, peeked, fetched, flag, local, marks, loopVars, inputVars, exiting, soundVars>>

\* The mixer's thread calls waveCallback when the sound is over.
VoiceFinishes ==
  /\ mixer # None /\ ~paused
  /\ mixer' = None
  /\ Happen("chunk")
  /\ UNCHANGED <<inHand, peeked, fetched, flag, local, marks, loopVars, inputVars, exiting,
                 paused, sample, preloaded, loading, sounds>>

(***************************************************************************)
(* fetchEventsToQueue, on the event thread.                                *)
(***************************************************************************)
Fetch ==
  /\ inHand = <<>> /\ sdl # <<>>
  /\ inHand' = <<Head(sdl)>> /\ sdl' = Tail(sdl)
  /\ UNCHANGED <<arrived, peeked, fetched, flag, local, marks, loopVars, inputVars, exiting, soundVars>>

MotionFollows ==
  inHand[1].type = "motion" /\ sdl # <<>> /\ Head(sdl).type = "motion"

\* Of motions in a row the last is kept.
Merge ==
  /\ inHand # <<>> /\ ~peeked
  /\ MotionFollows
  /\ inHand' = <<Head(sdl)>> /\ sdl' = Tail(sdl)
  /\ UNCHANGED <<arrived, peeked, fetched, flag, local, marks, loopVars, inputVars, exiting, soundVars>>

Peek ==
  /\ inHand # <<>> /\ ~peeked
  /\ ~MotionFollows
  /\ peeked' = TRUE
  /\ UNCHANGED <<arrived, sdl, inHand, fetched, flag, local, marks, loopVars, inputVars, exiting, soundVars>>

\* pushEvent: the event and the flag, under the lock.
PushFetched ==
  /\ inHand # <<>> /\ peeked
  /\ fetched' = fetched \o inHand /\ inHand' = <<>> /\ peeked' = FALSE
  /\ flag' = TRUE
  /\ UNCHANGED <<arrived, sdl, local, marks, loopVars, inputVars, exiting, soundVars>>

EventThread == Fetch \/ Merge \/ Peek \/ PushFetched

(***************************************************************************)
(* The main thread takes them over.                                        *)
(***************************************************************************)
\* Mutant: the fetched events go to the wrong end.
UpdatedAtWrongEnd == IF flag THEN fetched \o local ELSE local

\* updateEventQueue: what localEventQueue is after it.
Updated == IF flag THEN local \o fetched ELSE local

UpdateEventQueue ==
  /\ flag' = FALSE
  /\ fetched' = IF flag THEN <<>> ELSE fetched

\* Mutant: nothing marks the end of the batch.
OnlyUpkeep == <<"upkeep">>

BatchMarks == <<"upkeep", "batchEnd">>

\* handleSDLEvents, first half.
BeginBatch ==
  /\ pc = "batch"
  /\ UpdateEventQueue
  /\ local' = Updated /\ marks' = BatchMarks
  /\ pc' = "pop"
  /\ UNCHANGED <<arrived, sdl, inHand, peeked, call, mode, inputVars, exiting, soundVars>>

\* handleSDLEvents, second half, takes the marks out; and waitEvent decides to go on.
EndBatch ==
  /\ pc \in {"after", "broken"}
  /\ marks' = <<>>
  /\ pc' = IF call = "click" /\ pc = "after" THEN "frame"
           ELSE IF call = "load" THEN "load" ELSE "script"
  /\ UNCHANGED <<queueVars, local, call, mode, inputVars, exiting, soundVars>>

(***************************************************************************)
(* runEventLoop: one event, first for the action the script waits for,     *)
(* then for the default handler, whose answer alone ends the batch.        *)
(***************************************************************************)
\* Mutant: only the sound is asked for, not the mixer.
SoundIsThere == sample # None /\ ~paused

VoicePlays == sample # None /\ mixer # None /\ ~paused

\* A button wait for the voice is over with it.
HeardOut(a, plays) ==
  IF a # None /\ a.type = "button" /\ a.voiced /\ ~a.timed /\ ~plays
  THEN [a EXCEPT !.timed = TRUE, !.due = TRUE]
  ELSE a

\* The oldest event is of type t, and is popped.
Pop(t) ==
  /\ pc = "pop" /\ ~exiting
  /\ local # <<>> /\ Head(local).type = t
  /\ local' = Tail(local) /\ handled' = Head(local).id
  /\ UNCHANGED marks

\* The events are handled up to a mark.
Reached(mark) ==
  /\ pc = "pop" /\ ~exiting
  /\ local = <<>> /\ marks # <<>> /\ Head(marks) = mark
  /\ marks' = Tail(marks)
  /\ UNCHANGED local

HandlingLeaves == UNCHANGED <<queueVars, call, mode, exiting>>

Answered(a, id) ==
  IF a = None \/ ~a.clickable THEN a
  ELSE [a EXCEPT !.ended = TRUE, !.answer = id]

\* mousePressEvent: the default handler passes over input an action waits for.
HandleClick ==
  /\ Pop("click")
  /\ button' = Head(local).id
  /\ action' = Answered(action, Head(local).id)
  /\ pc' = IF action = None /\ mode = "input" THEN "broken" ELSE "pop"
  /\ HandlingLeaves
  /\ UNCHANGED soundVars

\* The tail of the handler of an action: a button wait takes a click that is still known.
AfterButton(a, plays) ==
  IF a # None /\ a.type = "button" /\ button # None
  THEN Answered(a, button) ELSE HeardOut(a, plays)

\* mouseMoveEvent: a button wait looks for the button under the pointer, whose
\* sound is loaded in a loop of its own.
HandleMotion ==
  /\ Pop("motion")
  /\ action' = AfterButton(action, VoicePlays)
  /\ pc' \in IF HoverSounds /\ action # None /\ action.type = "button"
             THEN {"pop", "nested"} ELSE {"pop"}
  /\ HandlingLeaves
  /\ UNCHANGED <<button, soundVars>>

\* flushEventSub lets go of the sound unless it was preloaded.
Freed == sample # None /\ ~preloaded

FreeSample ==
  /\ sample' = None
  /\ mixer' = None /\ paused' = FALSE

HandleChunk ==
  /\ Pop("chunk")
  /\ IF Freed THEN FreeSample ELSE UNCHANGED <<sample, mixer, paused>>
  /\ action' = AfterButton(action, VoicePlays /\ ~Freed)
  /\ HandlingLeaves
  /\ UNCHANGED <<pc, button, preloaded, loading, sounds>>

\* endCommand, and requestQuit: the exit waits while a sound is loaded.
HandleQuit ==
  /\ Pop("quit")
  /\ IF call = "load" THEN exiting' = TRUE /\ UNCHANGED pc
                      ELSE pc' = "stopped" /\ UNCHANGED exiting
  /\ UNCHANGED <<queueVars, call, mode, action, button, soundVars>>

HandleUpkeep ==
  /\ Reached("upkeep")
  /\ HandlingLeaves
  /\ UNCHANGED <<pc, inputVars, soundVars>>

HandleBatchEnd ==
  /\ Reached("batchEnd")
  /\ pc' = "after"
  /\ HandlingLeaves
  /\ UNCHANGED <<inputVars, soundVars>>

\* An event taken from the queue after the request to quit is not handled, the request
\* is made again.
DropWhenExiting ==
  /\ pc = "pop" /\ exiting
  /\ \/ /\ local # <<>>
        /\ local' = Tail(local) /\ handled' = Head(local).id
        /\ UNCHANGED marks
     \/ /\ local = <<>> /\ marks # <<>>
        /\ marks' = Tail(marks)
        /\ UNCHANGED <<local, handled>>
  /\ pc' = IF call = "load" THEN "broken" ELSE "stopped"
  /\ HandlingLeaves
  /\ UNCHANGED <<action, button, soundVars>>

Handle ==
  \/ HandleClick \/ HandleMotion \/ HandleChunk \/ HandleQuit
  \/ HandleUpkeep \/ HandleBatchEnd \/ DropWhenExiting

(***************************************************************************)
(* waitEvent: a frame of the constant refresh, then a batch of events.     *)
(***************************************************************************)
\* Mutant: the mode of the last wait stays.
ModeStays == mode

ModeOfAStep == "idle"

\* executeLabel, before every command.
StepFrame ==
  /\ pc = "script"
  /\ mode' = ModeOfAStep
  /\ call' = "step" /\ pc' = "frame"
  /\ UNCHANGED <<queueVars, local, marks, inputVars, exiting, soundVars>>

Expired(a) == IF a.type = "voice" THEN ~VoicePlays ELSE a.timed /\ a.due

\* Mutant: only the time is looked at.
RunOut(a) == Expired(a)

Over(a) == a.ended \/ Expired(a)

\* advanceGameState: handleRegisteredActions erases the actions that are over.
Frame ==
  /\ pc = "frame"
  /\ action' = IF action # None /\ Over(action) THEN None ELSE action
  /\ pc' = "batch"
  /\ UNCHANGED <<queueVars, local, marks, call, mode, button, handled, exiting, soundVars>>

TimePasses ==
  /\ action # None /\ action.timed /\ ~action.due
  /\ action' = [action EXCEPT !.due = TRUE]
  /\ UNCHANGED <<queueVars, local, marks, loopVars, button, handled, exiting, soundVars>>

(***************************************************************************)
(* The commands of the script.                                             *)
(***************************************************************************)
\* scriptExecutionPermitted
Permitted == pc = "script" /\ action = None

\* clickCommand, doClickEnd
ClickWait ==
  /\ Permitted
  /\ mode' = "input"
  /\ call' = "click" /\ pc' = "frame"
  /\ UNCHANGED <<queueVars, local, marks, inputVars, exiting, soundVars>>

\* An action when it is created.  Two fields are read by properties only: since, the last
\* event handled by then (later ones may have arrived), and heard.
Action(type, clickable, timed) ==
  [type |-> type, clickable |-> clickable, timed |-> timed, due |-> FALSE, ended |-> FALSE,
   voiced |-> FALSE, heard |-> VoicePlays, since |-> handled, answer |-> None]

\* waitCommand, delayCommand, waitvoiceCommand
Wait ==
  /\ Permitted
  /\ action' \in {Action("wait", FALSE, TRUE), Action("delay", TRUE, TRUE),
                  Action("voice", FALSE, FALSE), Action("voice", TRUE, FALSE)}
  /\ UNCHANGED <<queueVars, local, marks, loopVars, button, handled, exiting, soundVars>>

\* Mutant: btnwait trusts the last click.
OldButton == button

NoButton == None

\* btnwaitCommand: btntime counts from the start unless the wait is for the text's
\* buttons, btntime2 then from the end of the voice.
BtnWait ==
  /\ Permitted
  /\ \E text \in BOOLEAN, btntime \in {"none", "btntime", "btntime2"} :
       action' = [Action("button", TRUE, ~text /\ btntime # "none")
                    EXCEPT !.voiced = text /\ btntime = "btntime2"]
  /\ button' = NoButton
  /\ UNCHANGED <<queueVars, local, marks, loopVars, handled, exiting, soundVars>>

\* The events on their way.
Pending == local \o fetched \o inHand \o sdl
PendingType(t) == \E i \in DOMAIN Pending : Pending[i].type = t

\* stopDWAVE pauses the channel and lets go of its sound unless it was preloaded; a
\* sound nobody has is silenced by Mix_FreeChunk.
StopSound(kept) ==
  IF sample = None THEN UNCHANGED <<sample, mixer, paused>>
  ELSE IF kept THEN paused' = (mixer # None) /\ UNCHANGED <<sample, mixer>>
  ELSE FreeSample

\* dwaveCommand of a new sound, up to the wait of playSoundThreaded for it.
Dwave ==
  /\ Permitted /\ sounds < MaxSounds
  /\ \E preload \in BOOLEAN : preloaded' = preload
  /\ StopSound(FALSE)
  /\ sounds' = sounds + 1 /\ loading' = sounds + 1
  /\ pc' = "load"
  /\ UNCHANGED <<queueVars, local, marks, call, mode, inputVars, exiting>>

\* playWave, on the sound thread, whatever events are on their way.
PlayWave ==
  /\ pc = "load" /\ loading # None
  /\ sample' = loading
  /\ mixer' = IF preloaded THEN None ELSE loading
  /\ paused' = FALSE
  /\ loading' = None
  /\ UNCHANGED <<queueVars, local, marks, loopVars, inputVars, exiting, preloaded, sounds>>

LoadFrame ==
  /\ pc = "load" /\ loading # None
  /\ mode' = "idle"
  /\ call' = "load" /\ pc' = "frame"
  /\ UNCHANGED <<queueVars, local, marks, inputVars, exiting, soundVars>>

\* preventExit(false) carries out the exit that was put off.
LoadReturn ==
  /\ pc = "load" /\ loading = None
  /\ pc' = IF exiting THEN "stopped" ELSE "script"
  /\ UNCHANGED <<queueVars, local, marks, call, mode, inputVars, exiting, soundVars>>

\* dwaveplay of a preloaded sound; a sound it cuts off ends as any other.
DwavePlay ==
  /\ Permitted /\ preloaded /\ arrived < MaxEvents
  /\ mixer' = sample /\ paused' = FALSE
  /\ IF mixer = None THEN UNCHANGED <<sdl, arrived>> ELSE Happen("chunk")
  /\ UNCHANGED <<inHand, peeked, fetched, flag, local, marks, loopVars, inputVars, exiting,
                 sample, preloaded, loading, sounds>>

DwaveStop ==
  /\ Permitted /\ sample # None
  /\ StopSound(preloaded)
  /\ UNCHANGED <<queueVars, local, marks, loopVars, inputVars, exiting, preloaded, loading, sounds>>

\* Mutant: the quit is looked for before the new events are taken over.
QuitWasThere == \E i \in DOMAIN local : local[i].type = "quit"

QuitTaken == \E i \in DOMAIN Updated : Updated[i].type = "quit"

\* resetCommand, and what resetSub does to the channel
Reset ==
  /\ Permitted
  /\ UpdateEventQueue
  /\ IF QuitTaken
     THEN pc' = "stopped" /\ local' = Updated /\ UNCHANGED <<sample, mixer, paused, preloaded>>
     ELSE local' = <<>> /\ StopSound(FALSE) /\ preloaded' = FALSE /\ UNCHANGED pc
  /\ UNCHANGED <<arrived, sdl, inHand, peeked, marks, call, mode, inputVars, exiting,
                 loading, sounds>>

Command == ClickWait \/ Wait \/ BtnWait \/ Dwave \/ DwavePlay \/ DwaveStop \/ Reset
MainStep == StepFrame \/ Frame \/ BeginBatch \/ Handle \/ EndBatch \/ LoadFrame \/ LoadReturn

-----------------------------------------------------------------------------
Init ==
  /\ arrived = 0 /\ sdl = <<>> /\ inHand = <<>> /\ peeked = FALSE
  /\ fetched = <<>> /\ flag = FALSE /\ local = <<>> /\ marks = <<>>
  /\ pc = "script" /\ call = "step" /\ mode = "idle"
  /\ action = None /\ button = None /\ handled = 0 /\ exiting = FALSE
  /\ mixer = None /\ paused = FALSE /\ sample = None /\ preloaded = FALSE
  /\ loading = None /\ sounds = 0

Next ==
  \/ UserActs \/ VoiceFinishes \/ TimePasses
  \/ EventThread
  \/ MainStep \/ Command
  \/ PlayWave

Spec == Init /\ [][Next]_vars

\* The threads run and frames follow each other; a sound ends and time passes.  The
\* sound thread gets playSoundThreadedLock, which the main thread gives up between
\* two frames, in the end.
Fairness ==
  /\ WF_vars(EventThread) /\ WF_vars(MainStep)
  /\ WF_vars(VoiceFinishes) /\ WF_vars(TimePasses)
  /\ SF_vars(PlayWave)

FairSpec == Spec /\ Fairness

-----------------------------------------------------------------------------
(***************************************************************************)
(* Properties.                                                             *)
(***************************************************************************)
Stream == INSTANCE EventStream WITH pending <- Pending, Type <- UserTypes \cup {"chunk"}

\* Through three queues and two threads, over all waits, no event is lost, repeated or
\* overtaken, but for motions in a row and what a reset clears, and never a quit
\* (Event.cpp:173-266, 1462, Command.cpp:1162-1169).
IsEventStream == Stream!Spec

\* runEventLoop takes the last event of the list without looking (Event.cpp:1462): the
\* marks of the batch must outlast every return from it.
NeverPopsEmpty == pc = "pop" => local \o marks # <<>>

\* While an action waits for the input, no wait of the old kind does: the mode a click
\* command left was taken back before the next command (Event.cpp:1487, ONScripter.cpp:1849).
InputGoesToOne ==
  (action # None /\ pc = "pop" /\ local # <<>> /\ Head(local).type = "click") => mode = "idle"

\* A click that was handled before a wait began never answers it, so that none answers two
\* waits, though the click is kept in a variable across commands and batches.  One that was
\* made before and is still in a queue is later than the wait for the program and does
\* answer it (Command.cpp:3275, Event.cpp:1693-1696).
HandledClickAnswersNone ==
  (action # None /\ action.answer # None) => action.answer > action.since

\* "This plays "test.wav" in channel 0 just once": handling the end of a sound neither stops
\* the sound that plays by now nor takes a preloaded one away (Event.cpp:105-112).
EndStopsNoOther ==
  [][(local # <<>> /\ Head(local).type = "chunk" /\ handled' # handled)
     => mixer' = mixer /\ (preloaded => sample' = sample)]_vars

\* A wait a click can end is ended by a click that is on its way, in whatever batch it
\* comes and whatever the voice does (Event.cpp:522-535, 1481-1490, 1693-1696).
ClickEndsWait ==
  /\ ((action # None /\ action.clickable /\ PendingType("click"))
        ~> (action = None \/ pc = "stopped"))
  /\ ((call = "click" /\ pc = "frame" /\ PendingType("click"))
        ~> pc \in {"script", "stopped"})

\* A wait for the voice that was playing when it began is over when the voice is, though
\* the end is told to the actions through an event (ConstantRefresh.cpp:71-84,
\* Event.cpp:1582-1590, 1697-1714).
VoiceEndsWait ==
  (action # None /\ action.heard /\ (action.type = "voice" \/ action.voiced))
    ~> (action = None \/ pc = "stopped")

\* A request to quit is honoured, also one made while a sound is loaded and one a reset
\* finds (Event.cpp:1467-1470, ONScripter.cpp:2571-2584, ONScripter.hpp:1572-1576).
QuitHonoured == PendingType("quit") ~> pc = "stopped"

\* The event loop is not entered from one of its handlers (Event.cpp:285).
LoopNotReentered == pc # "nested"
=============================================================================

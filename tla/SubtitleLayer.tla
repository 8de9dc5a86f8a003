----------------------------- MODULE SubtitleLayer -----------------------------
(***************************************************************************)
(* Subtitles (Engine/Layers/Subtitle): the subtitle thread renders the     *)
(* picture of one moment after another and queues it when it differs from  *)
(* the one before; the script thread, drawing a frame, waits until the     *)
(* decoder is ahead of the display and takes the last picture that is not  *)
(* in the future.  All layers share one instruction queue, hence one       *)
(* thread, and an instruction lasts as long as its layer plays.            *)
(* Times are numbers; a picture is the time it was rendered for.           *)
(***************************************************************************)
EXTENDS Naturals, Sequences, FiniteSets, FiniteSetsExt, SequencesExt

CONSTANTS
  Layer,             \* the subtitle layers a script defined
  FrameQueueMaxSize, \* frameQueueMaxSize
  Rate,              \* decode_rate
  Frame,             \* nanosPerFrame
  MaxLag,            \* frames that may pass between two updates
  Horizon,           \* bound: the last time considered
  MaxLoads,          \* bound: number of ssa_load
  Files,             \* the files: the times at which the picture changes
  None               \* no picture, no layer, the initial current_timestamp

ASSUME SubtitleAssumption ==
  /\ FrameQueueMaxSize \in Nat \ {0} /\ Rate \in Nat \ {0} /\ Frame \in Nat \ {0}
  /\ MaxLag \in Nat \ {0} /\ Horizon \in Nat /\ MaxLoads \in Nat
  /\ Files \subseteq SUBSET {t \in 0..Horizon : t % Rate = 0}
  /\ None \notin Nat /\ None \notin Layer

VARIABLES
  changes,   \* the times at which the file's picture changes
  open,      \* threadSemaphore and frameQueueMutex exist, playback
  sem,       \* threadSemaphore
  finish,    \* should_finish
  decoded,   \* decoded_timestamp
  display,   \* display_timestamp
  current,   \* current_timestamp
  frames,    \* frameQueue: the times and whether something is drawn
  picture,   \* what current_frame shows
  jobs,      \* loadFramesQueue[SubsEntry].q
  dec,       \* the subtitle thread: its layer, where it is, the frame in hand
  mpc,       \* the script thread: what it does and with which layer
  shutdown,  \* threadShutdownRequested
  loads      \* history: number of loads

perLayer == <<changes, open, sem, finish, decoded, display, current, frames, picture>>
vars == <<perLayer, jobs, dec, mpc, shutdown, loads>>

Times == {t \in 0..Horizon : t % Rate = 0}
Idle == [at |-> "idle", layer |-> None]
Script == [op |-> "script", layer |-> None]
ZeroFrame == [start |-> 0, drawn |-> FALSE]

Init ==
  /\ changes = [l \in Layer |-> {}]
  /\ open = [l \in Layer |-> FALSE]
  /\ sem = [l \in Layer |-> 0]
  /\ finish = [l \in Layer |-> FALSE]
  /\ decoded = [l \in Layer |-> 0]
  /\ display = [l \in Layer |-> 0]
  /\ current = [l \in Layer |-> None]
  /\ frames = [l \in Layer |-> <<>>]
  /\ picture = [l \in Layer |-> None]
  /\ jobs = <<>> /\ dec = Idle /\ mpc = Script /\ shutdown = FALSE /\ loads = 0

Full(l) == Len(frames[l]) >= FrameQueueMaxSize

-----------------------------------------------------------------------------
(* The subtitle thread *)

Step(from, to) == dec.at = from /\ dec' = [dec EXCEPT !.at = to]

\* The thread takes the next instruction; doDecoding begins.
TakeJob ==
  /\ dec = Idle /\ jobs # <<>>
  /\ dec' = [at |-> "room", layer |-> Head(jobs)]
  /\ jobs' = Tail(jobs)
  /\ UNCHANGED <<perLayer, mpc, shutdown, loads>>

\* Mutant: the flags are looked at only when there is room.
AwaitRoomFirst ==
  /\ dec.at = "room" /\ ~Full(dec.layer)
  /\ Step("room", IF shutdown \/ finish[dec.layer] THEN "post" ELSE "extract")
  /\ UNCHANGED <<perLayer, jobs, mpc, shutdown, loads>>

\* doDecoding: the loop that waits for room and looks at both flags.
AwaitRoom ==
  /\ \/ /\ Step("room", "post")
        /\ shutdown \/ finish[dec.layer]
        /\ finish' = [finish EXCEPT ![dec.layer] = TRUE]
     \/ /\ Step("room", "extract")
        /\ ~shutdown /\ ~finish[dec.layer] /\ ~Full(dec.layer)
        /\ UNCHANGED finish
  /\ UNCHANGED <<changes, open, sem, decoded, display, current, frames, picture, jobs, mpc, shutdown, loads>>

\* doDecoding: the second look at should_finish, then extractFrame.
Extract ==
  /\ \/ Step("extract", "post") /\ finish[dec.layer]
     \/ /\ Step("extract", IF decoded[dec.layer] \in changes[dec.layer] THEN "push" ELSE "advance")
        /\ ~finish[dec.layer] /\ decoded[dec.layer] < Horizon
  /\ UNCHANGED <<perLayer, jobs, mpc, shutdown, loads>>

\* Mutant: the frame is labelled with the end of its interval.
PushLate ==
  /\ Step("push", "advance")
  /\ frames' = [frames EXCEPT ![dec.layer] =
                  Append(@, [start |-> decoded[dec.layer] + Rate, drawn |-> TRUE])]
  /\ UNCHANGED <<changes, open, sem, finish, decoded, display, current, picture, jobs, mpc, shutdown, loads>>

\* doDecoding: a changed picture goes into the queue, under the mutex.
Push ==
  /\ Step("push", "advance")
  /\ frames' = [frames EXCEPT ![dec.layer] = Append(@, [start |-> decoded[dec.layer], drawn |-> TRUE])]
  /\ UNCHANGED <<changes, open, sem, finish, decoded, display, current, picture, jobs, mpc, shutdown, loads>>

\* doDecoding: the next moment, whether or not a frame was queued.
Advance ==
  /\ Step("advance", "room")
  /\ decoded' = [decoded EXCEPT ![dec.layer] = @ + Rate]
  /\ UNCHANGED <<changes, open, sem, finish, display, current, frames, picture, jobs, mpc, shutdown, loads>>

\* doDecoding returns.
PostEnd ==
  /\ dec.at = "post"
  /\ sem' = [sem EXCEPT ![dec.layer] = @ + 1]
  /\ dec' = Idle
  /\ UNCHANGED <<changes, open, finish, decoded, display, current, frames, picture, jobs, mpc, shutdown, loads>>

DoDecoding == TakeJob \/ AwaitRoom \/ Extract \/ Push \/ Advance \/ PostEnd

-----------------------------------------------------------------------------
(* The script thread *)

\* update: clockProceed moves the display, by no frame while the layer does not play.
Tick(l) ==
  /\ mpc = Script /\ open[l]
  /\ \E n \in 1..MaxLag :
       /\ display[l] + n * Frame + Rate <= Horizon
       /\ display' = [display EXCEPT ![l] = @ + n * Frame]
  /\ mpc' = [op |-> "update", layer |-> l]
  /\ UNCHANGED <<changes, open, sem, finish, decoded, current, frames, picture, jobs, dec, shutdown, loads>>

\* update's waiting loop ends: the decoder is ahead of the display.
Ahead(l) == decoded[l] >= Rate /\ decoded[l] - Rate >= display[l]

\* The place of the last frame that is not in the future.
Chosen(l) == Cardinality({i \in 1..Len(frames[l]) : frames[l][i].start <= display[l]})

\* Mutant: a full queue does not end the wait.
ShowWhenAhead(l) ==
  /\ mpc = [op |-> "update", layer |-> l]
  /\ Ahead(l)
  /\ LET f == frames[l][Chosen(l)]
     IN  /\ current' = [current EXCEPT ![l] = f.start]
         /\ picture' = [picture EXCEPT ![l] =
              IF f.start = current[l] THEN @ ELSE IF f.drawn THEN f.start ELSE None]
  /\ frames' = [frames EXCEPT ![l] =
                  IF Chosen(l) > 2 THEN SubSeq(@, Chosen(l) - 1, Len(@)) ELSE @]
  /\ mpc' = Script
  /\ UNCHANGED <<changes, open, sem, finish, decoded, display, jobs, dec, shutdown, loads>>

\* update, from the end of the wait: choose, draw if the time differs from the
\* last one drawn, and drop what precedes the frame before the chosen one.
Show(l) ==
  /\ mpc = [op |-> "update", layer |-> l]
  /\ Ahead(l) \/ Full(l)
  /\ LET f == frames[l][Chosen(l)]
     IN  /\ current' = [current EXCEPT ![l] = f.start]
         /\ picture' = [picture EXCEPT ![l] =
              IF f.start = current[l] THEN @ ELSE IF f.drawn THEN f.start ELSE None]
  /\ frames' = [frames EXCEPT ![l] =
                  IF Chosen(l) > 2 THEN SubSeq(@, Chosen(l) - 1, Len(@)) ELSE @]
  /\ mpc' = Script
  /\ UNCHANGED <<changes, open, sem, finish, decoded, display, jobs, dec, shutdown, loads>>

\* stopPlayback begins: ssa_stop, ssa_load, or the layer's destructor.
StopPlayback(l, op) ==
  /\ mpc = Script
  /\ op = "load" => loads < MaxLoads
  /\ mpc' = [op |-> op, layer |-> l]
  /\ finish' = [finish EXCEPT ![l] = open[l]]
  /\ UNCHANGED <<changes, open, sem, decoded, display, current, frames, picture, jobs, dec, shutdown, loads>>

\* endDecoding has waited for the thread, if there is one.
Waited(l) == open[l] => sem[l] > 0

\* ssa_stop, a failed ssa_load, or the deletion of the layer, after the wait; a layer
\* defined again is a new object.
Stopped(l) ==
  /\ mpc.layer = l /\ mpc.op \in {"stop", "load", "delete"} /\ Waited(l)
  /\ open' = [open EXCEPT ![l] = FALSE]
  /\ sem' = [sem EXCEPT ![l] = 0]
  /\ finish' = [finish EXCEPT ![l] = FALSE]
  /\ frames' = [frames EXCEPT ![l] = <<>>]
  /\ picture' = [picture EXCEPT ![l] = None]
  /\ current' = [current EXCEPT ![l] = IF mpc.op = "delete" THEN None ELSE @]
  /\ changes' = [changes EXCEPT ![l] = {}]
  /\ mpc' = Script
  /\ UNCHANGED <<decoded, display, jobs, dec, shutdown, loads>>

\* Mutant: should_finish stays raised.
StartStillFinished(l) ==
  /\ mpc = [op |-> "load", layer |-> l] /\ Waited(l)
  /\ changes' \in {[changes EXCEPT ![l] = c] : c \in Files}
  /\ open' = [open EXCEPT ![l] = TRUE]
  /\ sem' = [sem EXCEPT ![l] = 0]
  /\ decoded' = [decoded EXCEPT ![l] = 0]
  /\ display' = [display EXCEPT ![l] = 0]
  /\ frames' = [frames EXCEPT ![l] = <<ZeroFrame>>]
  /\ picture' = [picture EXCEPT ![l] = None]
  /\ jobs' = Append(jobs, l)
  /\ mpc' = Script /\ loads' = loads + 1
  /\ UNCHANGED <<finish, current, dec, shutdown>>

\* loadSubtitles after stopPlayback, the file being readable: startDecoding.
\* current_timestamp keeps its value.
StartDecoding(l) ==
  /\ mpc = [op |-> "load", layer |-> l] /\ Waited(l)
  /\ changes' \in {[changes EXCEPT ![l] = c] : c \in Files}
  /\ open' = [open EXCEPT ![l] = TRUE]
  /\ sem' = [sem EXCEPT ![l] = 0]
  /\ finish' = [finish EXCEPT ![l] = FALSE]
  /\ decoded' = [decoded EXCEPT ![l] = 0]
  /\ display' = [display EXCEPT ![l] = 0]
  /\ frames' = [frames EXCEPT ![l] = <<ZeroFrame>>]
  /\ picture' = [picture EXCEPT ![l] = None]
  /\ jobs' = Append(jobs, l)
  /\ mpc' = Script /\ loads' = loads + 1
  /\ UNCHANGED <<current, dec, shutdown>>

\* AsyncController::endThreads: every thread is told to go and waited for ...
EndThreads ==
  /\ mpc = Script /\ ~shutdown
  /\ shutdown' = TRUE
  /\ mpc' = [op |-> "endThreads", layer |-> None]
  /\ UNCHANGED <<perLayer, jobs, dec, loads>>

\* ... and the instructions it did not take are dropped.
ThreadsEnded ==
  /\ mpc.op = "endThreads" /\ dec = Idle
  /\ jobs' = <<>> /\ shutdown' = FALSE /\ mpc' = Script
  /\ UNCHANGED <<perLayer, dec, loads>>

Proceed == (\E l \in Layer : Show(l) \/ Stopped(l) \/ StartDecoding(l)) \/ ThreadsEnded

Next ==
  \/ DoDecoding
  \/ Proceed
  \/ \E l \in Layer : Tick(l) \/ \E op \in {"stop", "load", "delete"} : StopPlayback(l, op)
  \/ EndThreads

\* The subtitle thread runs and the script thread goes on once it is inside a call.
Spec == Init /\ [][Next]_vars /\ WF_vars(DoDecoding) /\ WF_vars(Proceed)

-----------------------------------------------------------------------------
(* Properties *)

\* The thread works on a layer only while the layer's mutex and libass state exist, and
\* is not told to finish by a should_finish of an earlier file (Subtitle.cpp:80-87, 279-293).
DecoderOwnsItsLayer ==
  /\ dec # Idle => open[dec.layer]
  /\ \A l \in Layer : Contains(jobs, l) /\ mpc.layer # l => open[l] /\ ~finish[l]

\* The latest change that is not in the future.
Latest(l) == Max({0} \cup {t \in changes[l] : t <= display[l]})

\* What update draws, when the decoder was ahead, is the picture of the display time: no
\* change is skipped or shown early, whatever the two rates and however late the update
\* is (Subtitle.cpp:100-165).  A time equal to that of the last drawing, which may have
\* been one of an earlier file, draws nothing.
PictureIsCurrent ==
  [][\A l \in Layer : Show(l) /\ Ahead(l) /\ current[l] # Latest(l) =>
        picture'[l] = IF Latest(l) \in changes[l] THEN Latest(l) ELSE None]_vars

\* The thread is decoding for the layer, or will next.
Served(l) == dec.layer = l \/ (dec = Idle /\ jobs # <<>> /\ Head(jobs) = l)

\* update's loop ends if the thread serves this layer, so the answer to "may it deadlock
\* here on quit?" (Subtitle.cpp:108) is: only after endThreads, or for a second layer.
UpdateReturns ==
  \A l \in Layer :
    (mpc = [op |-> "update", layer |-> l] /\ Served(l)) ~> (mpc = Script)

\* endDecoding's wait ends if the thread serves this layer or has done so
\* (Subtitle.cpp:279-293); if endThreads dropped the instruction it does not.
StopReturns ==
  \A l \in Layer :
    (mpc.layer = l /\ mpc.op \in {"stop", "load", "delete"} /\ (Served(l) \/ Waited(l)))
      ~> (mpc = Script)
=============================================================================

# A verification development for the ONScripter-RU engine

ONScripter-RU runs visual novels: a *script thread* (the main thread) interprets a
script, draws frames and handles input, while helper threads load images and
sounds, decode movies and subtitles and fetch events.  This directory holds TLA+
models of the parts where these threads meet, the TLC configurations that check
them on small instances, and proofs, checked by TLAPS, of what holds for every
size.  Paths below are relative to `src/`; `PROJECT.json` maps every definition to
the lines it stands for.

Contents: [inventory](#inventory), [what is modelled](#what-is-modelled),
[runs](#runs), [bounds](#bounds), [fairness](#fairness), [proofs](#proofs),
[what the code does otherwise than it says](#what-the-code-does-otherwise-than-it-says),
[plan](#plan), [not modelled](#not-modelled).

## Inventory

| Component | State it keeps | Operations | What makes it correct |
|---|---|---|---|
| **Executor** `Engine/Components/Async` | per queue: instructions `q`, semaphores `instructionsWaiting` and `resultsWaiting`, `results`, `thread`, spin locks `lock`, `loopLock`, `resultsLock`; `threadShutdownRequested` | `queue` (through `cacheImage`, `cacheSound`, `loadImage`, `load*Frames`, `loadPacketArrays`, `playSound`), `asyncLoop`, `endThreads`, `startEventQueue`, and `clear_cache` reaching in | serial, in order, at most once; nobody waits for ever; nothing survives a reset |
| **Media pipeline** `Engine/Media`, `Engine/Layers/Media` | packet queues and two semaphores each; frame queues (`loadFramesQueue[e].results`) with `frameQueueSem`; `decoderWorkerCount`, `demuxComplete`, `initVideoTimecodesLock`, flags of decoders and demultiplexer; `videoState` | `loadVideo`, `loadPresentation`, `startProcessing`, `demultiplexStreams`, `decodeFrame`, `advanceVideoFrames`, `advanceAudioChunks`, `finish`, `stopPlayback` | bounded queues; every frame once and in order; the end is seen; stopping succeeds; nothing is used after its destruction |
| **Surface pool** `Engine/Graphics/Pool` | surfaces, each checked out or not | `addImages`, `getImage`, `giveImage`, destructor | bounded, no leak, no surface in two frames |
| **Audio bridge** `Support/AudioBridge` | current chunk and position, `startedToPlay` | `prepare`, `startPlayback`, `fillBuffers` (mixer callback), destructor | the buffer is filled without gap or overlap |
| **Subtitle layer** `Engine/Layers/Subtitle` | per layer `frameQueue`, three timestamps, `should_finish`, `threadSemaphore`; one thread for all layers | `loadSubtitles`, `doDecoding`, `update`, `endDecoding` | the frame shown is the latest not after the display time; both loops end; what is destroyed is not used |
| **Sound** `Engine/Core/Sound` | channels, music, `pending_cache_chunk`, `playSoundThreadedLock` | `playSoundThreaded`, `playSound`, `playWave`, `stopBGM` and the channel-finished callbacks | each caller gets its own result; no request inside a request |
| **Event loop** `Engine/Core/Event` | SDL's queue, `fetchedEventQueue`, `localEventQueue` and the marks of a batch, `event_mode`, `current_button_state`, `exitCode` | `fetchEventsToQueue` (thread), `handleSDLEvents`, `runEventLoop`, `endOfEventBatch`, `waitEvent` | no event lost, doubled or overtaken; each wait is ended by what should end it; every quit is honoured; not re-entered |
| **Caches** `Support/Cache`, `External/LRUCache` | sets of named images or sounds, unlimited or LRU | `add`, `get`, `remove`, `clear`, `makeLRU` | size bound; what was cleared stays cleared |
| **LimitedQueue** `External/LimitedQueue` | blocks of elements, head, tail, count | push, pop, `add` growing the array | a FIFO |
| **Dialogue** `Engine/Components/Dialogue` | parts of the text, processing and execution state, event queue, pipes, the interpreter's two states (`ScriptState`) | `processDialogueEvents`, `processDialogue`, `waitForAction`, `startLoanExecution`, `setDialogueActive`, the commands `d`, `d2`, `wait_on_d`, `d_continue` | every part and every command once and in order, on both sides; something always moves the dialogue on |
| **Dynamic properties** `Engine/Components/DynamicProperty` | queue of changes of a property; the sprite's new value and its old copy | `add*Property`, `advance`, `apply`, `terminate*Properties`, `waitOnPropertyGeneric` | a property rests where the script aimed it; waiters are released |
| **Constant refresh actions** `Engine/Entities/ConstantRefresh`, `Support/Clock` | list of actions with clocks and terminated flags | `advance`, `expired`, `terminate`, `onExpired` | a terminated action does not run; blocked scripts go on |
| **Sprites** `Engine/Entities/Animation`, `Engine/Core/Animation`, `Engine/Core/Image` | new state and old copy of each sprite | `backupState`, `commitState`, draw and refresh | a refresh of the old scene never shows new state |
| **Script handler and parser** `Engine/Handlers/Script`, `Engine/Core/Parser*` | position, variables, label log, read log, call stack | readers and commands, `gosub`, `return`, loops | matched frames; variable bounds |
| **Save and load** `Engine/Core/File` | save buffers | `saveSaveFile`, `loadSaveFile` | what is written is what is read |
| **Script commands** `Engine/Core/Command*`, `ONScripter` | the rest of the engine's state | about 700 commands, `resetSub`, `requestQuit` | the order of calls into the components above |
| **Others** | text layout, fonts, glyph atlas, effects, GPU wrapper, window, joystick, LUA, archive readers, files | | sequential, numeric or device code |

How they interact:

* The script thread calls `AsyncController::queue` under the queue's spin lock;
  worker threads return values through `results` (under `resultsLock`) and
  `resultsWaiting`.  A worker that wants to quit throws `ThreadTerminate` and leaves
  `exitCode` for the script thread, which acts on it in `preventExit` or in the
  event loop.
* A movie adds three resident instructions, one per decoder and one for the
  demultiplexer, which communicate by bounded queues and semaphores, and a mixer
  callback that takes audio frames.  The script thread takes video frames while it
  draws.  It stops the movie by calling `stopPlayback` until it returns true.
* Events pass from SDL through the event thread to the main thread, which handles
  them in batches between frames, inside the wait of whatever command runs; the end of
  a sound is itself an event, pushed by the mixer's thread.
* The script and a dialogue share one interpreter on the main thread.  The dialogue's
  inline commands exchange its state, an action they wait for gives it back on loan,
  and frames between two turns of the loop end waits and complete segments.
* The changes of a property are advanced by every frame, ended by skipping, and
  divided between the old and the new sprite by a commit, while a command waits.
* `resetSub` and quitting stop every thread by `endThreads` and reuse the same
  objects afterwards, so that what a thread leaves behind matters.

The hard behaviours are thus: threads created on demand that leave on their own,
semaphore counts that must match queue lengths over any history, waits with
timeouts that look at flags, flags lowered while somebody may not have read them,
objects destroyed while another thread is finishing, end marks that travel with the
data but not with the semaphores, retried shutdown, loops that handlers may enter
again, and a sequential interpreter whose owner is told apart by the parity of a counter.  Each is listed at its line
under `hazards` in `PROJECT.json`, with the properties that would catch it.

## What is modelled

### AsyncController, SerialExecutor

`AsyncController` has one record of each `AsyncInstructionQueue` field as a function
of the queue (`q`, `sem` for `instructionsWaiting`, `res` for `resultsWaiting`,
`results`, `thread`, `loopLock`), a program counter `pc[queue][slot]` for each
thread that can exist, and the script thread's `mpc`.  A queue may have several
thread identities at once because a thread clears `queue.thread` before it gives
`loopLock` back; `Slot` is their set.  The actions follow `asyncLoop` statement by
statement wherever another thread can act in between: `TakeLoopLock`,
`CheckShutdown`, `AwaitInstruction`, `Recheck`, `Fetch`, `Execute` or
`ExecuteFails`, `Post`, `Terminated`, `Bail`, `Exit`.  The script thread submits
(`Submit`), waits (`ResultArrives`, `PopResult`), withdraws queued loads
(`ClearCache`), and goes through `endThreads` one queue at a time (`RaiseFlag`,
`WakeThread`, `AwaitThreadEnd`, `Drain`, `Drained` or `ClearLeftovers`, `LowerFlag`)
followed by what its two callers do (`RestartEventQueue` and `ClearCacheQueues` for
`resetSub`, nothing for `ownDeinit`).

Abstractions: a section under `queue.lock` contains no wait (except the drain, which
is split) and is one step; `threadShutdownRequested`, a plain `bool`, is read and
written atomically; an instruction is a number and `execute` returns or throws;
`resultsWaiting` saturates at `ResCap`.  `endThreads` may run while a created thread
has not yet reached its first statement, which the code does nothing to exclude.  Such a
thread is met by nobody (`late`, a history variable that only properties read), and if
it reads the flag while it is up it leaves when it likes.

`SerialExecutor` is what clients may rely on: per queue a list of pending
instructions and the one running, in order, at most once, dropped only while none
of the queue runs (cache queues: at any time).  `IsSerialExecutor` is the refinement.

### MediaPipeline, FrameStream

`MediaPipeline` follows the four threads of a movie: the script thread (`mpc`), the
demultiplexer (`dmx`), the two decoders (`dpc[e]`), and the mixer callback (actions
guarded by `bridge`).  Packets and frames are numbered, `Null` is the null pointer
that ends a queue, `Blank` the packet of size 0 that flushes a codec.  `pq`, `spaces`
and `data` are `packetQueue` and its two semaphores, `results` and `frameSem` the
frame queues and theirs, `held`, `owed`, `packet`, `vf` what a thread has in its
hands between two statements, `tlock` the life of `initVideoTimecodesLock`
(count, destroyed, null).  `SDL_SemWaitTimeout` loops are two actions, the failed
wait and the look at the flags.  The file decides which stream the next packet
belongs to and when it ends; the codec yields frames in order and may hold back up
to `MaxDelay`.  `FrameStream` is the promise to the viewer: per stream, frames are
taken in order with none left out while the movie is open, and the end is seen only
when every video frame was taken.

### SurfacePool

`SurfacePool` is about the surfaces behind the frames: the pool's map (`pool`,
`out`), the surfaces of the frame in the decoder (`fresh`), of the queued frames and
of the frame being shown, and whether the latter was given back already (`given`).
`early` is a history variable: the surfaces handed out between the two times they are given back.
Every operation of the pool holds its lock and is one step.  It is a module of its
own, not part of `MediaPipeline`, because the two share only the queue bound, which
`SlotsConserved` justifies.

### SubtitleLayer

Two layers, one subtitle thread: `jobs` is the instruction queue, `dec` the thread
with its layer and the picture in hand (`doDecoding`: take an instruction, render, skip an
unchanged picture, wait for room, push, look at `should_finish`), `mpc` the script
thread in `update`, `endDecoding` or `endThreads`.  A file is the set of times at which its
picture changes, a picture the time it was rendered for.  `loadSubtitles` ends the previous
file first, in the same wait as `stopPlayback`.  libass and the blending of the picture are left out.

### EventLoop, EventStream

`EventLoop` follows an event from `sdl` through `inHand` and `peeked`
(`fetchEventsToQueue`, which looks behind a motion to merge it), `fetched` with its
`flag`, to `local` with the `marks` of the batch.  `pc` is where the main thread is in
`waitEvent`, `handleSDLEvents`, `runEventLoop` and `endOfEventBatch`, `call` who called: a
step of the script, a click command, or a load of a sound, which also wait in different
ways.  `action` is the constant refresh action the script waits for (`wait`, `delay`,
`waitvoice`, button waits with and without times), with what answered it; `mixer`, `sample`,
`preloaded`, `paused` and `loading` are channel 0.  Left out: touch events, which are held
back to be grouped, keys and wheels (the same commands), automode, click voices, sounds kept in
memory, `dwaveplay` of a sound that was not preloaded, trap handlers, the drawing of a frame.

`EventStream` is what the script relies on: one stream, in order, each event once, of
motions in a row the last one, nothing forgotten but by a reset, and a quit never.
`IsEventStream` is the refinement (`Pending` joins the queues).

### DynamicProperties

One property of a sprite, a spriteset or the scene: its value `now`, the value `old` of the old
sprite while a transition shows both, and the `queue` of changes, each absolute or relative,
linear, rotating or a wave, finite or endless, and perhaps marked as the new sprite's own.
`Frame` is `advance` and `apply` of the front change with everything they call, `Commit` is
`commitVisualState` with the `terminate` functions, `Skip` ends what skipping ends.  Left out:
other equations than linear, rotation and wave (they differ on the way, not at the end), the
quake's own wait in `addGlobalProperty`, the reset of a disabled spriteset, truncation to `int`.

### Dialogue, Duet

`Dialogue` is `DialogueController` together with the interpreter it shares: `interpreter` is the
position, the routine and the `ScriptState` that holds the other state, with the number of
exchanges, `wonky` when a function of it ended the program.  The script is a sequence of
commands, the dialogue of parts: text, built-in command, routine, `[*]`, `[#]`.  `ScriptCommand`
is one turn of `executeLabel`; `TakeControl` to `LeaveControl` is `processDialogueEvents`,
which empties the event queue in one go; `Frame` ends waits (`handleRegisteredActions`) and completes
segments (the text monitor).  Layout and the timing of glyphs become "a
segment may be completed".  Left out: `d_dispose`, `d_repaint`, LUA, routines
that are not interruptible, the event callback, `dialogue_add_ends`, and a `d` while a dialogue is ready.

`Duet` is what the two promise each other, without queue, exchanges and loans: each side
carries out its commands once and in order; a dialogue begun with `d` runs alone, one begun with
`d2` beside the script; they meet at `[*]` and `d_continue`, at `[#]` and `wait_on_d`.
`IsDuet` is the refinement.

## Runs

| Run | Result | Question |
|---|---|---|
| `MCExecutor` | holds | With a cache queue, the sound queue and its blocking caller, and the event queue, and `endThreads` also when threads were created and have not run: is every instruction run once, in order, or dropped for a reason; does every wait end; what is left after `endThreads`, and when does it not return? |
| `MCMedia` | holds | Do the semaphores match the queues, the end marks stay last, the decoders die after what uses them, and the frames come out in order, through play, stop, play again, seeking back, refused packets and failed loading? |
| `MCMediaLive` | holds | Does loading end with sound ahead of the pictures or with no pictures, is the end reached, does stopping succeed? |
| `MCSurfacePool` | holds | Are surfaces bounded, accounted for and freed, and is none in two frames? |
| `MCSubtitle` | holds | Is the picture that of the display time, is nothing used after it was destroyed, do `update` and `stopPlayback` return while the thread serves the layer? |
| `MCEvents` | holds | Do events reach the script in order and once, does no handled click answer a later wait, does every wait end, is every quit honoured? |
| `MCEventsVoice` | violated | Does the end of a sound leave the next one of its channel alone? |
| `MCEventsNested` | violated | Is the event loop never entered from one of its handlers, if buttons play a sound under the pointer? |
| `MCProperties` | holds | Does a property come to rest where the script aimed it, whatever frames, skips and commits do on the way, and do waiting commands return? |
| `MCPropertiesCommit` | violated | The same when a change for the new sprite is queued behind one of the sprite it replaced. |
| `MCDialogue` | holds | Do script and dialogue carry out everything once, in order and with their meetings; does every script end; is the interpreter exchanged out of turn in one case only? |
| `MCDialogueLoan` | violated | The last, for a script that waits while it has the interpreter on loan. |

The properties, by the code they are about:

* Executor.  `NoOrphan`: a queued instruction has a thread, but for a queue whose thread
  `endThreads` met too early and that has read the flag (`late`).  `SemCovers`: the semaphore
  covers the queue up to the instruction a thread is about to take.
  `NothingSurvivesEndThreads`: no instruction, queued or running, and no result after it, and
  of a queue that is not `late` no thread and no post either.  `UnlockedClearIsSafe`: what
  `resetSub` empties without locks is empty, and no thread is at work there.
  `OwnResult`: the value `playSoundThreaded` pops is its own.  `IsSerialExecutor`,
  `BlockingCallReturns`, `EveryInstructionTaken`: in order, and nobody waits for ever.
  `EndThreadsReturns`: unless it is suspended in its drain (`DrainSuspends`), which can
  happen to a queue that quits when dry.
* Movie.  `SpacesConserved`, `SlotsConserved`: semaphores plus contents plus what a
  thread holds make up the capacity.  `DecoderFindsItsPacket`: the unguarded retry in
  `decodeFrame` is never taken and the end mark never decoded.  `EndMarkIsLast`: the
  consumers never pop a null frame.  `NothingUsesDeadDecoders`: `finish` destroys the
  decoders only when no thread needs them.  `NoPostToDestroyedLock`: the timecode lock.
  `IsFrameStream`, `PlaybackStops`, `EndIsReached`.
* Surfaces.  `OutBelongsToAFrame`, `NothingIsLost`, `PoolIsBounded`; `OneFrameEach`: the
  decoder draws over no picture still to be shown, but for a surface handed out between the two
  times `update` gives it back.
* Subtitles.  `DecoderOwnsItsLayer`: the thread works only on a layer whose mutex and libass
  state exist, and no `should_finish` is left over for the next file.  `PictureIsCurrent`: no
  change is skipped, shown early or pruned.  `UpdateReturns`, `StopReturns`.
* Events.  `IsEventStream`; `NeverPopsEmpty`: the marks outlast every return from
  `runEventLoop`, which takes the last event without looking.  `InputGoesToOne`: waits of the
  old kind and actions do not claim a click together.  `HandledClickAnswersNone`: no wait is
  answered by a click handled before it began.  It says nothing of a click made before and still in
  a queue: for the program that one comes later, and it does answer (`Command.cpp:3275`).
  `EndStopsNoOther`: the end of a sound does not stop the next, which is violated.
  `ClickEndsWait`, `VoiceEndsWait`, `QuitHonoured`; `LoopNotReentered`.
* Properties.  `DestinationKept`: time and commits decide when a property comes to rest,
  never where.  `WaitReturns`.
* Dialogue.  `NeverWonky`: none of the calls that end the program is reached, but from a wait
  that is over in the frame before its loan (`EndedEarly`).
  `OneContinuation`: there is exactly one thing that makes a ready dialogue take its next part.
  `IsDuet`, `ScriptEnds`.

Every property of a passing run is paired in `PROJECT.json` with a mutant of the
code (a guard dropped, a post forgotten, a step left out) under which TLC finds it
violated; the mutants stand before the definitions they change.

## Bounds

* Executor: three queues, one of each kind (quits when dry, keeps its thread and
  answers, resident); two thread identities per queue, because a third cannot appear
  before the first has left (`OneServer` is proved for any number); two
  submissions and one reset, which is enough for an instruction to arrive in each
  state of a thread that is leaving, for two to be reordered, and for a call after a
  reset to meet leftovers of one before it.  `MaxSubmit`, `MaxResets` and `ResCap`
  are guards or saturations in the model and nothing depends on them otherwise.
* Movie: video buffers of one packet (audio twice that) make every queue fill up and
  drain; two video and three audio packets exceed them; `MaxDelay = 1` reaches all
  branches of the flush.  `Files` puts several files into one run: a plain one, and a looped one
  with a packet the codec refuses that may fail to open, in `loadVideo` or after it.  `MCMediaLive` uses one video and three
  audio packets so that the audio queue is full before the video arrives; `MinVideo = 0` lets the
  file end before that, when only the demultiplexer's last post ends the loading.  `MaxLaps = 1` is one
  successful seek and one failed one.
* `MinVideo` restricts `MCMedia` to files with more than `VideoPacketBufferSize`
  video packets.  For shorter files `NoPostToDestroyedLock` does not hold: the
  demultiplexer's last post can meet the lock while it is being destroyed.
* Surfaces: a buffer of three and six surfaces, one more than can be in use.
  Surfaces are interchangeable, hence the symmetry; so are threads, but the
  executor's run checks liveness and does without.
* Subtitles: times 0 to 4, a queue of three, up to two frames between updates, so that the
  queue fills, runs dry and is overtaken by the display; files that change always,
  rarely and irregularly; two loads, so that one follows another on the same layer or beside it.
* Events: two events of the user and two sounds.  Two is enough for a motion to be merged or
  kept apart, for a click to come before and during a wait or in one batch with a quit, and for
  a sound to begin while the end of another is in any of the queues.  `MCEventsVoice` needs no event
  of the user.
* Properties: three changes, one replacement, durations of zero and of three frames; a change can
  be queued, begun or over when another follows, when the sprite is replaced and at the commit.
* Dialogue: 462 scripts, made of dialogues of up to three parts of every kind beside a script
  that meets them, of up to two parts alone, pairs of dialogues in a row, and dialogues beside a
  script that has commands of its own when they end.  The scripts keep the rules of `KeepsRules`
  (TLC finds it invariant in this run); `MCDialogueLoan` shows what happens otherwise.

`CHECK_DEADLOCK FALSE` stands where the system may stop: scripts end, the program quits,
a script that uses subtitles wrongly hangs.

## Fairness

`AsyncController`: weak fairness of each thread's next step, and of the script
thread once it is inside a call.  Spin locks here have at most two contenders and
an operation blocked on one becomes permanently enabled when the other leaves, so
weak fairness is what a preemptive scheduler gives.  Nothing is assumed of what
the script or the player decide (`Script`).

`MediaPipeline`: weak fairness of the demultiplexer, of each decoder, of the mixer's
callback, of the script thread's progress inside a call, and of its taking frames
as it draws.  `StopPlayback` is fair only where the code retries it: after the end of
file (the refresh action calls it again) and while a stop that began has not
succeeded.  Nobody has to ask for a stop.

`SubtitleLayer`: weak fairness of the subtitle thread and of the script thread inside a call.

`EventLoop`: weak fairness of the event thread, of the main thread's next step (frames
included), of the end of a sound that plays, and of time in a wait that has one; strong fairness of
`PlayWave`, the step of the sound thread that starts a loaded sound: the model has it between the
frames of the load (`pc = "load"`), so that it is not enabled continuously, while
the thread it stands for runs on during the frames.

`DynamicProperties`: the loop of a waiting command runs frames and looks at its condition between
them (`DynamicProperty.cpp:285`).

`Dialogue`: weak fairness of the main loop, of the end of each wait, and of the completion of a
segment.  A wait for a click is covered by assuming that the player clicks in the end.

## Proofs

All theorems hold for every value of the constants that satisfies the assumptions named in
the modules.

`AsyncController_proofs`:

* `TypeCorrect`: `Spec => []TypeOK`.
* `OneServerAlways`: one thread serves a queue, the one `queue.thread` names.  It is not
  inductive alone, because `AwaitThreadEnd` takes `loopLock` for the script thread; with
  `MainLock` (the script thread owns exactly the `loopLock` of the queue it is tidying) it is.
* `NoOrphanAlways` and `NothingSurvives`, whatever threads `endThreads` meets: the invariant adds
  `ShutdownInv`: the flag is up exactly while `endThreads` runs, no thread of a queue
  that is not `late` is bailing while it is down, a terminated thread left `exitCode`, and every
  queue `endThreads` is `Past` has no instruction and no busy thread, and nothing at all if it
  is not `late`.  The last part is the argument: a queue stays empty because only the script
  thread submits, and it is busy; a thread that starts late finds nothing to take.
* `UnlockedClearIsSafeAlways`: `resetSub` clears the cache queues without their locks when they are
  empty and no thread carries out an instruction of theirs.
* `SemCoversAlways`.  The invariant `SemInv` says who holds `loopLock` in `endThreads`, that the
  flag is up there, that no thread is inside a queue that is past, that a resident instruction
  does not wait, and `AllCovered`, the count of posts with what remains when a thread that consumed one
  bails out.  From it `DrainIsCoveredAlways`: the drain is suspended by no queue that posts its
  semaphore, that is, by none but one of `QuitOnEmpty`.
* `OwnResultAlways`: a blocking call pops the result of its own instruction, although instructions
  fail and `endThreads` takes others away.  `OwnResult` speaks of the moment of the pop; the invariant
  follows the one instruction the script thread waits for from the queue through a thread's hands to
  `results`, and says that a synchronous queue holds nothing else.
* `SerialAlways`: `IsSerialExecutor`.  `Running` is what the one thread in `"exec"` of a queue has in
  hand, so it changes with that thread's step alone; a drain or a clear is `Drop`, where what remains
  of the queue is named by the kept positions (`CacheRest`), and the queue of a running
  thread is changed only if it may be withdrawn from (`OneServer`, `MainLock`).

`SurfacePool_proofs` (any finite set of surfaces, any buffer size):
`OutBelongsToAFrameAlways`, `NothingIsLostAlways` and `PoolIsBoundedAlways` from one
inductive invariant `PoolInv`, which adds that a closed movie has no frames and that
the queue is bounded.  The bound on the pool is a counting argument: a new surface is
made only when all are checked out, those belong to the queued frames and the shown
one, and a sequence has no more elements than its length (`ElementsAreFew`).
`OneFrameEachAlways` adds the converse (`FramesInv`): the surface of a frame not given back is checked
out, so that the pool does not hand it out, and one given back stays so until its frame is gone or it
becomes `early`.

`MediaPipeline_proofs`: `TypeCorrect`; `SlotsConservedAlways`, for queues of any size;
`CountIsUnfinishedWorkersAlways`, which says what `decoderWorkerCount` counts; and from the life
cycle of the decoders `NothingUsesDeadDecodersAlways`.

`MediaQueues_proofs`: the packet queues, for any file.  `PacketInv` says where a queue ends (its
end mark is last, and comes when the demultiplexer is done), that `data` covers the packets a
decoder will take, and that the places are counted; it is inductive only with the places where
the demultiplexer holds a packet.  From it `SpacesConservedAlways` and `DecoderFindsItsPacketAlways`; with
`FlowInv`, which adds the ends of the frame queues and what a decoder does while it flushes, `EndMarkIsLastAlways`.
`NoPostToDestroyedLockAlways` holds for `MinVideo > VideoPacketBufferSize`, and only then: a shorter
file is still being collected when the demultiplexer ends.  `FrameStreamAlways` is the refinement of
`FrameStream`: `MovieInv` puts what was read of each stream in one line, from the last frame taken
through the frame queue, the decoder and the packet queue to the demultiplexer, numbers without a gap.
Its hypothesis is that a file loops or has no refused packet: the last
packet of a file that ends is lost when the codec refuses it, so nothing more can be claimed.

`SubtitleLayer_proofs`: `DecoderOwnsItsLayerAlways`.  `OwnInv` says that a layer with an instruction in
the queue has it there once, is not in the thread's hands, and like the layer that is has its mutex and
a semaphore nobody posted: who waits for that semaphore waits for the thread to let go.
`PictureIsCurrentAlways` adds to it (`PictureInv`) that the queue of an open layer is in the order of
time and holds every change the decoder has passed and the display has not, and no other.

`EventLoop_proofs`: `ImplementsEventStream`, the refinement: each step of the three queues is a
step of `EventStream` or none; the invariants needed are the types of the queues and that they are joined
in order.  `NeverPopsEmptyAlways` (`MarksOutlast`), `InputGoesToOneAlways` (`ActionMeansIdle`),
and `HandledClickAnswersNoneAlways` (`FreshInv`: the click in `button` was handled after the action
began).

`Dialogue_proofs`, for any script of any length that keeps the rules:
`NeverWonkyWhenRulesKept` and `OneContinuationWhenRulesKept`.  `DialogueInv` names the eleven situations a
dialogue can be in (stopped, first event, its turn, drawing, at a `[*]`, waiting for a built-in
command's action, and five of a running routine).  Each fixes the event queue, the side the interpreter is on,
the waits and the monitor, so each call of `ScriptState` finds the parity it needs
(`UseDialogueKeeps`, `UseMainScriptKeeps`, `DisposeKeeps`), and adding up what goes on gives one.
The number of exchanges itself does not matter, only its parity.  No situation has a wait that ends
before its loan has begun: that step leads out of them, to a program that has ended (`EndedEarly`), and is the
only one that does.

`DuetWhenRulesKept` is the refinement of `Duet`, for the same scripts.  A command the script has come to
when its dialogue ends is passed over, in the code and in `Duet` (`Leave`).  To
the eleven situations it adds what a reader of `Duet` sees in each (`PartyInv`: who runs, what is left of
which routine, what the dialogue is doing), and that both sides stand where their
commands are (`ScriptSays`, `TalkSays`) with the token of the script read where it goes on
(`StartSays`).  Each step of the code is then a step of one of the two parties or none.

`DynamicProperties_proofs`, for queues of any length and changes of any duration, under `Patient`:
`DestinationKeptAlways`.  `PropertyInv` says that a marked change is
alone in its queue, that a replaced sprite has its backup, and that spritesets have absolute changes.  The
loops over the queue (`apply`, `terminateSpriteProperties`, `terminateSpritesetProperties`, and
the destination itself) are recursive functions.  The provers cannot use the library's induction
theorems, so `AllBySteps` derives induction over a set of numbers from the
well-foundedness of inclusion between finite sets, `LoopRuns` shows with it that the loops' functions exist, and
`AppliedIs`, `OldOnly` and `SetCommitted` go along a queue in parallel with its destination.
Without `Patient` the destination can be lost (`MCPropertiesCommit`).

Only model-checked is what is about liveness (`BlockingCallReturns`, `EveryInstructionTaken`,
`EndThreadsReturns`, `PlaybackStops`, `EndIsReached`, `UpdateReturns`, `StopReturns`, `ClickEndsWait`,
`VoiceEndsWait`, `QuitHonoured`, `WaitReturns`, `ScriptEnds`): it needs fairness and `ENABLED`, which the
prover does not support.  Every other property of the passing runs is stated by a theorem, some under
the hypotheses named above; the instances of the runs satisfy them.

## What the code does otherwise than it says

With a run that shows it:

* `LegacyReference.html:8071` says `dwave` plays a sound just once; a sound started while the end of the one
  before is in a queue is freed when that end is handled (`Event.cpp:105-112`, `MCEventsVoice`).
* `Animation.cpp:1491` says the commit does not break the new sprite; a change of the old sprite that is
  over stays in the queue and is applied to the new one (`MCPropertiesCommit`).
* `ONScripter.cpp:1708` says `playSoundThreaded` is not called from inside `doHoverButton`; a button's
  control string does it (`MCEventsNested`).
* `ONScripter.cpp:1995` says the script may continue while the dialogue is halfway executed; if it waits
  then, `ConstantRefresh.cpp:61` takes the wait for the dialogue's and the program ends (`MCDialogueLoan`).

Met while modelling, without a run of its own:

* `Async.cpp:177` "this should never suspend": it does when the thread of a cache
  queue was created but has not started: as an invariant of `MCExecutor`, `~DrainSuspends` is
  violated in six steps (the instruction is queued, its thread does not run, `endThreads` takes `loopLock`,
  finds a thread and a full queue, and nobody ever posts).  A thread that reads the flag before it is lowered and
  leaves later orphans what is queued in between (`queue` sees a thread): `NoOrphan` without `late`.
* `Demux.cpp:118` "start flush immediately": the end marks come without a post, so a decoder
  whose stream is not the failing packet's waits on (`Files <- EndsInAudio` in `MCMediaLive.cfg`).
* `Controller.cpp:554` "This is a useless packet": a refused packet never gets to that branch.
* `Controller.hpp:324` "equals number of unfinished workers": not when loading fails.
* `Pool.hpp:22` "is this SDL_Surface* checked-out": not after the second give-back.  Without the exception
  of `early` `OneFrameEach` is violated, and TLC finds two queued frames with one surface in ten steps:
  the decoder takes the surface between the two calls, queues it, and the second call frees it to be taken again.
* `Controller.cpp:203`: when `initSwrContext` fails `loadVideo` returns false and leaves the decoders and
  semaphores, where its other failures reset the state; the next `loadVideo` makes new ones.
* `Media.cpp:311` "the decoders are stopped by this time": the audio decoder may not
  be; the caller retries, so this costs a frame.  `Controller.cpp:518` "at least one
  frame": the code wants two.
* `Subtitle.cpp:108` "may it deadlock here on quit?": yes, after `endThreads`, which drops the
  instruction, and for a second layer while a first one plays; `stopPlayback` waits for ever in the same cases.
  A file loaded over another keeps `current_timestamp`, so a picture of the same time is not drawn.
* `DynamicProperty.cpp:239`: a commit writes the relative amount of a spriteset's change that has
  not begun as if it were its end (`Patient` keeps scripts off it).  `begin` of an old sprite's
  change reads the new sprite's value.  A mark for the new sprite on a change queued later
  survives the commit.  A rotation of speed 0 divides by zero.
* `LegacyReference.html:6037` says a button wait with `btntime2` waits for the voice; one without text counts at
  once, and `textbtnwait` without a voice never times out and ends at a mere motion.
* `ConstantRefresh.cpp:48-58`: an inline wait that ends before its loan has begun exchanges the
  interpreter again and the program ends (`EndedEarly`, the one exception of `NeverWonky`; without it
  `MCDialogue` finds `NeverWonky` violated).
* `Dialogue.cpp:384`: the end of a `d2` dialogue makes the main loop read a token; one the
  script has not carried out is lost (`Duet`'s `Leave`; the scripts `Busy` of `MCDialogue` lose one).
* `CommandExt.cpp:2814` says `d_repaint` computes the layout again, but the flags that say it is
  done are kept.  `ONScripter.cpp:1996` lets `d_continue` end a loan, which it never does.

## Plan

Done, in this order: `AsyncController`, `SerialExecutor`, `MediaPipeline`, `FrameStream`,
`SurfacePool`, `SubtitleLayer`, `DynamicProperties`, `EventLoop`, `EventStream`, `Dialogue`, `Duet`,
and the proofs above.

Left:

1. Proofs: the composition of the above with what is modelled next; the bounds between which a
   change moves (`Interpolated`), by the induction of `DynamicProperties_proofs`.
2. Composition: a movie with `endThreads`; a dialogue over the actions of `EventLoop`.
3. Models: what the caches hold and which loads in flight come back after `clear_cache`; the call
   stack below the dialogue's one level; the sprite's backup and commit beyond one property.
4. Larger instances of `EventLoop` (three events) where a quarter of an hour is acceptable.

## Not modelled

* Inside modelled components: a blocking call made during another (`EventLoop` shows that it ends
  the program); `endThreads` during a movie; subtitle packets and packets marked corrupt (dropped or
  handed on under a lock, without effect on the queues); scaling, pixel formats, audio resampling;
  buffer arithmetic of the audio bridge; and what each section above names.
* Image and sound caches, `LimitedQueue`, string tree, clocks: containers used under one lock or by
  one thread; what is hard about them is memory, not order.
* Script handler and the rest of the parser, saving and loading: a tokenizer, tables and byte formats
  of one thread.  The several hundred commands that are straight-line effects are listed with the components
  they act on.
* Text layout, fonts, lips, effects, GPU wrapper, particle layers: sequential numeric code whose
  results are pictures.
* Archive readers, file access, LUA, window, joystick, Discord: byte formats and
  devices.
* `External/`, `Dependencies/` (headers of Windows and of graphics libraries, a good part of the
  lines), tools and build scripts: not the program's logic.  libavformat, libavcodec, libass and
  SDL are modelled by how the code uses them.

The mapped lines are therefore a small share of the repository: most of it is vendored headers and
sequential interpretation and drawing, and the models keep to the places where threads, events and
the two users of the interpreter meet.

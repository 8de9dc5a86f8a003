----------------------------- MODULE SurfacePool -----------------------------
(***************************************************************************)
(* The life of the surfaces video frames are drawn into: TempImagePool     *)
(* (Engine/Graphics/Pool) and the three places that use it, the decoder's  *)
(* processFrame, MediaLayer::update and the MediaFrame destructor.  The    *)
(* decoder thread and the script thread meet in the pool; each of its      *)
(* operations holds the pool's lock and is one step.                       *)
(***************************************************************************)
EXTENDS Naturals, Sequences, FiniteSets

CONSTANTS
  Surface,               \* the surfaces SDL_CreateRGBSurface can return
  VideoPacketBufferSize, \* surfaces allocated in advance, and frames queued
  None                   \* no surface

ASSUME SurfaceAssumption ==
  /\ IsFiniteSet(Surface)
  /\ VideoPacketBufferSize \in Nat \ {0}
  /\ VideoPacketBufferSize + 3 <= Cardinality(Surface)
  /\ None \notin Surface

VARIABLES
  playing,  \* the movie is open: decoder and pool exist
  pool,     \* the surfaces the pool knows
  out,      \* those it takes for checked out
  fresh,    \* the surface of the frame the decoder is working on
  frames,   \* the surfaces of the frames in loadFramesQueue[VideoEntry].results
  shown,    \* the surface of the frame update took
  given,    \* update gave that surface back, the frame still exists
  lost,     \* surfaces destroyed pools did not free
  early     \* history: surfaces handed out between the two times they are given back

vars == <<playing, pool, out, fresh, frames, shown, given, lost, early>>

Queued == {frames[i] : i \in 1..Len(frames)}

TypeOK ==
  /\ playing \in BOOLEAN
  /\ pool \subseteq Surface
  /\ out \subseteq pool
  /\ fresh \in pool \cup {None}
  /\ frames \in Seq(pool)
  /\ shown \in pool \cup {None}
  /\ given \in BOOLEAN
  /\ lost \subseteq Surface /\ early \subseteq Surface

Init ==
  /\ playing = FALSE
  /\ pool = {} /\ out = {} /\ lost = {} /\ early = {}
  /\ fresh = None /\ shown = None /\ given = FALSE
  /\ frames = <<>>

\* loadPresentation: addImages(VideoPacketBufferSize).
Open ==
  /\ ~playing
  /\ playing' = TRUE
  /\ pool' \in {p \in SUBSET (Surface \ lost) : Cardinality(p) = VideoPacketBufferSize}
  /\ UNCHANGED <<out, fresh, frames, shown, given, lost, early>>

\* Mutant: a new surface is made every time.
GetNew ==
  /\ playing /\ fresh = None
  /\ \E s \in Surface \ pool :
       fresh' = s /\ pool' = pool \cup {s} /\ out' = out \cup {s}
  /\ UNCHANGED <<playing, frames, shown, given, lost, early>>

\* History: the surface shown was given back once and is handed out again.
HandedOutEarly ==
  early' = IF given /\ fresh' = shown THEN early \cup {shown} ELSE early

\* Mutant: the surfaces checked out are not passed over.
GetAny ==
  /\ playing /\ fresh = None /\ pool # {}
  /\ fresh' \in pool
  /\ out' = out \cup {fresh'}
  /\ HandedOutEarly
  /\ UNCHANGED <<playing, pool, frames, shown, given, lost>>

\* getImage: any surface that is not checked out, or a new one.
GetImage ==
  /\ playing /\ fresh = None
  /\ fresh' \in IF pool = out THEN Surface \ pool ELSE pool \ out
  /\ pool' = pool \cup {fresh'}
  /\ out' = out \cup {fresh'}
  /\ HandedOutEarly
  /\ UNCHANGED <<playing, frames, shown, given, lost>>

\* The frame is queued when frameQueueSem lets it.
PushFrame ==
  /\ fresh # None /\ Len(frames) < VideoPacketBufferSize
  /\ frames' = Append(frames, fresh)
  /\ fresh' = None
  /\ UNCHANGED <<playing, pool, out, shown, given, lost, early>>

\* The decoder finishes while it waits: its frame is destroyed.
DropFresh ==
  /\ fresh # None
  /\ out' = out \ {fresh}
  /\ fresh' = None
  /\ UNCHANGED <<playing, pool, frames, shown, given, lost, early>>

\* advanceVideoFrames: the frame to show.
TakeFrame ==
  /\ frames # <<>> /\ shown = None
  /\ shown' = Head(frames)
  /\ frames' = Tail(frames)
  /\ UNCHANGED <<playing, pool, out, fresh, given, lost, early>>

\* Mutant: the skipped frame is not destroyed.
ForgetFrame ==
  /\ frames # <<>> /\ shown = None
  /\ frames' = Tail(frames)
  /\ UNCHANGED <<playing, pool, out, fresh, shown, given, lost, early>>

\* ... or one it skips: it is destroyed.
SkipFrame ==
  /\ frames # <<>> /\ shown = None
  /\ out' = out \ {Head(frames)}
  /\ frames' = Tail(frames)
  /\ UNCHANGED <<playing, pool, fresh, shown, given, lost, early>>

\* update has drawn the frame and calls giveImageBack,
GiveImageBack ==
  /\ shown # None /\ ~given
  /\ out' = out \ {shown}
  /\ given' = TRUE
  /\ UNCHANGED <<playing, pool, fresh, frames, shown, lost, early>>

\* and at the end of the block the frame is destroyed; ~MediaFrame gives its
\* surface back.
DestroyShown ==
  /\ shown # None /\ given
  /\ out' = out \ {shown}
  /\ shown' = None /\ given' = FALSE
  /\ UNCHANGED <<playing, pool, fresh, frames, lost, early>>

\* Mutant: the frames left in the queue are forgotten.
CloseAtOnce ==
  /\ playing /\ fresh = None /\ shown = None
  /\ playing' = FALSE
  /\ lost' = lost \cup out
  /\ pool' = {} /\ out' = {} /\ frames' = <<>> /\ early' = {}
  /\ UNCHANGED <<fresh, shown, given>>

\* resetState, when the decoders are done: resetFrameQueues destroys the frames
\* left, ~TempImagePool frees what is not checked out.
Close ==
  /\ playing /\ fresh = None /\ shown = None
  /\ playing' = FALSE
  /\ lost' = lost \cup (out \ Queued)
  /\ pool' = {} /\ out' = {} /\ frames' = <<>> /\ early' = {}
  /\ UNCHANGED <<fresh, shown, given>>

Next ==
  \/ Open \/ GetImage \/ PushFrame \/ DropFresh
  \/ TakeFrame \/ SkipFrame \/ GiveImageBack \/ DestroyShown \/ Close

Spec == Init /\ [][Next]_vars

-----------------------------------------------------------------------------
\* A surface that counts as checked out belongs to some frame that exists and
\* was not given back,
OutBelongsToAFrame == out \subseteq {fresh, shown} \cup Queued

\* and a surface is in one frame at a time, so that the decoder draws over no
\* picture still to be shown.  The exception is what the code does: update gives
\* the surface back and then destroys the frame, which gives it back again
\* (Media.cpp:276), and a surface handed out in between is free to be handed
\* out twice.
OneFrameEach ==
  \A s \in Surface \ early :
    /\ fresh = s => shown # s /\ s \notin Queued
    /\ shown = s => s \notin Queued
    /\ \A i, j \in 1..Len(frames) : frames[i] = s /\ frames[j] = s => i = j

\* ~TempImagePool ("Diver cannot be eaten") frees every surface there is,
NothingIsLost == lost = {}

\* and the pool grows by two surfaces at most over those made in advance: the
\* one being decoded and the one being shown.
PoolIsBounded == Cardinality(pool) <= VideoPacketBufferSize + 2
=============================================================================

---------------------------- MODULE MediaPipeline ----------------------------
(***************************************************************************)
(* The media engine's playback pipeline: Engine/Media/{Controller,Demux},  *)
(* with the part of Engine/Layers/Media and Support/AudioBridge that       *)
(* drives it.  A demultiplexer thread reads packets into one bounded queue *)
(* per stream, a decoder thread per stream turns them into frames in       *)
(* loadFramesQueue[entry].results, the script thread takes video frames    *)
(* and the mixer's callback takes audio frames.  A null pointer marks the  *)
(* end of both kinds of queue.                                             *)
(*                                                                         *)
(* The spin locks around the deques protect straight-line code, so each    *)
(* section is one step.  A wait with a timeout is two: the attempt, and    *)
(* after a failed one the look at the flags that may end the wait.         *)
(*                                                                         *)
(* The file (libavformat) and the codecs (libavcodec) are the environment: *)
(* a stream's packets are numbered, its codec yields their frames in that  *)
(* order after holding back at most MaxDelay of them.  Packets marked      *)
(* corrupt or of other streams are dropped by pushPacket and left out, and *)
(* so is threadShutdownRequested: nothing ends the threads during a movie. *)
(***************************************************************************)
EXTENDS Integers, Sequences

CONSTANTS
  VideoPacketBufferSize, \* capacity of the video queues; audio has twice that
  HasAudio,     \* hasStream(AudioEntry) once the file is open
  Files,        \* the files there are, and how they are played
  MinVideo,     \* the file has at least that many video packets
  MaxPackets,   \* bound: packets read from each stream
  MaxLaps,      \* bound: successful seeks back to the start
  MaxDelay      \* bound: frames a codec holds back

Entry == {"V", "A"}

ASSUME ConstantsAssumption ==
  /\ VideoPacketBufferSize \in Nat \ {0}
  /\ HasAudio \in BOOLEAN
  /\ Files \subseteq [blank : Entry \cup {"none"}, \* stream_index of the packet av_read_frame fails with
                      rejected : SUBSET (Nat \ {0}), \* packets avcodec_send_packet refuses
                      loop : BOOLEAN,                 \* loadPresentation's loop argument
                      mayFail : BOOLEAN]              \* loadVideo and loadPresentation may fail
  /\ MinVideo \in Nat
  /\ MaxPackets \in [Entry -> Nat]
  /\ MinVideo <= MaxPackets["V"]
  /\ MaxLaps \in Nat
  /\ MaxDelay \in Nat

Cap == [e \in Entry |-> IF e = "V" THEN VideoPacketBufferSize
                                   ELSE 2 * VideoPacketBufferSize]

\* Packets and frames are numbers from 1; the others are
Blank == 0     \* a packet of no data: it flushes the codec
Null  == -1    \* a null pointer in a queue: the end
None  == -2    \* no packet, no frame

\* initVideoTimecodesLock is a count, or one of
Gone  == -1    \* a null pointer
Freed == -2    \* destroyed, the pointer not cleared yet

VARIABLES
  file,       \* the file that is played
  mpc,        \* where the script thread is
  eof,        \* VS_END_OF_FILE
  bridge,     \* the AudioBridge: none, ready, playing, or heard (startedToPlay)
  owed,       \* entries whose consumer took a frame and posts frameQueueSem next
  last,       \* the last frame taken from each queue
  tlock,      \* initVideoTimecodesLock
  alive,      \* decoders (with their mutexes and semaphores) exist
  workers,    \* decoderWorkerCount
  finishing,  \* decoders' shouldFinish
  demuxFinish,\* demux's shouldFinish
  complete,   \* demuxComplete
  dmx,        \* where the demultiplexer is
  pkt,        \* the packet it handles: its stream and number
  held,       \* the queue it has reserved a space in
  counter,    \* timecodes collected
  ending,     \* demultiplexingComplete
  nread,      \* packets read from each stream
  laps,       \* seeks done
  pq,         \* packetQueue
  spaces,     \* packetQueueSemSpaces
  data,       \* packetQueueSemData
  dpc,        \* where each decoder thread is
  packet,     \* the packet it holds
  cr,         \* crMode
  vf,         \* the frame it is about to push
  codec,      \* frames its codec holds back
  results,    \* loadFramesQueue[entry].results
  frameSem    \* frameQueueSem

mainVars   == <<file, mpc, eof, bridge>>
lifeVars   == <<alive, workers, finishing, demuxFinish>>
demuxVars  == <<dmx, pkt, held, counter, ending, nread, laps, complete>>
packetVars == <<pq, spaces, data>>
threadVars == <<dpc, packet, cr, vf, codec>>
frameVars  == <<results, frameSem, owed, last>>
vars == <<mainVars, lifeVars, demuxVars, packetVars, threadVars, frameVars, tlock>>

BlankStream == file.blank
Rejected == file.rejected
LoopVideo == file.loop
MayFail == file.mayFail

Streams == IF HasAudio THEN Entry ELSE {"V"}
NoPacket == [stream |-> "none", n |-> None]
Each(x) == [e \in Entry |-> x]

MainPC == {"offline", "loaded", "timing", "destroy", "clear", "bridge",
           "start", "play", "finish", "delay", "reap", "demux", "stopping"}
DemuxPC == {"off", "queued", "top", "codes", "space", "late", "push", "put",
            "post", "lastpost", "complete", "gone"}
DecoderPC == {"off", "queued", "wait", "late", "check", "obtain", "decode",
              "slot", "slotlate", "push", "out", "done"}

\* What a thread can hold, and what a queue can.
Number == Nat \cup {None}
Content == Number \cup {Null}

MainTypes ==
  /\ file \in Files
  /\ mpc \in MainPC
  /\ eof \in BOOLEAN
  /\ bridge \in {"none", "ready", "playing", "heard"}

LifeTypes ==
  /\ alive \in BOOLEAN
  /\ workers \in Int
  /\ finishing \in BOOLEAN
  /\ demuxFinish \in BOOLEAN

DemuxTypes ==
  /\ dmx \in DemuxPC
  /\ pkt \in [stream : Entry \cup {"none"}, n : Number]
  /\ held \in Entry \cup {"none"}
  /\ counter \in 0..VideoPacketBufferSize
  /\ ending \in BOOLEAN
  /\ nread \in [Entry -> Nat]
  /\ laps \in 0..MaxLaps
  /\ complete \in BOOLEAN

PacketTypes ==
  /\ pq \in [Entry -> Seq(Content)]
  /\ spaces \in [Entry -> Nat]
  /\ data \in [Entry -> Nat]

ThreadTypes ==
  /\ dpc \in [Entry -> DecoderPC]
  /\ packet \in [Entry -> Number]
  /\ cr \in [Entry -> {"None", "Started", "Finished"}]
  /\ vf \in [Entry -> Content]
  /\ codec \in [Entry -> Seq(Number)]

FrameTypes ==
  /\ results \in [Entry -> Seq(Content)]
  /\ frameSem \in [Entry -> Nat]
  /\ owed \subseteq Entry
  /\ last \in [Entry -> Content]

TypeOK ==
  /\ MainTypes /\ LifeTypes /\ DemuxTypes /\ PacketTypes /\ ThreadTypes /\ FrameTypes
  /\ tlock \in Nat \cup {Gone, Freed}

-----------------------------------------------------------------------------
(* The script thread: opening a movie. *)

Init ==
  /\ file \in Files
  /\ mpc = "offline" /\ eof = FALSE /\ bridge = "none"
  /\ alive = FALSE /\ workers = 0 /\ finishing = FALSE /\ demuxFinish = FALSE
  /\ complete = FALSE /\ tlock = Gone
  /\ dmx = "off" /\ pkt = NoPacket /\ held = "none" /\ counter = 0
  /\ ending = FALSE /\ nread = Each(0) /\ laps = 0
  /\ pq = Each(<<>>) /\ spaces = Each(0) /\ data = Each(0)
  /\ dpc = Each("off") /\ packet = Each(None) /\ cr = Each("None")
  /\ vf = Each(None) /\ codec = Each(<<>>)
  /\ results = Each(<<>>) /\ frameSem = Each(0) /\ owed = {} /\ last = Each(0)

\* loadVideo, after the file was opened and a video stream found (it resets the
\* state when there is none).  When initSwrContext fails there is no movie, but
\* decoders and semaphores stay; the next loadVideo makes new ones.
LoadVideo ==
  /\ mpc = "offline"
  /\ \/ mpc' = "loaded"
     \/ MayFail /\ HasAudio /\ UNCHANGED mpc
  /\ eof' = FALSE
  /\ alive' = TRUE
  /\ frameSem' = Cap
  /\ UNCHANGED <<file, bridge, workers, finishing, demuxFinish, demuxVars, packetVars,
                 threadVars, results, owed, last, tlock>>

\* loadPresentation up to the wait for the timecodes.  When initSwsContext
\* fails it returns before the demultiplexer is queued; the layer counts as
\* playing either way.
LoadPresentation ==
  /\ mpc = "loaded"
  /\ workers' = IF HasAudio THEN 2 ELSE 1
  /\ spaces' = Cap
  /\ \/ /\ mpc' = "timing"
        /\ tlock' = 0
        /\ dmx' = "queued"
     \/ /\ MayFail
        /\ mpc' = "play"
        /\ UNCHANGED <<tlock, dmx>>
  /\ UNCHANGED <<file, eof, bridge, alive, finishing, demuxFinish, pkt, held, counter,
                 ending, nread, laps, complete, pq, data, threadVars, frameVars>>

TakeTimecodes ==
  /\ mpc = "timing" /\ tlock > 0
  /\ tlock' = tlock - 1
  /\ mpc' = "destroy"
  /\ UNCHANGED <<file, eof, bridge, lifeVars, demuxVars, packetVars, threadVars, frameVars>>

DestroyLock ==
  /\ mpc = "destroy"
  /\ tlock' = Freed
  /\ mpc' = "clear"
  /\ UNCHANGED <<file, eof, bridge, lifeVars, demuxVars, packetVars, threadVars, frameVars>>

\* Mutant: the pointer is left as it is.
ClearLockForgotten ==
  /\ mpc = "clear"
  /\ mpc' = "bridge"
  /\ UNCHANGED <<file, eof, bridge, lifeVars, demuxVars, packetVars, threadVars, frameVars,
                 tlock>>

ClearLock ==
  /\ mpc = "clear"
  /\ tlock' = Gone
  /\ mpc' = "bridge"
  /\ UNCHANGED <<file, eof, bridge, lifeVars, demuxVars, packetVars, threadVars, frameVars>>

\* MediaLayer::loadPresentation connects the sound; the movie is not started
\* when AudioBridge::prepare fails.
PrepareBridge ==
  /\ mpc = "bridge"
  /\ bridge' = IF HasAudio THEN "ready" ELSE "none"
  /\ \/ mpc' = "start"
     \/ MayFail /\ HasAudio /\ mpc' = "play"
  /\ UNCHANGED <<file, eof, lifeVars, demuxVars, packetVars, threadVars, frameVars, tlock>>

StartProcessing ==
  /\ mpc = "start"
  /\ dpc' = [e \in Entry |-> IF e \in Streams THEN "queued" ELSE "off"]
  /\ mpc' = "play"
  /\ UNCHANGED <<file, eof, bridge, lifeVars, demuxVars, packetVars, packet, cr, vf, codec,
                 frameVars, tlock>>

-----------------------------------------------------------------------------
(* The script thread and the mixer's callback: playing. *)

\* refresh: Mix_PlayChannel.
StartPlayback ==
  /\ mpc = "play" /\ bridge = "ready"
  /\ bridge' = "playing"
  /\ UNCHANGED <<file, mpc, eof, lifeVars, demuxVars, packetVars, threadVars, frameVars,
                 tlock>>

\* The end of the first fillBuffers sets startedToPlay.
FirstBufferPlayed ==
  /\ bridge = "playing" /\ "A" \notin owed
  /\ bridge' = "heard"
  /\ UNCHANGED <<file, mpc, eof, lifeVars, demuxVars, packetVars, threadVars, frameVars,
                 tlock>>

AtEnd(e) == results[e] = <<Null>>

TakeFrame(e) ==
  /\ e \notin owed
  /\ results[e] # <<>> /\ ~AtEnd(e)
  /\ results' = [results EXCEPT ![e] = Tail(@)]
  /\ last' = [last EXCEPT ![e] = Head(results[e])]
  /\ owed' = owed \cup {e}
  /\ UNCHANGED <<mainVars, lifeVars, demuxVars, packetVars, threadVars, frameSem, tlock>>

\* update shows nothing before the sound is heard.
MayUpdate ==
  /\ mpc \in {"play", "stopping"} /\ ~eof
  /\ alive /\ HasAudio => bridge \in {"none", "heard"}

\* advanceVideoFrames, one turn of its loop.
AdvanceVideo == MayUpdate /\ TakeFrame("V")

\* advanceAudioChunks, called by fillBuffers.
AdvanceAudio == bridge \in {"playing", "heard"} /\ TakeFrame("A")

\* Mutant: the place is not given back.
KeepSlot(e) ==
  /\ e \in owed
  /\ owed' = owed \ {e}
  /\ UNCHANGED <<mainVars, lifeVars, demuxVars, packetVars, threadVars, results,
                 frameSem, last, tlock>>

\* The consumer posts frameQueueSem after unlocking the queue; a semaphore
\* resetDecoders destroyed is a null pointer by then, which SDL ignores.
ReturnSlot(e) ==
  /\ e \in owed
  /\ owed' = owed \ {e}
  /\ frameSem' = IF alive THEN [frameSem EXCEPT ![e] = @ + 1] ELSE frameSem
  /\ UNCHANGED <<mainVars, lifeVars, demuxVars, packetVars, threadVars, results,
                 last, tlock>>

\* update finds the end of file: the next refresh keeps calling stopPlayback.
SeeEndOfFile ==
  /\ MayUpdate /\ "V" \notin owed /\ AtEnd("V")
  /\ eof' = TRUE
  /\ UNCHANGED <<file, mpc, bridge, lifeVars, demuxVars, packetVars, threadVars, frameVars,
                 tlock>>

-----------------------------------------------------------------------------
(* The script thread: stopPlayback. *)

\* Because of the end of file, or on request (request_video_shutdown).  The
\* bridge is destroyed first, when the callback is not running.
StopPlayback ==
  /\ mpc \in {"play", "stopping"} /\ owed = {}
  /\ bridge' = "none"
  /\ mpc' = "finish"
  /\ UNCHANGED <<file, eof, lifeVars, demuxVars, packetVars, threadVars, frameVars, tlock>>

\* finish: ask the decoders to finish unless they are done.
AskDecoders ==
  /\ mpc = "finish"
  /\ IF workers > 0 THEN mpc' = "delay" /\ finishing' = TRUE
                    ELSE mpc' = "reap" /\ UNCHANGED finishing
  /\ UNCHANGED <<file, eof, bridge, alive, workers, demuxFinish, demuxVars, packetVars,
                 threadVars, frameVars, tlock>>

\* Mutant: the second look is not heeded.
LookAway ==
  /\ mpc = "delay"
  /\ mpc' = "reap"
  /\ UNCHANGED <<file, eof, bridge, lifeVars, demuxVars, packetVars, threadVars, frameVars,
                 tlock>>

\* ... and look again after a millisecond; the caller retries.
LookAgain ==
  /\ mpc = "delay"
  /\ mpc' = IF workers = 0 THEN "reap" ELSE "stopping"
  /\ UNCHANGED <<file, eof, bridge, lifeVars, demuxVars, packetVars, threadVars, frameVars,
                 tlock>>

LastOf(s) == IF s = <<>> THEN <<>> ELSE <<s[Len(s)]>>

\* resetDecoders, resetFrameQueues(0, 1).
Reap ==
  /\ mpc = "reap"
  /\ demuxFinish' = TRUE
  /\ alive' = FALSE
  /\ results' = [V |-> LastOf(results["V"]), A |-> <<>>]
  /\ mpc' = "demux"
  /\ UNCHANGED <<file, eof, bridge, workers, finishing, demuxVars, packetVars, threadVars,
                 frameSem, owed, last, tlock>>

\* resetDemuxer if it is done, and then stopPlayback's resetState: everything
\* is as before loadVideo, and the next movie may be another.
ResetDemuxer ==
  /\ mpc = "demux" /\ complete
  /\ mpc' = "offline"
  /\ eof' = FALSE /\ bridge' = "none"
  /\ alive' = FALSE /\ workers' = 0 /\ finishing' = FALSE /\ demuxFinish' = FALSE
  /\ complete' = FALSE /\ tlock' = Gone
  /\ dmx' = "off" /\ pkt' = NoPacket /\ held' = "none" /\ counter' = 0
  /\ ending' = FALSE /\ nread' = Each(0) /\ laps' = 0
  /\ pq' = Each(<<>>) /\ spaces' = Each(0) /\ data' = Each(0)
  /\ dpc' = Each("off") /\ packet' = Each(None) /\ cr' = Each("None")
  /\ vf' = Each(None) /\ codec' = Each(<<>>)
  /\ results' = Each(<<>>) /\ frameSem' = Each(0) /\ owed' = {} /\ last' = Each(0)
  /\ file' \in Files

DemuxNotDone ==
  /\ mpc = "demux" /\ ~complete
  /\ mpc' = "stopping"
  /\ UNCHANGED <<file, eof, bridge, lifeVars, demuxVars, packetVars, threadVars, frameVars,
                 tlock>>

-----------------------------------------------------------------------------
(* The demultiplexer thread. *)

UnchangedByDemux == UNCHANGED <<mainVars, lifeVars, threadVars, frameVars>>

DemuxStarts ==
  /\ dmx = "queued"
  /\ dmx' = "top"
  /\ UnchangedByDemux
  /\ UNCHANGED <<pkt, held, counter, ending, nread, laps, complete, packetVars, tlock>>

\* The end of demultiplexStreams: a last post unless the lock's pointer is null.
DemuxBreaks ==
  /\ dmx = "top" /\ (ending \/ demuxFinish)
  /\ dmx' = IF tlock # Gone THEN "lastpost" ELSE "complete"
  /\ UnchangedByDemux
  /\ UNCHANGED <<pkt, held, counter, ending, nread, laps, complete, packetVars, tlock>>

LastPost ==
  /\ dmx = "lastpost"
  /\ tlock' = IF tlock >= 0 THEN tlock + 1 ELSE tlock
  /\ dmx' = "complete"
  /\ UnchangedByDemux
  /\ UNCHANGED <<pkt, held, counter, ending, nread, laps, complete, packetVars>>

DemuxCompletes ==
  /\ dmx = "complete"
  /\ complete' = TRUE
  /\ dmx' = "gone"
  /\ UnchangedByDemux
  /\ UNCHANGED <<pkt, held, counter, ending, nread, laps, packetVars, tlock>>

\* av_read_frame: the next packet of some stream, or the blank one at the end.
ReadFrame ==
  /\ dmx = "top" /\ ~ending /\ ~demuxFinish
  /\ \/ \E e \in Streams :
          /\ nread[e] < MaxPackets[e]
          /\ nread' = [nread EXCEPT ![e] = @ + 1]
          /\ pkt' = [stream |-> e, n |-> nread[e] + 1]
     \/ /\ nread["V"] >= MinVideo
        /\ pkt' = [stream |-> IF BlankStream \in Streams THEN BlankStream ELSE "none",
                   n |-> Blank]
        /\ UNCHANGED nread
  /\ dmx' = "codes"
  /\ UnchangedByDemux
  /\ UNCHANGED <<held, counter, ending, laps, complete, packetVars, tlock>>

\* Mutant: a full audio queue is not noticed.
CollectedFromVideo ==
  IF counter < VideoPacketBufferSize /\ pkt.stream = "V" THEN counter + 1 ELSE counter

\* getVideoTimecodes.  The code looks at the decoders' stream numbers here.  A
\* full audio queue ends the collection: there will be no more video packets
\* before somebody takes the audio ones.
Collected ==
  IF counter = VideoPacketBufferSize THEN counter
  ELSE IF pkt.stream = "V" THEN counter + 1
  ELSE IF pkt.stream = "A" /\ spaces["A"] = 0 THEN VideoPacketBufferSize
  ELSE counter

GetVideoTimecodes ==
  /\ dmx = "codes"
  /\ counter' = Collected
  /\ tlock' = IF counter # counter' /\ counter' = VideoPacketBufferSize /\ tlock >= 0
              THEN tlock + 1 ELSE tlock
  /\ dmx' = IF pkt.stream = "none" THEN "push" ELSE "space"
  /\ UnchangedByDemux
  /\ UNCHANGED <<pkt, held, ending, nread, laps, complete, packetVars>>

\* pushPacket.
ReserveSpace ==
  /\ dmx = "space"
  /\ IF spaces[pkt.stream] > 0
     THEN /\ spaces' = [spaces EXCEPT ![pkt.stream] = @ - 1]
          /\ held' = pkt.stream
          /\ dmx' = "push"
     ELSE dmx' = "late" /\ UNCHANGED <<spaces, held>>
  /\ UnchangedByDemux
  /\ UNCHANGED <<pkt, counter, ending, nread, laps, complete, pq, data, tlock>>

SpaceTimedOut ==
  /\ dmx = "late"
  /\ dmx' = IF demuxFinish THEN "top" ELSE "space"
  /\ UnchangedByDemux
  /\ UNCHANGED <<pkt, held, counter, ending, nread, laps, complete, packetVars, tlock>>

\* A packet given up here keeps its space.
MayPush ==
  /\ dmx = "push"
  /\ dmx' = IF demuxFinish THEN "top" ELSE "put"
  /\ UnchangedByDemux
  /\ UNCHANGED <<pkt, held, counter, ending, nread, laps, complete, packetVars, tlock>>

\* The packet at the end of its own queue.
With(e) == IF pkt.stream = e THEN Append(pq[e], pkt.n) ELSE pq[e]

\* The end of the file, which a looped movie meets only when it cannot seek:
\* the packet and both end marks are pushed with both queues locked.
PutEnd ==
  /\ dmx = "put" /\ pkt.n = Blank
  /\ pq' = [e \in Entry |-> IF e = "V" \/ (alive /\ HasAudio)
                            THEN Append(With(e), Null) ELSE With(e)]
  /\ ending' = TRUE
  /\ UNCHANGED laps

PutPacket ==
  /\ dmx = "put"
  /\ \/ pkt.n # Blank /\ UNCHANGED laps
     \/ pkt.n = Blank /\ LoopVideo /\ laps < MaxLaps /\ laps' = laps + 1
  /\ pq' = [e \in Entry |-> With(e)]
  /\ UNCHANGED ending

PushPacket ==
  /\ PutEnd \/ PutPacket
  /\ held' = "none"
  /\ dmx' = IF pkt.stream = "none" THEN "top" ELSE "post"
  /\ UnchangedByDemux
  /\ UNCHANGED <<pkt, counter, nread, complete, spaces, data, tlock>>

\* Mutant: the end marks are posted like packets.
PostEndMarks ==
  /\ dmx = "post"
  /\ data' = [e \in Entry |-> data[e] + (IF e = pkt.stream THEN 1 ELSE 0)
                                     + (IF ending THEN 1 ELSE 0)]
  /\ dmx' = "top"
  /\ UnchangedByDemux
  /\ UNCHANGED <<pkt, held, counter, ending, nread, laps, complete, pq, spaces, tlock>>

PostData ==
  /\ dmx = "post"
  /\ data' = [data EXCEPT ![pkt.stream] = @ + 1]
  /\ dmx' = "top"
  /\ UnchangedByDemux
  /\ UNCHANGED <<pkt, held, counter, ending, nread, laps, complete, pq, spaces, tlock>>

Demux ==
  \/ DemuxStarts \/ DemuxBreaks \/ LastPost \/ DemuxCompletes \/ ReadFrame
  \/ GetVideoTimecodes \/ ReserveSpace \/ SpaceTimedOut \/ MayPush
  \/ PushPacket \/ PostData

-----------------------------------------------------------------------------
(* A decoder thread: decodeFrames and Decoder::decodeFrame. *)

UnchangedByDecoder ==
  UNCHANGED <<mainVars, alive, finishing, demuxFinish, demuxVars, owed, last, tlock>>

Goto(e, l) == dpc' = [dpc EXCEPT ![e] = l]

DecoderStarts(e) ==
  /\ dpc[e] = "queued"
  /\ Goto(e, IF alive THEN "wait" ELSE "done")
  /\ UnchangedByDecoder
  /\ UNCHANGED <<workers, packetVars, packet, cr, vf, codec, results, frameSem>>

\* Mutant: a timeout counts as data.
WaitInVain(e) ==
  /\ dpc[e] = "wait"
  /\ data' = IF packet[e] = None /\ cr[e] = "None" /\ data[e] > 0
             THEN [data EXCEPT ![e] = @ - 1] ELSE data
  /\ Goto(e, "check")
  /\ UnchangedByDecoder
  /\ UNCHANGED <<workers, pq, spaces, packet, cr, vf, codec, results, frameSem>>

\* waitForData, unless a packet is left over for the flush.
WaitForData(e) ==
  /\ dpc[e] = "wait"
  /\ IF packet[e] = None /\ cr[e] = "None"
     THEN IF data[e] > 0
          THEN data' = [data EXCEPT ![e] = @ - 1] /\ Goto(e, "check")
          ELSE UNCHANGED data /\ Goto(e, "late")
     ELSE UNCHANGED data /\ Goto(e, "check")
  /\ UnchangedByDecoder
  /\ UNCHANGED <<workers, pq, spaces, packet, cr, vf, codec, results, frameSem>>

DataTimedOut(e) ==
  /\ dpc[e] = "late"
  /\ Goto(e, IF finishing THEN "out" ELSE "wait")
  /\ UnchangedByDecoder
  /\ UNCHANGED <<workers, packetVars, packet, cr, vf, codec, results, frameSem>>

\* Mutant: the end mark is not looked for.
MustReturnWhenAsked(e) == finishing /\ (e = "A" \/ Len(results[e]) > 1)

\* An audio decoder finishes on request; the video decoder only with frames
\* in the queue; either after the end mark.
MustReturn(e) ==
  \/ results[e] # <<>> /\ results[e][Len(results[e])] = Null
  \/ finishing /\ (e = "A" \/ Len(results[e]) > 1)

CheckReturn(e) ==
  /\ dpc[e] = "check"
  /\ Goto(e, IF MustReturn(e) THEN "out"
             ELSE IF packet[e] = None /\ cr[e] = "None" THEN "obtain" ELSE "decode")
  /\ UnchangedByDecoder
  /\ UNCHANGED <<workers, packetVars, packet, cr, vf, codec, results, frameSem>>

\* Mutant: the space is not posted.
ObtainInSecret(e) ==
  /\ dpc[e] = "obtain" /\ pq[e] # <<>>
  /\ packet' = [packet EXCEPT ![e] = Head(pq[e])]
  /\ pq' = [pq EXCEPT ![e] = Tail(@)]
  /\ cr' = IF Tail(pq[e]) = <<Null>> THEN [cr EXCEPT ![e] = "Started"] ELSE cr
  /\ Goto(e, "decode")
  /\ UnchangedByDecoder
  /\ UNCHANGED <<workers, spaces, data, vf, codec, results, frameSem>>

\* obtainPacket, called until it returns a packet.  A packet that leaves
\* nothing but the end mark behind is the last one.
ObtainPacket(e) ==
  /\ dpc[e] = "obtain"
  /\ IF pq[e] = <<>> THEN UNCHANGED <<dpc, pq, spaces, packet, cr>>
     ELSE /\ packet' = [packet EXCEPT ![e] = IF Head(pq[e]) = Null THEN None
                                             ELSE Head(pq[e])]
          /\ pq' = [pq EXCEPT ![e] = Tail(@)]
          /\ spaces' = [spaces EXCEPT ![e] = @ + 1]
          /\ cr' = IF Tail(pq[e]) = <<Null>> THEN [cr EXCEPT ![e] = "Started"] ELSE cr
          /\ Goto(e, IF Head(pq[e]) = Null /\ cr'[e] = "None" THEN "obtain" ELSE "decode")
  /\ UnchangedByDecoder
  /\ UNCHANGED <<workers, data, vf, codec, results, frameSem>>

\* What decodeFrameFromPacket reports: a frame, nothing (EAGAIN or the end of
\* the codec's frames), or a failure to decode.
Frame(e) ==
  /\ ~(packet[e] = Blank /\ LoopVideo)
  /\ packet[e] \notin Rejected
  /\ LET ready == IF packet[e] = Blank THEN codec[e] ELSE Append(codec[e], packet[e])
     IN  /\ ready # <<>>
         /\ vf' = [vf EXCEPT ![e] = Head(ready)]
         /\ codec' = [codec EXCEPT ![e] = Tail(ready)]

Nothing(e) ==
  /\ ~(packet[e] = Blank /\ LoopVideo)
  /\ packet[e] \notin Rejected
  /\ IF packet[e] = Blank
     THEN codec[e] = <<>> /\ UNCHANGED codec
     ELSE Len(codec[e]) < MaxDelay /\ codec' = [codec EXCEPT ![e] = Append(@, packet[e])]

Failure(e) ==
  \/ packet[e] = Blank /\ LoopVideo /\ codec' = [codec EXCEPT ![e] = <<>>]
  \/ packet[e] \in Rejected /\ UNCHANGED codec

\* The frame goes to the results; while flushing the packet is kept as the
\* blank one.
DecodeToFrame(e) ==
  /\ Frame(e)
  /\ IF cr[e] = "None"
     THEN packet' = [packet EXCEPT ![e] = None] /\ UNCHANGED cr
     ELSE packet' = [packet EXCEPT ![e] = Blank] /\ cr' = [cr EXCEPT ![e] = "Finished"]
  /\ Goto(e, "slot")

\* No frame while flushing: after the flush the end mark goes to the results,
\* before it the flush begins.
NoMoreFrames(e) ==
  /\ IF cr[e] = "Finished" /\ packet[e] = Blank
     THEN /\ vf' = [vf EXCEPT ![e] = Null]
          /\ packet' = [packet EXCEPT ![e] = None]
          /\ Goto(e, "slot")
          /\ UNCHANGED cr
     ELSE /\ packet' = [packet EXCEPT ![e] = Blank]
          /\ cr' = [cr EXCEPT ![e] = "Finished"]
          /\ Goto(e, "wait")
          /\ UNCHANGED vf

Flushes(e) ==
  /\ cr[e] # "None"
  /\ Nothing(e) \/ Failure(e)
  /\ NoMoreFrames(e)

\* A packet that gave nothing is dropped.
Skips(e) ==
  /\ cr[e] = "None" /\ Nothing(e)
  /\ packet' = [packet EXCEPT ![e] = None]
  /\ Goto(e, "wait")
  /\ UNCHANGED <<cr, vf>>

\* After a failure it is tried again as long as data is left in it.
TriesAgain(e) ==
  /\ cr[e] = "None" /\ Failure(e)
  /\ IF packet[e] = Blank THEN packet' = [packet EXCEPT ![e] = None] /\ Goto(e, "wait")
                          ELSE UNCHANGED <<packet, dpc>>
  /\ UNCHANGED <<cr, vf>>

DecodePacket(e) ==
  /\ dpc[e] = "decode"
  /\ DecodeToFrame(e) \/ Flushes(e) \/ Skips(e) \/ TriesAgain(e)
  /\ UnchangedByDecoder
  /\ UNCHANGED <<workers, packetVars, results, frameSem>>

WaitForSlot(e) ==
  /\ dpc[e] = "slot"
  /\ IF frameSem[e] > 0 THEN frameSem' = [frameSem EXCEPT ![e] = @ - 1] /\ Goto(e, "push")
                        ELSE UNCHANGED frameSem /\ Goto(e, "slotlate")
  /\ UnchangedByDecoder
  /\ UNCHANGED <<workers, packetVars, packet, cr, vf, codec, results>>

\* Mutant: the wait for a slot ends only with a slot.
SlotTimedOutAgain(e) ==
  /\ dpc[e] = "slotlate"
  /\ Goto(e, "slot")
  /\ UnchangedByDecoder
  /\ UNCHANGED <<workers, packetVars, packet, cr, vf, codec, results, frameSem>>

\* Mutant: a frame that finds no slot is dropped.
SlotTimedOutDropping(e) ==
  /\ dpc[e] = "slotlate"
  /\ Goto(e, IF finishing THEN "out" ELSE "wait")
  /\ UnchangedByDecoder
  /\ UNCHANGED <<workers, packetVars, packet, cr, vf, codec, results, frameSem>>

SlotTimedOut(e) ==
  /\ dpc[e] = "slotlate"
  /\ Goto(e, IF finishing THEN "out" ELSE "slot")
  /\ UnchangedByDecoder
  /\ UNCHANGED <<workers, packetVars, packet, cr, vf, codec, results, frameSem>>

PushFrame(e) ==
  /\ dpc[e] = "push"
  /\ results' = [results EXCEPT ![e] = Append(@, vf[e])]
  /\ vf' = [vf EXCEPT ![e] = None]
  /\ Goto(e, "wait")
  /\ UnchangedByDecoder
  /\ UNCHANGED <<workers, packetVars, packet, cr, codec, frameSem>>

DecoderEnds(e) ==
  /\ dpc[e] = "out"
  /\ workers' = workers - 1
  /\ Goto(e, "done")
  /\ UnchangedByDecoder
  /\ UNCHANGED <<packetVars, packet, cr, vf, codec, results, frameSem>>

Decoder(e) ==
  \/ DecoderStarts(e) \/ WaitForData(e) \/ DataTimedOut(e) \/ CheckReturn(e)
  \/ ObtainPacket(e) \/ DecodePacket(e) \/ WaitForSlot(e) \/ SlotTimedOut(e)
  \/ PushFrame(e) \/ DecoderEnds(e)

-----------------------------------------------------------------------------
Opening == LoadVideo \/ LoadPresentation \/ TakeTimecodes \/ DestroyLock \/ ClearLock
           \/ PrepareBridge \/ StartProcessing
Playing == StartPlayback \/ AdvanceVideo \/ SeeEndOfFile \/ ReturnSlot("V")
Stopping == AskDecoders \/ LookAgain \/ Reap \/ ResetDemuxer \/ DemuxNotDone
Mixer == FirstBufferPlayed \/ AdvanceAudio \/ ReturnSlot("A")

Next ==
  \/ Opening \/ Playing \/ StopPlayback \/ Stopping \/ Mixer \/ Demux
  \/ \E e \in Entry : Decoder(e)

\* Every thread runs on.  The script thread draws frames and takes them as its
\* clock ticks; it calls stopPlayback again after the end of file and while a
\* request to stop is pending, but nobody has to make that request.
Fairness ==
  /\ WF_vars(Opening \/ StartPlayback \/ Stopping)
  /\ WF_vars(AdvanceVideo \/ SeeEndOfFile \/ ReturnSlot("V"))
  /\ WF_vars((eof \/ mpc = "stopping") /\ StopPlayback)
  /\ WF_vars(Mixer)
  /\ WF_vars(Demux)
  /\ \A e \in Entry : WF_vars(Decoder(e))

Spec == Init /\ [][Next]_vars
FairSpec == Spec /\ Fairness

-----------------------------------------------------------------------------
(* Properties. *)

Reals(s) == Len(s) - (IF s # <<>> /\ s[Len(s)] = Null THEN 1 ELSE 0)
One(b) == IF b THEN 1 ELSE 0

\* packetQueueSemSpaces counts the free places of the packet queues: the
\* packets in a queue and the place pushPacket reserved make up the rest, so
\* a queue never outgrows its buffer, whichever thread runs ahead.
SpacesConserved ==
  mpc \notin {"offline", "loaded"} =>
    \A e \in Entry : spaces[e] + Reals(pq[e]) + One(held = e) = Cap[e]

\* frameQueueSem counts the free places of the frame queues (end mark
\* included) until the decoders are destroyed, so the decoders never hold
\* more frames than loadPresentation allocated surfaces for.
SlotsConserved ==
  alive => \A e \in Entry :
    frameSem[e] + Len(results[e]) + One(dpc[e] = "push") + One(e \in owed) = Cap[e]

\* A decoder that passed waitForData finds a packet at once: obtainPacket's
\* retry with SDL_Delay(3), which looks at no flag, is never needed, the end
\* mark is never taken for a packet and no null packet reaches the codec.
DecoderFindsItsPacket ==
  \A e \in Entry :
    /\ dpc[e] = "obtain" => pq[e] # <<>> /\ Head(pq[e]) # Null
    /\ dpc[e] = "decode" => packet[e] # None

\* The end mark is unique and last, in the packets and in the frames:
\* advanceVideoFrames' assert(frame->surface != nullptr) rests on it.
EndMarkIsLast ==
  \A e \in Entry : \A s \in {pq[e], results[e]} :
    \A i \in 1..Len(s) : s[i] = Null => i = Len(s)

\* "equals number of unfinished workers (i.e. 0 when all are done)", once
\* loadPresentation and startProcessing are over, if neither failed (a failure leaves the
\* count of threads that were never started, and the movie that did not open cannot be
\* closed: Controller.cpp:213).
CountIsUnfinishedWorkers ==
  ~MayFail /\ mpc \in {"play", "finish", "delay", "reap", "demux", "stopping"} =>
    workers = One(dpc["V"] \notin {"off", "done"}) + One(dpc["A"] \notin {"off", "done"})

\* finish() destroys the decoders while the demultiplexer still runs: by then
\* no decoder thread is left, and getVideoTimecodes does not need them again.
NothingUsesDeadDecoders ==
  ~alive => /\ \A e \in Entry : dpc[e] \in {"off", "done"}
            /\ dmx = "codes" => counter = VideoPacketBufferSize

\* The demultiplexer posts initVideoTimecodesLock when it has collected the
\* timecodes and once more at its end: never when getVideoFramerate has
\* destroyed it and not yet cleared the pointer.
NoPostToDestroyedLock ==
  /\ dmx = "lastpost" => tlock >= 0
  /\ dmx = "codes" => tlock # Freed \/ counter = VideoPacketBufferSize

\* The frames of a stream are taken in order and none is lost before the end
\* of file.  Nothing is claimed of a looped movie, whose codecs drop the frames they
\* hold back at each seek.
F == INSTANCE FrameStream WITH
  sent <- IF LoopVideo THEN Each(0) ELSE nread,
  seen <- IF LoopVideo THEN Each(0) ELSE last,
  mode <- IF mpc = "offline" THEN "closed"
          ELSE IF eof THEN "ended"
          ELSE IF mpc \in {"finish", "delay", "reap", "demux", "stopping"} THEN "stopping"
          ELSE "open"
IsFrameStream == F!Spec

\* finish() asked again and again returns true in the end: no thread of the
\* pipeline waits for another for ever.
PlaybackStops == mpc = "finish" ~> mpc = "offline"

\* A movie that was opened is watched to its end unless it is stopped: the
\* demultiplexer posts the lock loadPresentation waits for, even when the audio
\* queue fills up before enough video was read, and then no thread starves.
Watching == {"timing", "destroy", "clear", "bridge", "start", "play"}
EndIsReached == mpc \in Watching ~> eof \/ mpc \notin Watching
=============================================================================

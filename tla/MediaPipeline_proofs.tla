------------------------- MODULE MediaPipeline_proofs -------------------------
(***************************************************************************)
(* Proofs about MediaPipeline: what its semaphores count, that the end     *)
(* marks end their queues and are never decoded, and that decoders die     *)
(* only when nobody runs in them, for every size of the buffers, every     *)
(* number of packets and every file.                                       *)
(***************************************************************************)
EXTENDS MediaPipeline, SequenceTheorems, TLAPS

-----------------------------------------------------------------------------
(* Types *)

LEMMA CapIsNat == \A e \in Entry : Cap[e] \in Nat
BY ConstantsAssumption DEF Cap, Entry

LEMMA EmptyIsASeq == \A S : <<>> \in Seq(S) /\ Len(<<>>) = 0
OBVIOUS

LEMMA Ends ==
  ASSUME NEW S, NEW s \in Seq(S), s # <<>>
  PROVE  Head(s) \in S /\ Tail(s) \in Seq(S) /\ s[Len(s)] \in S
OBVIOUS

LEMMA Appended ==
  ASSUME NEW S, NEW s \in Seq(S), NEW x \in S
  PROVE  Append(s, x) \in Seq(S) /\ Append(s, x) # <<>>
BY AppendProperties

LEMMA TypeInit == Init => TypeOK
<1> SUFFICES ASSUME Init PROVE TypeOK
  OBVIOUS
<1>1. /\ pq \in [Entry -> Seq(Content)] /\ codec \in [Entry -> Seq(Number)]
      /\ results \in [Entry -> Seq(Content)]
  BY EmptyIsASeq DEF Init, Each
<1>2. /\ packet \in [Entry -> Number] /\ vf \in [Entry -> Content]
      /\ last \in [Entry -> Content]
      /\ pkt \in [stream : Entry \cup {"none"}, n : Number]
  BY DEF Init, Each, Number, Content, NoPacket
<1>3. /\ dpc \in [Entry -> DecoderPC] /\ dmx \in DemuxPC /\ mpc \in MainPC
      /\ cr \in [Entry -> {"None", "Started", "Finished"}]
  BY DEF Init, Each, DecoderPC, DemuxPC, MainPC
<1>4. MainTypes /\ LifeTypes
  <2>1. /\ file \in Files /\ eof = FALSE /\ bridge = "none"
        /\ alive = FALSE /\ finishing = FALSE /\ demuxFinish = FALSE
    BY DEF Init
  <2>2. workers \in Int
    BY DEF Init
  <2>3. QED
    BY <1>3, <2>1, <2>2 DEF MainTypes, LifeTypes
<1>5. DemuxTypes
  <2>1. held = "none" /\ ending = FALSE /\ complete = FALSE
    BY DEF Init
  <2>2. counter \in 0..VideoPacketBufferSize /\ laps \in 0..MaxLaps
    BY ConstantsAssumption DEF Init
  <2>3. nread \in [Entry -> Nat]
    BY DEF Init, Each
  <2>4. QED
    BY <1>2, <1>3, <2>1, <2>2, <2>3 DEF DemuxTypes
<1>6. PacketTypes /\ FrameTypes
  BY <1>1, <1>2 DEF Init, PacketTypes, FrameTypes, Each
<1>7. ThreadTypes
  BY <1>1, <1>2, <1>3 DEF ThreadTypes
<1>8. QED
  BY <1>4, <1>5, <1>6, <1>7 DEF Init, TypeOK

\* What an action leaves alone keeps its type.
LEMMA Unmoved ==
  /\ MainTypes /\ UNCHANGED mainVars => MainTypes'
  /\ LifeTypes /\ UNCHANGED lifeVars => LifeTypes'
  /\ DemuxTypes /\ UNCHANGED demuxVars => DemuxTypes'
  /\ PacketTypes /\ UNCHANGED packetVars => PacketTypes'
  /\ ThreadTypes /\ UNCHANGED threadVars => ThreadTypes'
  /\ FrameTypes /\ UNCHANGED frameVars => FrameTypes'
<1>1. /\ MainTypes /\ UNCHANGED mainVars => MainTypes'
      /\ LifeTypes /\ UNCHANGED lifeVars => LifeTypes'
  BY DEF MainTypes, mainVars, LifeTypes, lifeVars
<1>2. DemuxTypes /\ UNCHANGED demuxVars => DemuxTypes'
  BY DEF DemuxTypes, demuxVars
<1>3. /\ PacketTypes /\ UNCHANGED packetVars => PacketTypes'
      /\ ThreadTypes /\ UNCHANGED threadVars => ThreadTypes'
  BY DEF PacketTypes, packetVars, ThreadTypes, threadVars
<1>4. FrameTypes /\ UNCHANGED frameVars => FrameTypes'
  BY DEF FrameTypes, frameVars
<1>5. QED
  BY <1>1, <1>2, <1>3, <1>4

LEMMA TypeOpening == TypeOK /\ Opening => TypeOK'
<1> SUFFICES ASSUME TypeOK, Opening PROVE TypeOK'
  OBVIOUS
<1> USE Unmoved DEF TypeOK
<1>1. CASE LoadVideo
  <2>1. MainTypes'
    BY <1>1 DEF LoadVideo, MainTypes, MainPC
  <2>2. LifeTypes'
    BY <1>1 DEF LoadVideo, LifeTypes
  <2>3. FrameTypes'
    <3>1. frameSem' \in [Entry -> Nat]
      BY <1>1, CapIsNat DEF LoadVideo, Cap
    <3>2. QED
      BY <1>1, <3>1 DEF LoadVideo, FrameTypes
  <2>4. QED
    BY <1>1, <2>1, <2>2, <2>3 DEF LoadVideo
<1>2. CASE LoadPresentation
  <2>1. MainTypes'
    BY <1>2 DEF LoadPresentation, MainTypes, MainPC
  <2>2. LifeTypes'
    <3>1. workers' \in Int
      BY <1>2 DEF LoadPresentation
    <3>2. QED
      BY <1>2, <3>1 DEF LoadPresentation, LifeTypes
  <2>3. PacketTypes'
    <3>1. spaces' \in [Entry -> Nat]
      BY <1>2, CapIsNat DEF LoadPresentation, Cap
    <3>2. QED
      BY <1>2, <3>1 DEF LoadPresentation, PacketTypes
  <2>4. DemuxTypes'
    BY <1>2 DEF LoadPresentation, DemuxTypes, DemuxPC
  <2>5. tlock' \in Nat \cup {Gone, Freed}
    BY <1>2 DEF LoadPresentation
  <2>6. QED
    BY <1>2, <2>1, <2>2, <2>3, <2>4, <2>5 DEF LoadPresentation
<1>3. CASE TakeTimecodes \/ DestroyLock \/ ClearLock
  <2>1. tlock' \in Nat \cup {Gone, Freed}
    BY <1>3 DEF TakeTimecodes, DestroyLock, ClearLock, Gone, Freed
  <2>2. MainTypes'
    BY <1>3 DEF TakeTimecodes, DestroyLock, ClearLock, MainTypes, MainPC
  <2>3. QED
    BY <1>3, <2>1, <2>2 DEF TakeTimecodes, DestroyLock, ClearLock
<1>4. CASE PrepareBridge
  <2>1. MainTypes'
    BY <1>4 DEF PrepareBridge, MainTypes, MainPC
  <2>2. QED
    BY <1>4, <2>1 DEF PrepareBridge
<1>5. CASE StartProcessing
  <2>1. MainTypes'
    BY <1>5 DEF StartProcessing, MainTypes, MainPC
  <2>2. ThreadTypes'
    BY <1>5 DEF StartProcessing, ThreadTypes, DecoderPC
  <2>3. QED
    BY <1>5, <2>1, <2>2 DEF StartProcessing
<1>6. QED
  BY <1>1, <1>2, <1>3, <1>4, <1>5 DEF Opening

LEMMA TypeTakeFrame ==
  ASSUME TypeOK, NEW e \in Entry, TakeFrame(e)
  PROVE  TypeOK'
<1>1. Tail(results[e]) \in Seq(Content) /\ Head(results[e]) \in Content
  BY Ends DEF TypeOK, FrameTypes, TakeFrame
<1>2. FrameTypes'
  BY <1>1 DEF TypeOK, FrameTypes, TakeFrame
<1>3. QED
  BY <1>2, Unmoved DEF TypeOK, TakeFrame

LEMMA TypeReturnSlot ==
  ASSUME TypeOK, NEW e \in Entry, ReturnSlot(e)
  PROVE  TypeOK'
<1>1. frameSem' \in [Entry -> Nat]
  BY DEF TypeOK, FrameTypes, ReturnSlot
<1>2. FrameTypes'
  BY <1>1 DEF TypeOK, FrameTypes, ReturnSlot
<1>3. QED
  BY <1>2, Unmoved DEF TypeOK, ReturnSlot

LEMMA TypePlaying == TypeOK /\ (Playing \/ Mixer \/ StopPlayback \/ Stopping) => TypeOK'
<1> SUFFICES ASSUME TypeOK, Playing \/ Mixer \/ StopPlayback \/ Stopping PROVE TypeOK'
  OBVIOUS
<1> USE Unmoved DEF TypeOK
<1>1. CASE StartPlayback \/ SeeEndOfFile \/ FirstBufferPlayed \/ StopPlayback
           \/ LookAgain \/ DemuxNotDone
  <2>1. MainTypes'
    BY <1>1 DEF StartPlayback, SeeEndOfFile, FirstBufferPlayed, StopPlayback, LookAgain,
                DemuxNotDone, MainTypes, MainPC
  <2>2. QED
    BY <1>1, <2>1 DEF StartPlayback, SeeEndOfFile, FirstBufferPlayed, StopPlayback, LookAgain,
                      DemuxNotDone
<1>2. CASE AskDecoders
  <2>1. MainTypes'
    BY <1>2 DEF AskDecoders, MainTypes, MainPC
  <2>2. LifeTypes'
    BY <1>2 DEF AskDecoders, LifeTypes
  <2>3. QED
    BY <1>2, <2>1, <2>2 DEF AskDecoders
<1>3. CASE Reap
  <2>1. /\ results' = [V |-> LastOf(results["V"]), A |-> <<>>]
        /\ results["V"] \in Seq(Content)
    BY <1>3 DEF FrameTypes, Reap, Entry
  <2>2. LastOf(results["V"]) \in Seq(Content)
    <3>1. CASE results["V"] = <<>>
      BY <3>1, EmptyIsASeq DEF LastOf
    <3>2. CASE results["V"] # <<>>
      <4>1. results["V"][Len(results["V"])] \in Content
        BY <2>1, <3>2, Ends
      <4>2. QED
        BY <3>2, <4>1 DEF LastOf
    <3>3. QED
      BY <3>1, <3>2
  <2>3. results' \in [Entry -> Seq(Content)]
    <3>1. DOMAIN results' = Entry /\ results' = [e \in Entry |-> results'[e]]
      BY <2>1 DEF Entry
    <3>2. \A e \in Entry : results'[e] \in Seq(Content)
      <4>1. results'["V"] = LastOf(results["V"]) /\ results'["A"] = <<>>
        BY <2>1
      <4>2. results'["A"] \in Seq(Content)
        BY <4>1, EmptyIsASeq
      <4>3. QED
        BY <2>2, <4>1, <4>2 DEF Entry
    <3>3. QED
      BY <3>1, <3>2
  <2>4. FrameTypes'
    BY <1>3, <2>3 DEF Reap, FrameTypes
  <2>5. MainTypes' /\ LifeTypes'
    BY <1>3 DEF Reap, MainTypes, MainPC, LifeTypes
  <2>6. QED
    BY <1>3, <2>4, <2>5 DEF Reap
<1>4. CASE ResetDemuxer
  <2>1. Init'
    BY <1>4 DEF ResetDemuxer, Init
  <2>2. QED
    BY <2>1, TypeInit, PTL
<1>5. CASE AdvanceVideo \/ AdvanceAudio
  BY <1>5, TypeTakeFrame DEF AdvanceVideo, AdvanceAudio, Entry
<1>6. CASE ReturnSlot("V") \/ ReturnSlot("A")
  BY <1>6, TypeReturnSlot DEF Entry
<1>7. QED
  BY <1>1, <1>2, <1>3, <1>4, <1>5, <1>6 DEF Playing, Mixer, Stopping

LEMMA TypeDemux == TypeOK /\ Demux => TypeOK'
<1> SUFFICES ASSUME TypeOK, Demux PROVE TypeOK'
  OBVIOUS
<1> USE Unmoved DEF TypeOK, UnchangedByDemux
<1>1. CASE DemuxStarts \/ DemuxBreaks \/ DemuxCompletes \/ SpaceTimedOut \/ MayPush
  <2>1. DemuxTypes'
    BY <1>1 DEF DemuxStarts, DemuxBreaks, DemuxCompletes, SpaceTimedOut, MayPush,
                DemuxTypes, DemuxPC
  <2>2. QED
    BY <1>1, <2>1 DEF DemuxStarts, DemuxBreaks, DemuxCompletes, SpaceTimedOut, MayPush
<1>2. CASE LastPost
  <2>1. DemuxTypes'
    BY <1>2 DEF LastPost, DemuxTypes, DemuxPC
  <2>2. tlock' \in Nat \cup {Gone, Freed}
    BY <1>2 DEF LastPost
  <2>3. QED
    BY <1>2, <2>1, <2>2 DEF LastPost
<1>3. CASE ReadFrame
  <2>1. nread' \in [Entry -> Nat] /\ pkt' \in [stream : Entry \cup {"none"}, n : Number]
    <3>1. ASSUME NEW e \in Streams, nread' = [nread EXCEPT ![e] = @ + 1],
                 pkt' = [stream |-> e, n |-> nread[e] + 1]
          PROVE  nread' \in [Entry -> Nat] /\ pkt' \in [stream : Entry \cup {"none"}, n : Number]
      <4>1. e \in Entry
        BY DEF Streams, Entry
      <4>2. nread[e] + 1 \in Nat
        BY <4>1 DEF DemuxTypes
      <4>3. QED
        BY <3>1, <4>1, <4>2 DEF DemuxTypes, Number
    <3>2. ASSUME nread' = nread,
                 pkt' = [stream |-> IF BlankStream \in Streams THEN BlankStream ELSE "none",
                         n |-> Blank]
          PROVE  nread' \in [Entry -> Nat] /\ pkt' \in [stream : Entry \cup {"none"}, n : Number]
      BY <3>2 DEF Streams, Entry, Number, Blank, DemuxTypes
    <3>3. QED
      BY <1>3, <3>1, <3>2 DEF ReadFrame
  <2>2. DemuxTypes'
    BY <1>3, <2>1 DEF ReadFrame, DemuxTypes, DemuxPC
  <2>3. QED
    BY <1>3, <2>2 DEF ReadFrame
<1>4. CASE GetVideoTimecodes
  <2>1. counter' \in 0..VideoPacketBufferSize
    BY <1>4, ConstantsAssumption DEF GetVideoTimecodes, Collected, DemuxTypes
  <2>2. DemuxTypes'
    BY <1>4, <2>1 DEF GetVideoTimecodes, DemuxTypes, DemuxPC
  <2>3. tlock' \in Nat \cup {Gone, Freed}
    BY <1>4 DEF GetVideoTimecodes
  <2>4. QED
    BY <1>4, <2>2, <2>3 DEF GetVideoTimecodes
<1>5. CASE ReserveSpace
  <2>1. PacketTypes'
    <3>1. \/ spaces[pkt.stream] > 0 /\ spaces' = [spaces EXCEPT ![pkt.stream] = @ - 1]
          \/ spaces' = spaces
      BY <1>5 DEF ReserveSpace
    <3>2. spaces' \in [Entry -> Nat]
      BY <3>1 DEF PacketTypes
    <3>3. QED
      BY <1>5, <3>2 DEF ReserveSpace, PacketTypes
  <2>2. held' \in Entry \cup {"none"} /\ dmx' \in DemuxPC
    BY <1>5 DEF ReserveSpace, DemuxTypes, DemuxPC
  <2>3. DemuxTypes'
    BY <1>5, <2>2 DEF ReserveSpace, DemuxTypes
  <2>4. QED
    BY <1>5, <2>1, <2>3 DEF ReserveSpace
<1>6. CASE PushPacket
  <2>1. \A e \in Entry : With(e) \in Seq(Content)
    BY Appended DEF With, Content, PacketTypes, DemuxTypes
  <2>2. \A e \in Entry : Append(With(e), Null) \in Seq(Content)
    BY <2>1, Appended DEF Content
  <2>3. PacketTypes'
    <3>1. pq' \in [Entry -> Seq(Content)]
      BY <1>6, <2>1, <2>2 DEF PushPacket, PutEnd, PutPacket
    <3>2. QED
      BY <1>6, <3>1 DEF PushPacket, PacketTypes
  <2>4. DemuxTypes'
    <3>1. laps' \in 0..MaxLaps
      BY <1>6, ConstantsAssumption DEF PushPacket, PutEnd, PutPacket, DemuxTypes
    <3>2. ending' \in BOOLEAN
      BY <1>6 DEF PushPacket, PutEnd, PutPacket, DemuxTypes
    <3>3. dmx' \in DemuxPC /\ held' \in Entry \cup {"none"}
      BY <1>6 DEF PushPacket, DemuxPC
    <3>4. QED
      BY <1>6, <3>1, <3>2, <3>3 DEF PushPacket, DemuxTypes
  <2>5. QED
    BY <1>6, <2>3, <2>4 DEF PushPacket
<1>7. CASE PostData
  <2>1. PacketTypes'
    <3>1. data' = [data EXCEPT ![pkt.stream] = @ + 1] /\ UNCHANGED <<pq, spaces>>
      BY <1>7 DEF PostData
    <3>2. data \in [Entry -> Nat]
      BY DEF PacketTypes
    <3>3. \A e \in Entry : data[e] \in Nat /\ data[e] + 1 \in Nat
      BY <3>2
    <3>4. data' \in [Entry -> Nat]
      BY <3>1, <3>2, <3>3
    <3>5. QED
      BY <3>1, <3>4 DEF PacketTypes
  <2>2. DemuxTypes'
    BY <1>7 DEF PostData, DemuxTypes, DemuxPC
  <2>3. QED
    BY <1>7, <2>1, <2>2 DEF PostData
<1>8. QED
  BY <1>1, <1>2, <1>3, <1>4, <1>5, <1>6, <1>7 DEF Demux

LEMMA TypeDecodePacket ==
  ASSUME ThreadTypes, NEW e \in Entry, DecodePacket(e)
  PROVE  ThreadTypes'
<1> USE DEF ThreadTypes
<1>1. Blank \in Number /\ None \in Number /\ Null \in Content /\ Number \subseteq Content
  BY DEF Blank, Number, Content
<1>2. Nothing(e) \/ Failure(e) => codec' \in [Entry -> Seq(Number)]
  <2>1. Append(codec[e], packet[e]) \in Seq(Number) /\ <<>> \in Seq(Number)
    BY Appended, EmptyIsASeq
  <2>2. QED
    BY <2>1 DEF Nothing, Failure
<1>3. Frame(e) => codec' \in [Entry -> Seq(Number)] /\ vf' \in [Entry -> Content]
  <2> DEFINE ready == IF packet[e] = Blank THEN codec[e] ELSE Append(codec[e], packet[e])
  <2>1. ready \in Seq(Number)
    BY Appended
  <2>2. ready # <<>> => Head(ready) \in Number /\ Tail(ready) \in Seq(Number)
    BY <2>1, Ends
  <2>3. Frame(e) => /\ ready # <<>> /\ vf' = [vf EXCEPT ![e] = Head(ready)]
                    /\ codec' = [codec EXCEPT ![e] = Tail(ready)]
    BY DEF Frame
  <2> HIDE DEF ready
  <2>4. QED
    BY <1>1, <2>2, <2>3
<1>4. CASE DecodeToFrame(e)
  <2>1. codec' \in [Entry -> Seq(Number)] /\ vf' \in [Entry -> Content]
    BY <1>3, <1>4 DEF DecodeToFrame
  <2>2. packet' \in [Entry -> Number]
    BY <1>1, <1>4 DEF DecodeToFrame
  <2>3. cr' \in [Entry -> {"None", "Started", "Finished"}]
    BY <1>1, <1>4 DEF DecodeToFrame
  <2>4. dpc' \in [Entry -> DecoderPC]
    BY <1>1, <1>4 DEF DecodeToFrame, Goto, DecoderPC
  <2>5. QED
    BY <2>1, <2>2, <2>3, <2>4
<1>5. CASE Flushes(e)
  BY <1>1, <1>2, <1>5, ZenonT(30) DEF Flushes, NoMoreFrames, Goto, DecoderPC
<1>6. CASE Skips(e) \/ TriesAgain(e)
  BY <1>1, <1>2, <1>6, ZenonT(30) DEF Skips, TriesAgain, Goto, DecoderPC
<1>7. QED
  BY <1>4, <1>5, <1>6 DEF DecodePacket

LEMMA TypeDecoder ==
  ASSUME TypeOK, NEW e \in Entry, Decoder(e)
  PROVE  TypeOK'
<1> USE DEF TypeOK, Goto
<1>1. MainTypes' /\ DemuxTypes' /\ tlock' \in Nat \cup {Gone, Freed}
  <2>1. UnchangedByDecoder
    BY DEF Decoder, DecoderStarts, DataTimedOut, CheckReturn, SlotTimedOut, WaitForData,
           ObtainPacket, DecodePacket, WaitForSlot, PushFrame, DecoderEnds
  <2>2. QED
    BY <2>1, Unmoved DEF UnchangedByDecoder
<1>2. LifeTypes'
  <2>1. UNCHANGED <<alive, finishing, demuxFinish>>
    BY DEF Decoder, DecoderStarts, DataTimedOut, CheckReturn, SlotTimedOut, WaitForData,
           ObtainPacket, DecodePacket, WaitForSlot, PushFrame, DecoderEnds, UnchangedByDecoder
  <2>2. workers' \in Int
    BY DEF Decoder, DecoderStarts, DataTimedOut, CheckReturn, SlotTimedOut, WaitForData,
           ObtainPacket, DecodePacket, WaitForSlot, PushFrame, DecoderEnds, LifeTypes
  <2>3. QED
    BY <2>1, <2>2 DEF LifeTypes
<1>3. CASE DecoderStarts(e) \/ DataTimedOut(e) \/ CheckReturn(e) \/ SlotTimedOut(e)
           \/ DecoderEnds(e)
  <2>1. /\ UNCHANGED <<packetVars, packet, cr, vf, codec, results, frameSem, owed, last>>
        /\ \E l \in DecoderPC : dpc' = [dpc EXCEPT ![e] = l]
    BY <1>3 DEF DecoderStarts, DataTimedOut, CheckReturn, SlotTimedOut, DecoderEnds, DecoderPC,
                UnchangedByDecoder
  <2>2. ThreadTypes'
    BY <2>1 DEF ThreadTypes
  <2>3. QED
    BY <1>1, <1>2, <2>1, <2>2, Unmoved DEF frameVars
<1>4. CASE WaitForData(e)
  <2>1. PacketTypes'
    <3>1. \/ data[e] > 0 /\ data' = [data EXCEPT ![e] = @ - 1]
          \/ data' = data
      BY <1>4 DEF WaitForData
    <3>2. data' \in [Entry -> Nat]
      <4>1. data \in [Entry -> Nat] /\ data[e] \in Nat
        BY DEF PacketTypes
      <4>2. data[e] > 0 => data[e] - 1 \in Nat
        BY <4>1
      <4>3. QED
        BY <3>1, <4>1, <4>2
    <3>3. QED
      BY <1>4, <3>2 DEF WaitForData, PacketTypes
  <2>2. ThreadTypes'
    BY <1>4 DEF WaitForData, ThreadTypes, DecoderPC
  <2>3. QED
    BY <1>1, <1>2, <1>4, <2>1, <2>2, Unmoved DEF WaitForData, frameVars, UnchangedByDecoder
<1>5. CASE ObtainPacket(e) /\ pq[e] = <<>>
  BY <1>1, <1>2, <1>5, Unmoved
     DEF ObtainPacket, frameVars, packetVars, threadVars, UnchangedByDecoder
<1>6. CASE ObtainPacket(e) /\ pq[e] # <<>>
  <2>1. Head(pq[e]) \in Content /\ Tail(pq[e]) \in Seq(Content)
    BY <1>6, Ends DEF PacketTypes
  <2>2. (IF Head(pq[e]) = Null THEN None ELSE Head(pq[e])) \in Number
    BY <2>1 DEF Content, Number
  <2>3. PacketTypes'
    <3>1. /\ pq' = [pq EXCEPT ![e] = Tail(@)] /\ spaces' = [spaces EXCEPT ![e] = @ + 1]
          /\ data' = data
      BY <1>6 DEF ObtainPacket
    <3>2. spaces' \in [Entry -> Nat]
      BY <3>1 DEF PacketTypes
    <3>3. pq' \in [Entry -> Seq(Content)]
      BY <2>1, <3>1 DEF PacketTypes
    <3>4. QED
      BY <3>1, <3>2, <3>3 DEF PacketTypes
  <2>4. cr' \in [Entry -> {"None", "Started", "Finished"}]
    <3>1. cr' \in {[cr EXCEPT ![e] = "Started"], cr}
      BY <1>6 DEF ObtainPacket
    <3>2. QED
      BY <3>1 DEF ThreadTypes
  <2>5. packet' \in [Entry -> Number] /\ dpc' \in [Entry -> DecoderPC]
    <3>1. /\ packet' = [packet EXCEPT ![e] = IF Head(pq[e]) = Null THEN None ELSE Head(pq[e])]
          /\ dpc' \in {[dpc EXCEPT ![e] = "obtain"], [dpc EXCEPT ![e] = "decode"]}
      BY <1>6 DEF ObtainPacket, Goto
    <3>2. QED
      BY <2>2, <3>1 DEF DecoderPC, ThreadTypes
  <2>6. ThreadTypes'
    BY <1>6, <2>4, <2>5 DEF ObtainPacket, ThreadTypes
  <2>7. QED
    BY <1>1, <1>2, <1>6, <2>3, <2>6, Unmoved DEF ObtainPacket, frameVars, UnchangedByDecoder
<1>7. CASE DecodePacket(e)
  BY <1>1, <1>2, <1>7, TypeDecodePacket, Unmoved DEF DecodePacket, frameVars, UnchangedByDecoder
<1>8. CASE WaitForSlot(e)
  <2>1. FrameTypes'
    BY <1>8 DEF WaitForSlot, FrameTypes, UnchangedByDecoder
  <2>2. ThreadTypes'
    BY <1>8 DEF WaitForSlot, ThreadTypes, DecoderPC
  <2>3. QED
    BY <1>1, <1>2, <1>8, <2>1, <2>2, Unmoved DEF WaitForSlot
<1>9. CASE PushFrame(e)
  <2>1. Append(results[e], vf[e]) \in Seq(Content)
    BY Appended DEF FrameTypes, ThreadTypes
  <2>2. FrameTypes'
    BY <1>9, <2>1 DEF PushFrame, FrameTypes, UnchangedByDecoder
  <2>3. ThreadTypes'
    BY <1>9 DEF PushFrame, ThreadTypes, DecoderPC, Content, Number
  <2>4. QED
    BY <1>1, <1>2, <1>9, <2>2, <2>3, Unmoved DEF PushFrame
<1>10. QED
  BY <1>3, <1>4, <1>5, <1>6, <1>7, <1>8, <1>9 DEF Decoder

LEMMA TypeStep == TypeOK /\ [Next]_vars => TypeOK'
<1>1. TypeOK /\ UNCHANGED vars => TypeOK'
  BY Unmoved DEF TypeOK, vars
<1>2. QED
  BY <1>1, TypeOpening, TypePlaying, TypeDemux, TypeDecoder DEF Next

\* The state of a movie stays within its types: numbers, marks and the places of the
\* four threads.
THEOREM TypeCorrect == Spec => []TypeOK
BY TypeInit, TypeStep, PTL DEF Spec

-----------------------------------------------------------------------------
(* Who changes what *)

\* A decoder touches its own stream only.
LEMMA DecoderFrame ==
  ASSUME TypeOK, NEW e \in Entry, Decoder(e)
  PROVE  /\ UnchangedByDecoder
         /\ \A d \in Entry \ {e} :
              /\ pq'[d] = pq[d] /\ spaces'[d] = spaces[d] /\ data'[d] = data[d]
              /\ dpc'[d] = dpc[d] /\ packet'[d] = packet[d] /\ cr'[d] = cr[d]
              /\ vf'[d] = vf[d] /\ results'[d] = results[d] /\ frameSem'[d] = frameSem[d]
<1> USE DEF TypeOK, PacketTypes, ThreadTypes, FrameTypes
<1>1. UnchangedByDecoder
  BY DEF Decoder, DecoderStarts, DataTimedOut, CheckReturn, SlotTimedOut, WaitForData,
         ObtainPacket, DecodePacket, WaitForSlot, PushFrame, DecoderEnds
<1>2. ASSUME NEW d \in Entry, d # e
      PROVE  /\ pq'[d] = pq[d] /\ spaces'[d] = spaces[d] /\ data'[d] = data[d]
             /\ dpc'[d] = dpc[d]
  BY <1>2 DEF Decoder, DecoderStarts, DataTimedOut, CheckReturn, SlotTimedOut, WaitForData,
              ObtainPacket, DecodePacket, DecodeToFrame, Flushes, NoMoreFrames, Skips,
              TriesAgain, WaitForSlot, PushFrame, DecoderEnds, packetVars, Goto
<1>3. ASSUME NEW d \in Entry, d # e
      PROVE  packet'[d] = packet[d] /\ cr'[d] = cr[d] /\ vf'[d] = vf[d]
  BY <1>3 DEF Decoder, DecoderStarts, DataTimedOut, CheckReturn, SlotTimedOut, WaitForData,
              ObtainPacket, DecodePacket, DecodeToFrame, Frame, Flushes, NoMoreFrames, Skips,
              TriesAgain, WaitForSlot, PushFrame, DecoderEnds
<1>4. ASSUME NEW d \in Entry, d # e
      PROVE  results'[d] = results[d] /\ frameSem'[d] = frameSem[d]
  BY <1>4 DEF Decoder, DecoderStarts, DataTimedOut, CheckReturn, SlotTimedOut, WaitForData,
              ObtainPacket, DecodePacket, WaitForSlot, PushFrame, DecoderEnds
<1>5. QED
  BY <1>1, <1>2, <1>3, <1>4

LEMMA DemuxFrame == Demux => UnchangedByDemux
BY DEF Demux, DemuxStarts, DemuxBreaks, LastPost, DemuxCompletes, ReadFrame, GetVideoTimecodes,
       ReserveSpace, SpaceTimedOut, MayPush, PushPacket, PostData

\* What the script thread and the mixer do to a movie that plays, besides taking frames.
Steering == StartPlayback \/ SeeEndOfFile \/ FirstBufferPlayed \/ StopPlayback \/ AskDecoders
            \/ LookAgain \/ DemuxNotDone

LEMMA NextCases ==
  ASSUME Next
  PROVE  \/ Opening \/ Steering \/ Reap \/ ResetDemuxer \/ Demux
         \/ \E e \in Entry : TakeFrame(e) \/ ReturnSlot(e) \/ Decoder(e)
BY DEF Next, Playing, Stopping, Mixer, Steering, AdvanceVideo, AdvanceAudio, Entry

-----------------------------------------------------------------------------
(* The places of the frame queues *)

BeforeStart == {"offline", "loaded", "timing", "destroy", "clear", "bridge", "start"}

NotStarted ==
  /\ mpc \in BeforeStart => \A e \in Entry : dpc[e] = "off"
  /\ mpc = "offline" => \A e \in Entry : results[e] = <<>> /\ e \notin owed

SlotsInv == TypeOK /\ NotStarted /\ SlotsConserved

Places(e) == frameSem[e] + Len(results[e]) + One(dpc[e] = "push") + One(e \in owed)

LEMMA SlotsByPlaces == SlotsConserved <=> (alive => \A e \in Entry : Places(e) = Cap[e])
BY DEF SlotsConserved, Places

LEMMA PlacesTyped ==
  ASSUME TypeOK, NEW e \in Entry
  PROVE  frameSem[e] \in Nat /\ Len(results[e]) \in Nat /\ results[e] \in Seq(Content)
BY DEF TypeOK, FrameTypes

LEMMA Lengths ==
  ASSUME NEW S, NEW s \in Seq(S)
  PROVE  /\ Len(s) \in Nat /\ (s = <<>> <=> Len(s) = 0)
         /\ s # <<>> => Len(Tail(s)) = Len(s) - 1
         /\ \A x \in S : Len(Append(s, x)) = Len(s) + 1
OBVIOUS

LEMMA DecoderKeepsPlaces ==
  ASSUME TypeOK, NEW e \in Entry, Decoder(e)
  PROVE  \A d \in Entry : Places(d)' = Places(d)
<1>1. \A d \in Entry : (d \in owed) = (d \in owed)' 
  BY DecoderFrame DEF UnchangedByDecoder
<1>2. ASSUME NEW d \in Entry, d # e PROVE Places(d)' = Places(d)
  BY <1>1, <1>2, DecoderFrame DEF Places, One
<1>3. /\ frameSem[e] \in Nat /\ Len(results[e]) \in Nat /\ results[e] \in Seq(Content)
      /\ vf[e] \in Content
  BY PlacesTyped DEF TypeOK, ThreadTypes
<1>4. CASE WaitForSlot(e)
  <2>1. /\ results'[e] = results[e] /\ dpc[e] # "push"
        /\ \/ frameSem'[e] = frameSem[e] - 1 /\ dpc'[e] = "push"
           \/ frameSem'[e] = frameSem[e] /\ dpc'[e] # "push"
    BY <1>4 DEF WaitForSlot, Goto, TypeOK, FrameTypes, ThreadTypes
  <2>2. Places(e)' = Places(e)
    BY <1>1, <1>3, <2>1 DEF Places, One
  <2>3. QED
    BY <1>2, <2>2
<1>5. CASE PushFrame(e)
  <2>1. /\ results'[e] = Append(results[e], vf[e]) /\ frameSem'[e] = frameSem[e]
        /\ dpc[e] = "push" /\ dpc'[e] # "push"
    BY <1>5 DEF PushFrame, Goto, TypeOK, FrameTypes, ThreadTypes
  <2>2. Len(results'[e]) = Len(results[e]) + 1
    BY <1>3, <2>1, Lengths
  <2>3. Places(e)' = Places(e)
    BY <1>1, <1>3, <2>1, <2>2 DEF Places, One
  <2>4. QED
    BY <1>2, <2>3
<1>6. CASE ~WaitForSlot(e) /\ ~PushFrame(e)
  <2>1. /\ results'[e] = results[e] /\ frameSem'[e] = frameSem[e]
        /\ dpc[e] # "push" /\ dpc'[e] # "push"
    BY <1>6 DEF Decoder, DecoderStarts, DataTimedOut, CheckReturn, SlotTimedOut, WaitForData,
                ObtainPacket, DecodePacket, DecodeToFrame, Flushes, NoMoreFrames, Skips,
                TriesAgain, DecoderEnds, Goto, TypeOK, ThreadTypes
  <2>2. Places(e)' = Places(e)
    BY <1>1, <2>1 DEF Places, One
  <2>3. QED
    BY <1>2, <2>2
<1>7. QED
  BY <1>4, <1>5, <1>6

LEMMA SlotsStep == SlotsInv /\ [Next]_vars => SlotsInv'
<1> SUFFICES ASSUME SlotsInv, [Next]_vars PROVE SlotsInv'
  OBVIOUS
<1>0. TypeOK /\ TypeOK' /\ NotStarted /\ (alive => \A e \in Entry : Places(e) = Cap[e])
  BY TypeStep, SlotsByPlaces DEF SlotsInv
<1> SUFFICES NotStarted' /\ (alive' => \A e \in Entry : Places(e)' = Cap[e])
  BY <1>0 DEF SlotsInv, SlotsConserved, Places
<1>1. CASE LoadVideo
  <2>1. ASSUME NEW e \in Entry PROVE Places(e)' = Cap[e]
    <3>1. /\ results'[e] = <<>> /\ dpc'[e] = "off" /\ e \notin owed' /\ frameSem'[e] = Cap[e]
      BY <1>0, <1>1 DEF LoadVideo, NotStarted, BeforeStart, threadVars
    <3>2. Len(results'[e]) = 0 /\ Cap[e] \in Nat
      BY <3>1, CapIsNat
    <3>3. QED
      BY <3>1, <3>2 DEF Places, One
  <2>2. NotStarted'
    BY <1>0, <1>1 DEF LoadVideo, NotStarted, BeforeStart, threadVars
  <2>3. QED
    BY <2>1, <2>2
<1>2. CASE Opening /\ ~LoadVideo
  <2>1. /\ UNCHANGED <<results, frameSem, owed, alive>> /\ mpc' # "offline"
        /\ mpc \in BeforeStart /\ \A e \in Entry : dpc'[e] # "push"
        /\ mpc' \in BeforeStart => dpc' = dpc
    BY <1>0, <1>2 DEF Opening, LoadPresentation, TakeTimecodes, DestroyLock, ClearLock,
                  PrepareBridge, StartProcessing, NotStarted, BeforeStart, frameVars, threadVars,
                  lifeVars
  <2>2. \A e \in Entry : dpc[e] = "off"
    BY <1>0, <2>1 DEF NotStarted
  <2>3. \A e \in Entry : Places(e)' = Places(e)
    BY <2>1, <2>2 DEF Places, One
  <2>4. QED
    BY <1>0, <2>1, <2>2, <2>3 DEF NotStarted
<1>3. CASE Steering
  <2>1. /\ UNCHANGED <<results, frameSem, owed, dpc, alive>>
        /\ (mpc' \notin BeforeStart /\ mpc' # "offline") \/ mpc' = mpc
    BY <1>3 DEF Steering, StartPlayback, SeeEndOfFile, FirstBufferPlayed, StopPlayback,
                AskDecoders, LookAgain, DemuxNotDone, MayUpdate, frameVars, threadVars, lifeVars,
                BeforeStart
  <2>2. \A e \in Entry : Places(e)' = Places(e)
    BY <2>1 DEF Places
  <2>3. QED
    BY <1>0, <2>1, <2>2 DEF NotStarted
<1>4. CASE Reap
  BY <1>4 DEF Reap, NotStarted, BeforeStart
<1>5. CASE ResetDemuxer
  <2>1. /\ ~alive' /\ \A e \in Entry : dpc'[e] = "off" /\ results'[e] = <<>> /\ e \notin owed'
    BY <1>5 DEF ResetDemuxer, Each
  <2>2. QED
    BY <2>1 DEF NotStarted
<1>6. CASE Demux
  <2>1. UNCHANGED <<mpc, results, frameSem, owed, dpc, alive>>
    BY <1>6, DemuxFrame DEF UnchangedByDemux, mainVars, lifeVars, threadVars, frameVars
  <2>2. \A e \in Entry : Places(e)' = Places(e)
    BY <2>1 DEF Places
  <2>3. QED
    BY <1>0, <2>1, <2>2 DEF NotStarted
<1>7. ASSUME NEW e \in Entry, TakeFrame(e)
      PROVE  NotStarted' /\ (alive' => \A d \in Entry : Places(d)' = Cap[d])
  <2>1. /\ UNCHANGED <<mpc, frameSem, dpc, alive>> /\ results[e] # <<>> /\ e \notin owed
        /\ results' = [results EXCEPT ![e] = Tail(@)] /\ owed' = owed \cup {e}
    BY <1>7 DEF TakeFrame, mainVars, lifeVars, threadVars
  <2>2. Len(Tail(results[e])) = Len(results[e]) - 1
    BY <1>0, <2>1, PlacesTyped, Lengths
  <2>3. /\ results'[e] = Tail(results[e])
        /\ \A d \in Entry \ {e} : results'[d] = results[d] /\ (d \in owed') = (d \in owed)
    BY <1>0, <2>1 DEF TypeOK, FrameTypes
  <2>4. Places(e)' = Places(e)
    <3>1. frameSem[e] \in Nat /\ Len(results[e]) \in Nat
      BY <1>0, PlacesTyped
    <3>2. /\ One(e \in owed) = 0 /\ One(e \in owed)' = 1 /\ One(dpc[e] = "push") \in Nat
          /\ One(dpc[e] = "push")' = One(dpc[e] = "push") /\ frameSem'[e] = frameSem[e]
      BY <2>1 DEF One
    <3>3. Len(results'[e]) = Len(results[e]) - 1
      BY <2>2, <2>3
    <3>4. QED
      BY <3>1, <3>2, <3>3 DEF Places
  <2>5. \A d \in Entry \ {e} : Places(d)' = Places(d)
    BY <2>1, <2>3 DEF Places, One
  <2>6. mpc # "offline"
    BY <1>0, <2>1 DEF NotStarted
  <2>7. QED
    BY <1>0, <2>1, <2>4, <2>5, <2>6 DEF NotStarted
<1>8. ASSUME NEW e \in Entry, ReturnSlot(e)
      PROVE  NotStarted' /\ (alive' => \A d \in Entry : Places(d)' = Cap[d])
  <2>1. /\ UNCHANGED <<mpc, results, dpc, alive>> /\ e \in owed /\ owed' = owed \ {e}
        /\ alive => frameSem' = [frameSem EXCEPT ![e] = @ + 1]
    BY <1>8 DEF ReturnSlot, mainVars, lifeVars, threadVars
  <2>2. ASSUME alive, NEW d \in Entry PROVE Places(d)' = Places(d)
    <3>1. /\ frameSem'[d] = IF d = e THEN frameSem[d] + 1 ELSE frameSem[d]
          /\ (d \in owed') = (d \in owed /\ d # e)
      BY <1>0, <2>1, <2>2 DEF TypeOK, FrameTypes
    <3>2. QED
      BY <1>0, <2>1, <3>1, PlacesTyped DEF Places, One
  <2>3. QED
    BY <1>0, <2>1, <2>2 DEF NotStarted
<1>9. ASSUME NEW e \in Entry, Decoder(e)
      PROVE  NotStarted' /\ (alive' => \A d \in Entry : Places(d)' = Cap[d])
  <2>1. UNCHANGED <<mpc, alive, owed>>
    BY <1>0, <1>9, DecoderFrame DEF UnchangedByDecoder, mainVars
  <2>2. dpc[e] # "off"
    BY <1>9 DEF Decoder, DecoderStarts, DataTimedOut, CheckReturn, SlotTimedOut, WaitForData,
                ObtainPacket, DecodePacket, WaitForSlot, PushFrame, DecoderEnds
  <2>3. mpc \notin BeforeStart /\ mpc # "offline"
    BY <1>0, <2>2 DEF NotStarted, BeforeStart
  <2>4. QED
    BY <1>0, <1>9, <2>1, <2>3, DecoderKeepsPlaces DEF NotStarted
<1>10. CASE UNCHANGED vars
  BY <1>0, <1>10 DEF NotStarted, Places, vars, mainVars, lifeVars, threadVars, frameVars
<1>11. QED
  BY <1>1, <1>2, <1>3, <1>4, <1>5, <1>6, <1>7, <1>8, <1>9, <1>10, NextCases

LEMMA SlotsInit == Init => SlotsInv
BY TypeInit DEF Init, SlotsInv, NotStarted, SlotsConserved, Each

LEMMA SlotsInvariant == Spec => []SlotsInv
BY SlotsInit, SlotsStep, PTL DEF Spec

\* frameQueueSem, the frames queued, the one being pushed and the one being returned make
\* up the queue's capacity while the decoders exist (Controller.cpp:287-300, 643-668): the
\* surfaces loadPresentation allocated suffice for any size of the queues.
THEOREM SlotsConservedAlways == Spec => []SlotsConserved
BY SlotsInvariant, PTL DEF SlotsInv

-----------------------------------------------------------------------------
(* The decoder threads and the death of the decoders *)

Running(e) == One(dpc[e] \notin {"off", "done"})
Unfinished == Running("V") + Running("A")
Threads == IF HasAudio THEN 2 ELSE 1

\* decoderWorkerCount is set before the threads exist and is never below their number.
WorkersCounted ==
  /\ mpc \in BeforeStart => \A e \in Entry : dpc[e] = "off"
  /\ mpc \in {"timing", "destroy", "clear", "bridge", "start"} => workers = Threads
  /\ mpc \notin BeforeStart => workers >= Unfinished /\ (~MayFail => workers = Unfinished)

\* The decoders die only when the count is zero.
DeadWhenFinished ==
  /\ mpc \in BeforeStart \ {"offline"} => alive
  /\ mpc = "reap" \/ (mpc # "offline" /\ ~alive) => workers <= 0

\* The script thread goes on only when the timecodes were collected or the demultiplexer
\* has come to its end.
TimecodesCollected ==
  /\ mpc \in {"offline", "loaded"} => dmx = "off" /\ tlock = Gone
  /\ tlock > 0 \/ mpc \notin {"offline", "loaded", "timing"} =>
       counter = VideoPacketBufferSize \/ dmx \in {"off", "complete", "gone"}

LifeInv == TypeOK /\ WorkersCounted /\ DeadWhenFinished /\ TimecodesCollected

LEMMA LifeInit == Init => LifeInv
<1> SUFFICES ASSUME Init PROVE LifeInv
  OBVIOUS
<1>1. mpc = "offline" /\ dmx = "off" /\ tlock = Gone /\ \A e \in Entry : dpc[e] = "off"
  BY DEF Init, Each
<1>2. QED
  BY <1>1, TypeInit
     DEF LifeInv, WorkersCounted, DeadWhenFinished, TimecodesCollected, BeforeStart, Gone

LEMMA WorkersOpening ==
  ASSUME LifeInv, Opening
  PROVE  WorkersCounted' /\ DeadWhenFinished' /\ TimecodesCollected'
<1> USE DEF LifeInv
<1>1. CASE LoadVideo
  BY <1>1 DEF LoadVideo, WorkersCounted, DeadWhenFinished, TimecodesCollected, BeforeStart,
              threadVars, demuxVars, Gone
<1>2. CASE LoadPresentation
  <2>1. /\ workers' = Threads /\ alive' = alive /\ dpc' = dpc /\ mpc = "loaded" /\ file' = file
        /\ \/ mpc' = "timing" /\ tlock' = 0
           \/ mpc' = "play" /\ MayFail /\ dmx' = dmx /\ tlock' = tlock
    BY <1>2 DEF LoadPresentation, Threads, threadVars
  <2>2. alive /\ dmx = "off" /\ tlock = Gone /\ \A e \in Entry : dpc[e] = "off"
    BY <2>1 DEF WorkersCounted, DeadWhenFinished, TimecodesCollected, BeforeStart
  <2>3. Unfinished' = 0 /\ Threads > 0
    BY <2>1, <2>2 DEF Unfinished, Running, One, Entry, Threads
  <2>4. WorkersCounted' /\ DeadWhenFinished'
    <3>1. MayFail' = MayFail
      BY <2>1 DEF MayFail
    <3>2. workers' \in Nat /\ workers' > 0 /\ \A e \in Entry : dpc'[e] = "off"
      BY <2>1, <2>2 DEF Threads
    <3>3. CASE mpc' = "timing"
      BY <2>1, <2>2, <3>2, <3>3 DEF WorkersCounted, BeforeStart, DeadWhenFinished, Threads
    <3>4. CASE mpc' = "play" /\ MayFail
      <4>1. WorkersCounted'
        BY <2>3, <3>1, <3>2, <3>4 DEF WorkersCounted, BeforeStart
      <4>2. DeadWhenFinished'
        BY <2>1, <2>2, <3>4 DEF DeadWhenFinished, BeforeStart
      <4>3. QED
        BY <4>1, <4>2
    <3>5. QED
      BY <2>1, <3>3, <3>4
  <2>5. TimecodesCollected'
    BY <2>1, <2>2 DEF TimecodesCollected, Gone
  <2>6. QED
    BY <2>4, <2>5
<1>3. CASE TakeTimecodes \/ DestroyLock \/ ClearLock
  <2>1. /\ UNCHANGED <<dpc, workers, alive, dmx, counter>>
        /\ mpc \in {"timing", "destroy", "clear"} /\ mpc' \in {"destroy", "clear", "bridge"}
        /\ tlock' > 0 => tlock > 0
        /\ mpc = "timing" => tlock > 0
    BY <1>3 DEF TakeTimecodes, DestroyLock, ClearLock, lifeVars, demuxVars, threadVars, TypeOK,
                Gone, Freed
  <2>2. WorkersCounted' /\ DeadWhenFinished'
    BY <2>1 DEF WorkersCounted, DeadWhenFinished, BeforeStart
  <2>3. TimecodesCollected'
    BY <2>1 DEF TimecodesCollected
  <2>4. QED
    BY <2>2, <2>3
<1>4. CASE PrepareBridge \/ StartProcessing
  <2>1. /\ UNCHANGED <<workers, alive, dmx, counter, tlock, file>>
        /\ mpc \in {"bridge", "start"} /\ mpc' \in {"start", "play"}
        /\ mpc' = "start" => dpc' = dpc
        /\ mpc = "bridge" /\ mpc' = "play" => MayFail /\ dpc' = dpc
        /\ mpc = "start" => dpc' = [e \in Entry |-> IF e \in Streams THEN "queued" ELSE "off"]
                            /\ mpc' = "play"
    BY <1>4 DEF PrepareBridge, StartProcessing, lifeVars, demuxVars, threadVars
  <2>2. workers = Threads /\ alive /\ \A e \in Entry : dpc[e] = "off"
    BY <2>1 DEF WorkersCounted, DeadWhenFinished, BeforeStart
  <2>3. CASE mpc = "start"
    <3>1. Unfinished' = Threads
      BY <2>1, <2>3 DEF Unfinished, Running, One, Entry, Threads, Streams
    <3>2. QED
      BY <2>1, <2>2, <2>3, <3>1
         DEF WorkersCounted, DeadWhenFinished, TimecodesCollected, BeforeStart, Threads
  <2>4. CASE mpc = "bridge"
    <3>1. Unfinished' = 0 \/ mpc' = "start"
      BY <2>1, <2>2, <2>4 DEF Unfinished, Running, One, Entry
    <3>2. WorkersCounted'
      BY <2>1, <2>2, <2>4, <3>1 DEF WorkersCounted, BeforeStart, Threads, MayFail
    <3>3. DeadWhenFinished' /\ TimecodesCollected'
      BY <2>1, <2>2, <2>4 DEF DeadWhenFinished, TimecodesCollected, BeforeStart
    <3>4. QED
      BY <3>2, <3>3
  <2>5. QED
    BY <2>1, <2>3, <2>4
<1>5. QED
  BY <1>1, <1>2, <1>3, <1>4 DEF Opening

LEMMA LifeStep == LifeInv /\ [Next]_vars => LifeInv'
<1> SUFFICES ASSUME LifeInv, [Next]_vars PROVE LifeInv'
  OBVIOUS
<1>0. TypeOK' /\ WorkersCounted /\ DeadWhenFinished /\ TimecodesCollected /\ TypeOK
  BY TypeStep DEF LifeInv
<1> SUFFICES WorkersCounted' /\ DeadWhenFinished' /\ TimecodesCollected'
  BY <1>0 DEF LifeInv
<1>1. CASE Opening
  BY <1>1, WorkersOpening
<1>2. CASE Steering \/ Reap
  <2>1. /\ UNCHANGED <<dpc, workers, dmx, counter, tlock, file>>
        /\ (mpc \notin BeforeStart /\ mpc' \notin BeforeStart) \/ (mpc' = mpc /\ alive' = alive)
        /\ mpc' \in BeforeStart <=> mpc \in BeforeStart
    BY <1>2 DEF Steering, StartPlayback, SeeEndOfFile, FirstBufferPlayed, StopPlayback,
                AskDecoders, LookAgain, DemuxNotDone, MayUpdate, Reap, lifeVars, demuxVars,
                threadVars, frameVars, BeforeStart
  <2>2. mpc' = "reap" \/ ~alive' => mpc = "reap" \/ ~alive \/ workers <= 0
    BY <1>0, <1>2 DEF Steering, StartPlayback, SeeEndOfFile, FirstBufferPlayed, StopPlayback,
                AskDecoders, LookAgain, DemuxNotDone, Reap, lifeVars, TypeOK, LifeTypes
  <2>3. WorkersCounted' /\ TimecodesCollected'
    BY <1>0, <2>1 DEF WorkersCounted, TimecodesCollected, Unfinished, Running, MayFail,
                      BeforeStart
  <2>4. DeadWhenFinished'
    BY <1>0, <2>1, <2>2 DEF DeadWhenFinished, BeforeStart
  <2>5. QED
    BY <2>3, <2>4
<1>3. CASE ResetDemuxer
  <2>1. Init'
    BY <1>3 DEF ResetDemuxer, Init
  <2>2. QED
    BY <2>1, LifeInit, PTL DEF LifeInv
<1>4. CASE Demux
  <2>1. UNCHANGED <<mpc, dpc, workers, alive, file>>
    BY <1>4, DemuxFrame DEF UnchangedByDemux, mainVars, lifeVars, threadVars
  <2>2. WorkersCounted' /\ DeadWhenFinished'
    BY <1>0, <2>1 DEF WorkersCounted, DeadWhenFinished, Unfinished, Running, MayFail
  <2>3. CASE GetVideoTimecodes
    <3>1. /\ dmx # "off"
          /\ counter = VideoPacketBufferSize => counter' = VideoPacketBufferSize
          /\ tlock' > 0 => tlock > 0 \/ counter' = VideoPacketBufferSize
      BY <1>0, <2>3 DEF GetVideoTimecodes, Collected, TypeOK, Gone, Freed
    <3>2. dmx \notin {"off", "complete", "gone"}
      BY <2>3 DEF GetVideoTimecodes
    <3>3. QED
      BY <1>0, <2>1, <2>2, <3>1, <3>2 DEF TimecodesCollected
  <2>4. CASE LastPost
    BY <1>0, <2>1, <2>2, <2>4 DEF LastPost, TimecodesCollected
  <2>5. CASE ~GetVideoTimecodes /\ ~LastPost
    <3>1. /\ tlock' = tlock /\ counter' = counter /\ dmx # "off"
          /\ dmx \in {"off", "complete", "gone"} => dmx' \in {"off", "complete", "gone"}
      <4>1. CASE DemuxStarts \/ DemuxBreaks \/ ReadFrame
        BY <4>1 DEF DemuxStarts, DemuxBreaks, ReadFrame
      <4>2. CASE DemuxCompletes
        BY <4>2 DEF DemuxCompletes
      <4>3. CASE ReserveSpace \/ SpaceTimedOut \/ MayPush
        BY <4>3 DEF ReserveSpace, SpaceTimedOut, MayPush
      <4>4. CASE PushPacket \/ PostData
        BY <4>4 DEF PushPacket, PutEnd, PutPacket, PostData
      <4>5. QED
        BY <1>4, <2>5, <4>1, <4>2, <4>3, <4>4 DEF Demux
    <3>2. QED
      BY <1>0, <2>1, <2>2, <3>1 DEF TimecodesCollected
  <2>6. QED
    BY <2>3, <2>4, <2>5
<1>5. ASSUME NEW e \in Entry, TakeFrame(e) \/ ReturnSlot(e)
      PROVE  WorkersCounted' /\ DeadWhenFinished' /\ TimecodesCollected'
  <2>1. UNCHANGED <<mpc, dpc, workers, alive, file, dmx, tlock, counter>>
    BY <1>5 DEF TakeFrame, ReturnSlot, mainVars, lifeVars, demuxVars, threadVars
  <2>2. QED
    BY <1>0, <2>1 DEF WorkersCounted, DeadWhenFinished, TimecodesCollected, Unfinished,
                      Running, MayFail
<1>6. ASSUME NEW e \in Entry, Decoder(e)
      PROVE  WorkersCounted' /\ DeadWhenFinished' /\ TimecodesCollected'
  <2>1. UNCHANGED <<mpc, alive, file, dmx, tlock, counter>>
    BY <1>0, <1>6, DecoderFrame DEF UnchangedByDecoder, mainVars, demuxVars
  <2>2. dpc[e] \notin {"off", "done"}
    BY <1>6 DEF Decoder, DecoderStarts, DataTimedOut, CheckReturn, SlotTimedOut, WaitForData,
                ObtainPacket, DecodePacket, WaitForSlot, PushFrame, DecoderEnds
  <2>3. mpc \notin BeforeStart
    BY <1>0, <2>2 DEF WorkersCounted
  <2>4. /\ Running(e) = 1 /\ Running("V") \in {0, 1} /\ Running("A") \in {0, 1}
        /\ workers \in Int /\ workers >= Unfinished
    BY <1>0, <2>2, <2>3 DEF Running, One, TypeOK, LifeTypes, WorkersCounted
  <2>5. workers > 0 /\ alive
    <3>1. workers > 0
      BY <2>4 DEF Unfinished, Entry
    <3>2. QED
      BY <1>0, <2>3, <2>4, <3>1 DEF DeadWhenFinished, BeforeStart
  <2>6. \/ workers' = workers /\ dpc'[e] \notin {"off", "done"}
        \/ workers' = workers - 1 /\ dpc'[e] = "done"
    BY <1>0, <1>6, <2>5 DEF Decoder, DecoderStarts, DataTimedOut, CheckReturn, SlotTimedOut,
         WaitForData, ObtainPacket, DecodePacket, DecodeToFrame, Flushes, NoMoreFrames, Skips,
         TriesAgain, WaitForSlot, PushFrame, DecoderEnds, Goto, TypeOK, ThreadTypes
  <2>7. \A d \in Entry \ {e} : Running(d)' = Running(d)
    BY <1>0, <1>6, DecoderFrame DEF Running
  <2>8. workers' - Unfinished' = workers - Unfinished
    <3>1. workers' - Running(e)' = workers - Running(e) /\ Running(e)' \in {0, 1}
      BY <2>4, <2>6 DEF Running, One
    <3>2. CASE e = "V"
      <4>1. Running("A")' = Running("A")
        BY <2>7, <3>2 DEF Entry
      <4>2. QED
        BY <2>4, <3>1, <3>2, <4>1, <2>6 DEF Unfinished
    <3>3. CASE e = "A"
      <4>1. Running("V")' = Running("V")
        BY <2>7, <3>3 DEF Entry
      <4>2. QED
        BY <2>4, <3>1, <3>3, <4>1, <2>6 DEF Unfinished
    <3>4. QED
      BY <3>2, <3>3 DEF Entry
  <2>9. Unfinished \in Int /\ Unfinished' \in Int /\ workers' \in Int /\ workers' <= workers
    BY <2>4, <2>6 DEF Unfinished, Running, One
  <2>10. workers' >= Unfinished' /\ (~MayFail => workers' = Unfinished')
    <3>1. workers >= Unfinished /\ (~MayFail => workers = Unfinished)
      BY <1>0, <2>3 DEF WorkersCounted
    <3>2. DEFINE w == workers
          wn == workers'
          u == Unfinished
          un == Unfinished'
    <3>3. w \in Int /\ wn \in Int /\ u \in Int /\ un \in Int /\ wn - un = w - u
      BY <2>4, <2>8, <2>9
    <3>4. w >= u => wn >= un
      <4> HIDE DEF w, wn, u, un
      <4> QED
        BY <3>3
    <3>5. w = u => wn = un
      <4> HIDE DEF w, wn, u, un
      <4> QED
        BY <3>3
    <3>6. QED
      BY <3>1, <3>4, <3>5
  <2>11. WorkersCounted'
    BY <2>1, <2>3, <2>10 DEF WorkersCounted, BeforeStart, MayFail
  <2>12. DeadWhenFinished' /\ TimecodesCollected'
    <3>1. mpc # "reap"
      BY <1>0, <2>4, <2>5 DEF DeadWhenFinished
    <3>2. QED
      BY <1>0, <2>1, <2>3, <2>5, <3>1 DEF DeadWhenFinished, TimecodesCollected
  <2>13. QED
    BY <2>11, <2>12
<1>7. CASE UNCHANGED vars
  BY <1>0, <1>7 DEF WorkersCounted, DeadWhenFinished, TimecodesCollected, Unfinished, Running,
                    MayFail, vars, mainVars, lifeVars, demuxVars, threadVars
<1>8. QED
  BY <1>1, <1>2, <1>3, <1>4, <1>5, <1>6, <1>7, NextCases

LEMMA LifeInvariant == Spec => []LifeInv
BY LifeInit, LifeStep, PTL DEF Spec

\* "equals number of unfinished workers (i.e. 0 when all are done)" (Controller.hpp:324),
\* once a movie that opened without failure plays.
THEOREM CountIsUnfinishedWorkersAlways == Spec => []CountIsUnfinishedWorkers
<1>1. LifeInv => CountIsUnfinishedWorkers
  BY DEF LifeInv, WorkersCounted, CountIsUnfinishedWorkers, Unfinished, Running, BeforeStart
<1>2. QED
  BY <1>1, LifeInvariant, PTL

\* Once there are no threads counted none runs.
LEMMA FinishedIsIdle ==
  ASSUME LifeInv, mpc = "reap" \/ ~alive
  PROVE  \A e \in Entry : dpc[e] \in {"off", "done"}
<1>1. CASE mpc \in BeforeStart
  BY <1>1 DEF LifeInv, WorkersCounted
<1>2. CASE mpc \notin BeforeStart
  <2>1. workers <= 0 /\ workers >= Unfinished /\ workers \in Int
    BY <1>2 DEF LifeInv, WorkersCounted, DeadWhenFinished, BeforeStart, TypeOK, LifeTypes
  <2>2. Running("V") \in {0, 1} /\ Running("A") \in {0, 1}
    BY DEF Running, One
  <2>3. Running("V") = 0 /\ Running("A") = 0
    BY <2>1, <2>2 DEF Unfinished
  <2>4. QED
    BY <2>3 DEF Running, One, Entry
<1>3. QED
  BY <1>1, <1>2

\* finish destroys the decoders (Controller.cpp:488-519) when no thread runs in one and the
\* demultiplexer will not look into one again, though it may still run.
THEOREM NothingUsesDeadDecodersAlways == Spec => []NothingUsesDeadDecoders
<1>1. LifeInv => NothingUsesDeadDecoders
  <2> SUFFICES ASSUME LifeInv, ~alive
               PROVE  /\ \A e \in Entry : dpc[e] \in {"off", "done"}
                      /\ dmx = "codes" => counter = VideoPacketBufferSize
    BY DEF NothingUsesDeadDecoders
  <2>1. mpc \notin BeforeStart \ {"offline"}
    BY DEF LifeInv, DeadWhenFinished
  <2>2. dmx = "codes" => counter = VideoPacketBufferSize
    BY <2>1 DEF LifeInv, TimecodesCollected, BeforeStart
  <2>3. QED
    BY <2>2, FinishedIsIdle
<1>2. QED
  BY <1>1, LifeInvariant, PTL
=============================================================================

-------------------------- MODULE MediaQueues_proofs --------------------------
(***************************************************************************)
(* Proofs about the queues of MediaPipeline: the packets' semaphores count *)
(* places and packets, a decoder that was let through finds a packet, the  *)
(* end marks end their queues and no decoder is given one, the lock of the *)
(* timecodes is not posted once it is destroyed, and no packet is lost     *)
(* between the file and the screen: the pipeline implements FrameStream.   *)
(***************************************************************************)
EXTENDS MediaPipeline_proofs

-----------------------------------------------------------------------------
(* The contents of a queue *)

\* Packets or frames, with at most one end mark, at the end.
Marked(s) == \A i \in 1..Len(s) : s[i] = Null => i = Len(s)
Unmarked(s) == \A i \in 1..Len(s) : s[i] # Null
EndsInNull(s) == s # <<>> /\ s[Len(s)] = Null

LEMMA EmptyQueue == Reals(<<>>) = 0 /\ Marked(<<>>) /\ Unmarked(<<>>) /\ ~EndsInNull(<<>>)
<1>1. Len(<<>>) = 0
  BY EmptyIsASeq
<1>2. 1..0 = {}
  OBVIOUS
<1>3. QED
  BY <1>1, <1>2 DEF Reals, Marked, Unmarked, EndsInNull

LEMMA RealsTyped ==
  ASSUME NEW s \in Seq(Content)
  PROVE  Reals(s) \in Nat /\ Reals(s) <= Len(s) /\ (Unmarked(s) => Reals(s) = Len(s))
<1>1. Len(s) \in Nat /\ (s = <<>> <=> Len(s) = 0)
  BY Lengths
<1>2. s # <<>> => Len(s) \in 1..Len(s)
  BY <1>1
<1>3. QED
  BY <1>1, <1>2 DEF Reals, Unmarked

LEMMA AppendToQueue ==
  ASSUME NEW s \in Seq(Content), NEW x \in Content, Unmarked(s)
  PROVE  /\ Reals(Append(s, x)) = IF x = Null THEN Reals(s) ELSE Reals(s) + 1
         /\ Marked(Append(s, x)) /\ Append(s, x) \in Seq(Content)
         /\ x # Null => Unmarked(Append(s, x))
         /\ EndsInNull(Append(s, x)) <=> x = Null
<1>1. /\ Len(s) \in Nat /\ Len(Append(s, x)) = Len(s) + 1 /\ Append(s, x) # <<>>
      /\ Append(s, x) \in Seq(Content)
  BY Lengths, Appended
<1>2. /\ \A i \in 1..Len(s) : Append(s, x)[i] = s[i]
      /\ Append(s, x)[Len(s) + 1] = x
  OBVIOUS
<1>3. \A i \in 1..(Len(s) + 1) : i # Len(s) + 1 => i \in 1..Len(s)
  BY <1>1
<1>4. Reals(s) = Len(s)
  BY RealsTyped
<1>5. Reals(Append(s, x)) = IF x = Null THEN Reals(s) ELSE Reals(s) + 1
  BY <1>1, <1>2, <1>4 DEF Reals
<1>6. Marked(Append(s, x)) /\ (x # Null => Unmarked(Append(s, x)))
  BY <1>1, <1>2, <1>3 DEF Marked, Unmarked
<1>7. QED
  BY <1>1, <1>2, <1>5, <1>6 DEF EndsInNull

LEMMA TailOfQueue ==
  ASSUME NEW s \in Seq(Content), s # <<>>, Marked(s)
  PROVE  /\ Marked(Tail(s)) /\ Tail(s) \in Seq(Content)
         /\ Head(s) # Null => Reals(Tail(s)) = Reals(s) - 1
         /\ Reals(s) > 0 => Head(s) # Null
         /\ EndsInNull(Tail(s)) => EndsInNull(s)
         /\ EndsInNull(s) /\ s # <<Null>> => EndsInNull(Tail(s))
         /\ Head(s) = s[1] /\ 1 \in 1..Len(s)
<1>1. /\ Len(s) \in Nat /\ Len(s) > 0 /\ Len(Tail(s)) = Len(s) - 1 /\ Head(s) = s[1]
      /\ Tail(s) \in Seq(Content)
  BY Lengths, Ends
<1>2. \A i \in 1..(Len(s) - 1) : Tail(s)[i] = s[i + 1] /\ i + 1 \in 1..Len(s)
  BY <1>1
<1>3. Tail(s) = <<>> <=> Len(s) = 1
  <2>1. Tail(s) = <<>> <=> Len(Tail(s)) = 0
    BY <1>1, Lengths
  <2>2. QED
    BY <1>1, <2>1
<1>4. Marked(Tail(s))
  <2> SUFFICES ASSUME NEW i \in 1..(Len(s) - 1), s[i + 1] = Null PROVE i = Len(s) - 1
    BY <1>1, <1>2, ZenonT(30) DEF Marked
  <2>1. i + 1 = Len(s)
    BY <1>2 DEF Marked
  <2>2. i \in Int /\ Len(s) \in Int
    BY <1>1
  <2>3. QED
    BY <2>1, <2>2
<1>5. Len(s) > 1 => Tail(s)[Len(Tail(s))] = s[Len(s)]
  BY <1>1, <1>2
<1>6. Head(s) # Null => Reals(Tail(s)) = Reals(s) - 1
  BY <1>1, <1>3, <1>5 DEF Reals
<1>7. Reals(s) > 0 => Head(s) # Null
  <2> SUFFICES ASSUME Head(s) = Null PROVE Reals(s) = 0
    BY RealsTyped
  <2>1. 1 \in 1..Len(s)
    BY <1>1
  <2>2. Len(s) = 1
    BY <1>1, <2>1, ZenonT(30) DEF Marked
  <2>3. s[Len(s)] = Null
    BY <1>1, <2>2
  <2>4. Reals(s) = Len(s) - 1
    BY <2>3 DEF Reals
  <2>5. QED
    BY <1>1, <2>2, <2>4
<1>8. EndsInNull(Tail(s)) => EndsInNull(s)
  BY <1>1, <1>3, <1>5 DEF EndsInNull
<1>9. EndsInNull(s) /\ s # <<Null>> => EndsInNull(Tail(s))
  <2>1. Len(s) = 1 /\ s[1] = Null => s = <<Null>>
    OBVIOUS
  <2>2. QED
    BY <1>1, <1>3, <1>5, <2>1 DEF EndsInNull
<1>10. QED
  BY <1>1, <1>4, <1>6, <1>7, <1>8, <1>9

-----------------------------------------------------------------------------
(* The packets *)

DemuxEnding == {"top", "lastpost", "complete", "gone"}

\* What the demultiplexer holds at each of its places: a reservation is left over only
\* when it was asked to finish.
DemuxHolds ==
  /\ ending => dmx \in DemuxEnding \cup {"post"}
  /\ dmx \in {"push", "put"} => held = pkt.stream
  /\ held # "none" /\ dmx \notin {"push", "put"} => demuxFinish /\ dmx \in DemuxEnding
  /\ dmx \in {"codes", "space", "late", "push", "put"} => pkt.n \in Nat
  /\ dmx \in {"space", "late", "post"} => pkt.stream \in Entry

\* The end marks come with demultiplexingComplete.
QueueEnds(e) ==
  /\ dmx = "off" => pq[e] = <<>>
  /\ \A i \in 1..Len(pq[e]) : pq[e][i] # None
  /\ Marked(pq[e])
  /\ ~ending => Unmarked(pq[e])

Passed(e) == dpc[e] \in {"check", "obtain"} /\ packet[e] = None /\ cr[e] = "None"

\* packetQueueSemData, the post on its way and the post taken by the decoder that has not
\* obtained its packet yet are never more than the packets: an end mark is never posted.
DataCovered(e) ==
  /\ dpc[e] = "obtain" => packet[e] = None /\ cr[e] = "None"
  /\ data[e] + One(dmx = "post" /\ pkt.stream = e) + One(Passed(e)) <= Reals(pq[e])

SpacesCounted(e) ==
  mpc \notin {"offline", "loaded"} => spaces[e] + Reals(pq[e]) + One(held = e) = Cap[e]

Packets(e) == QueueEnds(e) /\ DataCovered(e) /\ SpacesCounted(e)

PacketInv == LifeInv /\ DemuxHolds /\ \A e \in Entry : Packets(e)

LEMMA PacketTyped ==
  ASSUME TypeOK, NEW e \in Entry
  PROVE  /\ pq[e] \in Seq(Content) /\ spaces[e] \in Nat /\ data[e] \in Nat
         /\ Reals(pq[e]) \in Nat /\ Cap[e] \in Nat
<1>1. pq[e] \in Seq(Content) /\ spaces[e] \in Nat /\ data[e] \in Nat
  BY DEF TypeOK, PacketTypes
<1>2. QED
  BY <1>1, RealsTyped, CapIsNat

LEMMA PacketInit == Init => PacketInv
<1> SUFFICES ASSUME Init PROVE DemuxHolds /\ \A e \in Entry : Packets(e)
  BY LifeInit DEF PacketInv
<1>1. DemuxHolds
  BY DEF Init, DemuxHolds
<1>2. ASSUME NEW e \in Entry PROVE Packets(e)
  <2>1. pq[e] = <<>> /\ data[e] = 0 /\ dpc[e] = "off" /\ dmx = "off" /\ mpc = "offline"
    BY DEF Init, Each
  <2>2. QED
    BY <2>1, EmptyQueue, EmptyIsASeq
       DEF Packets, QueueEnds, DataCovered, SpacesCounted, Passed, One
<1>3. QED
  BY <1>1, <1>2

LEMMA PacketInitNext == Init' => PacketInv'
BY PacketInit, PTL

\* What leaves the packets and the demultiplexer alone.
LEMMA PacketsUnmoved ==
  ASSUME PacketInv, UNCHANGED <<dmx, pkt, held, ending, packetVars, packet, cr>>,
         demuxFinish => demuxFinish',
         mpc' \in {"offline", "loaded"} \/ mpc \notin {"offline", "loaded"},
         \A e \in Entry : dpc'[e] = dpc[e] \/ dpc'[e] \notin {"check", "obtain"}
  PROVE  DemuxHolds' /\ \A e \in Entry : Packets(e)'
<1>1. DemuxHolds'
  BY DEF PacketInv, DemuxHolds
<1>2. ASSUME NEW e \in Entry PROVE Packets(e)'
  <2>1. QueueEnds(e)' /\ SpacesCounted(e)'
    BY DEF PacketInv, Packets, QueueEnds, SpacesCounted, packetVars
  <2>2. One(Passed(e))' \in {0, 1} /\ One(Passed(e)) \in {0, 1}
        /\ One(Passed(e))' <= One(Passed(e))
    BY DEF One, Passed
  <2>3. DataCovered(e)'
    <3>1. data'[e] = data[e] /\ pq'[e] = pq[e] /\ data[e] \in Nat /\ Reals(pq[e]) \in Nat
      BY PacketTyped DEF PacketInv, LifeInv, packetVars
    <3>2. One(dmx = "post" /\ pkt.stream = e) \in {0, 1}
          /\ One(dmx = "post" /\ pkt.stream = e)' = One(dmx = "post" /\ pkt.stream = e)
      BY DEF One
    <3>3. data[e] + One(dmx = "post" /\ pkt.stream = e) + One(Passed(e)) <= Reals(pq[e])
      BY DEF PacketInv, Packets, DataCovered
    <3>4. Reals(pq[e])' = Reals(pq[e])
      BY <3>1 DEF Reals
    <3>5. (data[e] + One(dmx = "post" /\ pkt.stream = e) + One(Passed(e)))' <= Reals(pq[e])'
      BY <2>2, <3>1, <3>2, <3>3, <3>4
    <3>6. dpc'[e] = "obtain" => packet'[e] = None /\ cr'[e] = "None"
      BY DEF PacketInv, Packets, DataCovered
    <3>7. QED
      BY <3>5, <3>6 DEF DataCovered
  <2>4. QED
    BY <2>1, <2>3 DEF Packets
<1>3. QED
  BY <1>1, <1>2

\* The demultiplexer on its way, between the queues.
DemuxWalks == DemuxStarts \/ DemuxBreaks \/ LastPost \/ DemuxCompletes \/ ReadFrame
              \/ GetVideoTimecodes \/ SpaceTimedOut \/ MayPush

LEMMA PacketsDemuxWalks ==
  ASSUME PacketInv, DemuxWalks
  PROVE  DemuxHolds' /\ \A e \in Entry : Packets(e)'
<1>1. /\ UNCHANGED <<held, ending, pq, spaces, data, mpc, dpc, packet, cr, demuxFinish>>
      /\ dmx \notin {"off", "post"} /\ dmx' \notin {"off", "post"}
  BY DEF DemuxWalks, DemuxStarts, DemuxBreaks, LastPost, DemuxCompletes, ReadFrame,
         GetVideoTimecodes, SpaceTimedOut, MayPush, UnchangedByDemux, packetVars, mainVars,
         lifeVars, threadVars
<1>2. DemuxHolds'
  <2> USE DEF PacketInv, DemuxHolds, DemuxEnding
  <2>1. CASE DemuxStarts \/ DemuxBreaks \/ LastPost \/ DemuxCompletes
    BY <1>1, <2>1 DEF DemuxStarts, DemuxBreaks, LastPost, DemuxCompletes
  <2>2. CASE ReadFrame
    <3>1. pkt'.n \in Nat /\ dmx' = "codes" /\ ~ending /\ ~demuxFinish /\ dmx = "top"
      <4>1. /\ dmx = "top" /\ ~ending /\ ~demuxFinish /\ dmx' = "codes"
            /\ \/ \E e \in Streams : pkt' = [stream |-> e, n |-> nread[e] + 1]
               \/ pkt' = [stream |-> IF BlankStream \in Streams THEN BlankStream ELSE "none",
                          n |-> Blank]
        BY <2>2 DEF ReadFrame
      <4>2. ASSUME NEW e \in Streams PROVE nread[e] + 1 \in Nat
        BY DEF LifeInv, TypeOK, DemuxTypes, Streams, Entry
      <4>3. QED
        BY <4>1, <4>2 DEF Blank
    <3>2. QED
      BY <1>1, <3>1
  <2>3. CASE GetVideoTimecodes
    <3>1. /\ dmx = "codes" /\ pkt' = pkt /\ pkt.stream \in Entry \cup {"none"}
          /\ dmx' = IF pkt.stream = "none" THEN "push" ELSE "space"
      BY <2>3 DEF GetVideoTimecodes, LifeInv, TypeOK, DemuxTypes
    <3>2. QED
      BY <1>1, <3>1
  <2>4. CASE SpaceTimedOut \/ MayPush
    BY <1>1, <2>4 DEF SpaceTimedOut, MayPush
  <2>5. QED
    BY <2>1, <2>2, <2>3, <2>4 DEF DemuxWalks
<1>3. ASSUME NEW e \in Entry PROVE Packets(e)'
  <2>1. QueueEnds(e)' /\ SpacesCounted(e)'
    BY <1>1 DEF PacketInv, Packets, QueueEnds, SpacesCounted
  <2>2. DataCovered(e)'
    <3>1. One(Passed(e))' = One(Passed(e)) /\ Reals(pq[e])' = Reals(pq[e])
      BY <1>1 DEF One, Passed, Reals
    <3>2. /\ One(dmx = "post" /\ pkt.stream = e) = 0
          /\ One(dmx = "post" /\ pkt.stream = e)' = 0
      BY <1>1 DEF One
    <3>3. DataCovered(e)
      BY DEF PacketInv, Packets
    <3>4. QED
      BY <1>1, <3>1, <3>2, <3>3 DEF DataCovered
  <2>3. QED
    BY <2>1, <2>2 DEF Packets
<1>4. QED
  BY <1>2, <1>3

LEMMA PacketsReserveSpace ==
  ASSUME PacketInv, ReserveSpace
  PROVE  DemuxHolds' /\ \A e \in Entry : Packets(e)'
<1>1. /\ UNCHANGED <<pkt, ending, pq, data, mpc, dpc, packet, cr, demuxFinish>>
      /\ dmx = "space" /\ pkt.stream \in Entry /\ held = "none" /\ ~ending
      /\ \/ /\ spaces[pkt.stream] > 0 /\ held' = pkt.stream /\ dmx' = "push"
            /\ spaces' = [spaces EXCEPT ![pkt.stream] = @ - 1]
         \/ dmx' = "late" /\ spaces' = spaces /\ held' = held
  BY DEF ReserveSpace, PacketInv, DemuxHolds, DemuxEnding, UnchangedByDemux, packetVars,
         mainVars, lifeVars, threadVars
<1>2. DemuxHolds'
  BY <1>1 DEF PacketInv, DemuxHolds, DemuxEnding
<1>3. ASSUME NEW e \in Entry PROVE Packets(e)'
  <2>0. TypeOK /\ spaces[e] \in Nat /\ Reals(pq[e]) \in Nat /\ spaces \in [Entry -> Nat]
    BY PacketTyped DEF PacketInv, LifeInv, TypeOK, PacketTypes
  <2>1. QueueEnds(e)'
    BY <1>1 DEF PacketInv, Packets, QueueEnds
  <2>2. DataCovered(e)'
    <3>1. One(Passed(e))' = One(Passed(e)) /\ Reals(pq[e])' = Reals(pq[e])
      BY <1>1 DEF One, Passed, Reals
    <3>2. /\ One(dmx = "post" /\ pkt.stream = e) = 0
          /\ One(dmx = "post" /\ pkt.stream = e)' = 0
      BY <1>1 DEF One
    <3>3. DataCovered(e)
      BY DEF PacketInv, Packets
    <3>4. QED
      BY <1>1, <3>1, <3>2, <3>3 DEF DataCovered
  <2>3. SpacesCounted(e)'
    <3>1. spaces'[e] + One(held = e)' = spaces[e] + One(held = e)
      BY <1>1, <2>0 DEF One, Entry
    <3>2. Reals(pq[e])' = Reals(pq[e]) /\ spaces'[e] \in Int
      BY <1>1, <2>0 DEF Reals
    <3>3. One(held = e) \in Int /\ One(held = e)' \in Int
      BY DEF One
    <3>4. spaces'[e] + Reals(pq[e])' + One(held = e)' = spaces[e] + Reals(pq[e]) + One(held = e)
      BY <2>0, <3>1, <3>2, <3>3
    <3>5. QED
      BY <1>1, <3>4 DEF PacketInv, Packets, SpacesCounted
  <2>4. QED
    BY <2>1, <2>2, <2>3 DEF Packets
<1>4. QED
  BY <1>2, <1>3

LEMMA PacketsPushPacket ==
  ASSUME PacketInv, PushPacket
  PROVE  DemuxHolds' /\ \A e \in Entry : Packets(e)'
<1>1. /\ UNCHANGED <<pkt, spaces, data, mpc, dpc, packet, cr, demuxFinish>>
      /\ dmx = "put" /\ held = pkt.stream /\ held' = "none" /\ ~ending /\ pkt.n \in Nat
      /\ pkt.stream \in Entry \cup {"none"}
      /\ dmx' = IF pkt.stream = "none" THEN "top" ELSE "post"
  BY DEF PushPacket, PutEnd, PutPacket, PacketInv, DemuxHolds, DemuxEnding, UnchangedByDemux,
         mainVars, lifeVars, threadVars, LifeInv, TypeOK, DemuxTypes
<1>2. DemuxHolds'
  BY <1>1 DEF DemuxHolds, DemuxEnding
<1>3. ASSUME NEW e \in Entry PROVE Packets(e)'
  <2>0. /\ pq[e] \in Seq(Content) /\ spaces[e] \in Nat /\ data[e] \in Nat
        /\ Reals(pq[e]) \in Nat /\ Unmarked(pq[e]) /\ \A i \in 1..Len(pq[e]) : pq[e][i] # None
    BY <1>1, PacketTyped DEF PacketInv, LifeInv, Packets, QueueEnds
  <2>1. /\ With(e) \in Seq(Content) /\ Unmarked(With(e))
        /\ Reals(With(e)) = Reals(pq[e]) + One(pkt.stream = e)
    <3>1. pkt.n \in Content /\ pkt.n # Null
      BY <1>1 DEF Content, Number, Null
    <3>2. QED
      BY <2>0, <3>1, AppendToQueue DEF With, One
  <2>2. \A i \in 1..Len(With(e)) : With(e)[i] # None
    <3>1. ASSUME NEW i \in 1..Len(Append(pq[e], pkt.n)) PROVE Append(pq[e], pkt.n)[i] # None
      <4>1. \/ i \in 1..Len(pq[e]) /\ Append(pq[e], pkt.n)[i] = pq[e][i]
            \/ Append(pq[e], pkt.n)[i] = pkt.n
        BY <2>0
      <4>2. QED
        BY <1>1, <2>0, <4>1, SMTT(30) DEF None
    <3>2. QED
      BY <2>0, <3>1 DEF With
  <2>3. \/ pq'[e] = With(e) /\ ending' = ending
        \/ pq'[e] = With(e) /\ ending'
        \/ pq'[e] = Append(With(e), Null) /\ ending'
    BY DEF PushPacket, PutEnd, PutPacket
  <2>4. /\ pq'[e] \in Seq(Content) /\ Marked(pq'[e]) /\ (~ending' => Unmarked(pq'[e]))
        /\ Reals(pq'[e]) = Reals(pq[e]) + One(pkt.stream = e)
    <3>1. Unmarked(With(e)) => Marked(With(e))
      BY DEF Marked, Unmarked
    <3>2. CASE pq'[e] = With(e)
      BY <2>1, <3>1, <3>2
    <3>3. CASE pq'[e] = Append(With(e), Null) /\ ending'
      BY <2>1, <3>3, AppendToQueue DEF Content
    <3>4. QED
      BY <2>3, <3>2, <3>3
  <2>5. \A i \in 1..Len(pq'[e]) : pq'[e][i] # None
    <3>1. CASE pq'[e] = With(e)
      BY <2>2, <3>1
    <3>2. CASE pq'[e] = Append(With(e), Null)
      <4>1. ASSUME NEW i \in 1..Len(Append(With(e), Null))
            PROVE  \/ i \in 1..Len(With(e)) /\ Append(With(e), Null)[i] = With(e)[i]
                   \/ Append(With(e), Null)[i] = Null
        BY <2>1 DEF Content
      <4>2. QED
        BY <2>2, <3>2, <4>1 DEF None, Null
    <3>3. QED
      BY <2>3, <3>1, <3>2
  <2>6. QueueEnds(e)'
    BY <1>1, <2>4, <2>5 DEF QueueEnds, Marked, Unmarked
  <2>7. Reals(pq[e])' = Reals(pq[e]) + One(pkt.stream = e)
    BY <2>4 DEF Reals
  <2>8. DataCovered(e)'
    <3>1. /\ data'[e] = data[e] /\ One(Passed(e))' = One(Passed(e)) /\ One(Passed(e)) \in {0, 1}
          /\ One(dmx = "post" /\ pkt.stream = e) = 0
          /\ One(dmx = "post" /\ pkt.stream = e)' = One(pkt.stream = e)
          /\ One(pkt.stream = e) \in {0, 1}
      BY <1>1 DEF One, Passed, Entry
    <3>2. /\ dpc[e] = "obtain" => packet[e] = None /\ cr[e] = "None"
          /\ data[e] + One(dmx = "post" /\ pkt.stream = e) + One(Passed(e)) <= Reals(pq[e])
      BY DEF PacketInv, Packets, DataCovered
    <3>3. (data[e] + One(dmx = "post" /\ pkt.stream = e) + One(Passed(e)))' <= Reals(pq[e])'
      BY <2>0, <2>7, <3>1, <3>2
    <3>4. QED
      BY <1>1, <3>2, <3>3 DEF DataCovered
  <2>9. SpacesCounted(e)'
    <3>1. One(held = e) = One(pkt.stream = e) /\ One(held = e)' = 0 /\ spaces'[e] = spaces[e]
      BY <1>1 DEF One, Entry
    <3>2. One(pkt.stream = e) \in Nat
      BY DEF One
    <3>3. spaces'[e] + Reals(pq[e])' + One(held = e)' = spaces[e] + Reals(pq[e]) + One(held = e)
      BY <2>0, <2>7, <3>1, <3>2
    <3>4. QED
      BY <1>1, <3>3 DEF PacketInv, Packets, SpacesCounted
  <2>10. QED
    BY <2>6, <2>8, <2>9 DEF Packets
<1>4. QED
  BY <1>2, <1>3

LEMMA PacketsPostData ==
  ASSUME PacketInv, PostData
  PROVE  DemuxHolds' /\ \A e \in Entry : Packets(e)'
<1>1. /\ UNCHANGED <<pkt, held, ending, pq, spaces, mpc, dpc, packet, cr, demuxFinish>>
      /\ dmx = "post" /\ dmx' = "top" /\ data' = [data EXCEPT ![pkt.stream] = @ + 1]
  BY DEF PostData, UnchangedByDemux, mainVars, lifeVars, threadVars
<1>2. DemuxHolds'
  BY <1>1 DEF PacketInv, DemuxHolds, DemuxEnding
<1>3. ASSUME NEW e \in Entry PROVE Packets(e)'
  <2>1. QueueEnds(e)' /\ SpacesCounted(e)'
    BY <1>1 DEF PacketInv, Packets, QueueEnds, SpacesCounted
  <2>2. DataCovered(e)'
    <3>1. data'[e] = data[e] + One(dmx = "post" /\ pkt.stream = e) /\ data[e] \in Nat
      BY <1>1, PacketTyped DEF One, PacketInv, LifeInv, TypeOK, PacketTypes
    <3>2. One(dmx = "post" /\ pkt.stream = e)' = 0 /\ One(dmx = "post" /\ pkt.stream = e) \in {0, 1}
      BY <1>1 DEF One
    <3>3. /\ One(Passed(e))' = One(Passed(e)) /\ Reals(pq[e])' = Reals(pq[e])
          /\ One(Passed(e)) \in {0, 1}
      BY <1>1 DEF One, Passed, Reals
    <3>4. /\ dpc[e] = "obtain" => packet[e] = None /\ cr[e] = "None"
          /\ data[e] + One(dmx = "post" /\ pkt.stream = e) + One(Passed(e)) <= Reals(pq[e])
      BY DEF PacketInv, Packets, DataCovered
    <3>5. (data[e] + One(dmx = "post" /\ pkt.stream = e) + One(Passed(e)))' <= Reals(pq[e])'
      BY <3>1, <3>2, <3>3, <3>4
    <3>6. QED
      BY <1>1, <3>4, <3>5 DEF DataCovered
  <2>3. QED
    BY <2>1, <2>2 DEF Packets
<1>4. QED
  BY <1>2, <1>3

LEMMA PacketsDemux ==
  ASSUME PacketInv, Demux
  PROVE  DemuxHolds' /\ \A e \in Entry : Packets(e)'
BY PacketsDemuxWalks, PacketsReserveSpace, PacketsPushPacket, PacketsPostData
   DEF Demux, DemuxWalks

\* waitForData lets a decoder pass only when a packet is there for it.
LEMMA FoundPacket ==
  ASSUME PacketInv, NEW e \in Entry, dpc[e] = "obtain"
  PROVE  pq[e] # <<>> /\ Head(pq[e]) # Null
<1>1. /\ pq[e] \in Seq(Content) /\ data[e] \in Nat /\ Reals(pq[e]) \in Nat
      /\ One(dmx = "post" /\ pkt.stream = e) \in {0, 1}
  BY PacketTyped DEF PacketInv, LifeInv, One
<1>2. One(Passed(e)) = 1
  BY DEF PacketInv, Packets, DataCovered, Passed, One
<1>3. data[e] + One(dmx = "post" /\ pkt.stream = e) + One(Passed(e)) <= Reals(pq[e])
  BY DEF PacketInv, Packets, DataCovered
<1>4. Reals(pq[e]) > 0
  BY <1>1, <1>2, <1>3
<1>5. Marked(pq[e])
  BY DEF PacketInv, Packets, QueueEnds
<1>6. QED
  BY <1>1, <1>4, <1>5, EmptyQueue, TailOfQueue

LEMMA PacketsDecoder ==
  ASSUME PacketInv, NEW e \in Entry, Decoder(e)
  PROVE  DemuxHolds' /\ \A d \in Entry : Packets(d)'
<1>0. TypeOK /\ UnchangedByDecoder
  BY DecoderFrame DEF PacketInv, LifeInv
<1>1. UNCHANGED <<mpc, dmx, pkt, held, ending, demuxFinish>>
  BY <1>0 DEF UnchangedByDecoder, mainVars, demuxVars
<1>2. DemuxHolds'
  BY <1>1 DEF PacketInv, DemuxHolds
<1>3. ASSUME NEW d \in Entry, d # e PROVE Packets(d)'
  <2>1. /\ pq'[d] = pq[d] /\ spaces'[d] = spaces[d] /\ data'[d] = data[d]
        /\ dpc'[d] = dpc[d] /\ packet'[d] = packet[d] /\ cr'[d] = cr[d]
    BY <1>0, <1>3, DecoderFrame
  <2>2. Packets(d)
    BY DEF PacketInv
  <2>3. QueueEnds(d)' /\ SpacesCounted(d)'
    BY <1>1, <2>1, <2>2 DEF Packets, QueueEnds, SpacesCounted, One, Reals, Marked, Unmarked
  <2>4. One(Passed(d))' = One(Passed(d)) /\ Reals(pq[d])' = Reals(pq[d])
        /\ One(dmx = "post" /\ pkt.stream = d)' = One(dmx = "post" /\ pkt.stream = d)
    BY <1>1, <2>1 DEF One, Passed, Reals
  <2>5. DataCovered(d)'
    BY <2>1, <2>2, <2>4 DEF Packets, DataCovered
  <2>6. QED
    BY <2>3, <2>5 DEF Packets
<1>4. /\ pq[e] \in Seq(Content) /\ spaces[e] \in Nat /\ data[e] \in Nat
      /\ Reals(pq[e]) \in Nat /\ Marked(pq[e]) /\ Packets(e)
  BY <1>0, PacketTyped DEF PacketInv, Packets, QueueEnds
<1>5. /\ One(dmx = "post" /\ pkt.stream = e) \in {0, 1}
      /\ One(dmx = "post" /\ pkt.stream = e)' = One(dmx = "post" /\ pkt.stream = e)
      /\ One(Passed(e)) \in {0, 1} /\ One(Passed(e))' \in {0, 1}
  BY <1>1 DEF One
<1>6. /\ dpc[e] = "obtain" => packet[e] = None /\ cr[e] = "None"
      /\ data[e] + One(dmx = "post" /\ pkt.stream = e) + One(Passed(e)) <= Reals(pq[e])
  BY <1>4 DEF Packets, DataCovered
<1>7. /\ spaces[e] \in Nat /\ data[e] \in Nat /\ Reals(pq[e]) \in Nat
       /\ One(dmx = "post" /\ pkt.stream = e) \in {0, 1}
  BY <1>4, <1>5
<1>8. data[e] + One(dmx = "post" /\ pkt.stream = e) + One(Passed(e)) <= Reals(pq[e])
  BY <1>6
<1>9. CASE WaitForData(e)
  <2>1. pq' = pq /\ spaces' = spaces /\ packet' = packet /\ cr' = cr
    BY <1>9 DEF WaitForData
  <2>2. QueueEnds(e)' /\ SpacesCounted(e)'
    BY <1>1, <1>4, <2>1 DEF Packets, QueueEnds, SpacesCounted
  <2>3. dpc[e] = "wait" /\ dpc'[e] \in {"check", "late"}
    BY <1>0, <1>9 DEF WaitForData, Goto, TypeOK, ThreadTypes
  <2>4. \/ data'[e] = data[e] - 1
        \/ data'[e] = data[e] /\ ~Passed(e)'
    BY <1>0, <1>9 DEF WaitForData, Goto, TypeOK, ThreadTypes, PacketTypes, Passed
  <2>5. One(Passed(e)) = 0 /\ (~Passed(e)' => One(Passed(e))' = 0)
    BY <2>3 DEF One, Passed
  <2>6. Reals(pq[e])' = Reals(pq[e])
    BY <2>1 DEF Reals
  <2>7. (data[e] + One(dmx = "post" /\ pkt.stream = e) + One(Passed(e)))' <= Reals(pq[e])'
    <3>1. CASE data'[e] = data[e] - 1
      BY <1>4, <1>5, <1>6, <2>5, <2>6, <3>1
    <3>2. CASE data'[e] = data[e] /\ ~Passed(e)'
      BY <1>4, <1>5, <1>6, <2>5, <2>6, <3>2
    <3>3. QED
      BY <2>4, <3>1, <3>2
  <2>8. DataCovered(e)'
    BY <2>3, <2>7 DEF DataCovered
  <2>9. QED
    BY <1>2, <1>3, <2>2, <2>8 DEF Packets
<1>10. CASE ObtainPacket(e)
  <2>1. One(Passed(e)) = 1
    BY <1>6, <1>10 DEF ObtainPacket, Passed, One
  <2>2. Reals(pq[e]) > 0
    BY <1>7, <1>8, <2>1
  <2>3. pq[e] # <<>>
    BY <2>2, EmptyQueue
  <2>4. /\ Head(pq[e]) # Null /\ Reals(Tail(pq[e])) = Reals(pq[e]) - 1
        /\ Marked(Tail(pq[e])) /\ Tail(pq[e]) \in Seq(Content)
    BY <1>4, <2>2, <2>3, TailOfQueue
  <2>5. /\ pq'[e] = Tail(pq[e]) /\ spaces'[e] = spaces[e] + 1 /\ data'[e] = data[e]
        /\ dpc'[e] = "decode"
    BY <1>0, <1>10, <2>3, <2>4 DEF ObtainPacket, Goto, TypeOK, PacketTypes, ThreadTypes
  <2>6. Reals(pq[e])' = Reals(pq[e]) - 1
    BY <2>4, <2>5 DEF Reals
  <2>7. \A i \in 1..Len(Tail(pq[e])) : i + 1 \in 1..Len(pq[e]) /\ Tail(pq[e])[i] = pq[e][i + 1]
    BY <1>4, <2>3
  <2>8. QueueEnds(e)'
    BY <1>1, <1>4, <2>3, <2>4, <2>5, <2>7 DEF Packets, QueueEnds, Marked, Unmarked
  <2>9. One(Passed(e))' = 0
    BY <2>5 DEF One, Passed
  <2>10. (data[e] + One(dmx = "post" /\ pkt.stream = e) + One(Passed(e)))' <= Reals(pq[e])'
    <3>1. data'[e] = data[e] /\ One(dmx = "post" /\ pkt.stream = e)' = One(dmx = "post" /\ pkt.stream = e)
      BY <1>5, <2>5
    <3>2. QED
      BY <1>7, <1>8, <2>1, <2>6, <2>9, <3>1
  <2>11. DataCovered(e)'
    BY <2>5, <2>10 DEF DataCovered
  <2>12. SpacesCounted(e)'
    <3>1. One(held = e)' = One(held = e) /\ One(held = e) \in {0, 1}
      BY <1>1 DEF One
    <3>2. spaces'[e] + Reals(pq[e])' + One(held = e)' = spaces[e] + Reals(pq[e]) + One(held = e)
      <4>1. spaces'[e] = spaces[e] + 1
        BY <2>5
      <4>2. QED
        BY <1>7, <2>6, <3>1, <4>1
    <3>3. QED
      BY <1>1, <1>4, <3>2 DEF Packets, SpacesCounted
  <2>13. QED
    BY <1>2, <1>3, <2>8, <2>11, <2>12 DEF Packets
<1>11. CASE ~WaitForData(e) /\ ~ObtainPacket(e)
  <2>1. pq' = pq /\ spaces' = spaces /\ data' = data
    BY <1>11 DEF Decoder, DecoderStarts, DataTimedOut, CheckReturn, SlotTimedOut, DecodePacket,
                WaitForSlot, PushFrame, DecoderEnds, packetVars
  <2>2. \/ dpc'[e] \notin {"check", "obtain"}
        \/ dpc[e] = "check" /\ packet' = packet /\ cr' = cr
           /\ (dpc'[e] = "obtain" => packet[e] = None /\ cr[e] = "None")
    BY <1>0, <1>11 DEF Decoder, DecoderStarts, DataTimedOut, CheckReturn, SlotTimedOut,
         DecodePacket, DecodeToFrame, Flushes, NoMoreFrames, Skips, TriesAgain, WaitForSlot,
         PushFrame, DecoderEnds, Goto, TypeOK, ThreadTypes
  <2>3. One(Passed(e))' <= One(Passed(e))
    BY <2>2 DEF One, Passed
  <2>4. Reals(pq[e])' = Reals(pq[e]) /\ data'[e] = data[e]
    BY <2>1 DEF Reals
  <2>5. (data[e] + One(dmx = "post" /\ pkt.stream = e) + One(Passed(e)))' <= Reals(pq[e])'
    BY <1>4, <1>5, <1>6, <2>3, <2>4
  <2>6. DataCovered(e)'
    BY <2>2, <2>5 DEF DataCovered
  <2>7. QueueEnds(e)' /\ SpacesCounted(e)'
    BY <1>1, <1>4, <2>1 DEF Packets, QueueEnds, SpacesCounted
  <2>8. QED
    BY <1>2, <1>3, <2>6, <2>7 DEF Packets
<1>12. QED
  BY <1>9, <1>10, <1>11

LEMMA PacketsLoadPresentation ==
  ASSUME PacketInv, LoadPresentation
  PROVE  DemuxHolds' /\ \A e \in Entry : Packets(e)'
<1>1. /\ UNCHANGED <<pkt, held, ending, pq, data, dpc, packet, cr, demuxFinish>>
      /\ mpc = "loaded" /\ spaces' = Cap /\ dmx' \in {"queued", dmx}
  BY DEF LoadPresentation, threadVars
<1>2. dmx = "off" /\ held = "none" /\ ~ending
  BY <1>1 DEF PacketInv, LifeInv, TimecodesCollected, DemuxHolds, DemuxEnding
<1>3. DemuxHolds'
  BY <1>1, <1>2 DEF DemuxHolds
<1>4. ASSUME NEW e \in Entry PROVE Packets(e)'
  <2>1. pq'[e] = <<>> /\ pq[e] = <<>> /\ Reals(pq[e])' = 0
    BY <1>1, <1>2, EmptyQueue DEF PacketInv, Packets, QueueEnds, Reals
  <2>2. QueueEnds(e)'
    BY <1>1, <2>1 DEF PacketInv, Packets, QueueEnds
  <2>3. DataCovered(e)'
    <3>1. /\ One(dmx = "post" /\ pkt.stream = e) = 0 /\ One(dmx = "post" /\ pkt.stream = e)' = 0
          /\ One(Passed(e))' = One(Passed(e)) /\ Reals(pq[e])' = Reals(pq[e])
      BY <1>1, <1>2 DEF One, Passed, Reals
    <3>2. DataCovered(e)
      BY DEF PacketInv, Packets
    <3>3. QED
      BY <1>1, <3>1, <3>2 DEF DataCovered
  <2>4. SpacesCounted(e)'
    <3>1. One(held = e)' = 0 /\ spaces'[e] = Cap[e]
      BY <1>1, <1>2 DEF One, Entry
    <3>2. QED
      BY <2>1, <3>1, CapIsNat DEF SpacesCounted
  <2>5. QED
    BY <2>2, <2>3, <2>4 DEF Packets
<1>5. QED
  BY <1>3, <1>4

LEMMA PacketStep == PacketInv /\ [Next]_vars => PacketInv'
<1> SUFFICES ASSUME PacketInv, [Next]_vars
             PROVE  DemuxHolds' /\ \A e \in Entry : Packets(e)'
  BY LifeStep DEF PacketInv
<1>1. CASE LoadPresentation
  BY <1>1, PacketsLoadPresentation
<1>2. CASE Opening /\ ~LoadPresentation
  <2>1. /\ UNCHANGED <<dmx, pkt, held, ending, packetVars, packet, cr, demuxFinish>>
        /\ mpc' \in {"offline", "loaded"} \/ mpc \notin {"offline", "loaded"}
        /\ \A e \in Entry : dpc'[e] = dpc[e] \/ dpc'[e] \notin {"check", "obtain"}
    BY <1>2 DEF Opening, LoadVideo, TakeTimecodes, DestroyLock, ClearLock, PrepareBridge,
                StartProcessing, lifeVars, demuxVars, threadVars
  <2>2. QED
    BY <2>1, PacketsUnmoved
<1>3. CASE Steering \/ Reap
  <2>1. /\ UNCHANGED <<dmx, pkt, held, ending, packetVars, packet, cr, dpc>>
        /\ demuxFinish => demuxFinish'
        /\ mpc' = mpc \/ mpc \notin {"offline", "loaded"}
    BY <1>3 DEF Steering, StartPlayback, SeeEndOfFile, FirstBufferPlayed, StopPlayback,
                AskDecoders, LookAgain, DemuxNotDone, Reap, lifeVars, demuxVars, threadVars
  <2>2. mpc' \in {"offline", "loaded"} \/ mpc \notin {"offline", "loaded"}
    BY <2>1
  <2>3. \A e \in Entry : dpc'[e] = dpc[e]
    BY <2>1
  <2>4. QED
    BY <2>1, <2>2, <2>3, PacketsUnmoved
<1>4. CASE ResetDemuxer
  <2>1. Init'
    BY <1>4 DEF ResetDemuxer, Init
  <2>2. QED
    BY <2>1, PacketInitNext DEF PacketInv
<1>5. CASE Demux
  BY <1>5, PacketsDemux
<1>6. ASSUME NEW e \in Entry, TakeFrame(e) \/ ReturnSlot(e)
      PROVE  DemuxHolds' /\ \A d \in Entry : Packets(d)'
  <2>1. UNCHANGED <<mpc, dmx, pkt, held, ending, packetVars, packet, cr, dpc, demuxFinish>>
    BY <1>6 DEF TakeFrame, ReturnSlot, mainVars, lifeVars, demuxVars, threadVars
  <2>2. QED
    BY <2>1, PacketsUnmoved
<1>7. ASSUME NEW e \in Entry, Decoder(e)
      PROVE  DemuxHolds' /\ \A d \in Entry : Packets(d)'
  BY <1>7, PacketsDecoder
<1>8. CASE UNCHANGED vars
  BY <1>8, PacketsUnmoved DEF vars, mainVars, lifeVars, demuxVars, threadVars
<1>9. QED
  BY <1>1, <1>2, <1>3, <1>4, <1>5, <1>6, <1>7, <1>8, NextCases

LEMMA PacketInvariant == Spec => []PacketInv
BY PacketInit, PacketStep, PTL DEF Spec

\* packetQueueSemSpaces, the packets of a queue and the place pushPacket reserved make up its
\* capacity (Demux.cpp, Controller.cpp:287-300): a queue never outgrows its buffer.
THEOREM SpacesConservedAlways == Spec => []SpacesConserved
<1>1. PacketInv => SpacesConserved
  BY DEF PacketInv, Packets, SpacesCounted, SpacesConserved
<1>2. QED
  BY <1>1, PacketInvariant, PTL

-----------------------------------------------------------------------------
(* The frames *)

Ending == {"wait", "late", "check", "out", "done"}
Emitting == {"slot", "slotlate", "push"}

\* The end mark is the last thing a decoder thread pushes.
FrameEnds(e) ==
  /\ Marked(results[e])
  /\ EndsInNull(results[e]) => dpc[e] \in Ending
  /\ vf[e] = Null => dpc[e] \in Emitting \cup {"out", "done"}

\* A decoder that flushes its codec holds the blank packet until it holds or has pushed
\* the end mark.
Flushing(e) ==
  /\ dpc[e] \in {"off", "queued"} => cr[e] = "None"
  /\ dpc[e] = "decode" => packet[e] # None
  /\ cr[e] # "None" /\ packet[e] = None =>
       \/ dpc[e] \in Emitting /\ vf[e] = Null
       \/ dpc[e] \in {"wait", "late", "check"} /\ EndsInNull(results[e])
       \/ dpc[e] \in {"out", "done"}

FlowInv == PacketInv /\ \A e \in Entry : FrameEnds(e) /\ Flushing(e)

LEMMA FlowInit == Init => FlowInv
<1> SUFFICES ASSUME Init PROVE \A e \in Entry : FrameEnds(e) /\ Flushing(e)
  BY PacketInit DEF FlowInv
<1>1. ASSUME NEW e \in Entry
      PROVE  /\ results[e] = <<>> /\ vf[e] = None /\ dpc[e] = "off" /\ cr[e] = "None"
  BY DEF Init, Each
<1>2. QED
  BY <1>1, EmptyQueue DEF FrameEnds, Flushing, None, Null

LEMMA FlowInitNext == Init' => FlowInv'
BY FlowInit, PTL

\* A frame of the codec is never the end mark.
LEMMA CodecGivesNumbers ==
  ASSUME TypeOK, NEW e \in Entry, Frame(e), packet[e] # None
  PROVE  vf'[e] # Null
<1> DEFINE ready == IF packet[e] = Blank THEN codec[e] ELSE Append(codec[e], packet[e])
<1>1. codec[e] \in Seq(Number) /\ packet[e] \in Number
  BY DEF TypeOK, ThreadTypes
<1>2. ready \in Seq(Number)
  BY <1>1, Appended
<1>3. ready # <<>> /\ vf' = [vf EXCEPT ![e] = Head(ready)]
  BY DEF Frame
<1>4. vf'[e] = Head(ready)
  BY <1>3 DEF TypeOK, ThreadTypes
<1>5. Head(ready) \in Number
  BY <1>2, <1>3, Ends
<1>6. QED
  BY <1>4, <1>5 DEF Number, None, Null

LEMMA FlowDecodePacket ==
  ASSUME FlowInv, NEW e \in Entry, DecodePacket(e)
  PROVE  FrameEnds(e)' /\ Flushing(e)'
<1>0. TypeOK /\ FrameEnds(e) /\ Flushing(e) /\ dpc[e] = "decode" /\ results' = results
  BY DEF FlowInv, PacketInv, LifeInv, DecodePacket
<1>1. packet[e] # None /\ vf[e] # Null /\ ~EndsInNull(results[e]) /\ Marked(results[e])
  BY <1>0 DEF FrameEnds, Flushing, Ending, Emitting
<1>2. ~EndsInNull(results[e])' /\ Marked(results[e])'
  BY <1>0, <1>1 DEF EndsInNull, Marked
<1>3. CASE DecodeToFrame(e)
  <2>1. vf'[e] # Null
    BY <1>0, <1>1, <1>3, CodecGivesNumbers DEF DecodeToFrame
  <2>2. dpc'[e] = "slot" /\ (cr'[e] # "None" => packet'[e] = Blank)
    BY <1>0, <1>3 DEF DecodeToFrame, Goto, TypeOK, ThreadTypes
  <2>3. QED
    BY <1>2, <2>1, <2>2 DEF FrameEnds, Flushing, Blank, None
<1>4. CASE Flushes(e)
  <2>1. \/ vf'[e] = Null /\ dpc'[e] = "slot"
        \/ vf' = vf /\ packet'[e] = Blank /\ dpc'[e] = "wait"
    BY <1>0, <1>4 DEF Flushes, NoMoreFrames, Goto, TypeOK, ThreadTypes
  <2>2. QED
    BY <1>1, <1>2, <2>1 DEF FrameEnds, Flushing, Blank, None, Emitting
<1>5. CASE Skips(e) \/ TriesAgain(e)
  <2>1. /\ vf' = vf /\ cr'[e] = "None"
        /\ dpc'[e] = "wait" \/ (dpc'[e] = "decode" /\ packet' = packet)
    BY <1>0, <1>5 DEF Skips, TriesAgain, Goto, TypeOK, ThreadTypes
  <2>2. QED
    BY <1>1, <1>2, <2>1 DEF FrameEnds, Flushing
<1>6. QED
  BY <1>3, <1>4, <1>5 DEF DecodePacket

LEMMA FlowObtainPacket ==
  ASSUME FlowInv, NEW e \in Entry, ObtainPacket(e)
  PROVE  FrameEnds(e)' /\ Flushing(e)'
<1>0. /\ TypeOK /\ FrameEnds(e) /\ Packets(e) /\ dpc[e] = "obtain"
      /\ results' = results /\ vf' = vf
  BY DEF FlowInv, PacketInv, LifeInv, ObtainPacket
<1>1. vf[e] # Null /\ ~EndsInNull(results[e]) /\ Marked(results[e])
  BY <1>0 DEF FrameEnds, Ending, Emitting
<1>2. ~EndsInNull(results[e])' /\ Marked(results[e])'
  BY <1>0, <1>1 DEF EndsInNull, Marked
<1>3. pq[e] # <<>> /\ Head(pq[e]) # Null
  BY <1>0, FoundPacket DEF FlowInv
<1>4. Head(pq[e]) # None
  BY <1>0, <1>3, TailOfQueue, PacketTyped DEF Packets, QueueEnds
<1>5. dpc'[e] = "decode" /\ packet'[e] = Head(pq[e])
  BY <1>0, <1>3 DEF ObtainPacket, Goto, TypeOK, ThreadTypes
<1>6. QED
  BY <1>0, <1>1, <1>2, <1>4, <1>5 DEF FrameEnds, Flushing

LEMMA FlowDecoder ==
  ASSUME FlowInv, NEW e \in Entry, Decoder(e)
  PROVE  \A d \in Entry : FrameEnds(d)' /\ Flushing(d)'
<1>0. TypeOK /\ FrameEnds(e) /\ Flushing(e)
  BY DEF FlowInv, PacketInv, LifeInv
<1>1. ASSUME NEW d \in Entry, d # e PROVE FrameEnds(d)' /\ Flushing(d)'
  <2>1. /\ dpc'[d] = dpc[d] /\ packet'[d] = packet[d] /\ cr'[d] = cr[d]
        /\ vf'[d] = vf[d] /\ results'[d] = results[d]
    BY <1>0, <1>1, DecoderFrame
  <2>2. QED
    BY <2>1 DEF FlowInv, FrameEnds, Flushing, Marked, EndsInNull
<1>2. CASE PushFrame(e)
  <2>1. /\ results'[e] = Append(results[e], vf[e]) /\ vf'[e] = None /\ dpc'[e] = "wait"
        /\ dpc[e] = "push" /\ packet' = packet /\ cr' = cr
    BY <1>0, <1>2 DEF PushFrame, Goto, TypeOK, ThreadTypes, FrameTypes
  <2>2. Marked(results[e]) /\ ~EndsInNull(results[e])
    BY <1>0, <2>1 DEF FrameEnds, Ending
  <2>3. results[e] \in Seq(Content) /\ vf[e] \in Content
    BY <1>0 DEF TypeOK, ThreadTypes, FrameTypes
  <2>4. Unmarked(results[e])
    <3>1. ASSUME NEW i \in 1..Len(results[e]), results[e][i] = Null PROVE FALSE
      BY <2>2, <2>3, <3>1 DEF Marked, EndsInNull
    <3>2. QED
      BY <3>1 DEF Unmarked
  <2>5. /\ Marked(Append(results[e], vf[e]))
        /\ EndsInNull(Append(results[e], vf[e])) <=> vf[e] = Null
    BY <2>3, <2>4, AppendToQueue
  <2>6. Marked(results[e])' /\ (EndsInNull(results[e])' <=> vf[e] = Null)
    BY <2>1, <2>5 DEF Marked, EndsInNull
  <2>7. FrameEnds(e)' /\ Flushing(e)'
    BY <1>0, <2>1, <2>6 DEF FrameEnds, Flushing, Ending, None, Null
  <2>8. QED
    BY <1>1, <2>7
<1>3. CASE DecodePacket(e)
  BY <1>1, <1>3, FlowDecodePacket
<1>4. CASE ObtainPacket(e)
  BY <1>1, <1>4, FlowObtainPacket
<1>5. CASE WaitForData(e) \/ CheckReturn(e)
  <2>1. UNCHANGED <<results, vf, packet, cr>>
    BY <1>5 DEF WaitForData, CheckReturn
  <2>2. \/ dpc[e] = "wait" /\ dpc'[e] = "check"
        \/ dpc[e] = "wait" /\ dpc'[e] = "late" 
        \/ dpc[e] = "check" /\ dpc'[e] = "out"
        \/ dpc[e] = "check" /\ dpc'[e] = "obtain" /\ ~EndsInNull(results[e])
        \/ /\ dpc[e] = "check" /\ dpc'[e] = "decode" /\ ~EndsInNull(results[e])
           /\ ~(packet[e] = None /\ cr[e] = "None")
    BY <1>0, <1>5 DEF WaitForData, CheckReturn, MustReturn, EndsInNull, Goto, TypeOK, ThreadTypes
  <2>3. /\ Marked(results[e])' <=> Marked(results[e])
        /\ EndsInNull(results[e])' <=> EndsInNull(results[e])
    BY <2>1 DEF Marked, EndsInNull
  <2>4. FrameEnds(e)' /\ Flushing(e)'
    BY <1>0, <2>1, <2>2, <2>3 DEF FrameEnds, Flushing, Ending, Emitting
  <2>5. QED
    BY <1>1, <2>4
<1>6. CASE DecoderStarts(e) \/ DataTimedOut(e) \/ WaitForSlot(e) \/ SlotTimedOut(e) \/ DecoderEnds(e)
  <2>1. UNCHANGED <<results, vf, packet, cr>>
    BY <1>6 DEF DecoderStarts, DataTimedOut, WaitForSlot, SlotTimedOut, DecoderEnds
  <2>2. \/ dpc[e] = "queued" /\ dpc'[e] \in {"wait", "done"}
        \/ dpc[e] = "late" /\ dpc'[e] \in {"wait", "out"}
        \/ dpc[e] \in Emitting /\ dpc'[e] \in Emitting \cup {"out"}
        \/ dpc[e] = "out" /\ dpc'[e] = "done"
    BY <1>0, <1>6 DEF DecoderStarts, DataTimedOut, WaitForSlot, SlotTimedOut, DecoderEnds,
                      Emitting, Goto, TypeOK, ThreadTypes
  <2>3. /\ Marked(results[e])' <=> Marked(results[e])
        /\ EndsInNull(results[e])' <=> EndsInNull(results[e])
    BY <2>1 DEF Marked, EndsInNull
  <2>4. FrameEnds(e)' /\ Flushing(e)'
    BY <1>0, <2>1, <2>2, <2>3 DEF FrameEnds, Flushing, Ending, Emitting
  <2>5. QED
    BY <1>1, <2>4
<1>7. QED
  BY <1>2, <1>3, <1>4, <1>5, <1>6 DEF Decoder

\* What leaves the threads alone may take a frame or empty a queue.
LEMMA FlowConsumed ==
  ASSUME FlowInv, UNCHANGED <<dpc, packet, cr, vf>>,
         \A e \in Entry :
           \/ results'[e] = results[e]
           \/ results[e] # <<>> /\ results[e] # <<Null>> /\ results'[e] = Tail(results[e])
           \/ dpc[e] \in {"off", "done"} /\ results'[e] \in {<<>>, LastOf(results[e])}
  PROVE  \A e \in Entry : FrameEnds(e)' /\ Flushing(e)'
<1> SUFFICES ASSUME NEW e \in Entry PROVE FrameEnds(e)' /\ Flushing(e)'
  OBVIOUS
<1>0. FrameEnds(e) /\ Flushing(e) /\ results[e] \in Seq(Content)
  BY DEF FlowInv, PacketInv, LifeInv, TypeOK, FrameTypes
<1>1. /\ Marked(results'[e])
      /\ EndsInNull(results'[e]) => EndsInNull(results[e])
      /\ EndsInNull(results[e]) => EndsInNull(results'[e]) \/ dpc[e] \in {"off", "done"}
  <2>1. CASE results'[e] = results[e]
    BY <1>0, <2>1 DEF FrameEnds
  <2>2. CASE results[e] # <<>> /\ results[e] # <<Null>> /\ results'[e] = Tail(results[e])
    BY <1>0, <2>2, TailOfQueue DEF FrameEnds
  <2>3. CASE dpc[e] \in {"off", "done"} /\ results'[e] = <<>>
    BY <2>3, EmptyQueue
  <2>4. CASE dpc[e] \in {"off", "done"} /\ results'[e] = LastOf(results[e]) /\ results[e] # <<>>
    <3>1. results'[e] = <<results[e][Len(results[e])]>>
      BY <2>4 DEF LastOf
    <3>2. \A x : Len(<<x>>) = 1 /\ <<x>>[1] = x /\ <<x>> # <<>>
      OBVIOUS
    <3>3. QED
      BY <2>4, <3>1, <3>2 DEF Marked, EndsInNull
  <2>5. QED
    BY <2>1, <2>2, <2>3, <2>4 DEF LastOf
<1>2. /\ Marked(results[e])' <=> Marked(results'[e])
      /\ EndsInNull(results[e])' <=> EndsInNull(results'[e])
  BY DEF Marked, EndsInNull
<1>3. QED
  BY <1>0, <1>1, <1>2 DEF FrameEnds, Flushing

LEMMA FlowStep == FlowInv /\ [Next]_vars => FlowInv'
<1> SUFFICES ASSUME FlowInv, [Next]_vars
             PROVE  \A e \in Entry : FrameEnds(e)' /\ Flushing(e)'
  BY PacketStep DEF FlowInv
<1>0. LifeInv
  BY DEF FlowInv, PacketInv
<1>1. CASE StartProcessing
  <2>1. /\ UNCHANGED <<results, vf, packet, cr>> /\ mpc = "start"
        /\ \A e \in Entry : dpc'[e] \in {"queued", "off"}
    BY <1>1 DEF StartProcessing, frameVars
  <2>2. ASSUME NEW e \in Entry PROVE FrameEnds(e)' /\ Flushing(e)'
    <3>1. dpc[e] = "off"
      BY <1>0, <2>1 DEF LifeInv, WorkersCounted, BeforeStart
    <3>2. Marked(results[e]) /\ ~EndsInNull(results[e]) /\ vf[e] # Null /\ cr[e] = "None"
      BY <3>1 DEF FlowInv, FrameEnds, Flushing, Ending, Emitting
    <3>3. Marked(results[e])' /\ ~EndsInNull(results[e])'
      BY <2>1, <3>2 DEF Marked, EndsInNull
    <3>4. QED
      BY <2>1, <3>2, <3>3 DEF FrameEnds, Flushing
  <2>3. QED
    BY <2>2
<1>2. CASE (Opening /\ ~StartProcessing) \/ Steering \/ Demux
  <2>1. CASE Opening /\ ~StartProcessing
    BY <2>1, FlowConsumed
       DEF Opening, LoadVideo, LoadPresentation, TakeTimecodes, DestroyLock, ClearLock,
           PrepareBridge, threadVars, frameVars
  <2>2. CASE Steering
    BY <2>2, FlowConsumed
       DEF Steering, StartPlayback, SeeEndOfFile, FirstBufferPlayed, StopPlayback,
           AskDecoders, LookAgain, DemuxNotDone, threadVars, frameVars
  <2>3. CASE Demux
    BY <2>3, DemuxFrame, FlowConsumed DEF UnchangedByDemux, threadVars, frameVars
  <2>4. QED
    BY <1>2, <2>1, <2>2, <2>3
<1>3. CASE Reap
  <2>1. \A e \in Entry : dpc[e] \in {"off", "done"}
    BY <1>0, <1>3, FinishedIsIdle DEF Reap
  <2>2. \A e \in Entry : results'[e] \in {<<>>, LastOf(results[e])}
    BY <1>3 DEF Reap, Entry
  <2>3. UNCHANGED <<dpc, packet, cr, vf>>
    BY <1>3 DEF Reap, threadVars
  <2>4. QED
    BY <2>1, <2>2, <2>3, FlowConsumed
<1>4. CASE ResetDemuxer
  <2>1. Init'
    BY <1>4 DEF ResetDemuxer, Init
  <2>2. QED
    BY <2>1, FlowInitNext DEF FlowInv
<1>5. ASSUME NEW e \in Entry, TakeFrame(e) \/ ReturnSlot(e)
      PROVE  \A d \in Entry : FrameEnds(d)' /\ Flushing(d)'
  <2>1. UNCHANGED <<dpc, packet, cr, vf>>
    BY <1>5 DEF TakeFrame, ReturnSlot, threadVars
  <2>2. \/ results' = results
        \/ /\ results[e] # <<>> /\ results[e] # <<Null>>
           /\ results' = [results EXCEPT ![e] = Tail(@)]
    BY <1>5 DEF TakeFrame, ReturnSlot, AtEnd
  <2>3. ASSUME NEW d \in Entry
        PROVE  \/ results'[d] = results[d]
               \/ results[d] # <<>> /\ results[d] # <<Null>> /\ results'[d] = Tail(results[d])
    BY <1>0, <2>2 DEF LifeInv, TypeOK, FrameTypes
  <2>4. QED
    BY <2>1, <2>3, FlowConsumed
<1>6. ASSUME NEW e \in Entry, Decoder(e)
      PROVE  \A d \in Entry : FrameEnds(d)' /\ Flushing(d)'
  BY <1>6, FlowDecoder
<1>7. CASE UNCHANGED vars
  BY <1>7, FlowConsumed DEF vars, threadVars, frameVars
<1>8. QED
  BY <1>1, <1>2, <1>3, <1>4, <1>5, <1>6, <1>7, NextCases

LEMMA FlowInvariant == Spec => []FlowInv
BY FlowInit, FlowStep, PTL DEF Spec

\* obtainPacket (Controller.cpp) finds a packet at once for a decoder that passed
\* waitForData, the end mark is never taken for one and no null packet is decoded.
THEOREM DecoderFindsItsPacketAlways == Spec => []DecoderFindsItsPacket
<1>1. FlowInv => DecoderFindsItsPacket
  BY FoundPacket DEF FlowInv, Flushing, DecoderFindsItsPacket
<1>2. QED
  BY <1>1, FlowInvariant, PTL

\* A null pointer is the last thing in a queue of packets or of frames.
THEOREM EndMarkIsLastAlways == Spec => []EndMarkIsLast
<1>1. FlowInv => EndMarkIsLast
  BY DEF FlowInv, PacketInv, Packets, QueueEnds, FrameEnds, Marked, EndMarkIsLast
<1>2. QED
  BY <1>1, FlowInvariant, PTL

-----------------------------------------------------------------------------
(* The lock of the timecodes, for a file that fills the video buffer *)

Opens == {"timing", "destroy", "clear", "bridge", "start"}

\* Before loadVideo and between it and loadPresentation nothing was read.
NothingRead ==
  mpc \in {"offline", "loaded"} =>
    dmx = "off" /\ nread["V"] = 0 /\ pkt.n # Blank /\ ~ending /\ ~demuxFinish

\* Until the decoders start nobody takes a packet, so each video packet read
\* has taken one of the places, or waits for one: with no place left the end
\* of the file is out of reach.
Fills ==
  mpc \in Opens =>
    /\ ~demuxFinish /\ ~ending /\ pkt.n # Blank
    /\ dmx \notin {"off", "lastpost", "complete", "gone"}
    /\ nread["V"] + spaces["V"] <= VideoPacketBufferSize
         + One(dmx \in {"codes", "space", "late"} /\ pkt.stream = "V")

\* The lock exists while loadPresentation waits for it, and a post means that
\* the timecodes are collected.
LockLives ==
  /\ tlock # Gone => mpc \in {"timing", "destroy", "clear"}
  /\ tlock = Freed => mpc = "clear"
  /\ tlock > 0 \/ mpc \in {"destroy", "clear"} => counter = VideoPacketBufferSize

TimeInv == NothingRead /\ Fills /\ LockLives /\ dmx # "lastpost"

LEMMA TimeInit == Init => TimeInv
<1> SUFFICES ASSUME Init PROVE TimeInv
  OBVIOUS
<1>1. /\ mpc = "offline" /\ dmx = "off" /\ ~ending /\ ~demuxFinish /\ tlock = -1
      /\ nread["V"] = 0 /\ pkt.n # Blank
  BY DEF Init, Each, Entry, NoPacket, None, Blank, Gone
<1>2. NothingRead /\ Fills
  BY <1>1 DEF NothingRead, Fills, Opens
<1>3. LockLives
  BY <1>1 DEF LockLives, Gone, Freed
<1>4. QED
  BY <1>1, <1>2, <1>3 DEF TimeInv

LEMMA TimeInitNext == Init' => TimeInv'
BY TimeInit, PTL

LEMMA TimeOpening == TypeOK /\ TimeInv /\ Opening => TimeInv'
<1> SUFFICES ASSUME TypeOK, TimeInv, Opening PROVE TimeInv'
  OBVIOUS
<1> USE DEF TimeInv, Gone, Freed
<1>1. CASE LoadVideo
  BY <1>1 DEF LoadVideo, NothingRead, Fills, LockLives, Opens, demuxVars
<1>2. CASE LoadPresentation /\ mpc' = "timing"
  <2>1. /\ mpc = "loaded" /\ mpc' = "timing" /\ dmx' = "queued" /\ spaces' = Cap /\ tlock' = 0
        /\ UNCHANGED <<nread, pkt, ending, demuxFinish>>
    BY <1>2 DEF LoadPresentation, NothingRead
  <2>2. NothingRead' /\ LockLives'
    BY <2>1 DEF NothingRead, LockLives
  <2>3. Fills'
    <3>1. /\ ~demuxFinish' /\ ~ending' /\ pkt'.n # Blank
          /\ nread'["V"] = 0 /\ spaces'["V"] = VideoPacketBufferSize
      BY <2>1 DEF NothingRead, Cap, Entry
    <3>2. VideoPacketBufferSize \in Nat
      BY ConstantsAssumption
    <3>3. QED
      BY <2>1, <3>1, <3>2 DEF Fills, One
  <2>4. QED
    BY <2>1, <2>2, <2>3
<1>3. CASE LoadPresentation /\ mpc' # "timing"
  <2>1. mpc = "loaded" /\ mpc' = "play" /\ UNCHANGED <<tlock, dmx>>
    BY <1>3 DEF LoadPresentation
  <2>2. QED
    BY <2>1 DEF NothingRead, Fills, LockLives, Opens
<1>4. CASE TakeTimecodes
  <2>1. /\ mpc = "timing" /\ mpc' = "destroy" /\ tlock > 0 /\ tlock' = tlock - 1
        /\ UNCHANGED <<dmx, pkt, counter, ending, nread, spaces, demuxFinish>>
    BY <1>4 DEF TakeTimecodes, demuxVars, packetVars, lifeVars
  <2>2. tlock' \in Nat
    BY <2>1 DEF TypeOK
  <2>3. NothingRead' /\ Fills' /\ dmx' # "lastpost"
    BY <2>1 DEF NothingRead, Fills, Opens
  <2>4. LockLives'
    BY <2>1, <2>2 DEF LockLives
  <2>5. QED
    BY <2>3, <2>4
<1>5. CASE DestroyLock \/ ClearLock \/ PrepareBridge \/ StartProcessing
  <2>1. /\ UNCHANGED <<dmx, pkt, counter, ending, nread, spaces, demuxFinish>>
        /\ mpc \in Opens /\ mpc' \notin {"offline", "loaded"}
        /\ \/ mpc = "destroy" /\ mpc' = "clear" /\ tlock' = Freed
           \/ mpc = "clear" /\ mpc' = "bridge" /\ tlock' = Gone
           \/ mpc \in {"bridge", "start"} /\ mpc' \in {"start", "play"} /\ tlock' = tlock
    BY <1>5 DEF DestroyLock, ClearLock, PrepareBridge, StartProcessing, Opens, demuxVars,
                packetVars, lifeVars
  <2>2. NothingRead' /\ Fills' /\ dmx' # "lastpost"
    BY <2>1 DEF NothingRead, Fills
  <2>3. LockLives'
    BY <2>1 DEF LockLives
  <2>4. QED
    BY <2>2, <2>3
<1>6. QED
  BY <1>1, <1>2, <1>3, <1>4, <1>5 DEF Opening

\* The demultiplexer does not come to the end of the file before the decoders start.
LEMMA FillsDemux ==
  ASSUME MinVideo > VideoPacketBufferSize, PacketInv, TimeInv, Demux
  PROVE  Fills' /\ dmx' # "lastpost"
<1>0. /\ mpc' = mpc /\ demuxFinish' = demuxFinish /\ VideoPacketBufferSize \in Nat
      /\ MinVideo \in Nat
  BY DemuxFrame, ConstantsAssumption DEF UnchangedByDemux, mainVars, lifeVars
<1>1. TypeOK /\ nread["V"] \in Nat /\ spaces["V"] \in Nat /\ nread \in [Entry -> Nat]
      /\ spaces \in [Entry -> Nat] /\ "V" \in Entry
  BY DEF PacketInv, LifeInv, TypeOK, DemuxTypes, PacketTypes, Entry
<1>2. dmx' # "lastpost"
  <2>1. CASE DemuxBreaks
    <3>1. dmx = "top" /\ (ending \/ demuxFinish) /\ dmx' \in {"complete", "lastpost"}
          /\ (tlock = Gone => dmx' = "complete")
      BY <2>1 DEF DemuxBreaks
    <3>2. tlock = Gone
      BY <3>1 DEF TimeInv, LockLives, Fills, Opens
    <3>3. QED
      BY <3>1, <3>2
  <2>2. CASE ~DemuxBreaks
    BY <2>2 DEF TimeInv, Demux, DemuxStarts, LastPost, DemuxCompletes, ReadFrame,
       GetVideoTimecodes, ReserveSpace, SpaceTimedOut, MayPush, PushPacket, PostData
  <2>3. QED
    BY <2>1, <2>2
<1>3. CASE mpc \notin Opens
  BY <1>0, <1>2, <1>3 DEF Fills
<1>4. CASE mpc \in Opens
  <2>1. /\ ~demuxFinish /\ ~ending /\ pkt.n # Blank
        /\ dmx \notin {"off", "lastpost", "complete", "gone"}
        /\ nread["V"] + spaces["V"] <= VideoPacketBufferSize
             + One(dmx \in {"codes", "space", "late"} /\ pkt.stream = "V")
    BY <1>4 DEF TimeInv, Fills
  <2> DEFINE Waits == One(dmx \in {"codes", "space", "late"} /\ pkt.stream = "V")
  <2>2. Waits \in {0, 1} /\ Waits' \in {0, 1}
    BY DEF One
  <2>3. SUFFICES /\ ~ending' /\ pkt'.n # Blank
                 /\ dmx' \notin {"off", "complete", "gone"}
                 /\ nread'["V"] + spaces'["V"] <= VideoPacketBufferSize + Waits'
    BY <1>0, <1>2, <2>1 DEF Fills
  <2>4. CASE ReadFrame
    <3>1. /\ dmx = "top" /\ dmx' = "codes" /\ UNCHANGED <<ending, spaces>>
      BY <2>4 DEF ReadFrame, packetVars
    <3>2. nread["V"] + spaces["V"] <= VideoPacketBufferSize
      BY <1>0, <1>1, <2>1, <3>1 DEF One
    <3>3. ~(nread["V"] >= MinVideo)
      BY <1>0, <1>1, <3>2
    <3>4. PICK e \in Streams : /\ nread' = [nread EXCEPT ![e] = @ + 1]
                               /\ pkt' = [stream |-> e, n |-> nread[e] + 1]
      BY <2>4, <3>3 DEF ReadFrame
    <3>5. e \in Entry /\ nread[e] \in Nat
      BY <1>1 DEF Streams, Entry
    <3>6. pkt'.n # Blank /\ pkt'.stream = e
      BY <3>4, <3>5 DEF Blank
    <3>7. CASE e = "V"
      <4>1. nread'["V"] = nread["V"] + 1 /\ Waits' = 1
        BY <1>1, <3>1, <3>4, <3>6, <3>7 DEF One
      <4>2. QED
        BY <1>0, <1>1, <2>1, <3>1, <3>2, <3>6, <4>1
    <3>8. CASE e # "V"
      <4>1. nread'["V"] = nread["V"] /\ Waits' = 0
        BY <1>1, <3>1, <3>4, <3>6, <3>8 DEF One
      <4>2. QED
        BY <1>0, <1>1, <2>1, <3>1, <3>2, <3>6, <4>1
    <3>9. QED
      BY <3>7, <3>8
  <2>5. CASE ReserveSpace
    <3>1. /\ dmx = "space" /\ UNCHANGED <<ending, nread, pkt>>
          /\ pkt.stream \in Entry
      BY <2>5 DEF ReserveSpace, PacketInv, DemuxHolds
    <3>2. CASE spaces[pkt.stream] > 0
      <4>1. dmx' = "push" /\ spaces' = [spaces EXCEPT ![pkt.stream] = @ - 1]
        BY <2>5, <3>2 DEF ReserveSpace
      <4>2. CASE pkt.stream = "V"
        <5>1. Waits = 1 /\ Waits' = 0 /\ spaces'["V"] = spaces["V"] - 1
          BY <1>1, <3>1, <4>1, <4>2 DEF One
        <5>2. QED
          BY <1>0, <1>1, <2>1, <3>1, <4>1, <5>1
      <4>3. CASE pkt.stream # "V"
        <5>1. Waits = 0 /\ Waits' = 0 /\ spaces'["V"] = spaces["V"]
          BY <1>1, <3>1, <4>1, <4>3 DEF One
        <5>2. QED
          BY <1>0, <1>1, <2>1, <3>1, <4>1, <5>1
      <4>4. QED
        BY <4>2, <4>3
    <3>3. CASE ~(spaces[pkt.stream] > 0)
      <4>1. dmx' = "late" /\ spaces' = spaces
        BY <2>5, <3>3 DEF ReserveSpace
      <4>2. Waits' = Waits
        BY <3>1, <4>1 DEF One
      <4>3. QED
        BY <2>1, <3>1, <4>1, <4>2
    <3>4. QED
      BY <3>2, <3>3
  <2>6. CASE DemuxStarts \/ MayPush \/ PushPacket \/ PostData
    <3>1. UNCHANGED <<nread, pkt, spaces>> /\ dmx \notin {"codes", "space", "late"}
          /\ dmx' \in {"top", "put", "post"}
      BY <2>6 DEF DemuxStarts, MayPush, PushPacket, PutEnd, PutPacket, PostData, packetVars
    <3>2. ending' = ending
      BY <2>1, <2>6 DEF DemuxStarts, MayPush, PushPacket, PutEnd, PutPacket, PostData
    <3>3. Waits = 0 /\ Waits' = 0
      BY <3>1 DEF One
    <3>4. QED
      BY <2>1, <3>1, <3>2, <3>3
  <2>7. CASE GetVideoTimecodes \/ SpaceTimedOut
    <3>1. /\ UNCHANGED <<nread, pkt, spaces, ending>>
          /\ dmx \in {"codes", "late"}
          /\ dmx' = "space" \/ (dmx' = "push" /\ pkt.stream = "none")
      BY <2>1, <2>7 DEF GetVideoTimecodes, SpaceTimedOut, packetVars
    <3>2. Waits' = Waits
      BY <3>1 DEF One
    <3>3. QED
      BY <2>1, <3>1, <3>2
  <2>8. ~DemuxBreaks /\ ~LastPost /\ ~DemuxCompletes
    BY <2>1 DEF DemuxBreaks, LastPost, DemuxCompletes
  <2>9. QED
    BY <2>4, <2>5, <2>6, <2>7, <2>8 DEF Demux
<1>5. QED
  BY <1>3, <1>4

LEMMA TimeDemux ==
  ASSUME MinVideo > VideoPacketBufferSize, PacketInv, TimeInv, Demux
  PROVE  TimeInv'
<1>0. mpc' = mpc /\ TypeOK
  BY DemuxFrame DEF UnchangedByDemux, mainVars, PacketInv, LifeInv
<1>1. Fills' /\ dmx' # "lastpost"
  BY FillsDemux
<1>2. dmx # "off" /\ dmx # "lastpost"
  BY DEF TimeInv, Demux, DemuxStarts, DemuxBreaks, LastPost, DemuxCompletes, ReadFrame,
         GetVideoTimecodes, ReserveSpace, SpaceTimedOut, MayPush, PushPacket, PutEnd, PutPacket,
         PostData
<1>3. NothingRead'
  BY <1>0, <1>2 DEF TimeInv, NothingRead
<1>4. LockLives'
  <2>1. CASE GetVideoTimecodes
    <3>1. /\ counter = VideoPacketBufferSize => counter' = VideoPacketBufferSize
          /\ tlock' = tlock \/ (tlock >= 0 /\ tlock' = tlock + 1
                                 /\ counter' = VideoPacketBufferSize)
      BY <2>1 DEF GetVideoTimecodes, Collected
    <3>2. tlock \in Nat \cup {Gone, Freed}
      BY <1>0 DEF TypeOK
    <3>3. QED
      BY <1>0, <3>1, <3>2 DEF TimeInv, LockLives, Gone, Freed
  <2>2. CASE ~GetVideoTimecodes
    <3>1. tlock' = tlock /\ counter' = counter
      BY <1>2, <2>2 DEF Demux, DemuxStarts, DemuxBreaks, LastPost, DemuxCompletes, ReadFrame,
           ReserveSpace, SpaceTimedOut, MayPush, PushPacket, PostData
    <3>2. QED
      BY <1>0, <3>1 DEF TimeInv, LockLives
  <2>3. QED
    BY <2>1, <2>2
<1>5. QED
  BY <1>1, <1>3, <1>4 DEF TimeInv

LEMMA TimeStep ==
  ASSUME MinVideo > VideoPacketBufferSize
  PROVE  PacketInv /\ TimeInv /\ [Next]_vars => TimeInv'
<1> SUFFICES ASSUME PacketInv, TimeInv, [Next]_vars PROVE TimeInv'
  OBVIOUS
<1>0. TypeOK /\ WorkersCounted
  BY DEF PacketInv, LifeInv
<1>1. CASE Opening
  BY <1>0, <1>1, TimeOpening
<1>2. CASE Demux
  BY <1>2, TimeDemux
<1>3. ASSUME UNCHANGED <<tlock, dmx, pkt, counter, ending, nread>>,
             UNCHANGED <<mpc, spaces, demuxFinish>>
             \/ (mpc \notin BeforeStart /\ mpc' \notin BeforeStart)
      PROVE  TimeInv'
  BY <1>3 DEF TimeInv, NothingRead, Fills, LockLives, Opens, BeforeStart
<1>4. CASE Steering \/ Reap
  <2>1. /\ UNCHANGED <<tlock, dmx, pkt, counter, ending, nread, spaces>>
        /\ UNCHANGED <<mpc, demuxFinish>>
           \/ (mpc \notin BeforeStart /\ mpc' \notin BeforeStart)
    BY <1>4 DEF Steering, StartPlayback, SeeEndOfFile, FirstBufferPlayed, StopPlayback,
                AskDecoders, LookAgain, DemuxNotDone, Reap, lifeVars, demuxVars, packetVars,
                BeforeStart
  <2>2. QED
    BY <1>3, <2>1
<1>5. CASE ResetDemuxer
  <2>1. Init'
    BY <1>5 DEF ResetDemuxer, Init
  <2>2. QED
    BY <2>1, TimeInitNext
<1>6. ASSUME NEW e \in Entry, TakeFrame(e) \/ ReturnSlot(e) PROVE TimeInv'
  BY <1>3, <1>6 DEF TakeFrame, ReturnSlot, mainVars, lifeVars, demuxVars, packetVars
<1>7. ASSUME NEW e \in Entry, Decoder(e) PROVE TimeInv'
  <2>1. UNCHANGED <<mpc, tlock, dmx, pkt, counter, ending, nread>>
    BY <1>0, <1>7, DecoderFrame DEF UnchangedByDecoder, mainVars, demuxVars
  <2>2. dpc[e] # "off"
    BY <1>7 DEF Decoder, DecoderStarts, DataTimedOut, CheckReturn, SlotTimedOut, WaitForData,
                ObtainPacket, DecodePacket, WaitForSlot, PushFrame, DecoderEnds
  <2>3. mpc \notin BeforeStart
    BY <1>0, <2>2 DEF WorkersCounted
  <2>4. QED
    BY <1>3, <2>1, <2>3
<1>8. CASE UNCHANGED vars
  BY <1>3, <1>8 DEF vars, mainVars, lifeVars, demuxVars, packetVars
<1>9. QED
  BY <1>1, <1>2, <1>4, <1>5, <1>6, <1>7, <1>8, NextCases

\* The demultiplexer never posts initVideoTimecodesLock between its destruction and the
\* clearing of the pointer (Controller.cpp, getVideoFramerate), nor at its end while the
\* lock exists: for every file with more video packets than the buffer has places.
THEOREM NoPostToDestroyedLockAlways ==
  ASSUME MinVideo > VideoPacketBufferSize
  PROVE  Spec => []NoPostToDestroyedLock
<1>1. TimeInv => NoPostToDestroyedLock
  <2>1. TimeInv /\ tlock = Freed => counter = VideoPacketBufferSize
    BY DEF TimeInv, LockLives
  <2>2. QED
    BY <2>1 DEF TimeInv, NoPostToDestroyedLock
<1>2. PacketInv /\ TimeInv /\ [Next]_vars => TimeInv'
  BY TimeStep
<1>3. QED
  BY <1>1, <1>2, TimeInit, PacketInvariant, PTL DEF Spec
-----------------------------------------------------------------------------
(* The frames on their way: no packet is lost between the file and the screen *)

\* a + 1 .. b in a queue, and after them nothing but members of R.
Segment(s, a, b, R) ==
  /\ a <= b /\ b - a <= Len(s)
  /\ \A i \in 1..Len(s) : IF i <= b - a THEN s[i] = a + i ELSE s[i] \in R

\* What a thread holds is the next number or none.
Holding(x, a, b) == IF x > 0 THEN x = a + 1 /\ b = a + 1 ELSE b = a

LEMMA SegmentEmpty == \A a \in Nat : \A R : Segment(<<>>, a, a, R)
<1>1. Len(<<>>) = 0 /\ 1..0 = {}
  BY EmptyIsASeq
<1>2. QED
  BY <1>1 DEF Segment

LEMMA SegmentHead ==
  ASSUME NEW s \in Seq(Content), NEW a \in Nat, NEW b \in Nat, NEW R, Segment(s, a, b, R),
         s # <<>>
  PROVE  /\ a < b => Head(s) = a + 1 /\ Segment(Tail(s), a + 1, b, R)
         /\ a = b => Head(s) \in R /\ Segment(Tail(s), a, b, R)
         /\ a <= b
<1>1. /\ Len(s) \in Nat /\ Len(s) > 0 /\ Len(Tail(s)) = Len(s) - 1 /\ Head(s) = s[1]
  BY Lengths, Ends
<1>2. \A i \in 1..(Len(s) - 1) : Tail(s)[i] = s[i + 1] /\ i + 1 \in 1..Len(s)
  BY <1>1
<1>3. /\ a <= b /\ b - a <= Len(s)
      /\ \A i \in 1..Len(s) : IF i <= b - a THEN s[i] = a + i ELSE s[i] \in R
  BY DEF Segment
<1>4. Head(s) = IF a < b THEN a + 1 ELSE s[1]
  BY <1>1, <1>3
<1>5. a = b => Head(s) \in R
  BY <1>1, <1>3
<1>6. ASSUME a < b PROVE Segment(Tail(s), a + 1, b, R)
  <2>1. a + 1 <= b /\ b - (a + 1) <= Len(Tail(s))
    BY <1>1, <1>3, <1>6
  <2>2. ASSUME NEW i \in 1..(Len(s) - 1)
        PROVE  IF i <= b - (a + 1) THEN Tail(s)[i] = a + 1 + i ELSE Tail(s)[i] \in R
    <3>1. Tail(s)[i] = s[i + 1] /\ i + 1 \in 1..Len(s) /\ i \in Int
      BY <1>2
    <3>2. IF i + 1 <= b - a THEN s[i + 1] = a + (i + 1) ELSE s[i + 1] \in R
      BY <1>3, <3>1
    <3>3. QED
      BY <3>1, <3>2
  <2>3. QED
    BY <1>1, <2>1, <2>2 DEF Segment
<1>7. ASSUME a = b PROVE Segment(Tail(s), a, b, R)
  <2>1. \A i \in 1..Len(s) : s[i] \in R
    BY <1>3, <1>7
  <2>2. \A i \in 1..(Len(s) - 1) : Tail(s)[i] \in R /\ ~(i <= b - a)
    BY <1>2, <1>7, <2>1
  <2>3. QED
    BY <1>1, <1>7, <2>2 DEF Segment
<1>8. QED
  BY <1>3, <1>4, <1>5, <1>6, <1>7

LEMMA SegmentAppend ==
  ASSUME NEW s \in Seq(Content), NEW a \in Nat, NEW b \in Nat, NEW x \in Content
  PROVE  /\ \A R : Segment(s, a, b, R) /\ x \in R => Segment(Append(s, x), a, b, R)
         /\ Segment(s, a, b, {}) /\ x = b + 1 => Segment(Append(s, x), a, b + 1, {})
<1>1. /\ Len(s) \in Nat /\ Len(Append(s, x)) = Len(s) + 1
      /\ \A i \in 1..Len(s) : Append(s, x)[i] = s[i]
      /\ Append(s, x)[Len(s) + 1] = x
  BY Lengths
<1>2. \A i \in 1..(Len(s) + 1) : i # Len(s) + 1 => i \in 1..Len(s)
  BY <1>1
<1>3. ASSUME NEW R, Segment(s, a, b, R), x \in R
      PROVE  Segment(Append(s, x), a, b, R)
  <2>1. a <= b /\ b - a <= Len(s) + 1 /\ ~(Len(s) + 1 <= b - a)
    BY <1>1, <1>3 DEF Segment
  <2>2. \A i \in 1..(Len(s) + 1) :
          IF i <= b - a THEN Append(s, x)[i] = a + i ELSE Append(s, x)[i] \in R
    BY <1>1, <1>2, <1>3, <2>1 DEF Segment
  <2>3. QED
    BY <1>1, <2>1, <2>2 DEF Segment
<1>4. ASSUME Segment(s, a, b, {}), x = b + 1
      PROVE  Segment(Append(s, x), a, b + 1, {})
  <2>1. a <= b /\ Len(s) = b - a
    <3>1. CASE Len(s) > b - a
      BY <1>1, <1>4, <3>1 DEF Segment
    <3>2. QED
      BY <1>1, <1>4, <3>1 DEF Segment
  <2>2. \A i \in 1..Len(s) : s[i] = a + i
    BY <1>4, <2>1 DEF Segment
  <2>3. \A i \in 1..(Len(s) + 1) : Append(s, x)[i] = a + i
    BY <1>1, <1>2, <1>4, <2>1, <2>2
  <2>4. QED
    BY <1>1, <2>1, <2>3 DEF Segment
<1>5. QED
  BY <1>3, <1>4

LEMMA SegmentWiden ==
  ASSUME NEW s, NEW a, NEW b, NEW R, NEW S, Segment(s, a, b, R), R \subseteq S
  PROVE  Segment(s, a, b, S)
BY DEF Segment

LEMMA SegmentUnmarked ==
  ASSUME NEW s, NEW a, NEW b, Segment(s, a, b, {Null}), Unmarked(s)
  PROVE  Segment(s, a, b, {})
BY DEF Segment, Unmarked

-----------------------------------------------------------------------------

\* The demultiplexer has read a packet of the stream and not put it into its queue yet.
InHand(e) ==
  dmx \in {"codes", "space", "late", "push", "put"} /\ pkt.stream = e /\ pkt.n > 0

Handed(e) == IF InHand(e) THEN nread[e] - 1 ELSE nread[e]

\* The frames from the last one taken to the last packet read, cut where one place ends
\* and the next begins: the results up to m, the frame to be pushed up to o, the codec up
\* to t, the decoder's packet up to d, the packet queue up to what was handed to it.
Cuts(e, m, o, t, d) ==
  /\ Segment(results[e], last[e], m, {Null})
  /\ Holding(vf[e], m, o)
  /\ Segment(codec[e], o, t, {})
  /\ Holding(packet[e], t, d)
  /\ Segment(pq[e], d, Handed(e), IF ending THEN {Blank, Null} ELSE {})

Chain(e) == \E m, o, t, d \in Nat : Cuts(e, m, o, t, d)

\* A frame is held only between decoding and pushing it.  An end mark among the frames
\* comes after all of them, and a codec is flushed when nothing is left to give to it.
Rest(e) ==
  /\ vf[e] # None => dpc[e] \in Emitting \cup {"out", "done"}
  /\ dpc[e] \in Emitting => vf[e] # None
  /\ vf[e] # Blank
  /\ vf[e] = Null \/ EndsInNull(results[e]) =>
       codec[e] = <<>> /\ packet[e] = None /\ cr[e] # "None"
  /\ EndsInNull(results[e]) => vf[e] = None
  /\ cr[e] # "None" => ending /\ pq[e] = <<Null>>
  /\ InHand(e) => pkt.n = nread[e]

\* What resetFrameQueues leaves.
Leftover(e) ==
  /\ Len(results[e]) <= 1
  /\ \A i \in 1..Len(results[e]) :
       results[e][i] = Null \/ (last[e] < results[e][i] /\ results[e][i] <= nread[e])

StreamOK(e) ==
  /\ last[e] \in Nat
  /\ IF demuxFinish THEN Leftover(e) ELSE Chain(e) /\ Rest(e)

Stops == {"finish", "delay", "reap", "demux", "stopping"}

MovieInv ==
  /\ FlowInv
  /\ demuxFinish => mpc \in Stops /\ ~alive
  /\ bridge \in {"playing", "heard"} => mpc = "play"
  /\ ~LoopVideo => \A e \in Entry : StreamOK(e)

LEMMA NewCuts ==
  ASSUME NEW e \in Entry, NEW m \in Nat, NEW o \in Nat, NEW t \in Nat, NEW d \in Nat,
         Segment(results'[e], last'[e], m, {Null}),
         Holding(vf'[e], m, o),
         Segment(codec'[e], o, t, {}),
         Holding(packet'[e], t, d),
         Segment(pq'[e], d, Handed(e)', IF ending' THEN {Blank, Null} ELSE {})
  PROVE  Chain(e)'
<1>1. /\ Segment(results[e], last[e], m, {Null})'
      /\ Segment(codec[e], o, t, {})'
      /\ Holding(vf[e], m, o)' /\ Holding(packet[e], t, d)'
  BY DEF Segment, Holding
<1>2. Segment(pq[e], d, Handed(e), IF ending THEN {Blank, Null} ELSE {})'
  BY DEF Segment
<1>3. Cuts(e, m, o, t, d)'
  BY <1>1, <1>2 DEF Cuts
<1>4. QED
  BY <1>3 DEF Chain

LEMMA ChainUnmoved ==
  ASSUME NEW e \in Entry, Chain(e),
         results'[e] = results[e], last'[e] = last[e], vf'[e] = vf[e], codec'[e] = codec[e],
         packet'[e] = packet[e], pq'[e] = pq[e], ending' = ending, Handed(e)' = Handed(e)
  PROVE  Chain(e)'
<1>1. PICK m \in Nat, o \in Nat, t \in Nat, d \in Nat : Cuts(e, m, o, t, d)
  BY DEF Chain
<1>2. QED
  BY <1>1, NewCuts DEF Cuts

LEMMA MovieTyped ==
  ASSUME TypeOK, NEW e \in Entry
  PROVE  /\ results[e] \in Seq(Content) /\ last[e] \in Content /\ nread[e] \in Nat
         /\ vf[e] \in Content /\ codec[e] \in Seq(Content) /\ packet[e] \in Number
         /\ pq[e] \in Seq(Content)
         /\ pkt.n \in Number
<1>1. /\ results[e] \in Seq(Content) /\ last[e] \in Content /\ nread[e] \in Nat
      /\ pkt.n \in Number
  BY DEF TypeOK, FrameTypes, DemuxTypes
<1>2. vf[e] \in Content /\ codec[e] \in Seq(Number) /\ packet[e] \in Number
  BY DEF TypeOK, ThreadTypes
<1>3. pq[e] \in Seq(Content)
  BY DEF TypeOK, PacketTypes
<1>4. codec[e] \in Seq(Content)
  BY <1>2 DEF Content
<1>5. QED
  BY <1>1, <1>2, <1>3, <1>4

\* A step that moves no frame may move the threads.
LEMMA StreamUnmoved ==
  ASSUME NEW e \in Entry, StreamOK(e), demuxFinish' = demuxFinish,
         results'[e] = results[e], last'[e] = last[e], vf'[e] = vf[e], codec'[e] = codec[e],
         packet'[e] = packet[e], pq'[e] = pq[e], cr'[e] = cr[e], ending' = ending,
         \/ dpc'[e] = dpc[e]
         \/ vf[e] = None /\ dpc'[e] \notin Emitting
         \/ vf[e] # None /\ dpc'[e] \in Emitting \cup {"out", "done"},
         InHand(e)' => demuxFinish \/ pkt'.n = nread'[e],
         Handed(e)' = Handed(e),
         demuxFinish => nread'[e] = nread[e]
  PROVE  StreamOK(e)'
<1>1. last'[e] \in Nat
  BY DEF StreamOK
<1>2. CASE demuxFinish
  <2>1. Leftover(e) /\ nread'[e] = nread[e]
    BY <1>2 DEF StreamOK
  <2>2. Leftover(e)'
    BY <2>1 DEF Leftover
  <2>3. QED
    BY <1>1, <1>2, <2>2 DEF StreamOK
<1>3. CASE ~demuxFinish
  <2>1. Chain(e) /\ Rest(e)
    BY <1>3 DEF StreamOK
  <2>2. Chain(e)'
    BY <2>1, ChainUnmoved
  <2>3. EndsInNull(results[e])' <=> EndsInNull(results[e])
    BY DEF EndsInNull
  <2>4. Rest(e)'
    <3>1. InHand(e)' => pkt'.n = nread'[e]
      BY <1>3
    <3>2. /\ vf'[e] # None => dpc'[e] \in Emitting \cup {"out", "done"}
          /\ dpc'[e] \in Emitting => vf'[e] # None
      BY <2>1 DEF Rest, Emitting
    <3>3. QED
      BY <2>1, <2>3, <3>1, <3>2 DEF Rest
  <2>5. QED
    BY <1>1, <1>3, <2>2, <2>4 DEF StreamOK
<1>4. QED
  BY <1>2, <1>3

LEMMA CutsOrdered ==
  ASSUME TypeOK, NEW e \in Entry, NEW m \in Nat, NEW o \in Nat, NEW t \in Nat, NEW d \in Nat,
         Cuts(e, m, o, t, d)
  PROVE  last[e] <= m /\ m <= o /\ o <= t /\ t <= d /\ d <= Handed(e) /\ Handed(e) <= nread[e]
<1>1. last[e] <= m /\ o <= t /\ d <= Handed(e)
  BY DEF Cuts, Segment
<1>2. m <= o /\ t <= d
  BY DEF Cuts, Holding
<1>3. Handed(e) <= nread[e]
  BY MovieTyped DEF Handed
<1>4. QED
  BY <1>1, <1>2, <1>3

\* The frame that can be taken.
LEMMA NextFrame ==
  ASSUME TypeOK, NEW e \in Entry, Marked(results[e]), StreamOK(e), results[e] # <<>>, ~AtEnd(e)
  PROVE  /\ Head(results[e]) \in Nat
         /\ last[e] < Head(results[e]) /\ Head(results[e]) <= nread[e]
         /\ ~demuxFinish => Head(results[e]) = last[e] + 1
<1> DEFINE s == results[e]
<1>0. /\ s \in Seq(Content) /\ Len(s) \in Nat /\ Len(s) > 0 /\ Head(s) = s[1] /\ Head(s) \in Content
      /\ last[e] \in Nat /\ nread[e] \in Nat
  BY MovieTyped, Lengths, Ends DEF StreamOK
<1>1. Head(s) # Null
  <2> SUFFICES ASSUME s[1] = Null PROVE FALSE
    BY <1>0
  <2>1. 1 \in 1..Len(s)
    BY <1>0
  <2>2. Len(s) = 1
    BY <2>1, ZenonT(30) DEF Marked
  <2>3. s = <<Null>>
    BY <1>0, <2>2
  <2>4. QED
    BY <2>3 DEF AtEnd
<1>2. CASE demuxFinish
  <2>1. Leftover(e) /\ 1 \in 1..Len(s)
    BY <1>0, <1>2 DEF StreamOK
  <2>2. last[e] < s[1] /\ s[1] <= nread[e]
    BY <1>0, <1>1, <2>1 DEF Leftover
  <2>3. Head(s) \in Nat
    BY <1>0, <2>2 DEF Content, Number, None, Null
  <2>4. QED
    BY <1>0, <1>2, <2>2, <2>3
<1>3. CASE ~demuxFinish
  <2>1. PICK m \in Nat, o \in Nat, t \in Nat, d \in Nat : Cuts(e, m, o, t, d)
    BY <1>3 DEF StreamOK, Chain
  <2>2. Segment(s, last[e], m, {Null})
    BY <2>1 DEF Cuts
  <2>3. last[e] < m /\ Head(s) = last[e] + 1
    <3>1. (last[e] = m => Head(s) \in {Null}) /\ last[e] <= m
      BY <1>0, <2>2, SegmentHead
    <3>2. last[e] < m
      BY <1>0, <1>1, <3>1
    <3>3. QED
      BY <1>0, <2>2, <3>2, SegmentHead
  <2>4. m <= nread[e]
    <3>1. Handed(e) \in Int
      BY <1>0 DEF Handed
    <3>2. m <= o /\ o <= t /\ t <= d /\ d <= Handed(e) /\ Handed(e) <= nread[e]
      BY <2>1, CutsOrdered
    <3>3. QED
      BY <1>0, <3>1, <3>2
  <2>5. QED
    BY <1>0, <2>3, <2>4
<1>4. QED
  BY <1>2, <1>3

LEMMA StreamTakeFrame ==
  ASSUME MovieInv, ~LoopVideo, NEW e \in Entry, NEW c \in Entry, TakeFrame(c)
  PROVE  StreamOK(e)'
<1>0. /\ TypeOK /\ StreamOK(e) /\ Marked(results[e]) /\ LoopVideo' = LoopVideo
      /\ UNCHANGED <<demuxFinish, vf, codec, packet, pq, cr, ending, dpc, dmx, pkt, nread>>
      /\ results' = [results EXCEPT ![c] = Tail(@)]
      /\ last' = [last EXCEPT ![c] = Head(results[c])]
      /\ results \in [Entry -> Seq(Content)] /\ last \in [Entry -> Content]
  BY DEF MovieInv, FlowInv, PacketInv, LifeInv, FrameEnds, TakeFrame, LoopVideo, mainVars,
         lifeVars, threadVars, demuxVars, packetVars, TypeOK, FrameTypes
<1>1. (InHand(e)' <=> InHand(e)) /\ Handed(e)' = Handed(e)
  BY <1>0 DEF InHand, Handed
<1>2. CASE c # e
  <2>1. results'[e] = results[e] /\ last'[e] = last[e]
    BY <1>0, <1>2
  <2>2. ~demuxFinish => (InHand(e)' => pkt'.n = nread'[e])
    BY <1>0, <1>1 DEF StreamOK, Rest
  <2>3. CASE demuxFinish
    <3>1. Leftover(e)'
      BY <1>0, <2>1, <2>3 DEF StreamOK, Leftover
    <3>2. QED
      BY <1>0, <2>1, <2>3, <3>1 DEF StreamOK
  <2>4. CASE ~demuxFinish
    BY <1>0, <1>1, <2>1, <2>2, <2>4, StreamUnmoved
  <2>5. QED
    BY <2>3, <2>4
<1>3. CASE c = e
  <2>0. results[e] # <<>> /\ ~AtEnd(e)
    BY <1>3 DEF TakeFrame
  <2>1. results'[e] = Tail(results[e]) /\ last'[e] = Head(results[e])
    BY <1>0, <1>3
  <2>2. last'[e] \in Nat
    BY <1>0, <2>0, <2>1, NextFrame
  <2>3. /\ results[e] \in Seq(Content) /\ Len(results[e]) \in Nat
        /\ Len(results'[e]) = Len(results[e]) - 1 /\ last[e] \in Nat
    BY <1>0, <2>0, <2>1, Lengths, Ends DEF StreamOK
  <2>4. CASE demuxFinish
    <3>1. Len(results'[e]) <= 0
      BY <1>0, <2>3, <2>4 DEF StreamOK, Leftover
    <3>2. Len(results'[e]) \in Int
      BY <2>3
    <3>3. Leftover(e)'
      BY <3>1, <3>2 DEF Leftover
    <3>4. QED
      BY <1>0, <2>2, <2>4, <3>3 DEF StreamOK
  <2>5. CASE ~demuxFinish
    <3>1. Rest(e) /\ Chain(e)
      BY <1>0, <2>5 DEF StreamOK
    <3>2. PICK m \in Nat, o \in Nat, t \in Nat, d \in Nat : Cuts(e, m, o, t, d)
      BY <3>1 DEF Chain
    <3>3. last'[e] = last[e] + 1 /\ Head(results[e]) # Null
      BY <1>0, <2>0, <2>1, <2>3, <2>5, NextFrame DEF Null
    <3>4. Segment(results'[e], last'[e], m, {Null})
      <4>1. Segment(results[e], last[e], m, {Null})
        BY <3>2 DEF Cuts
      <4>2. /\ last[e] = m => Head(results[e]) \in {Null}
            /\ last[e] <= m
        BY <2>0, <2>3, <4>1, SegmentHead
      <4>3. QED
        BY <2>0, <2>1, <2>3, <3>3, <4>1, <4>2, SegmentHead DEF Null
    <3>5. Chain(e)'
      BY <1>0, <1>1, <3>2, <3>4, NewCuts DEF Cuts
    <3>6. EndsInNull(results[e])' => EndsInNull(results[e])
      <4>1. EndsInNull(Tail(results[e])) => EndsInNull(results[e])
        BY <1>0, <2>0, <2>3, TailOfQueue
      <4>2. QED
        BY <2>1, <4>1 DEF EndsInNull
    <3>7. Rest(e)'
      BY <1>0, <1>1, <3>1, <3>6 DEF Rest
    <3>8. QED
      BY <1>0, <2>2, <2>5, <3>5, <3>7 DEF StreamOK
  <2>6. QED
    BY <2>4, <2>5
<1>4. QED
  BY <1>2, <1>3

\* Reading a packet, and every step of the demultiplexer that puts none into a queue.
LEMMA StreamDemuxWalks ==
  ASSUME MovieInv, ~LoopVideo, NEW e \in Entry, Demux, ~PushPacket
  PROVE  StreamOK(e)'
<1>0. /\ TypeOK /\ StreamOK(e) /\ DemuxHolds /\ UnchangedByDemux
      /\ nread \in [Entry -> Nat]
  BY DemuxFrame DEF MovieInv, FlowInv, PacketInv, LifeInv, TypeOK, DemuxTypes
<1>1. UNCHANGED <<demuxFinish, results, last, vf, codec, packet, cr, dpc>>
  BY <1>0 DEF UnchangedByDemux, lifeVars, threadVars, frameVars
<1>2. UNCHANGED <<pq, ending>>
  BY DEF Demux, DemuxStarts, DemuxBreaks, LastPost, DemuxCompletes, ReadFrame,
         GetVideoTimecodes, ReserveSpace, SpaceTimedOut, MayPush, PostData, packetVars
<1>3. CASE ReadFrame
  <2>1. dmx = "top" /\ ~demuxFinish
    BY <1>3 DEF ReadFrame
  <2>2. ~InHand(e) /\ Handed(e) = nread[e]
    BY <2>1 DEF InHand, Handed
  <2>3. CASE \E d \in Streams : /\ nread' = [nread EXCEPT ![d] = @ + 1]
                                /\ pkt' = [stream |-> d, n |-> nread[d] + 1]
    <3>1. PICK d \in Streams : /\ nread' = [nread EXCEPT ![d] = @ + 1]
                               /\ pkt' = [stream |-> d, n |-> nread[d] + 1]
      BY <2>3
    <3>2. d \in Entry /\ nread[d] \in Nat /\ dmx' = "codes"
      BY <1>0, <1>3 DEF Streams, Entry, ReadFrame
    <3>3. pkt'.stream = d /\ pkt'.n = nread[d] + 1 /\ nread'[d] = nread[d] + 1
      BY <1>0, <3>1, <3>2
    <3>4. CASE d = e
      <4>1. InHand(e)'
        BY <3>2, <3>3, <3>4 DEF InHand
      <4>2. Handed(e)' = Handed(e) /\ pkt'.n = nread'[e]
        BY <2>2, <3>2, <3>3, <3>4, <4>1 DEF Handed
      <4>3. QED
        BY <1>0, <1>1, <1>2, <2>1, <4>2, StreamUnmoved
    <3>5. CASE d # e
      <4>1. ~InHand(e)'
        BY <3>3, <3>5 DEF InHand
      <4>2. nread'[e] = nread[e]
        BY <1>0, <3>1, <3>5
      <4>3. Handed(e)' = Handed(e)
        BY <2>2, <4>1, <4>2 DEF Handed
      <4>4. QED
        BY <1>0, <1>1, <1>2, <2>1, <4>1, <4>3, StreamUnmoved
    <3>6. QED
      BY <3>4, <3>5
  <2>4. CASE UNCHANGED nread /\ pkt'.n = Blank
    <3>1. ~InHand(e)'
      BY <2>4 DEF InHand, Blank
    <3>2. Handed(e)' = Handed(e)
      BY <2>2, <2>4, <3>1 DEF Handed
    <3>3. QED
      BY <1>0, <1>1, <1>2, <2>1, <3>1, <3>2, StreamUnmoved
  <2>5. QED
    BY <1>3, <2>3, <2>4 DEF ReadFrame
<1>4. CASE ~ReadFrame
  <2>1. UNCHANGED <<nread, pkt>>
    BY <1>4 DEF Demux, DemuxStarts, DemuxBreaks, LastPost, DemuxCompletes,
           GetVideoTimecodes, ReserveSpace, SpaceTimedOut, MayPush, PostData
  <2>2. CASE demuxFinish
    <3>1. Leftover(e)'
      BY <1>0, <1>1, <2>1, <2>2 DEF StreamOK, Leftover
    <3>2. QED
      BY <1>0, <1>1, <2>2, <3>1 DEF StreamOK
  <2>3. CASE ~demuxFinish
    <3>1. InHand(e)' <=> InHand(e)
      <4>1. CASE GetVideoTimecodes
        BY <2>1, <4>1, <1>0 DEF GetVideoTimecodes, InHand, Entry
      <4>2. CASE ReserveSpace \/ SpaceTimedOut \/ MayPush
        BY <2>1, <2>3, <4>2 DEF ReserveSpace, SpaceTimedOut, MayPush, InHand
      <4>3. CASE DemuxStarts \/ DemuxBreaks \/ LastPost \/ DemuxCompletes \/ PostData
        BY <4>3 DEF DemuxStarts, DemuxBreaks, LastPost, DemuxCompletes, PostData, InHand
      <4>4. QED
        BY <1>4, <4>1, <4>2, <4>3 DEF Demux
    <3>2. Handed(e)' = Handed(e)
      BY <2>1, <3>1 DEF Handed
    <3>3. InHand(e)' => pkt'.n = nread'[e]
      BY <1>0, <2>1, <2>3, <3>1 DEF StreamOK, Rest
    <3>4. QED
      BY <1>0, <1>1, <1>2, <2>3, <3>2, <3>3, StreamUnmoved
  <2>4. QED
    BY <2>2, <2>3
<1>5. QED
  BY <1>3, <1>4

\* The packet moves from the demultiplexer's hand to the end of the queue, and the blank
\* one and the end mark come when there is none left to be read.
LEMMA StreamPushPacket ==
  ASSUME MovieInv, ~LoopVideo, NEW e \in Entry, PushPacket
  PROVE  StreamOK(e)'
<1>0. /\ TypeOK /\ StreamOK(e) /\ DemuxHolds /\ UnchangedByDemux /\ ~LoopVideo'
      /\ UNCHANGED <<demuxFinish, results, last, vf, codec, packet, cr, dpc, pkt, nread>>
      /\ dmx = "put" /\ dmx' \in {"top", "post"} /\ Packets(e)
      /\ pq \in [Entry -> Seq(Content)]
  BY DEF MovieInv, FlowInv, PacketInv, LifeInv, TypeOK, PacketTypes, PushPacket, PutEnd,
         PutPacket, UnchangedByDemux, mainVars, lifeVars, threadVars, frameVars, LoopVideo
<1>1. pkt.n \in Nat /\ ~ending /\ pkt.n \in Content
  BY <1>0 DEF DemuxHolds, DemuxEnding, Content, Number
<1>2. CASE demuxFinish
  <2>1. Leftover(e)'
    BY <1>0, <1>2 DEF StreamOK, Leftover
  <2>2. QED
    BY <1>0, <1>2, <2>1 DEF StreamOK
<1>3. CASE ~demuxFinish
  <2>1. Rest(e) /\ Chain(e) /\ nread[e] \in Nat
    BY <1>0, <1>3, MovieTyped DEF StreamOK
  <2>2. PICK m \in Nat, o \in Nat, t \in Nat, d \in Nat : Cuts(e, m, o, t, d)
    BY <2>1 DEF Chain
  <2>3. Segment(pq[e], d, Handed(e), {}) /\ pq[e] \in Seq(Content)
    BY <1>0, <1>1, <2>2 DEF Cuts
  <2>4. ~InHand(e)' /\ Handed(e)' = nread[e]
    BY <1>0 DEF InHand, Handed
  <2>5. InHand(e) => pkt.n = nread[e] /\ Handed(e) = nread[e] - 1
    BY <2>1 DEF Rest, Handed
  <2>6. Handed(e) \in Nat
    <3>1. CASE InHand(e)
      BY <1>1, <2>1, <2>5, <3>1 DEF InHand
    <3>2. CASE ~InHand(e)
      BY <2>1, <3>2 DEF Handed
    <3>3. QED
      BY <3>1, <3>2
  <2>7. cr[e] = "None"
    BY <1>1, <2>1 DEF Rest
  <2> DEFINE R == IF ending' THEN {Blank, Null} ELSE {}
  <2>8. /\ With(e) \in Seq(Content)
        /\ Segment(With(e), d, nread[e], R)
        /\ ~ending' => pkt.n # Blank
    <3>1. CASE InHand(e)
      <4>1. With(e) = Append(pq[e], pkt.n) /\ pkt.n = Handed(e) + 1 /\ nread[e] = Handed(e) + 1
        BY <2>1, <2>5, <3>1 DEF With, InHand
      <4>2. Segment(Append(pq[e], pkt.n), d, Handed(e) + 1, {})
        BY <1>1, <2>3, <2>6, <4>1, SegmentAppend
      <4>3. pkt.n # Blank /\ Append(pq[e], pkt.n) \in Seq(Content)
        BY <1>1, <2>3, <3>1 DEF InHand, Blank
      <4>4. QED
        BY <4>1, <4>2, <4>3, SegmentWiden
    <3>2. CASE ~InHand(e)
      <4>1. Handed(e) = nread[e]
        BY <3>2 DEF Handed
      <4>2. Segment(pq[e], d, nread[e], R)
        BY <2>3, <4>1, SegmentWiden
      <4>3. ending' <=> pkt.n = Blank
        BY <1>1 DEF PushPacket, PutEnd, PutPacket
      <4>4. CASE pkt.stream = e
        <5>1. pkt.n = Blank
          BY <1>0, <1>1, <3>2, <4>4 DEF InHand, Blank
        <5>2. With(e) = Append(pq[e], pkt.n) /\ pkt.n \in R
          BY <4>3, <4>4, <5>1 DEF With
        <5>3. Segment(Append(pq[e], pkt.n), d, nread[e], R) /\ Append(pq[e], pkt.n) \in Seq(Content)
          BY <1>1, <2>1, <2>3, <4>2, <5>2, SegmentAppend
        <5>4. QED
          BY <4>3, <5>2, <5>3
      <4>5. CASE pkt.stream # e
        BY <2>3, <4>2, <4>3, <4>5 DEF With
      <4>6. QED
        BY <4>4, <4>5
    <3>3. QED
      BY <3>1, <3>2
  <2>9. Segment(pq'[e], d, nread[e], R)
    <3>1. CASE PutEnd
      <4>1. /\ pq'[e] = With(e) \/ pq'[e] = Append(With(e), Null)
            /\ Null \in R /\ Null \in Content
        BY <3>1 DEF PutEnd, Content
      <4>2. Segment(Append(With(e), Null), d, nread[e], R)
        BY <2>1, <2>8, <4>1, SegmentAppend
      <4>3. QED
        BY <2>8, <4>1, <4>2
    <3>2. CASE PutPacket
      <4>1. pq'[e] = With(e)
        BY <3>2 DEF PutPacket
      <4>2. QED
        BY <2>8, <4>1
    <3>3. QED
      BY <3>1, <3>2 DEF PushPacket
  <2>10. Chain(e)'
    BY <1>0, <2>2, <2>4, <2>9, NewCuts DEF Cuts
  <2>11. EndsInNull(results[e])' <=> EndsInNull(results[e])
    BY <1>0 DEF EndsInNull
  <2>12. Rest(e)'
    BY <1>0, <2>1, <2>4, <2>7, <2>11 DEF Rest
  <2>13. QED
    BY <1>0, <1>3, <2>10, <2>12 DEF StreamOK
<1>4. QED
  BY <1>2, <1>3

\* What a decoder finds when it is let through.
LEMMA StreamObtainPacket ==
  ASSUME MovieInv, ~LoopVideo, ~demuxFinish, NEW e \in Entry, ObtainPacket(e),
         UnchangedByDecoder
  PROVE  StreamOK(e)'
<1>0. /\ TypeOK /\ StreamOK(e) /\ Packets(e) /\ FrameEnds(e) /\ dpc[e] = "obtain"
      /\ UNCHANGED <<demuxFinish, results, last, vf, codec, ending, dmx, pkt, nread>>
  BY DEF MovieInv, FlowInv, PacketInv, LifeInv, ObtainPacket, UnchangedByDecoder, demuxVars
<1>1. Rest(e) /\ Chain(e)
  BY <1>0 DEF StreamOK
<1>2. /\ packet[e] = None /\ cr[e] = "None" /\ vf[e] = None /\ ~EndsInNull(results[e])
  BY <1>0, <1>1 DEF Rest, Packets, DataCovered, FrameEnds, Ending, Emitting
<1>3. pq[e] # <<>> /\ Head(pq[e]) # Null
  BY <1>0, FoundPacket DEF MovieInv, FlowInv
<1>4. /\ packet'[e] = Head(pq[e]) /\ pq'[e] = Tail(pq[e]) /\ dpc'[e] = "decode"
      /\ cr'[e] # "None" => Tail(pq[e]) = <<Null>>
  <2>1. /\ packet'[e] = Head(pq[e]) /\ pq'[e] = Tail(pq[e])
        /\ cr'[e] # "None" => Tail(pq[e]) = <<Null>>
    BY <1>0, <1>2, <1>3 DEF ObtainPacket, TypeOK, ThreadTypes, PacketTypes
  <2>2. dpc'[e] = "decode"
    BY <1>0, <1>3 DEF ObtainPacket, Goto, TypeOK, ThreadTypes
  <2>3. QED
    BY <2>1, <2>2
<1>5. PICK m \in Nat, o \in Nat, t \in Nat, d \in Nat : Cuts(e, m, o, t, d)
  BY <1>1 DEF Chain
<1> DEFINE R == IF ending THEN {Blank, Null} ELSE {}
<1>6. /\ d = t /\ Segment(pq[e], d, Handed(e), R) /\ pq[e] \in Seq(Content)
      /\ Handed(e) = Handed(e)' /\ (InHand(e) <=> InHand(e)')
  BY <1>0, <1>2, <1>5, MovieTyped DEF Cuts, Holding, None, Handed, InHand
<1>7. Handed(e) \in Nat
  <2>1. Handed(e) \in Int /\ d <= Handed(e)
    BY <1>0, <1>5, MovieTyped, CutsOrdered DEF Handed
  <2>2. QED
    BY <2>1
<1>8. Chain(e)'
  <2>1. CASE d < Handed(e)
    <3>1. Head(pq[e]) = d + 1 /\ Segment(Tail(pq[e]), d + 1, Handed(e), R)
      BY <1>3, <1>6, <1>7, <2>1, SegmentHead
    <3>2. Holding(packet'[e], t, d + 1) /\ d + 1 \in Nat
      BY <1>4, <1>6, <3>1 DEF Holding
    <3>3. QED
      BY <1>0, <1>4, <1>5, <1>6, <3>1, <3>2, NewCuts DEF Cuts
  <2>2. CASE d = Handed(e)
    <3>1. Head(pq[e]) \in R /\ Segment(Tail(pq[e]), d, Handed(e), R)
      BY <1>3, <1>6, <1>7, <2>2, SegmentHead
    <3>2. Holding(packet'[e], t, d)
      BY <1>3, <1>4, <1>6, <3>1 DEF Holding, Blank, Null
    <3>3. QED
      BY <1>0, <1>4, <1>5, <1>6, <3>1, <3>2, NewCuts DEF Cuts
  <2>3. QED
    BY <1>6, <1>7, <2>1, <2>2, SegmentHead, <1>3
<1>9. Tail(pq[e]) = <<Null>> => ending
  <2>1. SUFFICES ASSUME Unmarked(pq[e]), Tail(pq[e]) = <<Null>> PROVE FALSE
    BY <1>0 DEF Packets, QueueEnds
  <2>2. Len(pq[e]) = 2 /\ pq[e][2] = Null
    <3>1. /\ Len(pq[e]) \in Nat /\ Len(Tail(pq[e])) = Len(pq[e]) - 1
          /\ \A i \in 1..(Len(pq[e]) - 1) : Tail(pq[e])[i] = pq[e][i + 1]
      BY <1>3, <1>6, Lengths, Ends
    <3>2. \A s : s = <<Null>> => Len(s) = 1 /\ s[1] = Null
      OBVIOUS
    <3>3. Len(pq[e]) = 2
      <4>1. Len(Tail(pq[e])) = 1
        BY <2>1, <3>2
      <4>2. QED
        BY <3>1, <4>1
    <3>4. Tail(pq[e])[1] = pq[e][2]
      BY <3>1, <3>3
    <3>5. QED
      BY <2>1, <3>2, <3>3, <3>4
  <2>3. QED
    BY <2>1, <2>2 DEF Unmarked
<1>10. ~EndsInNull(results[e])'
  BY <1>0, <1>2 DEF EndsInNull
<1>11. Rest(e)'
  BY <1>0, <1>1, <1>2, <1>4, <1>6, <1>9, <1>10 DEF Rest, Emitting, None, Null, Blank
<1>12. QED
  BY <1>0, <1>8, <1>11 DEF StreamOK

\* Decoding moves the packet into the codec and its oldest frame out of it.
LEMMA StreamDecodePacket ==
  ASSUME MovieInv, ~LoopVideo, Rejected = {}, ~demuxFinish, NEW e \in Entry, DecodePacket(e),
         UnchangedByDecoder
  PROVE  StreamOK(e)'
<1>0. /\ TypeOK /\ StreamOK(e) /\ FrameEnds(e) /\ Flushing(e) /\ dpc[e] = "decode"
      /\ UNCHANGED <<demuxFinish, results, last, pq, ending, dmx, pkt, nread>>
  BY DEF MovieInv, FlowInv, PacketInv, LifeInv, DecodePacket, UnchangedByDecoder, demuxVars,
         packetVars
<1>1. Rest(e) /\ Chain(e)
  BY <1>0 DEF StreamOK
<1>2. /\ packet[e] # None /\ packet[e] \in Nat /\ vf[e] = None /\ ~EndsInNull(results[e])
  BY <1>0, <1>1, MovieTyped DEF Rest, FrameEnds, Flushing, Ending, Emitting, Number
<1>3. /\ Handed(e) = Handed(e)' /\ (InHand(e) <=> InHand(e)') /\ ~EndsInNull(results[e])'
  BY <1>0, <1>2 DEF Handed, InHand, EndsInNull
<1>4. /\ vf \in [Entry -> Content] /\ codec \in [Entry -> Seq(Number)]
      /\ packet \in [Entry -> Number] /\ dpc \in [Entry -> DecoderPC]
      /\ cr \in [Entry -> {"None", "Started", "Finished"}]
  BY <1>0 DEF TypeOK, ThreadTypes
<1>5. PICK m \in Nat, o \in Nat, t \in Nat, d \in Nat : Cuts(e, m, o, t, d)
  BY <1>1 DEF Chain
<1> DEFINE ready == IF packet[e] = Blank THEN codec[e] ELSE Append(codec[e], packet[e])
<1>6. o = m /\ Segment(codec[e], o, t, {}) /\ codec[e] \in Seq(Content)
  BY <1>0, <1>2, <1>5, MovieTyped DEF Cuts, Holding, None
<1>7. Segment(ready, o, d, {}) /\ ready \in Seq(Content)
  <2>1. CASE packet[e] = Blank
    BY <1>5, <1>6, <2>1 DEF Cuts, Holding, Blank
  <2>2. CASE packet[e] # Blank
    <3>1. packet[e] = t + 1 /\ d = t + 1 /\ packet[e] \in Content
      BY <1>2, <1>5, <2>2 DEF Cuts, Holding, Blank, Content, Number
    <3>2. Segment(Append(codec[e], packet[e]), o, t + 1, {})
      BY <1>6, <3>1, SegmentAppend
    <3>3. QED
      BY <1>6, <2>2, <3>1, <3>2
  <2>3. QED
    BY <2>1, <2>2
<1>8. ~Failure(e)
  BY DEF Failure
<1>9. ASSUME packet'[e] \in {None, Blank}, vf'[e] = vf[e], codec'[e] = ready
      PROVE  Chain(e)'
  <2>1. Holding(packet'[e], d, d) /\ Holding(vf'[e], m, o)
    BY <1>2, <1>5, <1>9 DEF Cuts, Holding, None, Blank
  <2>2. QED
    BY <1>0, <1>3, <1>5, <1>7, <1>9, <2>1, NewCuts DEF Cuts
<1>10. Nothing(e) => codec'[e] = ready /\ (packet[e] = Blank => codec'[e] = <<>>)
  BY <1>4 DEF Nothing
<1>11. CASE DecodeToFrame(e)
  <2>1. /\ ready # <<>> /\ vf'[e] = Head(ready) /\ codec'[e] = Tail(ready)
        /\ dpc'[e] = "slot" /\ packet'[e] \in {None, Blank}
        /\ cr'[e] # "None" => cr[e] # "None"
    <3>1. ready # <<>> /\ vf'[e] = Head(ready) /\ codec'[e] = Tail(ready)
      BY <1>4, <1>11 DEF DecodeToFrame, Frame
    <3>2. /\ dpc'[e] = "slot" /\ packet'[e] \in {None, Blank}
          /\ cr'[e] # "None" => cr[e] # "None"
      BY <1>4, <1>11 DEF DecodeToFrame, Goto
    <3>3. QED
      BY <3>1, <3>2
  <2>2. o < d /\ Head(ready) = o + 1 /\ Segment(Tail(ready), o + 1, d, {})
    <3> HIDE DEF ready
    <3>1. (o = d => Head(ready) \in {}) /\ o <= d
      BY <1>7, <2>1, SegmentHead
    <3>2. o < d
      BY <3>1
    <3>3. QED
      BY <1>7, <2>1, <3>2, SegmentHead
  <2>3. /\ o + 1 \in Nat /\ Holding(vf'[e], m, o + 1) /\ Holding(packet'[e], d, d)
        /\ vf'[e] # Null /\ vf'[e] # None /\ vf'[e] # Blank
    BY <1>6, <2>1, <2>2 DEF Holding, None, Blank, Null
  <2>4. Chain(e)'
    BY <1>0, <1>3, <1>5, <2>1, <2>2, <2>3, NewCuts DEF Cuts
  <2>5. Rest(e)'
    BY <1>0, <1>1, <1>3, <2>1, <2>3 DEF Rest, Emitting
  <2>6. QED
    BY <1>0, <2>4, <2>5 DEF StreamOK
<1>12. CASE Flushes(e)
  <2>1. Nothing(e) /\ cr[e] # "None"
    BY <1>8, <1>12 DEF Flushes
  <2>2. CASE cr[e] = "Finished" /\ packet[e] = Blank
    <3>1. /\ vf'[e] = Null /\ packet'[e] = None /\ dpc'[e] = "slot" /\ cr' = cr
      BY <1>4, <1>12, <2>2 DEF Flushes, NoMoreFrames, Goto
    <3>2. codec'[e] = ready /\ codec'[e] = <<>>
      BY <1>10, <2>1, <2>2
    <3>3. Holding(packet'[e], d, d) /\ Holding(vf'[e], m, o)
      BY <1>6, <3>1 DEF Holding, None, Null
    <3>4. Chain(e)'
      BY <1>0, <1>3, <1>5, <1>7, <3>2, <3>3, NewCuts DEF Cuts
    <3>5. Rest(e)'
      <4>1. ending /\ pq[e] = <<Null>> /\ (InHand(e) => pkt.n = nread[e])
        BY <1>1, <2>1 DEF Rest
      <4>2. vf'[e] # Blank
        BY <3>1 DEF Blank, Null
      <4>3. /\ codec'[e] = <<>> /\ packet'[e] = None /\ cr'[e] # "None"
            /\ ending' /\ pq'[e] = <<Null>> /\ (InHand(e)' => pkt'.n = nread'[e])
        BY <1>0, <1>3, <2>1, <3>1, <3>2, <4>1
      <4>4. dpc'[e] \in Emitting /\ vf'[e] # None
        BY <3>1 DEF Emitting, None, Null
      <4>5. QED
        BY <1>3, <4>2, <4>3, <4>4 DEF Rest
    <3>6. QED
      BY <1>0, <3>4, <3>5 DEF StreamOK
  <2>3. CASE ~(cr[e] = "Finished" /\ packet[e] = Blank)
    <3>1. /\ vf' = vf /\ packet'[e] = Blank /\ dpc'[e] = "wait"
      BY <1>4, <1>12, <2>3 DEF Flushes, NoMoreFrames, Goto
    <3>2. Chain(e)'
      BY <1>9, <1>10, <2>1, <3>1
    <3>3. Rest(e)'
      BY <1>0, <1>1, <1>2, <1>3, <2>1, <3>1 DEF Rest, Emitting, None, Null, Blank
    <3>4. QED
      BY <1>0, <3>2, <3>3 DEF StreamOK
  <2>4. QED
    BY <2>2, <2>3
<1>13. CASE Skips(e)
  <2>1. /\ Nothing(e) /\ cr[e] = "None" /\ UNCHANGED <<cr, vf>>
        /\ packet'[e] = None /\ dpc'[e] = "wait"
    BY <1>4, <1>13 DEF Skips, Goto
  <2>2. Chain(e)'
    BY <1>9, <1>10, <2>1
  <2>3. Rest(e)'
    BY <1>0, <1>1, <1>2, <1>3, <2>1 DEF Rest, Emitting, None, Null, Blank
  <2>4. QED
    BY <1>0, <2>2, <2>3 DEF StreamOK
<1>14. QED
  BY <1>8, <1>11, <1>12, <1>13 DEF DecodePacket, TriesAgain

LEMMA StreamPushFrame ==
  ASSUME MovieInv, ~LoopVideo, ~demuxFinish, NEW e \in Entry, PushFrame(e), UnchangedByDecoder
  PROVE  StreamOK(e)'
<1>0. /\ TypeOK /\ StreamOK(e) /\ FrameEnds(e) /\ dpc[e] = "push"
      /\ UNCHANGED <<demuxFinish, last, pq, packet, cr, codec, ending, dmx, pkt, nread>>
      /\ results'[e] = Append(results[e], vf[e]) /\ vf'[e] = None /\ dpc'[e] = "wait"
  BY DEF MovieInv, FlowInv, PacketInv, LifeInv, PushFrame, UnchangedByDecoder, demuxVars,
         packetVars, TypeOK, ThreadTypes, FrameTypes, Goto
<1>1. Rest(e) /\ Chain(e) /\ last[e] \in Nat
  BY <1>0 DEF StreamOK
<1>2. /\ vf[e] # None /\ ~EndsInNull(results[e]) /\ Marked(results[e])
      /\ results[e] \in Seq(Content) /\ vf[e] \in Content
  BY <1>0, <1>1, MovieTyped DEF Rest, FrameEnds, Ending, Emitting
<1>3. /\ Handed(e) = Handed(e)' /\ (InHand(e) <=> InHand(e)')
  BY <1>0 DEF Handed, InHand
<1>4. Unmarked(results[e])
  <2>1. ASSUME NEW i \in 1..Len(results[e]), results[e][i] = Null PROVE FALSE
    BY <1>2, <2>1 DEF Marked, EndsInNull
  <2>2. QED
    BY <2>1 DEF Unmarked
<1>5. EndsInNull(results[e])' <=> vf[e] = Null
  <2>1. EndsInNull(Append(results[e], vf[e])) <=> vf[e] = Null
    BY <1>2, <1>4, AppendToQueue
  <2>2. QED
    BY <1>0, <2>1 DEF EndsInNull
<1>6. PICK m \in Nat, o \in Nat, t \in Nat, d \in Nat : Cuts(e, m, o, t, d)
  BY <1>1 DEF Chain
<1>7. Segment(results'[e], last'[e], o, {Null})
  <2>1. CASE vf[e] = Null
    <3>1. o = m
      BY <1>6, <2>1 DEF Cuts, Holding, Null
    <3>2. Segment(Append(results[e], vf[e]), last[e], m, {Null})
      BY <1>1, <1>2, <1>6, <2>1, SegmentAppend DEF Cuts
    <3>3. QED
      BY <1>0, <3>1, <3>2
  <2>2. CASE vf[e] # Null
    <3>1. Segment(results[e], last[e], m, {})
      BY <1>4, <1>6, SegmentUnmarked DEF Cuts
    <3>2. CASE vf[e] > 0
      <4>1. o = m + 1 /\ vf[e] = m + 1
        BY <1>6, <3>2 DEF Cuts, Holding
      <4>2. Segment(Append(results[e], vf[e]), last[e], m + 1, {})
        BY <1>1, <1>2, <3>1, <4>1, SegmentAppend
      <4>3. QED
        BY <1>0, <4>1, <4>2, SegmentWiden
    <3>3. QED
      <4>1. vf[e] # Blank
        BY <1>1 DEF Rest
      <4>2. QED
        BY <1>2, <2>2, <3>2, <4>1 DEF Content, Number, None, Null, Blank
  <2>3. QED
    BY <2>1, <2>2
<1>8. Chain(e)'
  <2>1. Holding(vf'[e], o, o)
    BY <1>0 DEF Holding, None
  <2>2. QED
    BY <1>0, <1>3, <1>6, <1>7, <2>1, NewCuts DEF Cuts
<1>9. Rest(e)'
  BY <1>0, <1>1, <1>3, <1>5 DEF Rest, Emitting, None, Null, Blank
<1>10. QED
  BY <1>0, <1>1, <1>8, <1>9 DEF StreamOK

LEMMA StreamDecoder ==
  ASSUME MovieInv, ~LoopVideo, Rejected = {}, NEW c \in Entry, Decoder(c), NEW e \in Entry
  PROVE  StreamOK(e)'
<1>0. /\ TypeOK /\ StreamOK(e) /\ UnchangedByDecoder
      /\ UNCHANGED <<demuxFinish, last, ending, dmx, pkt, nread>>
  BY DecoderFrame DEF MovieInv, FlowInv, PacketInv, LifeInv, UnchangedByDecoder, demuxVars
<1>1. ~demuxFinish
  <2>1. dpc[c] \notin {"off", "done"}
    BY DEF Decoder, DecoderStarts, DataTimedOut, CheckReturn, SlotTimedOut, WaitForData,
           ObtainPacket, DecodePacket, WaitForSlot, PushFrame, DecoderEnds
  <2>2. QED
    BY <2>1, FinishedIsIdle DEF MovieInv, FlowInv, PacketInv
<1>2. Rest(e) /\ Handed(e)' = Handed(e) /\ (InHand(e)' => pkt'.n = nread'[e])
  BY <1>0, <1>1 DEF StreamOK, Rest, Handed, InHand
<1>3. CASE c # e
  <2>1. /\ dpc'[e] = dpc[e] /\ packet'[e] = packet[e] /\ cr'[e] = cr[e] /\ pq'[e] = pq[e]
        /\ vf'[e] = vf[e] /\ results'[e] = results[e]
    BY <1>0, <1>3, DecoderFrame
  <2>2. codec'[e] = codec[e]
    BY <1>0, <1>3 DEF TypeOK, ThreadTypes, Decoder, DecoderStarts, DataTimedOut, CheckReturn,
       SlotTimedOut, WaitForData, ObtainPacket, DecodePacket, DecodeToFrame, Frame, Flushes,
       Skips, TriesAgain, Nothing, Failure, WaitForSlot, PushFrame, DecoderEnds
  <2>3. QED
    BY <1>0, <1>1, <1>2, <2>1, <2>2, StreamUnmoved
<1>4. CASE ObtainPacket(e)
  BY <1>0, <1>1, <1>4, StreamObtainPacket
<1>5. CASE DecodePacket(e)
  BY <1>0, <1>1, <1>5, StreamDecodePacket
<1>6. CASE PushFrame(e)
  BY <1>0, <1>1, <1>6, StreamPushFrame
<1>7. CASE WaitForData(e) \/ CheckReturn(e) \/ DecoderStarts(e) \/ DataTimedOut(e)
           \/ WaitForSlot(e) \/ SlotTimedOut(e) \/ DecoderEnds(e)
  <2>1. UNCHANGED <<results, vf, codec, packet, cr, pq>>
    BY <1>7 DEF WaitForData, CheckReturn, DecoderStarts, DataTimedOut, WaitForSlot,
                SlotTimedOut, DecoderEnds, packetVars
  <2>2. \/ dpc[e] \in {"queued", "wait", "late", "check"} /\ dpc'[e] \notin Emitting
        \/ dpc[e] \in Emitting /\ dpc'[e] \in Emitting \cup {"out"}
        \/ dpc[e] = "out" /\ dpc'[e] = "done"
    BY <1>0, <1>7 DEF WaitForData, CheckReturn, DecoderStarts, DataTimedOut, WaitForSlot,
                      SlotTimedOut, DecoderEnds, Emitting, Goto, TypeOK, ThreadTypes
  <2>3. \/ vf[e] = None /\ dpc'[e] \notin Emitting
        \/ vf[e] # None /\ dpc'[e] \in Emitting \cup {"out", "done"}
    BY <1>2, <2>2 DEF Rest, Emitting
  <2>4. QED
    BY <1>0, <1>1, <1>2, <2>1, <2>3, StreamUnmoved
<1>8. QED
  BY <1>3, <1>4, <1>5, <1>6, <1>7 DEF Decoder

\* What moves neither packets nor frames.
LEMMA StreamStill ==
  ASSUME MovieInv, ~LoopVideo, NEW e \in Entry,
         UNCHANGED <<demuxFinish, results, last, vf, codec, packet, pq, cr, ending, pkt, nread>>,
         dmx' = dmx \/ (dmx = "off" /\ dmx' = "queued"),
         dpc'[e] = dpc[e] \/ (dpc[e] = "off" /\ dpc'[e] \in {"off", "queued"})
  PROVE  StreamOK(e)'
<1>1. StreamOK(e)
  BY DEF MovieInv
<1>2. InHand(e)' <=> InHand(e)
  BY DEF InHand
<1>3. Handed(e)' = Handed(e)
  BY <1>2 DEF Handed
<1>4. CASE demuxFinish
  <2>1. Leftover(e)'
    BY <1>1, <1>4 DEF StreamOK, Leftover
  <2>2. QED
    BY <1>1, <1>4, <2>1 DEF StreamOK
<1>5. CASE ~demuxFinish
  <2>1. Rest(e)
    BY <1>1, <1>5 DEF StreamOK
  <2>2. InHand(e)' => pkt'.n = nread'[e]
    BY <1>2, <2>1 DEF Rest
  <2>3. \/ dpc'[e] = dpc[e]
        \/ vf[e] = None /\ dpc'[e] \notin Emitting
    BY <2>1 DEF Rest, Emitting
  <2>4. QED
    BY <1>1, <1>3, <1>5, <2>2, <2>3, StreamUnmoved
<1>6. QED
  BY <1>4, <1>5

\* resetFrameQueues(0, 1) leaves one frame at most, which comes after the last one taken.
LEMMA StreamReap ==
  ASSUME MovieInv, ~LoopVideo, NEW e \in Entry, Reap
  PROVE  StreamOK(e)'
<1>0. /\ TypeOK /\ StreamOK(e) /\ UNCHANGED <<last, nread>> /\ demuxFinish'
      /\ results'[e] \in {<<>>, LastOf(results[e])} /\ last[e] \in Nat /\ Marked(results[e])
  BY DEF MovieInv, FlowInv, PacketInv, LifeInv, Reap, demuxVars, StreamOK, FrameEnds, Entry
<1>1. TypeOK
  BY <1>0
<1> DEFINE s == results[e]
<1>2. /\ s \in Seq(Content) /\ Len(s) \in Nat /\ nread[e] \in Nat /\ last[e] \in Content
      /\ (s = <<>> <=> Len(s) = 0)
  BY <1>0, MovieTyped, Lengths
<1>3. CASE results'[e] = <<>>
  <2>1. Len(<<>>) = 0 /\ 1..0 = {}
    BY EmptyIsASeq
  <2>2. Leftover(e)'
    BY <1>3, <2>1 DEF Leftover
  <2>3. QED
    BY <1>0, <2>2 DEF StreamOK
<1>4. CASE results'[e] # <<>>
  <2>1. s # <<>> /\ results'[e] = <<s[Len(s)]>>
    BY <1>0, <1>4 DEF LastOf
  <2>2. Len(s) > 0 /\ Len(s) \in 1..Len(s)
    BY <1>2, <2>1
  <2>3. s[Len(s)] = Null \/ (last[e] < s[Len(s)] /\ s[Len(s)] <= nread[e])
    <3>1. CASE demuxFinish
      BY <1>0, <2>2, <3>1 DEF StreamOK, Leftover
    <3>2. CASE ~demuxFinish
      <4>1. PICK m \in Nat, o \in Nat, t \in Nat, d \in Nat : Cuts(e, m, o, t, d)
        BY <1>0, <3>2 DEF StreamOK, Chain
      <4>2. /\ m - last[e] <= Len(s)
            /\ IF Len(s) <= m - last[e] THEN s[Len(s)] = last[e] + Len(s) ELSE s[Len(s)] \in {Null}
        BY <2>2, <4>1 DEF Cuts, Segment
      <4>3. m <= nread[e]
        <5>1. Handed(e) \in Int
          BY <1>2 DEF Handed
        <5>2. m <= o /\ o <= t /\ t <= d /\ d <= Handed(e) /\ Handed(e) <= nread[e]
          BY <1>1, <4>1, CutsOrdered
        <5>3. QED
          BY <1>2, <5>1, <5>2
      <4>4. QED
        BY <1>0, <1>2, <2>2, <4>2, <4>3
    <3>3. QED
      BY <3>1, <3>2
  <2>4. \A x : Len(<<x>>) = 1 /\ <<x>>[1] = x /\ 1..1 = {1}
    OBVIOUS
  <2>5. Len(results'[e]) = 1 /\ results'[e][1] = s[Len(s)]
    BY <2>1, <2>4
  <2>6. Leftover(e)'
    BY <1>0, <2>3, <2>4, <2>5 DEF Leftover
  <2>7. QED
    BY <1>0, <2>6 DEF StreamOK
<1>5. QED
  BY <1>3, <1>4

LEMMA MovieInit == Init => MovieInv
<1> SUFFICES ASSUME Init PROVE MovieInv
  OBVIOUS
<1>1. ~demuxFinish /\ bridge = "none" /\ dmx = "off" /\ FlowInv
  BY FlowInit DEF Init
<1>2. ASSUME NEW e \in Entry PROVE StreamOK(e)
  <2>1. /\ results[e] = <<>> /\ last[e] = 0 /\ vf[e] = None /\ codec[e] = <<>>
        /\ packet[e] = None /\ pq[e] = <<>> /\ nread[e] = 0 /\ cr[e] = "None"
        /\ dpc[e] = "off"
    BY DEF Init, Each
  <2>2. ~InHand(e) /\ Handed(e) = 0
    BY <1>1, <2>1 DEF InHand, Handed
  <2>3. Cuts(e, 0, 0, 0, 0)
    BY <2>1, <2>2, SegmentEmpty DEF Cuts, Holding, None
  <2>4. Chain(e)
    BY <2>3 DEF Chain
  <2>5. Rest(e)
    BY <2>1, <2>2, EmptyQueue DEF Rest, None, Null, Blank, Emitting
  <2>6. QED
    BY <1>1, <2>1, <2>4, <2>5 DEF StreamOK
<1>3. QED
  BY <1>1, <1>2 DEF MovieInv

LEMMA MovieInitNext == Init' => MovieInv'
BY MovieInit, PTL

\* finish precedes the end of the demultiplexer, and the sound plays while the script
\* thread plays.
LEMMA MovieControl ==
  ASSUME MovieInv, [Next]_vars
  PROVE  /\ demuxFinish' => mpc' \in Stops /\ ~alive'
         /\ bridge' \in {"playing", "heard"} => mpc' = "play"
<1>0. /\ demuxFinish => mpc \in Stops /\ ~alive
      /\ bridge \in {"playing", "heard"} => mpc = "play"
      /\ TypeOK
  BY DEF MovieInv, FlowInv, PacketInv, LifeInv
<1>1. CASE Opening
  BY <1>0, <1>1 DEF Opening, LoadVideo, LoadPresentation, TakeTimecodes, DestroyLock, ClearLock,
     PrepareBridge, StartProcessing, lifeVars, Stops
<1>2. CASE Steering \/ Reap \/ ResetDemuxer
  BY <1>0, <1>2 DEF Steering, StartPlayback, SeeEndOfFile, FirstBufferPlayed, StopPlayback,
     AskDecoders, LookAgain, DemuxNotDone, Reap, ResetDemuxer, lifeVars, Stops
<1>3. CASE UNCHANGED <<mpc, bridge, alive, demuxFinish>>
  BY <1>0, <1>3
<1>4. CASE Demux \/ UNCHANGED vars \/ \E e \in Entry : TakeFrame(e) \/ ReturnSlot(e) \/ Decoder(e)
  BY <1>0, <1>3, <1>4, DemuxFrame, DecoderFrame
     DEF UnchangedByDemux, UnchangedByDecoder, TakeFrame, ReturnSlot, vars, mainVars, lifeVars
<1>5. QED
  BY <1>1, <1>2, <1>4, NextCases

LEMMA MovieStep ==
  ASSUME \A f \in Files : f.loop \/ f.rejected = {}
  PROVE  MovieInv /\ [Next]_vars => MovieInv'
<1> SUFFICES ASSUME MovieInv, [Next]_vars PROVE MovieInv'
  OBVIOUS
<1>0. FlowInv /\ FlowInv' /\ TypeOK /\ LifeInv
  BY FlowStep DEF MovieInv, FlowInv, PacketInv, LifeInv
<1>1. CASE ResetDemuxer
  <2>1. Init'
    BY <1>1 DEF ResetDemuxer, Init
  <2>2. QED
    BY <2>1, MovieInitNext
<1>2. CASE ~ResetDemuxer
  <2>1. file' = file
    <3>1. CASE Opening \/ Steering \/ Reap
      BY <3>1 DEF Opening, LoadVideo, LoadPresentation, TakeTimecodes, DestroyLock, ClearLock,
         PrepareBridge, StartProcessing, Steering, StartPlayback, SeeEndOfFile,
         FirstBufferPlayed, StopPlayback, AskDecoders, LookAgain, DemuxNotDone, Reap
    <3>2. CASE Demux \/ UNCHANGED vars \/ \E e \in Entry : TakeFrame(e) \/ ReturnSlot(e) \/ Decoder(e)
      BY <1>0, <3>2, DemuxFrame, DecoderFrame
         DEF UnchangedByDemux, UnchangedByDecoder, TakeFrame, ReturnSlot, vars, mainVars
    <3>3. QED
      BY <1>2, <3>1, <3>2, NextCases
  <2>2. SUFFICES ASSUME ~LoopVideo, NEW e \in Entry PROVE StreamOK(e)'
    BY <1>0, <2>1, MovieControl DEF MovieInv, LoopVideo
  <2>3. Rejected = {}
    BY <1>0, <2>2 DEF TypeOK, MainTypes, LoopVideo, Rejected
  <2>4. CASE Opening
    <3>1. CASE StartProcessing
      <4>1. dpc[e] = "off"
        BY <1>0, <3>1 DEF StartProcessing, LifeInv, WorkersCounted, BeforeStart
      <4>2. QED
        BY <2>2, <3>1, <4>1, StreamStill
           DEF StartProcessing, lifeVars, demuxVars, packetVars, frameVars
    <3>2. CASE LoadPresentation
      <4>1. dmx = "off"
        BY <1>0, <3>2 DEF LoadPresentation, LifeInv, TimecodesCollected
      <4>2. QED
        BY <2>2, <3>2, <4>1, StreamStill DEF LoadPresentation, threadVars, frameVars
    <3>3. CASE Opening /\ ~StartProcessing /\ ~LoadPresentation
      BY <2>2, <3>3, StreamStill
         DEF Opening, LoadVideo, TakeTimecodes, DestroyLock, ClearLock, PrepareBridge,
             lifeVars, demuxVars, packetVars, threadVars, frameVars
    <3>4. QED
      BY <2>4, <3>1, <3>2, <3>3
  <2>5. CASE Steering
    BY <2>2, <2>5, StreamStill
       DEF Steering, StartPlayback, SeeEndOfFile, FirstBufferPlayed, StopPlayback, AskDecoders,
           LookAgain, DemuxNotDone, lifeVars, demuxVars, packetVars, threadVars, frameVars
  <2>6. CASE Reap
    BY <2>2, <2>6, StreamReap
  <2>7. CASE Demux
    BY <2>2, <2>7, StreamDemuxWalks, StreamPushPacket
  <2>8. ASSUME NEW c \in Entry, TakeFrame(c) PROVE StreamOK(e)'
    BY <2>2, <2>8, StreamTakeFrame
  <2>9. ASSUME NEW c \in Entry, ReturnSlot(c) PROVE StreamOK(e)'
    BY <2>2, <2>9, StreamStill
       DEF ReturnSlot, lifeVars, demuxVars, packetVars, threadVars
  <2>10. ASSUME NEW c \in Entry, Decoder(c) PROVE StreamOK(e)'
    BY <2>2, <2>3, <2>10, StreamDecoder
  <2>11. CASE UNCHANGED vars
    BY <2>2, <2>11, StreamStill
       DEF vars, lifeVars, demuxVars, packetVars, threadVars, frameVars
  <2>12. QED
    BY <1>2, <2>4, <2>5, <2>6, <2>7, <2>8, <2>9, <2>10, <2>11, NextCases
<1>3. QED
  BY <1>1, <1>2

-----------------------------------------------------------------------------
(* The pipeline is a frame stream *)

Mode == IF mpc = "offline" THEN "closed"
        ELSE IF eof THEN "ended"
        ELSE IF mpc \in {"finish", "delay", "reap", "demux", "stopping"} THEN "stopping"
        ELSE "open"
Sent == IF LoopVideo THEN Each(0) ELSE nread
Seen == IF LoopVideo THEN Each(0) ELSE last

LEMMA StreamInit == Init => F!Init
<1> SUFFICES ASSUME Init PROVE F!Init
  OBVIOUS
<1>1. Mode = "closed" /\ Sent = Each(0) /\ Seen = Each(0)
  BY DEF Init, Mode, Sent, Seen
<1>2. QED
  BY <1>1 DEF F!Init, Mode, Sent, Seen, Each

\* The same file is played, by the same packets and frames.
LEMMA StreamStays ==
  ASSUME UNCHANGED <<file, nread, last>>
  PROVE  Sent' = Sent /\ Seen' = Seen
BY DEF Sent, Seen, LoopVideo

LEMMA StreamOpen == ASSUME LoadVideo, mpc' # mpc PROVE F!Open
<1>1. /\ mpc = "offline" /\ mpc' = "loaded" /\ ~eof'
      /\ UNCHANGED <<file, nread, last>>
  BY DEF LoadVideo, demuxVars
<1>2. Mode = "closed" /\ Mode' = "open" /\ Sent' = Sent /\ Seen' = Seen
  BY <1>1, StreamStays DEF Mode
<1>3. QED
  BY <1>2 DEF F!Open, Mode, Sent, Seen

LEMMA StreamSend ==
  ASSUME MovieInv, ~LoopVideo, ReadFrame, ~UNCHANGED nread
  PROVE  \E e \in Entry : F!Send(e)
<1>1. PICK e \in Entry : nread' = [nread EXCEPT ![e] = @ + 1]
  BY DEF ReadFrame, Streams, Entry
<1>2. mpc # "offline" /\ UNCHANGED <<file, mpc, eof, last>>
  BY DEF ReadFrame, UnchangedByDemux, mainVars, frameVars, MovieInv, FlowInv, PacketInv, LifeInv,
         TimecodesCollected
<1>3. /\ Mode # "closed" /\ Mode' = Mode
      /\ Sent' = [Sent EXCEPT ![e] = @ + 1] /\ Seen' = Seen
  BY <1>1, <1>2 DEF Mode, Sent, Seen, LoopVideo
<1>4. F!Send(e)
  BY <1>3 DEF F!Send, Mode, Sent, Seen
<1>5. QED
  BY <1>4

\* A frame is taken in order while the movie is open, and after the end of file by the mixer.
LEMMA StreamTake ==
  ASSUME MovieInv, ~LoopVideo, NEW e \in Entry, TakeFrame(e), mpc = "play"
  PROVE  F!Take(e)
<1>1. /\ TypeOK /\ StreamOK(e) /\ Marked(results[e]) /\ ~demuxFinish
      /\ results[e] # <<>> /\ ~AtEnd(e)
      /\ UNCHANGED <<file, mpc, eof, nread>>
      /\ last' = [last EXCEPT ![e] = Head(results[e])]
  BY DEF MovieInv, FlowInv, PacketInv, LifeInv, FrameEnds, TakeFrame, mainVars, demuxVars, Stops
<1>2. Head(results[e]) = last[e] + 1 /\ last[e] < Head(results[e])
      /\ Head(results[e]) <= nread[e] /\ last[e] \in Nat /\ nread[e] \in Nat
  BY <1>1, NextFrame, MovieTyped DEF StreamOK
<1>3. last[e] < nread[e] /\ last' = [last EXCEPT ![e] = @ + 1]
  <2>1. last[e] < nread[e]
    BY <1>2
  <2>2. last' = [last EXCEPT ![e] = last[e] + 1]
    BY <1>1, <1>2, Zenon
  <2>3. QED
    BY <2>1, <2>2
<1>4. /\ Mode \in {"open", "ended"} /\ Mode' = Mode
      /\ Sent' = Sent /\ Seen' = [Seen EXCEPT ![e] = @ + 1] /\ Seen[e] < Sent[e]
  BY <1>1, <1>3 DEF Mode, Sent, Seen, LoopVideo
<1>5. QED
  BY <1>4 DEF F!Take, Mode, Sent, Seen

\* ... and with some left out while it is being stopped.
LEMMA StreamSkip ==
  ASSUME MovieInv, ~LoopVideo, NEW e \in Entry, TakeFrame(e), mpc = "stopping", ~eof
  PROVE  \E n \in 1..Sent[e] : F!Skip(e, n)
<1>1. /\ TypeOK /\ StreamOK(e) /\ Marked(results[e])
      /\ results[e] # <<>> /\ ~AtEnd(e)
      /\ UNCHANGED <<file, mpc, eof, nread>>
      /\ last' = [last EXCEPT ![e] = Head(results[e])]
  BY DEF MovieInv, FlowInv, PacketInv, LifeInv, FrameEnds, TakeFrame, mainVars, demuxVars
<1> DEFINE n == Head(results[e])
<1>2. last[e] < n /\ n <= nread[e] /\ last[e] \in Nat /\ nread[e] \in Nat /\ n \in Nat
  BY <1>1, NextFrame, MovieTyped DEF StreamOK
<1>3. /\ Mode = "stopping" /\ Mode' = Mode /\ Sent = nread /\ Seen = last
      /\ Sent' = Sent /\ Seen' = [Seen EXCEPT ![e] = n]
  BY <1>1 DEF Mode, Sent, Seen, LoopVideo
<1> HIDE DEF n
<1>4. n \in 1..Sent[e] /\ n > Seen[e] /\ n <= Sent[e]
  BY <1>2, <1>3
<1>5. F!Skip(e, n)
  BY <1>3, <1>4 DEF F!Skip, Mode, Sent, Seen
<1>6. QED
  BY <1>4, <1>5

\* With nothing but the end mark in the results every packet read was shown.
LEMMA EverythingShown ==
  ASSUME MovieInv, ~LoopVideo, ~demuxFinish, NEW e \in Entry, AtEnd(e)
  PROVE  last[e] = nread[e]
<1>1. /\ TypeOK /\ Chain(e) /\ Rest(e) /\ DemuxHolds /\ last[e] \in Nat /\ results[e] = <<Null>>
  BY DEF MovieInv, FlowInv, PacketInv, LifeInv, StreamOK, AtEnd
<1>2. /\ EndsInNull(results[e])
      /\ \A s : s = <<Null>> => Len(s) = 1 /\ s[1] = Null /\ 1 \in 1..Len(s)
  BY <1>1 DEF EndsInNull
<1>3. /\ codec[e] = <<>> /\ packet[e] = None /\ vf[e] = None /\ ending /\ pq[e] = <<Null>>
  BY <1>1, <1>2 DEF Rest
<1>4. Handed(e) = nread[e]
  BY <1>1, <1>3 DEF DemuxHolds, DemuxEnding, Handed, InHand
<1>5. PICK m \in Nat, o \in Nat, t \in Nat, d \in Nat : Cuts(e, m, o, t, d)
  BY <1>1 DEF Chain
<1>6. ASSUME NEW a \in Nat, NEW b \in Nat, NEW R, Segment(<<Null>>, a, b, R) PROVE a = b
  <2>1. a <= b /\ b - a <= 1 /\ (1 <= b - a => Null = a + 1)
    BY <1>2, <1>6 DEF Segment
  <2>2. QED
    BY <2>1 DEF Null
<1>7. last[e] = m
  BY <1>1, <1>5, <1>6 DEF Cuts
<1>8. m = o /\ t = d
  BY <1>3, <1>5 DEF Cuts, Holding, None
<1>9. o = t
  <2>1. Segment(<<>>, o, t, {}) /\ Len(<<>>) = 0
    BY <1>3, <1>5, EmptyIsASeq DEF Cuts
  <2>2. QED
    BY <2>1 DEF Segment
<1>10. d = nread[e]
  <2>1. nread[e] \in Nat
    BY <1>1, MovieTyped
  <2>2. QED
    BY <1>3, <1>4, <1>5, <1>6, <2>1 DEF Cuts
<1>11. QED
  BY <1>7, <1>8, <1>9, <1>10

LEMMA StreamEnd ==
  ASSUME MovieInv, SeeEndOfFile
  PROVE  F!End
<1>1. /\ AtEnd("V") /\ eof' /\ ~eof /\ mpc \in {"play", "stopping"}
      /\ UNCHANGED <<file, mpc, nread, last>> /\ "V" \in Entry
  BY DEF SeeEndOfFile, MayUpdate, demuxVars, frameVars, Entry
<1>2. /\ Mode \in {"open", "stopping"} /\ (Mode = "open" => mpc = "play") /\ Mode' = "ended"
      /\ Sent' = Sent /\ Seen' = Seen
  BY <1>1, StreamStays DEF Mode
<1>3. mpc = "play" => Seen["V"] = Sent["V"]
  <2>1. CASE LoopVideo
    BY <2>1 DEF Seen, Sent
  <2>2. CASE ~LoopVideo /\ mpc = "play"
    <3>1. ~demuxFinish
      BY <2>2 DEF MovieInv, Stops
    <3>2. last["V"] = nread["V"]
      BY <1>1, <2>2, <3>1, EverythingShown
    <3>3. QED
      BY <2>2, <3>2 DEF Seen, Sent
  <2>3. QED
    BY <2>1, <2>2
<1>4. QED
  BY <1>2, <1>3 DEF F!End, Mode, Sent, Seen

LEMMA StreamStop ==
  ASSUME StopPlayback
  PROVE  F!Stop \/ UNCHANGED <<Mode, Sent, Seen>>
<1>1. /\ mpc \in {"play", "stopping"} /\ mpc' = "finish" /\ UNCHANGED <<file, eof, nread, last>>
  BY DEF StopPlayback, demuxVars, frameVars
<1>2. /\ Mode' = Mode \/ (Mode = "open" /\ Mode' = "stopping")
      /\ Sent' = Sent /\ Seen' = Seen
  BY <1>1, StreamStays DEF Mode
<1>3. QED
  BY <1>2 DEF F!Stop, Mode, Sent, Seen

LEMMA StreamClose == ASSUME ResetDemuxer PROVE F!Close
<1>1. /\ mpc = "demux" /\ mpc' = "offline" /\ nread' = Each(0) /\ last' = Each(0)
  BY DEF ResetDemuxer
<1>2. /\ Mode \in {"stopping", "ended"} /\ Mode' = "closed"
      /\ Sent' = Each(0) /\ Seen' = Each(0)
  BY <1>1 DEF Mode, Sent, Seen, Each
<1>3. QED
  BY <1>2 DEF F!Close, Mode, Sent, Seen, Each

\* The other steps move the script thread between places of the same mode.
LEMMA StreamStutters ==
  ASSUME UNCHANGED <<file, eof, nread, last>>,
         \/ mpc' = mpc
         \/ mpc' \in Stops /\ mpc \in Stops
         \/ mpc \notin Stops \cup {"offline"} /\ mpc' \notin Stops \cup {"offline"}
  PROVE  UNCHANGED <<Mode, Sent, Seen>>
BY StreamStays DEF Mode, Stops

LEMMA StreamStep ==
  ASSUME MovieInv, [Next]_vars
  PROVE  F!Next \/ UNCHANGED <<Mode, Sent, Seen>>
<1>1. CASE LoadVideo
  <2>1. CASE mpc' # mpc
    BY <1>1, <2>1, StreamOpen DEF F!Next
  <2>2. CASE mpc' = mpc
    BY <1>1, <2>2, StreamStays DEF LoadVideo, demuxVars, Mode
  <2>3. QED
    BY <2>1, <2>2
<1>2. CASE (Opening /\ ~LoadVideo) \/ (Steering /\ ~SeeEndOfFile /\ ~StopPlayback) \/ Reap
  <2>1. CASE Opening /\ ~LoadVideo
    BY <2>1, StreamStutters
       DEF Opening, LoadPresentation, TakeTimecodes, DestroyLock, ClearLock, PrepareBridge,
           StartProcessing, demuxVars, frameVars, Stops
  <2>2. CASE (Steering /\ ~SeeEndOfFile /\ ~StopPlayback) \/ Reap
    BY <2>2, StreamStutters
       DEF Steering, StartPlayback, FirstBufferPlayed, AskDecoders, LookAgain, DemuxNotDone,
           Reap, demuxVars, frameVars, Stops
  <2>3. QED
    BY <1>2, <2>1, <2>2
<1>3. CASE SeeEndOfFile
  BY <1>3, StreamEnd DEF F!Next
<1>4. CASE StopPlayback
  BY <1>4, StreamStop DEF F!Next
<1>5. CASE ResetDemuxer
  BY <1>5, StreamClose DEF F!Next
<1>6. CASE Demux
  <2>1. UNCHANGED <<file, mpc, eof, last>>
    BY <1>6, DemuxFrame DEF UnchangedByDemux, mainVars, frameVars
  <2>2. CASE UNCHANGED nread
    BY <2>1, <2>2, StreamStutters
  <2>3. CASE ~UNCHANGED nread
    <3>1. ReadFrame
      BY <1>6, <2>3 DEF Demux, DemuxStarts, DemuxBreaks, LastPost, DemuxCompletes,
         GetVideoTimecodes, ReserveSpace, SpaceTimedOut, MayPush, PushPacket, PostData
    <3>2. CASE LoopVideo
      BY <2>1, <3>2 DEF Mode, Sent, Seen, LoopVideo
    <3>3. CASE ~LoopVideo
      BY <2>3, <3>1, <3>3, StreamSend DEF F!Next
    <3>4. QED
      BY <3>2, <3>3
  <2>4. QED
    BY <2>2, <2>3
<1>7. ASSUME NEW e \in Entry, TakeFrame(e), mpc = "play" \/ (mpc = "stopping" /\ ~eof)
      PROVE  F!Next \/ UNCHANGED <<Mode, Sent, Seen>>
  <2>1. CASE LoopVideo
    <3>1. UNCHANGED <<file, mpc, eof>>
      BY <1>7 DEF TakeFrame, mainVars
    <3>2. QED
      BY <2>1, <3>1 DEF Mode, Sent, Seen, LoopVideo
  <2>2. CASE ~LoopVideo /\ mpc = "play"
    BY <1>7, <2>2, StreamTake DEF F!Next
  <2>3. CASE ~LoopVideo /\ mpc = "stopping" /\ ~eof
    BY <1>7, <2>3, StreamSkip DEF F!Next, Sent
  <2>4. QED
    BY <1>7, <2>1, <2>2, <2>3
<1>8. ASSUME AdvanceVideo \/ AdvanceAudio
      PROVE  \E e \in Entry : TakeFrame(e) /\ (mpc = "play" \/ (mpc = "stopping" /\ ~eof))
  BY <1>8 DEF AdvanceVideo, AdvanceAudio, MayUpdate, MovieInv, Entry
<1>9. ASSUME NEW e \in Entry, ReturnSlot(e) \/ Decoder(e)
      PROVE  UNCHANGED <<Mode, Sent, Seen>>
  <2>1. TypeOK
    BY DEF MovieInv, FlowInv, PacketInv, LifeInv
  <2>2. UNCHANGED <<file, mpc, eof, nread, last>>
    BY <1>9, <2>1, DecoderFrame DEF ReturnSlot, UnchangedByDecoder, mainVars, demuxVars
  <2>3. QED
    BY <2>2, StreamStutters
<1>10. CASE UNCHANGED vars
  BY <1>10, StreamStutters DEF vars, mainVars, demuxVars, frameVars
<1>11. QED
  <2>1. CASE Opening \/ Steering \/ Reap
    BY <1>1, <1>2, <1>3, <1>4, <2>1
  <2>2. CASE AdvanceVideo \/ AdvanceAudio
    BY <1>7, <1>8, <2>2
  <2>3. CASE ReturnSlot("V") \/ ReturnSlot("A") \/ \E e \in Entry : Decoder(e)
    BY <1>9, <2>3 DEF Entry
  <2>4. Next => \/ Opening \/ Steering \/ Reap \/ ResetDemuxer \/ Demux
                \/ AdvanceVideo \/ AdvanceAudio \/ ReturnSlot("V") \/ ReturnSlot("A")
                \/ \E e \in Entry : Decoder(e)
    BY DEF Next, Playing, Stopping, Mixer, Steering
  <2>5. QED
    BY <1>5, <1>6, <1>10, <2>1, <2>2, <2>3, <2>4

\* The frames of a movie are taken in the order of its packets, all of them while it is
\* open, and the end of file is seen when every video packet read was shown
\* (Controller.cpp, advanceVideoFrames and advanceAudioChunks; Media.cpp, update).  A codec
\* that refuses the last packet loses it; a looped file, of which nothing is claimed, may.
THEOREM FrameStreamAlways ==
  ASSUME \A f \in Files : f.loop \/ f.rejected = {}
  PROVE  Spec => IsFrameStream
<1>1. MovieInv /\ [Next]_vars => MovieInv'
  BY MovieStep
<1>2. Spec => []MovieInv
  BY <1>1, MovieInit, PTL DEF Spec
<1>3. MovieInv /\ [Next]_vars => [F!Next]_(F!streamVars)
  BY StreamStep DEF F!streamVars, Mode, Sent, Seen
<1>4. QED
  BY <1>2, <1>3, StreamInit, PTL DEF Spec, IsFrameStream, F!Spec
=============================================================================

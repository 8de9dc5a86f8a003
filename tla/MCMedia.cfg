CONSTANTS
  Files <- PlayedAndLooped
  VideoPacketBufferSize = 1
  HasAudio = TRUE
  MinVideo = 2
  MaxPackets <- MovieWithSound
  MaxLaps = 1
  MaxDelay = 1
SPECIFICATION Spec
INVARIANTS
  SpacesConserved
  SlotsConserved
  DecoderFindsItsPacket
  EndMarkIsLast
  NothingUsesDeadDecoders
  NoPostToDestroyedLock
PROPERTY IsFrameStream

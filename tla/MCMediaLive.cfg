CONSTANTS
  Files <- Plain
  VideoPacketBufferSize = 1
  HasAudio = TRUE
  MinVideo = 0
  MaxPackets <- SoundFirst
  MaxLaps = 0
  MaxDelay = 0
SPECIFICATION FairSpec
PROPERTIES
  PlaybackStops
  EndIsReached

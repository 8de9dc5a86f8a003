CONSTANTS
  s1 = s1
  s2 = s2
  s3 = s3
  s4 = s4
  s5 = s5
  s6 = s6
  Surface = {s1, s2, s3, s4, s5, s6}
  VideoPacketBufferSize = 3
  None = None
SPECIFICATION Spec
SYMMETRY Surfaces
INVARIANTS
  OutBelongsToAFrame
  NothingIsLost
  PoolIsBounded
  OneFrameEach

SPECIFICATION Spec
CONSTANTS
  s1 = s1
  s2 = s2
  s3 = s3
  s4 = s4
  Streams = {s1, s2, s3, s4}
  FramesOf <- MCFramesOf
  NoStream = NoStream
  NumSlots = 2
  BufFrames = 3
  MsgMod = 2
  MaxBurst = 1
INVARIANTS
  SuccessIsComplete

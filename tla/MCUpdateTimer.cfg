\* A clock of 64 milliseconds, a frame interval of 10, any time at the start.
CONSTANTS
  Word = 64
  FrameInterval = 10
SPECIFICATION Spec
INVARIANT
  TypeOK
PROPERTIES
  InTime
  LostOnlyAtWrap

\* Three monitors of one client compete for the one frame.
CONSTANTS
  c1 = c1
  c2 = c2
  Clients <- OneClient
  N = 3
  SleepModes = {"off", "last", "black", "refresh"}
SPECIFICATION FairSpec
INVARIANT
  DirtyIsScheduled
PROPERTIES
  PictureCatchesUp
  OverlayCompletes

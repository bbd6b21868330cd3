\* One client takes over from another, awake and asleep.
CONSTANTS
  c1 = c1
  c2 = c2
  Clients <- TwoClients
  N = 2
  SleepModes = {"black", "refresh"}
SYMMETRY Symmetry
SPECIFICATION Spec
INVARIANTS
  TypeOK
  NothingForgotten
  SleepCycleGoesOn
PROPERTY
  KeepsFrameWindow

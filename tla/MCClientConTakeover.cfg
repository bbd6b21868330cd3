\* A client that takes over has lost its idle timer, and the kill timer runs.
CONSTANTS
  c1 = c1
  c2 = c2
  c3 = c3
  Cons <- MCCons
  NoTimer = NoTimer
  MaxIdle = 2
  MaxDisc = 1
  MaxBacklog = 1
SPECIFICATION Spec
INVARIANT
  OneTimerFollowsClient

\* Safety and liveness of the connection life cycle.
CONSTANTS
  c1 = c1
  c2 = c2
  c3 = c3
  Cons <- MCCons
  NoTimer = NoTimer
  MaxIdle = 2
  MaxDisc = 1
  MaxBacklog = 1
SPECIFICATION FairSpec
INVARIANTS
  TypeOK
  OnlyNewestConnected
  IdleDeadlineKept
PROPERTIES
  ReplacedClientIsSilent
  ClosedPeerIsRemoved
  ScheduledKillHappens
  IdleSessionDisconnected

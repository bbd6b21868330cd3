\* A synchronisation and the first key in one wakeup.
CONSTANTS
  Typed = {"num", "scroll", "tab"}
  ChecksPerWakeup = 2
  MaxMsgs = 1
SPECIFICATION Spec
INVARIANT
  LocksAligned

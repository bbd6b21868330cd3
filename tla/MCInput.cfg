\* A message in each of the two checks of a wakeup.
CONSTANTS
  Typed = {"num", "scroll", "tab"}
  ChecksPerWakeup = 2
  MaxMsgs = 1
  Buttons = {1, 3}
  Places <- MCPlaces
  Sizes <- MCSizes
  Deltas <- MCDeltas
SPECIFICATION InputSpec
INVARIANTS
  InputTypeOK
  LocksFollow
  KeysFollow
  ButtonsFollow
  PressesLand

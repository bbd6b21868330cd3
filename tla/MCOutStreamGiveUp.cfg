\* A send that is given up leaves xrdp out of step on a live connection.
SPECIFICATION Spec
INVARIANT
  UsableAfterGivingUp

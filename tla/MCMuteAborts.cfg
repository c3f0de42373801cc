\* A second recording, or cleanup(), after a mute timer has fired.
SPECIFICATION Spec
CONSTANTS
  MaxChunks = 2
  Apps = {app1}
CHECK_DEADLOCK FALSE
INVARIANTS
  NeverAborts

\* The callback waits for lock_, stop_recording() holds it and waits for the callback.
SPECIFICATION FairSpec
CONSTANTS
  MaxChunks = 2
  Apps = {app1}
CHECK_DEADLOCK FALSE
PROPERTIES
  StopEnds

\* The queue holds two events, so that it is full while a handler runs.
SPECIFICATION FairSpec
CONSTANT QueueCapacity = 2
INVARIANTS
  TypeOK
  IdleIsQuiet
  OpenMicIsShown
  NothingRefused
  CleanExit
PROPERTIES
  FollowsCycle
  ShutdownCompletes
  ProcessingEnds

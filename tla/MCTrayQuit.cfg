\* The smallest queue: events do not matter to the tray.  The program may
\* stop: a signal before the GTK loop exists leaves cleanup() joining a loop
\* nobody will end.
SPECIFICATION FairSpec
CONSTANT QueueCapacity = 1
PROPERTY QuitCompletes
CHECK_DEADLOCK FALSE

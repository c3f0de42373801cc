\* Three Impls: one in use after two were abandoned; the server hangs twice.
SPECIFICATION FairSpec
CONSTANT MaxImpls = 3
CONSTANT MaxHangs = 2
INVARIANT NudgeIsOnOpenDisplay
INVARIANT MatchStateIsCurrent
INVARIANT StoppedIsClosed
PROPERTY StopReturns

SPECIFICATION FairSpec
CONSTANTS
  Size = 2
  Capacity = 1
  None = None
INVARIANTS TypeOK NothingLeft OutcomeTrue
PROPERTIES IsDictation DeliveryEnds CompanionRests

SPECIFICATION FairSpec
CONSTANTS
  Clients = {k1, k2}
  Models = {small, large}
  Threads = {t1, t2}
  NoId = 0
  NoThread = NoThread
  NoClient = NoClient
  Inputs = {"fine", "huge"}
INVARIANTS
  TypeOK
  OwnTranscript
  OneFaultSurvived
  NoOrphan
  RecordingRemoved
PROPERTIES
  CallsReturn

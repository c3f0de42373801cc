\* One modifier and one other key; the queue holds two events.
SPECIFICATION Spec
CONSTANTS
  ModifierKeys = {"Super_L"}
  ModifierName <- MCModifierName
  Keys = {"esc"}
  Esc = "esc"
  NoKey = ""
  NoCombo = NoCombo
  Configs <- MCConfigs
  QueueCapacity = 2
INVARIANTS
  RecordsWhilePressed
  LockOrder

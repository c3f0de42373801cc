\* The keyboard has both shift keys; every configuration can be saved at any time.
SPECIFICATION Spec
CONSTANTS
  ModifierKeys = {"Shift_L", "Shift_R", "Super_L"}
  ModifierName <- MCModifierName
  Keys = {"space", "esc"}
  Esc = "esc"
  NoKey = ""
  NoCombo = NoCombo
  Configs <- MCConfigs
INVARIANTS
  CachedModifiersAreHeld
  ChordHoldsTrigger
  PressIsOfCurrentConfig
PROPERTY IsSwitch

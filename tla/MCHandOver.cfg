SPECIFICATION FairSpec
CONSTANTS
  Instances = {i1, i2}
  Nobody = Nobody
  Stale = Stale
  Hotkeys = {f8, f9, uncancelled}
  Defaults = f8
  Cleared = uncancelled
  Broken = Broken
  Empty = Empty
  Handlers = {h1}
  Cli = Cli
PROPERTY LoserReadsRealPort

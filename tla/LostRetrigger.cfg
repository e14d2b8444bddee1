CONSTANTS
  i1 = i1
  i2 = i2
  Images = {i1, i2}
  NoImage = NoImage
  Tag <- OwnTags
  VersionProbeThreshold = 2
  UpgradeThreshold = 2
  MaxEdits = 1
  MaxReboots = 1
  Faults = {"UpgradeFails"}
SPECIFICATION LiveSpec
PROPERTY RetriggerRestarts

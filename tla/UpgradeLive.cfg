CONSTANTS
  i1 = i1
  i2 = i2
  Images = {i1, i2}
  NoImage = NoImage
  Tag <- SameTag
  VersionProbeThreshold = 2
  UpgradeThreshold = 2
  MaxEdits = 2
  MaxReboots = 2
  Faults = {"ProbeFails", "UpgradeFails", "UpgradeLost", "RebootFails", "SpecLost", "MirrorFails"}
SPECIFICATION LiveSpec
INVARIANT ReadyIsConfigured
PROPERTY CompletesOnDesired
PROPERTY InFlightEnds
PROPERTY VersionMirrored

CONSTANTS
  i1 = i1
  i2 = i2
  Images = {i1, i2}
  NoImage = NoImage
  Tag <- OwnTags
  VersionProbeThreshold = 2
  UpgradeThreshold = 2
  MaxEdits = 2
  MaxReboots = 1
  Faults = {"Abort", "EditInFlight", "ProbeFails", "UpgradeFails", "UpgradeLost", "RebootFails", "ResetFails", "ResetLost", "BootIDDenied", "SpecLost", "MirrorFails"}
SPECIFICATION Spec
INVARIANT TypeOK
INVARIANT InstallsOncePerGeneration

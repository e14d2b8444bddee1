CONSTANTS
  m1 = m1
  m2 = m2
  None = None
  Keep = Keep
  Hosts <- OneHost
  Machines = {m1, m2}
  Eligible <- AnyHost
  FailureThreshold = 1
  MixedHosts <- NoHosts
  Retired <- AllMachines
  Faults = {"ReleaseRetry"}
SPECIFICATION Spec
PROPERTY OnlyOwnerReleases

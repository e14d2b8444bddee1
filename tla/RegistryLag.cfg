CONSTANTS
  m1 = m1
  m2 = m2
  None = None
  Keep = Keep
  Hosts <- OneHost
  Machines = {m1}
  Eligible <- AnyHost
  FailureThreshold = 1
  MixedHosts <- NoHosts
  Retired <- AllMachines
  Faults = {"HostLag", "MachineLag"}
SPECIFICATION Spec
INVARIANT IndInv
CHECK_DEADLOCK FALSE

CONSTANTS
  m1 = m1
  m2 = m2
  None = None
  Keep = Keep
  Hosts <- OneHost
  Machines = {m1, m2}
  Eligible <- AnyHost
  FailureThreshold = 2
  MixedHosts <- NoHosts
  Retired <- Everything
  Faults = {"Abort"}
SPECIFICATION Spec
INVARIANT TypeOK
INVARIANT PhaseMatchesClaim
INVARIANT ActsOnOwnHost
INVARIANT UnclaimedIsClean
INVARIANT AdoptedIsConfigured
INVARIANT FinalizerFirst
PROPERTY ClaimedHostStays
PROPERTY ClaimNeverStolen
PROPERTY ImplementsHostClaim
SYMMETRY Symmetry
CHECK_DEADLOCK FALSE

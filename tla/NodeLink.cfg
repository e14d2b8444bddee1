CONSTANTS
  c1 = c1
  w1 = w1
  NoValue = NoValue
  Machines = {c1, w1}
  ControlPlane = {c1}
  Keys = {"arch", "role"}
  Prefix <- KeyDomains
  Values = {"x", "y"}
  Invalid = {}
  Defaults <- KubeletLabels
  HostLabels <- ClaimedLabels
  MaxEvents = 2
  Faults = {"Relabel", "Disconnect", "Restart", "NewNodeLost", "CacheLags"}
SPECIFICATION LiveSpec
INVARIANT UpdatedIsInitialised
INVARIANT ReservedLabelsKept
PROPERTY EveryMachineLinks
PROPERTY RetriggerEnds
PROPERTY LabelsReachNode
CHECK_DEADLOCK FALSE

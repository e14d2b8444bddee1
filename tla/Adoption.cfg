CONSTANTS
  c1 = c1
  w1 = w1
  Machines = {c1, w1}
  ControlPlane = {c1}
  Bootstrap <- ThreeVersions
  MaxVersion <- LastVersions
  Endpoints <- Addresses
  Disks <- ReportedDisks
  InstallDisk <- OperatorDisks
  Credentials <- ForeignCredentials
  Brought <- AnyBundle
  MaxFaults = 1
  Faults = {"Abort", "ProbeFails", "ApplyLost", "ControlPlaneFlaps", "SpecLost"}
SPECIFICATION LiveSpec
INVARIANT TypeOK
INVARIANT ControlPlaneFirst
INVARIANT RecordedWasApplied
INVARIANT AdoptedPassedPreflight
PROPERTY DocumentsSurvive
PROPERTY ForeignPreserved
PROPERTY ConfigLands
PROPERTY Rejoins
CHECK_DEADLOCK FALSE

CONSTANTS
  None = None
  VendorNames <- Names
  ModelTable <- Models
  PublicIP = "10.0.0.1"
  Keep = Keep
  Inventory <- ThreeNodes
  LostReads <- Losses
  FailureDomain = "par01"
  FailureThreshold = 3
  Versions = {"v2"}
  Sites = {"s1"}
  MaxOutages = 1
  MaxEdits = 1
  MaxMirrors = 1
  MaxFaults = 1
  LostCalls = {"conditions", "status"}
SPECIFICATION LiveSpec
INVARIANT TypeOK
INVARIANT RecordedFaithful
INVARIANT ModelLabelUnambiguous
INVARIANT DiskLabelsMatchInstall
PROPERTY OperatorLabelsKept
PROPERTY IdentityKept
PROPERTY LabelsHeal

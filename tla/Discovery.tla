------------------------------ MODULE Discovery ------------------------------
(***************************************************************************)
(* One ByotHost, its node's hardware and its labels: the ByotHost          *)
(* controller's reconciles (pkg/controller/byothost_controller.go) with    *)
(* the facts they record and the labels every one of them ends by          *)
(* promoting, next to what else writes the object: a machine that claims   *)
(* and releases the host and mirrors its Talos version, and an operator    *)
(* who edits labels.                                                       *)
(*                                                                         *)
(* HostRegistry has the same reconciles without the facts, with several    *)
(* hosts and machines, finalizers and a lagging cache; here a claim and a  *)
(* release are one step each.                                              *)
(***************************************************************************)
EXTENDS HostFacts, MachineConfig

CONSTANTS
  Inventory,          \* the hardware the node may have, by a name for it
  Keep,               \* a field that a patch leaves as it is
  LostReads,          \* the sets of best-effort reads that may fail in one discovery
  FailureDomain,      \* spec.failureDomain
  FailureThreshold,   \* ByotHostReconciler.failureThreshold
  Versions,           \* the Talos versions a machine may upgrade its node to
  Sites,              \* values of the operator's own label
  MaxOutages, MaxEdits, MaxMirrors,  \* bounds on what happens around the passes
  MaxFaults,          \* ... on crashes and on calls of a patch that fail
  LostCalls           \* the calls of a patch that may fail alone

ASSUME DiscoveryAssumption ==
  /\ FailureThreshold \in Nat \ {0} /\ DOMAIN Inventory # {} /\ None \notin Sites
  /\ LostCalls \subseteq {"conditions", "metadata", "status"}
  /\ {MaxOutages, MaxEdits, MaxMirrors, MaxFaults} \subseteq Nat

\* What a node reports, and the summary made of its GPUs.
Processor == [socket: Text, cores: Nat]
Device == [display: BOOLEAN, vendor: Text, device: Text]
Address == [ip: Text, inet4: BOOLEAN, local: BOOLEAN, private: BOOLEAN]
BlockDevice == [name: Text, system: BOOLEAN, raid: BOOLEAN, type: Text, size: Nat \ {0}]
GPUSummary == [count: Nat, vendor: Text, device: Text, model: Text, memoryPerGPU: Nat,
               totalMemory: Nat, mixed: BOOLEAN]

\* A block device has a name of its own, and a nil pointer is no record.
ASSUME HardwareAssumption ==
  /\ Blank \in Text
  /\ \A v \in DOMAIN VendorNames : VendorNames[v] \in Text
  /\ \A p \in DOMAIN ModelTable : ModelTable[p].model \in Text /\ ModelTable[p].memory \in Nat
  /\ None \notin GPUSummary /\ None \notin BlockDevice
  /\ \A n \in DOMAIN Inventory :
       LET inv == Inventory[n] IN
       /\ inv.processors \in Seq(Processor) /\ inv.pci \in Seq(Device)
       /\ inv.addresses \in Seq(Address) /\ inv.disks \in Seq(BlockDevice)
       /\ inv.numaNodes \in Nat
       /\ \A i, j \in DOMAIN inv.disks :
            inv.disks[i].name # NoDisk /\ (inv.disks[i].name = inv.disks[j].name => i = j)

VARIABLES
  node,        \* the hardware in the node now
  up,          \* the node answers the maintenance API
  status,      \* ByotHost.status, conditions included
  labels,      \* ByotHost.metadata.labels; site is an operator's
  pass,        \* the reconcile in flight: the patch it sends
  seen,        \* the node and the lost reads behind status.hardware (history)
  budget       \* what the environment may still do

vars == <<node, up, status, labels, pass, seen, budget>>

Phases == {Blank, "Probing", "Available", "Unavailable", "Claimed", "Releasing"}
LabelKeys == ManagedKeys \cup {"site"}

NewStatus == [phase |-> Blank, claimed |-> FALSE, probed |-> FALSE, discovered |-> FALSE, failures |-> 0,
              version |-> Blank, arch |-> Blank, platform |-> Blank, identity |-> None, hardware |-> None]
NoLabels == [k \in LabelKeys |-> None]
Idle == [pc |-> "idle", status |-> None, labels |-> None, sample |-> None]

Init ==
  /\ node \in DOMAIN Inventory
  /\ up \in BOOLEAN
  /\ status = NewStatus
  /\ labels = NoLabels
  /\ pass = Idle
  /\ seen = None
  /\ budget = [outages |-> MaxOutages, edits |-> MaxEdits, mirrors |-> MaxMirrors,
               faults |-> MaxFaults]

-----------------------------------------------------------------------------
(* The ByotHost controller.                                                *)

\* Mutant: the labels are built afresh.
RelabelAll(s, l) == Promoted(NoLabels, s, FailureDomain)

\* Operator labels are kept, controller-managed ones computed from the status.
applyDiscoveryLabels(s, l) ==
  Promoted([k \in LabelKeys |-> IF k \in ManagedKeys THEN None ELSE l[k]], s, FailureDomain)

\* Mutant: every discovery overwrites the identity.
PopulateAll(s, result) ==
  [s EXCEPT !.version = result.version, !.arch = result.arch, !.platform = result.platform,
            !.identity = result.identity, !.hardware = result.hardware,
            !.discovered = result.hardware.gpus = None \/ ~result.hardware.gpus.mixed]

\* An identity is replaced only by another one; mixed GPUs keep the
\* Discovered condition False.
populateFromDiscovery(s, result) ==
  [s EXCEPT !.version = result.version, !.arch = result.arch, !.platform = result.platform,
            !.identity = IF result.identity # None THEN result.identity ELSE @,
            !.hardware = result.hardware,
            !.discovered = result.hardware.gpus = None \/ ~result.hardware.gpus.mixed]

\* What a handler makes of the status it read: the new status, the labels that
\* go with it, and the answers behind them if there was a discovery.
Outcome(s, l, sample) == [status |-> s, labels |-> applyDiscoveryLabels(s, l), sample |-> sample]

\* What the node answers, for every node and every set of reads that fail.
Answers == [n \in DOMAIN Inventory |-> [lost \in LostReads |-> discoverHost(Inventory[n], lost)]]

\* A nil pointer is no record, and the mark of a field a patch leaves out no value.
ASSUME MarkersAssumption ==
  /\ \A n \in DOMAIN Inventory, lost \in LostReads :
       Answers[n][lost].hardware \notin {None, Keep} /\ [node |-> n, lost |-> lost] # None
  /\ Keep # None /\ Keep \notin Nat /\ Keep \notin BOOLEAN /\ Keep \notin Phases
  /\ Keep \notin Text /\ Keep \notin Nat \X {"G", "T"}

Discovered(o, lost) ==
  Outcome([populateFromDiscovery(o.status, Answers[node][lost])
             EXCEPT !.phase = "Available", !.probed = TRUE, !.failures = 0],
          o.labels, [node |-> node, lost |-> lost])

\* A handler's discovery of a node that answers; a mandatory read may fail.
recordDiscoveryFailure(o) ==
  Outcome([o.status EXCEPT !.phase = "Probing", !.probed = FALSE, !.discovered = FALSE], o.labels, None)

Discover(o) == {Discovered(o, lost) : lost \in LostReads} \cup {recordDiscoveryFailure(o)}

\* Mutant: the threshold is compared with the count before this failure.
RecordProbeFailureLate(o) ==
  Outcome([o.status EXCEPT !.failures = @ + 1, !.probed = FALSE,
                           !.phase = IF o.status.failures >= FailureThreshold THEN "Unavailable" ELSE @],
          o.labels, None)

\* The counter stops at FailureThreshold: from there on every failure acts alike.
recordProbeFailure(o) ==
  LET failures == o.status.failures + 1 IN
  Outcome([o.status EXCEPT !.failures = IF failures > FailureThreshold THEN @ ELSE failures,
                           !.probed = FALSE,
                           !.phase = IF failures >= FailureThreshold THEN "Unavailable" ELSE @],
          o.labels, None)

reconcileProbing(o) == IF up THEN Discover(o) ELSE {recordDiscoveryFailure(o)}

\* Mutant: a successful probe leaves the labels alone.
ProbeOnly(o) ==
  IF up THEN {[status |-> [o.status EXCEPT !.failures = 0, !.probed = TRUE],
               labels |-> o.labels, sample |-> None]}
  ELSE {recordProbeFailure(o)}

reconcileAvailable(o) ==
  IF up THEN {Outcome([o.status EXCEPT !.failures = 0, !.probed = TRUE], o.labels, None)}
  ELSE {recordProbeFailure(o)}

\* reconcileUnavailable, and reconcileReleasing: wait for the node, then
\* discover it again.
reconcileUnavailable(o) == IF up THEN Discover(o) ELSE {Outcome(o.status, o.labels, None)}
reconcileReleasing(o) ==
  {[r EXCEPT !.status.claimed = IF r.sample = None THEN @ ELSE FALSE] : r \in reconcileUnavailable(o)}

reconcileHost(o) ==
  CASE o.status.phase \in {Blank, "Probing"} -> reconcileProbing(o)
    [] o.status.phase = "Available"       -> reconcileAvailable(o)
    [] o.status.phase = "Unavailable"     -> reconcileUnavailable(o)
    [] o.status.phase = "Releasing"       -> reconcileReleasing(o)
    [] OTHER                              -> {}

\* patch.Helper sends the fields that differ from the base it read, and the
\* server leaves the others as they are.
Changed(base, new) == [f \in DOMAIN new |-> IF new[f] = base[f] THEN Keep ELSE new[f]]
Merge(server, patch, fields) ==
  [f \in DOMAIN server |-> IF f \notin fields \/ patch[f] = Keep THEN server[f] ELSE patch[f]]

\* Reconcile up to the patch: read the host, ask the node.
HostReconcile ==
  /\ pass.pc = "idle"
  /\ \E r \in reconcileHost([status |-> status, labels |-> labels]) :
       pass' = [pc |-> "conditions", status |-> Changed(status, r.status),
                labels |-> Changed(labels, r.labels), sample |-> r.sample]
  /\ UNCHANGED <<node, up, status, labels, seen, budget>>

Conditions == {"probed", "discovered"}

\* patchHost: the conditions, the metadata, and the rest of the status, in
\* three calls, each made even if the one before it failed. A call that fails
\* leaves its part of the object as it was.
Lands(call) == IF call \in LostCalls /\ budget.faults > 0 THEN BOOLEAN ELSE {TRUE}
Spent(lands) == IF lands THEN budget ELSE [budget EXCEPT !.faults = @ - 1]

PatchConditions ==
  /\ pass.pc = "conditions"
  /\ pass' = [pass EXCEPT !.pc = "metadata"]
  /\ \E lands \in Lands("conditions") :
       /\ status' = IF lands THEN Merge(status, pass.status, Conditions) ELSE status
       /\ budget' = Spent(lands)
  /\ UNCHANGED <<node, up, labels, seen>>

PatchMetadata ==
  /\ pass.pc = "metadata"
  /\ pass' = [pass EXCEPT !.pc = "status"]
  /\ \E lands \in Lands("metadata") :
       /\ labels' = IF lands THEN Merge(labels, pass.labels, LabelKeys) ELSE labels
       /\ budget' = Spent(lands)
  /\ UNCHANGED <<node, up, status, seen>>

PatchStatus ==
  /\ pass.pc = "status"
  /\ pass' = Idle
  /\ \E lands \in Lands("status") :
       /\ status' = IF lands THEN Merge(status, pass.status, DOMAIN status \ Conditions) ELSE status
       /\ seen' = IF lands /\ pass.sample # None THEN pass.sample ELSE seen
       /\ budget' = Spent(lands)
  /\ UNCHANGED <<node, up, labels>>

\* A crash ends the reconcile wherever it is.
Abort ==
  /\ pass.pc # "idle" /\ budget.faults > 0
  /\ pass' = Idle
  /\ budget' = [budget EXCEPT !.faults = @ - 1]
  /\ UNCHANGED <<node, up, status, labels, seen>>

-----------------------------------------------------------------------------
(* The ByotMachine controller.                                             *)

\* filterClaimCandidates, for a machine that does not hold the host.
Candidate(s) == s.phase = "Available" /\ s.probed /\ ~s.claimed

\* claimCAS: a status update, which leaves the labels as they are.
Claim ==
  /\ Candidate(status)
  /\ status' = [status EXCEPT !.phase = "Claimed", !.claimed = TRUE]
  /\ UNCHANGED <<node, up, labels, pass, seen, budget>>

\* syncHostTalosVersion: a status update too.
MirrorVersion ==
  /\ status.claimed /\ budget.mirrors > 0
  /\ \E v \in Versions \ {status.version} : status' = [status EXCEPT !.version = v]
  /\ budget' = [budget EXCEPT !.mirrors = @ - 1]
  /\ UNCHANGED <<node, up, labels, pass, seen>>

\* releaseHost: a node in maintenance mode is Available at once, any other is
\* reset and awaited.
Release ==
  /\ status.claimed
  /\ status' = [status EXCEPT !.claimed = FALSE, !.phase = IF up THEN "Available" ELSE "Releasing"]
  /\ UNCHANGED <<node, up, labels, pass, seen, budget>>

-----------------------------------------------------------------------------
(* The node and the operator.                                              *)

\* The node leaves maintenance mode: an outage, or a configuration applied.
GoDown ==
  /\ up /\ budget.outages > 0
  /\ up' = FALSE
  /\ budget' = [budget EXCEPT !.outages = @ - 1]
  /\ UNCHANGED <<node, status, labels, pass, seen>>

\* It comes back, perhaps with other hardware.
ComeUp ==
  /\ ~up
  /\ up' = TRUE
  /\ node' \in DOMAIN Inventory
  /\ UNCHANGED <<status, labels, pass, seen, budget>>

\* kubectl label: the operator's own label, or one that is not the operator's.
EditLabels ==
  /\ budget.edits > 0
  /\ \/ \E v \in Sites \cup {None} : labels' = [labels EXCEPT !.site = v]
     \/ \E v \in {"true", None} : labels' = [labels EXCEPT !.available = v]
  /\ labels' # labels
  /\ budget' = [budget EXCEPT !.edits = @ - 1]
  /\ UNCHANGED <<node, up, status, pass, seen>>

HostStep == HostReconcile \/ PatchConditions \/ PatchMetadata \/ PatchStatus

Next ==
  \/ HostStep \/ Abort
  \/ Claim \/ MirrorVersion \/ Release
  \/ GoDown \/ ComeUp \/ EditLabels

Spec == Init /\ [][Next]_vars

\* Every reconcile of a host that is not Claimed returns a requeue, or an error
\* that requeues it.
LiveSpec == Spec /\ WF_vars(HostStep)

-----------------------------------------------------------------------------
(* Properties.                                                             *)

\* Types, and what is always recorded together: the facts of a discovery, and
\* the labels of the keys the two sides own.
TypeOK ==
  /\ node \in DOMAIN Inventory /\ up \in BOOLEAN
  /\ status.phase \in Phases /\ status.failures \in 0..FailureThreshold
  /\ {status.claimed, status.probed, status.discovered} \subseteq BOOLEAN
  /\ (status.hardware = None) = (seen = None)
  /\ DOMAIN labels = LabelKeys /\ labels.site \in Sites \cup {None}
  /\ pass.pc \in {"idle", "conditions", "metadata", "status"}

\* The controller owns the byot.io/ labels and no other: whatever an operator
\* wrote since the reconcile read the host is still there after its patch.
OperatorLabelsKept == [][HostStep => labels'.site = labels.site]_vars

LabelsInSync == labels = applyDiscoveryLabels(status, labels)

\* Labels are an index of the status, written apart from it: after a crash
\* between the two writes, an operator's edit, or a claim and release, some
\* later reconcile brings them together again, unless the host is Claimed.
LabelsHeal == ~LabelsInSync ~> (LabelsInSync \/ status.phase = "Claimed")

GPUsOf(inv) == {i \in DOMAIN inv.pci : inv.pci[i].display /\ inv.pci[i].vendor \in DOMAIN VendorNames}
SocketsOf(inv) == {i \in DOMAIN inv.processors : inv.processors[i].socket # Blank}

\* The GPU summary of an inventory: the count is of all GPUs, a vendor or a
\* model is one that every GPU has.
GPUsFaithful(inv, gpus) ==
  LET all == GPUsOf(inv) IN
  /\ gpus = None <=> all = {}
  /\ gpus # None =>
       /\ gpus.count = Cardinality(all)
       /\ gpus.vendor # Blank => \A i \in all : VendorNames[inv.pci[i].vendor] = gpus.vendor
       /\ gpus.device # Blank => \A i \in all : inv.pci[i].device = gpus.device
       /\ gpus.mixed = (Cardinality({<<inv.pci[i].vendor, inv.pci[i].device>> : i \in all}) > 1)
       /\ gpus.totalMemory = gpus.count * gpus.memoryPerGPU

\* The cores of the populated sockets, one by one.
CoresOf(inv) == UNION {{i} \X (1..inv.processors[i].cores) : i \in SocketsOf(inv)}

\* A count that comes out as zero is recorded as one.
AtLeastOne(n) == IF n = 0 THEN 1 ELSE n

\* A status says of the node what discovery read last: a best-effort read that
\* failed costs its own fact and no other, the order of the reads none.
RecordedFaithful ==
  seen # None =>
    LET inv == Inventory[seen.node]
        hw == status.hardware
        read(source) == source \notin seen.lost
        internal == {i \in DOMAIN inv.addresses : Internal(inv.addresses[i])}
    IN  /\ read("pci") => GPUsFaithful(inv, hw.gpus)
        /\ read("processors") =>
             /\ hw.cpu.cores = AtLeastOne(Cardinality(CoresOf(inv)))
             /\ hw.cpu.packages =
                  AtLeastOne(Cardinality({inv.processors[i].socket : i \in SocketsOf(inv)}))
        /\ read("numa") => hw.cpu.numaNodes = AtLeastOne(inv.numaNodes)
        /\ hw.internalIP # Blank => \E i \in internal : inv.addresses[i].ip = hw.internalIP
        /\ read("addresses") /\ internal # {} => hw.internalIP # Blank
        /\ hw.memory = inv.memory /\ hw.disks = inv.disks

\* A host with mixed GPUs is not claimable by a single-model selector: while a
\* machine may claim it, its model label names the model of every GPU that the
\* discovery behind its status found. (Cards changed since then are another
\* matter: FactsAreCurrent below.)
ModelLabelUnambiguous ==
  Candidate(status) /\ labels.gpuModel # None =>
    LET inv == Inventory[seen.node] IN
    \A i \in GPUsOf(inv) :
      LET d == inv.pci[i] IN ModelTable[<<d.vendor, d.device>>].model = labels.gpuModel

\* promoteHardwareLabels and selectSystemDisk choose a disk each on its own:
\* while a machine may claim the host, the disk labels describe the disk that
\* selectSystemDisk takes of the disks last discovered. (Adoption asks the live
\* node, whose disks may have changed since then: FactsAreCurrent below.)
DiskLabelsMatchInstall ==
  Candidate(status) =>
    LET disks == Inventory[seen.node].disks
        target == {i \in DOMAIN disks : disks[i].name = selectSystemDisk(disks)}
    IN  IF target = {} THEN labels.diskSize = None /\ labels.diskType = None
        ELSE \A i \in target : /\ labels.diskSize = roundQuantity(disks[i].size)
                               /\ labels.diskType = diskTypeLabel(disks[i].type)

\* The discovery behind the status did not read a system UUID: the SMBIOS read
\* failed, or the board has none.
NoUUIDRead == seen # None /\ ("smbios" \in seen.lost \/ Inventory[seen.node].uuid = Blank)

\* The reboot-stable identity, once recorded, is never taken away, whatever reads
\* fail and wherever a patch is cut short; and the UUID in it goes only with a
\* discovery that read none and found a MAC to put in its place.
IdentityKept ==
  [][status.identity # None =>
       /\ status'.identity # None
       /\ status.identity.uuid # Blank /\ status'.identity.uuid = Blank =>
            NoUUIDRead' /\ status'.identity.mac # Blank]_vars

-----------------------------------------------------------------------------
(* Statements of the documentation that the code does not keep (README,    *)
(* Refuted statements).                                                    *)

\* README: byot.io/available is "true" only when the phase is Available.
AvailableLabelTrue == pass.pc = "idle" /\ labels.available = "true" => status.phase = "Available"

\* populateFromDiscovery: a host that is Discovered is not mixed.
DiscoveredIsUniform ==
  Candidate(status) /\ status.discovered =>
    LET inv == Inventory[seen.node] IN
    Cardinality({<<inv.pci[i].vendor, inv.pci[i].device>> : i \in GPUsOf(inv)}) <= 1

\* populateFromDiscovery: a discovery whose COSI reads failed "must not erase the
\* reboot-stable identity": the UUID, once recorded, stays.
UUIDKept ==
  [][status.identity # None /\ status.identity.uuid # Blank =>
       status'.identity # None /\ status'.identity.uuid # Blank]_vars

\* Hardware may have changed after an outage: a host a machine may claim has
\* the hardware its status lists.
FactsAreCurrent == Candidate(status) /\ up => seen.node = node
=============================================================================

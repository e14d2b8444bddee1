# A TLA+ model of cluster-api-provider-bringyourowntalos

The provider adopts Talos hosts that already exist.  A `ByotHost` is the record
of a host that waits in Talos maintenance mode; a `ByotMachine` claims one, has
the cluster's bootstrap configuration applied to it, optionally upgrades it to
`desiredTalosVersion`, links the workload Node, and gives the host back, wiped,
when it is deleted.  Nothing is a transaction: every operation is a sequence of
API calls and RPCs to a node, and the two controllers write the same objects
with different means, one with optimistic locking, the other without.

This directory models that: who holds a host, what is on its disk, what is known
of its hardware, how its Node joins, and whether the records agree.

## Inventory

| Part | State | Operations | Correct when |
| --- | --- | --- | --- |
| ByotHost controller (`byothost_controller.go`) | `status.phase`, conditions, `probeFailureCount`, finalizer | `Reconcile`, the phase handlers, `recordProbeFailure`, `recordDiscoveryFailure`, `patchHost`, `reconcileDelete` | phase and claim agree; no claimed host is removed; released hosts come back |
| Claim and release (`claim.go`, `reconcileDelete` of `byotmachine_controller.go`) | `claimRef`, `resolvedHost` | `claimHost`, `verifyExistingClaim`, `claimCAS`, `releaseHost` | a claim is a lock on the node, known to its holder, given back only wiped |
| Adoption (`adopt`, `applyAndMarkAdopted`) | `ready`, `lastAppliedConfigSHA`, `providerID`, conditions, the work queue | apply, `markAdopted`, preflight and control-plane gate | a ready machine's node carries its configuration; workers join after the control plane |
| Talos upgrade (`ensureTalosVersion` and below, `talos_apply.go`) | `upgradeState`, counters, boot id, applied reference, attempt generation | probe, issue, poll, complete, fail, retrigger | one install per generation; completion means the image runs; every upgrade ends |
| Node link (`linkNode`) | `nodeUpdated`, retrigger annotation, Node labels, the work queue | `updateNodeProviderID`, `syncNodeLabels`, `ensureNodeLinked`, the watch filters | every Node is initialised, labelled and linked; the retrigger ends |
| Discovery (`discovery.go`, `populateFromDiscovery`) | hardware facts, identity, labels | `discoverHost`, `applyDiscoveryLabels`, the three calls of a patch | what a selector sees of a claimable host is what discovery found; labels and status meet again |
| Machine configuration (`talos_apply.go`) | none | `resolveInstallDisk`, `injectHostCertSANs`: document rewriting | no document is lost and the operator's choices win |
| ByotCluster controller | `ready` | one status write | trivial |

Interactions.  Both controllers read through one informer cache, which may lag.
The ByotMachine controller writes ByotHosts with `Status().Update`, which the
API server refuses when the resourceVersion is old; the ByotHost controller
writes them with `patch.Helper`, a merge patch of the fields that differ from
the object it read, which is never refused.  Both ask the node over the network
in between.  One `patch.Helper.Patch` is up to three API calls, for the conditions,
the metadata or spec, and the rest of the status; each is made even if one before it
failed.  A reconcile may stop at any call (an error, a crashed manager) and is then
run again from the top.  The work queue runs at most one reconcile per object and
controller at a time, and only for an object that something queued: a watch, a
requeue or an error.

The hard behaviours, each at its line in `PROJECT.json` under `hazards`: copies
that are stale when they are used (the caches, the patch base, the in-memory
generation), pairs of writes that a crash or one failed call takes apart, calls to
a node that take effect although they fail, repeated releases, claims
that race deletions and liveness patches, and an upgrade state machine whose
guards mask one another.

## Modules

| Module | What it is |
| --- | --- |
| `HostRegistry` | ByotHosts, ByotMachines, nodes, both controllers' reconciles up to adoption, and the delete paths |
| `HostClaim` | abstract specification: a claim is a lock on a node |
| `MCHostRegistry` | instances of `HostRegistry` |
| `HostRegistryProofs` | theorems about `HostRegistry` that hold under every fault |
| `HostClaimProofs` | `HostRegistry` implements `HostClaim`, and what else holds of its claims |
| `TalosUpgrade` | one ByotMachine that holds a host: adoption and the upgrade state machine, with the node's disk, boots and reachability |
| `MCTalosUpgrade` | instances of `TalosUpgrade` |
| `TalosUpgradeProofs` | theorems about `TalosUpgrade` |
| `Adoption` | the machines of one cluster, each with its host: join preflight, control-plane gate, apply, kubelet nudge, `markAdopted` |
| `MachineConfig` | the rewriting of a stream of configuration documents, as functions, and what it promises |
| `MachineConfigProofs` | what the rewriting does to every stream of documents |
| `MCAdoption` | an instance of `Adoption` |
| `AdoptionProofs` | theorems about `Adoption` |
| `NodeLink` | the adopted machines of one cluster: initialising, labelling and linking their Nodes, the watches and the queue |
| `MCNodeLink` | an instance of `NodeLink` |
| `NodeLinkProofs` | theorems about `NodeLink` |
| `HostFacts` | hardware discovery and label promotion, as functions |
| `Discovery` | one ByotHost: discovery, its facts and labels, next to claims, releases, outages and label edits |
| `MCDiscovery` | an instance of `Discovery` |
| `DiscoveryProofs` | theorems about `HostFacts` and `Discovery` |
| `DataInduction` | induction and loops, for `MachineConfigProofs` and `DiscoveryProofs` |

`Adoption` and `NodeLink` start where the module before them stops: a host that is
claimed (`HostRegistry`), a machine that is adopted and upgraded (`Adoption`,
`TalosUpgrade`).  `Discovery` repeats the host reconciles of `HostRegistry` for
one host, with the data that `HostRegistry` leaves out and without its finalizers,
caches and second machine.

### HostRegistry

One action is one API call or one exchange with a node.  `hw[h]` and `mw[m]` are
the reconciles in progress: the next call (`pc`), what the reconcile read (the
base of its patch helper) and what it is working on.  Everything else may happen
between two actions.

* `HostReconcile`, `HostProbe`, `HostPatchConditions`, `HostPatchStatus` are a
  reconcile of a live ByotHost: read and finalizer, the phase handler with its
  call to the node, and the two writes of `patch.Helper`.  The handlers
  themselves (`reconcileProbing` and so on) are operators from the status read to
  the set of statuses asked for, one per outcome of the node's answer.
* `MachineReconcile`, `KeepClaim`, `clearResolvedHost`, `SelectHost`, `ClaimGet`,
  `ClaimCAS`, `RecordClaim`, `ApplyConfig`, `MarkAdopted` are a reconcile of a
  live ByotMachine.
* `MachineReconcileDelete`, `ReleaseGet`, `ReleaseKeep`, `ReleaseReset`,
  `ReleaseFailed`, `ReleaseFree`, `MachineUnfinalize` are one of a ByotMachine
  under deletion; `HostReconcileDelete` and `HostUnfinalize` of a ByotHost.
* The environment: `DeleteHost`, `DeleteMachine`, `NodeBooted`, the watch
  (`SyncHost`, `SyncMachine`), and aborted reconciles (`HostAbort`,
  `MachineAbort`).  `Faults` says which failures an instance allows.

A resourceVersion is only ever compared for equality with the newest one.
`latest[h]` is therefore the set of clients whose copy of `h` is the newest;
every write empties it, and a read through a lagging cache does not enter it.

Abstractions.  The hardware facts are reduced to the `Discovered` condition and
the labels to a fixed set of eligible hosts per machine (`Eligible`); facts and
labels that lag behind are in `Discovery`.  `MaintenanceMode` and timestamps are
left out; the metadata write that `patch.Helper` makes for the labels is part of
the status write.  A call of `patchHost` that fails takes the rest of the reconcile
with it here; that it fails alone is in `Discovery`.  `ready` stands for
`status.ready` and the matching `lastAppliedConfigSHA`.  The waits for the owner
Machine, the bootstrap data, the join preflight and the control plane only delay a
reconcile; all but the first are in `Adoption`.
`probeFailureCount` stops at the threshold, beyond which every value acts alike.
`claimCAS`'s `AddFinalizer` has no action of its own: by `FinalizerFirst` it never
has anything to write.

### HostClaim

`owner[h]` and `node[h]`, with `Acquire`, `Configure`, `Wipe`, `Boot` and
`GiveBack`: only the holder touches the node, and only a node without
configuration is given back.  `HostRegistry` implements it with `owner[h]` mapped
to `host[h].status.claimRef` (`ImplementsHostClaim`).

### TalosUpgrade

`obj` is the ByotMachine on the API server and `w` the reconcile, with the patch
helper's base and its copy of the object.  Neither is refreshed by a write, as in
the code: this is what makes the generation stale after `markAdopted`.  `node` has
an image on its disk and one it runs, a boot id, and may be rebooting.  Each
function below `ensureTalosVersion` is one or more actions, cut where it calls the
API server or the node.  `streak` and `installs` are history variables for the
properties; no action reads them.

`OperatorNudges` is a reboot of a node whose upgrade waits for one: the code,
after a reboot call that fails, counts on it ("The host may reboot on its own or
an operator nudges it").

A call to the node may fail before or after it took effect.  An install that fails
leaves the disk as it was, or (`UpgradeLost`) has written it: the stream breaks, or
the timeout expires, before the installer's exit code arrives.  A reset that fails
changes nothing, or (`ResetLost`) has put the node into maintenance mode.  `installs`
counts every install that ran, by the generation of the copy that issued it, whatever
the controller was told of it.

The patch of `markAdopted` is two writes, since its spec write bumps the generation:
`MarkAdoptedSpec` and `MarkAdoptedStatus`.  If the spec call fails alone (`SpecLost`,
`MarkAdoptedRest`), the machine is ready without a provider ID, `configUnchanged` is
false, and the next reconcile applies and marks again.  Every other patch has fields
of the status only, and its conditions are not modelled: it is one write.

Abstractions.  Conditions, addresses and the wait for the cluster's talosconfig
are left out.  A change of the bootstrap configuration of a ready machine is in
`Adoption`.  `LinkNode` is `updateNodeProviderID`; labels and the retrigger
annotation are in `NodeLink`.  A reconcile reads the newest object.
`markInvalidImageRef` cannot be reached (an empty reference returns earlier) and has
no action.

### Adoption and MachineConfig

`obj[m]` is the ByotMachine, `node[m]` the node of its host: reachable or not, the
PKI bundle it carries (`none` in maintenance mode), the version of the bootstrap
data that was applied, the documents it runs and whether its Node is registered.
`data[m]` is the version of the bootstrap secret, which grows, `secrets` the
talosconfigs that exist, `cpReady` the Cluster's condition and `queue` the machines
that are queued or have a requeue pending.  A reconcile of a queued machine reads
the data at `Start` and goes through `ProbeMaintenance`, `ProbeBundle` and
`ProbeReferenced` (`preflightJoin`, `preflightForeignMachine`),
`AwaitControlPlane`, `ApplyConfig`, `NudgeKubelet`, `MarkAdopted` and `EnsureLinked`;
with an unchanged configuration it goes to `EnsureLinked` at once.  A node that
applied its first configuration reboots (`Boot`), and a worker finishes that only
when a control-plane node serves.

What queues a machine is part of the model, because the controller watches neither
the owner Machine nor the bootstrap secret, and drops the resyncs.  Every wait and
every error of a reconcile queues the machine again.  `EnsureLinked` is the end of
`ensureNodeLinked`: the machine is queued again until the owner Machine has its
`nodeRef`, and then it is not.  `Wake` is what else queues one (a restart, an edit, a
label of its host) and may never happen.

The patch of `markAdopted` is three calls, and `MarkAdopted` loses any set of them that
the run allows: `ConditionsLost`, `SpecLost`, `StatusLost`.  A call that fails ends the
reconcile with an error, and the next one starts from what was written.

A configuration is a sequence of documents.  Of each, `MachineConfig` has whether
it has a machine and a cluster section, the install disk and disk selector and the
two SAN lists; the rest is a payload.  `Rewrite` is what is sent; `Rewritten` says
what a reader of the code would expect of it, in other words than the code's.  A
loop over addresses, processors or devices is a recursive function of the number
of iterations done, here and in `HostFacts`.

Abstractions.  A hash is the version it was computed from.  The configuration the
controller applied last is the one on the node; the addresses of a host are fixed.
The `KubeletRestartNudge` condition, addresses in the status, and the wait for the
owner Machine are left out.

### NodeLink

`obj[m]` has `nodeUpdated` and whether the annotation is set, `node[m]` is the
workload Node with its provider ID, taint and labels and the copy of the labels that
the ClusterCache holds, `nodeRef[m]` the owner Machine's link, `queue[m]` says whether
the machine is queued and whether a requeue is pending.  `PatchNode`, `MarkNodeUpdated`, `ReadHostLabels`,
`PatchNodeLabels` and `EnsureNodeLinked` are the reconcile.  The external Machine
controller (`MachineReconcile`) looks at a machine once after each change of it,
which is what the annotation is for, and only through a connected cache.
`Connect` is possible once an initialised control-plane Node can run what
publishes the API server's name; until then `WorkloadClient` falls back on the
machine's own address.

`patchWorkloadNodeLabels` compares the host's labels with the Node as the client
returns it: a connected client reads the ClusterCache's copy (`NodeCopy`), the one
with the machine's own address reads the Node itself.  The patch writes the labels
that differ from that copy.  The copy follows the Node at once, or (`CacheLags`) when
`SeeLabels` happens.

Abstractions.  A prefix is its sequence of DNS labels.  Values that are not valid on a
Node (`Invalid`) are in the model and not in the run: the API server takes no such
label on a ByotHost either.  The annotation's timestamp is left out: what counts is that each bump is a change.
An error and a requeue are the same, a pending timer.

### HostFacts and Discovery

`HostFacts` computes, from a node's inventory and the set of best-effort reads
that failed (`lost`), what `discoverHost` returns, and from a status the labels
`applyDiscoveryLabels` promotes.  Sizes are counted in halves of a GiB, which is
what the rounding of the labels tells apart; a label is its value.

`Discovery` has one host: `node` is the hardware it has now, `status` and `labels`
are the object, `pass` the patch of the reconcile in flight, `seen` (history) the
node and the reads behind `status.hardware`.  `HostReconcile` reads the object and
asks the node, `PatchConditions`, `PatchMetadata` and `PatchStatus` are the calls
of `patch.Helper`, which sends the fields that differ from what was read.  Each of
them may fail alone and the next is made all the same (`LostCalls` says which may);
`Abort` is a crash, after which nothing more is sent.  `MaxFaults` bounds both.
A claim, a release and a version update may come between any two of them, a node may
go down and come back with other hardware, and an operator may edit labels.

`HardwareAssumption` gives the inventories their types: in particular a block
device has a size and a name of its own.  `MarkersAssumption` says that a record
of hardware, or of a discovery, is not nil, and that `Keep`, the mark of a field
that a patch leaves out, is no value of a field.

Abstractions.  The SMBIOS fields are one field, read in one call.  The contents of
the vendor and model tables are constants.  A claim and a release are one step
each: their own races are in `HostRegistry`.

## Runs

All runs are listed in `PROJECT.json`.  One or two hosts and machines: a claim
concerns one host, a conflict needs two writers, and a second host is needed only
where a machine may hold two.  Machines are interchangeable and are declared
symmetric in safety runs with two of them.  `CHECK_DEADLOCK FALSE` is set where
the system may really stop: a host orphaned by an abort or a stale read stays
Claimed for ever, which the host controller leaves alone.

| Run | Instance | Shows |
| --- | --- | --- |
| `RegistryLock` | 1 host, 2 machines, everything deletable, threshold 2, aborts | refinement of `HostClaim`; phase and claim agree; a host is given back clean; adopted means configured; finalizer before claim; claims are not stolen and claimed hosts stay |
| `RegistryLag` | 1 host, 1 machine, both caches lag | the inductive invariant |
| `RegistryCalm` | 2 hosts, 2 machines, no faults | no orphaned claim; at most one host per machine; no deadlock |
| `RegistryLive` | 1 host, 2 machines, no faults | deletion completes; the host is reused |
| `Discovery` | 3 inventories, threshold 3, 1 outage, 1 edit, 1 version update, 1 crash or failed conditions or status call; no read fails, the SMBIOS read alone, some reads, or all COSI reads | what a selector sees of a claimable host is what was discovered last; identity and operator labels survive; labels heal |
| `Adoption` | 1 control-plane machine and 1 worker whose host has any bundle, 3 versions of the worker's data, 1 fault of 5 kinds (crash, failed probe, lost answer of an apply, lost spec call, flapping control plane) | worker after control plane; foreign machines untouched; documents survive; adopted machines say that they passed the preflight; a queued machine gets the configuration there is; the Node registers |
| `NodeLink` | 1 control-plane machine and 1 worker, 2 label keys, 2 values, 2 events of 5 kinds (relabelled host, lost connection, restart, Node lost before it is initialised, late cache) | every machine is linked; `nodeUpdated` means initialised; labels arrive; reserved ones are kept; the retrigger ends |
| `UpgradeFaults` | 2 images, 2 edits, 1 reboot, every fault | no installer runs twice for one generation |
| `UpgradeLive` | 2 images with one tag, 2 edits, 2 reboots; failing probes, reboots, spec calls and mirror updates; installs that fail before or after they ran | ready means configured; completion means the recorded image runs; every upgrade ends; the host's recorded version follows |

Bounds of the newer instances.  `Adoption`: what a worker can wait for is one
control-plane machine, and the machines share nothing else; three versions so that
one that is not YAML lies between two that are and a newer one can overtake an
apply; each fault is a single event that the code should survive alone, and
those that it does not are below.  Of the faults it does survive, `ApplyFails` adds
nothing to a node that does not answer, and `StatusLost` nothing to a crash before
`MarkAdopted`, after which the object differs from it at most in conditions and
provider ID; the theorems have both.  `NodeLink`: a control-plane machine that
opens the way for a worker; one label that is propagated and one in a subdomain of
a reserved domain; two values and two events so that a relabelling meets a restart
or a late cache, and a label changes and changes back.  `Discovery`: an inventory with one kind
of GPU, empty sockets and an array beside its members, one with two kinds, one with
none; threshold 3, the default, so that the counter outlasts one lost conditions call;
one outage to change the hardware and one fault to cut a patch in two.  A second
outage is harmless without faults (proved for any number of them) and refuted with
one (below).

`Adoption` and `NodeLink` run with `CHECK_DEADLOCK FALSE`: a cluster in which
everything is adopted and linked is at rest.

Three runs end in a violation: each states what a comment says and shows that
the code does otherwise (`PROJECT.json` quotes the lines).

| Run | What TLC shows |
| --- | --- |
| `ReleaseRetry` | the Update that drops the finalizer fails after a release; the retry resets and frees the host, which another machine has claimed |
| `StuckInFlight` | a crash between the InFlight patch and the upgrade call leaves the machine InFlight for ever |
| `LostRetrigger` | after a failed upgrade and a successful reset no edit restarts the upgrade |

### Refuted statements

The passing runs exclude a fault only where the code is not correct under it, but for
the two named above.
TLC refutes each of the following when the named configuration is changed as
shown (safety statements with `SPECIFICATION Spec`); the property is the reading
of the quoted line.

| Property | Change | Line | What happens |
| --- | --- | --- | --- |
| `NoOrphanedClaim` | `RegistryCalm`, `Faults = {"HostLag"}` | `claim.go:85`, "clearing ResolvedHost here while the host is still Claimed-by-self would orphan it" | a cached host from before the claim looks like a lost claim; `resolvedHost` is cleared |
| `HoldsAtMostOne` | `RegistryCalm`, `Faults = {"Abort"}` | `claim.go:26`, "a ByotMachine that already holds a host keeps it" | a reconcile that ends between `claimCAS` and the machine's patch is followed by a second claim |
| `ImplementsHostClaim` | `RegistryLock`, `Faults = {"ReleaseRetry"}` | see `ReleaseRetry` | a repeated release wipes a node that another machine holds |
| `ClaimsOnlyAvailable` | `RegistryCalm` | `docs/PRD-host-registry.md:46`, "Controller claims only `phase=Available` hosts" | `claimCAS` re-checks `claimRef` only; a host that was claimed and released since the selection is claimed in Releasing |
| `ClaimedPausesProbing` | `RegistryCalm` | `byothost_types.go:24`, "HostPhaseClaimed means a ByotMachine has claimed the host" | a liveness patch computed before the claim overwrites the phase |
| `MixedNeverAvailable` | `RegistryLock`, `MixedHosts <- OneHost` | `README.md:140`, "stays non-`Available`" | `reconcileProbing` sets Available whatever the condition says |
| `CompletesOnDesired` | `UpgradeLive`, `"EditInFlight"` added | `byotmachine_types.go:176`, "the installer image ref the host was last successfully upgraded to" | an edit in flight is recorded as applied |
| `CompletesOnDesired` | `UpgradeLive`, `"Abort"` added, `Tag <- OwnTags` | the same | as in the next row: a crash before the boot id is stored loses it, a crash after the failed upgrade spares the node the reset |
| `CompletesOnDesired` | `UpgradeLive`, `"BootIDDenied"` and `"ResetFails"` added, `Tag <- OwnTags` | the same | a node that reboots between the version probe and the install runs the image that an earlier, failed upgrade left on its disk; without a boot id the version fallback takes that for the upgrade (either fault alone is harmless) |
| `CountsConsecutive` | `UpgradeLive` | `byotmachine_types.go:162`, "consecutive Version RPC failures" | the boot-id gate does not reset the counter on success |
| `LinksOnlyUpgraded` | `UpgradeLive` | `byotmachine_controller.go:593`, "stopped on failure, so the caller returns its result instead of linking" | after the reset Ready is false, the upgrade step reports nothing to do and the node is linked |
| `FailedIsTerminal` | `UpgradeLive` | `byotmachine_controller.go:564`, "A Failed upgrade is terminal until the operator retriggers" | a first upgrade that fails in the adopting reconcile is stamped with the generation from before `markAdopted`, whose spec write is a generation of its own, and is retried: without an edit the installer may run twice |
| `ReadyIsConfigured` | `UpgradeLive`, `"Abort"` added | `byotmachine_controller.go:972`, "re-applies the config and re-issues the upgrade" | a crash between the reset and the patch that clears Ready leaves a ready machine on a node in maintenance mode |
| the same | `UpgradeLive`, `Faults = {"UpgradeFails", "ResetLost"}` | the same | a reset takes effect, its answer is lost, and the reconcile ends before Ready is cleared |
| `InFlightEnds` | `UpgradeLive`, `"ResetFails"` added | `byotmachine_controller.go:793`, "so the state machine restarts" | the retrigger clears the stashed boot id; when the node has not rebooted since, the new one equals the patch helper's base, is left out of the patch and stays cleared, and the version fallback waits for a tag that does not change |
| `ForeignPreserved`, `AdoptedPassedPreflight` | `Adoption`, `Faults = {"ReferencedProbeFails"}` | `byotmachine_controller.go:666`, "fails the preflight instead of being silently misconfigured" | the one failed probe is taken for an unreachable machine, and its own talosconfig applies the configuration |
| `AdoptedPassedPreflight` | `Adoption`, `Faults = {"ConditionsLost"}` | `byotmachine_controller.go:133`, "reports the outcome of the join preflight" | the conditions call of `markAdopted`'s patch fails and the others do not: the machine is ready with the condition of an earlier, failed preflight, and `configUnchanged` skips whatever would write it again |
| `LatestLands` | `Adoption`, `Faults = {}` | `byotmachine_types.go:116`, "When the bootstrap data changes, the controller re-applies the new configuration" | the owner Machine has its `nodeRef`, `ensureNodeLinked` returns without a requeue, and nothing watches the bootstrap secret: new data waits for a restart, an edit or a label of the host |
| `ConfigLands` | `Adoption`, `Faults = {"Abort", "DataReverts"}`, `MaxFaults = 2` | the same | an unrecorded apply of newer data is not undone when the data goes back to the recorded version |
| `Rejoins` | `Adoption`, `Faults = {"NudgeFails"}` | `byotmachine_controller.go:1318`, "self-heals when the kubelet comes up" | a node that took the configuration without a reboot has a running kubelet, which nobody restarts |
| `UpdatedIsInitialised`, `EveryMachineLinks`, `LabelsReachNode` | `NodeLink`, `Faults = {"NodeLost"}`, `MaxEvents = 1` | `byotmachine_controller.go:1390`, "gated by status.nodeUpdated and re-run on requeue" | a Node that is deleted and registers again is tainted, and `nodeUpdated` keeps it so |
| `LabelsReachNode` | `NodeLink`, `Machines = {c1}`, `Faults = {"Relabel", "CacheLags"}`, `MaxEvents = 3` | `byotmachine_controller.go:1722`, "Only missing or changed keys are patched" | a label changes and changes back while the ClusterCache still has the first value: the second sync finds nothing to write |
| `AvailableLabelTrue` | `Discovery`, `MaxEdits = 0`, `MaxFaults = 0` | `README.md:122`, "`"true"` only when `phase=Available`" | `claimCAS` changes the phase and not the labels, and a Claimed host is not reconciled |
| `DiscoveredIsUniform` | `Discovery` | `byothost_controller.go:443`, "MixedGPUModels when the host has GPUs of more than one vendor:device pair" | a PCI read that fails counts as no GPUs |
| `FactsAreCurrent` | `Discovery` | `byothost_controller.go:293`, "they may have changed after an outage" | an outage shorter than the threshold is not followed by a discovery |
| `UUIDKept` | `Discovery` | `byothost_controller.go:451`, "must not erase the reboot-stable identity" | with the MAC read, an SMBIOS read that fails replaces the UUID by an empty one |
| `ModelLabelUnambiguous`, `DiskLabelsMatchInstall` | `Discovery`, `LostCalls = {"metadata"}` | `discovery.go:738`, "so labels stay in sync with status" | the metadata call of a patch fails and its status call does not |
| the same | `Discovery`, `FailureThreshold = 1` (the default is 3), `MaxFaults = 0` | `claim.go:244`, "a transient liveness flap does not let a claim grab a host mid-failure" | the failure of a probe, computed before a claim, writes Unavailable over the Claimed host; the host is discovered and labelled anew while a release makes it Available with the old facts |
| the same | `Discovery`, `FailureThreshold = 2`; or `MaxFaults = 2`, `LostCalls = {"conditions"}` | the same | the conditions calls of the failed probes before the last are lost: the host is still claimable one failure before the threshold, and is claimed during the probe that reaches it, as above |
| the same | `Discovery`, `MaxOutages = 2`, `LostCalls = {}` | the same | the patch of a successful probe is cut off after the conditions: the host is claimable with its failures still counted, and failed probes reach the threshold as above |

### Fairness

Weak fairness of a reconcile needs something that queues the object, and the code
does not always have it.

* A ByotHost's reconcile always ends in a requeue or an error while the host exists,
  in phase Claimed too, and under deletion until the claim is gone.
* A ByotMachine's ends in a requeue or an error until the machine is adopted and its
  owner Machine linked: a failed claim, a wait, an upgrade in flight and a failed
  mirror update all do.  A deletion is an event, and a release that does not end in
  the loss of the finalizer is requeued.
* A linked machine's reconcile, and one that finds a Failed upgrade, ends with neither,
  and nothing watches the Machine or the bootstrap secret.

Hence the machine's steps are weakly fair in `HostRegistry`, which ends at the adoption
and begins again with a deletion, and in `TalosUpgrade`, where a machine whose upgrade
is complete or Failed has nothing left to do until an edit, which is an event.  In
`Adoption` and `NodeLink` there is a queue, and only a queued machine is reconciled.

The watch and the boot of a node are weakly fair.  `HostRegistry!Settles` adds that
from some point on calls to nodes in maintenance mode succeed and that updates no
longer conflict: a node that flaps for ever is never claimed, and the host controller,
which patches once per liveness interval, could hit every release between its read and
its update.
Strong fairness of `ReleaseKeep \/ ReleaseReset` says that a release that is tried
again and again reaches a node that answers.  `TalosUpgrade!Settles` says that
probes of a node that answers fail finitely often; strong fairness of the
successful `MirrorVersion` says that an update of the ByotHost that is tried
again and again does not conflict every time.  Weak fairness of `OperatorNudges` is
the reboot the code waits for after a reboot call that failed.

In `Adoption` the reconciles of queued machines, the boots, the first generation of
data and secrets and a control plane's report of being ready are weakly fair; a
worker's boot is enabled only while the control plane serves.  `Wake` is not fair:
`ConfigLands` is about a queued machine; `LatestLands`, which is about any machine, is
refuted.  In `NodeLink` the requeue timer is fair together with the reconcile, since a
pending requeue is what an error or a wait leaves; so are the registration of Nodes,
what the ClusterCache sees of them, the connection once the name resolves, and the
Machine controller's handling of a change, but not its looking again without one.  In `Discovery` only the host controller is fair.

## Proofs

A theorem holds for all sets of hosts, machines, images or inventories, all
thresholds and any number of edits, outages and reboots; the named assumptions of
the modules ask only that the data have their types, that the sets do not overlap
the special values and that thresholds are positive.  A hypothesis on `Faults`, or
on another constant, excludes the failures under which the statement is false: TLC
refutes it with each of them alone on the runs' instances (for `CompletesOnDesired`,
`BootIDDenied` and `ResetFails` only together; `ResetLost` with the install that fails
before the reset), and under all others it is proved.  Each inductive invariant was
checked by TLC before it was proved, on the instances above and, for `SelectorInv`, on
further ones with more outages and faults and other thresholds.  Every invariant and
every action property of the passing runs is the statement of a theorem.

### HostRegistryProofs: every fault

* `Invariance`: `Spec => []IndInv`, and from it `TypeCorrect`,
  `PhaseClaimAgreement` and `ProtectedOnceProbed`;
* `FirstWriterWins`: `Spec => ClaimNeverStolen`;
* `ClaimedIsNeverRemoved`: `Spec => ClaimedHostStays`.

None of these is inductive alone, because a reconcile acts on what it read some
steps earlier.  `IndInv` says what may be relied on in between:

* `ObjectInv`: every version of a host that anyone may still hold, the cached one
  included, is unclaimed when Releasing, and carries the finalizer once it left
  the initial phase; the cache is the object itself when it is current; a
  finalizer once seen is there until the object is gone.
* `HostWorkInv`: the status a host reconcile read is such a version, hence its
  unlocked patch never mentions `claimRef` (`PatchKeepsClaim`), although
  `reconcileReleasing` assigns it: in the version it read, the field was already
  empty.  A finalizer is dropped only by an update that is refused unless the
  host is as unclaimed as when it was read (`DeleteChecked`).
* `MachineWorkInv`: a claim whose resourceVersion is still the newest finds the
  host as unclaimed as `claimCAS` read it (`ClaimChecked`).

The proof goes by layers: what a step on one host or machine leaves alone
(`HostUntouched`, `MachineUntouched`), what a read or a write of it establishes,
one lemma per action for each part of the invariant, and `NextInv`.

### HostClaimProofs

| Theorem | Property | Hypothesis |
| --- | --- | --- |
| `RegistryIsALock` | `ImplementsHostClaim` | `PromptDeletion`: neither `ReleaseRetry` nor `MachineLag` |
| `HolderActs`, `ReleasedIsWiped` | `ActsOnOwnHost`, `UnclaimedIsClean` | the same |
| `AdoptedStaysConfigured` | `AdoptedIsConfigured` | `FreshReads`: aborts only |
| `ClaimsAreKnown`, `OneHostPerMachine` | `NoOrphanedClaim`, `HoldsAtMostOne` | `NoFaults` |

`LockInv` adds to `IndInv` that the host a machine's reconcile acts on is claimed
by that machine, from the step that established it to the last (`WorkIsOwned`);
that a release is made only by the newest version of a machine under deletion, so
that dropping the finalizer cannot conflict and the release is not repeated
(`ReleaseIsLast`); and that a node is wiped before its host is freed
(`FreedIsClean`).  With it every step is `Acquire`, `Configure`, `Wipe`, `Boot` or
`GiveBack` of `HostClaim`, or changes neither an owner nor a node
(`StepImplements`).  `AdoptInv` follows a machine from `resolvedHost` to the
configuration on that node, `KnownInv` every claim to the machine that will give
it back.  Each lemma about a step has two halves: the machine that moves and the
bystanders.

### AdoptionProofs

| Theorem | Property | Hypothesis |
| --- | --- | --- |
| `AdoptionTyped` | `TypeOK` | none |
| `ControlPlaneIsFirst` | `ControlPlaneFirst` | none |
| `RecordedIsApplied` | `RecordedWasApplied` | `DataAdvances`: the bootstrap data does not go back |
| `ForeignIsPreserved` | `ForeignPreserved` | `ReferencedProbeIsSound`: no `ReferencedProbeFails` |
| `AdoptedHasPassed` | `AdoptedPassedPreflight` | the same; `ReferencedIsForeign`: no referenced talosconfig is the cluster's own; and `ConditionsLand`: no `ConditionsLost` |
| `DocumentsAreKept` | `DocumentsSurvive` | none |

`ReconcileMoves` reduces the actions of a reconcile to their effects on one
machine's work record, object and node; `AdoptionInv` says what each step of it
may assume of the machine.  On top of it `GateInv` (everything a worker does past
the gate happens in a cluster with an owned control plane, which stays owned),
`VersionsInv` (recorded, applied, read, published: in this order), `ForeignInv`
(foreign credentials are used only against a node that does not carry that bundle)
and `PreflightInv`.  `ReferencedIsForeign` is needed: with a referenced talosconfig
of the cluster's own bundle a node that does not answer the preflight may answer
the apply, and is adopted with the preflight condition still false.  So is
`ConditionsLand`; the loss of the spec or the status call, alone or together, does no
harm.
`DocumentsAreKept` joins the controller to the algorithm: a step that changes what a
node runs sends what `Rewrite` made of one version of the data, whole
(`RewriteIsARewriting`).

### MachineConfigProofs and DataInduction

`RewriteIsARewriting`: for every stream of documents, every install disk and every
list of addresses, `Rewrite` does what `Rewritten` says.  `Grown` is the loop
invariant of one SAN list, preserved by each append (`AppendGrows`); `CertsGrown`
and `APIGrown` are the same for a stream.

The induction theorems of the library take a predicate as a parameter, which the
provers cannot instantiate.  `DataInduction` proves induction with a set in the
place of the predicate, from the library's theorem that `<` on the naturals is well
founded.  A recursive function is a `CHOOSE`, of which nothing is known until some
function is shown to satisfy the equation: `LoopRuns` does that, once, for a loop
whose body is a function of its counter and state.

### NodeLinkProofs

`NodeLinkTyped`; `MarkedIsInitialised` (`UpdatedIsInitialised`, unless a Node is
lost); `ReservedLabelsAreKept` (`ReservedLabelsKept`, every fault).
`InitialisedInv` covers the step between the patch of the Node and the mark, at
which the controller may be restarted.

### TalosUpgradeProofs

| Theorem | Property | Hypothesis |
| --- | --- | --- |
| `UpgradeTyped` | `TypeOK` | none |
| `OneInstallPerGeneration` | `InstallsOncePerGeneration` | none |
| `ReadyNodeIsConfigured` | `ReadyIsConfigured` | `ReconcileEnds`: neither `Abort` nor `ResetLost` |
| `CompletedRunsDesired` | `CompletesOnDesired` | `UpgradeUndisturbed`: no `Abort`, `EditInFlight`, `BootIDDenied`, `ResetFails` |

A reconcile works with three versions of one object: the API server's, the patch
helper's base and the copy.  `PatchMerges` says what a patch makes of them, field
by field, and `UpgradeInv` how they are related at each step (`CopyInv`,
`StateInv`).  `StepEffects` gives every action's effect once; the other proofs go
through these effects only.  `ProviderInv` orders the adoption before the upgrade: an
upgrade has a state only once the provider ID is written, so that no lost spec call
makes a machine under upgrade look unadopted.  `InstallsInv` says that after an
install, whatever the controller heard of it, the generation is accounted for: the
upgrade is in flight, recorded as applied, or failed for this generation, and no
reconcile with an older copy is on its way to another install.  The statement is
about generations because an edit may see two: the provider ID is one of its own
(`FailedIsTerminal`).  `CompletionInv` is about boot ids: the one stashed is of a boot at or before the
install, so that a node seen under another one booted from the new image; its part
`Served` says that an upgrade is issued to a configured node.

### DiscoveryProofs

| Theorem | Property | Hypothesis |
| --- | --- | --- |
| `DiscoveryTyped` | `TypeOK` | none |
| `RecordedWhole` | `RecordedIsDiscovered`: `status.hardware` is what one discovery answered, and the last one written | none |
| `OperatorLabelsAreKept` | `OperatorLabelsKept` | none |
| `IdentityIsKept` | `IdentityKept` | none |
| `RecordedIsFaithful` | `RecordedFaithful` | none |
| `ModelLabelIsUnambiguous` | `ModelLabelUnambiguous` | `Trusted`, below |
| `DiskLabelsAreTrue` | `DiskLabelsMatchInstall` | `Trusted` |

`HandlersHandle` says what every phase handler makes of the host it read: labels
that keep the operator's, a typed status, hardware only with a discovery behind
it, an identity only replaced by another.  `DiscoveryInv` says that the patch in
flight still means that for the object as it is by now: what it leaves out because
it had not changed is what the server has, since nothing else writes the hardware
and the identity.

`RecordedIsFaithful` adds to `RecordedWhole` what `discoverHost` computes, for
inventories of every size: `ProcessorsCounted` and `GPUsCounted` show by induction
that the loops count the cores of the populated sockets and the GPUs, each against
a set of which the property takes the cardinality.

`IdentityIsKept` has no hypothesis about which reads fail together: the SMBIOS and the
MAC read are independent, and boards without a UUID exist.  The identity is never
taken away; the UUID in it goes only with a discovery that read none and found a MAC,
which is less than the code's comment promises (`UUIDKept`).

`ModelLabelIsUnambiguous` and `DiskLabelsAreTrue` are about the hardware of the last
discovery written.  That it is the hardware a claiming machine will find is not so
(`FactsAreCurrent`).  `Trusted` is what they need: the metadata call of a patch
succeeds; `FailureThreshold` is at least 2 (the default is 3); either no reconcile is
cut short and no call fails, or there is at most one outage; and, where conditions
calls fail, the threshold exceeds the number of faults by more than one.  Without any
of the four TLC finds a counterexample (Refuted statements).  The labels are written one call
before the status they were computed from, and machines claim and release the host
in between, so that neither theorem's property is inductive.  `SelectorInv` is:

* `ClaimsInv`: a host that is Available or held was discovered, and its hardware
  labels are those of its status;
* `DecisionInv`: a reconcile that is about to take the host out of service, or to
  bring it back, read it when no machine could claim it, and none can have since;
* `PromotionInv`: the labels a patch writes are those of the hardware it brings, or
  of the hardware that is there;
* `CountInv`: failures still counted on a host that is claimable are about to be
  reset, or no probe will fail any more, or they are no more than the conditions calls
  that have failed (`Hidden`);
* `OutageInv`: with a single outage, failures are counted only after it began, which
  is why a patch that is cut short does no harm.

Every handler goes into the proof through `HandlersDecide` and every action through
`SelectorSteps`, which give its effect on these fields.  `DiskLabelsAreTrue` ends in
`LabelledDiskIsInstalled`: `systemDisk`, which labels, and `selectSystemDisk`, which
installs, choose the same disk of every list.

### Only model-checked

All liveness (`DeletionCompletes`, `HostIsReused`, `LabelsHeal`, `ConfigLands`,
`Rejoins`, `EveryMachineLinks`, `RetriggerEnds`, `LabelsReachNode`, `InFlightEnds`,
`VersionMirrored`): fairness and `ENABLED` are beyond the proof system.  So are the
refuted statements, which are TLC's counterexamples.

## Not modelled, and the plan

Modelled first was the lock on a host, whose loss wipes or shares a node in
service, then the upgrade, then adoption, node link and discovery; proved in the
same order.  No safety property of a passing run is left to TLC alone.

Not modelled: a ready machine that lost its host through a repeated release and
claims another one, which needs `ReleaseRetry` and the configuration hash in one
model.  Left out for good: the ByotCluster controller (one idempotent write of
`ready`, read by nobody here), generated code and API declarations, error values
and options, the Talos client's transport (endpoint fallback and TLS), and the
contents of the vendor and model tables.

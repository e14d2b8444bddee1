------------------------------ MODULE Adoption ------------------------------
(***************************************************************************)
(* The adoption of the hosts that the ByotMachines of one cluster hold:    *)
(* adoptionInputs, the join preflight, the control-plane gate,             *)
(* applyAndMarkAdopted, the kubelet nudge and the end of ensureNodeLinked  *)
(* in pkg/controller/byotmachine_controller.go, with the probes and the    *)
(* apply of pkg/controller/talos_apply.go.                                 *)
(*                                                                         *)
(* One action is one exchange with the node, with the patch that records   *)
(* its outcome: a probe changes nothing, so a crash between it and the     *)
(* patch is a crash before the probe.  The apply and the nudge do change   *)
(* the node, and markAdopted is an action of its own.  The bootstrap data  *)
(* is read once, when the reconcile starts.  Only the reconcile of a       *)
(* machine writes its status, so a patch writes what the reconcile set.    *)
(* A reconcile runs only for a queued machine; nothing queues a machine    *)
(* when its bootstrap data changes.                                        *)
(* Claiming the host is in HostRegistry, upgrades are in TalosUpgrade and  *)
(* the Node is linked in NodeLink.                                         *)
(***************************************************************************)
EXTENDS Integers, MachineConfig

CONSTANTS
  Machines,       \* the ByotMachines of the cluster, each with its host
  ControlPlane,   \* those whose Machine carries the control-plane label
  Bootstrap,      \* Bootstrap[v]: version v of the bootstrap data, a Config
  Endpoints,      \* Endpoints[m]: machineEndpoints
  Disks,          \* Disks[m]: the disks the node of m reports
  InstallDisk,    \* InstallDisk[m]: spec.installDisk
  Credentials,    \* Credentials[m]: the bundle spec.talosConfigSecretRef opens
  Brought,        \* Brought[m]: the bundles the host of m may come with
  MaxVersion,     \* bound: MaxVersion[m]: the last version generated for m
  MaxFaults,      \* bound: disturbances below
  Faults          \* which of the disturbances the run allows

\* A crashed or aborted reconcile; probes of the cluster's talosconfig or of
\* maintenance mode, and of the referenced talosconfig, that fail on a node that
\* answers; an apply that fails, and one that takes effect but whose answer is
\* lost; a nudge that fails; a call of markAdopted's patch that fails, alone or with
\* others; a control plane whose Ready condition flaps; and bootstrap data that goes
\* back to an earlier version.
PatchLosses == {"ConditionsLost", "SpecLost", "StatusLost"}
FaultKinds == {"Abort", "ProbeFails", "ReferencedProbeFails", "ApplyFails", "ApplyLost",
               "NudgeFails", "ControlPlaneFlaps", "DataReverts"} \cup PatchLosses

Bundles == {"none", "own", "foreign"}
Versions == DOMAIN Bootstrap

ASSUME MachinesAssumption == ControlPlane \subseteq Machines /\ ControlPlane # {}
ASSUME VersionsAssumption ==
  Versions \subseteq Nat \ {0} /\ MaxVersion \in [Machines -> Versions]
ASSUME DocumentsAssumption ==
  /\ \A v \in Versions : Bootstrap[v].docs \in Seq(Document)
  /\ \A m \in Machines : Endpoints[m] \in Seq(Text)
ASSUME CredentialsAssumption == Credentials \in [Machines -> Bundles]
ASSUME BroughtAssumption == Brought \in [Machines -> SUBSET Bundles]
ASSUME FaultsAssumption == Faults \subseteq FaultKinds /\ MaxFaults \in Nat

VARIABLES
  data,      \* data[m]: the bootstrap data's version, 0 before there is any
  secrets,   \* which talosconfig secrets exist
  cpReady,   \* the Cluster's ControlPlaneReady condition
  obj,       \* obj[m]: the ByotMachine on the API server
  node,      \* node[m]: the Talos node of the host m holds
  queue,     \* the controller's work queue, the delayed requests included
  w,         \* w[m]: the reconcile of m
  faults     \* how many disturbances there were (bounded)

vars == <<data, secrets, cpReady, obj, node, queue, w, faults>>

\* status.ready, spec.providerID, lastAppliedConfigSHA, and the JoinPreflight and
\* MachineAdopted conditions.
Passed == {"MaintenanceMode", "BundleMatch"}
Object == [ready: BOOLEAN, providerID: BOOLEAN, sha: Versions \cup {0},
           preflight: Passed \cup {"", "NoCredentials", "BundleMismatch"},
           adopted: {"", "True", "ApplyFailed", "WaitingForControlPlane"}]

\* A node: reachable, the PKI bundle it carries (none: maintenance mode), the
\* version this controller applied, its documents and disk, and whether its
\* workload Node is registered.
NewNode(bundle) ==
  [up |-> TRUE, bundle |-> bundle, version |-> 0, docs |-> <<>>, disk |-> NoDisk,
   registered |-> FALSE]

\* A reconcile: its next exchange, the bootstrap data it read, the credentials
\* resolveApplyAuth chose, bundleMatch, and the preflight condition it holds.
Steps == {"idle", "maintenance", "bundle", "foreign", "gate", "apply", "nudge", "mark", "link"}
Work == [pc: Steps, data: Versions \cup {0}, auth: Bundles, match: BOOLEAN,
         preflight: Passed \cup {"", "NoCredentials", "BundleMismatch"}]
Idle == [pc |-> "idle", data |-> 0, auth |-> "none", match |-> FALSE, preflight |-> ""]

Init ==
  /\ data = [m \in Machines |-> 0]
  /\ secrets = {}
  /\ cpReady = FALSE
  /\ obj = [m \in Machines |-> [ready |-> FALSE, providerID |-> FALSE, sha |-> 0,
                             preflight |-> "", adopted |-> ""]]
  /\ \E b \in [Machines -> Bundles] :
       /\ \A m \in Machines : b[m] \in Brought[m]
       /\ node = [m \in Machines |-> NewNode(b[m])]
  /\ queue = Machines
  /\ w = [m \in Machines |-> Idle]
  /\ faults = 0

-----------------------------------------------------------------------------
(* The bootstrap provider, the control plane and the nodes.                *)

Fault(kind) == kind \in Faults /\ faults < MaxFaults /\ faults' = faults + 1

\* The bootstrap provider generates the data, and may generate it again: a newer
\* version, or an earlier one once more.
PublishData(m) ==
  /\ \E v \in Versions \ {data[m]} :
       /\ v <= MaxVersion[m]
       /\ IF v = data[m] + 1 THEN UNCHANGED faults ELSE v < data[m] /\ Fault("DataReverts")
       /\ data' = [data EXCEPT ![m] = v]
  /\ UNCHANGED <<secrets, cpReady, obj, node, queue, w>>

PublishSecret(s) ==
  /\ s \notin secrets
  /\ secrets' = secrets \cup {s}
  /\ UNCHANGED <<data, cpReady, obj, node, queue, w, faults>>

ControlPlaneUp ==
  \E c \in ControlPlane : node[c].up /\ node[c].bundle = "own" /\ node[c].registered

\* The control plane provider sets the condition, and may take it back.
ReportControlPlane ==
  /\ \/ ~cpReady /\ ControlPlaneUp /\ cpReady' = TRUE /\ UNCHANGED faults
     \/ cpReady /\ ~ControlPlaneUp /\ cpReady' = FALSE /\ UNCHANGED faults
     \/ cpReady /\ cpReady' = FALSE /\ Fault("ControlPlaneFlaps")
  /\ UNCHANGED <<data, secrets, obj, node, queue, w>>

\* A configured worker needs trustd on a control-plane node to finish booting.
Boot(m) ==
  /\ ~node[m].up
  /\ m \in ControlPlane \/ node[m].bundle # "own" \/ ControlPlaneUp
  /\ node' = [node EXCEPT ![m].up = TRUE, ![m].registered = @ \/ node[m].bundle = "own"]
  /\ UNCHANGED <<data, secrets, cpReady, obj, queue, w, faults>>

\* What the controller watches: a restart lists every ByotMachine, an operator edits
\* this one, or the labels of its ByotHost change.  What comes during a reconcile is
\* acted on after it.
Wake(m) ==
  /\ m \notin queue /\ w[m].pc = "idle"
  /\ queue' = queue \cup {m}
  /\ UNCHANGED <<data, secrets, cpReady, obj, node, w, faults>>

\* A node answers a client with the credentials of the bundle it carries; the
\* unauthenticated client is answered in maintenance mode.
Answers(m, bundle) == node[m].up /\ node[m].bundle = bundle

Succeeds(m, bundle) == Answers(m, bundle) /\ UNCHANGED faults
Fails(m, bundle, kind) ==
  \/ ~Answers(m, bundle) /\ UNCHANGED faults
  \/ Answers(m, bundle) /\ Fault(kind)

-----------------------------------------------------------------------------
(* The reconcile.                                                          *)

\* Mutant: an adopted machine needs nothing.
AdoptedOnce(m) == obj[m].ready

configUnchanged(m) == obj[m].ready /\ obj[m].providerID /\ obj[m].sha = data[m]

\* A requeue or an error ends the reconcile.
Stop(m) == w' = [w EXCEPT ![m] = Idle] /\ queue' = queue \cup {m}
Goto(m, pc) == w' = [w EXCEPT ![m].pc = pc] /\ UNCHANGED queue
Unrecorded == UNCHANGED <<data, secrets, cpReady, obj, node>>

\* adoptionInputs, adopt and resolveApplyAuth.  Without bootstrap data, or
\* without the cluster's talosconfig where it is needed, the machine is requeued;
\* an unchanged configuration goes straight to the link.
Start(m) ==
  /\ m \in queue /\ w[m].pc = "idle" /\ data[m] # 0
  /\ obj[m].ready /\ ~configUnchanged(m) => "cluster" \in secrets
  /\ queue' = queue \ {m}
  /\ w' = [w EXCEPT ![m] =
       [Idle EXCEPT !.data = data[m], !.preflight = obj[m].preflight,
                    !.pc = IF configUnchanged(m) THEN "link"
                           ELSE IF obj[m].ready THEN "apply" ELSE "maintenance",
                    !.auth = IF obj[m].ready THEN "own" ELSE "none",
                    !.match = obj[m].ready]]
  /\ Unrecorded /\ UNCHANGED faults

Choose(m, auth, match, preflight) ==
  /\ w' = [w EXCEPT ![m].pc = "gate", ![m].auth = auth, ![m].match = match,
                    ![m].preflight = preflight]
  /\ UNCHANGED queue

\* preflightJoin, probeMaintenance.
ProbeMaintenance(m) ==
  /\ w[m].pc = "maintenance"
  /\ \/ Succeeds(m, "none") /\ Choose(m, "none", FALSE, "MaintenanceMode")
     \/ Fails(m, "none", "ProbeFails") /\ Goto(m, "bundle")
  /\ Unrecorded

\* preflightJoin, clusterTalosConfig and probeAuthenticated with it.
ProbeBundle(m) ==
  /\ w[m].pc = "bundle"
  /\ \/ "cluster" \notin secrets /\ Stop(m) /\ UNCHANGED faults
     \/ "cluster" \in secrets /\ Succeeds(m, "own") /\ Choose(m, "own", TRUE, "BundleMatch")
     \/ "cluster" \in secrets /\ Fails(m, "own", "ProbeFails") /\ Goto(m, "foreign")
  /\ Unrecorded

\* recordPreflightFailure: persisted, and the reconcile fails.
recordPreflightFailure(m, reason) ==
  obj' = [obj EXCEPT ![m].preflight = reason] /\ Stop(m)

\* Mutant: the credentials that opened the node are used to apply.
TakeOver(m) ==
  /\ w[m].pc = "foreign"
  /\ Choose(m, Credentials[m], FALSE, w[m].preflight)
  /\ Unrecorded /\ UNCHANGED faults

\* preflightForeignMachine: a machine that answers to the referenced talosconfig
\* carries another bundle; otherwise that talosconfig is tried.
ProbeReferenced(m) ==
  /\ w[m].pc = "foreign"
  /\ \/ /\ Credentials[m] = "none" /\ UNCHANGED faults
        /\ recordPreflightFailure(m, "NoCredentials")
     \/ /\ Credentials[m] # "none" /\ "referenced" \notin secrets /\ UNCHANGED faults
        /\ Stop(m) /\ UNCHANGED obj
     \/ /\ Credentials[m] # "none" /\ "referenced" \in secrets
        /\ Succeeds(m, Credentials[m])
        /\ recordPreflightFailure(m, "BundleMismatch")
     \/ /\ Credentials[m] # "none" /\ "referenced" \in secrets
        /\ Fails(m, Credentials[m], "ReferencedProbeFails")
        /\ Choose(m, Credentials[m], FALSE, w[m].preflight) /\ UNCHANGED obj
  /\ UNCHANGED <<data, secrets, cpReady, node>>

\* A patch of the reconcile: the conditions it holds.
Record(m, adopted) == [obj[m] EXCEPT !.preflight = w[m].preflight, !.adopted = adopted]

\* Mutant: only machines in maintenance mode wait for the control plane.
GateMaintenance(m) == m \in ControlPlane \/ cpReady \/ w[m].auth # "none"

ControlPlaneGate(m) == m \in ControlPlane \/ cpReady

\* awaitControlPlaneReady, on a machine's first adoption.
AwaitControlPlane(m) ==
  /\ w[m].pc = "gate"
  /\ \/ ControlPlaneGate(m) /\ Goto(m, "apply") /\ UNCHANGED obj
     \/ /\ ~ControlPlaneGate(m)
        /\ obj' = [obj EXCEPT ![m] = Record(m, "WaitingForControlPlane")]
        /\ Stop(m)
  /\ UNCHANGED <<data, secrets, cpReady, node, faults>>

recordApplyFailure(m) == obj' = [obj EXCEPT ![m] = Record(m, "ApplyFailed")] /\ Stop(m)

\* resolveInstallDisk; detectSystemDisk is best-effort: its answer may be missing.
InstallDisks(m) ==
  {resolveInstallDisk(InstallDisk[m], d) : d \in {NoDisk, selectSystemDisk(Disks[m])}}

\* What the node of m is sent, for each version and each install disk.
Sent == [m \in Machines |-> [v \in Versions |-> [disk \in InstallDisks(m) |->
           Rewrite(Bootstrap[v].docs, disk, Endpoints[m])]]]

\* The configuration takes effect.  A node that boots into it restarts; one that
\* carries the bundle already takes it in place or reboots (mode AUTO).
Configured(m, disk, up) ==
  [node[m] EXCEPT !.up = up, !.bundle = "own", !.version = w[m].data, !.disk = disk,
                  !.docs = Sent[m][w[m].data][disk]]

\* resolveInstallDisk, injectHostCertSANs and applyMachineConfig.  Data that is not
\* YAML fails before the call.
ApplyConfig(m) ==
  /\ w[m].pc = "apply"
  /\ \/ /\ Bootstrap[w[m].data].parses /\ Answers(m, w[m].auth)
        /\ \E disk \in InstallDisks(m), up \in {FALSE, w[m].auth = "own"} :
             node' = [node EXCEPT ![m] = Configured(m, disk, up)]
        /\ \/ Goto(m, "nudge") /\ UNCHANGED <<obj, faults>>
           \/ recordApplyFailure(m) /\ Fault("ApplyLost")
     \/ /\ recordApplyFailure(m) /\ UNCHANGED node
        /\ IF Bootstrap[w[m].data].parses THEN Fails(m, w[m].auth, "ApplyFails") ELSE UNCHANGED faults
  /\ UNCHANGED <<data, secrets, cpReady>>

\* Mutant: a machine that was just adopted is never nudged.
NeverNudge(m) ==
  /\ w[m].pc = "nudge"
  /\ Goto(m, "mark")
  /\ Unrecorded /\ UNCHANGED faults

\* nudgeKubeletAfterReadopt: on a re-adoption a running kubelet is restarted, and
\* registers its Node again.  A failure is not fatal.
NudgeKubelet(m) ==
  /\ w[m].pc = "nudge"
  /\ Goto(m, "mark")
  /\ \/ w[m].match /\ ~obj[m].ready /\ Succeeds(m, "own")
        /\ node' = [node EXCEPT ![m].registered = TRUE]
     \/ w[m].match /\ ~obj[m].ready /\ Fails(m, "own", "NudgeFails") /\ UNCHANGED node
     \/ (~w[m].match \/ obj[m].ready) /\ UNCHANGED <<node, faults>>
  /\ UNCHANGED <<data, secrets, cpReady, obj>>

\* Mutant: the hash of the data as it is now is recorded.
AdoptedLate(m, lost) ==
  [obj[m] EXCEPT !.preflight = w[m].preflight, !.adopted = "True", !.providerID = TRUE,
                 !.ready = TRUE, !.sha = data[m]]

\* Mutant: the rewritten configuration is hashed, which is no version's hash.
HashRewritten(m, lost) ==
  [obj[m] EXCEPT !.preflight = w[m].preflight, !.adopted = "True", !.providerID = TRUE,
                 !.ready = TRUE, !.sha = -w[m].data]

\* Mutant: the preflight condition is not written with the others.
AdoptedUnsaid(m, lost) ==
  [obj[m] EXCEPT !.adopted = "True", !.providerID = TRUE, !.ready = TRUE, !.sha = w[m].data]

\* markAdopted, with the hash of the data the reconcile read.  The patch writes the
\* conditions, the spec and the status in a call each, and makes every call even if
\* the one before failed.
Adopted(m, lost) ==
  LET landed(call, new, old) == IF call \in lost THEN old ELSE new IN
  [preflight  |-> landed("ConditionsLost", w[m].preflight, obj[m].preflight),
   adopted    |-> landed("ConditionsLost", "True", obj[m].adopted),
   providerID |-> landed("SpecLost", TRUE, obj[m].providerID),
   ready      |-> landed("StatusLost", TRUE, obj[m].ready),
   sha        |-> landed("StatusLost", w[m].data, obj[m].sha)]

\* The same reconcile goes on to reconcileAdopted; a patch of which a call failed
\* returns its error.
MarkAdopted(m) ==
  /\ w[m].pc = "mark"
  /\ \E lost \in SUBSET PatchLosses :
       /\ obj' = [obj EXCEPT ![m] = Adopted(m, lost)]
       /\ \/ lost = {} /\ Goto(m, "link") /\ UNCHANGED faults
          \/ lost # {} /\ Stop(m) /\ \A kind \in lost : Fault(kind)
  /\ UNCHANGED <<data, secrets, cpReady, node>>

\* ensureNodeLinked, of a machine that is ready and has its provider ID: queued again
\* until the owner Machine has its nodeRef, which Cluster API gives it, sooner or
\* later, from the registered Node's provider ID.
EnsureLinked(m) ==
  /\ w[m].pc = "link"
  /\ w' = [w EXCEPT ![m] = Idle]
  /\ \/ queue' = queue \cup {m}
     \/ node[m].registered /\ UNCHANGED queue
  /\ Unrecorded /\ UNCHANGED faults

\* A crash, or an API error, ends the reconcile wherever it is.
Abort(m) ==
  /\ w[m].pc # "idle"
  /\ Fault("Abort")
  /\ Stop(m)
  /\ Unrecorded

-----------------------------------------------------------------------------

ReconcileStep(m) ==
  \/ Start(m) \/ ProbeMaintenance(m) \/ ProbeBundle(m) \/ ProbeReferenced(m)
  \/ AwaitControlPlane(m) \/ ApplyConfig(m) \/ NudgeKubelet(m) \/ MarkAdopted(m)
  \/ EnsureLinked(m)

Next ==
  \/ ReportControlPlane
  \/ \E s \in {"cluster", "referenced"} : PublishSecret(s)
  \/ \E m \in Machines :
       ReconcileStep(m) \/ Abort(m) \/ PublishData(m) \/ Boot(m) \/ Wake(m)

Spec == Init /\ [][Next]_vars

-----------------------------------------------------------------------------
(* Properties.                                                             *)

\* Every variable keeps its type.
TypeOK ==
  /\ data \in [Machines -> Versions \cup {0}]
  /\ secrets \subseteq {"cluster", "referenced"}
  /\ cpReady \in BOOLEAN
  /\ obj \in [Machines -> Object]
  /\ DOMAIN node = Machines
  /\ \A m \in Machines :
       /\ {node[m].up, node[m].registered} \subseteq BOOLEAN
       /\ node[m].bundle \in Bundles /\ node[m].version \in Versions \cup {0}
  /\ queue \subseteq Machines
  /\ w \in [Machines -> Work]
  /\ faults \in 0..MaxFaults

\* awaitControlPlaneReady: a worker is given its first configuration only after a
\* control-plane node carries one, or its apid could never finish booting; however
\* the machine was reached, and whatever was interrupted before.
ControlPlaneFirst ==
  \A m \in Machines \ ControlPlane :
    node[m].version # 0 => \E c \in ControlPlane : node[c].bundle = "own"

\* preflightJoin: a machine with a foreign bundle fails the preflight "instead of
\* being silently misconfigured".
ForeignPreserved ==
  [][\A m \in Machines : node[m].bundle = "foreign" => node'[m].bundle = "foreign"]_vars

\* lastAppliedConfigSHA: what is recorded as applied was applied.  The node carries
\* it, or a later version whose record was interrupted.
RecordedWasApplied ==
  \A m \in Machines : obj[m].ready => node[m].bundle = "own" /\ node[m].version >= obj[m].sha

\* injectInstallDisk, injectCertSANs: the node runs every document of the bootstrap
\* data, with the operator's disk, disk selector and SANs untouched.
DocumentsSurvive ==
  [][\A m \in Machines : node'[m].docs # node[m].docs =>
       Rewritten(Bootstrap[node'[m].version].docs, node'[m].docs, node'[m].disk,
                 Endpoints[m])]_vars

\* Join preflight: an adopted machine's JoinPreflight condition says that it
\* passed, whatever was recorded while the machine could not be reached.
AdoptedPassedPreflight == \A m \in Machines : obj[m].ready => obj[m].preflight \in Passed

-----------------------------------------------------------------------------
(* Liveness.  A queued machine is reconciled, and every wait and every     *)
(* error queues it again; nodes boot, and the secrets and the data are     *)
(* generated.  Nothing is assumed of what else may queue a machine.        *)

Provision ==
  \/ \E s \in {"cluster", "referenced"} : PublishSecret(s)
  \/ \E m \in Machines : data[m] = 0 /\ PublishData(m)

Fairness ==
  /\ \A m \in Machines : WF_vars(ReconcileStep(m)) /\ WF_vars(Boot(m))
  /\ WF_vars(Provision)
  /\ WF_vars(~cpReady /\ ReportControlPlane)

LiveSpec == Spec /\ Fairness

\* The versions that can be applied: data that is not YAML never is.
Applicable(m) == {v \in 1..MaxVersion[m] : Bootstrap[v].parses}

\* Version v of the data of m is on its node and recorded, unless the node is
\* another cluster's machine.
Landed(m, v) ==
  \/ obj[m].ready /\ obj[m].sha = v /\ node[m].version = v
  \/ node[m].bundle = "foreign"

\* adopt, configUnchanged: a machine that is queued gets the bootstrap data there is,
\* whatever crash, lost answer or failed probe comes in the middle, unless newer data
\* replaces it; and the control plane's wait for its own nodes never becomes a wait
\* of everyone on everyone.
ConfigLands ==
  \A m \in Machines : \A v \in Applicable(m) :
    (m \in queue /\ data[m] = v) ~> (Landed(m, v) \/ data[m] # v)

\* "When the bootstrap data changes, the controller re-applies the new configuration":
\* not kept (README, Refuted statements), because nothing queues a linked machine.
LatestLands ==
  \A m \in Machines : \A v \in Applicable(m) : data[m] = v ~> (Landed(m, v) \/ data[m] # v)

\* nudgeKubeletAfterReadopt: the Node of an adopted machine is registered in the
\* end, whether the machine rebooted into its configuration or carried it already.
Rejoins == \A m \in Machines : obj[m].ready ~> node[m].registered
=============================================================================

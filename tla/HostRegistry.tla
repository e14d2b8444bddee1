---------------------------- MODULE HostRegistry ----------------------------
(***************************************************************************)
(* The host registry of cluster-api-provider-bringyourowntalos: ByotHost   *)
(* and ByotMachine objects on the API server, and the two controllers that *)
(* write them (pkg/controller/byothost_controller.go, claim.go and the     *)
(* claim, adopt and delete paths of byotmachine_controller.go).            *)
(*                                                                         *)
(* One action is one API call or one exchange with a Talos node.  Between  *)
(* two actions of a reconcile any other worker may run, which is what the  *)
(* controllers meet: the work queue runs at most one reconcile per object  *)
(* and controller, and the number of workers is the caller's choice        *)
(* (SetupWithManager's options).                                           *)
(*                                                                         *)
(* resourceVersion is abstracted to the only question the code asks of it: *)
(* "is my copy still the newest?"  latest[h] is the set of clients whose   *)
(* copy of host h carries the current resourceVersion; every write empties *)
(* it.  Update and Status().Update succeed only for a client in that set.  *)
(* patch.Helper writes the fields that differ from its base and asks       *)
(* nothing.                                                                *)
(***************************************************************************)
EXTENDS Integers, FiniteSets

CONSTANTS
  Hosts,             \* the ByotHosts, numbered in the order of their names
  Machines,          \* the ByotMachines, by UID
  None,              \* nil claimRef, empty resolvedHost
  Keep,              \* a field a merge patch does not mention
  Eligible,          \* Eligible[m]: {hostRef}, or the hosts that match m's
                     \* hostSelector and failureDomain
  FailureThreshold,  \* hostFailureThreshold
  MixedHosts,        \* hosts with GPUs of more than one vendor:device pair
  Retired,           \* the hosts and machines that are ever deleted
  Faults             \* which of the failures below the run allows

\* An aborted reconcile (a crashed manager, a failed API call), informer caches
\* that lag behind the API server, one per kind of object, and a
\* reconcileDelete cut short after its release.
FaultKinds == {"Abort", "HostLag", "MachineLag", "ReleaseRetry"}

Phases == {"", "Probing", "Available", "Unavailable", "Claimed", "Releasing"}

\* The clients of the API server besides the machine reconciles.
Cache == "cache"
HostWorker == "hostWorker"
Worker == "worker"

ASSUME HostsAssumption == Hosts \subseteq Nat
ASSUME NoneAssumption == None \notin Hosts \cup Machines
ASSUME KeepAssumption ==
  Keep \notin Hosts \cup Machines \cup {None} \cup Nat \cup BOOLEAN \cup Phases
ASSUME MachinesAssumption ==
  Machines \cap {Cache, HostWorker, "maintenance", "booting"} = {}
ASSUME EligibleAssumption == Eligible \in [Machines -> SUBSET Hosts]
ASSUME ThresholdAssumption == FailureThreshold \in Nat \ {0}
ASSUME FaultsAssumption == MixedHosts \subseteq Hosts /\ Faults \subseteq FaultKinds

VARIABLES
  host,         \* the ByotHost objects on the API server
  machine,      \* the ByotMachine objects on the API server
  node,         \* the Talos nodes: "maintenance", "booting", or the machine
                \* whose configuration the node carries
  hw,           \* the ByotHost controller's reconcile of each host
  mw,           \* the ByotMachine controller's reconcile of each machine
  hostCache, machineCache,    \* the informer cache both controllers read
  latest, machineLatest       \* who holds the current resourceVersion

vars == <<host, machine, node, hw, mw, hostCache, machineCache, latest, machineLatest>>

-----------------------------------------------------------------------------
(* State.                                                                  *)

Lives == {"live", "deleting", "gone"}

\* A ByotHost: deletion state, protection finalizer, and the status the
\* controllers act on: phase, claimRef, the MaintenanceProbe and Discovered
\* conditions (TRUE when the condition is True) and probeFailureCount.
HostStatus == [phase: Phases, claimRef: Machines \cup {None}, probed: BOOLEAN,
               discovered: BOOLEAN, failures: 0..FailureThreshold]
HostObject == [life: Lives, finalizer: BOOLEAN, status: HostStatus]

\* A ByotMachine: deletion state, finalizer, status.resolvedHost, and
\* status.ready (set with lastAppliedConfigSHA once the config is applied).
MachineStatus == [resolvedHost: Hosts \cup {None}, ready: BOOLEAN]
MachineObject == [life: Lives, finalizer: BOOLEAN, status: MachineStatus]

\* A merge patch of a host's status: the fields that differ from the base,
\* Keep elsewhere.
HostPatch == [phase: {Keep, "Available", "Probing", "Unavailable"}, claimRef: {Keep, None},
              probed: BOOLEAN \cup {Keep}, discovered: BOOLEAN \cup {Keep},
              failures: 0..FailureThreshold \cup {Keep}]

\* A host reconcile: the call it is about to make, the status it read (the
\* patch helper's base) and, once the node was asked, the patch it will send.
HostSteps == {"idle", "probe", "conditions", "status", "unfinalize"}
HostWork == [pc: HostSteps, base: HostStatus, patch: HostPatch]

\* A machine reconcile: the call it is about to make, the status it read (the
\* patch helper's base) and the host it works on.
MachineSteps == {"idle", "verify", "select", "get", "cas", "record", "apply", "ready",
                 "release", "wipe", "freeAvailable", "freeReleasing", "unfinalize"}
MachineWork == [pc: MachineSteps, base: MachineStatus, host: Hosts \cup {None}]

NewHostStatus == [phase |-> "", claimRef |-> None, probed |-> FALSE,
                  discovered |-> FALSE, failures |-> 0]
NewHost == [life |-> "live", finalizer |-> FALSE, status |-> NewHostStatus]
NewMachineStatus == [resolvedHost |-> None, ready |-> FALSE]
NewMachine == [life |-> "live", finalizer |-> FALSE, status |-> NewMachineStatus]

\* An object the API server no longer has.
GoneHost == [NewHost EXCEPT !.life = "gone"]
GoneMachine == [NewMachine EXCEPT !.life = "gone"]

NoPatch == [phase |-> Keep, claimRef |-> Keep, probed |-> Keep, discovered |-> Keep,
            failures |-> Keep]
IdleHost == [pc |-> "idle", base |-> NewHostStatus, patch |-> NoPatch]
IdleMachine == [pc |-> "idle", base |-> NewMachineStatus, host |-> None]

\* Freshly registered hosts in maintenance mode, freshly created machines.
Init ==
  /\ host = [h \in Hosts |-> NewHost]
  /\ machine = [m \in Machines |-> NewMachine]
  /\ node = [h \in Hosts |-> "maintenance"]
  /\ hw = [h \in Hosts |-> IdleHost]
  /\ mw = [m \in Machines |-> IdleMachine]
  /\ hostCache = host
  /\ machineCache = machine
  /\ latest = [h \in Hosts |-> {}]
  /\ machineLatest = [m \in Machines |-> {}]

-----------------------------------------------------------------------------
(* The API server and its client.                                          *)

\* What Client.Get and Client.List return: the cached object.
SeenHost(h) == IF "HostLag" \in Faults THEN hostCache[h] ELSE host[h]
SeenMachine(m) == IF "MachineLag" \in Faults THEN machineCache[m] ELSE machine[m]

\* Client c now holds the object the cache had, current or not.
ReadHost(c, h) ==
  latest' = [latest EXCEPT ![h] =
               IF "HostLag" \in Faults /\ Cache \notin @ THEN @ \ {c} ELSE @ \cup {c}]

ReadMachine(m) ==
  machineLatest' = [machineLatest EXCEPT ![m] =
               IF "MachineLag" \in Faults /\ Cache \notin @ THEN @ \ {Worker} ELSE @ \cup {Worker}]

\* A write gives the object a new resourceVersion, which no client holds.
WriteHost(h, o) == /\ host' = [host EXCEPT ![h] = o]
                   /\ latest' = [latest EXCEPT ![h] = {}]

WriteMachine(m, o) == /\ machine' = [machine EXCEPT ![m] = o]
                      /\ machineLatest' = [machineLatest EXCEPT ![m] = {}]

KeepHost == UNCHANGED <<host, latest>>
KeepMachine == UNCHANGED <<machine, machineLatest>>
KeepCache == UNCHANGED <<hostCache, machineCache>>

\* What patch.Helper sends for a field, and what the server makes of it: a
\* field that does not differ from the base is left as it is on the server.
Changed(base, new) == IF new = base THEN Keep ELSE new

Merge(server, change) == IF change = Keep THEN server ELSE change

\* The watch delivers the newest version of an object to the cache.
SyncHost(h) ==
  /\ "HostLag" \in Faults /\ Cache \notin latest[h]
  /\ hostCache' = [hostCache EXCEPT ![h] = host[h]]
  /\ latest' = [latest EXCEPT ![h] = @ \cup {Cache}]
  /\ UNCHANGED <<host, machine, node, hw, mw, machineCache, machineLatest>>

SyncMachine(m) ==
  /\ "MachineLag" \in Faults /\ Cache \notin machineLatest[m]
  /\ machineCache' = [machineCache EXCEPT ![m] = machine[m]]
  /\ machineLatest' = [machineLatest EXCEPT ![m] = @ \cup {Cache}]
  /\ UNCHANGED <<host, machine, node, hw, mw, hostCache, latest>>

-----------------------------------------------------------------------------
(* Operators and machines outside the controllers.                         *)

\* An object under a finalizer is only marked for deletion.
Delete(o, gone) == IF o.finalizer THEN [o EXCEPT !.life = "deleting"] ELSE gone

DeleteHost(h) ==
  /\ h \in Retired /\ host[h].life = "live"
  /\ WriteHost(h, Delete(host[h], GoneHost))
  /\ KeepMachine /\ KeepCache /\ UNCHANGED <<node, hw, mw>>

DeleteMachine(m) ==
  /\ m \in Retired /\ machine[m].life = "live"
  /\ WriteMachine(m, Delete(machine[m], GoneMachine))
  /\ KeepHost /\ KeepCache /\ UNCHANGED <<node, hw, mw>>

\* A reset node comes up again without a configuration.
NodeBooted(h) ==
  /\ node[h] = "booting"
  /\ node' = [node EXCEPT ![h] = "maintenance"]
  /\ KeepHost /\ KeepMachine /\ KeepCache /\ UNCHANGED <<hw, mw>>

-----------------------------------------------------------------------------
(* The ByotHost controller.                                                *)

\* The node answers the maintenance API.
InMaintenance(h) == node[h] = "maintenance"

\* The hardware facts themselves are not modelled, only the condition: False on
\* a host with mixed GPUs.
populateFromDiscovery(h, s) == [s EXCEPT !.discovered = h \notin MixedHosts]

\* What reconcileProbing, reconcileUnavailable and reconcileReleasing do with
\* a successful discovery.
MarkAvailable(h, s) ==
  [populateFromDiscovery(h, s) EXCEPT !.phase = "Available", !.probed = TRUE, !.failures = 0]

recordDiscoveryFailure(s) ==
  [s EXCEPT !.phase = "Probing", !.probed = FALSE, !.discovered = FALSE]

\* Mutant: the threshold is compared with the count before this failure.
recordProbeFailureLate(s) ==
  [s EXCEPT !.failures = @ + 1, !.probed = FALSE,
            !.phase = IF s.failures >= FailureThreshold THEN "Unavailable" ELSE @]

\* The counter stops at FailureThreshold: from there on every failure acts alike.
recordProbeFailure(s) ==
  [s EXCEPT !.failures = IF @ < FailureThreshold THEN @ + 1 ELSE @, !.probed = FALSE,
            !.phase = IF s.failures + 1 >= FailureThreshold THEN "Unavailable" ELSE @]

\* The statuses each handler may ask for.  A call to the node may always fail,
\* and succeeds only against a node in maintenance mode.
reconcileProbing(h, s) ==
  {recordDiscoveryFailure(s)} \cup (IF InMaintenance(h) THEN {MarkAvailable(h, s)} ELSE {})

reconcileAvailable(h, s) ==
  {recordProbeFailure(s)}
    \cup (IF InMaintenance(h) THEN {[s EXCEPT !.probed = TRUE, !.failures = 0]} ELSE {})

reconcileUnavailable(h, s) ==
  {s} \cup (IF InMaintenance(h) THEN {recordDiscoveryFailure(s), MarkAvailable(h, s)} ELSE {})

reconcileReleasing(h, s) ==
  {s} \cup (IF InMaintenance(h)
              THEN {recordDiscoveryFailure(s), [MarkAvailable(h, s) EXCEPT !.claimRef = None]}
              ELSE {})

\* The phase dispatch; a Claimed host is left alone.
reconcileHost(h, s) ==
  CASE s.phase \in {"", "Probing"} -> reconcileProbing(h, s)
    [] s.phase = "Available"       -> reconcileAvailable(h, s)
    [] s.phase = "Unavailable"     -> reconcileUnavailable(h, s)
    [] s.phase = "Releasing"       -> reconcileReleasing(h, s)
    [] OTHER                       -> {}

\* Mutant: no finalizer.
NoHostFinalizer(h, o) == KeepHost

\* Reconcile, AddFinalizer: write the finalizer if the copy o lacks it.
EnsureHostFinalizer(h, o) ==
  IF o.finalizer \/ host[h].finalizer
    THEN KeepHost
    ELSE WriteHost(h, [host[h] EXCEPT !.finalizer = TRUE])

\* Reconcile of a live host: read it, ensure the finalizer (refused once the
\* object is gone), snapshot the patch base.
HostReconcile(h) ==
  LET o == SeenHost(h) IN
  /\ hw[h].pc = "idle"
  /\ o.life = "live" /\ o.status.phase # "Claimed"
  /\ o.finalizer \/ host[h].life # "gone"
  /\ hw' = [hw EXCEPT ![h] = [IdleHost EXCEPT !.pc = "probe", !.base = o.status]]
  /\ EnsureHostFinalizer(h, o)
  /\ KeepMachine /\ KeepCache /\ UNCHANGED <<node, mw>>

\* The patch that takes status b to status s.
PatchFor(b, s) ==
  [phase |-> Changed(b.phase, s.phase), claimRef |-> Changed(b.claimRef, s.claimRef),
   probed |-> Changed(b.probed, s.probed), discovered |-> Changed(b.discovered, s.discovered),
   failures |-> Changed(b.failures, s.failures)]

\* The handler's exchange with the node, and the patch it makes of the answer.
\* A condition may change its message only, which is written all the same.
HostProbe(h) ==
  LET b == hw[h].base IN
  /\ hw[h].pc = "probe"
  /\ \E s \in reconcileHost(h, b), pc \in {"conditions", "status"} :
       /\ pc = "status" => <<s.probed, s.discovered>> = <<b.probed, b.discovered>>
       /\ hw' = [hw EXCEPT ![h] = [IdleHost EXCEPT !.pc = pc, !.patch = PatchFor(b, s)]]
  /\ KeepHost /\ KeepMachine /\ KeepCache /\ UNCHANGED <<node, mw>>

\* The two writes of patch.Helper: the conditions, and the rest of the status.
MergeConditions(s, p) ==
  [s EXCEPT !.probed = Merge(@, p.probed), !.discovered = Merge(@, p.discovered)]
MergeStatus(s, p) ==
  [s EXCEPT !.phase = Merge(@, p.phase), !.claimRef = Merge(@, p.claimRef),
            !.failures = Merge(@, p.failures)]

\* patchHost: patch.Helper writes the conditions first (if they changed).
HostPatchConditions(h) ==
  /\ hw[h].pc = "conditions"
  /\ hw' = [hw EXCEPT ![h].pc = "status"]
  /\ IF host[h].life # "gone"
       THEN WriteHost(h, [host[h] EXCEPT !.status = MergeConditions(@, hw[h].patch)])
       ELSE KeepHost
  /\ KeepMachine /\ KeepCache /\ UNCHANGED <<node, mw>>

\* patchHost: then the rest of the status (lastProbedAt always changes).
HostPatchStatus(h) ==
  /\ hw[h].pc = "status"
  /\ hw' = [hw EXCEPT ![h] = IdleHost]
  /\ IF host[h].life # "gone"
       THEN WriteHost(h, [host[h] EXCEPT !.status = MergeStatus(@, hw[h].patch)])
       ELSE KeepHost
  /\ KeepMachine /\ KeepCache /\ UNCHANGED <<node, mw>>

\* Mutant: a claimed host is not kept.
DeletableClaimed(o) == o.life = "deleting"

\* reconcileDelete: a claimed host is kept.
Deletable(o) == o.life = "deleting" /\ o.status.claimRef = None

HostReconcileDelete(h) ==
  LET o == SeenHost(h) IN
  /\ hw[h].pc = "idle"
  /\ Deletable(o)
  /\ hw' = [hw EXCEPT ![h] = [IdleHost EXCEPT !.pc = "unfinalize"]]
  /\ ReadHost(HostWorker, h)
  /\ KeepMachine /\ KeepCache /\ UNCHANGED <<host, node, mw>>

\* reconcileDelete: the Update that drops the finalizer, or a conflict.
HostUnfinalize(h) ==
  /\ hw[h].pc = "unfinalize"
  /\ hw' = [hw EXCEPT ![h] = IdleHost]
  /\ IF HostWorker \in latest[h]
       THEN WriteHost(h, GoneHost)
       ELSE KeepHost
  /\ KeepMachine /\ KeepCache /\ UNCHANGED <<node, mw>>

\* A crash, or an API error, ends the reconcile wherever it is.
HostAbort(h) ==
  /\ "Abort" \in Faults
  /\ hw[h].pc # "idle"
  /\ hw' = [hw EXCEPT ![h] = IdleHost]
  /\ KeepHost /\ KeepMachine /\ KeepCache /\ UNCHANGED <<node, mw>>

-----------------------------------------------------------------------------
(* The ByotMachine controller: claim and adopt.                            *)

Goto(m, pc) == mw' = [mw EXCEPT ![m].pc = pc]
Stop(m) == mw' = [mw EXCEPT ![m] = IdleMachine]

\* adopt, once the machine holds a host: apply the configuration unless it
\* already was.
Adopt(m) == IF mw[m].base.ready THEN Stop(m) ELSE Goto(m, "apply")

\* Reconcile of a live machine: read it, ensure the finalizer, start adopt.
MachineReconcile(m) ==
  LET o == SeenMachine(m) IN
  /\ mw[m].pc = "idle"
  /\ o.life = "live"
  /\ o.finalizer \/ machine[m].life # "gone"
  /\ mw' = [mw EXCEPT ![m] =
              [pc |-> IF o.status.resolvedHost = None THEN "select" ELSE "verify",
               base |-> o.status, host |-> o.status.resolvedHost]]
  /\ IF o.finalizer \/ machine[m].finalizer
       THEN KeepMachine
       ELSE WriteMachine(m, [machine[m] EXCEPT !.finalizer = TRUE])
  /\ KeepHost /\ KeepCache /\ UNCHANGED <<node, hw>>

\* Mutant: a host whose phase was overwritten counts as lost.
HoldsInPhase(m, o) == o.status.phase = "Claimed" /\ o.status.claimRef = m

Holds(m, o) == o.life # "gone" /\ o.status.claimRef = m

\* verifyExistingClaim: the resolved host still names this machine.
KeepClaim(m) ==
  /\ mw[m].pc = "verify"
  /\ Holds(m, SeenHost(mw[m].host))
  /\ Adopt(m)
  /\ KeepHost /\ KeepMachine /\ KeepCache /\ UNCHANGED <<node, hw>>

\* verifyExistingClaim and clearResolvedHost: it does not; forget the host
\* and claim one.
clearResolvedHost(m) ==
  /\ mw[m].pc = "verify"
  /\ ~Holds(m, SeenHost(mw[m].host))
  /\ IF machine[m].life # "gone"
       THEN /\ WriteMachine(m, [machine[m] EXCEPT !.status.resolvedHost = None])
            /\ mw' = [mw EXCEPT ![m].pc = "select", ![m].host = None]
       ELSE KeepMachine /\ Stop(m)
  /\ KeepHost /\ KeepCache /\ UNCHANGED <<node, hw>>

\* resolveHostRef and filterClaimCandidates: Available, liveness confirmed,
\* unclaimed or claimed by this machine.
Candidate(m, o) == /\ o.life # "gone" /\ o.status.phase = "Available" /\ o.status.probed
                   /\ o.status.claimRef \in {None, m}

FirstByName(S) == CHOOSE h \in S : \A g \in S : h <= g

\* resolveClaimCandidate: the first candidate by name, or wait.
SelectHost(m) ==
  LET candidates == {h \in Eligible[m] : Candidate(m, SeenHost(h))} IN
  /\ mw[m].pc = "select"
  /\ IF candidates = {}
       THEN Stop(m)
       ELSE mw' = [mw EXCEPT ![m].pc = "get", ![m].host = FirstByName(candidates)]
  /\ KeepHost /\ KeepMachine /\ KeepCache /\ UNCHANGED <<node, hw>>

\* Mutant: the claimRef is not re-checked.
UnclaimedOnce(m, o) == o.life # "gone"

\* claimCAS re-reads the host and re-checks its claimRef, and nothing else.
Unclaimed(m, o) == o.life # "gone" /\ o.status.claimRef \in {None, m}

ClaimGet(m) ==
  /\ mw[m].pc = "get"
  /\ IF Unclaimed(m, SeenHost(mw[m].host))
       THEN /\ ReadHost(m, mw[m].host) /\ Goto(m, "cas")
       ELSE UNCHANGED latest /\ Stop(m)
  /\ KeepMachine /\ KeepCache /\ UNCHANGED <<host, node, hw>>

\* Mutant: an update without optimistic lock.
ClaimUnlocked(m) ==
  /\ mw[m].pc = "cas"
  /\ WriteHost(mw[m].host, [host[mw[m].host] EXCEPT !.status.claimRef = m, !.status.phase = "Claimed"])
  /\ Goto(m, "record")
  /\ KeepMachine /\ KeepCache /\ UNCHANGED <<node, hw>>

\* claimCAS: the status update, or a conflict.  AddFinalizer finds the
\* finalizer in place (FinalizerFirst).
ClaimCAS(m) ==
  LET h == mw[m].host IN
  /\ mw[m].pc = "cas"
  /\ IF m \in latest[h]
       THEN /\ WriteHost(h, [host[h] EXCEPT !.status.claimRef = m, !.status.phase = "Claimed"])
            /\ Goto(m, "record")
       ELSE KeepHost /\ Stop(m)
  /\ KeepMachine /\ KeepCache /\ UNCHANGED <<node, hw>>

\* Mutant: the claim is not recorded.
AdoptUnrecorded(m) ==
  /\ mw[m].pc = "record"
  /\ Adopt(m)
  /\ KeepHost /\ KeepMachine /\ KeepCache /\ UNCHANGED <<node, hw>>

\* claimHost: record the claim in the machine's status, through a patch
\* helper whose base is what the reconcile read first.
RecordClaim(m) ==
  /\ mw[m].pc = "record"
  /\ IF machine[m].life # "gone"
       THEN /\ WriteMachine(m, [machine[m] EXCEPT !.status.resolvedHost =
                                  Merge(@, Changed(mw[m].base.resolvedHost, mw[m].host))])
            /\ Adopt(m)
       ELSE KeepMachine /\ Stop(m)
  /\ KeepHost /\ KeepCache /\ UNCHANGED <<node, hw>>

\* Mutant: a failed apply is not noticed.
ApplyUnanswered(m) ==
  LET h == mw[m].host IN
  /\ mw[m].pc = "apply"
  /\ node' = [node EXCEPT ![h] = IF @ = "booting" THEN @ ELSE m]
  /\ Goto(m, "ready")
  /\ KeepHost /\ KeepMachine /\ KeepCache /\ UNCHANGED hw

\* applyAndMarkAdopted: the node takes the configuration in maintenance mode,
\* or over the cluster's PKI bundle if it carries one.
ApplyConfig(m) ==
  LET h == mw[m].host IN
  /\ mw[m].pc = "apply"
  /\ IF node[h] # "booting"
       THEN node' = [node EXCEPT ![h] = m] /\ Goto(m, "ready")
       ELSE UNCHANGED node /\ Stop(m)
  /\ KeepHost /\ KeepMachine /\ KeepCache /\ UNCHANGED hw

\* markAdopted: ready and lastAppliedConfigSHA, in one patch.
MarkAdopted(m) ==
  /\ mw[m].pc = "ready"
  /\ IF machine[m].life # "gone"
       THEN WriteMachine(m, [machine[m] EXCEPT !.status.ready = TRUE])
       ELSE KeepMachine
  /\ Stop(m)
  /\ KeepHost /\ KeepCache /\ UNCHANGED <<node, hw>>

-----------------------------------------------------------------------------
(* The ByotMachine controller: release and delete.                         *)

\* reconcileDelete: release the resolved host first, if there is one.
MachineReconcileDelete(m) ==
  LET o == SeenMachine(m) IN
  /\ mw[m].pc = "idle"
  /\ o.life = "deleting"
  /\ mw' = [mw EXCEPT ![m] =
              [IdleMachine EXCEPT !.pc = IF o.status.resolvedHost = None THEN "unfinalize" ELSE "release",
                                  !.host = o.status.resolvedHost]]
  /\ ReadMachine(m)
  /\ KeepHost /\ KeepCache /\ UNCHANGED <<machine, node, hw>>

\* releaseHost reads the host; its claimRef is not looked at.
ReleaseGet(m) ==
  LET h == mw[m].host IN
  /\ mw[m].pc = "release"
  /\ IF SeenHost(h).life = "gone"
       THEN UNCHANGED latest /\ Goto(m, "unfinalize")
       ELSE ReadHost(m, h) /\ Goto(m, "wipe")
  /\ KeepMachine /\ KeepCache /\ UNCHANGED <<host, node, hw>>

\* Mutant: the node is not probed.
ReleaseUnprobed(m) ==
  /\ mw[m].pc = "wipe"
  /\ Goto(m, "freeAvailable")
  /\ KeepHost /\ KeepMachine /\ KeepCache /\ UNCHANGED <<node, hw>>

\* releaseHost: a node in maintenance mode carries no configuration.
ReleaseKeep(m) ==
  /\ mw[m].pc = "wipe"
  /\ InMaintenance(mw[m].host)
  /\ Goto(m, "freeAvailable")
  /\ KeepHost /\ KeepMachine /\ KeepCache /\ UNCHANGED <<node, hw>>

\* releaseHost, attemptReset: any other node is reset with one of the
\* credentials the controller has.
ReleaseReset(m) ==
  LET h == mw[m].host IN
  /\ mw[m].pc = "wipe"
  /\ node[h] # "booting"
  /\ node' = [node EXCEPT ![h] = "booting"]
  /\ Goto(m, "freeReleasing")
  /\ KeepHost /\ KeepMachine /\ KeepCache /\ UNCHANGED hw

\* releaseHost: no credential works, or the node does not answer; retry later.
ReleaseFailed(m) ==
  /\ mw[m].pc = "wipe"
  /\ Stop(m)
  /\ KeepHost /\ KeepMachine /\ KeepCache /\ UNCHANGED <<node, hw>>

\* Mutant: the phase of a reset host is not written.
FreedUnphased(pc) == IF pc = "freeAvailable" THEN "Available" ELSE "Claimed"

\* What releaseHost writes.
FreedPhase(pc) == IF pc = "freeAvailable" THEN "Available" ELSE "Releasing"

\* Mutants: the claimRef stays; the reconcile ends with the release.
FreedStatusClaimed(s, pc) == [s EXCEPT !.phase = FreedPhase(pc)]
StopAfterRelease(m) == Stop(m)

FreedStatus(s, pc) == [s EXCEPT !.phase = FreedPhase(pc), !.claimRef = None]
GoOnToUnfinalize(m) == Goto(m, "unfinalize")

\* releaseHost: the status update that gives the host back, or a conflict.
ReleaseFree(m) ==
  LET h == mw[m].host IN
  /\ mw[m].pc \in {"freeAvailable", "freeReleasing"}
  /\ IF m \in latest[h]
       THEN /\ WriteHost(h, [host[h] EXCEPT !.status = FreedStatus(@, mw[m].pc)])
            /\ GoOnToUnfinalize(m)
       ELSE KeepHost /\ Stop(m)
  /\ KeepMachine /\ KeepCache /\ UNCHANGED <<node, hw>>

\* reconcileDelete: the Update that drops the finalizer, or a conflict.
MachineUnfinalize(m) ==
  /\ mw[m].pc = "unfinalize"
  /\ IF Worker \in machineLatest[m]
       THEN WriteMachine(m, GoneMachine)
       ELSE KeepMachine
  /\ Stop(m)
  /\ KeepHost /\ KeepCache /\ UNCHANGED <<node, hw>>

\* A crash or an API error ends the reconcile; between the release and the
\* finalizer's removal it makes the next reconcile release once more.
MachineAbort(m) ==
  /\ mw[m].pc # "idle"
  /\ IF mw[m].pc = "unfinalize" THEN "ReleaseRetry" \in Faults ELSE "Abort" \in Faults
  /\ Stop(m)
  /\ KeepHost /\ KeepMachine /\ KeepCache /\ UNCHANGED <<node, hw>>

-----------------------------------------------------------------------------

HostStep(h) ==
  \/ HostReconcile(h) \/ HostProbe(h) \/ HostPatchConditions(h) \/ HostPatchStatus(h)
  \/ HostReconcileDelete(h) \/ HostUnfinalize(h)

ClaimStep(m) ==
  \/ MachineReconcile(m) \/ KeepClaim(m) \/ clearResolvedHost(m) \/ SelectHost(m)
  \/ ClaimGet(m) \/ ClaimCAS(m) \/ RecordClaim(m) \/ ApplyConfig(m) \/ MarkAdopted(m)

ReleaseStep(m) ==
  \/ MachineReconcileDelete(m) \/ ReleaseGet(m) \/ ReleaseKeep(m) \/ ReleaseReset(m)
  \/ ReleaseFailed(m) \/ ReleaseFree(m) \/ MachineUnfinalize(m)

Next ==
  \/ \E h \in Hosts : \/ HostStep(h) \/ HostAbort(h)
                      \/ DeleteHost(h) \/ NodeBooted(h) \/ SyncHost(h)
  \/ \E m \in Machines : \/ ClaimStep(m) \/ ReleaseStep(m) \/ MachineAbort(m)
                         \/ DeleteMachine(m) \/ SyncMachine(m)

Spec == Init /\ [][Next]_vars

-----------------------------------------------------------------------------
(* Properties.                                                             *)

\* Every variable keeps its type.
TypeOK ==
  /\ host \in [Hosts -> HostObject]
  /\ machine \in [Machines -> MachineObject]
  /\ node \in [Hosts -> Machines \cup {"maintenance", "booting"}]
  /\ hw \in [Hosts -> HostWork]
  /\ mw \in [Machines -> MachineWork]
  /\ hostCache \in [Hosts -> HostObject]
  /\ machineCache \in [Machines -> MachineObject]
  /\ latest \in [Hosts -> SUBSET (Machines \cup {Cache, HostWorker})]
  /\ machineLatest \in [Machines -> SUBSET {Cache, Worker}]

Present(h) == host[h].life # "gone"
Claimed(h) == host[h].status.claimRef # None

FinalizedFirst(o) ==
  o.life # "gone" /\ (o.status.claimRef # None \/ o.status.phase # "") => o.finalizer

\* Deletion is held off from the first reconcile on: a host that has left the
\* initial phase carries the protection finalizer, so the AddFinalizer that
\* ends claimCAS never has a write to make (and never fails half way).
FinalizerFirst == \A h \in Hosts : FinalizedFirst(host[h])

\* The two controllers' unlocked patches and locked updates never combine into
\* a host that is Claimed by nobody, or Releasing while a machine holds it.
PhaseMatchesClaim ==
  \A h \in Hosts :
    /\ host[h].status.phase = "Claimed" => Claimed(h)
    /\ host[h].status.phase = "Releasing" => ~Claimed(h)

\* claimCAS: the first writer wins.  A claim passes to another machine only
\* after it was given back, whatever the two controllers, a lagging cache, an
\* aborted reconcile or a repeated release do in between.
ClaimNeverStolen ==
  [][\A h \in Hosts : Claimed(h) =>
        host[h].status.claimRef' \in {host[h].status.claimRef, None}]_vars

\* ByotHostReconciler.reconcileDelete: no host disappears under a machine that
\* holds it, even one that claims it while its deletion is under way.
ClaimedHostStays ==
  [][\A h \in Hosts : Claimed(h) => host'[h].life # "gone"]_vars

\* A reconcile that configures a node, or is about to wipe one, does so for the
\* machine that holds the host.
ActsOnOwnHost ==
  \A m \in Machines :
    mw[m].pc \in {"apply", "ready", "wipe"} => host[mw[m].host].status.claimRef = m

\* releaseHost gives a host back only wiped: no machine's configuration is left
\* on a node that the next machine may claim.
UnclaimedIsClean ==
  \A h \in Hosts : Present(h) /\ ~Claimed(h) => node[h] \notin Machines

\* configUnchanged trusts status.ready for ever: the node of a machine that
\* counts as adopted carries that machine's configuration as long as the machine
\* lives, whatever the host and the other machines went through.
AdoptedIsConfigured ==
  \A m \in Machines :
    machine[m].life = "live" /\ machine[m].status.ready
      => \E h \in Hosts : machine[m].status.resolvedHost = h /\ node[h] = m

\* The parts of the inductive invariant.  What every version of a host
\* satisfies: the one on the API server, the one in the cache, and the status a
\* host reconcile read.
ReleasingIsFree(s) == s.phase = "Releasing" => s.claimRef = None
ClaimedHasOwner(s) == s.phase = "Claimed" => s.claimRef # None
GoneIsFree(o) == o.life = "gone" => o.status.claimRef = None

EveryVersion ==
  \A h \in Hosts :
    /\ ReleasingIsFree(host[h].status) /\ ReleasingIsFree(hostCache[h].status)
    /\ ClaimedHasOwner(host[h].status) /\ GoneIsFree(host[h])
    /\ FinalizedFirst(host[h]) /\ FinalizedFirst(hostCache[h])
BaseVersion == \A h \in Hosts : ReleasingIsFree(hw[h].base)

\* A copy with the current resourceVersion is the object itself.
CacheIsCurrent == \A h \in Hosts : Cache \in latest[h] => hostCache[h] = host[h]

\* A finalizer once seen stays until the object is gone for good: the cache,
\* a reconcile of the host or a machine that knows the host may rely on it.
Held(h) == host[h].finalizer \/ host[h].life = "gone"
HeldSinceSeen == \A h \in Hosts : hostCache[h].finalizer => Held(h)
HeldWhileProbing ==
  \A h \in Hosts : hw[h].pc \in {"probe", "conditions", "status"} => Held(h)
ResolvedIsHeld(s) == s.resolvedHost # None => Held(s.resolvedHost)
HeldWhileResolved ==
  \A m \in Machines : ResolvedIsHeld(machine[m].status) /\ ResolvedIsHeld(machineCache[m].status)

\* A reconcile beyond its choice of a host works on one, and the host is held.
WorksOnHost ==
  \A m \in Machines : mw[m].pc \notin {"idle", "select", "unfinalize"} => mw[m].host \in Hosts
HeldWhileWorking ==
  \A m \in Machines : mw[m].pc \notin {"idle", "select", "unfinalize"} => Held(mw[m].host)

\* An unlocked patch never touches the claim.
PatchKeepsClaim == \A h \in Hosts : hw[h].patch.claimRef = Keep

\* What an update with the current resourceVersion finds is what its author
\* checked: an unclaimed host.
ClaimChecked ==
  \A m \in Machines : mw[m].pc = "cas" /\ m \in latest[mw[m].host]
                        => Unclaimed(m, host[mw[m].host])
DeleteChecked ==
  \A h \in Hosts : hw[h].pc = "unfinalize" /\ HostWorker \in latest[h] => ~Claimed(h)

ObjectInv == EveryVersion /\ CacheIsCurrent /\ HeldSinceSeen /\ HeldWhileResolved
HostWorkInv == BaseVersion /\ HeldWhileProbing /\ PatchKeepsClaim /\ DeleteChecked
MachineWorkInv == WorksOnHost /\ HeldWhileWorking /\ ClaimChecked

\* The inductive invariant behind ClaimNeverStolen, ClaimedHostStays,
\* PhaseMatchesClaim and FinalizerFirst: what the objects and the controllers'
\* stale copies may say about each other.
IndInv == TypeOK /\ ObjectInv /\ HostWorkInv /\ MachineWorkInv

\* The registry implements the lock of HostClaim.
Lock == INSTANCE HostClaim WITH owner <- [h \in Hosts |-> host[h].status.claimRef]
ImplementsHostClaim == Lock!Spec

\* verifyExistingClaim's concern: a claimed host is known to its machine, by
\* the machine's status or by the reconcile that is about to record it.
NoOrphanedClaim ==
  \A h \in Hosts, m \in Machines : host[h].status.claimRef = m =>
    /\ machine[m].life # "gone"
    /\ \/ machine[m].status.resolvedHost = h
       \/ mw[m].pc = "record" /\ mw[m].host = h

\* claimHost: a machine that already holds a host keeps it, and takes no other.
HoldsAtMostOne ==
  \A g, h \in Hosts : Claimed(g) /\ host[g].status.claimRef = host[h].status.claimRef => g = h

-----------------------------------------------------------------------------
(* Statements of the documentation that the code does not keep (README,    *)
(* Refuted statements).                                                    *)

\* PRD-host-registry, decision 11: only a host in phase Available is claimed.
ClaimsOnlyAvailable ==
  [][\A h \in Hosts : ~Claimed(h) /\ Claimed(h)' => host[h].status.phase = "Available"]_vars

\* A claim ends only with the machine that holds it: the host is given back by
\* deleting the owning ByotMachine.
OnlyOwnerReleases ==
  [][\A h \in Hosts, m \in Machines :
        host[h].status.claimRef = m /\ host'[h].status.claimRef = None
          => machine[m].life = "deleting"]_vars

\* A claimed host is in phase Claimed, in which its probing is paused.
ClaimedPausesProbing == \A h \in Hosts : Claimed(h) => host[h].status.phase = "Claimed"

\* A host with mixed GPUs stays non-Available.
MixedNeverAvailable == \A h \in MixedHosts : host[h].status.phase # "Available"

-----------------------------------------------------------------------------
(* Liveness.  Every reconcile returns a requeue or an error, both of which *)
(* run it again, so each worker's step is fair.  A node that flaps for     *)
(* ever may never be claimed, and an update that conflicts for ever never  *)
(* lands: from some point on the calls to nodes in maintenance mode        *)
(* succeed, and the host controller's patches (one per LivenessInterval)   *)
(* fall outside a machine's read and update of the host.                   *)

FailedCall(h) ==
  /\ HostProbe(h) /\ InMaintenance(h)
  /\ \/ ~Merge(hw[h].base.probed, hw'[h].patch.probed)
     \/ Merge(hw[h].base.phase, hw'[h].patch.phase) # "Available"

Conflict(m) ==
  /\ mw[m].pc \in {"cas", "freeAvailable", "freeReleasing"}
  /\ m \notin latest[mw[m].host]
  /\ mw'[m].pc = "idle"

SettledStep == (\A h \in Hosts : ~FailedCall(h)) /\ (\A m \in Machines : ~Conflict(m))
Settles == <>[][SettledStep]_vars

Fairness ==
  /\ \A h \in Hosts : WF_vars(HostStep(h)) /\ WF_vars(NodeBooted(h)) /\ WF_vars(SyncHost(h))
  /\ \A m \in Machines : /\ WF_vars(ClaimStep(m)) /\ WF_vars(ReleaseStep(m))
                          /\ SF_vars(ReleaseKeep(m) \/ ReleaseReset(m))
                          /\ WF_vars(SyncMachine(m))

LiveSpec == Spec /\ Fairness /\ Settles

\* reconcileDelete: a deleted machine is released and goes away.
DeletionCompletes == \A m \in Machines : machine[m].life = "deleting" ~> machine[m].life = "gone"

\* A host goes round: once the other machines are gone, the remaining one is
\* adopted on the hosts they gave back.
HostIsReused ==
  \A m \in Machines :
    (\A n \in Machines \ {m} : machine[n].life = "gone")
      ~> (machine[m].status.ready \/ machine[m].life # "live")
=============================================================================

------------------------- MODULE HostRegistryProofs -------------------------
(***************************************************************************)
(* Proofs about HostRegistry, for every set of hosts and machines, every   *)
(* threshold and every combination of faults.                              *)
(***************************************************************************)
EXTENDS HostRegistry, TLAPS, WellFoundedInduction

-----------------------------------------------------------------------------
(* Facts about the operators the actions are built from.                   *)

\* FirstByName, the first entry of a sorted list of candidates, is one of them.
LEMMA FirstByNameIsCandidate ==
  ASSUME NEW S, S \subseteq Hosts, S # {}
  PROVE  FirstByName(S) \in S
<1> DEFINE R == {p \in Nat \X Nat : p[1] < p[2]}
<1>1. R = OpToRel(<, Nat)
  BY DEF OpToRel
<1>2. IsWellFoundedOn(R, Nat)
  BY <1>1, NatLessThanWellFounded
<1>3. S \subseteq Nat
  BY HostsAssumption
<1>4. PICK x \in S : \A y \in S : <<y, x>> \notin R
  <2> HIDE DEF R
  <2> QED BY <1>2, <1>3, WFMin
<1>5. ASSUME NEW y \in S
      PROVE  x <= y
  <2>1. x \in Nat /\ y \in Nat
    BY <1>3
  <2>2. <<y, x>> \notin R
    BY <1>4
  <2>3. ~(y < x)
    BY <2>1, <2>2
  <2> QED BY <2>1, <2>3
<1> QED BY <1>4, <1>5 DEF FirstByName

\* A reader gets a well-formed object from the cache or from the API server.
LEMMA SeenTypes ==
  ASSUME TypeOK
  PROVE  /\ \A h \in Hosts : SeenHost(h) \in HostObject
         /\ \A m \in Machines : SeenMachine(m) \in MachineObject
BY DEF TypeOK, SeenHost, SeenMachine

\* The handlers of reconcileHost ask for well-formed statuses.  They move to
\* Available, Probing or Unavailable only, and leave the claim alone except that
\* reconcileReleasing clears it.
LEMMA HandlersAsk ==
  ASSUME NEW h \in Hosts, NEW s \in HostStatus, NEW t \in reconcileHost(h, s)
  PROVE  /\ t \in HostStatus
         /\ t.phase \in {s.phase, "Available", "Probing", "Unavailable"}
         /\ t.claimRef = s.claimRef \/ (s.phase = "Releasing" /\ t.claimRef = None)
<1>a. 0 \in 0..FailureThreshold
  BY ThresholdAssumption
<1>1. /\ MarkAvailable(h, s) \in HostStatus
      /\ MarkAvailable(h, s).phase = "Available"
      /\ MarkAvailable(h, s).claimRef = s.claimRef
  BY <1>a DEF MarkAvailable, populateFromDiscovery, HostStatus, Phases
<1>2. /\ recordDiscoveryFailure(s) \in HostStatus
      /\ recordDiscoveryFailure(s).phase = "Probing"
      /\ recordDiscoveryFailure(s).claimRef = s.claimRef
  BY DEF recordDiscoveryFailure, HostStatus, Phases
<1>3. /\ recordProbeFailure(s) \in HostStatus
      /\ recordProbeFailure(s).phase \in {s.phase, "Unavailable"}
      /\ recordProbeFailure(s).claimRef = s.claimRef
  <2> DEFINE f == IF s.failures < FailureThreshold THEN s.failures + 1 ELSE s.failures
             p == IF s.failures + 1 >= FailureThreshold THEN "Unavailable" ELSE s.phase
  <2>1. f \in 0..FailureThreshold
    BY ThresholdAssumption DEF HostStatus
  <2>2. p \in Phases /\ p \in {s.phase, "Unavailable"}
    BY DEF HostStatus, Phases
  <2>3. recordProbeFailure(s) = [s EXCEPT !.failures = f, !.probed = FALSE, !.phase = p]
    BY DEF recordProbeFailure, HostStatus
  <2> HIDE DEF f, p
  <2> QED BY <2>1, <2>2, <2>3 DEF HostStatus
<1>4. /\ [s EXCEPT !.probed = TRUE, !.failures = 0] \in HostStatus
      /\ [s EXCEPT !.probed = TRUE, !.failures = 0].phase = s.phase
      /\ [s EXCEPT !.probed = TRUE, !.failures = 0].claimRef = s.claimRef
  BY <1>a DEF HostStatus
<1>b. /\ [MarkAvailable(h, s) EXCEPT !.claimRef = None] \in HostStatus
      /\ [MarkAvailable(h, s) EXCEPT !.claimRef = None].phase = "Available"
      /\ [MarkAvailable(h, s) EXCEPT !.claimRef = None].claimRef = None
  BY <1>1 DEF HostStatus
<1>5. CASE s.phase \in {"", "Probing"}
  <2>1. t \in {recordDiscoveryFailure(s), MarkAvailable(h, s)}
    BY <1>5 DEF reconcileHost, reconcileProbing
  <2> QED BY <2>1, <1>1, <1>2
<1>6. CASE s.phase = "Available"
  <2>1. t \in {recordProbeFailure(s), [s EXCEPT !.probed = TRUE, !.failures = 0]}
    BY <1>6 DEF reconcileHost, reconcileAvailable
  <2> QED BY <2>1, <1>3, <1>4
<1>7. CASE s.phase = "Unavailable"
  <2>1. t \in {s, recordDiscoveryFailure(s), MarkAvailable(h, s)}
    BY <1>7 DEF reconcileHost, reconcileUnavailable
  <2> QED BY <2>1, <1>1, <1>2
<1>8. CASE s.phase = "Releasing"
  <2>1. t \in {s, recordDiscoveryFailure(s), [MarkAvailable(h, s) EXCEPT !.claimRef = None]}
    BY <1>8 DEF reconcileHost, reconcileReleasing
  <2> QED BY <2>1, <1>8, <1>2, <1>b
<1>9. CASE s.phase = "Claimed"
  BY <1>9 DEF reconcileHost
<1>c. s.phase \in Phases
  BY DEF HostStatus
<1> QED BY <1>c, <1>5, <1>6, <1>7, <1>8, <1>9 DEF Phases

\* A merge patch makes a well-formed status of a well-formed one.
LEMMA MergeTypes ==
  ASSUME NEW s \in HostStatus, NEW p \in HostPatch
  PROVE  MergeConditions(s, p) \in HostStatus /\ MergeStatus(s, p) \in HostStatus
<1>1. /\ Merge(s.probed, p.probed) \in BOOLEAN
      /\ Merge(s.discovered, p.discovered) \in BOOLEAN
      /\ Merge(s.phase, p.phase) \in Phases
      /\ Merge(s.claimRef, p.claimRef) \in Machines \cup {None}
      /\ Merge(s.failures, p.failures) \in 0..FailureThreshold
  BY DEF HostStatus, HostPatch, Merge, Phases
<1> QED BY <1>1 DEF HostStatus, MergeConditions, MergeStatus

\* Writes and reads keep the types of the objects and of the version sets.
HostsOK ==
  /\ host \in [Hosts -> HostObject]
  /\ latest \in [Hosts -> SUBSET (Machines \cup {Cache, HostWorker})]
MachinesOK ==
  /\ machine \in [Machines -> MachineObject]
  /\ machineLatest \in [Machines -> SUBSET {Cache, Worker}]

\* A write of an object leaves all of them well-formed.
LEMMA WriteTypes ==
  ASSUME TypeOK
  PROVE  /\ \A h \in Hosts, o \in HostObject : WriteHost(h, o) => HostsOK'
         /\ \A m \in Machines, o \in MachineObject : WriteMachine(m, o) => MachinesOK'
         /\ KeepHost => HostsOK'
         /\ KeepMachine => MachinesOK'
BY DEF TypeOK, HostsOK, MachinesOK, WriteHost, WriteMachine, KeepHost, KeepMachine

\* So does a read, which only enters the reader among the current copies.
LEMMA ReadTypes ==
  ASSUME TypeOK
  PROVE  /\ \A h \in Hosts, c \in Machines \cup {HostWorker} :
              ReadHost(c, h) /\ UNCHANGED host => HostsOK'
         /\ \A m \in Machines : ReadMachine(m) /\ UNCHANGED machine => MachinesOK'
BY DEF TypeOK, HostsOK, MachinesOK, ReadHost, ReadMachine

\* The initial objects and work records are well-formed.
LEMMA NewStatuses == NewHostStatus \in HostStatus /\ NewMachineStatus \in MachineStatus
BY ThresholdAssumption DEF NewHostStatus, NewMachineStatus, HostStatus, MachineStatus, Phases

\* The objects and work records a run starts or ends with.
LEMMA NewObjects ==
  /\ NewHost \in HostObject /\ GoneHost \in HostObject
  /\ NewMachine \in MachineObject /\ GoneMachine \in MachineObject
  /\ IdleHost \in HostWork /\ IdleMachine \in MachineWork
<1>1. NewHost \in HostObject /\ NewMachine \in MachineObject
  BY NewStatuses DEF NewHost, NewMachine, HostObject, MachineObject, Lives
<1>2. GoneHost \in HostObject
  BY <1>1 DEF GoneHost, HostObject, Lives
<1>3. GoneMachine \in MachineObject
  BY <1>1 DEF GoneMachine, MachineObject, Lives
<1>4. NoPatch \in HostPatch
  BY DEF NoPatch, HostPatch
<1>5. IdleHost \in HostWork /\ IdleMachine \in MachineWork
  BY NewStatuses, <1>4 DEF IdleHost, IdleMachine, HostWork, MachineWork, HostSteps, MachineSteps
<1> QED BY <1>1, <1>2, <1>3, <1>5

\* Moving a machine's reconcile on keeps its work record well-formed.
LEMMA WorkTypes ==
  ASSUME TypeOK
  PROVE  /\ \A m \in Machines, pc \in MachineSteps :
              Goto(m, pc) => mw' \in [Machines -> MachineWork]
         /\ \A m \in Machines : Stop(m) => mw' \in [Machines -> MachineWork]
         /\ \A m \in Machines : Adopt(m) => mw' \in [Machines -> MachineWork]
<1>1. \A m \in Machines, pc \in MachineSteps :
        Goto(m, pc) => mw' \in [Machines -> MachineWork]
  BY DEF TypeOK, Goto, MachineWork
<1>2. \A m \in Machines : Stop(m) => mw' \in [Machines -> MachineWork]
  BY NewObjects DEF TypeOK, Stop
<1>3. "apply" \in MachineSteps
  BY DEF MachineSteps
<1> QED BY <1>1, <1>2, <1>3 DEF Adopt

\* The field updates of a ByotMachine's status.
LEMMA MachineWrites ==
  ASSUME NEW o \in MachineObject
  PROVE  /\ \A r \in Hosts \cup {None} : [o EXCEPT !.status.resolvedHost = r] \in MachineObject
         /\ [o EXCEPT !.status.ready = TRUE] \in MachineObject
<1>1. o.status \in MachineStatus
  BY DEF MachineObject
<1>2. \A s \in MachineStatus : [o EXCEPT !.status = s] \in MachineObject
  BY DEF MachineObject
<1>3. ASSUME NEW r \in Hosts \cup {None}
      PROVE  [o EXCEPT !.status.resolvedHost = r] \in MachineObject
  <2>1. [o.status EXCEPT !.resolvedHost = r] \in MachineStatus
    BY <1>1 DEF MachineStatus
  <2>2. [o EXCEPT !.status.resolvedHost = r]
          = [o EXCEPT !.status = [o.status EXCEPT !.resolvedHost = r]]
    BY Zenon
  <2> QED BY <1>2, <2>1, <2>2
<1>4. [o EXCEPT !.status.ready = TRUE] \in MachineObject
  <2>1. [o.status EXCEPT !.ready = TRUE] \in MachineStatus
    BY <1>1 DEF MachineStatus
  <2>2. [o EXCEPT !.status.ready = TRUE]
          = [o EXCEPT !.status = [o.status EXCEPT !.ready = TRUE]]
    BY Zenon
  <2> QED BY <1>2, <2>1, <2>2
<1> QED BY <1>3, <1>4

\* The update claimCAS sends.
LEMMA ClaimWrites ==
  ASSUME NEW o \in HostObject, NEW m \in Machines
  PROVE  LET n == [o EXCEPT !.status.claimRef = m, !.status.phase = "Claimed"] IN
         /\ n \in HostObject /\ n.life = o.life /\ n.finalizer = o.finalizer
         /\ n.status.claimRef = m /\ n.status.phase = "Claimed"
<1> DEFINE n == [o EXCEPT !.status.claimRef = m, !.status.phase = "Claimed"]
<1>1. n \in HostObject
  BY DEF HostObject, HostStatus, Phases
<1>2. n.life = o.life /\ n.finalizer = o.finalizer
  BY DEF HostObject
<1>3. n.status.claimRef = m /\ n.status.phase = "Claimed"
  BY DEF HostObject, HostStatus
<1> QED BY <1>1, <1>2, <1>3

-----------------------------------------------------------------------------
(* Type correctness.                                                       *)

\* The initial state is well-typed.
LEMMA InitTypes == Init => TypeOK
BY NewObjects DEF Init, TypeOK

\* What the steps of the host controller, the operator and the node leave
\* untouched, so that their steps below need only look at the rest.
LEMMA HostStepTypes ==
  ASSUME TypeOK, NEW h \in Hosts,
         \/ HostStep(h) \/ HostAbort(h) \/ DeleteHost(h) \/ NodeBooted(h) \/ SyncHost(h)
  PROVE  TypeOK'
<1> USE DEF KeepCache
<1>1. CASE HostReconcile(h)
  <2> DEFINE o == SeenHost(h)
  <2>1. o \in HostObject
    BY SeenTypes
  <2>2. o.status \in HostStatus
    BY <2>1 DEF HostObject
  <2>3. [IdleHost EXCEPT !.pc = "probe", !.base = o.status] \in HostWork
    BY <2>2, NewObjects DEF HostWork, HostSteps
  <2>4. hw' \in [Hosts -> HostWork]
    BY <1>1, <2>3 DEF HostReconcile, TypeOK
  <2>5. [host[h] EXCEPT !.finalizer = TRUE] \in HostObject
    BY DEF TypeOK, HostObject
  <2>6. HostsOK' /\ MachinesOK'
    BY <1>1, <2>5, WriteTypes DEF HostReconcile, EnsureHostFinalizer
  <2> QED BY <1>1, <2>4, <2>6 DEF HostReconcile, TypeOK, HostsOK, MachinesOK
<1>2. CASE HostProbe(h)
  <2> DEFINE b == hw[h].base
  <2>1. b \in HostStatus
    BY DEF TypeOK, HostWork
  <2>2. PICK s \in reconcileHost(h, b), pc \in {"conditions", "status"} :
          hw' = [hw EXCEPT ![h] = [IdleHost EXCEPT !.pc = pc, !.patch = PatchFor(b, s)]]
    BY <1>2 DEF HostProbe
  <2>3. /\ s \in HostStatus
        /\ s.phase \in {b.phase, "Available", "Probing", "Unavailable"}
        /\ s.claimRef = b.claimRef \/ s.claimRef = None
    BY <2>1, HandlersAsk
  <2>4. /\ Changed(b.phase, s.phase) \in {Keep, "Available", "Probing", "Unavailable"}
        /\ Changed(b.claimRef, s.claimRef) \in {Keep, None}
    BY <2>3 DEF Changed
  <2>5. /\ Changed(b.probed, s.probed) \in BOOLEAN \cup {Keep}
        /\ Changed(b.discovered, s.discovered) \in BOOLEAN \cup {Keep}
        /\ Changed(b.failures, s.failures) \in 0..FailureThreshold \cup {Keep}
    BY <2>3 DEF Changed, HostStatus
  <2>6. PatchFor(b, s) \in HostPatch
    BY <2>4, <2>5 DEF HostPatch, PatchFor
  <2>7. hw' \in [Hosts -> HostWork]
    BY <2>2, <2>6, NewObjects DEF TypeOK, HostWork, HostSteps
  <2>8. HostsOK' /\ MachinesOK'
    BY <1>2, WriteTypes DEF HostProbe
  <2> QED BY <1>2, <2>7, <2>8 DEF HostProbe, TypeOK, HostsOK, MachinesOK
<1>3. CASE HostPatchConditions(h)
  <2>1. [host[h] EXCEPT !.status = MergeConditions(@, hw[h].patch)] \in HostObject
    BY MergeTypes DEF TypeOK, HostObject, HostWork
  <2>2. hw' \in [Hosts -> HostWork]
    BY <1>3 DEF HostPatchConditions, TypeOK, HostWork, HostSteps
  <2>3. HostsOK' /\ MachinesOK'
    BY <1>3, <2>1, WriteTypes DEF HostPatchConditions
  <2> QED BY <1>3, <2>2, <2>3 DEF HostPatchConditions, TypeOK, HostsOK, MachinesOK
<1>4. CASE HostPatchStatus(h)
  <2>1. [host[h] EXCEPT !.status = MergeStatus(@, hw[h].patch)] \in HostObject
    BY MergeTypes DEF TypeOK, HostObject, HostWork
  <2>2. hw' \in [Hosts -> HostWork]
    BY <1>4, NewObjects DEF HostPatchStatus, TypeOK
  <2>3. HostsOK' /\ MachinesOK'
    BY <1>4, <2>1, WriteTypes DEF HostPatchStatus
  <2> QED BY <1>4, <2>2, <2>3 DEF HostPatchStatus, TypeOK, HostsOK, MachinesOK
<1>5. CASE HostReconcileDelete(h)
  <2>1. hw' \in [Hosts -> HostWork]
    BY <1>5, NewObjects DEF HostReconcileDelete, TypeOK, HostWork, HostSteps
  <2>2. HostsOK' /\ MachinesOK'
    BY <1>5, ReadTypes, WriteTypes DEF HostReconcileDelete
  <2> QED BY <1>5, <2>1, <2>2 DEF HostReconcileDelete, TypeOK, HostsOK, MachinesOK
<1>6. CASE HostUnfinalize(h)
  <2>1. hw' \in [Hosts -> HostWork]
    BY <1>6, NewObjects DEF HostUnfinalize, TypeOK
  <2>2. HostsOK' /\ MachinesOK'
    BY <1>6, NewObjects, WriteTypes DEF HostUnfinalize
  <2> QED BY <1>6, <2>1, <2>2 DEF HostUnfinalize, TypeOK, HostsOK, MachinesOK
<1>7. CASE HostAbort(h)
  <2>1. hw' \in [Hosts -> HostWork]
    BY <1>7, NewObjects DEF HostAbort, TypeOK
  <2>2. HostsOK' /\ MachinesOK'
    BY <1>7, WriteTypes DEF HostAbort
  <2> QED BY <1>7, <2>1, <2>2 DEF HostAbort, TypeOK, HostsOK, MachinesOK
<1>8. CASE DeleteHost(h)
  <2>1. Delete(host[h], GoneHost) \in HostObject
    BY NewObjects DEF TypeOK, HostObject, Lives, Delete
  <2>2. HostsOK' /\ MachinesOK'
    BY <1>8, <2>1, WriteTypes DEF DeleteHost
  <2> QED BY <1>8, <2>2 DEF DeleteHost, TypeOK, HostsOK, MachinesOK
<1>9. CASE NodeBooted(h)
  <2>1. HostsOK' /\ MachinesOK'
    BY <1>9, WriteTypes DEF NodeBooted
  <2> QED BY <1>9, <2>1 DEF NodeBooted, TypeOK, HostsOK, MachinesOK
<1>10. CASE SyncHost(h)
  BY <1>10 DEF SyncHost, TypeOK
<1> QED BY <1>1, <1>2, <1>3, <1>4, <1>5, <1>6, <1>7, <1>8, <1>9, <1>10 DEF HostStep

\* The same for the machine controller and the ByotMachine objects.
LEMMA MachineStepTypes ==
  ASSUME TypeOK, WorksOnHost, NEW m \in Machines,
         \/ ClaimStep(m) \/ ReleaseStep(m) \/ MachineAbort(m)
         \/ DeleteMachine(m) \/ SyncMachine(m)
  PROVE  TypeOK'
<1> USE DEF KeepCache
<1> DEFINE h == mw[m].host
           o == SeenMachine(m)
<1>a. mw[m].pc \notin {"idle", "select", "unfinalize"} => h \in Hosts
  BY DEF WorksOnHost
<1>b. {"verify", "select", "get", "cas", "record", "apply", "ready", "release", "wipe",
       "freeAvailable", "freeReleasing", "unfinalize"} \subseteq MachineSteps
  BY DEF MachineSteps
<1>c. o \in MachineObject
  BY SeenTypes
<1>d. o.status \in MachineStatus /\ o.status.resolvedHost \in Hosts \cup {None}
  BY <1>c DEF MachineObject, MachineStatus
<1>e. h \in Hosts \cup {None} /\ mw[m].base \in MachineStatus
  BY DEF TypeOK, MachineWork
<1>f. host[h] \in HostObject \/ h \notin Hosts
  BY DEF TypeOK
<1> HIDE DEF h, o
<1>1. CASE MachineReconcile(m)
  <2>1. mw' \in [Machines -> MachineWork]
    BY <1>1, <1>b, <1>d DEF MachineReconcile, TypeOK, MachineWork, o
  <2>2. [machine[m] EXCEPT !.finalizer = TRUE] \in MachineObject
    BY DEF TypeOK, MachineObject
  <2>3. HostsOK' /\ MachinesOK'
    BY <1>1, <2>2, WriteTypes DEF MachineReconcile
  <2> QED BY <1>1, <2>1, <2>3 DEF MachineReconcile, TypeOK, HostsOK, MachinesOK
<1>2. CASE KeepClaim(m)
  <2>1. HostsOK' /\ MachinesOK' /\ mw' \in [Machines -> MachineWork]
    BY <1>2, WriteTypes, WorkTypes DEF KeepClaim
  <2> QED BY <1>2, <2>1 DEF KeepClaim, TypeOK, HostsOK, MachinesOK
<1>3. CASE clearResolvedHost(m)
  <2>1. [machine[m] EXCEPT !.status.resolvedHost = None] \in MachineObject
    BY MachineWrites DEF TypeOK
  <2>2. mw' \in [Machines -> MachineWork]
    BY <1>3, <1>b, WorkTypes DEF clearResolvedHost, TypeOK, MachineWork
  <2>3. HostsOK' /\ MachinesOK'
    BY <1>3, <2>1, WriteTypes DEF clearResolvedHost
  <2> QED BY <1>3, <2>2, <2>3 DEF clearResolvedHost, TypeOK, HostsOK, MachinesOK
<1>4. CASE SelectHost(m)
  <2> DEFINE C == {g \in Eligible[m] : Candidate(m, SeenHost(g))}
  <2>1. C # {} => FirstByName(C) \in Hosts
    BY FirstByNameIsCandidate, EligibleAssumption
  <2>2. mw' \in [Machines -> MachineWork]
    BY <1>4, <1>b, <2>1, WorkTypes DEF SelectHost, TypeOK, MachineWork
  <2>3. HostsOK' /\ MachinesOK'
    BY <1>4, WriteTypes DEF SelectHost
  <2> QED BY <1>4, <2>2, <2>3 DEF SelectHost, TypeOK, HostsOK, MachinesOK
<1>5. CASE ClaimGet(m)
  <2>1. mw' \in [Machines -> MachineWork]
    BY <1>5, <1>b, WorkTypes DEF ClaimGet
  <2>2. HostsOK' /\ MachinesOK'
    BY <1>5, <1>a, ReadTypes, WriteTypes DEF ClaimGet, KeepHost, h
  <2> QED BY <1>5, <2>1, <2>2 DEF ClaimGet, TypeOK, HostsOK, MachinesOK
<1>6. CASE ClaimCAS(m)
  <2>1. h \in Hosts /\ host[h] \in HostObject
    BY <1>6, <1>a, <1>f DEF ClaimCAS
  <2>2. [host[h] EXCEPT !.status.claimRef = m, !.status.phase = "Claimed"] \in HostObject
    BY <2>1 DEF HostObject, HostStatus, Phases
  <2>3. mw' \in [Machines -> MachineWork]
    BY <1>6, <1>b, WorkTypes DEF ClaimCAS
  <2>4. HostsOK' /\ MachinesOK'
    BY <1>6, <2>1, <2>2, WriteTypes DEF ClaimCAS, h
  <2> QED BY <1>6, <2>3, <2>4 DEF ClaimCAS, TypeOK, HostsOK, MachinesOK
<1>7. CASE RecordClaim(m)
  <2> DEFINE r == Merge(machine[m].status.resolvedHost, Changed(mw[m].base.resolvedHost, h))
  <2>1. r \in Hosts \cup {None}
    BY <1>e DEF Merge, Changed, TypeOK, MachineObject, MachineStatus
  <2>2. [machine[m] EXCEPT !.status.resolvedHost = r] \in MachineObject
    <3> HIDE DEF r
    <3> QED BY <2>1, MachineWrites DEF TypeOK
  <2>3. mw' \in [Machines -> MachineWork]
    BY <1>7, WorkTypes DEF RecordClaim
  <2>4. HostsOK' /\ MachinesOK'
    BY <1>7, <2>2, WriteTypes DEF RecordClaim, h
  <2> QED BY <1>7, <2>3, <2>4 DEF RecordClaim, TypeOK, HostsOK, MachinesOK
<1>8. CASE ApplyConfig(m)
  <2>1. HostsOK' /\ MachinesOK' /\ mw' \in [Machines -> MachineWork]
    BY <1>8, <1>b, WriteTypes, WorkTypes DEF ApplyConfig
  <2>2. node' \in [Hosts -> Machines \cup {"maintenance", "booting"}]
    BY <1>8 DEF ApplyConfig, TypeOK
  <2> QED BY <1>8, <2>1, <2>2 DEF ApplyConfig, TypeOK, HostsOK, MachinesOK
<1>9. CASE MarkAdopted(m)
  <2>1. [machine[m] EXCEPT !.status.ready = TRUE] \in MachineObject
    BY MachineWrites DEF TypeOK
  <2>2. HostsOK' /\ MachinesOK' /\ mw' \in [Machines -> MachineWork]
    BY <1>9, <2>1, WriteTypes, WorkTypes DEF MarkAdopted
  <2> QED BY <1>9, <2>2 DEF MarkAdopted, TypeOK, HostsOK, MachinesOK
<1>10. CASE MachineReconcileDelete(m)
  <2>1. mw' \in [Machines -> MachineWork]
    BY <1>10, <1>b, <1>d, NewObjects DEF MachineReconcileDelete, TypeOK, MachineWork, o
  <2>2. HostsOK' /\ MachinesOK'
    BY <1>10, ReadTypes, WriteTypes DEF MachineReconcileDelete
  <2> QED BY <1>10, <2>1, <2>2 DEF MachineReconcileDelete, TypeOK, HostsOK, MachinesOK
<1>11. CASE ReleaseGet(m)
  <2>1. mw' \in [Machines -> MachineWork]
    BY <1>11, <1>b, WorkTypes DEF ReleaseGet
  <2>2. HostsOK' /\ MachinesOK'
    BY <1>11, <1>a, ReadTypes, WriteTypes DEF ReleaseGet, KeepHost, h
  <2> QED BY <1>11, <2>1, <2>2 DEF ReleaseGet, TypeOK, HostsOK, MachinesOK
<1>12. CASE ReleaseKeep(m)
  <2>1. HostsOK' /\ MachinesOK' /\ mw' \in [Machines -> MachineWork]
    BY <1>12, <1>b, WriteTypes, WorkTypes DEF ReleaseKeep
  <2> QED BY <1>12, <2>1 DEF ReleaseKeep, TypeOK, HostsOK, MachinesOK
<1>13. CASE ReleaseReset(m)
  <2>1. HostsOK' /\ MachinesOK' /\ mw' \in [Machines -> MachineWork]
    BY <1>13, <1>b, WriteTypes, WorkTypes DEF ReleaseReset
  <2>2. node' \in [Hosts -> Machines \cup {"maintenance", "booting"}]
    BY <1>13 DEF ReleaseReset, TypeOK
  <2> QED BY <1>13, <2>1, <2>2 DEF ReleaseReset, TypeOK, HostsOK, MachinesOK
<1>14. CASE ReleaseFailed(m)
  <2>1. HostsOK' /\ MachinesOK' /\ mw' \in [Machines -> MachineWork]
    BY <1>14, WriteTypes, WorkTypes DEF ReleaseFailed
  <2> QED BY <1>14, <2>1 DEF ReleaseFailed, TypeOK, HostsOK, MachinesOK
<1>15. CASE ReleaseFree(m)
  <2>1. h \in Hosts /\ host[h] \in HostObject
    BY <1>15, <1>a, <1>f DEF ReleaseFree
  <2>2. [host[h] EXCEPT !.status = FreedStatus(@, mw[m].pc)] \in HostObject
    BY <2>1 DEF HostObject, HostStatus, Phases, FreedStatus, FreedPhase
  <2>3. mw' \in [Machines -> MachineWork]
    BY <1>15, <1>b, WorkTypes DEF ReleaseFree, GoOnToUnfinalize
  <2>4. HostsOK' /\ MachinesOK'
    BY <1>15, <2>1, <2>2, WriteTypes DEF ReleaseFree, h
  <2> QED BY <1>15, <2>3, <2>4 DEF ReleaseFree, TypeOK, HostsOK, MachinesOK
<1>16. CASE MachineUnfinalize(m)
  <2>1. HostsOK' /\ MachinesOK' /\ mw' \in [Machines -> MachineWork]
    BY <1>16, NewObjects, WriteTypes, WorkTypes DEF MachineUnfinalize
  <2> QED BY <1>16, <2>1 DEF MachineUnfinalize, TypeOK, HostsOK, MachinesOK
<1>17. CASE MachineAbort(m)
  <2>1. HostsOK' /\ MachinesOK' /\ mw' \in [Machines -> MachineWork]
    BY <1>17, WriteTypes, WorkTypes DEF MachineAbort
  <2> QED BY <1>17, <2>1 DEF MachineAbort, TypeOK, HostsOK, MachinesOK
<1>18. CASE DeleteMachine(m)
  <2>1. Delete(machine[m], GoneMachine) \in MachineObject
    BY NewObjects DEF TypeOK, MachineObject, Lives, Delete
  <2>2. HostsOK' /\ MachinesOK'
    BY <1>18, <2>1, WriteTypes DEF DeleteMachine
  <2> QED BY <1>18, <2>2 DEF DeleteMachine, TypeOK, HostsOK, MachinesOK
<1>19. CASE SyncMachine(m)
  BY <1>19 DEF SyncMachine, TypeOK
<1> QED BY <1>1, <1>2, <1>3, <1>4, <1>5, <1>6, <1>7, <1>8, <1>9, <1>10, <1>11, <1>12, <1>13,
           <1>14, <1>15, <1>16, <1>17, <1>18, <1>19 DEF ClaimStep, ReleaseStep

-----------------------------------------------------------------------------
(* What reads and writes of a host do to the parts of the invariant.       *)

\* No host loses its finalizer except by going away.  HeldAfter(g) is Held(g)
\* after the step, for a g evaluated before it.
Stays == \A g \in Hosts : Held(g) => Held(g)'
HeldAfter(g) == host'[g].finalizer \/ host'[g].life = "gone"

\* Every client but x that holds the current version after the step held it
\* before, and the object is still the same.
Narrow(x) ==
  \A g \in Hosts : \A c : c # x /\ c \in latest'[g] => c \in latest[g] /\ host'[g] = host[g]

HostCopies == EveryVersion /\ CacheIsCurrent /\ HeldSinceSeen

\* A finalizer that no step drops is there after the step.
LEMMA StaysAfter == Stays => \A g \in Hosts : Held(g) => HeldAfter(g)
BY DEF Stays, Held, HeldAfter

\* A step that writes no host keeps what is known of the hosts' versions.
LEMMA HostUntouched ==
  ASSUME IndInv, KeepHost, UNCHANGED hostCache
  PROVE  HostCopies' /\ Stays /\ \A x : Narrow(x)
BY DEF IndInv, ObjectInv, HostCopies, EveryVersion, CacheIsCurrent, HeldSinceSeen, Held, Stays,
       Narrow, KeepHost, ReleasingIsFree, ClaimedHasOwner, GoneIsFree, FinalizedFirst

\* So does one that reads a host; only the reader's copy becomes current.
LEMMA HostIsRead ==
  ASSUME IndInv, NEW h \in Hosts, NEW c \in Machines \cup {HostWorker},
         ReadHost(c, h), UNCHANGED <<host, hostCache>>
  PROVE  HostCopies' /\ Stays /\ Narrow(c)
<1>1. EveryVersion' /\ HeldSinceSeen' /\ Stays
  BY DEF IndInv, ObjectInv, EveryVersion, HeldSinceSeen, Held, Stays,
         ReleasingIsFree, ClaimedHasOwner, GoneIsFree, FinalizedFirst
<1>2. Narrow(c)
  BY DEF IndInv, TypeOK, Narrow, ReadHost
<1>3. Cache # c
  BY MachinesAssumption DEF Cache, HostWorker
<1>4. CacheIsCurrent'
  BY <1>2, <1>3 DEF IndInv, ObjectInv, CacheIsCurrent, Narrow
<1> QED BY <1>1, <1>2, <1>4 DEF HostCopies

\* A new version o of host h that keeps to the rules every version follows.
LEMMA HostIsWritten ==
  ASSUME IndInv, NEW h \in Hosts, NEW o \in HostObject, WriteHost(h, o), UNCHANGED hostCache,
         ReleasingIsFree(o.status), ClaimedHasOwner(o.status), GoneIsFree(o), FinalizedFirst(o),
         Held(h) => o.finalizer \/ o.life = "gone"
  PROVE  HostCopies' /\ Stays /\ \A x : Narrow(x)
<1>1. /\ host'[h] = o /\ latest'[h] = {}
      /\ \A g \in Hosts : g # h => host'[g] = host[g] /\ latest'[g] = latest[g]
  BY DEF IndInv, TypeOK, WriteHost
<1>2. EveryVersion'
  <2>1. ASSUME NEW g \in Hosts
        PROVE  /\ ReleasingIsFree(host'[g].status) /\ ReleasingIsFree(hostCache[g].status)
               /\ ClaimedHasOwner(host'[g].status) /\ GoneIsFree(host'[g])
               /\ FinalizedFirst(host'[g]) /\ FinalizedFirst(hostCache[g])
    <3>1. CASE g = h
      BY <1>1, <3>1 DEF IndInv, ObjectInv, EveryVersion
    <3>2. CASE g # h
      BY <1>1, <3>2 DEF IndInv, ObjectInv, EveryVersion
    <3> QED BY <3>1, <3>2
  <2> QED BY <2>1 DEF EveryVersion, ReleasingIsFree, ClaimedHasOwner, GoneIsFree, FinalizedFirst
<1>3. Stays
  BY <1>1 DEF Stays, Held
<1>4. HeldSinceSeen'
  BY <1>3 DEF IndInv, ObjectInv, HeldSinceSeen, Stays
<1>5. \A x : Narrow(x)
  BY <1>1 DEF Narrow
<1>6. CacheIsCurrent'
  BY <1>1 DEF IndInv, ObjectInv, CacheIsCurrent
<1> QED BY <1>2, <1>3, <1>4, <1>5, <1>6 DEF HostCopies

\* The ByotMachine objects are not touched, or one is written.
LEMMA MachineUntouched ==
  ASSUME IndInv, Stays, UNCHANGED <<machine, machineCache>>
  PROVE  HeldWhileResolved'
BY DEF IndInv, TypeOK, MachineObject, MachineStatus, ObjectInv, HeldWhileResolved, ResolvedIsHeld, Stays

\* A write of a machine that resolves to a finalized host.
LEMMA MachineIsWritten ==
  ASSUME IndInv, Stays, NEW m \in Machines, NEW o \in MachineObject, WriteMachine(m, o),
         UNCHANGED machineCache, ResolvedIsHeld(o.status)
  PROVE  HeldWhileResolved'
<1>1. machine'[m] = o /\ \A n \in Machines : n # m => machine'[n] = machine[n]
  BY DEF IndInv, TypeOK, WriteMachine
<1>2. \A s \in MachineStatus : ResolvedIsHeld(s) => (s.resolvedHost # None => Held(s.resolvedHost)')
  BY DEF ResolvedIsHeld, Stays, MachineStatus
<1>3. /\ o.status \in MachineStatus
      /\ \A n \in Machines : machine[n].status \in MachineStatus /\ machineCache[n].status \in MachineStatus
  BY DEF IndInv, TypeOK, MachineObject
<1> QED BY <1>1, <1>2, <1>3 DEF IndInv, ObjectInv, HeldWhileResolved, ResolvedIsHeld

-----------------------------------------------------------------------------
(* What a step does to the work of the controllers.                        *)

\* A step of somebody else keeps what a host's reconcile relies on.
LEMMA HostWorkUntouched ==
  ASSUME IndInv, Stays, NEW x, x # HostWorker, Narrow(x), UNCHANGED hw
  PROVE  HostWorkInv'
<1>1. BaseVersion' /\ PatchKeepsClaim'
  BY DEF IndInv, HostWorkInv, BaseVersion, PatchKeepsClaim, ReleasingIsFree
<1>2. HeldWhileProbing'
  BY DEF IndInv, HostWorkInv, HeldWhileProbing, Stays
<1>3. DeleteChecked'
  BY DEF IndInv, HostWorkInv, DeleteChecked, Narrow, Claimed
<1> QED BY <1>1, <1>2, <1>3 DEF HostWorkInv

\* The reconcile of host h moves on to work record w.
LEMMA HostWorkMoves ==
  ASSUME IndInv, Stays, NEW x, x # HostWorker, Narrow(x), NEW h \in Hosts, NEW w \in HostWork,
         hw' = [hw EXCEPT ![h] = w], w.pc # "unfinalize",
         ReleasingIsFree(w.base), w.patch.claimRef = Keep,
         w.pc \in {"probe", "conditions", "status"} => Held(h)'
  PROVE  HostWorkInv'
<1>1. hw'[h] = w /\ \A g \in Hosts : g # h => hw'[g] = hw[g]
  BY DEF IndInv, TypeOK
<1>2. BaseVersion' /\ PatchKeepsClaim'
  BY <1>1 DEF IndInv, HostWorkInv, BaseVersion, PatchKeepsClaim, ReleasingIsFree
<1>3. HeldWhileProbing'
  BY <1>1 DEF IndInv, HostWorkInv, HeldWhileProbing, Stays
<1>4. DeleteChecked'
  BY <1>1 DEF IndInv, HostWorkInv, DeleteChecked, Narrow, Claimed
<1> QED BY <1>2, <1>3, <1>4 DEF HostWorkInv

\* A step of somebody else keeps what a machine's reconcile relies on.
LEMMA MachineWorkUntouched ==
  ASSUME IndInv, Stays, NEW x, x \notin Machines, Narrow(x), UNCHANGED mw
  PROVE  MachineWorkInv'
<1>1. WorksOnHost' /\ HeldWhileWorking'
  BY DEF IndInv, MachineWorkInv, WorksOnHost, HeldWhileWorking, Stays
<1>2. ClaimChecked'
  BY DEF IndInv, MachineWorkInv, WorksOnHost, ClaimChecked, Narrow, Unclaimed
<1> QED BY <1>1, <1>2 DEF MachineWorkInv

\* The reconcile of machine m moves on to work record w.
LEMMA MachineWorkMoves ==
  ASSUME IndInv, Stays, NEW m \in Machines, NEW w \in MachineWork, Narrow(m),
         mw' = [mw EXCEPT ![m] = w],
         w.pc \notin {"idle", "select", "unfinalize"} => w.host \in Hosts /\ HeldAfter(w.host),
         w.pc = "cas" /\ m \in latest'[w.host] => Unclaimed(m, host'[w.host])
  PROVE  MachineWorkInv'
<1>1. mw'[m] = w /\ \A n \in Machines : n # m => mw'[n] = mw[n]
  BY DEF IndInv, TypeOK
<1>2. WorksOnHost' /\ HeldWhileWorking'
  BY <1>1 DEF IndInv, MachineWorkInv, WorksOnHost, HeldWhileWorking, Stays, HeldAfter, Held
<1>3. ClaimChecked'
  BY <1>1 DEF IndInv, MachineWorkInv, WorksOnHost, ClaimChecked, Narrow, Unclaimed
<1> QED BY <1>2, <1>3 DEF MachineWorkInv

-----------------------------------------------------------------------------
(* The inductive invariant.                                                *)

\* The inductive invariant holds initially.
LEMMA InitInv == Init => IndInv
<1> SUFFICES ASSUME Init PROVE IndInv
  OBVIOUS
<1>1. TypeOK
  BY InitTypes
<1>2. \A h \in Hosts : host[h] = NewHost /\ hostCache[h] = NewHost /\ hw[h] = IdleHost /\ latest[h] = {}
  BY DEF Init
<1>3. /\ NewHost.status.phase = "" /\ NewHost.status.claimRef = None
      /\ NewHost.finalizer = FALSE /\ NewHost.life = "live"
  BY DEF NewHost, NewHostStatus
<1>4. IdleHost.pc = "idle" /\ IdleHost.base.phase = "" /\ IdleHost.patch.claimRef = Keep
  BY DEF IdleHost, NewHostStatus, NoPatch
<1>5. \A m \in Machines :
        machine[m] = NewMachine /\ machineCache[m] = NewMachine /\ mw[m] = IdleMachine
  BY DEF Init
<1>6. NewMachine.status.resolvedHost = None /\ IdleMachine.pc = "idle"
  BY DEF NewMachine, NewMachineStatus, IdleMachine
<1>7. ObjectInv
  BY <1>2, <1>3, <1>5, <1>6
     DEF ObjectInv, EveryVersion, CacheIsCurrent, HeldSinceSeen, HeldWhileResolved, ResolvedIsHeld,
         ReleasingIsFree, ClaimedHasOwner, GoneIsFree, FinalizedFirst
<1>8. HostWorkInv
  BY <1>2, <1>4
     DEF HostWorkInv, BaseVersion, HeldWhileProbing, PatchKeepsClaim, DeleteChecked, ReleasingIsFree
<1>9. MachineWorkInv
  BY <1>5, <1>6 DEF MachineWorkInv, WorksOnHost, HeldWhileWorking, ClaimChecked
<1> QED BY <1>1, <1>7, <1>8, <1>9 DEF IndInv

\* The idle work record of a host is harmless.
LEMMA IdleHostFacts ==
  /\ IdleHost.pc = "idle" /\ ReleasingIsFree(IdleHost.base) /\ IdleHost.patch.claimRef = Keep
BY DEF IdleHost, NewHostStatus, NoPatch, ReleasingIsFree

\* A merge patch that does not mention the claim keeps a version's rules.
LEMMA MergeKeeps ==
  ASSUME NEW o \in HostObject, NEW p \in HostPatch, p.claimRef = Keep,
         NEW s, s = MergeConditions(o.status, p) \/ s = MergeStatus(o.status, p),
         ReleasingIsFree(o.status), ClaimedHasOwner(o.status),
         o.finalizer, o.life # "gone",
         NEW n, n = [o EXCEPT !.status = s]
  PROVE  /\ n \in HostObject /\ n.status = s /\ n.life = o.life /\ n.finalizer
         /\ s.claimRef = o.status.claimRef
         /\ ReleasingIsFree(s) /\ ClaimedHasOwner(s) /\ GoneIsFree(n) /\ FinalizedFirst(n)
<1>1. o.status \in HostStatus
  BY DEF HostObject
<1>2. s \in HostStatus
  BY <1>1, MergeTypes
<1>3. s.claimRef = o.status.claimRef
  <2>1. CASE s = MergeConditions(o.status, p)
    BY <1>1, <2>1 DEF MergeConditions, HostStatus
  <2>2. CASE s = MergeStatus(o.status, p)
    <3>1. Merge(o.status.claimRef, p.claimRef) = o.status.claimRef
      BY DEF Merge
    <3> QED BY <1>1, <2>2, <3>1 DEF MergeStatus, HostStatus
  <2> QED BY <2>1, <2>2
<1>4. s.phase \in {o.status.phase, "Available", "Probing", "Unavailable"}
  <2>1. CASE s = MergeConditions(o.status, p)
    BY <1>1, <2>1 DEF MergeConditions, HostStatus
  <2>2. CASE s = MergeStatus(o.status, p)
    <3>1. Merge(o.status.phase, p.phase) \in {o.status.phase, "Available", "Probing", "Unavailable"}
      BY DEF Merge, HostPatch
    <3>2. s.phase = Merge(o.status.phase, p.phase)
      BY <1>1, <2>2 DEF MergeStatus, HostStatus
    <3> QED BY <3>1, <3>2
  <2> QED BY <2>1, <2>2
<1>5. ReleasingIsFree(s) /\ ClaimedHasOwner(s)
  BY <1>3, <1>4 DEF ReleasingIsFree, ClaimedHasOwner
<1>6. n \in HostObject /\ n.status = s /\ n.life = o.life /\ n.finalizer = o.finalizer
  BY <1>2 DEF HostObject
<1>7. GoneIsFree(n) /\ FinalizedFirst(n) /\ n.finalizer
  BY <1>6 DEF GoneIsFree, FinalizedFirst
<1> QED BY <1>3, <1>5, <1>6, <1>7

\* Every step about a host preserves it.
LEMMA HostStepInv ==
  ASSUME IndInv, NEW h \in Hosts,
         \/ HostStep(h) \/ HostAbort(h) \/ DeleteHost(h) \/ NodeBooted(h) \/ SyncHost(h)
  PROVE  IndInv'
<1> USE DEF KeepCache
<1>a. TypeOK'
  BY HostStepTypes DEF IndInv
<1>b. host[h] \in HostObject /\ SeenHost(h) \in HostObject /\ hw[h] \in HostWork
  BY SeenTypes DEF IndInv, TypeOK
<1>c. /\ ReleasingIsFree(host[h].status) /\ ClaimedHasOwner(host[h].status)
      /\ GoneIsFree(host[h]) /\ FinalizedFirst(host[h])
      /\ ReleasingIsFree(SeenHost(h).status)
      /\ SeenHost(h).finalizer => Held(h)
  BY DEF IndInv, ObjectInv, EveryVersion, HeldSinceSeen, SeenHost, Held
<1>d. HostWorker \notin Machines /\ Cache \notin Machines /\ Cache # HostWorker
  BY MachinesAssumption DEF HostWorker, Cache
<1>1. CASE HostReconcile(h)
  <2> DEFINE o == SeenHost(h)
             n == [host[h] EXCEPT !.finalizer = TRUE]
             w == [IdleHost EXCEPT !.pc = "probe", !.base = o.status]
  <2>1. o.status \in HostStatus
    BY <1>b DEF HostObject
  <2>2. w \in HostWork /\ w.pc = "probe" /\ w.base = o.status /\ w.patch.claimRef = Keep
    BY <2>1, NewObjects, IdleHostFacts DEF HostWork, HostSteps
  <2>3. n \in HostObject /\ n.finalizer = TRUE /\ n.status = host[h].status /\ n.life = host[h].life
    BY <1>b DEF HostObject
  <2>4. hw' = [hw EXCEPT ![h] = w] /\ EnsureHostFinalizer(h, o)
    BY <1>1 DEF HostReconcile
  <2>5. UNCHANGED <<machine, machineCache, hostCache, mw>>
    BY <1>1 DEF HostReconcile, KeepMachine
  <2> HIDE DEF n, w
  <2>6. HostCopies' /\ Stays /\ (\A x : Narrow(x)) /\ Held(h)'
    <3>1. CASE o.finalizer \/ host[h].finalizer
      <4>1. KeepHost
        BY <2>4, <3>1 DEF EnsureHostFinalizer
      <4>2. HostCopies' /\ Stays /\ \A x : Narrow(x)
        BY <2>5, <4>1, HostUntouched
      <4>3. Held(h)
        BY <1>c, <3>1 DEF Held
      <4> QED BY <4>2, <4>3 DEF Stays
    <3>2. CASE ~(o.finalizer \/ host[h].finalizer)
      <4>1. WriteHost(h, n)
        BY <2>4, <3>2 DEF EnsureHostFinalizer, n
      <4>2. ReleasingIsFree(n.status) /\ ClaimedHasOwner(n.status) /\ GoneIsFree(n) /\ FinalizedFirst(n)
        BY <2>3, <1>c DEF GoneIsFree, FinalizedFirst
      <4>3. HostCopies' /\ Stays /\ \A x : Narrow(x)
        BY <2>3, <2>5, <4>1, <4>2, HostIsWritten
      <4>4. host'[h] = n
        BY <4>1 DEF WriteHost, IndInv, TypeOK
      <4> QED BY <2>3, <4>3, <4>4 DEF Held
    <3> QED BY <3>1, <3>2
  <2>7. HeldWhileResolved'
    BY <2>5, <2>6, MachineUntouched
  <2>8. HostWorkInv'
    <3>1. ReleasingIsFree(w.base) /\ w.pc # "unfinalize"
      BY <1>c, <2>2
    <3> QED BY <1>d, <2>2, <2>4, <2>6, <3>1, HostWorkMoves
  <2>9. MachineWorkInv'
    BY <1>d, <2>5, <2>6, MachineWorkUntouched
  <2> QED BY <1>a, <2>6, <2>7, <2>8, <2>9 DEF IndInv, ObjectInv, HostCopies
<1>2. CASE HostProbe(h)
  <2> DEFINE b == hw[h].base
  <2>1. b \in HostStatus /\ ReleasingIsFree(b) /\ Held(h)
    BY <1>2, <1>b DEF HostProbe, HostWork, IndInv, HostWorkInv, BaseVersion, HeldWhileProbing
  <2>2. PICK s \in reconcileHost(h, b), pc \in {"conditions", "status"} :
          hw' = [hw EXCEPT ![h] = [IdleHost EXCEPT !.pc = pc, !.patch = PatchFor(b, s)]]
    BY <1>2 DEF HostProbe
  <2>3. s.claimRef = b.claimRef
    BY <2>1, HandlersAsk DEF ReleasingIsFree
  <2>4. Changed(b.claimRef, s.claimRef) = Keep
    BY <2>3 DEF Changed
  <2> DEFINE p == PatchFor(b, s)
             w == [IdleHost EXCEPT !.pc = pc, !.patch = p]
  <2>5. p.claimRef = Keep
    BY <2>4 DEF PatchFor
  <2>6. hw' = [hw EXCEPT ![h] = w]
    BY <2>2
  <2>7. w = hw'[h] /\ w \in HostWork
    BY <2>6, <1>a DEF IndInv, TypeOK
  <2> HIDE DEF p
  <2>8. w.pc = pc /\ w.patch = p /\ w.base = IdleHost.base
    BY NewObjects DEF HostWork
  <2> HIDE DEF w
  <2>9. HostCopies' /\ Stays /\ (\A x : Narrow(x)) /\ UNCHANGED <<machine, machineCache, mw>>
    BY <1>2, HostUntouched DEF HostProbe, KeepMachine
  <2>10. HostWorkInv'
    <3>1. /\ w.pc # "unfinalize" /\ ReleasingIsFree(w.base) /\ w.patch.claimRef = Keep
          /\ Held(h)'
      BY <2>1, <2>5, <2>8, <2>9, IdleHostFacts DEF Stays
    <3> QED BY <1>d, <2>6, <2>7, <2>9, <3>1, HostWorkMoves
  <2>11. MachineWorkInv' /\ HeldWhileResolved'
    BY <1>d, <2>9, MachineWorkUntouched, MachineUntouched
  <2> QED BY <1>a, <2>9, <2>10, <2>11 DEF IndInv, ObjectInv, HostCopies
<1>3. CASE HostPatchConditions(h) \/ HostPatchStatus(h)
  <2> DEFINE s == IF HostPatchConditions(h) THEN MergeConditions(host[h].status, hw[h].patch)
                                            ELSE MergeStatus(host[h].status, hw[h].patch)
             n == [host[h] EXCEPT !.status = s]
             w == IF HostPatchConditions(h) THEN [hw[h] EXCEPT !.pc = "status"] ELSE IdleHost
  <2>1. hw[h].pc \in {"conditions", "status"} /\ hw[h].patch \in HostPatch /\ hw[h].base \in HostStatus
    BY <1>3, <1>b DEF HostPatchConditions, HostPatchStatus, HostWork
  <2>2. Held(h) /\ hw[h].patch.claimRef = Keep /\ ReleasingIsFree(hw[h].base)
    BY <2>1 DEF IndInv, HostWorkInv, HeldWhileProbing, PatchKeepsClaim, BaseVersion
  <2>3. hw' = [hw EXCEPT ![h] = w]
    BY <1>3 DEF HostPatchConditions, HostPatchStatus
  <2>4. IF host[h].life # "gone" THEN WriteHost(h, n) ELSE KeepHost
    BY <1>3 DEF HostPatchConditions, HostPatchStatus
  <2>5. UNCHANGED <<machine, machineCache, hostCache, mw>>
    BY <1>3 DEF HostPatchConditions, HostPatchStatus, KeepMachine
  <2>6. s = MergeConditions(host[h].status, hw[h].patch) \/ s = MergeStatus(host[h].status, hw[h].patch)
    OBVIOUS
  <2>7. /\ w \in HostWork /\ w.pc \in {"status", "idle"} /\ ReleasingIsFree(w.base)
        /\ w.patch.claimRef = Keep
    <3>1. CASE HostPatchConditions(h)
      <4>1. w = [hw[h] EXCEPT !.pc = "status"]
        BY <3>1
      <4> HIDE DEF w
      <4>2. w \in HostWork /\ w.pc = "status" /\ w.base = hw[h].base /\ w.patch = hw[h].patch
        BY <4>1, <1>b DEF HostWork, HostSteps
      <4> QED BY <4>2, <2>2
    <3>2. CASE ~HostPatchConditions(h)
      BY <3>2, NewObjects, IdleHostFacts
    <3> QED BY <3>1, <3>2
  <2> HIDE DEF s, w
  <2>8. HostCopies' /\ Stays /\ (\A x : Narrow(x))
    <3>1. CASE host[h].life # "gone"
      <4>1. host[h].finalizer
        BY <2>2, <3>1 DEF Held
      <4>2. n = [host[h] EXCEPT !.status = s]
        OBVIOUS
      <4>3. WriteHost(h, n)
        BY <2>4, <3>1
      <4> HIDE DEF n
      <4>4. /\ n \in HostObject /\ n.status = s /\ n.life = host[h].life /\ n.finalizer
            /\ ReleasingIsFree(s) /\ ClaimedHasOwner(s) /\ GoneIsFree(n) /\ FinalizedFirst(n)
        BY <1>b, <1>c, <2>1, <2>2, <2>6, <3>1, <4>1, <4>2, MergeKeeps
      <4> QED BY <2>5, <4>4, <4>3, HostIsWritten
    <3>2. CASE host[h].life = "gone"
      BY <2>4, <2>5, <3>2, HostUntouched
    <3> QED BY <3>1, <3>2
  <2>9. HostWorkInv'
    <3>1. Held(h)' /\ w.pc # "unfinalize"
      BY <2>2, <2>7, <2>8 DEF Stays
    <3> QED BY <1>d, <2>3, <2>7, <2>8, <3>1, HostWorkMoves
  <2>10. MachineWorkInv' /\ HeldWhileResolved'
    BY <1>d, <2>5, <2>8, MachineWorkUntouched, MachineUntouched
  <2> QED BY <1>a, <2>8, <2>9, <2>10 DEF IndInv, ObjectInv, HostCopies
<1>4. CASE HostReconcileDelete(h)
  <2> DEFINE w == [IdleHost EXCEPT !.pc = "unfinalize"]
  <2>1. w.pc = "unfinalize" /\ w.base = IdleHost.base /\ w.patch = IdleHost.patch
    BY NewObjects DEF HostWork
  <2>2. /\ hw' = [hw EXCEPT ![h] = w] /\ ReadHost(HostWorker, h) /\ Deletable(SeenHost(h))
        /\ UNCHANGED <<host, hostCache, machine, machineCache, mw>>
    BY <1>4 DEF HostReconcileDelete, KeepMachine
  <2> HIDE DEF w
  <2>3. HostCopies' /\ Stays /\ Narrow(HostWorker)
    BY <2>2, HostIsRead
  <2>4. hw'[h] = w /\ \A g \in Hosts : g # h => hw'[g] = hw[g]
    BY <2>2 DEF IndInv, TypeOK
  <2>5. BaseVersion' /\ PatchKeepsClaim'
    BY <2>1, <2>4, IdleHostFacts DEF IndInv, HostWorkInv, BaseVersion, PatchKeepsClaim, ReleasingIsFree
  <2>6. HeldWhileProbing'
    BY <2>1, <2>3, <2>4 DEF IndInv, HostWorkInv, HeldWhileProbing, Stays
  <2>7. HostWorker \in latest'[h] => ~Claimed(h)
    <3>1. SeenHost(h).status.claimRef = None
      BY <2>2 DEF Deletable
    <3>2. HostWorker \in latest'[h] => SeenHost(h) = host[h]
      BY <2>2 DEF ReadHost, SeenHost, IndInv, TypeOK, ObjectInv, CacheIsCurrent
    <3> QED BY <3>1, <3>2 DEF Claimed
  <2>8. \A g \in Hosts : g # h => latest'[g] = latest[g]
    BY <2>2 DEF ReadHost, IndInv, TypeOK
  <2>9. DeleteChecked'
    BY <2>2, <2>4, <2>7, <2>8 DEF IndInv, HostWorkInv, DeleteChecked, Claimed
  <2>10. MachineWorkInv' /\ HeldWhileResolved'
    BY <1>d, <2>2, <2>3, MachineWorkUntouched, MachineUntouched
  <2> QED BY <1>a, <2>3, <2>5, <2>6, <2>9, <2>10 DEF IndInv, ObjectInv, HostCopies, HostWorkInv
<1>5. CASE HostUnfinalize(h)
  <2>1. /\ hw' = [hw EXCEPT ![h] = IdleHost]
        /\ WriteHost(h, GoneHost) \/ KeepHost
        /\ UNCHANGED <<machine, machineCache, hostCache, mw>>
    BY <1>5 DEF HostUnfinalize, KeepMachine
  <2>2. /\ GoneHost \in HostObject /\ GoneHost.life = "gone"
        /\ GoneHost.status.phase = "" /\ GoneHost.status.claimRef = None
    BY NewObjects DEF GoneHost, NewHost, NewHostStatus
  <2>3. /\ ReleasingIsFree(GoneHost.status) /\ ClaimedHasOwner(GoneHost.status)
        /\ GoneIsFree(GoneHost) /\ FinalizedFirst(GoneHost)
    BY <2>2 DEF ReleasingIsFree, ClaimedHasOwner, GoneIsFree, FinalizedFirst
  <2>4. HostCopies' /\ Stays /\ (\A x : Narrow(x))
    <3>1. CASE WriteHost(h, GoneHost)
      BY <2>1, <2>2, <2>3, <3>1, HostIsWritten
    <3>2. CASE KeepHost
      BY <2>1, <3>2, HostUntouched
    <3> QED BY <2>1, <3>1, <3>2
  <2>5. HostWorkInv'
    BY <1>d, <2>1, <2>4, NewObjects, IdleHostFacts, HostWorkMoves
  <2>6. MachineWorkInv' /\ HeldWhileResolved'
    BY <1>d, <2>1, <2>4, MachineWorkUntouched, MachineUntouched
  <2> QED BY <1>a, <2>4, <2>5, <2>6 DEF IndInv, ObjectInv, HostCopies
<1>6. CASE HostAbort(h)
  <2>1. hw' = [hw EXCEPT ![h] = IdleHost] /\ KeepHost /\ UNCHANGED <<machine, machineCache, hostCache, mw>>
    BY <1>6 DEF HostAbort, KeepMachine
  <2>2. HostCopies' /\ Stays /\ (\A x : Narrow(x))
    BY <2>1, HostUntouched
  <2>3. HostWorkInv'
    BY <1>d, <2>1, <2>2, NewObjects, IdleHostFacts, HostWorkMoves
  <2>4. MachineWorkInv' /\ HeldWhileResolved'
    BY <1>d, <2>1, <2>2, MachineWorkUntouched, MachineUntouched
  <2> QED BY <1>a, <2>2, <2>3, <2>4 DEF IndInv, ObjectInv, HostCopies
<1>7. CASE DeleteHost(h)
  <2> DEFINE n == Delete(host[h], GoneHost)
  <2>1. WriteHost(h, n) /\ UNCHANGED <<machine, machineCache, hostCache, hw, mw>>
    BY <1>7 DEF DeleteHost, KeepMachine
  <2>2. /\ n \in HostObject
        /\ ReleasingIsFree(n.status) /\ ClaimedHasOwner(n.status)
        /\ GoneIsFree(n) /\ FinalizedFirst(n)
        /\ n.finalizer \/ n.life = "gone"
    <3>1. CASE host[h].finalizer
      <4> DEFINE d == [host[h] EXCEPT !.life = "deleting"]
      <4>1. d \in HostObject /\ d.life = "deleting" /\ d.status = host[h].status /\ d.finalizer
        BY <1>b, <3>1 DEF HostObject, Lives
      <4>2. n = d
        BY <3>1 DEF Delete
      <4> HIDE DEF d, n
      <4> QED BY <4>1, <4>2, <1>c DEF GoneIsFree, FinalizedFirst
    <3>2. CASE ~host[h].finalizer
      <4>1. n = GoneHost
        BY <3>2 DEF Delete
      <4> HIDE DEF n
      <4>2. /\ GoneHost \in HostObject /\ GoneHost.life = "gone"
            /\ GoneHost.status.phase = "" /\ GoneHost.status.claimRef = None
        BY NewObjects DEF GoneHost, NewHost, NewHostStatus
      <4> QED BY <4>1, <4>2 DEF ReleasingIsFree, ClaimedHasOwner, GoneIsFree, FinalizedFirst
    <3> QED BY <3>1, <3>2
  <2> HIDE DEF n
  <2>3. HostCopies' /\ Stays /\ (\A x : Narrow(x))
    BY <2>1, <2>2, HostIsWritten
  <2>4. HostWorkInv' /\ MachineWorkInv' /\ HeldWhileResolved'
    BY <1>d, <2>1, <2>3, HostWorkUntouched, MachineWorkUntouched, MachineUntouched
  <2> QED BY <1>a, <2>3, <2>4 DEF IndInv, ObjectInv, HostCopies
<1>8. CASE NodeBooted(h)
  <2>1. KeepHost /\ UNCHANGED <<machine, machineCache, hostCache, hw, mw>>
    BY <1>8 DEF NodeBooted, KeepMachine
  <2>2. HostCopies' /\ Stays /\ (\A x : Narrow(x))
    BY <2>1, HostUntouched
  <2>3. HostWorkInv' /\ MachineWorkInv' /\ HeldWhileResolved'
    BY <1>d, <2>1, <2>2, HostWorkUntouched, MachineWorkUntouched, MachineUntouched
  <2> QED BY <1>a, <2>2, <2>3 DEF IndInv, ObjectInv, HostCopies
<1>9. CASE SyncHost(h)
  <2>1. /\ hostCache' = [hostCache EXCEPT ![h] = host[h]]
        /\ latest' = [latest EXCEPT ![h] = @ \cup {Cache}]
        /\ UNCHANGED <<host, machine, machineCache, hw, mw>>
    BY <1>9 DEF SyncHost
  <2>2. /\ hostCache'[h] = host[h] /\ latest'[h] = latest[h] \cup {Cache}
        /\ \A g \in Hosts : g # h => hostCache'[g] = hostCache[g] /\ latest'[g] = latest[g]
    BY <2>1 DEF IndInv, TypeOK
  <2>3. Stays /\ Narrow(Cache)
    BY <2>1, <2>2 DEF Stays, Narrow, Held
  <2>4. EveryVersion'
    <3>1. \A g \in Hosts : ReleasingIsFree(hostCache'[g].status) /\ FinalizedFirst(hostCache'[g])
      <4> SUFFICES ASSUME NEW g \in Hosts
                   PROVE  ReleasingIsFree(hostCache'[g].status) /\ FinalizedFirst(hostCache'[g])
        OBVIOUS
      <4>1. CASE g = h
        BY <1>c, <2>2, <4>1
      <4>2. CASE g # h
        BY <2>2, <4>2 DEF IndInv, ObjectInv, EveryVersion
      <4> QED BY <4>1, <4>2
    <3>2. \A g \in Hosts : /\ ReleasingIsFree(host[g].status) /\ ClaimedHasOwner(host[g].status)
                           /\ GoneIsFree(host[g]) /\ FinalizedFirst(host[g])
      BY DEF IndInv, ObjectInv, EveryVersion
    <3> QED BY <2>1, <3>1, <3>2
            DEF EveryVersion, ReleasingIsFree, ClaimedHasOwner, GoneIsFree, FinalizedFirst
  <2>5. CacheIsCurrent'
    BY <2>1, <2>2 DEF IndInv, ObjectInv, CacheIsCurrent
  <2>6. HeldSinceSeen'
    BY <2>1, <2>2 DEF IndInv, ObjectInv, HeldSinceSeen, Held
  <2>7. HostWorkInv' /\ MachineWorkInv' /\ HeldWhileResolved'
    BY <1>d, <2>1, <2>3, HostWorkUntouched, MachineWorkUntouched, MachineUntouched
  <2> QED BY <1>a, <2>4, <2>5, <2>6, <2>7 DEF IndInv, ObjectInv
<1> QED BY <1>1, <1>2, <1>3, <1>4, <1>5, <1>6, <1>7, <1>8, <1>9 DEF HostStep

\* A machine reconcile that ends, or goes on with the host it works on to any
\* call but claimCAS's update.
LEMMA MachineWorkGoes ==
  ASSUME IndInv, Stays, NEW m \in Machines, Narrow(m),
         \/ Stop(m)
         \/ /\ mw[m].pc \notin {"idle", "select", "unfinalize"}
            /\ \E pc \in MachineSteps \ {"cas"} : Goto(m, pc)
  PROVE  MachineWorkInv'
<1>1. CASE Stop(m)
  <2>1. IdleMachine \in MachineWork /\ IdleMachine.pc = "idle"
    BY NewObjects DEF IdleMachine
  <2> QED BY <1>1, <2>1, MachineWorkMoves DEF Stop
<1>2. CASE /\ mw[m].pc \notin {"idle", "select", "unfinalize"}
           /\ \E pc \in MachineSteps \ {"cas"} : Goto(m, pc)
  <2>1. PICK pc \in MachineSteps \ {"cas"} : Goto(m, pc)
    BY <1>2
  <2> DEFINE w == [mw[m] EXCEPT !.pc = pc]
  <2>2. mw[m] \in MachineWork
    BY DEF IndInv, TypeOK
  <2>3. w \in MachineWork /\ w.pc = pc /\ w.host = mw[m].host
    BY <2>2 DEF MachineWork
  <2>4. mw' = [mw EXCEPT ![m] = w]
    BY <2>1 DEF Goto
  <2>5. w.host \in Hosts /\ HeldAfter(w.host)
    BY <1>2, <2>3, StaysAfter DEF IndInv, MachineWorkInv, WorksOnHost, HeldWhileWorking
  <2> HIDE DEF w
  <2> QED BY <2>3, <2>4, <2>5, MachineWorkMoves
<1> QED BY <1>1, <1>2

\* Every step about a machine preserves it.
LEMMA MachineStepInv ==
  ASSUME IndInv, NEW m \in Machines,
         \/ ClaimStep(m) \/ ReleaseStep(m) \/ MachineAbort(m)
         \/ DeleteMachine(m) \/ SyncMachine(m)
  PROVE  IndInv'
<1> USE DEF KeepCache
<1> DEFINE h == mw[m].host
           busy == mw[m].pc \notin {"idle", "select", "unfinalize"}
<1>a. TypeOK'
  BY MachineStepTypes DEF IndInv, MachineWorkInv
<1>b. /\ mw[m] \in MachineWork /\ machine[m] \in MachineObject /\ SeenMachine(m) \in MachineObject
      /\ ResolvedIsHeld(machine[m].status) /\ ResolvedIsHeld(SeenMachine(m).status)
  BY SeenTypes DEF IndInv, TypeOK, ObjectInv, HeldWhileResolved, SeenMachine
<1>c. busy => h \in Hosts /\ Held(h) /\ host[h] \in HostObject
  BY DEF IndInv, TypeOK, MachineWorkInv, WorksOnHost, HeldWhileWorking
<1>d. m # HostWorker /\ m # Cache
  BY MachinesAssumption DEF HostWorker, Cache
<1>e. {"verify", "select", "get", "record", "apply", "ready", "release", "wipe",
       "freeAvailable", "freeReleasing", "unfinalize"} \subseteq MachineSteps \ {"cas"}
  BY DEF MachineSteps
<1>f. Adopt(m) => Stop(m) \/ Goto(m, "apply")
  BY DEF Adopt
\* From the parts to the whole.
<1>g. ASSUME HostCopies', Stays, Narrow(m), UNCHANGED hw, HeldWhileResolved', MachineWorkInv'
      PROVE  IndInv'
  <2>1. HostWorkInv'
    BY <1>d, <1>g, HostWorkUntouched
  <2> QED BY <1>a, <1>g, <2>1 DEF IndInv, ObjectInv, HostCopies
\* A step that writes no object.
<1>h. ASSUME KeepHost, KeepMachine, KeepCache, UNCHANGED hw,
             Stop(m) \/ (busy /\ \E pc \in MachineSteps \ {"cas"} : Goto(m, pc))
      PROVE  IndInv'
  <2>1. HostCopies' /\ Stays /\ Narrow(m)
    BY <1>h, HostUntouched
  <2>2. HeldWhileResolved'
    BY <1>h, <2>1, MachineUntouched DEF KeepMachine
  <2>3. MachineWorkInv'
    BY <1>h, <2>1, MachineWorkGoes
  <2> QED BY <1>h, <1>g, <2>1, <2>2, <2>3
\* A step that writes the ByotMachine, or nothing.
<1>i. ASSUME KeepHost, KeepCache, UNCHANGED hw,
             KeepMachine \/ \E o \in MachineObject : WriteMachine(m, o) /\ ResolvedIsHeld(o.status),
             Stays /\ Narrow(m) => MachineWorkInv'
      PROVE  IndInv'
  <2>1. HostCopies' /\ Stays /\ Narrow(m)
    BY <1>i, HostUntouched
  <2>2. HeldWhileResolved'
    BY <1>i, <2>1, MachineUntouched, MachineIsWritten DEF KeepMachine
  <2> QED BY <1>i, <1>g, <2>1, <2>2
<1>1. CASE MachineReconcile(m)
  <2> DEFINE o == SeenMachine(m)
             w == [pc |-> IF o.status.resolvedHost = None THEN "select" ELSE "verify",
                   base |-> o.status, host |-> o.status.resolvedHost]
             n == [machine[m] EXCEPT !.finalizer = TRUE]
  <2>1. mw' = [mw EXCEPT ![m] = w] /\ (KeepMachine \/ WriteMachine(m, n))
    BY <1>1 DEF MachineReconcile
  <2>2. o.status \in MachineStatus /\ o.status.resolvedHost \in Hosts \cup {None}
    BY <1>b DEF MachineObject, MachineStatus
  <2>3. w \in MachineWork
    BY <2>1, <1>a DEF IndInv, TypeOK
  <2>4. Stays => (w.pc \notin {"idle", "select", "unfinalize"} => w.host \in Hosts /\ HeldAfter(w.host))
    BY <1>b, <2>2, StaysAfter DEF ResolvedIsHeld
  <2>5. w.pc # "cas"
    OBVIOUS
  <2>6. n \in MachineObject /\ n.status = machine[m].status
    BY <1>b DEF MachineObject
  <2> HIDE DEF w, n
  <2>7. Stays /\ Narrow(m) => MachineWorkInv'
    BY <2>1, <2>3, <2>4, <2>5, MachineWorkMoves
  <2> QED BY <1>1, <1>b, <1>i, <2>1, <2>6, <2>7 DEF MachineReconcile
<1>2. CASE KeepClaim(m)
  BY <1>2, <1>e, <1>f, <1>h DEF KeepClaim
<1>3. CASE clearResolvedHost(m)
  <2> DEFINE n == [machine[m] EXCEPT !.status.resolvedHost = None]
             w == [mw[m] EXCEPT !.pc = "select", !.host = None]
  <2>1. \/ WriteMachine(m, n) /\ mw' = [mw EXCEPT ![m] = w]
        \/ KeepMachine /\ Stop(m)
    BY <1>3 DEF clearResolvedHost
  <2>2. w \in MachineWork /\ w.pc = "select"
    BY <1>b, <1>e DEF MachineWork
  <2>3. n \in MachineObject /\ n.status.resolvedHost = None
    BY <1>b, MachineWrites DEF MachineObject, MachineStatus
  <2> HIDE DEF n, w
  <2>4. Stays /\ Narrow(m) => MachineWorkInv'
    BY <2>1, <2>2, MachineWorkMoves, MachineWorkGoes
  <2> QED BY <1>3, <1>i, <2>1, <2>3, <2>4 DEF clearResolvedHost, ResolvedIsHeld
<1>4. CASE SelectHost(m)
  <2> DEFINE C == {g \in Eligible[m] : Candidate(m, SeenHost(g))}
             w == [mw[m] EXCEPT !.pc = "get", !.host = FirstByName(C)]
  <2>1. CASE C = {}
    BY <1>4, <1>h, <2>1 DEF SelectHost
  <2>2. CASE C # {}
    <3>1. FirstByName(C) \in C /\ FirstByName(C) \in Hosts
      BY <2>2, FirstByNameIsCandidate, EligibleAssumption
    <3>2. Candidate(m, SeenHost(FirstByName(C)))
      BY <3>1
    <3>3. mw' = [mw EXCEPT ![m] = w]
      BY <1>4, <2>2 DEF SelectHost
    <3> HIDE DEF C
    <3> DEFINE g == FirstByName(C)
    <3>4. Held(g)
      BY <3>1, <3>2 DEF Candidate, SeenHost, Held, IndInv, ObjectInv, EveryVersion, HeldSinceSeen,
                        FinalizedFirst
    <3>5. w \in MachineWork /\ w.pc = "get" /\ w.host = g
      BY <1>b, <1>e, <3>1 DEF MachineWork
    <3> HIDE DEF w, g
    <3>6. g \in Hosts
      BY <3>1 DEF g
    <3>7. Stays /\ Narrow(m) => MachineWorkInv'
      BY <3>3, <3>4, <3>5, <3>6, MachineWorkMoves, StaysAfter
    <3> QED BY <1>4, <1>i, <3>7 DEF SelectHost
  <2> QED BY <2>1, <2>2
<1>5. CASE ClaimGet(m)
  <2>1. busy
    BY <1>5 DEF ClaimGet
  <2>2. CASE Unclaimed(m, SeenHost(h))
    <3> DEFINE w == [mw[m] EXCEPT !.pc = "cas"]
    <3>1. /\ ReadHost(m, h) /\ mw' = [mw EXCEPT ![m] = w]
          /\ UNCHANGED <<host, hostCache, machine, machineCache, hw>>
      BY <1>5, <2>2 DEF ClaimGet, Goto, KeepMachine
    <3>2. HostCopies' /\ Stays /\ Narrow(m)
      BY <1>c, <2>1, <3>1, HostIsRead
    <3>3. w \in MachineWork /\ w.pc = "cas" /\ w.host = h
      BY <1>b DEF MachineWork, MachineSteps
    <3>4. m \in latest'[h] => SeenHost(h) = host[h]
      BY <1>c, <2>1, <3>1 DEF ReadHost, SeenHost, IndInv, TypeOK, ObjectInv, CacheIsCurrent
    <3> HIDE DEF w
    <3>5. MachineWorkInv'
      BY <1>c, <2>1, <2>2, <3>1, <3>2, <3>3, <3>4, MachineWorkMoves, StaysAfter
    <3> QED BY <1>g, <3>1, <3>2, <3>5, MachineUntouched
  <2>3. CASE ~Unclaimed(m, SeenHost(h))
    BY <1>5, <1>h, <2>3 DEF ClaimGet, KeepHost
  <2> QED BY <2>2, <2>3
<1>6. CASE ClaimCAS(m)
  <2>1. busy /\ mw[m].pc = "cas"
    BY <1>6 DEF ClaimCAS
  <2>2. CASE m \in latest[h]
    <3> DEFINE s == [host[h].status EXCEPT !.claimRef = m, !.phase = "Claimed"]
               n == [host[h] EXCEPT !.status.claimRef = m, !.status.phase = "Claimed"]
    <3>1. Unclaimed(m, host[h])
      BY <2>1, <2>2 DEF IndInv, MachineWorkInv, ClaimChecked
    <3>2. host[h].life # "gone" /\ host[h].finalizer
      BY <1>c, <2>1, <3>1 DEF Unclaimed, Held
    <3>3. WriteHost(h, n) /\ Goto(m, "record") /\ KeepMachine /\ UNCHANGED <<hostCache, machineCache, hw>>
      BY <1>6, <2>2 DEF ClaimCAS
    <3>4. /\ n \in HostObject /\ n.life = host[h].life /\ n.finalizer = host[h].finalizer
          /\ n.status.claimRef = m /\ n.status.phase = "Claimed"
      BY <1>c, <2>1, ClaimWrites
    <3> HIDE DEF n
    <3>5. /\ ReleasingIsFree(n.status) /\ ClaimedHasOwner(n.status)
          /\ GoneIsFree(n) /\ FinalizedFirst(n)
      BY <3>2, <3>4, NoneAssumption DEF ReleasingIsFree, ClaimedHasOwner, GoneIsFree, FinalizedFirst
    <3>6. HostCopies' /\ Stays /\ Narrow(m)
      BY <1>c, <2>1, <3>2, <3>3, <3>4, <3>5, HostIsWritten
    <3>7. MachineWorkInv'
      BY <1>e, <2>1, <3>3, <3>6, MachineWorkGoes
    <3> QED BY <1>g, <3>3, <3>6, <3>7, MachineUntouched DEF KeepMachine
  <2>3. CASE m \notin latest[h]
    BY <1>6, <1>h, <2>3 DEF ClaimCAS
  <2> QED BY <2>2, <2>3
<1>7. CASE RecordClaim(m)
  <2> DEFINE r == Merge(machine[m].status.resolvedHost, Changed(mw[m].base.resolvedHost, h))
             n == [machine[m] EXCEPT !.status.resolvedHost = r]
  <2>1. busy /\ KeepHost /\ UNCHANGED <<hostCache, machineCache, hw>>
    BY <1>7 DEF RecordClaim
  <2>2. (WriteMachine(m, n) /\ Adopt(m)) \/ (KeepMachine /\ Stop(m))
    BY <1>7 DEF RecordClaim
  <2>3. r \in {machine[m].status.resolvedHost, h}
    BY DEF Merge, Changed
  <2>4. r \in Hosts \cup {None}
    BY <1>b, <1>c, <2>1, <2>3 DEF MachineObject, MachineStatus
  <2>5. r # None => Held(r)
    BY <1>b, <1>c, <2>1, <2>3 DEF ResolvedIsHeld
  <2> HIDE DEF r
  <2>6. n \in MachineObject /\ n.status.resolvedHost = r
    BY <1>b, <2>4, MachineWrites DEF MachineObject, MachineStatus
  <2> HIDE DEF n
  <2>7. Stays /\ Narrow(m) => MachineWorkInv'
    BY <1>e, <1>f, <2>1, <2>2, MachineWorkGoes
  <2> QED BY <1>i, <2>1, <2>2, <2>5, <2>6, <2>7 DEF ResolvedIsHeld
<1>8. CASE ApplyConfig(m)
  BY <1>8, <1>e, <1>h DEF ApplyConfig
<1>9. CASE MarkAdopted(m)
  <2> DEFINE n == [machine[m] EXCEPT !.status.ready = TRUE]
  <2>1. (WriteMachine(m, n) \/ KeepMachine) /\ Stop(m) /\ KeepHost /\ UNCHANGED <<hostCache, machineCache, hw>>
    BY <1>9 DEF MarkAdopted
  <2>2. n \in MachineObject /\ n.status.resolvedHost = machine[m].status.resolvedHost
    BY <1>b, MachineWrites DEF MachineObject, MachineStatus
  <2> HIDE DEF n
  <2>3. Stays /\ Narrow(m) => MachineWorkInv'
    BY <2>1, MachineWorkGoes
  <2> QED BY <1>b, <1>i, <2>1, <2>2, <2>3 DEF ResolvedIsHeld
<1>10. CASE MachineReconcileDelete(m)
  <2> DEFINE o == SeenMachine(m)
             w == [IdleMachine EXCEPT
                     !.pc = IF o.status.resolvedHost = None THEN "unfinalize" ELSE "release",
                     !.host = o.status.resolvedHost]
  <2>1. mw' = [mw EXCEPT ![m] = w] /\ KeepHost /\ UNCHANGED <<machine, hostCache, machineCache, hw>>
    BY <1>10 DEF MachineReconcileDelete
  <2>2. o.status.resolvedHost \in Hosts \cup {None}
    BY <1>b DEF MachineObject, MachineStatus
  <2>3. w \in MachineWork
    BY <2>1, <1>a DEF IndInv, TypeOK
  <2>4. /\ w.pc \in {"unfinalize", "release"} /\ w.host = o.status.resolvedHost
        /\ w.pc = "release" => w.host # None
    BY NewObjects DEF IdleMachine
  <2> HIDE DEF w
  <2>5. HostCopies' /\ Stays /\ Narrow(m)
    BY <2>1, HostUntouched
  <2>6. w.pc = "release" => w.host \in Hosts /\ HeldAfter(w.host)
    BY <1>b, <2>2, <2>4, <2>5, StaysAfter DEF ResolvedIsHeld
  <2>7. MachineWorkInv'
    BY <2>1, <2>3, <2>4, <2>5, <2>6, MachineWorkMoves
  <2> QED BY <1>g, <2>1, <2>5, <2>7, MachineUntouched
<1>11. CASE ReleaseGet(m)
  <2>1. busy /\ KeepMachine /\ UNCHANGED <<host, hostCache, machineCache, hw>>
    BY <1>11 DEF ReleaseGet
  <2>2. CASE SeenHost(h).life = "gone"
    BY <1>11, <1>e, <1>h, <2>1, <2>2 DEF ReleaseGet, KeepHost
  <2>3. CASE SeenHost(h).life # "gone"
    <3>1. ReadHost(m, h) /\ Goto(m, "wipe")
      BY <1>11, <2>3 DEF ReleaseGet
    <3>2. HostCopies' /\ Stays /\ Narrow(m)
      BY <1>c, <2>1, <3>1, HostIsRead
    <3>3. MachineWorkInv'
      BY <1>e, <2>1, <3>1, <3>2, MachineWorkGoes
    <3> QED BY <1>g, <2>1, <3>2, <3>3, MachineUntouched DEF KeepMachine
  <2> QED BY <2>2, <2>3
<1>12. CASE ReleaseKeep(m) \/ ReleaseReset(m) \/ ReleaseFailed(m)
  BY <1>12, <1>e, <1>h DEF ReleaseKeep, ReleaseReset, ReleaseFailed
<1>13. CASE ReleaseFree(m)
  <2>1. busy
    BY <1>13 DEF ReleaseFree
  <2>2. CASE m \in latest[h]
    <3> DEFINE s == FreedStatus(host[h].status, mw[m].pc)
               n == [host[h] EXCEPT !.status = s]
    <3>1. /\ WriteHost(h, n) /\ Goto(m, "unfinalize") /\ KeepMachine
          /\ UNCHANGED <<hostCache, machineCache, hw>>
      BY <1>13, <2>2 DEF ReleaseFree, GoOnToUnfinalize
    <3>2. s \in HostStatus /\ s.claimRef = None /\ s.phase # "Claimed"
      BY <1>c, <2>1 DEF FreedStatus, FreedPhase, HostObject, HostStatus, Phases
    <3> HIDE DEF s
    <3>3. /\ n \in HostObject /\ n.status = s /\ n.life = host[h].life
          /\ n.finalizer = host[h].finalizer
      BY <1>c, <2>1, <3>2 DEF HostObject
    <3> HIDE DEF n
    <3>4. /\ ReleasingIsFree(n.status) /\ ClaimedHasOwner(n.status)
          /\ GoneIsFree(n) /\ FinalizedFirst(n)
      BY <1>c, <2>1, <3>2, <3>3
         DEF ReleasingIsFree, ClaimedHasOwner, GoneIsFree, FinalizedFirst, Held
    <3>5. Held(h) => n.finalizer \/ n.life = "gone"
      BY <3>3 DEF Held
    <3>6. HostCopies' /\ Stays /\ Narrow(m)
      BY <1>c, <2>1, <3>1, <3>3, <3>4, <3>5, HostIsWritten
    <3>7. MachineWorkInv'
      BY <1>e, <2>1, <3>1, <3>6, MachineWorkGoes
    <3> QED BY <1>g, <3>1, <3>6, <3>7, MachineUntouched DEF KeepMachine
  <2>3. CASE m \notin latest[h]
    BY <1>13, <1>h, <2>3 DEF ReleaseFree
  <2> QED BY <2>2, <2>3
<1>14. CASE MachineUnfinalize(m)
  <2>1. /\ WriteMachine(m, GoneMachine) \/ KeepMachine
        /\ Stop(m) /\ KeepHost /\ UNCHANGED <<hostCache, machineCache, hw>>
    BY <1>14 DEF MachineUnfinalize
  <2>2. GoneMachine \in MachineObject /\ ResolvedIsHeld(GoneMachine.status)
    BY NewObjects DEF GoneMachine, NewMachine, NewMachineStatus, ResolvedIsHeld
  <2>3. Stays /\ Narrow(m) => MachineWorkInv'
    BY <2>1, MachineWorkGoes
  <2> QED BY <1>i, <2>1, <2>2, <2>3
<1>15. CASE MachineAbort(m)
  BY <1>15, <1>h DEF MachineAbort
<1>16. CASE DeleteMachine(m)
  <2> DEFINE n == Delete(machine[m], GoneMachine)
  <2>1. WriteMachine(m, n) /\ KeepHost /\ UNCHANGED <<hostCache, machineCache, hw, mw>>
    BY <1>16 DEF DeleteMachine
  <2>2. n \in MachineObject /\ ResolvedIsHeld(n.status)
    <3>1. [machine[m] EXCEPT !.life = "deleting"] \in MachineObject
      BY <1>b DEF MachineObject, Lives
    <3>2. [machine[m] EXCEPT !.life = "deleting"].status = machine[m].status
      BY <1>b DEF MachineObject
    <3>3. GoneMachine \in MachineObject /\ ResolvedIsHeld(GoneMachine.status)
      BY NewObjects DEF GoneMachine, NewMachine, NewMachineStatus, ResolvedIsHeld
    <3>4. n \in {[machine[m] EXCEPT !.life = "deleting"], GoneMachine}
      BY DEF Delete
    <3> QED BY <1>b, <3>1, <3>2, <3>3, <3>4
  <2> HIDE DEF n
  <2>3. HostCopies' /\ Stays /\ (\A x : Narrow(x))
    BY <2>1, HostUntouched
  <2>4. Cache \notin Machines
    BY MachinesAssumption DEF Cache
  <2>5. MachineWorkInv'
    BY <2>1, <2>3, <2>4, MachineWorkUntouched
  <2> QED BY <1>i, <2>1, <2>2, <2>5
<1>17. CASE SyncMachine(m)
  <2>1. machineCache' = [machineCache EXCEPT ![m] = machine[m]]
        /\ KeepHost /\ UNCHANGED <<machine, hostCache, hw, mw>>
    BY <1>17 DEF SyncMachine, KeepHost
  <2>2. HostCopies' /\ Stays /\ (\A x : Narrow(x))
    BY <2>1, HostUntouched
  <2>3. machineCache'[m] = machine[m] /\ \A n \in Machines : n # m => machineCache'[n] = machineCache[n]
    BY <2>1 DEF IndInv, TypeOK
  <2>4. HeldWhileResolved'
    <3>1. \A n \in Machines : /\ ResolvedIsHeld(machine[n].status) /\ ResolvedIsHeld(machineCache'[n].status)
                              /\ machine[n].status \in MachineStatus
                              /\ machineCache'[n].status \in MachineStatus
      BY <1>b, <2>3 DEF IndInv, TypeOK, MachineObject, ObjectInv, HeldWhileResolved
    <3>2. \A g \in Hosts : Held(g) => HeldAfter(g)
      BY <2>2, StaysAfter
    <3> QED BY <2>1, <3>1, <3>2 DEF HeldWhileResolved, ResolvedIsHeld, MachineStatus, HeldAfter, Held
  <2>5. Cache \notin Machines
    BY MachinesAssumption DEF Cache
  <2>6. MachineWorkInv'
    BY <2>1, <2>2, <2>5, MachineWorkUntouched
  <2> QED BY <1>g, <2>1, <2>2, <2>4, <2>6
<1> QED BY <1>1, <1>2, <1>3, <1>4, <1>5, <1>6, <1>7, <1>8, <1>9, <1>10, <1>11, <1>12, <1>13,
           <1>14, <1>15, <1>16, <1>17 DEF ClaimStep, ReleaseStep

-----------------------------------------------------------------------------
(* The theorems.                                                           *)

\* Every step preserves it.
LEMMA NextInv ==
  ASSUME IndInv, [Next]_vars
  PROVE  IndInv'
<1>1. CASE Next
  <2>1. ASSUME NEW h \in Hosts,
               \/ HostStep(h) \/ HostAbort(h) \/ DeleteHost(h) \/ NodeBooted(h) \/ SyncHost(h)
        PROVE  IndInv'
    BY <2>1, HostStepInv
  <2>2. ASSUME NEW m \in Machines,
               \/ ClaimStep(m) \/ ReleaseStep(m) \/ MachineAbort(m)
               \/ DeleteMachine(m) \/ SyncMachine(m)
        PROVE  IndInv'
    BY <2>2, MachineStepInv
  <2> QED BY <1>1, <2>1, <2>2 DEF Next
<1>2. CASE UNCHANGED vars
  <2>1. KeepHost /\ UNCHANGED <<machine, machineCache, hostCache, hw, mw, node, machineLatest>>
    BY <1>2 DEF vars, KeepHost
  <2>2. TypeOK'
    BY <2>1 DEF IndInv, TypeOK, KeepHost
  <2>3. HostCopies' /\ Stays /\ (\A x : Narrow(x))
    BY <2>1, HostUntouched
  <2>4. Cache \notin Machines /\ Cache # HostWorker
    BY MachinesAssumption DEF Cache, HostWorker
  <2>5. HostWorkInv' /\ MachineWorkInv' /\ HeldWhileResolved'
    BY <2>1, <2>3, <2>4, HostWorkUntouched, MachineWorkUntouched, MachineUntouched
  <2> QED BY <2>2, <2>3, <2>5 DEF IndInv, ObjectInv, HostCopies
<1> QED BY <1>1, <1>2

\* The inductive invariant: whatever lags, crashes or is retried, what the
\* controllers' copies say about a host is consistent with the host.
THEOREM Invariance == Spec => []IndInv
<1>1. Init => IndInv
  BY InitInv
<1>2. IndInv /\ [Next]_vars => IndInv'
  BY NextInv
<1> QED BY <1>1, <1>2, PTL DEF Spec

\* Type correctness of the registry.
THEOREM TypeCorrect == Spec => []TypeOK
<1>1. IndInv => TypeOK
  BY DEF IndInv
<1> QED BY <1>1, Invariance, PTL

\* A host is never Claimed by nobody, and never Releasing while claimed,
\* although phase and claimRef are written by unlocked patches of one
\* controller and locked updates of the other.
THEOREM PhaseClaimAgreement == Spec => []PhaseMatchesClaim
<1>1. IndInv => PhaseMatchesClaim
  BY DEF IndInv, ObjectInv, EveryVersion, ReleasingIsFree, ClaimedHasOwner, PhaseMatchesClaim, Claimed
<1> QED BY <1>1, Invariance, PTL

\* A host that has left its initial phase is protected by its finalizer.
THEOREM ProtectedOnceProbed == Spec => []FinalizerFirst
<1>1. IndInv => FinalizerFirst
  BY DEF IndInv, ObjectInv, EveryVersion, FinalizerFirst
<1> QED BY <1>1, Invariance, PTL

\* What a step does to a host that a machine holds.
LEMMA ClaimSurvives ==
  ASSUME IndInv, Next, NEW g \in Hosts, Claimed(g)
  PROVE  /\ host'[g].status.claimRef \in {host[g].status.claimRef, None}
         /\ host'[g].life # "gone"
<1> DEFINE Good == /\ host'[g].status.claimRef \in {host[g].status.claimRef, None}
                   /\ host'[g].life # "gone"
<1>a. host[g].life # "gone" /\ host[g].finalizer
  BY DEF IndInv, ObjectInv, EveryVersion, GoneIsFree, FinalizedFirst, Claimed
<1>b. host'[g] = host[g] => Good
  BY <1>a
<1>c. \A h \in Hosts : \A o : WriteHost(h, o) =>
        IF g = h THEN host'[g] = o ELSE host'[g] = host[g]
  BY DEF WriteHost, IndInv, TypeOK
<1>d. \A h \in Hosts : host[h] \in HostObject
  BY DEF IndInv, TypeOK
<1> HIDE DEF Good
<1>1. ASSUME NEW h \in Hosts,
             \/ HostStep(h) \/ HostAbort(h) \/ DeleteHost(h) \/ NodeBooted(h) \/ SyncHost(h)
      PROVE  Good
  <2>1. CASE HostReconcile(h)
    <3> DEFINE n == [host[h] EXCEPT !.finalizer = TRUE]
    <3>1. host' = host \/ WriteHost(h, n)
      BY <2>1 DEF HostReconcile, EnsureHostFinalizer, KeepHost
    <3>2. n.status = host[h].status /\ n.life = host[h].life
      BY <1>d DEF HostObject
    <3> HIDE DEF n
    <3> QED BY <1>a, <1>b, <1>c, <3>1, <3>2 DEF Good
  <2>2. CASE HostPatchConditions(h) \/ HostPatchStatus(h)
    <3> DEFINE s == IF HostPatchConditions(h) THEN MergeConditions(host[h].status, hw[h].patch)
                                              ELSE MergeStatus(host[h].status, hw[h].patch)
               n == [host[h] EXCEPT !.status = s]
    <3>1. host' = host \/ WriteHost(h, n)
      BY <2>2 DEF HostPatchConditions, HostPatchStatus, KeepHost
    <3>2. s = MergeConditions(host[h].status, hw[h].patch) \/ s = MergeStatus(host[h].status, hw[h].patch)
      OBVIOUS
    <3>3. n = [host[h] EXCEPT !.status = s]
      OBVIOUS
    <3> HIDE DEF s, n
    <3>4. /\ hw[h].patch \in HostPatch /\ hw[h].patch.claimRef = Keep
          /\ ReleasingIsFree(host[h].status) /\ ClaimedHasOwner(host[h].status)
      BY DEF IndInv, TypeOK, HostWork, HostWorkInv, PatchKeepsClaim, ObjectInv, EveryVersion
    <3>5. g = h => n.life = host[h].life /\ n.status = s /\ s.claimRef = host[h].status.claimRef
      BY <1>a, <1>d, <3>2, <3>3, <3>4, MergeKeeps
    <3> QED BY <1>a, <1>b, <1>c, <3>1, <3>5 DEF Good
  <2>3. CASE HostUnfinalize(h)
    <3>1. host' = host \/ (WriteHost(h, GoneHost) /\ HostWorker \in latest[h])
      BY <2>3 DEF HostUnfinalize, KeepHost
    <3>2. HostWorker \in latest[h] => g # h
      BY <2>3 DEF HostUnfinalize, IndInv, HostWorkInv, DeleteChecked
    <3> QED BY <1>b, <1>c, <3>1, <3>2
  <2>4. CASE DeleteHost(h)
    <3> DEFINE n == [host[h] EXCEPT !.life = "deleting"]
    <3>1. n.status = host[h].status /\ n.life = "deleting"
      BY <1>d DEF HostObject
    <3>2. WriteHost(h, Delete(host[h], GoneHost)) /\ (host[h].finalizer => Delete(host[h], GoneHost) = n)
      BY <2>4 DEF DeleteHost, Delete
    <3> HIDE DEF n
    <3> QED BY <1>a, <1>b, <1>c, <3>1, <3>2 DEF Good
  <2>5. CASE HostProbe(h) \/ HostReconcileDelete(h) \/ HostAbort(h) \/ NodeBooted(h) \/ SyncHost(h)
    BY <1>b, <2>5 DEF HostProbe, HostReconcileDelete, HostAbort, NodeBooted, SyncHost, KeepHost
  <2> QED BY <1>1, <2>1, <2>2, <2>3, <2>4, <2>5 DEF HostStep
<1>2. ASSUME NEW m \in Machines,
             \/ ClaimStep(m) \/ ReleaseStep(m) \/ MachineAbort(m)
             \/ DeleteMachine(m) \/ SyncMachine(m)
      PROVE  Good
  <2> DEFINE h == mw[m].host
  <2>1. CASE ClaimCAS(m)
    <3> DEFINE n == [host[h] EXCEPT !.status.claimRef = m, !.status.phase = "Claimed"]
    <3>1. h \in Hosts
      BY <2>1 DEF ClaimCAS, IndInv, MachineWorkInv, WorksOnHost
    <3>2. host' = host \/ (WriteHost(h, n) /\ m \in latest[h])
      BY <2>1 DEF ClaimCAS, KeepHost
    <3>3. m \in latest[h] => host[h].status.claimRef \in {None, m}
      BY <2>1 DEF ClaimCAS, IndInv, MachineWorkInv, ClaimChecked, Unclaimed
    <3>4. n.life = host[h].life /\ n.status.claimRef = m
      BY <1>d, <3>1, ClaimWrites
    <3> HIDE DEF n
    <3> QED BY <1>a, <1>b, <1>c, <3>1, <3>2, <3>3, <3>4 DEF Good, Claimed
  <2>2. CASE ReleaseFree(m)
    <3> DEFINE s == FreedStatus(host[h].status, mw[m].pc)
               n == [host[h] EXCEPT !.status = s]
    <3>1. h \in Hosts
      BY <2>2 DEF ReleaseFree, IndInv, MachineWorkInv, WorksOnHost
    <3>2. host' = host \/ WriteHost(h, n)
      BY <2>2 DEF ReleaseFree, KeepHost
    <3>3. s.claimRef = None
      BY <1>d, <3>1 DEF FreedStatus, HostObject, HostStatus
    <3> HIDE DEF s
    <3>4. n.life = host[h].life /\ n.status = s
      BY <1>d, <3>1 DEF HostObject
    <3> HIDE DEF n
    <3> QED BY <1>a, <1>b, <1>c, <3>1, <3>2, <3>3, <3>4 DEF Good
  <2>3. CASE ~ClaimCAS(m) /\ ~ReleaseFree(m)
    <3>1. host' = host
      BY <1>2, <2>3 DEF ClaimStep, ReleaseStep, MachineReconcile, KeepClaim, clearResolvedHost,
         SelectHost,
         ClaimGet, RecordClaim, ApplyConfig, MarkAdopted, MachineReconcileDelete, ReleaseGet, ReleaseKeep,
         ReleaseReset, ReleaseFailed, MachineUnfinalize, MachineAbort, DeleteMachine, SyncMachine, KeepHost
    <3> QED BY <1>b, <3>1
  <2> QED BY <2>1, <2>2, <2>3
<1>3. Good
  BY <1>1, <1>2 DEF Next
<1> QED BY <1>3 DEF Good

\* claimCAS: the first writer wins, for any number of machines, hosts and
\* workers, and under every fault.
THEOREM FirstWriterWins == Spec => ClaimNeverStolen
<1> DEFINE Step == \A h \in Hosts : Claimed(h) => host[h].status.claimRef' \in {host[h].status.claimRef, None}
<1>1. IndInv /\ [Next]_vars => [Step]_vars
  <2> SUFFICES ASSUME IndInv, Next PROVE Step
    OBVIOUS
  <2> QED BY ClaimSurvives
<1> QED BY <1>1, Invariance, PTL DEF Spec, ClaimNeverStolen

\* ByotHostReconciler.reconcileDelete: a claimed host is never removed.
THEOREM ClaimedIsNeverRemoved == Spec => ClaimedHostStays
<1> DEFINE Step == \A h \in Hosts : Claimed(h) => host'[h].life # "gone"
<1>1. IndInv /\ [Next]_vars => [Step]_vars
  <2> SUFFICES ASSUME IndInv, Next PROVE Step
    OBVIOUS
  <2> QED BY ClaimSurvives
<1> QED BY <1>1, Invariance, PTL DEF Spec, ClaimedHostStays

=============================================================================

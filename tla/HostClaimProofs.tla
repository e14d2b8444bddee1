-------------------------- MODULE HostClaimProofs ---------------------------
(***************************************************************************)
(* Proofs that the registry's claim is a lock on the node (HostClaim), for *)
(* every set of hosts and machines and every threshold.  Each theorem      *)
(* names the faults it excludes; the README says what they break.          *)
(***************************************************************************)
EXTENDS HostRegistryProofs

-----------------------------------------------------------------------------
(* The invariant.                                                          *)

\* The machine named by a host's claimRef.
Owner(h) == host[h].status.claimRef

\* A reconcile at one of these steps acts for the holder of its host; at one
\* of these it belongs to a machine on its way out.
HoldingSteps ==
  {"record", "apply", "ready", "release", "wipe", "freeAvailable", "freeReleasing"}
ReleaseSteps == {"release", "wipe", "freeAvailable", "freeReleasing", "unfinalize"}
FreeSteps == {"freeAvailable", "freeReleasing"}

\* No reconcile outlives its machine's finalizer, and a machine that is being
\* deleted waits for it.
WorkIsProtected(m) ==
  /\ mw[m].pc # "idle" => machine[m].finalizer /\ machine[m].life # "gone"
  /\ machine[m].life = "deleting" => machine[m].finalizer

\* status.resolvedHost names a host the machine holds, except in the last step
\* of its deletion, when the host was given back and the machine is not gone yet.
ResolvedIsOwned(m) ==
  mw[m].pc # "unfinalize" /\ machine[m].status.resolvedHost # None
    => Owner(machine[m].status.resolvedHost) = m

\* verifyExistingClaim looks at the resolved host.
VerifiesResolved(m) == mw[m].pc = "verify" => mw[m].host = machine[m].status.resolvedHost

\* The claim stays with the machine while a reconcile acts on it.
WorkIsOwned(m) == mw[m].pc \in HoldingSteps => Owner(mw[m].host) = m

\* The update that drops the machine's finalizer cannot conflict.
ReleaseIsLast(m) ==
  mw[m].pc \in ReleaseSteps => machine[m].life = "deleting" /\ Worker \in machineLatest[m]

\* The node is wiped before the host is given back.
FreedIsClean(m) == mw[m].pc \in FreeSteps => node[mw[m].host] \notin Machines

MachineLock(m) ==
  /\ WorkIsProtected(m) /\ ResolvedIsOwned(m) /\ VerifiesResolved(m)
  /\ WorkIsOwned(m) /\ ReleaseIsLast(m) /\ FreedIsClean(m)
FreeIsClean(h) == Owner(h) = None => node[h] \notin Machines

LockInv ==
  /\ IndInv
  /\ \A m \in Machines : MachineLock(m)
  /\ \A h \in Hosts : FreeIsClean(h)

\* The caller's workers read a machine's newest version, and a deletion that
\* gave its host back goes on to drop the finalizer.
PromptDeletion == Faults \cap {"ReleaseRetry", "MachineLag"} = {}

-----------------------------------------------------------------------------
(* What a step does to the claims, the nodes and the other machines.       *)

OwnerAfter(h) == host'[h].status.claimRef

HostSide(h) ==
  \/ HostStep(h) \/ HostAbort(h) \/ DeleteHost(h) \/ NodeBooted(h) \/ SyncHost(h)
MachineSide(m) ==
  \/ ClaimStep(m) \/ ReleaseStep(m) \/ MachineAbort(m) \/ DeleteMachine(m) \/ SyncMachine(m)

\* A write of one host changes the owner of no other.
LEMMA WrittenOwner ==
  ASSUME IndInv, NEW h \in Hosts, NEW o, WriteHost(h, o)
  PROVE  \A g \in Hosts : OwnerAfter(g) = IF g = h THEN o.status.claimRef ELSE Owner(g)
BY DEF IndInv, TypeOK, WriteHost, OwnerAfter, Owner

\* Nothing the host controller, the operator or the node does moves a claim:
\* the unlocked patches do not mention it and a claimed host is not removed.
LEMMA HostSideKeepsOwners ==
  ASSUME IndInv, NEW h \in Hosts, HostSide(h)
  PROVE  /\ \A g \in Hosts : OwnerAfter(g) = Owner(g)
         /\ UNCHANGED <<machine, machineLatest, mw>>
         /\ \A g \in Hosts : node'[g] = node[g] \/ (node[g] = "booting" /\ node'[g] = "maintenance")
<1>a. UNCHANGED <<machine, machineLatest, mw>>
  BY DEF HostSide, HostStep, HostReconcile, HostProbe, HostPatchConditions, HostPatchStatus,
         HostReconcileDelete, HostUnfinalize, HostAbort, DeleteHost, NodeBooted, SyncHost, KeepMachine
<1>b. \A g \in Hosts : node'[g] = node[g] \/ (node[g] = "booting" /\ node'[g] = "maintenance")
  BY DEF HostSide, HostStep, HostReconcile, HostProbe, HostPatchConditions, HostPatchStatus,
         HostReconcileDelete, HostUnfinalize, HostAbort, DeleteHost, NodeBooted, SyncHost, IndInv, TypeOK
<1>c. host' = host => \A g \in Hosts : OwnerAfter(g) = Owner(g)
  BY DEF OwnerAfter, Owner
<1>d. host[h] \in HostObject
  BY DEF IndInv, TypeOK
<1>e. /\ hw[h].patch \in HostPatch /\ hw[h].patch.claimRef = Keep
      /\ host[h].status \in HostStatus
  BY <1>d DEF IndInv, TypeOK, HostWork, HostWorkInv, PatchKeepsClaim, HostObject
<1>f. GoneHost.status.claimRef = None
  BY DEF GoneHost, NewHost, NewHostStatus
<1>1. CASE HostReconcile(h)
  <2> DEFINE n == [host[h] EXCEPT !.finalizer = TRUE]
  <2>1. host' = host \/ WriteHost(h, n)
    BY <1>1 DEF HostReconcile, EnsureHostFinalizer, KeepHost
  <2>2. n.status = host[h].status
    BY <1>d DEF HostObject
  <2> HIDE DEF n
  <2> QED BY <1>a, <1>b, <1>c, <2>1, <2>2, WrittenOwner DEF Owner
<1>2. CASE HostPatchConditions(h)
  <2> DEFINE s == MergeConditions(host[h].status, hw[h].patch)
             n == [host[h] EXCEPT !.status = s]
  <2>1. host' = host \/ WriteHost(h, n)
    BY <1>2 DEF HostPatchConditions, KeepHost
  <2>2. s.claimRef = host[h].status.claimRef
    BY <1>e DEF MergeConditions, HostStatus
  <2> HIDE DEF s
  <2>3. n.status = s
    BY <1>d DEF HostObject
  <2> HIDE DEF n
  <2> QED BY <1>a, <1>b, <1>c, <2>1, <2>2, <2>3, WrittenOwner DEF Owner
<1>3. CASE HostPatchStatus(h)
  <2> DEFINE s == MergeStatus(host[h].status, hw[h].patch)
             n == [host[h] EXCEPT !.status = s]
  <2>1. host' = host \/ WriteHost(h, n)
    BY <1>3 DEF HostPatchStatus, KeepHost
  <2>2. s.claimRef = host[h].status.claimRef
    <3>1. s.claimRef = Merge(host[h].status.claimRef, hw[h].patch.claimRef)
      BY <1>e DEF MergeStatus, HostStatus
    <3> QED BY <1>e, <3>1 DEF Merge
  <2> HIDE DEF s
  <2>3. n.status = s
    BY <1>d DEF HostObject
  <2> HIDE DEF n
  <2> QED BY <1>a, <1>b, <1>c, <2>1, <2>2, <2>3, WrittenOwner DEF Owner
<1>4. CASE HostUnfinalize(h)
  <2>1. host' = host \/ (WriteHost(h, GoneHost) /\ HostWorker \in latest[h])
    BY <1>4 DEF HostUnfinalize, KeepHost
  <2>2. HostWorker \in latest[h] => Owner(h) = None
    BY <1>4 DEF HostUnfinalize, IndInv, HostWorkInv, DeleteChecked, Claimed, Owner
  <2> QED BY <1>a, <1>b, <1>c, <1>f, <2>1, <2>2, WrittenOwner
<1>5. CASE DeleteHost(h)
  <2> DEFINE n == [host[h] EXCEPT !.life = "deleting"]
  <2>1. n.status = host[h].status
    BY <1>d DEF HostObject
  <2>2. /\ host[h].life # "gone"
        /\ WriteHost(h, IF host[h].finalizer THEN n ELSE GoneHost)
    BY <1>5 DEF DeleteHost, Delete
  <2>3. Owner(h) # None => host[h].finalizer
    BY <2>2 DEF IndInv, ObjectInv, EveryVersion, FinalizedFirst, Owner
  <2> HIDE DEF n
  <2> QED BY <1>a, <1>b, <1>f, <2>1, <2>2, <2>3, WrittenOwner DEF Owner
<1>6. CASE HostProbe(h) \/ HostReconcileDelete(h) \/ HostAbort(h) \/ NodeBooted(h) \/ SyncHost(h)
  BY <1>a, <1>b, <1>c, <1>6 DEF HostProbe, HostReconcileDelete, HostAbort, NodeBooted, SyncHost,
     KeepHost
<1> QED BY <1>1, <1>2, <1>3, <1>4, <1>5, <1>6 DEF HostSide, HostStep

\* A machine's step takes a free host in claimCAS and gives one back in
\* releaseHost; it moves no other claim.
LEMMA MachineSideMovesOwner ==
  ASSUME IndInv, NEW m \in Machines, MachineSide(m), NEW g \in Hosts
  PROVE  \/ OwnerAfter(g) = Owner(g)
         \/ /\ ClaimCAS(m) /\ g = mw[m].host /\ m \in latest[g]
            /\ Owner(g) = None /\ OwnerAfter(g) = m
         \/ /\ ReleaseFree(m) /\ g = mw[m].host /\ m \in latest[g]
            /\ OwnerAfter(g) = None
<1> DEFINE h == mw[m].host
<1>a. host' = host => OwnerAfter(g) = Owner(g)
  BY DEF OwnerAfter, Owner
<1>1. CASE ClaimCAS(m)
  <2> DEFINE n == [host[h] EXCEPT !.status.claimRef = m, !.status.phase = "Claimed"]
  <2>1. h \in Hosts /\ host[h] \in HostObject
    BY <1>1 DEF ClaimCAS, IndInv, TypeOK, MachineWorkInv, WorksOnHost
  <2>2. host' = host \/ (WriteHost(h, n) /\ m \in latest[h])
    BY <1>1 DEF ClaimCAS, KeepHost
  <2>3. m \in latest[h] => Owner(h) \in {None, m}
    BY <1>1 DEF ClaimCAS, IndInv, MachineWorkInv, ClaimChecked, Unclaimed, Owner
  <2>4. n.status.claimRef = m
    BY <2>1, ClaimWrites
  <2> HIDE DEF n
  <2> QED BY <1>1, <1>a, <2>1, <2>2, <2>3, <2>4, WrittenOwner
<1>2. CASE ReleaseFree(m)
  <2> DEFINE s == FreedStatus(host[h].status, mw[m].pc)
             n == [host[h] EXCEPT !.status = s]
  <2>1. h \in Hosts /\ host[h] \in HostObject
    BY <1>2 DEF ReleaseFree, IndInv, TypeOK, MachineWorkInv, WorksOnHost
  <2>2. host' = host \/ (WriteHost(h, n) /\ m \in latest[h])
    BY <1>2 DEF ReleaseFree, KeepHost
  <2>3. s.claimRef = None
    BY <2>1 DEF FreedStatus, HostObject, HostStatus
  <2> HIDE DEF s
  <2>4. n.status = s
    BY <2>1 DEF HostObject
  <2> HIDE DEF n
  <2> QED BY <1>2, <1>a, <2>1, <2>2, <2>3, <2>4, WrittenOwner
<1>3. CASE ~ClaimCAS(m) /\ ~ReleaseFree(m)
  <2>1. host' = host
    BY <1>3 DEF MachineSide, ClaimStep, ReleaseStep, MachineReconcile, KeepClaim, clearResolvedHost,
         SelectHost, ClaimGet, RecordClaim, ApplyConfig, MarkAdopted, MachineReconcileDelete, ReleaseGet,
         ReleaseKeep, ReleaseReset, ReleaseFailed, MachineUnfinalize, MachineAbort, DeleteMachine,
         SyncMachine, KeepHost
  <2> QED BY <1>a, <2>1
<1> QED BY <1>1, <1>2, <1>3

\* A machine's step configures or wipes one node, the one it works on.
LEMMA MachineSideMovesNode ==
  ASSUME IndInv, NEW m \in Machines, MachineSide(m), NEW g \in Hosts
  PROVE  \/ node'[g] = node[g]
         \/ ApplyConfig(m) /\ g = mw[m].host /\ node'[g] = m
         \/ ReleaseReset(m) /\ g = mw[m].host /\ node'[g] = "booting"
BY DEF MachineSide, ClaimStep, ReleaseStep, MachineReconcile, KeepClaim, clearResolvedHost,
       SelectHost, ClaimGet, ClaimCAS, RecordClaim, ApplyConfig, MarkAdopted, MachineReconcileDelete,
       ReleaseGet, ReleaseKeep, ReleaseReset, ReleaseFailed, ReleaseFree, MachineUnfinalize,
       MachineAbort, DeleteMachine, SyncMachine, IndInv, TypeOK

\* A machine's step concerns no other machine and no other reconcile.
LEMMA OthersUntouched ==
  ASSUME IndInv, NEW m \in Machines, MachineSide(m), NEW n \in Machines, n # m
  PROVE  mw'[n] = mw[n] /\ machine'[n] = machine[n] /\ machineLatest'[n] = machineLatest[n]
<1>1. mw'[n] = mw[n]
  BY DEF MachineSide, ClaimStep, ReleaseStep, MachineReconcile, KeepClaim, clearResolvedHost,
       SelectHost, ClaimGet, ClaimCAS, RecordClaim, ApplyConfig, MarkAdopted, MachineReconcileDelete,
       ReleaseGet, ReleaseKeep, ReleaseReset, ReleaseFailed, ReleaseFree, MachineUnfinalize,
       MachineAbort, DeleteMachine, SyncMachine, IndInv, TypeOK, Adopt, Stop, Goto, GoOnToUnfinalize
<1>2. /\ KeepMachine => machine'[n] = machine[n] /\ machineLatest'[n] = machineLatest[n]
      /\ \A o : WriteMachine(m, o) => machine'[n] = machine[n] /\ machineLatest'[n] = machineLatest[n]
      /\ ReadMachine(m) => machineLatest'[n] = machineLatest[n]
  BY DEF IndInv, TypeOK, WriteMachine, KeepMachine, ReadMachine
<1>3. CASE SyncMachine(m)
  BY <1>1, <1>3 DEF SyncMachine, IndInv, TypeOK
<1>4. CASE MachineReconcileDelete(m)
  BY <1>1, <1>2, <1>4 DEF MachineReconcileDelete
<1>5. CASE ~SyncMachine(m) /\ ~MachineReconcileDelete(m)
  <2>1. KeepMachine \/ \E o : WriteMachine(m, o)
    BY <1>5 DEF MachineSide, ClaimStep, ReleaseStep, MachineReconcile, KeepClaim, clearResolvedHost,
         SelectHost, ClaimGet, ClaimCAS, RecordClaim, ApplyConfig, MarkAdopted,
         ReleaseGet, ReleaseKeep, ReleaseReset, ReleaseFailed, ReleaseFree, MachineUnfinalize,
         MachineAbort, DeleteMachine
  <2> QED BY <1>1, <1>2, <2>1
<1> QED BY <1>3, <1>4, <1>5

-----------------------------------------------------------------------------
(* The lock invariant holds.                                               *)

\* A machine whose objects and whose claims a step leaves alone keeps its part
\* of the invariant, whatever the node's boot or another machine's exchange
\* with its own node does.
LEMMA BystanderLock ==
  ASSUME LockInv, NEW n \in Machines,
         mw'[n] = mw[n] /\ machine'[n] = machine[n] /\ machineLatest'[n] = machineLatest[n],
         \A g \in Hosts : Owner(g) = n => OwnerAfter(g) = n,
         \A g \in Hosts : Owner(g) = n /\ node[g] \notin Machines => node'[g] \notin Machines
  PROVE  MachineLock(n)'
<1>1. MachineLock(n) /\ machine[n].status.resolvedHost \in Hosts \cup {None}
  BY DEF LockInv, IndInv, TypeOK, MachineObject, MachineStatus
<1>2. mw[n].pc \notin {"idle", "select", "unfinalize"} => mw[n].host \in Hosts
  BY DEF LockInv, IndInv, MachineWorkInv, WorksOnHost
<1>3. WorkIsProtected(n)' /\ VerifiesResolved(n)' /\ ReleaseIsLast(n)'
  BY <1>1 DEF MachineLock, WorkIsProtected, VerifiesResolved, ReleaseIsLast
<1>4. ResolvedIsOwned(n)'
  BY <1>1 DEF MachineLock, ResolvedIsOwned, Owner, OwnerAfter
<1>5. WorkIsOwned(n)'
  BY <1>1, <1>2 DEF MachineLock, WorkIsOwned, Owner, OwnerAfter, HoldingSteps
<1>6. FreedIsClean(n)'
  BY <1>1, <1>2 DEF MachineLock, WorkIsOwned, FreedIsClean, HoldingSteps, FreeSteps
<1> QED BY <1>3, <1>4, <1>5, <1>6 DEF MachineLock

\* What is left of the invariant for the machine that moves: facts about its
\* new work record w and its new object o.
LEMMA MovedLock ==
  ASSUME NEW m \in Machines, NEW w, NEW o, mw'[m] = w, machine'[m] = o,
         w.pc # "idle" => o.finalizer /\ o.life # "gone",
         o.life = "deleting" => o.finalizer,
         w.pc # "unfinalize" /\ o.status.resolvedHost # None
           => OwnerAfter(o.status.resolvedHost) = m,
         w.pc = "verify" => w.host = o.status.resolvedHost,
         w.pc \in HoldingSteps => OwnerAfter(w.host) = m,
         w.pc \in ReleaseSteps => o.life = "deleting" /\ Worker \in machineLatest'[m],
         w.pc \in FreeSteps => node'[w.host] \notin Machines
  PROVE  MachineLock(m)'
BY DEF MachineLock, WorkIsProtected, ResolvedIsOwned, VerifiesResolved, WorkIsOwned, ReleaseIsLast,
       FreedIsClean, Owner, OwnerAfter

\* What the helpers of the actions do to the machine that moves.
LEMMA MachineMoves ==
  ASSUME IndInv, NEW m \in Machines
  PROVE  /\ Stop(m) => mw'[m] = IdleMachine /\ mw'[m].pc = "idle"
         /\ \A pc : Goto(m, pc) => /\ mw'[m].pc = pc /\ mw'[m].host = mw[m].host
                                   /\ mw'[m].base = mw[m].base
         /\ \A o : WriteMachine(m, o) => machine'[m] = o
         /\ KeepMachine => machine'[m] = machine[m] /\ machineLatest'[m] = machineLatest[m]
         /\ GoneMachine.status.resolvedHost = None /\ GoneMachine.life = "gone"
         /\ "idle" \notin HoldingSteps \cup ReleaseSteps \cup FreeSteps \cup {"verify", "unfinalize"}
<1>1. Stop(m) => mw'[m] = IdleMachine /\ mw'[m].pc = "idle"
  BY DEF IndInv, TypeOK, Stop, IdleMachine
<1>2. \A pc : Goto(m, pc) => /\ mw'[m].pc = pc /\ mw'[m].host = mw[m].host
                             /\ mw'[m].base = mw[m].base
  BY DEF IndInv, TypeOK, Goto, MachineWork
<1>3. \A o : WriteMachine(m, o) => machine'[m] = o
  BY DEF IndInv, TypeOK, WriteMachine
<1>4. KeepMachine => machine'[m] = machine[m] /\ machineLatest'[m] = machineLatest[m]
  BY DEF KeepMachine
<1>5. GoneMachine.status.resolvedHost = None /\ GoneMachine.life = "gone"
  BY DEF GoneMachine, NewMachine, NewMachineStatus
<1>6. "idle" \notin HoldingSteps \cup ReleaseSteps \cup FreeSteps \cup {"verify", "unfinalize"}
  BY DEF HoldingSteps, ReleaseSteps, FreeSteps
<1> QED BY <1>1, <1>2, <1>3, <1>4, <1>5, <1>6

\* The fields of a ByotMachine after a write of the controller.
LEMMA MachineFields ==
  ASSUME IndInv, NEW m \in Machines
  PROVE  /\ \A r : WriteMachine(m, [machine[m] EXCEPT !.status.resolvedHost = r]) =>
              /\ machine'[m].life = machine[m].life /\ machine'[m].finalizer = machine[m].finalizer
              /\ machine'[m].status.resolvedHost = r
              /\ machine'[m].status.ready = machine[m].status.ready
         /\ WriteMachine(m, [machine[m] EXCEPT !.status.ready = TRUE]) =>
              /\ machine'[m].life = machine[m].life /\ machine'[m].finalizer = machine[m].finalizer
              /\ machine'[m].status.resolvedHost = machine[m].status.resolvedHost
              /\ machine'[m].status.ready
         /\ WriteMachine(m, [machine[m] EXCEPT !.finalizer = TRUE]) =>
              /\ machine'[m].life = machine[m].life /\ machine'[m].finalizer
              /\ machine'[m].status = machine[m].status
         /\ WriteMachine(m, [machine[m] EXCEPT !.life = "deleting"]) =>
              /\ machine'[m].life = "deleting" /\ machine'[m].finalizer = machine[m].finalizer
              /\ machine'[m].status = machine[m].status
<1>1. machine[m] \in MachineObject
  BY DEF IndInv, TypeOK
<1>2. \A o : WriteMachine(m, o) => machine'[m] = o
  BY MachineMoves
<1>3. ASSUME NEW r, WriteMachine(m, [machine[m] EXCEPT !.status.resolvedHost = r])
      PROVE  /\ machine'[m].life = machine[m].life /\ machine'[m].finalizer = machine[m].finalizer
             /\ machine'[m].status.resolvedHost = r
             /\ machine'[m].status.ready = machine[m].status.ready
  <2>1. machine'[m] = [machine[m] EXCEPT !.status.resolvedHost = r]
    BY <1>2, <1>3, Zenon
  <2> QED BY <1>1, <2>1 DEF MachineObject, MachineStatus
<1>4. ASSUME WriteMachine(m, [machine[m] EXCEPT !.status.ready = TRUE])
      PROVE  /\ machine'[m].life = machine[m].life /\ machine'[m].finalizer = machine[m].finalizer
             /\ machine'[m].status.resolvedHost = machine[m].status.resolvedHost
             /\ machine'[m].status.ready
  <2>1. machine'[m] = [machine[m] EXCEPT !.status.ready = TRUE]
    BY <1>2, <1>4, Zenon
  <2> QED BY <1>1, <2>1 DEF MachineObject, MachineStatus
<1>5. ASSUME WriteMachine(m, [machine[m] EXCEPT !.finalizer = TRUE])
      PROVE  /\ machine'[m].life = machine[m].life /\ machine'[m].finalizer
             /\ machine'[m].status = machine[m].status
  <2>1. machine'[m] = [machine[m] EXCEPT !.finalizer = TRUE]
    BY <1>2, <1>5, Zenon
  <2> QED BY <1>1, <2>1 DEF MachineObject, MachineStatus
<1>6. ASSUME WriteMachine(m, [machine[m] EXCEPT !.life = "deleting"])
      PROVE  /\ machine'[m].life = "deleting" /\ machine'[m].finalizer = machine[m].finalizer
             /\ machine'[m].status = machine[m].status
  <2>1. machine'[m] = [machine[m] EXCEPT !.life = "deleting"]
    BY <1>2, <1>6, Zenon
  <2> QED BY <1>1, <2>1 DEF MachineObject, MachineStatus
<1> QED BY <1>3, <1>4, <1>5, <1>6, Zenon

\* The machine that takes the step keeps its part of the invariant.
LEMMA MoverLock ==
  ASSUME LockInv, PromptDeletion, NEW m \in Machines, MachineSide(m)
  PROVE  MachineLock(m)'
<1> DEFINE h == mw[m].host
           r == machine[m].status.resolvedHost
<1>a. IndInv /\ MachineLock(m)
  BY DEF LockInv
<1>b. mw[m] \in MachineWork /\ machine[m] \in MachineObject /\ r \in Hosts \cup {None}
  BY DEF LockInv, IndInv, TypeOK, MachineObject, MachineStatus
<1>c. /\ mw[m].pc # "idle" => machine[m].finalizer /\ machine[m].life # "gone"
      /\ machine[m].life = "deleting" => machine[m].finalizer
      /\ mw[m].pc # "unfinalize" /\ r # None => Owner(r) = m
      /\ mw[m].pc = "verify" => h = r
      /\ mw[m].pc \in HoldingSteps => Owner(h) = m
      /\ mw[m].pc \in ReleaseSteps => machine[m].life = "deleting" /\ Worker \in machineLatest[m]
      /\ mw[m].pc \in FreeSteps => node[h] \notin Machines
  BY <1>a DEF MachineLock, WorkIsProtected, ResolvedIsOwned, VerifiesResolved, WorkIsOwned,
              ReleaseIsLast, FreedIsClean
<1>d. mw[m].pc \notin {"idle", "select", "unfinalize"} => h \in Hosts
  BY <1>a DEF IndInv, MachineWorkInv, WorksOnHost
<1>e. ~ReleaseFree(m) => \A g \in Hosts : Owner(g) = m => OwnerAfter(g) = m
  BY <1>a, MachineSideMovesOwner
<1>f. SeenMachine(m) = machine[m]
  BY DEF PromptDeletion, SeenMachine
<1>g. None \notin Hosts
  BY NoneAssumption
<1>s. ASSUME Stop(m), mw[m].pc # "unfinalize", ~ReleaseFree(m) \/ \A g \in Hosts : OwnerAfter(g) = Owner(g),
             machine'[m].status.resolvedHost \in {r, None},
             machine'[m].life = "deleting" => machine'[m].finalizer
      PROVE  MachineLock(m)'
  <2>1. r # None => OwnerAfter(r) = m
    BY <1>b, <1>c, <1>e, <1>s
  <2>2. mw'[m].pc = "idle"
    BY <1>a, <1>s, MachineMoves
  <2> QED BY <2>1, <2>2, <1>s, <1>a, MovedLock, MachineMoves
<1>1. CASE MachineReconcile(m)
  <2>1. /\ mw'[m].pc = (IF r = None THEN "select" ELSE "verify")
        /\ mw'[m].host = r
    BY <1>1, <1>a, <1>f DEF MachineReconcile, IndInv, TypeOK
  <2>2. /\ machine'[m].status = machine[m].status
        /\ machine'[m].finalizer /\ machine'[m].life # "gone"
    <3>1. /\ machine[m].life # "gone"
          /\ \/ KeepMachine /\ machine[m].finalizer
             \/ WriteMachine(m, [machine[m] EXCEPT !.finalizer = TRUE])
      BY <1>1, <1>f DEF MachineReconcile
    <3>2. CASE KeepMachine /\ machine[m].finalizer
      BY <1>a, <3>1, <3>2, MachineMoves
    <3>3. CASE WriteMachine(m, [machine[m] EXCEPT !.finalizer = TRUE])
      BY <1>a, <3>1, <3>3, MachineFields, Zenon
    <3> QED BY <3>1, <3>2, <3>3
  <2>3. r # None => OwnerAfter(r) = m
    BY <1>1, <1>b, <1>c, <1>e DEF MachineReconcile, ReleaseFree
  <2> QED BY <2>1, <2>2, <2>3, MovedLock DEF HoldingSteps, ReleaseSteps, FreeSteps
<1>2. CASE KeepClaim(m)
  <2>1. mw[m].pc = "verify" /\ machine'[m] = machine[m] /\ ~ReleaseFree(m)
    BY <1>2, <1>a, MachineMoves DEF KeepClaim, ReleaseFree
  <2>2. CASE mw[m].base.ready
    BY <1>2, <1>c, <1>s, <2>1, <2>2 DEF KeepClaim, Adopt
  <2>3. CASE ~mw[m].base.ready
    <3>1. mw'[m].pc = "apply" /\ mw'[m].host = h
      BY <1>2, <1>a, <2>3, MachineMoves DEF KeepClaim, Adopt
    <3>2. r = h /\ h \in Hosts /\ OwnerAfter(h) = m
      BY <1>c, <1>d, <1>e, <1>g, <2>1
    <3> QED BY <1>c, <2>1, <3>1, <3>2, MovedLock DEF ReleaseSteps, FreeSteps
  <2> QED BY <2>2, <2>3
<1>3. CASE clearResolvedHost(m)
  <2>1. mw[m].pc = "verify" /\ machine[m].life # "gone" /\ machine[m].finalizer
    BY <1>3, <1>c DEF clearResolvedHost
  <2>2. /\ machine'[m].life = machine[m].life /\ machine'[m].finalizer
        /\ machine'[m].status.resolvedHost = None
    <3>1. WriteMachine(m, [machine[m] EXCEPT !.status.resolvedHost = None])
      BY <1>3, <2>1 DEF clearResolvedHost
    <3> QED BY <1>a, <2>1, <3>1, MachineFields, Zenon
  <2>3. mw'[m].pc = "select"
    BY <1>3, <1>a, <2>1 DEF clearResolvedHost, IndInv, TypeOK, MachineWork
  <2> QED BY <2>1, <2>2, <2>3, MovedLock DEF HoldingSteps, ReleaseSteps, FreeSteps
<1>4. CASE SelectHost(m)
  <2>1. mw[m].pc = "select" /\ machine'[m] = machine[m] /\ ~ReleaseFree(m)
    BY <1>4, <1>a, MachineMoves DEF SelectHost, ReleaseFree
  <2>2. Stop(m) \/ mw'[m].pc = "get"
    BY <1>4, <1>a DEF SelectHost, IndInv, TypeOK, MachineWork
  <2>3. r # None => OwnerAfter(r) = m
    BY <1>b, <1>c, <1>e, <2>1
  <2>4. CASE mw'[m].pc = "get"
    BY <1>c, <2>1, <2>3, <2>4, MovedLock DEF HoldingSteps, ReleaseSteps, FreeSteps
  <2> QED BY <1>c, <1>s, <2>1, <2>2, <2>4
<1>5. CASE ClaimGet(m)
  <2>1. mw[m].pc = "get" /\ machine'[m] = machine[m] /\ ~ReleaseFree(m)
    BY <1>5, <1>a, MachineMoves DEF ClaimGet, ReleaseFree
  <2>2. Stop(m) \/ mw'[m].pc = "cas"
    BY <1>5, <1>a, MachineMoves DEF ClaimGet
  <2>3. r # None => OwnerAfter(r) = m
    BY <1>b, <1>c, <1>e, <2>1
  <2>4. CASE mw'[m].pc = "cas"
    BY <1>c, <2>1, <2>3, <2>4, MovedLock DEF HoldingSteps, ReleaseSteps, FreeSteps
  <2> QED BY <1>c, <1>s, <2>1, <2>2, <2>4
<1>6. CASE ClaimCAS(m)
  <2>1. mw[m].pc = "cas" /\ machine'[m] = machine[m] /\ ~ReleaseFree(m)
    BY <1>6, <1>a, MachineMoves DEF ClaimCAS, ReleaseFree
  <2>2. r # None => OwnerAfter(r) = m
    BY <1>b, <1>c, <1>e, <2>1
  <2>3. CASE m \in latest[h]
    <3>1. mw'[m].pc = "record" /\ mw'[m].host = h
      BY <1>6, <1>a, <2>3, MachineMoves DEF ClaimCAS
    <3>2. h \in Hosts /\ OwnerAfter(h) = m
      <4> DEFINE n == [host[h] EXCEPT !.status.claimRef = m, !.status.phase = "Claimed"]
      <4>1. h \in Hosts /\ host[h] \in HostObject
        BY <1>a, <1>d, <2>1 DEF IndInv, TypeOK
      <4>2. WriteHost(h, n)
        BY <1>6, <2>3 DEF ClaimCAS
      <4>3. n.status.claimRef = m
        BY <4>1, ClaimWrites
      <4> HIDE DEF n
      <4> QED BY <1>a, <4>1, <4>2, <4>3, WrittenOwner
    <3> QED BY <1>c, <2>1, <2>2, <3>1, <3>2, MovedLock DEF ReleaseSteps, FreeSteps
  <2>4. CASE m \notin latest[h]
    BY <1>6, <1>c, <1>s, <2>1, <2>4 DEF ClaimCAS
  <2> QED BY <2>3, <2>4
<1>7. CASE RecordClaim(m)
  <2> DEFINE n == Merge(r, Changed(mw[m].base.resolvedHost, h))
  <2>1. /\ mw[m].pc = "record" /\ machine[m].life # "gone" /\ machine[m].finalizer
        /\ ~ReleaseFree(m)
    BY <1>7, <1>c DEF RecordClaim, ReleaseFree
  <2>2. h \in Hosts /\ OwnerAfter(h) = m
    BY <1>c, <1>d, <1>e, <2>1 DEF HoldingSteps
  <2>3. n \in {r, h}
    BY DEF Merge, Changed
  <2>4. /\ machine'[m].life = machine[m].life /\ machine'[m].finalizer
        /\ machine'[m].status.resolvedHost = n
    <3>1. WriteMachine(m, [machine[m] EXCEPT !.status.resolvedHost = n])
      BY <1>7, <2>1 DEF RecordClaim
    <3> HIDE DEF n
    <3> QED BY <1>a, <2>1, <3>1, MachineFields, Zenon
  <2> HIDE DEF n
  <2>5. n # None => OwnerAfter(n) = m
    BY <1>b, <1>c, <1>e, <2>1, <2>2, <2>3
  <2>6. \/ mw'[m].pc = "idle"
        \/ mw'[m].pc = "apply" /\ mw'[m].host = h
    BY <1>7, <1>a, <2>1, MachineMoves DEF RecordClaim, Adopt
  <2> QED BY <2>1, <2>2, <2>4, <2>5, <2>6, MovedLock DEF HoldingSteps, ReleaseSteps, FreeSteps
<1>8. CASE ApplyConfig(m)
  <2>1. mw[m].pc = "apply" /\ machine'[m] = machine[m] /\ ~ReleaseFree(m)
    BY <1>8, <1>a, MachineMoves DEF ApplyConfig, ReleaseFree
  <2>2. Stop(m) \/ (mw'[m].pc = "ready" /\ mw'[m].host = h)
    BY <1>8, <1>a, MachineMoves DEF ApplyConfig
  <2>3. (r # None => OwnerAfter(r) = m) /\ OwnerAfter(h) = m
    BY <1>b, <1>c, <1>d, <1>e, <2>1 DEF HoldingSteps
  <2>4. CASE mw'[m].pc = "ready" /\ mw'[m].host = h
    BY <1>c, <2>1, <2>3, <2>4, MovedLock DEF HoldingSteps, ReleaseSteps, FreeSteps
  <2> QED BY <1>c, <1>s, <2>1, <2>2, <2>4
<1>9. CASE MarkAdopted(m)
  <2>1. mw[m].pc = "ready" /\ machine[m].life # "gone" /\ ~ReleaseFree(m) /\ Stop(m)
    BY <1>9, <1>c DEF MarkAdopted, ReleaseFree
  <2>2. WriteMachine(m, [machine[m] EXCEPT !.status.ready = TRUE])
    BY <1>9, <2>1 DEF MarkAdopted
  <2>3. /\ machine'[m].life = machine[m].life /\ machine'[m].finalizer = machine[m].finalizer
        /\ machine'[m].status.resolvedHost = r
    BY <1>a, <2>2, MachineFields, Zenon
  <2> QED BY <1>c, <1>s, <2>1, <2>3
<1>10. CASE MachineReconcileDelete(m)
  <2>1. mw[m].pc = "idle" /\ machine[m].life = "deleting" /\ machine'[m] = machine[m] /\ ~ReleaseFree(m)
    BY <1>10, <1>f DEF MachineReconcileDelete, ReleaseFree
  <2>2. /\ mw'[m].pc = (IF r = None THEN "unfinalize" ELSE "release")
        /\ mw'[m].host = r
    BY <1>10, <1>a, <1>f DEF MachineReconcileDelete, IndInv, TypeOK, IdleMachine
  <2>3. Worker \in machineLatest'[m]
    BY <1>10, <1>a DEF MachineReconcileDelete, ReadMachine, PromptDeletion, IndInv, TypeOK
  <2>4. r # None => OwnerAfter(r) = m
    BY <1>b, <1>c, <1>e, <2>1
  <2>5. machine[m].finalizer
    BY <1>c, <2>1
  <2> QED BY <2>1, <2>2, <2>3, <2>4, <2>5, MovedLock DEF HoldingSteps, ReleaseSteps, FreeSteps
<1>11. CASE ReleaseGet(m)
  <2>1. mw[m].pc = "release" /\ KeepMachine /\ ~ReleaseFree(m)
    BY <1>11 DEF ReleaseGet, ReleaseFree
  <2>2. mw'[m].pc \in {"unfinalize", "wipe"} /\ mw'[m].host = h
    BY <1>11, <1>a, MachineMoves DEF ReleaseGet
  <2>3. machine'[m] = machine[m] /\ machineLatest'[m] = machineLatest[m]
    BY <1>a, <2>1, MachineMoves
  <2>4. (r # None => OwnerAfter(r) = m) /\ OwnerAfter(h) = m
    BY <1>b, <1>c, <1>d, <1>e, <2>1 DEF HoldingSteps
  <2> QED BY <1>c, <2>1, <2>2, <2>3, <2>4, MovedLock DEF ReleaseSteps, FreeSteps
<1>12. CASE ReleaseKeep(m) \/ ReleaseReset(m)
  <2>1. mw[m].pc = "wipe" /\ KeepMachine /\ ~ReleaseFree(m)
    BY <1>12 DEF ReleaseKeep, ReleaseReset, ReleaseFree
  <2>2. mw'[m].pc \in FreeSteps /\ mw'[m].host = h
    BY <1>12, <1>a, MachineMoves DEF ReleaseKeep, ReleaseReset, FreeSteps
  <2>3. machine'[m] = machine[m] /\ machineLatest'[m] = machineLatest[m]
    BY <1>a, <2>1, MachineMoves
  <2>4. (r # None => OwnerAfter(r) = m) /\ OwnerAfter(h) = m
    BY <1>b, <1>c, <1>d, <1>e, <2>1 DEF HoldingSteps
  <2>5. node'[h] \notin Machines
    BY <1>12, <1>a, <1>d, <2>1, MachinesAssumption
       DEF ReleaseKeep, ReleaseReset, InMaintenance, IndInv, TypeOK
  <2> QED BY <1>c, <2>1, <2>2, <2>3, <2>4, <2>5, MovedLock DEF ReleaseSteps, FreeSteps
<1>13. CASE ReleaseFailed(m)
  <2>1. mw[m].pc = "wipe" /\ machine'[m] = machine[m] /\ ~ReleaseFree(m) /\ Stop(m)
    BY <1>13, <1>a, MachineMoves DEF ReleaseFailed, ReleaseFree
  <2> QED BY <1>c, <1>s, <2>1
<1>14. CASE ReleaseFree(m)
  <2>1. mw[m].pc \in FreeSteps /\ KeepMachine
    BY <1>14 DEF ReleaseFree, FreeSteps
  <2>2. machine'[m] = machine[m] /\ machineLatest'[m] = machineLatest[m]
    BY <1>a, <2>1, MachineMoves
  <2>3. CASE m \in latest[h]
    <3>1. mw'[m].pc = "unfinalize" /\ mw'[m].host = h
      BY <1>14, <1>a, <2>3, MachineMoves DEF ReleaseFree, GoOnToUnfinalize
    <3> QED BY <1>c, <2>1, <2>2, <3>1, MovedLock DEF HoldingSteps, ReleaseSteps, FreeSteps
  <2>4. CASE m \notin latest[h]
    <3>1. Stop(m) /\ \A g \in Hosts : OwnerAfter(g) = Owner(g)
      BY <1>14, <2>4 DEF ReleaseFree, KeepHost, Owner, OwnerAfter
    <3> QED BY <1>c, <1>s, <2>1, <2>2, <3>1 DEF FreeSteps
  <2> QED BY <2>3, <2>4
<1>15. CASE MachineUnfinalize(m)
  <2>1. mw[m].pc = "unfinalize" /\ Worker \in machineLatest[m] /\ Stop(m)
    BY <1>15, <1>c DEF MachineUnfinalize, ReleaseSteps
  <2>2. machine'[m] = GoneMachine
    BY <1>15, <1>a, <2>1, MachineMoves DEF MachineUnfinalize
  <2> QED BY <1>a, <2>1, <2>2, MovedLock, MachineMoves
<1>16. CASE MachineAbort(m)
  <2>1. mw[m].pc # "unfinalize" /\ machine'[m] = machine[m] /\ Stop(m)
    BY <1>16, <1>a, MachineMoves DEF MachineAbort, PromptDeletion
  <2>2. \A g \in Hosts : OwnerAfter(g) = Owner(g)
    BY <1>16 DEF MachineAbort, KeepHost, Owner, OwnerAfter
  <2> QED BY <1>c, <1>s, <2>1, <2>2
<1>17. CASE DeleteMachine(m)
  <2>1. machine[m].life = "live" /\ mw' = mw /\ UNCHANGED <<host, node>>
    BY <1>17 DEF DeleteMachine, KeepHost
  <2>2. \A g : OwnerAfter(g) = Owner(g)
    BY <2>1 DEF Owner, OwnerAfter
  <2>3. mw[m].pc \notin ReleaseSteps
    BY <1>c, <2>1
  <2>4. CASE machine[m].finalizer
    <3>1. WriteMachine(m, [machine[m] EXCEPT !.life = "deleting"])
      BY <1>17, <2>4 DEF DeleteMachine, Delete
    <3>2. /\ machine'[m].life = "deleting" /\ machine'[m].finalizer = machine[m].finalizer
          /\ machine'[m].status = machine[m].status
      BY <1>a, <3>1, MachineFields, Zenon
    <3>3. mw'[m] = mw[m] /\ mw[m].pc \notin FreeSteps /\ mw[m].pc # "unfinalize"
      BY <2>1, <2>3 DEF ReleaseSteps, FreeSteps
    <3> QED BY <1>c, <2>2, <2>3, <2>4, <3>2, <3>3, MovedLock
  <2>5. CASE ~machine[m].finalizer
    <3>1. machine'[m] = GoneMachine /\ mw'[m].pc = "idle"
      BY <1>17, <1>a, <1>c, <2>1, <2>5, MachineMoves DEF DeleteMachine, Delete
    <3> QED BY <1>a, <3>1, MovedLock, MachineMoves
  <2> QED BY <2>4, <2>5
<1>18. CASE SyncMachine(m)
  BY <1>18 DEF SyncMachine, PromptDeletion
<1> QED BY <1>1, <1>2, <1>3, <1>4, <1>5, <1>6, <1>7, <1>8, <1>9, <1>10, <1>11, <1>12, <1>13,
           <1>14, <1>15, <1>16, <1>17, <1>18 DEF MachineSide, ClaimStep, ReleaseStep

\* The invariant holds before the first reconcile.
LEMMA InitLock == Init => LockInv
<1> SUFFICES ASSUME Init PROVE LockInv
  OBVIOUS
<1>1. \A m \in Machines : mw[m] = IdleMachine /\ machine[m] = NewMachine
  BY DEF Init
<1>2. IdleMachine.pc = "idle" /\ NewMachine.life = "live" /\ NewMachine.status.resolvedHost = None
  BY DEF IdleMachine, NewMachine, NewMachineStatus
<1>3. \A m \in Machines : MachineLock(m)
  BY <1>1, <1>2 DEF MachineLock, WorkIsProtected, ResolvedIsOwned, VerifiesResolved, WorkIsOwned,
                    ReleaseIsLast, FreedIsClean, HoldingSteps, ReleaseSteps, FreeSteps
<1>4. \A h \in Hosts : FreeIsClean(h)
  BY MachinesAssumption DEF Init, FreeIsClean
<1> QED BY <1>3, <1>4, InitInv DEF LockInv

\* Steps of the host controller, the operator and the node preserve it.
LEMMA HostSideLock ==
  ASSUME LockInv, NEW h \in Hosts, HostSide(h)
  PROVE  LockInv'
<1>1. /\ \A g \in Hosts : OwnerAfter(g) = Owner(g)
      /\ UNCHANGED <<machine, machineLatest, mw>>
      /\ \A g \in Hosts : node'[g] = node[g] \/ (node[g] = "booting" /\ node'[g] = "maintenance")
  BY HostSideKeepsOwners DEF LockInv
<1>2. \A g \in Hosts : node[g] \notin Machines => node'[g] \notin Machines
  BY <1>1, MachinesAssumption
<1>3. \A n \in Machines : MachineLock(n)'
  BY <1>1, <1>2, BystanderLock
<1>4. \A g \in Hosts : FreeIsClean(g)'
  BY <1>1, <1>2 DEF LockInv, FreeIsClean, Owner, OwnerAfter
<1>5. IndInv'
  BY HostStepInv DEF LockInv, HostSide
<1> QED BY <1>3, <1>4, <1>5 DEF LockInv

\* So do the steps of a machine, for itself and for the others.
LEMMA MachineSideLock ==
  ASSUME LockInv, PromptDeletion, NEW m \in Machines, MachineSide(m)
  PROVE  LockInv'
<1>a. IndInv /\ WorkIsOwned(m) /\ FreedIsClean(m)
  BY DEF LockInv, MachineLock
<1>b. "booting" \notin Machines
  BY MachinesAssumption
<1>c. \A g \in Hosts :
        \/ OwnerAfter(g) = Owner(g)
        \/ Owner(g) = None /\ OwnerAfter(g) = m
        \/ /\ ReleaseFree(m) /\ g = mw[m].host
           /\ Owner(g) = m /\ OwnerAfter(g) = None /\ node[g] \notin Machines
  BY <1>a, MachineSideMovesOwner DEF WorkIsOwned, FreedIsClean, HoldingSteps, FreeSteps, ReleaseFree
<1>d. \A g \in Hosts :
        \/ node'[g] = node[g]
        \/ Owner(g) = m /\ ~ReleaseFree(m)
        \/ node'[g] \notin Machines
  BY <1>a, <1>b, MachineSideMovesNode DEF WorkIsOwned, HoldingSteps, ApplyConfig, ReleaseFree
<1>1. ASSUME NEW n \in Machines, n # m
      PROVE  MachineLock(n)'
  <2>1. mw'[n] = mw[n] /\ machine'[n] = machine[n] /\ machineLatest'[n] = machineLatest[n]
    BY <1>1, <1>a, OthersUntouched
  <2>2. \A g \in Hosts : Owner(g) = n => OwnerAfter(g) = n
    BY <1>1, <1>c, NoneAssumption
  <2>3. \A g \in Hosts : Owner(g) = n /\ node[g] \notin Machines => node'[g] \notin Machines
    BY <1>1, <1>d
  <2> QED BY <2>1, <2>2, <2>3, BystanderLock
<1>2. MachineLock(m)'
  BY MoverLock
<1>3. ASSUME NEW g \in Hosts, OwnerAfter(g) = None
      PROVE  node'[g] \notin Machines
  <2>1. CASE Owner(g) = None
    BY <1>d, <2>1, NoneAssumption DEF LockInv, FreeIsClean
  <2>2. CASE Owner(g) # None
    <3>1. ReleaseFree(m) /\ node[g] \notin Machines
      BY <1>3, <1>c, <2>2, NoneAssumption
    <3> QED BY <1>d, <3>1
  <2> QED BY <2>1, <2>2
<1>4. \A g \in Hosts : FreeIsClean(g)'
  BY <1>3 DEF FreeIsClean, Owner, OwnerAfter
<1>5. IndInv'
  BY <1>a, MachineStepInv, MachineStepTypes DEF MachineSide
<1> QED BY <1>1, <1>2, <1>4, <1>5 DEF LockInv

\* Every step is one of a host or one of a machine.
LEMMA NextSides ==
  ASSUME Next
  PROVE  (\E h \in Hosts : HostSide(h)) \/ (\E m \in Machines : MachineSide(m))
BY DEF Next, HostSide, MachineSide

\* Every step preserves the invariant.
LEMMA NextLock ==
  ASSUME LockInv, PromptDeletion, [Next]_vars
  PROVE  LockInv'
<1>1. CASE Next
  BY <1>1, NextSides, HostSideLock, MachineSideLock
<1>2. CASE UNCHANGED vars
  <2>1. IndInv'
    BY <1>2, NextInv DEF LockInv
  <2>2. UNCHANGED <<host, machine, node, mw, machineLatest>>
    BY <1>2 DEF vars
  <2>3. \A h \in Hosts : FreeIsClean(h)'
    BY <2>2 DEF LockInv, FreeIsClean, Owner
  <2>4. \A n \in Machines : MachineLock(n)'
    BY <2>2, BystanderLock DEF Owner, OwnerAfter
  <2> QED BY <2>1, <2>3, <2>4 DEF LockInv
<1> QED BY <1>1, <1>2

-----------------------------------------------------------------------------
(* The theorems about the lock.                                            *)

\* The lock invariant: whatever the host cache shows and wherever a reconcile
\* is aborted, a machine's status and its reconcile name hosts it holds, and a
\* host without a holder carries no configuration.
THEOREM LockInvariance ==
  ASSUME PromptDeletion
  PROVE  Spec => []LockInv
<1>1. Init => LockInv
  BY InitLock
<1>2. LockInv /\ [Next]_vars => LockInv'
  BY NextLock
<1> QED BY <1>1, <1>2, PTL DEF Spec

\* applyAndMarkAdopted and releaseHost do not look at claimRef again before
\* they configure or wipe a node: the machine still holds the host all the same.
THEOREM HolderActs ==
  ASSUME PromptDeletion
  PROVE  Spec => []ActsOnOwnHost
<1>1. LockInv => ActsOnOwnHost
  BY DEF LockInv, MachineLock, WorkIsOwned, HoldingSteps, Owner, ActsOnOwnHost
<1> QED BY <1>1, LockInvariance, PTL

\* releaseHost: a host that nobody holds carries no machine's configuration.
THEOREM ReleasedIsWiped ==
  ASSUME PromptDeletion
  PROVE  Spec => []UnclaimedIsClean
<1>1. LockInv => UnclaimedIsClean
  BY DEF LockInv, FreeIsClean, Owner, UnclaimedIsClean, Claimed
<1> QED BY <1>1, LockInvariance, PTL

-----------------------------------------------------------------------------
(* The registry implements the lock of HostClaim.                          *)

\* The mapped lock table.
Owners == [h \in Hosts |-> host[h].status.claimRef]

\* The refinement mapping, host by host.
LEMMA OwnersAre ==
  /\ \A h \in Hosts : Owners[h] = Owner(h) /\ Owners'[h] = OwnerAfter(h)
  /\ DOMAIN Owners = Hosts /\ DOMAIN Owners' = Hosts
BY DEF Owners, Owner, OwnerAfter

\* Every step is a step of the abstract lock, or changes neither an owner nor a node.
LEMMA StepImplements ==
  ASSUME LockInv, PromptDeletion, Next
  PROVE  Lock!Next \/ UNCHANGED <<Owners, node>>
<1>a. IndInv /\ node \in [Hosts -> Machines \cup {"maintenance", "booting"}]
  BY DEF LockInv, IndInv, TypeOK
<1>1. ASSUME NEW h \in Hosts, HostSide(h)
      PROVE  Lock!Next \/ UNCHANGED <<Owners, node>>
  <2>1. Owners' = Owners
    BY <1>1, <1>a, HostSideKeepsOwners, OwnersAre DEF Owners, Owner, OwnerAfter
  <2>2. CASE NodeBooted(h)
    <3>1. Lock!Boot(h)
      BY <2>1, <2>2 DEF NodeBooted, Lock!Boot, Owners
    <3> QED BY <3>1 DEF Lock!Next
  <2>3. CASE ~NodeBooted(h)
    <3>1. node' = node
      BY <1>1, <2>3 DEF HostSide, HostStep, HostReconcile, HostProbe, HostPatchConditions,
         HostPatchStatus, HostReconcileDelete, HostUnfinalize, HostAbort, DeleteHost, SyncHost
    <3> QED BY <2>1, <3>1
  <2> QED BY <2>2, <2>3
<1>2. ASSUME NEW m \in Machines, MachineSide(m)
      PROVE  Lock!Next \/ UNCHANGED <<Owners, node>>
  <2> DEFINE h == mw[m].host
  <2>a. WorkIsOwned(m) /\ FreedIsClean(m)
    BY DEF LockInv, MachineLock
  <2>b. mw[m].pc \notin {"idle", "select", "unfinalize"} => h \in Hosts
    BY <1>a DEF IndInv, MachineWorkInv, WorksOnHost
  <2>c. host' = host => Owners' = Owners
    BY DEF Owners
  <2>1. CASE ApplyConfig(m) /\ node[h] # "booting"
    <3>1. h \in Hosts /\ Owner(h) = m /\ Owners' = Owners
      BY <2>1, <2>a, <2>b, <2>c DEF ApplyConfig, KeepHost, WorkIsOwned, HoldingSteps
    <3>2. Lock!Configure(m, h)
      BY <2>1, <3>1, OwnersAre DEF ApplyConfig, Lock!Configure, Owners
    <3> QED BY <3>1, <3>2 DEF Lock!Next
  <2>2. CASE ReleaseReset(m)
    <3>1. h \in Hosts /\ Owner(h) = m /\ Owners' = Owners
      BY <2>2, <2>a, <2>b, <2>c DEF ReleaseReset, KeepHost, WorkIsOwned, HoldingSteps
    <3>2. Lock!Wipe(m, h)
      BY <2>2, <3>1, OwnersAre DEF ReleaseReset, Lock!Wipe, Owners
    <3> QED BY <3>1, <3>2 DEF Lock!Next
  <2>3. CASE ClaimCAS(m)
    <3>1. h \in Hosts /\ node' = node
      BY <2>3, <2>b DEF ClaimCAS
    <3>2. ~ReleaseFree(m)
      BY <2>3 DEF ClaimCAS, ReleaseFree
    <3>3. \A g \in Hosts : OwnerAfter(g) = Owner(g) \/ (g = h /\ Owner(g) = None /\ OwnerAfter(g) = m)
      BY <1>2, <1>a, <3>2, MachineSideMovesOwner
    <3>4. CASE OwnerAfter(h) = Owner(h)
      <4>1. Owners' = Owners
        BY <3>3, <3>4 DEF Owners, Owner, OwnerAfter
      <4> QED BY <3>1, <4>1
    <3>5. CASE OwnerAfter(h) # Owner(h)
      <4>1. Owners[h] = None /\ Owners' = [Owners EXCEPT ![h] = m]
        BY <3>1, <3>3, <3>5 DEF Owners, Owner, OwnerAfter
      <4>2. PICK g \in Hosts : g = h
        BY <3>1
      <4>3. Lock!Acquire(m, g)
        BY <3>1, <4>1, <4>2 DEF Lock!Acquire, Owners
      <4> QED BY <4>3 DEF Lock!Next
    <3> QED BY <3>4, <3>5
  <2>4. CASE ReleaseFree(m)
    <3>1. h \in Hosts /\ node' = node /\ Owner(h) = m /\ node[h] \notin Machines
      BY <2>4, <2>a, <2>b DEF ReleaseFree, WorkIsOwned, FreedIsClean, HoldingSteps, FreeSteps
    <3>2. ~ClaimCAS(m)
      BY <2>4 DEF ClaimCAS, ReleaseFree
    <3>3. \A g \in Hosts : OwnerAfter(g) = Owner(g) \/ (g = h /\ OwnerAfter(g) = None)
      BY <1>2, <1>a, <3>2, MachineSideMovesOwner
    <3>4. CASE OwnerAfter(h) = Owner(h)
      <4>1. Owners' = Owners
        BY <3>3, <3>4 DEF Owners, Owner, OwnerAfter
      <4> QED BY <3>1, <4>1
    <3>5. CASE OwnerAfter(h) # Owner(h)
      <4>1. Owners[h] = m /\ Owners' = [Owners EXCEPT ![h] = None]
        BY <3>1, <3>3, <3>5 DEF Owners, Owner, OwnerAfter
      <4>2. PICK g \in Hosts : g = h
        BY <3>1
      <4>3. Lock!GiveBack(m, g)
        BY <3>1, <4>1, <4>2 DEF Lock!GiveBack, Owners
      <4> QED BY <4>3 DEF Lock!Next
    <3> QED BY <3>4, <3>5
  <2>5. CASE /\ ~(ApplyConfig(m) /\ node[h] # "booting") /\ ~ReleaseReset(m)
             /\ ~ClaimCAS(m) /\ ~ReleaseFree(m)
    <3>1. node' = node
      BY <1>2, <2>5 DEF MachineSide, ClaimStep, ReleaseStep, MachineReconcile, KeepClaim,
         clearResolvedHost,
         SelectHost, ClaimGet, RecordClaim, ApplyConfig, MarkAdopted, MachineReconcileDelete, ReleaseGet,
         ReleaseKeep, ReleaseFailed, MachineUnfinalize, MachineAbort, DeleteMachine, SyncMachine
    <3>2. \A g \in Hosts : OwnerAfter(g) = Owner(g)
      BY <1>2, <1>a, <2>5, MachineSideMovesOwner
    <3>3. Owners' = Owners
      BY <3>2 DEF Owners, Owner, OwnerAfter
    <3> QED BY <3>1, <3>3
  <2> QED BY <2>1, <2>2, <2>3, <2>4, <2>5
<1> QED BY <1>1, <1>2, NextSides

\* The registry implements the abstract lock: every step of the two
\* controllers, the operators and the nodes acquires a free host, configures or
\* wipes the node of a host held, boots a wiped node, gives a clean host back,
\* or leaves claims and nodes alone.
THEOREM RegistryIsALock ==
  ASSUME PromptDeletion
  PROVE  Spec => ImplementsHostClaim
<1>1. Init => Lock!Init
  <2> SUFFICES ASSUME Init PROVE Lock!Init
    OBVIOUS
  <2>1. \A h \in Hosts : host[h].status.claimRef = None
    BY DEF Init, NewHost, NewHostStatus
  <2> QED BY <2>1 DEF Init, Lock!Init
<1>2. LockInv /\ [Next]_vars => [Lock!Next]_<<Owners, node>>
  <2> SUFFICES ASSUME LockInv, [Next]_vars
               PROVE  Lock!Next \/ UNCHANGED <<Owners, node>>
    BY DEF Owners
  <2>1. CASE Next
    BY <2>1, StepImplements
  <2>2. CASE UNCHANGED vars
    BY <2>2 DEF vars, Owners
  <2> QED BY <2>1, <2>2
<1> QED BY <1>1, <1>2, LockInvariance, PTL DEF Spec, ImplementsHostClaim, Lock!Spec, Owners

-----------------------------------------------------------------------------
(* Adoption.                                                               *)

\* Both controllers read the newest version of every object.  Reconciles may
\* still be aborted anywhere before the last step of a deletion.
FreshReads == Faults \subseteq {"Abort"}

SelectSteps == {"select", "get", "cas", "record"}
ActingSteps == {"apply", "ready", "release", "wipe", "freeAvailable", "freeReleasing"}

\* claimHost looks for a host only for a machine that has none.
SelectsUnresolved(m) ==
  mw[m].pc \in SelectSteps
    => machine[m].status.resolvedHost = None /\ mw[m].base.resolvedHost = None

\* A reconcile acts on the host that the machine's status records.
ActsOnResolved(m) == mw[m].pc \in ActingSteps => machine[m].status.resolvedHost = mw[m].host

\* markAdopted runs after the node took the configuration.
AppliedFirst(m) == mw[m].pc = "ready" => node[mw[m].host] = m

\* status.ready is set once a host is recorded, and the node stays configured.
ReadyIsResolved(m) == machine[m].status.ready => machine[m].status.resolvedHost # None
ReadyKeepsNode(m) ==
  machine[m].life = "live" /\ machine[m].status.ready
    => node[machine[m].status.resolvedHost] = m

MachineAdopt(m) ==
  /\ SelectsUnresolved(m) /\ ActsOnResolved(m) /\ AppliedFirst(m)
  /\ ReadyIsResolved(m) /\ ReadyKeepsNode(m)
AdoptInv == LockInv /\ \A m \in Machines : MachineAdopt(m)

\* Fresh reads are enough for the lock.
LEMMA FreshIsPrompt == FreshReads => PromptDeletion
BY DEF FreshReads, PromptDeletion

\* A machine stays adopted while others work: nobody else touches its node.
LEMMA BystanderAdopt ==
  ASSUME AdoptInv, NEW n \in Machines,
         mw'[n] = mw[n] /\ machine'[n] = machine[n],
         \A g \in Hosts : Owner(g) = n /\ node[g] = n => node'[g] = n
  PROVE  MachineAdopt(n)'
<1>1. MachineAdopt(n) /\ MachineLock(n) /\ machine[n].status.resolvedHost \in Hosts \cup {None}
  BY DEF AdoptInv, LockInv, IndInv, TypeOK, MachineObject, MachineStatus
<1>2. mw[n].pc \notin {"idle", "select", "unfinalize"} => mw[n].host \in Hosts
  BY DEF AdoptInv, LockInv, IndInv, MachineWorkInv, WorksOnHost
<1>3. SelectsUnresolved(n)' /\ ActsOnResolved(n)' /\ ReadyIsResolved(n)'
  BY <1>1 DEF MachineAdopt, SelectsUnresolved, ActsOnResolved, ReadyIsResolved
<1>4. AppliedFirst(n)'
  BY <1>1, <1>2 DEF MachineAdopt, AppliedFirst, MachineLock, WorkIsOwned, HoldingSteps
<1>5. ReadyKeepsNode(n)'
  <2>1. machine[n].life = "live" => mw[n].pc # "unfinalize"
    BY <1>1 DEF MachineLock, ReleaseIsLast, ReleaseSteps
  <2> QED BY <1>1, <2>1 DEF MachineAdopt, ReadyKeepsNode, ReadyIsResolved, MachineLock, ResolvedIsOwned
<1> QED BY <1>3, <1>4, <1>5 DEF MachineAdopt

\* The same for the machine that moves, as facts about its new work record w
\* and its new object o.
LEMMA MovedAdopt ==
  ASSUME NEW m \in Machines, NEW w, NEW o, mw'[m] = w, machine'[m] = o,
         w.pc \in SelectSteps => o.status.resolvedHost = None /\ w.base.resolvedHost = None,
         w.pc \in ActingSteps => o.status.resolvedHost = w.host,
         w.pc = "ready" => node'[w.host] = m,
         o.status.ready => o.status.resolvedHost # None,
         o.life = "live" /\ o.status.ready => node'[o.status.resolvedHost] = m
  PROVE  MachineAdopt(m)'
BY DEF MachineAdopt, SelectsUnresolved, ActsOnResolved, AppliedFirst, ReadyIsResolved, ReadyKeepsNode

\* A fresh read of the resolved host finds the claim in place, so the controller
\* never forgets a host it holds.
LEMMA NeverForgets ==
  ASSUME LockInv, FreshReads, NEW m \in Machines
  PROVE  ~clearResolvedHost(m)
<1> SUFFICES ASSUME clearResolvedHost(m) PROVE FALSE
  OBVIOUS
<1> DEFINE h == mw[m].host
<1>1. mw[m].pc = "verify" /\ ~Holds(m, SeenHost(h)) /\ IndInv /\ MachineLock(m)
  BY DEF clearResolvedHost, LockInv
<1>2. h \in Hosts /\ h # None
  BY <1>1, NoneAssumption DEF IndInv, MachineWorkInv, WorksOnHost
<1>3. Owner(h) = m
  BY <1>1, <1>2 DEF MachineLock, VerifiesResolved, ResolvedIsOwned
<1>4. host[h].life # "gone"
  BY <1>1, <1>2, <1>3, NoneAssumption DEF IndInv, ObjectInv, EveryVersion, GoneIsFree, Owner
<1>5. SeenHost(h) = host[h]
  BY DEF FreshReads, SeenHost
<1> QED BY <1>1, <1>3, <1>4, <1>5 DEF Holds, Owner

\* A machine that takes a step marks itself adopted only with its configuration on the node.
LEMMA MoverAdopt ==
  ASSUME AdoptInv, FreshReads, NEW m \in Machines, MachineSide(m)
  PROVE  MachineAdopt(m)'
<1> DEFINE h == mw[m].host
           r == machine[m].status.resolvedHost
<1>a. LockInv /\ IndInv /\ MachineLock(m) /\ MachineAdopt(m)
  BY DEF AdoptInv, LockInv
<1>b. mw[m] \in MachineWork /\ machine[m] \in MachineObject /\ r \in Hosts \cup {None}
  BY <1>a DEF IndInv, TypeOK, MachineObject, MachineStatus
<1>c. /\ mw[m].pc \in SelectSteps => r = None /\ mw[m].base.resolvedHost = None
      /\ mw[m].pc \in ActingSteps => r = h
      /\ mw[m].pc = "ready" => node[h] = m
      /\ machine[m].status.ready => r # None
      /\ machine[m].life = "live" /\ machine[m].status.ready => node[r] = m
  BY <1>a DEF MachineAdopt, SelectsUnresolved, ActsOnResolved, AppliedFirst, ReadyIsResolved,
              ReadyKeepsNode
<1>d. mw[m].pc \notin {"idle", "select", "unfinalize"} => h \in Hosts
  BY <1>a DEF IndInv, MachineWorkInv, WorksOnHost
<1>e. SeenMachine(m) = machine[m]
  BY DEF FreshReads, SeenMachine
<1>f. None \notin Hosts /\ Keep \notin Hosts
  BY NoneAssumption, KeepAssumption
<1>g. /\ mw[m].pc # "idle" => machine[m].finalizer /\ machine[m].life # "gone"
      /\ mw[m].pc \in ReleaseSteps => machine[m].life = "deleting"
      /\ mw[m].pc = "verify" => h = r /\ Owner(h) = m
  <2>1. mw[m].pc = "verify" => h = r /\ h # None
    BY <1>a, <1>d, <1>f DEF MachineLock, VerifiesResolved
  <2> QED BY <1>a, <2>1 DEF MachineLock, WorkIsProtected, ReleaseIsLast, VerifiesResolved,
             ResolvedIsOwned
<1>n. machine[m].life = "live" /\ machine[m].status.ready => node'[r] = m
  <2>1. machine[m].life = "live" => ~ReleaseReset(m)
    BY <1>g DEF ReleaseReset, ReleaseSteps
  <2> QED BY <1>a, <1>b, <1>c, <2>1, MachineSideMovesNode
<1>s. ASSUME mw'[m].pc \in {"idle", "unfinalize"}, machine'[m] = machine[m]
      PROVE  MachineAdopt(m)'
  BY <1>c, <1>n, <1>s, MovedAdopt DEF SelectSteps, ActingSteps
<1>1. CASE MachineReconcile(m)
  <2>1. /\ mw'[m].pc = (IF r = None THEN "select" ELSE "verify")
        /\ mw'[m].base = machine[m].status
    BY <1>1, <1>a, <1>e DEF MachineReconcile, IndInv, TypeOK
  <2>2. KeepMachine \/ WriteMachine(m, [machine[m] EXCEPT !.finalizer = TRUE])
    BY <1>1 DEF MachineReconcile
  <2>3. machine'[m].status = machine[m].status /\ machine'[m].life = machine[m].life
    <3>1. CASE KeepMachine
      BY <1>a, <3>1, MachineMoves
    <3>2. CASE WriteMachine(m, [machine[m] EXCEPT !.finalizer = TRUE])
      BY <1>a, <3>2, MachineFields, Zenon
    <3> QED BY <2>2, <3>1, <3>2
  <2> QED BY <1>c, <1>n, <2>1, <2>3, MovedAdopt DEF SelectSteps, ActingSteps
<1>2. CASE KeepClaim(m)
  <2>1. mw[m].pc = "verify" /\ machine'[m] = machine[m]
    BY <1>2, <1>a, MachineMoves DEF KeepClaim
  <2>2. mw'[m].pc = "idle" \/ (mw'[m].pc = "apply" /\ mw'[m].host = h)
    BY <1>2, <1>a, MachineMoves DEF KeepClaim, Adopt
  <2> QED BY <1>c, <1>g, <1>n, <2>1, <2>2, MovedAdopt DEF SelectSteps, ActingSteps
<1>3. CASE clearResolvedHost(m)
  BY <1>3, <1>a, NeverForgets
<1>4. CASE SelectHost(m)
  <2>1. mw[m].pc = "select" /\ machine'[m] = machine[m]
    BY <1>4, <1>a, MachineMoves DEF SelectHost
  <2>2. mw'[m].pc = "idle" \/ (mw'[m].pc = "get" /\ mw'[m].base = mw[m].base)
    <3>1. CASE Stop(m)
      BY <1>a, <3>1, MachineMoves
    <3>2. CASE ~Stop(m)
      BY <1>4, <1>a, <3>2 DEF SelectHost, IndInv, TypeOK, MachineWork
    <3> QED BY <3>1, <3>2
  <2> QED BY <1>c, <1>n, <2>1, <2>2, MovedAdopt DEF SelectSteps, ActingSteps
<1>5. CASE ClaimGet(m) \/ ClaimCAS(m)
  <2>1. mw[m].pc \in {"get", "cas"} /\ machine'[m] = machine[m]
    BY <1>5, <1>a, MachineMoves DEF ClaimGet, ClaimCAS
  <2>2. mw'[m].pc = "idle" \/ (mw'[m].pc \in {"cas", "record"} /\ mw'[m].base = mw[m].base)
    BY <1>5, <1>a, MachineMoves DEF ClaimGet, ClaimCAS
  <2> QED BY <1>c, <1>n, <2>1, <2>2, MovedAdopt DEF SelectSteps, ActingSteps
<1>6. CASE RecordClaim(m)
  <2> DEFINE n == Merge(r, Changed(mw[m].base.resolvedHost, h))
  <2>1. /\ mw[m].pc = "record" /\ machine[m].life # "gone" /\ h \in Hosts
        /\ r = None /\ mw[m].base.resolvedHost = None
    BY <1>6, <1>c, <1>d, <1>g DEF RecordClaim, SelectSteps
  <2>2. n = h
    BY <1>f, <2>1 DEF Merge, Changed
  <2>3. /\ machine'[m].life = machine[m].life
        /\ machine'[m].status.resolvedHost = h /\ machine'[m].status.ready = machine[m].status.ready
    <3>1. WriteMachine(m, [machine[m] EXCEPT !.status.resolvedHost = n])
      BY <1>6, <2>1 DEF RecordClaim
    <3> HIDE DEF n
    <3>2. /\ machine'[m].life = machine[m].life
          /\ machine'[m].status.resolvedHost = n /\ machine'[m].status.ready = machine[m].status.ready
      BY <1>a, <3>1, MachineFields, Zenon
    <3> QED BY <2>2, <3>2
  <2>4. mw'[m].pc = "idle" \/ (mw'[m].pc = "apply" /\ mw'[m].host = h)
    BY <1>6, <1>a, <2>1, MachineMoves DEF RecordClaim, Adopt
  <2>5. ~machine[m].status.ready
    BY <1>c, <2>1
  <2> QED BY <1>f, <2>1, <2>3, <2>4, <2>5, MovedAdopt DEF SelectSteps, ActingSteps
<1>7. CASE ApplyConfig(m)
  <2>1. mw[m].pc = "apply" /\ machine'[m] = machine[m] /\ h \in Hosts
    BY <1>7, <1>a, <1>d, MachineMoves DEF ApplyConfig
  <2>2. mw'[m].pc = "idle" \/ (mw'[m].pc = "ready" /\ mw'[m].host = h /\ node'[h] = m)
    BY <1>7, <1>a, <2>1, MachineMoves DEF ApplyConfig, IndInv, TypeOK
  <2> QED BY <1>c, <1>n, <2>1, <2>2, MovedAdopt DEF SelectSteps, ActingSteps
<1>8. CASE MarkAdopted(m)
  <2>1. mw[m].pc = "ready" /\ machine[m].life # "gone" /\ r = h /\ h \in Hosts /\ node[h] = m
    BY <1>8, <1>c, <1>d, <1>g DEF MarkAdopted, ActingSteps
  <2>2. WriteMachine(m, [machine[m] EXCEPT !.status.ready = TRUE])
    BY <1>8, <2>1 DEF MarkAdopted
  <2>3. machine'[m].status.resolvedHost = r
    BY <1>a, <2>2, MachineFields, Zenon
  <2>4. node' = node /\ mw'[m].pc = "idle"
    BY <1>8, <1>a, MachineMoves DEF MarkAdopted
  <2> QED BY <1>f, <2>1, <2>3, <2>4, MovedAdopt DEF SelectSteps, ActingSteps
<1>9. CASE MachineReconcileDelete(m)
  <2>1. machine'[m] = machine[m]
    BY <1>9 DEF MachineReconcileDelete
  <2>2. /\ mw'[m].pc = (IF r = None THEN "unfinalize" ELSE "release")
        /\ mw'[m].host = r
    BY <1>9, <1>a, <1>e DEF MachineReconcileDelete, IndInv, TypeOK, IdleMachine
  <2> QED BY <1>c, <1>n, <2>1, <2>2, MovedAdopt DEF SelectSteps, ActingSteps
<1>10. CASE ReleaseGet(m) \/ ReleaseKeep(m) \/ ReleaseReset(m)
  <2>1. mw[m].pc \in {"release", "wipe"} /\ machine'[m] = machine[m]
    BY <1>10, <1>a, MachineMoves DEF ReleaseGet, ReleaseKeep, ReleaseReset
  <2>2. mw'[m].pc \in {"unfinalize", "wipe", "freeAvailable", "freeReleasing"} /\ mw'[m].host = h
    BY <1>10, <1>a, MachineMoves DEF ReleaseGet, ReleaseKeep, ReleaseReset
  <2> QED BY <1>c, <1>n, <2>1, <2>2, MovedAdopt DEF SelectSteps, ActingSteps
<1>11. CASE ReleaseFailed(m) \/ ReleaseFree(m) \/ MachineAbort(m)
  <2>1. machine'[m] = machine[m] /\ mw'[m].pc \in {"idle", "unfinalize"}
    BY <1>11, <1>a, MachineMoves DEF ReleaseFailed, ReleaseFree, MachineAbort, GoOnToUnfinalize
  <2> QED BY <1>s, <2>1
<1>12. CASE MachineUnfinalize(m)
  <2>1. mw'[m].pc = "idle"
    BY <1>12, <1>a, MachineMoves DEF MachineUnfinalize
  <2>2. machine'[m] = machine[m] \/ machine'[m] = GoneMachine
    BY <1>12, <1>a, MachineMoves DEF MachineUnfinalize
  <2>3. CASE machine'[m] = GoneMachine
    <3>1. ~GoneMachine.status.ready
      BY DEF GoneMachine, NewMachine, NewMachineStatus
    <3> QED BY <2>1, <2>3, <3>1, MovedAdopt DEF SelectSteps, ActingSteps
  <2> QED BY <1>s, <2>1, <2>2, <2>3
<1>13. CASE DeleteMachine(m)
  <2>1. mw' = mw /\ node' = node
    BY <1>13 DEF DeleteMachine
  <2>2. CASE machine[m].finalizer
    <3>1. WriteMachine(m, [machine[m] EXCEPT !.life = "deleting"])
      BY <1>13, <2>2 DEF DeleteMachine, Delete
    <3>2. machine'[m].life = "deleting" /\ machine'[m].status = machine[m].status
      BY <1>a, <3>1, MachineFields, Zenon
    <3>3. mw'[m] = mw[m]
      BY <2>1
    <3> QED BY <1>c, <2>1, <3>2, <3>3, MovedAdopt
  <2>3. CASE ~machine[m].finalizer
    <3>1. machine'[m] = GoneMachine /\ mw'[m].pc = "idle"
      BY <1>13, <1>a, <1>g, <2>1, <2>3, MachineMoves DEF DeleteMachine, Delete
    <3>2. ~GoneMachine.status.ready
      BY DEF GoneMachine, NewMachine, NewMachineStatus
    <3> QED BY <3>1, <3>2, MovedAdopt DEF SelectSteps, ActingSteps
  <2> QED BY <2>2, <2>3
<1>14. CASE SyncMachine(m)
  BY <1>14 DEF SyncMachine, FreshReads
<1> QED BY <1>1, <1>2, <1>3, <1>4, <1>5, <1>6, <1>7, <1>8, <1>9, <1>10, <1>11, <1>12, <1>13,
           <1>14 DEF MachineSide, ClaimStep, ReleaseStep

\* Every step preserves the invariant.
LEMMA NextAdopt ==
  ASSUME AdoptInv, FreshReads, [Next]_vars
  PROVE  AdoptInv'
<1>a. LockInv /\ LockInv' /\ IndInv
  BY FreshIsPrompt, NextLock DEF AdoptInv, LockInv
<1>b. "booting" \notin Machines
  BY MachinesAssumption
<1>1. ASSUME NEW h \in Hosts, HostSide(h)
      PROVE  AdoptInv'
  <2>1. /\ UNCHANGED <<machine, mw>>
        /\ \A g \in Hosts : node'[g] = node[g] \/ (node[g] = "booting" /\ node'[g] = "maintenance")
    BY <1>1, <1>a, HostSideKeepsOwners
  <2>2. \A n \in Machines : MachineAdopt(n)'
    BY <1>b, <2>1, BystanderAdopt
  <2> QED BY <1>a, <2>2 DEF AdoptInv
<1>2. ASSUME NEW m \in Machines, MachineSide(m)
      PROVE  AdoptInv'
  <2>1. WorkIsOwned(m)
    BY <1>a DEF LockInv, MachineLock
  <2>2. \A g \in Hosts : node'[g] = node[g] \/ Owner(g) = m
    BY <1>2, <1>a, <2>1, MachineSideMovesNode DEF WorkIsOwned, HoldingSteps, ApplyConfig, ReleaseReset
  <2>3. ASSUME NEW n \in Machines, n # m
        PROVE  MachineAdopt(n)'
    BY <1>2, <1>a, <2>2, <2>3, OthersUntouched, BystanderAdopt
  <2>4. MachineAdopt(m)'
    BY <1>2, MoverAdopt
  <2> QED BY <1>a, <2>3, <2>4 DEF AdoptInv
<1>3. CASE UNCHANGED vars
  <2>1. UNCHANGED <<machine, mw, node>>
    BY <1>3 DEF vars
  <2>2. \A n \in Machines : MachineAdopt(n)'
    BY <2>1, BystanderAdopt
  <2> QED BY <1>a, <2>2 DEF AdoptInv
<1> QED BY <1>1, <1>2, <1>3, NextSides

\* No machine is adopted at first.
LEMMA InitAdopt == Init => AdoptInv
<1> SUFFICES ASSUME Init PROVE AdoptInv
  OBVIOUS
<1>1. \A m \in Machines : mw[m] = IdleMachine /\ machine[m] = NewMachine
  BY DEF Init
<1>2. IdleMachine.pc = "idle" /\ ~NewMachine.status.ready
  BY DEF IdleMachine, NewMachine, NewMachineStatus
<1>3. \A m \in Machines : MachineAdopt(m)
  BY <1>1, <1>2 DEF MachineAdopt, SelectsUnresolved, ActsOnResolved, AppliedFirst, ReadyIsResolved,
                    ReadyKeepsNode, SelectSteps, ActingSteps
<1> QED BY <1>3, InitLock DEF AdoptInv

\* configUnchanged: a machine that counts as adopted has its configuration on
\* its node, wherever the reconciles of any machine were aborted.
THEOREM AdoptedStaysConfigured ==
  ASSUME FreshReads
  PROVE  Spec => []AdoptedIsConfigured
<1>1. Init => AdoptInv
  BY InitAdopt
<1>2. AdoptInv /\ [Next]_vars => AdoptInv'
  BY NextAdopt
<1>3. AdoptInv => AdoptedIsConfigured
  <2> SUFFICES ASSUME AdoptInv, NEW m \in Machines, machine[m].life = "live", machine[m].status.ready
               PROVE  \E h \in Hosts : machine[m].status.resolvedHost = h /\ node[h] = m
    BY DEF AdoptedIsConfigured
  <2>1. machine[m].status.resolvedHost \in Hosts \cup {None}
    BY DEF AdoptInv, LockInv, IndInv, TypeOK, MachineObject, MachineStatus
  <2> QED BY <2>1 DEF AdoptInv, MachineAdopt, ReadyIsResolved, ReadyKeepsNode
<1> QED BY <1>1, <1>2, <1>3, PTL DEF Spec

-----------------------------------------------------------------------------
(* Orphaned claims.                                                        *)

\* No fault at all: every reconcile runs to its end and reads what is current.
NoFaults == Faults = {}

\* A machine knows of every host that names it, and cannot go away before that
\* host was given back.
KnowsItsHosts(m) ==
  \A h \in Hosts : Owner(h) = m =>
    /\ machine[m].finalizer /\ machine[m].life # "gone" /\ mw[m].pc # "unfinalize"
    /\ \/ machine[m].status.resolvedHost = h
       \/ mw[m].pc = "record" /\ mw[m].host = h

KnownInv == AdoptInv /\ \A m \in Machines : KnowsItsHosts(m)

\* A machine that takes a step forgets none of its hosts.
LEMMA MoverKnown ==
  ASSUME KnownInv, NoFaults, NEW m \in Machines, MachineSide(m)
  PROVE  KnowsItsHosts(m)'
<1> DEFINE h == mw[m].host
           r == machine[m].status.resolvedHost
<1> SUFFICES ASSUME NEW g \in Hosts, OwnerAfter(g) = m
             PROVE  /\ machine'[m].finalizer /\ machine'[m].life # "gone" /\ mw'[m].pc # "unfinalize"
                    /\ \/ machine'[m].status.resolvedHost = g
                       \/ mw'[m].pc = "record" /\ mw'[m].host = g
  BY DEF KnowsItsHosts, Owner, OwnerAfter
<1> DEFINE Known == /\ machine'[m].finalizer /\ machine'[m].life # "gone" /\ mw'[m].pc # "unfinalize"
                    /\ \/ machine'[m].status.resolvedHost = g
                       \/ mw'[m].pc = "record" /\ mw'[m].host = g
<1>a. LockInv /\ IndInv /\ MachineLock(m) /\ MachineAdopt(m) /\ KnowsItsHosts(m) /\ FreshReads
  BY DEF KnownInv, AdoptInv, LockInv, NoFaults, FreshReads
<1>b. /\ mw[m].pc # "idle" => machine[m].finalizer /\ machine[m].life # "gone"
      /\ mw[m].pc \in SelectSteps => r = None /\ mw[m].base.resolvedHost = None
      /\ mw[m].pc \in ActingSteps => r = h
      /\ mw[m].pc \in HoldingSteps => Owner(h) = m
  BY <1>a DEF MachineLock, WorkIsProtected, WorkIsOwned, MachineAdopt, SelectsUnresolved, ActsOnResolved
<1>c. mw[m].pc \notin {"idle", "select", "unfinalize"} => h \in Hosts
  BY <1>a DEF IndInv, MachineWorkInv, WorksOnHost
<1>d. SeenMachine(m) = machine[m] /\ SeenHost(h) = host[h]
  BY DEF NoFaults, SeenMachine, SeenHost
<1>e. None \notin Hosts /\ Keep \notin Hosts /\ None \notin Machines
  BY NoneAssumption, KeepAssumption
<1>f. ~ClaimCAS(m) => Owner(g) = m
  BY <1>a, <1>e, MachineSideMovesOwner
<1>g. Owner(g) = m =>
        /\ machine[m].finalizer /\ machine[m].life # "gone" /\ mw[m].pc # "unfinalize"
        /\ r = g \/ (mw[m].pc = "record" /\ h = g)
  BY <1>a DEF KnowsItsHosts
<1>k. ASSUME machine'[m].finalizer = machine[m].finalizer, machine'[m].life # "gone",
             machine'[m].status.resolvedHost = r,
             mw'[m].pc # "unfinalize", mw[m].pc # "record", ~ClaimCAS(m)
      PROVE  Known
  BY <1>f, <1>g, <1>k
<1> SUFFICES Known
  OBVIOUS
<1> HIDE DEF Known
<1>1. CASE MachineReconcile(m)
  <2>1. mw[m].pc = "idle" /\ mw'[m].pc \in {"select", "verify"} /\ ~ClaimCAS(m)
    BY <1>1, <1>a DEF MachineReconcile, IndInv, TypeOK, ClaimCAS
  <2>2. KeepMachine
    BY <1>1, <1>f, <1>g, <2>1 DEF MachineReconcile
  <2>3. machine'[m] = machine[m]
    BY <1>a, <2>2, MachineMoves
  <2> QED BY <1>f, <1>g, <1>k, <2>1, <2>3
<1>2. CASE KeepClaim(m) \/ SelectHost(m) \/ ClaimGet(m)
  <2>1. mw[m].pc \in {"verify", "select", "get"} /\ machine'[m] = machine[m] /\ ~ClaimCAS(m)
    BY <1>2, <1>a, MachineMoves DEF KeepClaim, SelectHost, ClaimGet, ClaimCAS
  <2>2. mw'[m].pc # "unfinalize"
    <3>1. CASE KeepClaim(m) \/ ClaimGet(m)
      BY <1>a, <3>1, MachineMoves DEF KeepClaim, Adopt, ClaimGet
    <3>2. CASE SelectHost(m)
      BY <1>a, <3>2, MachineMoves DEF SelectHost, IndInv, TypeOK, MachineWork
    <3> QED BY <1>2, <3>1, <3>2
  <2> QED BY <1>b, <1>k, <2>1, <2>2
<1>3. CASE ClaimCAS(m)
  <2>1. mw[m].pc = "cas" /\ machine'[m] = machine[m] /\ r = None /\ ~ReleaseFree(m)
    BY <1>3, <1>a, <1>b, MachineMoves DEF ClaimCAS, SelectSteps, ReleaseFree
  <2>2. Owner(g) # m
    BY <1>e, <1>g, <2>1
  <2>3. g = h /\ m \in latest[h]
    BY <1>a, <2>1, <2>2, MachineSideMovesOwner
  <2>4. mw'[m].pc = "record" /\ mw'[m].host = h
    BY <1>3, <1>a, <2>3, MachineMoves DEF ClaimCAS
  <2> QED BY <1>b, <2>1, <2>3, <2>4 DEF Known
<1>4. CASE RecordClaim(m)
  <2> DEFINE n == Merge(r, Changed(mw[m].base.resolvedHost, h))
  <2>1. /\ mw[m].pc = "record" /\ machine[m].life # "gone" /\ machine[m].finalizer /\ h \in Hosts
        /\ r = None /\ mw[m].base.resolvedHost = None /\ ~ClaimCAS(m)
    BY <1>4, <1>b, <1>c DEF RecordClaim, SelectSteps, ClaimCAS
  <2>2. n = h /\ g = h
    BY <1>e, <1>f, <1>g, <2>1 DEF Merge, Changed
  <2>3. WriteMachine(m, [machine[m] EXCEPT !.status.resolvedHost = n])
    BY <1>4, <2>1 DEF RecordClaim
  <2>4. mw'[m].pc \in {"idle", "apply"}
    BY <1>4, <1>a, <2>1, MachineMoves DEF RecordClaim, Adopt
  <2> HIDE DEF n
  <2>5. /\ machine'[m].life = machine[m].life /\ machine'[m].finalizer = machine[m].finalizer
        /\ machine'[m].status.resolvedHost = n
    BY <1>a, <2>3, MachineFields, Zenon
  <2> QED BY <2>1, <2>2, <2>4, <2>5 DEF Known
<1>5. CASE ApplyConfig(m) \/ ReleaseKeep(m) \/ ReleaseReset(m) \/ ReleaseFailed(m)
  <2>1. mw[m].pc \in {"apply", "wipe"} /\ machine'[m] = machine[m] /\ ~ClaimCAS(m)
    BY <1>5, <1>a, MachineMoves DEF ApplyConfig, ReleaseKeep, ReleaseReset, ReleaseFailed, ClaimCAS
  <2>2. mw'[m].pc # "unfinalize"
    BY <1>5, <1>a, MachineMoves DEF ApplyConfig, ReleaseKeep, ReleaseReset, ReleaseFailed
  <2> QED BY <1>b, <1>k, <2>1, <2>2
<1>6. CASE MarkAdopted(m)
  <2>1. mw[m].pc = "ready" /\ machine[m].life # "gone" /\ ~ClaimCAS(m)
    BY <1>6, <1>b DEF MarkAdopted, ClaimCAS
  <2>2. WriteMachine(m, [machine[m] EXCEPT !.status.ready = TRUE])
    BY <1>6, <2>1 DEF MarkAdopted
  <2>3. /\ machine'[m].life = machine[m].life /\ machine'[m].finalizer = machine[m].finalizer
        /\ machine'[m].status.resolvedHost = r
    BY <1>a, <2>2, MachineFields, Zenon
  <2>4. mw'[m].pc = "idle"
    BY <1>6, <1>a, MachineMoves DEF MarkAdopted
  <2> QED BY <1>k, <2>1, <2>3, <2>4
<1>7. CASE MachineReconcileDelete(m)
  <2>1. mw[m].pc = "idle" /\ machine'[m] = machine[m] /\ ~ClaimCAS(m)
    BY <1>7 DEF MachineReconcileDelete, ClaimCAS
  <2>2. mw'[m].pc = (IF r = None THEN "unfinalize" ELSE "release")
    BY <1>7, <1>a, <1>d DEF MachineReconcileDelete, IndInv, TypeOK, IdleMachine
  <2>3. r # None
    BY <1>e, <1>f, <1>g, <2>1
  <2> QED BY <1>f, <1>g, <1>k, <2>1, <2>2, <2>3
<1>8. CASE ReleaseGet(m)
  <2>1. mw[m].pc = "release" /\ machine'[m] = machine[m] /\ h \in Hosts /\ Owner(h) = m /\ ~ClaimCAS(m)
    BY <1>8, <1>a, <1>b, <1>c, MachineMoves DEF ReleaseGet, HoldingSteps, ClaimCAS
  <2>2. host[h].life # "gone"
    BY <1>a, <1>e, <2>1 DEF IndInv, ObjectInv, EveryVersion, GoneIsFree, Owner
  <2>3. mw'[m].pc = "wipe"
    BY <1>8, <1>a, <1>d, <2>2, MachineMoves DEF ReleaseGet
  <2> QED BY <1>b, <1>k, <2>1, <2>3
<1>9. CASE ReleaseFree(m)
  <2>1. mw[m].pc \in FreeSteps /\ machine'[m] = machine[m] /\ h \in Hosts /\ ~ClaimCAS(m)
    BY <1>9, <1>a, <1>c, MachineMoves DEF ReleaseFree, FreeSteps, ClaimCAS
  <2>2. g = h
    BY <1>b, <1>f, <1>g, <2>1 DEF FreeSteps, ActingSteps
  <2>3. CASE m \in latest[h]
    <3> DEFINE s == FreedStatus(host[h].status, mw[m].pc)
               n == [host[h] EXCEPT !.status = s]
    <3>1. host[h] \in HostObject
      BY <1>a, <2>1 DEF IndInv, TypeOK
    <3>2. WriteHost(h, n)
      BY <1>9, <2>3 DEF ReleaseFree
    <3>3. s.claimRef = None
      BY <3>1 DEF FreedStatus, HostObject, HostStatus
    <3> HIDE DEF s
    <3>4. n.status = s
      BY <3>1 DEF HostObject
    <3> HIDE DEF n
    <3>5. OwnerAfter(h) = None
      BY <1>a, <2>1, <3>2, <3>3, <3>4, WrittenOwner
    <3> QED BY <1>e, <2>2, <3>5
  <2>4. CASE m \notin latest[h]
    <3>1. mw'[m].pc = "idle"
      BY <1>9, <1>a, <2>4, MachineMoves DEF ReleaseFree
    <3> QED BY <1>b, <1>k, <2>1, <3>1 DEF FreeSteps
  <2> QED BY <2>3, <2>4
<1>10. CASE MachineUnfinalize(m)
  BY <1>10, <1>f, <1>g DEF MachineUnfinalize, ClaimCAS
<1>11. CASE DeleteMachine(m)
  <2>1. mw' = mw /\ host' = host
    BY <1>11 DEF DeleteMachine, KeepHost
  <2>2. Owner(g) = m
    BY <2>1 DEF Owner, OwnerAfter
  <2>3. WriteMachine(m, [machine[m] EXCEPT !.life = "deleting"])
    BY <1>11, <1>g, <2>2 DEF DeleteMachine, Delete
  <2>4. /\ machine'[m].life = "deleting" /\ machine'[m].finalizer = machine[m].finalizer
        /\ machine'[m].status = machine[m].status
    BY <1>a, <2>3, MachineFields, Zenon
  <2> QED BY <1>g, <2>1, <2>2, <2>4 DEF Known
<1>12. CASE clearResolvedHost(m) \/ MachineAbort(m) \/ SyncMachine(m)
  BY <1>12, <1>a, NeverForgets DEF MachineAbort, SyncMachine, NoFaults
<1> QED BY <1>1, <1>2, <1>3, <1>4, <1>5, <1>6, <1>7, <1>8, <1>9, <1>10, <1>11, <1>12
        DEF MachineSide, ClaimStep, ReleaseStep

\* Every step preserves the invariant.
LEMMA NextKnown ==
  ASSUME KnownInv, NoFaults, [Next]_vars
  PROVE  KnownInv'
<1>a. AdoptInv' /\ LockInv /\ IndInv
  <2>1. AdoptInv /\ FreshReads
    BY DEF KnownInv, NoFaults, FreshReads
  <2> QED BY <2>1, NextAdopt DEF AdoptInv, LockInv
<1>b. ASSUME NEW n \in Machines, mw'[n] = mw[n] /\ machine'[n] = machine[n],
             \A g \in Hosts : OwnerAfter(g) = n => Owner(g) = n
      PROVE  KnowsItsHosts(n)'
  BY <1>b DEF KnownInv, KnowsItsHosts, Owner, OwnerAfter
<1>1. ASSUME NEW h \in Hosts, HostSide(h)
      PROVE  KnownInv'
  <2>1. UNCHANGED <<machine, mw>> /\ \A g \in Hosts : OwnerAfter(g) = Owner(g)
    BY <1>1, <1>a, HostSideKeepsOwners
  <2> QED BY <1>a, <1>b, <2>1 DEF KnownInv
<1>2. ASSUME NEW m \in Machines, MachineSide(m)
      PROVE  KnownInv'
  <2>1. ASSUME NEW n \in Machines, n # m
        PROVE  KnowsItsHosts(n)'
    <3>1. mw'[n] = mw[n] /\ machine'[n] = machine[n]
      BY <1>2, <1>a, <2>1, OthersUntouched
    <3>2. \A g \in Hosts : OwnerAfter(g) = n => Owner(g) = n
      BY <1>2, <1>a, <2>1, MachineSideMovesOwner, NoneAssumption
    <3> QED BY <1>b, <3>1, <3>2
  <2>2. KnowsItsHosts(m)'
    BY <1>2, MoverKnown
  <2> QED BY <1>a, <2>1, <2>2 DEF KnownInv
<1>3. CASE UNCHANGED vars
  <2>1. UNCHANGED <<machine, mw, host>>
    BY <1>3 DEF vars
  <2> QED BY <1>a, <1>b, <2>1 DEF KnownInv, Owner, OwnerAfter
<1> QED BY <1>1, <1>2, <1>3, NextSides

\* The invariant behind NoOrphanedClaim and HoldsAtMostOne.
LEMMA KnownInvariance ==
  ASSUME NoFaults
  PROVE  Spec => []KnownInv
<1>1. Init => KnownInv
  <2> SUFFICES ASSUME Init PROVE KnownInv
    OBVIOUS
  <2>1. \A h \in Hosts : Owner(h) = None
    BY DEF Init, NewHost, NewHostStatus, Owner
  <2> QED BY <2>1, InitAdopt, NoneAssumption DEF KnownInv, KnowsItsHosts
<1>2. KnownInv /\ [Next]_vars => KnownInv'
  BY NextKnown
<1> QED BY <1>1, <1>2, PTL DEF Spec

\* claimHost and releaseHost: without faults no host is left to a machine that
\* does not know of it or no longer exists.
THEOREM ClaimsAreKnown ==
  ASSUME NoFaults
  PROVE  Spec => []NoOrphanedClaim
<1>1. KnownInv => NoOrphanedClaim
  BY DEF KnownInv, KnowsItsHosts, NoOrphanedClaim, Owner
<1> QED BY <1>1, KnownInvariance, PTL

\* claimHost: without faults a machine holds at most one host.
THEOREM OneHostPerMachine ==
  ASSUME NoFaults
  PROVE  Spec => []HoldsAtMostOne
<1>1. KnownInv => HoldsAtMostOne
  <2> SUFFICES ASSUME KnownInv, NEW g \in Hosts, NEW h \in Hosts,
                      Claimed(g), Owner(g) = Owner(h)
               PROVE  g = h
    BY DEF HoldsAtMostOne, Owner
  <2>1. PICK m \in Machines : Owner(g) = m
    BY DEF KnownInv, AdoptInv, LockInv, IndInv, TypeOK, HostObject, HostStatus, Claimed, Owner
  <2>2. /\ machine[m].status.resolvedHost = g \/ (mw[m].pc = "record" /\ mw[m].host = g)
        /\ machine[m].status.resolvedHost = h \/ (mw[m].pc = "record" /\ mw[m].host = h)
    BY <2>1 DEF KnownInv, KnowsItsHosts
  <2>3. mw[m].pc = "record" => machine[m].status.resolvedHost = None
    BY DEF KnownInv, AdoptInv, MachineAdopt, SelectsUnresolved, SelectSteps
  <2> QED BY <2>2, <2>3, NoneAssumption
<1> QED BY <1>1, KnownInvariance, PTL

=============================================================================

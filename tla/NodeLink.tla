------------------------------ MODULE NodeLink ------------------------------
(***************************************************************************)
(* How the workload Nodes of a cluster's adopted machines are initialised, *)
(* labelled and linked: linkNode, updateNodeProviderID, syncNodeLabels and *)
(* ensureNodeLinked of pkg/controller/byotmachine_controller.go, with the  *)
(* watch filters and the work queue that decide when they run again.       *)
(*                                                                         *)
(* One action is one write, or one read that a later write depends on.     *)
(* The controller is woken by the machine's own events and its host's, as  *)
(* far as the filters let them through, and by the requeue timer; an error *)
(* queues the machine as the timer does, only sooner.                      *)
(***************************************************************************)
EXTENDS Integers, Sequences, SequencesExt

CONSTANTS
  Machines,       \* adopted ByotMachines (ready, with a providerID and a host)
  ControlPlane,   \* those whose node serves the workload API
  Keys,           \* label keys
  Prefix,         \* Prefix[k]: the DNS labels of k's prefix
  Values,         \* label values
  Invalid,        \* those that are not valid on a Node
  NoValue,        \* no label with that key
  Defaults,       \* Defaults[k]: the label a kubelet registers its Node with
  HostLabels,     \* HostLabels[m]: the labels the host of m was claimed with
  MaxEvents,      \* bound: relabelled hosts, lost connections, restarts, lost Nodes,
                  \* labels that the ClusterCache is late to see
  Faults          \* which of them the run allows

FaultKinds == {"Relabel", "Disconnect", "Restart", "NewNodeLost", "NodeLost", "CacheLags"}
Labels == [Keys -> Values \cup {NoValue}]

ASSUME MachinesAssumption == ControlPlane \subseteq Machines /\ ControlPlane # {}
ASSUME LabelsAssumption ==
  /\ NoValue \notin Values /\ Invalid \subseteq Values /\ Defaults \in Labels
  /\ HostLabels \in [Machines -> Labels]
ASSUME EventsAssumption == Faults \subseteq FaultKinds /\ MaxEvents \in Nat

VARIABLES
  obj,         \* obj[m]: status.nodeUpdated, and whether the retrigger annotation is set
  hostLabels,  \* hostLabels[m]: the labels of the ByotHost m holds
  node,        \* node[m]: the workload Node named after m, and the ClusterCache's copy
               \* of its labels
  nodeRef,     \* nodeRef[m]: status.nodeRef of the owner Machine is set
  poked,       \* poked[m]: the Machine controller has yet to look at m's last change
  kubeconfig,  \* the <cluster>-kubeconfig secret exists
  connected,   \* the ClusterCache is connected to the workload cluster
  queue,       \* queue[m]: m is queued; a requeue of m is pending
  w,           \* w[m]: the reconcile of m
  events       \* how many of the events above there were (bounded)

vars == <<obj, hostLabels, node, nodeRef, poked, kubeconfig, connected, queue, w, events>>
cluster == <<nodeRef, kubeconfig, connected>>

NoLabels == [k \in Keys |-> NoValue]
Registered == [registered |-> TRUE, providerID |-> FALSE, tainted |-> TRUE, labels |-> Defaults,
               cached |-> Defaults]
Missing == [Registered EXCEPT !.registered = FALSE]

Steps == {"idle", "provider", "updated", "labels", "patchLabels", "link"}
Work == [pc: Steps, labels: Labels, annotated: BOOLEAN]
Idle == [pc |-> "idle", labels |-> NoLabels, annotated |-> FALSE]

\* The machines were just marked adopted; their nodes are booting.
Init ==
  /\ obj = [m \in Machines |-> [nodeUpdated |-> FALSE, annotated |-> FALSE]]
  /\ hostLabels = HostLabels
  /\ node = [m \in Machines |-> Missing]
  /\ nodeRef = [m \in Machines |-> FALSE]
  /\ poked = [m \in Machines |-> TRUE]
  /\ kubeconfig = FALSE
  /\ connected = FALSE
  /\ queue = [m \in Machines |-> [queued |-> TRUE, timer |-> FALSE]]
  /\ w = [m \in Machines |-> Idle]
  /\ events = 0

-----------------------------------------------------------------------------
(* Which labels are propagated.                                            *)

ReservedDomains == {<<"kubernetes", "io">>, <<"k8s", "io">>, <<"cluster", "x-k8s", "io">>}

\* Mutant: subdomains are not reserved.
IsReservedDomain(k) == Prefix[k] \in ReservedDomains

\* isReservedLabel: a reserved domain, or a subdomain of one.
isReservedLabel(k) == \E d \in ReservedDomains : IsSuffix(d, Prefix[k])

isValidLabel(k, v) == v \notin Invalid

\* filterHostLabels: the keys of the labels that a Node is given.
filterHostLabels(labels) ==
  {k \in Keys : labels[k] # NoValue /\ ~isReservedLabel(k) /\ isValidLabel(k, labels[k])}

\* patchWorkloadNodeLabels: those that differ on the copy of the Node that was read
\* are set, and no label is removed.
Labelled(old, copy, labels) ==
  [k \in Keys |-> IF k \in filterHostLabels(labels) /\ copy[k] # labels[k]
                    THEN labels[k] ELSE old[k]]

-----------------------------------------------------------------------------
(* The work queue and the watches.                                         *)

Stop(m) == w' = [w EXCEPT ![m] = Idle]
Goto(m, pc) == w' = [w EXCEPT ![m].pc = pc]
Enqueue(m) == queue' = [queue EXCEPT ![m].queued = TRUE]
RequeueAfter(m) == queue' = [queue EXCEPT ![m].timer = TRUE] /\ Stop(m)
Event(kind) == kind \in Faults /\ events < MaxEvents /\ events' = events + 1

\* Mutant: the filter lets no update of a claimed host through.
DropHostUpdate(old, new) == FALSE

\* byoHostLabelChangeFilter, for a claimed host.
byoHostLabelChangeFilter(old, new) == old # new

\* Someone sets or removes a label of a claimed host; byoHostToByotMachine maps
\* the event to the machine.
RelabelHost(m) ==
  \E k \in Keys, v \in Values \cup {NoValue} :
    /\ hostLabels[m][k] # v
    /\ Event("Relabel")
    /\ hostLabels' = [hostLabels EXCEPT ![m][k] = v]
    /\ IF byoHostLabelChangeFilter(hostLabels[m], hostLabels'[m])
         THEN Enqueue(m) ELSE UNCHANGED queue
    /\ UNCHANGED <<obj, node, poked, cluster, w>>

\* nodeLinkRetriggerSelfFilter: an update is let through when the generation or
\* another annotation changed.  The controller's own patches here, of the
\* annotation and of the status, change neither; the Machine controller watches
\* the object without a filter.
Updates(m, o) == obj' = [obj EXCEPT ![m] = o] /\ poked' = [poked EXCEPT ![m] = TRUE]

TimerFires(m) ==
  /\ queue[m].timer
  /\ queue' = [queue EXCEPT ![m] = [queued |-> TRUE, timer |-> FALSE]]
  /\ UNCHANGED <<obj, hostLabels, node, poked, cluster, w, events>>

\* The controller is restarted: requeues are forgotten, and the initial list
\* creates an event for every machine.
Restart ==
  /\ Event("Restart")
  /\ queue' = [m \in Machines |-> [queued |-> TRUE, timer |-> FALSE]]
  /\ w' = [m \in Machines |-> Idle]
  /\ UNCHANGED <<obj, hostLabels, node, poked, cluster>>

-----------------------------------------------------------------------------
(* The workload cluster and the Machine controller.                        *)

\* A kubelet started with an external cloud provider registers its Node tainted
\* and without a provider ID.
RegisterNode(m) ==
  /\ ~node[m].registered
  /\ node' = [node EXCEPT ![m] = Registered]
  /\ UNCHANGED <<obj, hostLabels, poked, cluster, queue, w, events>>

\* The Node object is deleted, before or after it was initialised, and its kubelet
\* registers it again.
LoseNode(m) ==
  /\ node[m].registered
  /\ Event(IF node[m].providerID THEN "NodeLost" ELSE "NewNodeLost")
  /\ node' = [node EXCEPT ![m] = Missing]
  /\ UNCHANGED <<obj, hostLabels, poked, cluster, queue, w>>

\* The ClusterCache sees the last labels of the Node.
SeeLabels(m) ==
  /\ node[m].cached # node[m].labels
  /\ node' = [node EXCEPT ![m].cached = node[m].labels]
  /\ UNCHANGED <<obj, hostLabels, poked, cluster, queue, w, events>>

CreateKubeconfig ==
  /\ ~kubeconfig /\ kubeconfig' = TRUE
  /\ UNCHANGED <<obj, hostLabels, node, nodeRef, poked, connected, queue, w, events>>

\* The name of the API server resolves once an initialised control-plane Node can
\* run what publishes it.  Until then the cache is not connected.
Connect ==
  /\ ~connected /\ kubeconfig
  /\ \E c \in ControlPlane : node[c].registered /\ ~node[c].tainted
  /\ connected' = TRUE
  /\ UNCHANGED <<obj, hostLabels, node, nodeRef, poked, kubeconfig, queue, w, events>>

Disconnect ==
  /\ connected /\ Event("Disconnect")
  /\ connected' = FALSE
  /\ UNCHANGED <<obj, hostLabels, node, nodeRef, poked, kubeconfig, queue, w>>

\* The Machine controller looks at the machine once after each change of it: it
\* lists the Nodes, if it is connected, and links the one with the provider ID.
MachineReconcile(m) ==
  /\ poked[m]
  /\ poked' = [poked EXCEPT ![m] = FALSE]
  /\ nodeRef' = [nodeRef EXCEPT
                   ![m] = @ \/ (connected /\ node[m].registered /\ node[m].providerID)]
  /\ UNCHANGED <<obj, hostLabels, node, kubeconfig, connected, queue, w, events>>

-----------------------------------------------------------------------------
(* The reconcile of an adopted machine.                                    *)

Start(m) ==
  /\ w[m].pc = "idle" /\ queue[m].queued
  /\ queue' = [queue EXCEPT ![m].queued = FALSE]
  /\ w' = [w EXCEPT ![m] =
             [Idle EXCEPT !.pc = IF obj[m].nodeUpdated THEN "labels" ELSE "provider",
                          !.annotated = obj[m].annotated]]
  /\ UNCHANGED <<obj, hostLabels, node, poked, cluster, events>>

\* resolveWorkloadClient: the cached client, or else one that takes the machine's
\* own address for the API server's, which only a control-plane machine answers.
WorkloadClient(m) == connected \/ (kubeconfig /\ m \in ControlPlane)

\* getWorkloadNode, and everything that ends in another try before it.
NodeFound(m) == WorkloadClient(m) /\ node[m].registered

\* Mutant: nodeUpdated is set before the Node is patched.
MarkFirst(m) ==
  /\ w[m].pc = "provider"
  /\ Updates(m, [obj[m] EXCEPT !.nodeUpdated = TRUE])
  /\ IF NodeFound(m)
       THEN /\ node' = [node EXCEPT ![m].providerID = TRUE, ![m].tainted = FALSE]
            /\ Goto(m, "labels") /\ UNCHANGED queue
       ELSE RequeueAfter(m) /\ UNCHANGED node
  /\ UNCHANGED <<hostLabels, cluster, events>>

\* patchWorkloadNode: the provider ID and the taint in one patch.
PatchNode(m) ==
  /\ w[m].pc = "provider"
  /\ IF NodeFound(m)
       THEN /\ node' = [node EXCEPT ![m].providerID = TRUE, ![m].tainted = FALSE]
            /\ Goto(m, "updated") /\ UNCHANGED queue
       ELSE RequeueAfter(m) /\ UNCHANGED node
  /\ UNCHANGED <<obj, hostLabels, poked, cluster, events>>

\* updateNodeProviderID: never again for this machine.
MarkNodeUpdated(m) ==
  /\ w[m].pc = "updated"
  /\ Updates(m, [obj[m] EXCEPT !.nodeUpdated = TRUE])
  /\ Goto(m, "labels")
  /\ UNCHANGED <<hostLabels, node, cluster, queue, events>>

\* syncNodeLabels: the labels of the host, as they are now ...
ReadHostLabels(m) ==
  /\ w[m].pc = "labels"
  /\ w' = [w EXCEPT ![m].pc = "patchLabels", ![m].labels = hostLabels[m]]
  /\ UNCHANGED <<obj, hostLabels, node, poked, cluster, queue, events>>

\* getWorkloadNode: the cached client reads the ClusterCache's copy.
NodeCopy(m) == IF connected THEN node[m].cached ELSE node[m].labels

\* ... and patchWorkloadNodeLabels.  Without a label to propagate the Node is
\* not looked for.  The ClusterCache sees the patch at once, or late.
PatchNodeLabels(m) ==
  LET patched == Labelled(node[m].labels, NodeCopy(m), w[m].labels) IN
  /\ w[m].pc = "patchLabels"
  /\ \/ /\ WorkloadClient(m) /\ node[m].registered
        /\ Goto(m, "link") /\ UNCHANGED queue
        /\ \/ /\ node' = [node EXCEPT ![m].labels = patched, ![m].cached = patched]
              /\ UNCHANGED events
           \/ node' = [node EXCEPT ![m].labels = patched] /\ Event("CacheLags")
     \/ /\ WorkloadClient(m) /\ ~node[m].registered /\ filterHostLabels(w[m].labels) = {}
        /\ Goto(m, "link") /\ UNCHANGED <<node, queue, events>>
     \/ /\ ~WorkloadClient(m) \/ (~node[m].registered /\ filterHostLabels(w[m].labels) # {})
        /\ RequeueAfter(m) /\ UNCHANGED <<node, events>>
  /\ UNCHANGED <<obj, hostLabels, poked, cluster>>

\* Mutant: the machine is requeued, but not changed.
RequeueUnchanged(m) ==
  /\ w[m].pc = "link"
  /\ IF nodeRef[m] THEN Stop(m) /\ UNCHANGED queue ELSE RequeueAfter(m)
  /\ UNCHANGED <<obj, hostLabels, node, poked, cluster, events>>

\* Mutant: the requeue does not stop when the Machine is linked.
RequeueLinked(m) ==
  /\ w[m].pc = "link"
  /\ Updates(m, [obj[m] EXCEPT !.annotated = ~nodeRef[m]])
  /\ RequeueAfter(m)
  /\ UNCHANGED <<hostLabels, node, cluster, events>>

\* ensureNodeLinked: bump the annotation until the Machine is linked, then clear
\* it, as far as this reconcile's copy has it.
EnsureNodeLinked(m) ==
  /\ w[m].pc = "link"
  /\ \/ ~nodeRef[m] /\ Updates(m, [obj[m] EXCEPT !.annotated = TRUE]) /\ RequeueAfter(m)
     \/ /\ nodeRef[m] /\ w[m].annotated
        /\ Updates(m, [obj[m] EXCEPT !.annotated = FALSE])
        /\ Stop(m) /\ UNCHANGED queue
     \/ nodeRef[m] /\ ~w[m].annotated /\ Stop(m) /\ UNCHANGED <<obj, poked, queue>>
  /\ UNCHANGED <<hostLabels, node, cluster, events>>

-----------------------------------------------------------------------------

ReconcileStep(m) ==
  \/ Start(m) \/ PatchNode(m) \/ MarkNodeUpdated(m) \/ ReadHostLabels(m)
  \/ PatchNodeLabels(m) \/ EnsureNodeLinked(m)

Next ==
  \/ CreateKubeconfig \/ Connect \/ Disconnect \/ Restart
  \/ \E m \in Machines :
       \/ ReconcileStep(m) \/ TimerFires(m) \/ RelabelHost(m)
       \/ RegisterNode(m) \/ LoseNode(m) \/ SeeLabels(m) \/ MachineReconcile(m)

Spec == Init /\ [][Next]_vars

-----------------------------------------------------------------------------
(* Properties.                                                             *)

\* Every variable keeps its type.
TypeOK ==
  /\ obj \in [Machines -> [nodeUpdated: BOOLEAN, annotated: BOOLEAN]]
  /\ hostLabels \in [Machines -> Labels]
  /\ node \in [Machines -> [registered: BOOLEAN, providerID: BOOLEAN, tainted: BOOLEAN,
                            labels: Labels, cached: Labels]]
  /\ nodeRef \in [Machines -> BOOLEAN] /\ poked \in [Machines -> BOOLEAN]
  /\ kubeconfig \in BOOLEAN /\ connected \in BOOLEAN
  /\ queue \in [Machines -> [queued: BOOLEAN, timer: BOOLEAN]]
  /\ w \in [Machines -> Work]
  /\ events \in 0..MaxEvents

\* updateNodeProviderID: nodeUpdated closes the gate for good, so wherever the
\* controller stops and starts again it is set only for a Node that has its
\* provider ID and lost its taint.
UpdatedIsInitialised ==
  \A m \in Machines : obj[m].nodeUpdated => node[m].providerID /\ ~node[m].tainted

\* isReservedLabel: labels in the reserved domains "must not" be overwritten, so a
\* registered Node keeps those its kubelet gave it.
ReservedLabelsKept ==
  \A m \in Machines, k \in Keys :
    (\E d \in ReservedDomains : IsSuffix(d, Prefix[k])) => node[m].labels[k] = Defaults[k]

-----------------------------------------------------------------------------
(* Liveness.  A queued machine is reconciled, a pending requeue fires, the *)
(* nodes register, the kubeconfig is generated, a name that resolves is    *)
(* connected to, and the Machine controller handles its events.            *)

Fairness ==
  /\ \A m \in Machines :
       /\ WF_vars(ReconcileStep(m) \/ TimerFires(m))
       /\ WF_vars(MachineReconcile(m))
       /\ WF_vars(RegisterNode(m) \/ SeeLabels(m))
  /\ WF_vars(CreateKubeconfig \/ Connect)

LiveSpec == Spec /\ Fairness

\* linkNode, resolveWorkloadClient, ensureNodeLinked: every machine is linked in
\* the end.  The control-plane Node is initialised although the name of its API
\* server does not resolve before that, and the Machine controller, which looked
\* too early, is made to look again.
EveryMachineLinks == <>[](\A m \in Machines : nodeRef[m])

\* ensureNodeLinked: once the Machine is linked "the annotation is cleared and the
\* requeue stops".
RetriggerEnds ==
  <>[](\A m \in Machines : ~obj[m].annotated /\ ~queue[m].timer /\ ~queue[m].queued)

\* syncNodeLabels: the Node ends with the labels of its host that are propagated,
\* a label that changed while it was being synced, and changed back, included.
LabelsReachNode ==
  <>[](\A m \in Machines : \A k \in filterHostLabels(hostLabels[m]) :
         node[m].labels[k] = hostLabels[m][k])
=============================================================================

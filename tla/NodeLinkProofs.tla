--------------------------- MODULE NodeLinkProofs ---------------------------
(***************************************************************************)
(* Proofs about NodeLink, for every set of machines, keys and labels and   *)
(* any number of events.                                                   *)
(***************************************************************************)
EXTENDS NodeLink, TLAPS

ObjectSet == [nodeUpdated: BOOLEAN, annotated: BOOLEAN]
NodeSet == [registered: BOOLEAN, providerID: BOOLEAN, tainted: BOOLEAN, labels: Labels,
            cached: Labels]
QueueSet == [queued: BOOLEAN, timer: BOOLEAN]

-----------------------------------------------------------------------------
(* The type invariant.                                                     *)

\* What the work queue and the patches write has its type.
LEMMA TypedWrites ==
  ASSUME TypeOK, NEW m \in Machines
  PROVE  /\ Enqueue(m) => queue' \in [Machines -> QueueSet]
         /\ Stop(m) => w' \in [Machines -> Work]
         /\ RequeueAfter(m) => queue' \in [Machines -> QueueSet] /\ w' \in [Machines -> Work]
         /\ \A pc \in Steps : Goto(m, pc) => w' \in [Machines -> Work]
         /\ \A o \in ObjectSet : Updates(m, o) =>
              obj' \in [Machines -> ObjectSet] /\ poked' \in [Machines -> BOOLEAN]
         /\ \A kind : Event(kind) => events' \in 0..MaxEvents /\ kind \in Faults
<1>1. queue \in [Machines -> QueueSet] /\ w \in [Machines -> Work] /\ obj \in [Machines -> ObjectSet]
      /\ poked \in [Machines -> BOOLEAN] /\ events \in 0..MaxEvents
  BY DEF TypeOK, QueueSet, ObjectSet
<1>2. Idle \in Work
  BY DEF Idle, Work, Steps, NoLabels, Labels
<1>3. Enqueue(m) => queue' \in [Machines -> QueueSet]
  <2> DEFINE q1 == [queue[m] EXCEPT !.queued = TRUE]
  <2>1. q1 \in QueueSet
    BY <1>1 DEF QueueSet
  <2>2. Enqueue(m) => queue' = [queue EXCEPT ![m] = q1]
    BY DEF Enqueue
  <2> HIDE DEF q1
  <2> QED BY <1>1, <2>1, <2>2
<1>4. Stop(m) => w' \in [Machines -> Work]
  BY <1>1, <1>2 DEF Stop
<1>5. RequeueAfter(m) => queue' \in [Machines -> QueueSet] /\ w' \in [Machines -> Work]
  <2> DEFINE q1 == [queue[m] EXCEPT !.timer = TRUE]
  <2>1. q1 \in QueueSet
    BY <1>1 DEF QueueSet
  <2>2. RequeueAfter(m) => queue' = [queue EXCEPT ![m] = q1] /\ Stop(m)
    BY DEF RequeueAfter
  <2> HIDE DEF q1
  <2> QED BY <1>1, <1>4, <2>1, <2>2
<1>6. ASSUME NEW pc \in Steps, Goto(m, pc)
      PROVE  w' \in [Machines -> Work]
  <2> DEFINE w1 == [w[m] EXCEPT !.pc = pc]
  <2>1. w1 \in Work
    BY <1>1 DEF Work
  <2>2. w' = [w EXCEPT ![m] = w1]
    BY <1>6 DEF Goto
  <2> HIDE DEF w1
  <2> QED BY <1>1, <2>1, <2>2
<1>7. ASSUME NEW o \in ObjectSet, Updates(m, o)
      PROVE  obj' \in [Machines -> ObjectSet] /\ poked' \in [Machines -> BOOLEAN]
  BY <1>1, <1>7 DEF Updates
<1>8. ASSUME NEW kind, Event(kind)
      PROVE  events' \in 0..MaxEvents /\ kind \in Faults
  BY <1>1, <1>8, EventsAssumption DEF Event
<1> QED BY <1>3, <1>4, <1>5, <1>6, <1>7, <1>8

\* Every step leaves the Nodes alone but for one, whose change is one of four: it
\* registers, it is lost, it is initialised, or it is labelled.
Registers(m, n1) == ~node[m].registered /\ n1 = Registered
Loses(m, n1) ==
  /\ n1 = Missing /\ Event(IF node[m].providerID THEN "NodeLost" ELSE "NewNodeLost")
Initialises(m, n1) ==
  /\ w[m].pc = "provider" /\ node[m].registered
  /\ n1.providerID /\ ~n1.tainted /\ n1.labels = node[m].labels /\ n1.registered
Relabels(m, n1) ==
  /\ n1.registered = node[m].registered /\ n1.providerID = node[m].providerID
  /\ n1.tainted = node[m].tainted
  /\ \E copy, labels \in Labels :
       n1.labels \in {node[m].labels, Labelled(node[m].labels, copy, labels)}

NodeChange ==
  \/ UNCHANGED node
  \/ \E m \in Machines, n1 \in NodeSet :
       /\ node' = [node EXCEPT ![m] = n1]
       /\ Registers(m, n1) \/ Loses(m, n1) \/ Initialises(m, n1) \/ Relabels(m, n1)

\* What a step may do to the gate of updateNodeProviderID: a machine is about to be
\* marked only when its Node has just been initialised, and marked only then.
GateChange ==
  \A m \in Machines :
    /\ w'[m].pc = "updated" =>
         w[m].pc = "updated" \/ (node'[m].providerID /\ ~node'[m].tainted)
    /\ obj'[m].nodeUpdated => obj[m].nodeUpdated \/ w[m].pc = "updated"

\* Writing labels onto a Node gives labels.
LEMMA LabelledTyped ==
  ASSUME NEW old \in Labels, NEW copy \in Labels, NEW labels \in Labels
  PROVE  Labelled(old, copy, labels) \in Labels
BY DEF Labels, Labelled

\* At first no Node is initialised, and none has labels of the controller.
LEMMA InitLink ==
  ASSUME Init
  PROVE  /\ TypeOK
         /\ \A m \in Machines : /\ ~obj[m].nodeUpdated /\ w[m].pc = "idle"
                                /\ ~node[m].providerID /\ node[m].labels = Defaults
<1>1. Registered \in NodeSet /\ Missing \in NodeSet /\ Missing.providerID = FALSE
      /\ Missing.labels = Defaults
  BY LabelsAssumption DEF Registered, Missing, NodeSet
<1>2. Idle \in Work /\ Idle.pc = "idle"
  BY DEF Idle, Work, Steps, NoLabels, Labels
<1>3. /\ obj = [m \in Machines |-> [nodeUpdated |-> FALSE, annotated |-> FALSE]]
      /\ hostLabels = HostLabels /\ node = [m \in Machines |-> Missing]
      /\ queue = [m \in Machines |-> [queued |-> TRUE, timer |-> FALSE]]
      /\ w = [m \in Machines |-> Idle]
  BY DEF Init
<1>4. /\ nodeRef = [m \in Machines |-> FALSE] /\ poked = [m \in Machines |-> TRUE]
      /\ kubeconfig = FALSE /\ connected = FALSE /\ events = 0
  BY DEF Init
<1>5. nodeRef \in [Machines -> BOOLEAN] /\ poked \in [Machines -> BOOLEAN]
  BY <1>4
<1>6. kubeconfig \in BOOLEAN /\ connected \in BOOLEAN
  BY <1>4, Zenon
<1>7. events \in 0..MaxEvents
  <2>1. events = 0 /\ MaxEvents \in Nat
    BY <1>4, EventsAssumption, Zenon
  <2> QED BY <2>1
<1>8. /\ obj \in [Machines -> ObjectSet] /\ node \in [Machines -> NodeSet]
      /\ queue \in [Machines -> QueueSet] /\ w \in [Machines -> Work]
      /\ hostLabels \in [Machines -> Labels]
  BY <1>1, <1>2, <1>3, LabelsAssumption DEF ObjectSet, QueueSet
<1>9. TypeOK
  BY <1>5, <1>6, <1>7, <1>8 DEF TypeOK, ObjectSet, NodeSet, QueueSet
<1>10. \A m \in Machines : /\ ~obj[m].nodeUpdated /\ w[m].pc = "idle"
                          /\ ~node[m].providerID /\ node[m].labels = Defaults
  BY <1>1, <1>2, <1>3
<1> QED BY <1>9, <1>10

\* What every step may do to the Nodes and to nodeUpdated.
LEMMA StepEffect ==
  ASSUME TypeOK, [Next]_vars
  PROVE  TypeOK' /\ NodeChange /\ GateChange
<1> DEFINE Good == TypeOK' /\ NodeChange /\ GateChange
<1> SUFFICES Good
  OBVIOUS
<1>a. /\ obj \in [Machines -> ObjectSet] /\ hostLabels \in [Machines -> Labels]
      /\ node \in [Machines -> NodeSet] /\ nodeRef \in [Machines -> BOOLEAN]
      /\ poked \in [Machines -> BOOLEAN] /\ kubeconfig \in BOOLEAN /\ connected \in BOOLEAN
      /\ queue \in [Machines -> QueueSet] /\ w \in [Machines -> Work] /\ events \in 0..MaxEvents
  BY DEF TypeOK, ObjectSet, NodeSet, QueueSet
<1>b. ASSUME /\ obj' \in [Machines -> ObjectSet] /\ hostLabels' \in [Machines -> Labels]
             /\ node' \in [Machines -> NodeSet] /\ nodeRef' \in [Machines -> BOOLEAN]
             /\ poked' \in [Machines -> BOOLEAN] /\ kubeconfig' \in BOOLEAN /\ connected' \in BOOLEAN
             /\ queue' \in [Machines -> QueueSet] /\ w' \in [Machines -> Work] /\ events' \in 0..MaxEvents,
             NodeChange, GateChange
      PROVE  Good
  BY <1>b DEF TypeOK, ObjectSet, NodeSet, QueueSet
<1> HIDE DEF Good
<1>c. Idle \in Work /\ Idle.pc = "idle"
  BY DEF Idle, Work, Steps, NoLabels, Labels
\* Steps that write neither the Node nor the gate.
<1>d. ASSUME UNCHANGED <<obj, node, w>>
      PROVE  NodeChange /\ GateChange
  BY <1>d DEF NodeChange, GateChange
<1>1. CASE UNCHANGED vars
  BY <1>1, <1>a, <1>b, <1>d DEF vars
<1>2. CASE CreateKubeconfig
  <2>1. /\ UNCHANGED <<obj, hostLabels, node, nodeRef, poked, connected, queue, w, events>>
        /\ kubeconfig' \in BOOLEAN
    BY <1>2 DEF CreateKubeconfig
  <2> QED BY <1>a, <1>b, <1>d, <2>1
<1>3. CASE Connect
  <2>1. /\ UNCHANGED <<obj, hostLabels, node, nodeRef, poked, kubeconfig, queue, w, events>>
        /\ connected' \in BOOLEAN
    BY <1>3 DEF Connect
  <2> QED BY <1>a, <1>b, <1>d, <2>1
<1>4. CASE Disconnect
  <2>1. UNCHANGED <<obj, hostLabels, node, nodeRef, poked, kubeconfig, queue, w>> /\ connected' \in BOOLEAN
    BY <1>4 DEF Disconnect
  <2>2. events' \in 0..MaxEvents
    BY <1>4, <1>a, EventsAssumption DEF Disconnect, Event
  <2> QED BY <1>a, <1>b, <1>d, <2>1, <2>2
<1>5. CASE Restart
  <2>1. /\ UNCHANGED <<obj, hostLabels, node, nodeRef, poked, kubeconfig, connected>>
        /\ queue' = [m \in Machines |-> [queued |-> TRUE, timer |-> FALSE]]
        /\ w' = [m \in Machines |-> Idle]
    BY <1>5 DEF Restart, cluster
  <2>2. events' \in 0..MaxEvents
    BY <1>5, <1>a, EventsAssumption DEF Restart, Event
  <2>3. queue' \in [Machines -> QueueSet] /\ w' \in [Machines -> Work]
    BY <1>c, <2>1 DEF QueueSet
  <2>4. NodeChange /\ GateChange
    BY <1>c, <2>1 DEF NodeChange, GateChange
  <2> QED BY <1>a, <1>b, <2>1, <2>2, <2>3, <2>4
<1>6. ASSUME NEW m \in Machines, TimerFires(m)
      PROVE  Good
  <2>1. /\ queue' = [queue EXCEPT ![m] = [queued |-> TRUE, timer |-> FALSE]]
        /\ UNCHANGED <<obj, hostLabels, node, nodeRef, poked, kubeconfig, connected, w, events>>
    BY <1>6 DEF TimerFires, cluster
  <2>2. queue' \in [Machines -> QueueSet]
    BY <1>a, <2>1 DEF QueueSet
  <2> QED BY <1>a, <1>b, <1>d, <2>1, <2>2
<1>7. ASSUME NEW m \in Machines, RelabelHost(m)
      PROVE  Good
  <2>1. PICK k \in Keys, v \in Values \cup {NoValue} :
          /\ Event("Relabel") /\ hostLabels' = [hostLabels EXCEPT ![m][k] = v]
          /\ Enqueue(m) \/ UNCHANGED queue
          /\ UNCHANGED <<obj, node, poked, nodeRef, kubeconfig, connected, w>>
    BY <1>7 DEF RelabelHost, cluster
  <2>2. hostLabels' \in [Machines -> Labels]
    <3> DEFINE l1 == [hostLabels[m] EXCEPT ![k] = v]
    <3>1. l1 \in Labels
      BY <1>a DEF Labels
    <3>2. hostLabels' = [hostLabels EXCEPT ![m] = l1]
      BY <2>1
    <3> HIDE DEF l1
    <3> QED BY <1>a, <3>1, <3>2
  <2>3. queue' \in [Machines -> QueueSet] /\ events' \in 0..MaxEvents
    BY <1>a, <2>1, TypedWrites
  <2> QED BY <1>a, <1>b, <1>d, <2>1, <2>2, <2>3
<1>8. ASSUME NEW m \in Machines, RegisterNode(m)
      PROVE  Good
  <2>1. /\ ~node[m].registered /\ node' = [node EXCEPT ![m] = Registered]
        /\ UNCHANGED <<obj, hostLabels, nodeRef, poked, kubeconfig, connected, queue, w, events>>
    BY <1>8 DEF RegisterNode, cluster
  <2>2. Registered \in NodeSet
    BY LabelsAssumption DEF Registered, NodeSet
  <2>3. node' \in [Machines -> NodeSet] /\ NodeChange
    BY <1>a, <2>1, <2>2 DEF NodeChange, Registers
  <2>4. GateChange
    BY <2>1 DEF GateChange
  <2> QED BY <1>a, <1>b, <2>1, <2>3, <2>4
<1>9. ASSUME NEW m \in Machines, LoseNode(m)
      PROVE  Good
  <2>1. /\ Event(IF node[m].providerID THEN "NodeLost" ELSE "NewNodeLost")
        /\ node' = [node EXCEPT ![m] = Missing]
        /\ UNCHANGED <<obj, hostLabels, nodeRef, poked, kubeconfig, connected, queue, w>>
    BY <1>9 DEF LoseNode, cluster
  <2>2. Missing \in NodeSet
    BY LabelsAssumption DEF Missing, Registered, NodeSet
  <2>3. node' \in [Machines -> NodeSet] /\ NodeChange
    BY <1>a, <2>1, <2>2 DEF NodeChange, Loses
  <2>4. GateChange
    BY <2>1 DEF GateChange
  <2>5. events' \in 0..MaxEvents
    BY <1>a, <2>1, EventsAssumption DEF Event
  <2> QED BY <1>a, <1>b, <2>1, <2>3, <2>4, <2>5
<1>10. ASSUME NEW m \in Machines, MachineReconcile(m)
       PROVE  Good
  <2> DEFINE seen == nodeRef[m] \/ (connected /\ node[m].registered /\ node[m].providerID)
  <2>1. /\ poked' = [poked EXCEPT ![m] = FALSE] /\ nodeRef' = [nodeRef EXCEPT ![m] = seen]
        /\ UNCHANGED <<obj, hostLabels, node, kubeconfig, connected, queue, w, events>>
    BY <1>10 DEF MachineReconcile
  <2>2. seen \in BOOLEAN /\ FALSE \in BOOLEAN
    OBVIOUS
  <2> HIDE DEF seen
  <2>3. poked' \in [Machines -> BOOLEAN] /\ nodeRef' \in [Machines -> BOOLEAN]
    BY <1>a, <2>1, <2>2
  <2> QED BY <1>a, <1>b, <1>d, <2>1, <2>3
<1>11. ASSUME NEW m \in Machines, ReconcileStep(m)
       PROVE  Good
  \* Steps that move the reconcile on, or end it, and write no Node and no gate.
  <2>a. ASSUME w'[m].pc # "updated", \A k \in Machines \ {m} : w'[k] = w[k],
               obj' = obj
        PROVE  GateChange
    BY <2>a DEF GateChange
  <2>b. /\ Stop(m) => w'[m].pc = "idle" /\ \A k \in Machines \ {m} : w'[k] = w[k]
        /\ RequeueAfter(m) => w'[m].pc = "idle" /\ \A k \in Machines \ {m} : w'[k] = w[k]
        /\ \A pc \in Steps : Goto(m, pc) => w'[m].pc = pc /\ \A k \in Machines \ {m} : w'[k] = w[k]
    BY <1>a, <1>c DEF Stop, Goto, RequeueAfter, Work
  <2>1. CASE Start(m)
    <3> DEFINE w1 == [Idle EXCEPT !.pc = IF obj[m].nodeUpdated THEN "labels" ELSE "provider",
                                  !.annotated = obj[m].annotated]
               q1 == [queue[m] EXCEPT !.queued = FALSE]
    <3>1. /\ queue' = [queue EXCEPT ![m] = q1] /\ w' = [w EXCEPT ![m] = w1]
          /\ UNCHANGED <<obj, hostLabels, node, nodeRef, poked, kubeconfig, connected, events>>
      BY <2>1 DEF Start, cluster
    <3>2. w1 \in Work /\ w1.pc # "updated"
      BY <1>a DEF Idle, Work, Steps, NoLabels, Labels, ObjectSet
    <3>3. q1 \in QueueSet
      BY <1>a DEF QueueSet
    <3> HIDE DEF w1, q1
    <3>4. queue' \in [Machines -> QueueSet] /\ w' \in [Machines -> Work]
      BY <1>a, <3>1, <3>2, <3>3
    <3>5. NodeChange /\ GateChange
      BY <1>a, <2>a, <3>1, <3>2 DEF NodeChange
    <3> QED BY <1>a, <1>b, <3>1, <3>4, <3>5
  <2>2. CASE PatchNode(m)
    <3>1. /\ w[m].pc = "provider"
          /\ UNCHANGED <<obj, hostLabels, nodeRef, poked, kubeconfig, connected, events>>
      BY <2>2 DEF PatchNode, cluster
    <3>2. CASE RequeueAfter(m) /\ UNCHANGED node
      <4>1. queue' \in [Machines -> QueueSet] /\ w' \in [Machines -> Work]
        BY <3>2, TypedWrites
      <4>2. NodeChange /\ GateChange
        BY <2>a, <2>b, <3>1, <3>2 DEF NodeChange
      <4> QED BY <1>a, <1>b, <3>1, <3>2, <4>1, <4>2
    <3>3. CASE /\ node[m].registered /\ Goto(m, "updated") /\ UNCHANGED queue
               /\ node' = [node EXCEPT ![m].providerID = TRUE, ![m].tainted = FALSE]
      <4> DEFINE n1 == [node[m] EXCEPT !.providerID = TRUE, !.tainted = FALSE]
      <4>1. n1 \in NodeSet
        BY <1>a DEF NodeSet
      <4>2. n1.providerID /\ ~n1.tainted /\ n1.labels = node[m].labels /\ n1.registered
        BY <1>a, <3>3 DEF NodeSet
      <4>3. node' = [node EXCEPT ![m] = n1]
        BY <3>3
      <4> HIDE DEF n1
      <4>4. node' \in [Machines -> NodeSet] /\ NodeChange
        BY <1>a, <3>1, <3>3, <4>1, <4>2, <4>3 DEF NodeChange, Initialises
      <4>5. w' \in [Machines -> Work]
        BY <3>3, TypedWrites DEF Steps
      <4>6. GateChange
        BY <1>a, <2>b, <3>1, <3>3, <4>2, <4>3 DEF GateChange, Steps
      <4> QED BY <1>a, <1>b, <3>1, <3>3, <4>4, <4>5, <4>6
    <3> QED BY <2>2, <3>2, <3>3 DEF PatchNode, NodeFound
  <2>3. CASE MarkNodeUpdated(m)
    <3> DEFINE o1 == [obj[m] EXCEPT !.nodeUpdated = TRUE]
    <3>1. /\ w[m].pc = "updated" /\ Updates(m, o1) /\ Goto(m, "labels")
          /\ UNCHANGED <<hostLabels, node, nodeRef, kubeconfig, connected, queue, events>>
      BY <2>3 DEF MarkNodeUpdated, cluster
    <3>2. o1 \in ObjectSet
      BY <1>a DEF ObjectSet
    <3> HIDE DEF o1
    <3>3. /\ obj' \in [Machines -> ObjectSet] /\ poked' \in [Machines -> BOOLEAN]
          /\ w' \in [Machines -> Work]
      BY <3>1, <3>2, TypedWrites DEF Steps
    <3>4. \A k \in Machines \ {m} : obj'[k] = obj[k]
      BY <1>a, <3>1 DEF Updates
    <3>5. NodeChange /\ GateChange
      BY <2>b, <3>1, <3>4 DEF NodeChange, GateChange, Steps
    <3> QED BY <1>a, <1>b, <3>1, <3>3, <3>5
  <2>4. CASE ReadHostLabels(m)
    <3> DEFINE w1 == [w[m] EXCEPT !.pc = "patchLabels", !.labels = hostLabels[m]]
    <3>1. /\ w' = [w EXCEPT ![m] = w1]
          /\ UNCHANGED <<obj, hostLabels, node, nodeRef, poked, kubeconfig, connected, queue, events>>
      BY <2>4 DEF ReadHostLabels, cluster
    <3>2. w1 \in Work /\ w1.pc = "patchLabels"
      BY <1>a DEF Work, Steps
    <3> HIDE DEF w1
    <3>3. w' \in [Machines -> Work]
      BY <1>a, <3>1, <3>2
    <3>4. NodeChange /\ GateChange
      BY <1>a, <2>a, <3>1, <3>2 DEF NodeChange
    <3> QED BY <1>a, <1>b, <3>1, <3>3, <3>4
  <2>5. CASE PatchNodeLabels(m)
    <3> DEFINE patched == Labelled(node[m].labels, NodeCopy(m), w[m].labels)
    <3>1. UNCHANGED <<obj, hostLabels, nodeRef, poked, kubeconfig, connected>>
      BY <2>5 DEF PatchNodeLabels, cluster
    <3>2. /\ node[m] \in NodeSet /\ node[m].labels \in Labels /\ w[m].labels \in Labels
          /\ NodeCopy(m) \in Labels
      BY <1>a DEF NodeSet, Work, NodeCopy
    <3>3. patched \in Labels
      BY <3>2, LabelledTyped
    <3>4. \/ RequeueAfter(m) /\ UNCHANGED <<node, events>>
          \/ Goto(m, "link") /\ UNCHANGED <<node, queue, events>>
          \/ /\ Goto(m, "link") /\ UNCHANGED <<queue, events>>
             /\ node' = [node EXCEPT ![m].labels = patched, ![m].cached = patched]
          \/ /\ Goto(m, "link") /\ UNCHANGED queue /\ Event("CacheLags")
             /\ node' = [node EXCEPT ![m].labels = patched]
      BY <2>5 DEF PatchNodeLabels
    <3>5. CASE RequeueAfter(m) /\ UNCHANGED <<node, events>>
      <4>1. queue' \in [Machines -> QueueSet] /\ w' \in [Machines -> Work]
        BY <3>5, TypedWrites
      <4>2. NodeChange /\ GateChange
        BY <2>a, <2>b, <3>1, <3>5 DEF NodeChange
      <4> QED BY <1>a, <1>b, <3>1, <3>5, <4>1, <4>2
    <3>6. ASSUME Goto(m, "link"), UNCHANGED queue, events' \in 0..MaxEvents,
                 NodeChange, node' \in [Machines -> NodeSet]
          PROVE  Good
      <4>1. w' \in [Machines -> Work]
        BY <3>6, TypedWrites DEF Steps
      <4>2. GateChange
        BY <2>a, <2>b, <3>1, <3>6 DEF Steps
      <4> QED BY <1>a, <1>b, <3>1, <3>6, <4>1, <4>2
    <3>7. ASSUME NEW cached \in Labels
          PROVE  LET n1 == [node[m] EXCEPT !.labels = patched, !.cached = cached] IN
                 node' = [node EXCEPT ![m] = n1] => NodeChange /\ node' \in [Machines -> NodeSet]
      <4> DEFINE n1 == [node[m] EXCEPT !.labels = patched, !.cached = cached]
      <4>1. n1 \in NodeSet
        BY <3>2, <3>3, <3>7 DEF NodeSet
      <4>2. /\ n1.labels = patched /\ n1.registered = node[m].registered
            /\ n1.providerID = node[m].providerID /\ n1.tainted = node[m].tainted
        BY <3>2 DEF NodeSet
      <4> HIDE DEF n1
      <4>3. Relabels(m, n1)
        BY <3>2, <4>2 DEF Relabels
      <4>4. node' = [node EXCEPT ![m] = n1] => NodeChange /\ node' \in [Machines -> NodeSet]
        BY <1>a, <4>1, <4>3 DEF NodeChange
      <4> QED BY <4>4 DEF n1
    <3>8. CASE Goto(m, "link") /\ UNCHANGED <<node, queue, events>>
      BY <1>a, <3>6, <3>8 DEF NodeChange
    <3>9. CASE /\ Goto(m, "link") /\ UNCHANGED <<queue, events>>
               /\ node' = [node EXCEPT ![m].labels = patched, ![m].cached = patched]
      <4>1. node' = [node EXCEPT ![m] = [node[m] EXCEPT !.labels = patched, !.cached = patched]]
        BY <3>9
      <4> HIDE DEF patched
      <4>2. NodeChange /\ node' \in [Machines -> NodeSet]
        BY <3>3, <3>7, <4>1
      <4> QED BY <1>a, <3>6, <3>9, <4>2
    <3>10. CASE /\ Goto(m, "link") /\ UNCHANGED queue /\ Event("CacheLags")
                /\ node' = [node EXCEPT ![m].labels = patched]
      <4> DEFINE cached == node[m].cached
      <4>1. cached \in Labels /\ events' \in 0..MaxEvents
        BY <3>2, <3>10, TypedWrites DEF NodeSet
      <4>2. node' = [node EXCEPT ![m] = [node[m] EXCEPT !.labels = patched]]
        BY <3>10
      <4> HIDE DEF patched
      <4>3. [node[m] EXCEPT !.labels = patched] = [node[m] EXCEPT !.labels = patched, !.cached = cached]
        BY <3>2 DEF NodeSet
      <4> HIDE DEF cached
      <4>4. NodeChange /\ node' \in [Machines -> NodeSet]
        BY <3>7, <4>1, <4>2, <4>3
      <4> QED BY <3>6, <3>10, <4>1, <4>4
    <3> QED BY <3>4, <3>5, <3>8, <3>9, <3>10
  <2>6. CASE EnsureNodeLinked(m)
    <3>1. UNCHANGED <<hostLabels, node, nodeRef, kubeconfig, connected, events>>
      BY <2>6 DEF EnsureNodeLinked, cluster
    <3>2. ASSUME NEW o1 \in ObjectSet, o1.nodeUpdated = obj[m].nodeUpdated, Updates(m, o1),
                 RequeueAfter(m) \/ (Stop(m) /\ UNCHANGED queue)
          PROVE  Good
      <4>1. /\ obj' \in [Machines -> ObjectSet] /\ poked' \in [Machines -> BOOLEAN]
            /\ w' \in [Machines -> Work] /\ queue' \in [Machines -> QueueSet]
        BY <1>a, <3>2, TypedWrites
      <4>2. obj'[m] = o1 /\ \A k \in Machines \ {m} : obj'[k] = obj[k]
        BY <1>a, <3>2 DEF Updates
      <4>3. NodeChange /\ GateChange
        BY <2>b, <3>1, <3>2, <4>2 DEF NodeChange, GateChange
      <4> QED BY <1>a, <1>b, <3>1, <4>1, <4>3
    <3>3. CASE Stop(m) /\ UNCHANGED <<obj, poked, queue>>
      <4>1. w' \in [Machines -> Work]
        BY <3>3, TypedWrites
      <4>2. NodeChange /\ GateChange
        BY <2>a, <2>b, <3>1, <3>3 DEF NodeChange
      <4> QED BY <1>a, <1>b, <3>1, <3>3, <4>1, <4>2
    <3>4. /\ [obj[m] EXCEPT !.annotated = TRUE] \in ObjectSet
          /\ [obj[m] EXCEPT !.annotated = TRUE].nodeUpdated = obj[m].nodeUpdated
      BY <1>a DEF ObjectSet
    <3>5. /\ [obj[m] EXCEPT !.annotated = FALSE] \in ObjectSet
          /\ [obj[m] EXCEPT !.annotated = FALSE].nodeUpdated = obj[m].nodeUpdated
      BY <1>a DEF ObjectSet
    <3> QED BY <2>6, <3>2, <3>3, <3>4, <3>5, Zenon DEF EnsureNodeLinked
  <2> QED BY <1>11, <2>1, <2>2, <2>3, <2>4, <2>5, <2>6 DEF ReconcileStep
<1>12. ASSUME NEW m \in Machines, SeeLabels(m)
       PROVE  Good
  <2> DEFINE n1 == [node[m] EXCEPT !.cached = node[m].labels]
  <2>1. /\ node' = [node EXCEPT ![m].cached = node[m].labels]
        /\ UNCHANGED <<obj, hostLabels, nodeRef, poked, kubeconfig, connected, queue, w, events>>
    BY <1>12 DEF SeeLabels, cluster
  <2>2. node' = [node EXCEPT ![m] = n1]
    BY <2>1
  <2>3. node[m] \in NodeSet /\ node[m].labels \in Labels
    BY <1>a DEF NodeSet
  <2>4. /\ n1 \in NodeSet /\ n1.labels = node[m].labels /\ n1.registered = node[m].registered
        /\ n1.providerID = node[m].providerID /\ n1.tainted = node[m].tainted
    BY <2>3 DEF NodeSet
  <2> HIDE DEF n1
  <2>5. Relabels(m, n1)
    BY <2>3, <2>4 DEF Relabels
  <2>6. node' \in [Machines -> NodeSet] /\ NodeChange
    BY <1>a, <2>2, <2>4, <2>5 DEF NodeChange
  <2>7. GateChange
    BY <2>1 DEF GateChange
  <2> QED BY <1>a, <1>b, <2>1, <2>6, <2>7
<1> QED BY <1>1, <1>2, <1>3, <1>4, <1>5, <1>6, <1>7, <1>8, <1>9, <1>10, <1>11, <1>12 DEF Next

\* Every variable of the node link keeps its type.
THEOREM NodeLinkTyped == Spec => []TypeOK
<1>1. Init => TypeOK
  BY InitLink
<1>2. TypeOK /\ [Next]_vars => TypeOK'
  BY StepEffect
<1> QED BY <1>1, <1>2, PTL DEF Spec

-----------------------------------------------------------------------------
(* The two safety properties.                                              *)

\* A Node that was initialised is not deleted.
InitialisedStays == "NodeLost" \notin Faults

\* Between the patch of the Node and the mark, and ever after, the Node has its
\* provider ID and no taint; and only a registered Node has a provider ID, so a
\* kubelet never registers over it.
InitialisedInv ==
  \A m \in Machines :
    /\ w[m].pc = "updated" \/ obj[m].nodeUpdated => node[m].providerID /\ ~node[m].tainted
    /\ node[m].providerID => node[m].registered

\* updateNodeProviderID: nodeUpdated is set only for an initialised Node, wherever
\* the controller is restarted between the patch and the mark and whatever happens
\* to Nodes that are not initialised yet.
THEOREM MarkedIsInitialised ==
  ASSUME InitialisedStays
  PROVE  Spec => []UpdatedIsInitialised
<1>1. Init => InitialisedInv
  BY InitLink DEF InitialisedInv
<1>2. TypeOK /\ InitialisedInv /\ [Next]_vars => InitialisedInv'
  <2> SUFFICES ASSUME TypeOK, InitialisedInv, [Next]_vars, NEW k \in Machines
               PROVE  /\ w'[k].pc = "updated" \/ obj'[k].nodeUpdated =>
                            node'[k].providerID /\ ~node'[k].tainted
                      /\ node'[k].providerID => node'[k].registered
    BY DEF InitialisedInv
  <2>1. NodeChange /\ GateChange /\ node \in [Machines -> NodeSet]
    BY StepEffect DEF TypeOK, NodeSet
  <2>2. /\ w[k].pc = "updated" \/ obj[k].nodeUpdated => node[k].providerID /\ ~node[k].tainted
        /\ node[k].providerID => node[k].registered
    BY DEF InitialisedInv
  <2>3. /\ w'[k].pc = "updated" => w[k].pc = "updated" \/ (node'[k].providerID /\ ~node'[k].tainted)
        /\ obj'[k].nodeUpdated => obj[k].nodeUpdated \/ w[k].pc = "updated"
    BY <2>1 DEF GateChange
  <2>4. CASE node'[k] = node[k]
    BY <2>2, <2>3, <2>4
  <2>5. CASE node'[k] # node[k]
    <3>1. PICK n1 \in NodeSet :
            node'[k] = n1 /\ (Registers(k, n1) \/ Loses(k, n1) \/ Initialises(k, n1) \/ Relabels(k, n1))
      BY <2>1, <2>5 DEF NodeChange
    <3>2. CASE Registers(k, n1)
      <4>1. ~n1.providerID
        BY <3>2 DEF Registers, Registered
      <4> QED BY <2>2, <2>3, <3>1, <3>2, <4>1 DEF Registers
    <3>3. CASE Loses(k, n1)
      <4>1. ~n1.providerID /\ ~node[k].providerID
        BY <3>3 DEF Loses, Missing, Registered, Event, InitialisedStays
      <4> QED BY <2>2, <2>3, <3>1, <4>1
    <3>4. CASE Initialises(k, n1)
      BY <3>1, <3>4 DEF Initialises
    <3>5. CASE Relabels(k, n1)
      BY <2>2, <2>3, <3>1, <3>5 DEF Relabels
    <3> QED BY <3>1, <3>2, <3>3, <3>4, <3>5
  <2> QED BY <2>4, <2>5
<1>3. InitialisedInv => UpdatedIsInitialised
  BY DEF InitialisedInv, UpdatedIsInitialised
<1> QED BY <1>1, <1>2, <1>3, NodeLinkTyped, PTL DEF Spec

\* isReservedLabel: whatever labels the hosts are given, at whatever moment of a
\* sync, no Node ever loses the value its kubelet gave a reserved key.
THEOREM ReservedLabelsAreKept == Spec => []ReservedLabelsKept
<1>1. Init => ReservedLabelsKept
  BY InitLink DEF ReservedLabelsKept
<1>2. TypeOK /\ ReservedLabelsKept /\ [Next]_vars => ReservedLabelsKept'
  <2> SUFFICES ASSUME TypeOK, ReservedLabelsKept, [Next]_vars, NEW m \in Machines, NEW k \in Keys,
                      isReservedLabel(k)
               PROVE  node'[m].labels[k] = Defaults[k]
    BY DEF ReservedLabelsKept, isReservedLabel
  <2>1. NodeChange /\ node \in [Machines -> NodeSet]
    BY StepEffect DEF TypeOK, NodeSet
  <2>2. node[m].labels[k] = Defaults[k]
    BY DEF ReservedLabelsKept, isReservedLabel
  <2>3. CASE node'[m] = node[m]
    BY <2>2, <2>3
  <2>4. CASE node'[m] # node[m]
    <3>1. PICK n1 \in NodeSet :
            node'[m] = n1 /\ (Registers(m, n1) \/ Loses(m, n1) \/ Initialises(m, n1) \/ Relabels(m, n1))
      BY <2>1, <2>4 DEF NodeChange
    <3>2. CASE Registers(m, n1) \/ Loses(m, n1)
      BY <3>1, <3>2 DEF Registers, Loses, Missing, Registered
    <3>3. CASE Initialises(m, n1)
      BY <2>2, <3>1, <3>3 DEF Initialises
    <3>4. CASE Relabels(m, n1)
      <4>1. PICK copy, labels \in Labels :
                n1.labels \in {node[m].labels, Labelled(node[m].labels, copy, labels)}
        BY <3>4 DEF Relabels
      <4>2. Labelled(node[m].labels, copy, labels)[k] = node[m].labels[k]
        BY DEF Labelled, filterHostLabels
      <4> QED BY <2>2, <3>1, <4>1, <4>2
    <3> QED BY <3>1, <3>2, <3>3, <3>4
  <2> QED BY <2>3, <2>4
<1> QED BY <1>1, <1>2, NodeLinkTyped, PTL DEF Spec

=============================================================================

--------------------------- MODULE AdoptionProofs ---------------------------
(***************************************************************************)
(* Proofs about Adoption, for every set of machines, every bootstrap data  *)
(* and every number of disturbances.  Each theorem names the disturbances  *)
(* and the settings it excludes; the README says what they break.          *)
(***************************************************************************)
EXTENDS Adoption, MachineConfigProofs, TLAPS

-----------------------------------------------------------------------------
(* The invariant every other one rests on.                                 *)

\* Steps of a first adoption; the steps after the node took the configuration.
ProbingSteps == {"maintenance", "bundle", "foreign", "gate"}
AppliedSteps == {"nudge", "mark"}

\* A node record has exactly the fields of NewNode, whatever its documents are.
NodeShape(n) ==
  n = [up |-> n.up, bundle |-> n.bundle, version |-> n.version, docs |-> n.docs,
       disk |-> n.disk, registered |-> n.registered]
Shapes == node = [m \in Machines |-> node[m]] /\ \A m \in Machines : NodeShape(node[m])

\* A reconcile starts only with data to apply, and probes only for a first adoption.
HasData(m) == w[m].pc # "idle" => w[m].data \in Versions
ProbesUnadopted(m) == w[m].pc \in ProbingSteps => ~obj[m].ready

\* Only the reconcile itself changes the configuration it has just applied.
AppliedIsOn(m) ==
  w[m].pc \in AppliedSteps => node[m].bundle = "own" /\ node[m].version = w[m].data

\* An adopted machine's node carries a configuration of this controller.
ReadyIsOwn(m) == obj[m].ready => node[m].bundle = "own" /\ node[m].version # 0

MachineInv(m) == HasData(m) /\ ProbesUnadopted(m) /\ AppliedIsOn(m) /\ ReadyIsOwn(m)
AdoptionInv == TypeOK /\ Shapes /\ \A m \in Machines : MachineInv(m)

-----------------------------------------------------------------------------
(* What a step of a reconcile does, on the records of its machine: w1, o1  *)
(* and n1 are the work record, the object and the node after it.           *)

\* The reconcile ends; what it may have recorded is its preflight condition.
Halts(m, w1, o1, n1) ==
  /\ w1.pc = "idle" /\ n1 = node[m] /\ o1.ready = obj[m].ready /\ o1.sha = obj[m].sha
  /\ \/ o1.preflight = obj[m].preflight
     \/ w[m].pc = "foreign"
     \/ w[m].pc \in {"gate", "apply"} /\ o1.preflight = w[m].preflight

Starts(m, w1, o1, n1) ==
  /\ w[m].pc = "idle" /\ o1 = obj[m] /\ n1 = node[m]
  /\ w1.data = data[m] /\ w1.data \in Versions /\ w1.preflight = obj[m].preflight
  /\ IF obj[m].ready THEN w1.pc \in {"apply", "link"} /\ w1.auth = "own"
                     ELSE w1.pc = "maintenance" /\ w1.auth = "none"

\* A probe fails and the next one is due.
Probes(m, w1, o1, n1) ==
  /\ w[m].pc \in {"maintenance", "bundle"} /\ w1.pc \in {"bundle", "foreign"}
  /\ w1.data = w[m].data /\ w1.preflight = w[m].preflight /\ o1 = obj[m] /\ n1 = node[m]

\* The preflight passes.
Passes(m, w1, o1, n1) ==
  /\ w[m].pc \in {"maintenance", "bundle"} /\ w1.pc = "gate"
  /\ w1.data = w[m].data /\ w1.preflight \in Passed /\ w1.auth \in {"none", "own"}
  /\ o1 = obj[m] /\ n1 = node[m]

\* The referenced talosconfig does not open the node, and is tried.
Tries(m, w1, o1, n1) ==
  /\ w[m].pc = "foreign" /\ w1.pc = "gate"
  /\ w1.data = w[m].data /\ w1.preflight = w[m].preflight
  /\ w1.auth = Credentials[m] /\ w1.auth # "none"
  /\ ~Answers(m, Credentials[m]) \/ "ReferencedProbeFails" \in Faults
  /\ o1 = obj[m] /\ n1 = node[m]

Proceeds(m, w1, o1, n1) ==
  /\ w[m].pc = "gate" /\ w1.pc = "apply" /\ ControlPlaneGate(m)
  /\ w1.data = w[m].data /\ w1.preflight = w[m].preflight /\ w1.auth = w[m].auth
  /\ o1 = obj[m] /\ n1 = node[m]

\* The node takes the configuration; the answer may be lost.
Applies(m, w1, o1, n1) ==
  /\ w[m].pc = "apply" /\ Answers(m, w[m].auth)
  /\ n1.bundle = "own" /\ n1.version = w[m].data
  /\ o1.ready = obj[m].ready /\ o1.sha = obj[m].sha
  /\ \/ /\ w1.pc = "nudge" /\ w1.data = w[m].data /\ w1.preflight = w[m].preflight
        /\ o1.preflight = obj[m].preflight
     \/ w1.pc = "idle" /\ o1.preflight = w[m].preflight

Nudges(m, w1, o1, n1) ==
  /\ w[m].pc = "nudge" /\ w1.pc = "mark"
  /\ w1.data = w[m].data /\ w1.preflight = w[m].preflight /\ o1 = obj[m]
  /\ n1.up = node[m].up /\ n1.bundle = node[m].bundle /\ n1.version = node[m].version

\* The status and the conditions are written, each unless its call is lost.
Marks(m, w1, o1, n1) ==
  /\ w[m].pc = "mark" /\ n1 = node[m]
  /\ \/ o1.ready /\ o1.sha = w[m].data
     \/ o1.ready = obj[m].ready /\ o1.sha = obj[m].sha
  /\ \/ o1.preflight = w[m].preflight
     \/ "ConditionsLost" \in Faults /\ o1.preflight = obj[m].preflight
  /\ \/ w1.pc = "idle"
     \/ w1.pc = "link" /\ w1.data = w[m].data /\ w1.preflight = w[m].preflight

Effect(m, w1, o1, n1) ==
  \/ Halts(m, w1, o1, n1) \/ Starts(m, w1, o1, n1) \/ Probes(m, w1, o1, n1)
  \/ Passes(m, w1, o1, n1) \/ Tries(m, w1, o1, n1) \/ Proceeds(m, w1, o1, n1)
  \/ Applies(m, w1, o1, n1) \/ Nudges(m, w1, o1, n1) \/ Marks(m, w1, o1, n1)

NodeOK(n) ==
  /\ NodeShape(n) /\ n.up \in BOOLEAN /\ n.registered \in BOOLEAN
  /\ n.bundle \in Bundles /\ n.version \in Versions \cup {0}

\* A reconcile of m moves to w1, writes o1 and leaves the node as n1.
Moves(m, w1, o1, n1) ==
  /\ w' = [w EXCEPT ![m] = w1] /\ obj' = [obj EXCEPT ![m] = o1] /\ node' = [node EXCEPT ![m] = n1]
  /\ UNCHANGED <<data, secrets, cpReady>> /\ faults' \in 0..MaxFaults /\ queue' \subseteq Machines

\* A fault is counted and is one the instance allows.
LEMMA FaultCounts ==
  ASSUME AdoptionInv
  PROVE  /\ \A kind : Fault(kind) => faults' \in 0..MaxFaults /\ kind \in Faults
         /\ UNCHANGED faults => faults' \in 0..MaxFaults
BY FaultsAssumption DEF Fault, AdoptionInv, TypeOK

\* The records a step starts from.
LEMMA Writes ==
  ASSUME AdoptionInv, NEW m \in Machines
  PROVE  /\ Idle \in Work /\ Idle.pc = "idle"
         /\ w[m] \in Work /\ obj[m] \in Object /\ NodeOK(node[m])
         /\ [obj EXCEPT ![m] = obj[m]] = obj /\ [node EXCEPT ![m] = node[m]] = node
<1>1. Idle \in Work /\ Idle.pc = "idle"
  BY DEF Idle, Work, Steps, Bundles, Passed
<1>2. w[m] \in Work /\ obj[m] \in Object /\ NodeOK(node[m])
  BY DEF AdoptionInv, TypeOK, Shapes, NodeOK
<1>3. [obj EXCEPT ![m] = obj[m]] = obj /\ [node EXCEPT ![m] = node[m]] = node
  BY DEF AdoptionInv, TypeOK, Shapes
<1> QED BY <1>1, <1>2, <1>3

\* A node that boots, or whose kubelet registers, is otherwise the same.
LEMMA NodeFlags ==
  ASSUME NEW n, NodeOK(n)
  PROVE  /\ /\ NodeOK([n EXCEPT !.registered = TRUE])
            /\ [n EXCEPT !.registered = TRUE].up = n.up
            /\ [n EXCEPT !.registered = TRUE].bundle = n.bundle
            /\ [n EXCEPT !.registered = TRUE].version = n.version
         /\ \A t \in BOOLEAN :
              /\ NodeOK([n EXCEPT !.up = TRUE, !.registered = t])
              /\ [n EXCEPT !.up = TRUE, !.registered = t].up = TRUE
              /\ [n EXCEPT !.up = TRUE, !.registered = t].bundle = n.bundle
              /\ [n EXCEPT !.up = TRUE, !.registered = t].version = n.version
<1>1. TRUE \in BOOLEAN
  OBVIOUS
<1>2. ASSUME NEW t \in BOOLEAN
      PROVE  /\ NodeOK([n EXCEPT !.registered = t]) /\ [n EXCEPT !.registered = t].up = n.up
             /\ [n EXCEPT !.registered = t].bundle = n.bundle
             /\ [n EXCEPT !.registered = t].version = n.version
  <2>1. [n EXCEPT !.registered = t] =
          [up |-> n.up, bundle |-> n.bundle, version |-> n.version, docs |-> n.docs,
           disk |-> n.disk, registered |-> t]
    BY DEF NodeOK, NodeShape
  <2> DEFINE n1 == [n EXCEPT !.registered = t]
  <2> HIDE DEF n1
  <2>2. NodeOK(n1) /\ n1.up = n.up /\ n1.bundle = n.bundle /\ n1.version = n.version
    BY <2>1 DEF NodeOK, NodeShape, n1
  <2> QED BY <2>2, Zenon DEF n1
<1>3. ASSUME NEW t \in BOOLEAN
      PROVE  /\ NodeOK([n EXCEPT !.up = TRUE, !.registered = t])
             /\ [n EXCEPT !.up = TRUE, !.registered = t].up = TRUE
             /\ [n EXCEPT !.up = TRUE, !.registered = t].bundle = n.bundle
             /\ [n EXCEPT !.up = TRUE, !.registered = t].version = n.version
  <2> DEFINE R == [up: BOOLEAN, bundle: {n.bundle}, version: {n.version}, docs: {n.docs},
                   disk: {n.disk}, registered: BOOLEAN]
             n1 == [n EXCEPT !.up = TRUE, !.registered = t]
  <2>1. n \in R
    BY DEF NodeOK, NodeShape
  <2>2. n1 \in R /\ n1.up = TRUE
    BY <2>1
  <2> HIDE DEF n1
  <2>3. NodeShape(n1) /\ n1.up \in BOOLEAN /\ n1.registered \in BOOLEAN
        /\ n1.bundle = n.bundle /\ n1.version = n.version
    BY <2>2 DEF NodeShape
  <2>4. NodeOK(n1) /\ n1.bundle = n.bundle /\ n1.version = n.version
    BY <2>3 DEF NodeOK
  <2> QED BY <2>2, <2>4, Zenon DEF n1
<1> QED BY <1>1, <1>2, <1>3, Zenon

\* A reconcile queues no machine but its own.
LEMMA QueueTyped ==
  ASSUME AdoptionInv, NEW m \in Machines, ReconcileStep(m) \/ Abort(m)
  PROVE  queue' \subseteq Machines
<1>1. queue \subseteq Machines
  BY DEF AdoptionInv, TypeOK
<1>2. Stop(m) => queue' \subseteq Machines
  BY <1>1 DEF Stop
<1>3. UNCHANGED queue => queue' \subseteq Machines
  BY <1>1
<1>4. CASE Start(m) \/ EnsureLinked(m) \/ Abort(m)
  BY <1>1, <1>2, <1>4 DEF Start, EnsureLinked, Abort
<1>5. CASE ProbeMaintenance(m) \/ ProbeBundle(m)
  BY <1>2, <1>3, <1>5 DEF ProbeMaintenance, ProbeBundle, Goto, Choose
<1>6. CASE ProbeReferenced(m)
  BY <1>2, <1>3, <1>6 DEF ProbeReferenced, Choose, recordPreflightFailure
<1>7. CASE AwaitControlPlane(m) \/ NudgeKubelet(m) \/ MarkAdopted(m)
  BY <1>2, <1>3, <1>7 DEF AwaitControlPlane, NudgeKubelet, MarkAdopted, Goto
<1>8. CASE ApplyConfig(m)
  BY <1>2, <1>3, <1>8 DEF ApplyConfig, Goto, recordApplyFailure
<1> QED BY <1>4, <1>5, <1>6, <1>7, <1>8 DEF ReconcileStep

\* Every action of a reconcile writes one machine's objects, with one of the effects above.
LEMMA ReconcileMoves ==
  ASSUME AdoptionInv, NEW m \in Machines, ReconcileStep(m) \/ Abort(m)
  PROVE  \E w1 \in Work, o1 \in Object : \E n1 :
           NodeOK(n1) /\ Moves(m, w1, o1, n1) /\ Effect(m, w1, o1, n1)
<1> DEFINE Good == \E w1 \in Work, o1 \in Object : \E n1 :
                     NodeOK(n1) /\ Moves(m, w1, o1, n1) /\ Effect(m, w1, o1, n1)
<1> SUFFICES Good
  OBVIOUS
<1>a. /\ Idle \in Work /\ Idle.pc = "idle"
      /\ w[m] \in Work /\ obj[m] \in Object /\ NodeOK(node[m])
      /\ [obj EXCEPT ![m] = obj[m]] = obj /\ [node EXCEPT ![m] = node[m]] = node
  BY Writes
<1>b. \A kind : Fault(kind) => faults' \in 0..MaxFaults /\ kind \in Faults
  BY FaultCounts
<1>c. UNCHANGED faults => faults' \in 0..MaxFaults
  BY FaultCounts
<1>d. ASSUME NEW w1 \in Work, NEW o1 \in Object, NEW n1, NodeOK(n1), Moves(m, w1, o1, n1),
             Effect(m, w1, o1, n1)
      PROVE  Good
  BY <1>d
<1>e. \A b, kind : /\ Succeeds(m, b) => faults' \in 0..MaxFaults /\ Answers(m, b)
                   /\ Fails(m, b, kind) => /\ faults' \in 0..MaxFaults
                                           /\ ~Answers(m, b) \/ kind \in Faults
  BY <1>b, <1>c DEF Succeeds, Fails
<1>q. queue' \subseteq Machines
  BY QueueTyped
<1> HIDE DEF Good
\* The reconcile ends without a word, or moves on without writing.
<1>f. ASSUME NEW w1 \in Work, w' = [w EXCEPT ![m] = w1], Unrecorded, faults' \in 0..MaxFaults,
             Effect(m, w1, obj[m], node[m])
      PROVE  Good
  BY <1>a, <1>d, <1>f, <1>q DEF Unrecorded, Moves
<1>g. ASSUME Stop(m), Unrecorded, faults' \in 0..MaxFaults
      PROVE  Good
  BY <1>a, <1>f, <1>g DEF Stop, Effect, Halts
<1>h. ASSUME NEW pc \in Steps
      PROVE  LET w1 == [w[m] EXCEPT !.pc = pc] IN
             /\ w1 \in Work /\ w1.pc = pc /\ w1.data = w[m].data /\ w1.auth = w[m].auth
             /\ w1.preflight = w[m].preflight
             /\ Goto(m, pc) => w' = [w EXCEPT ![m] = w1]
  BY <1>a DEF Work, Goto
<1>j. ASSUME NEW adopted \in {"", "True", "ApplyFailed", "WaitingForControlPlane"}
      PROVE  /\ Record(m, adopted) \in Object
             /\ Record(m, adopted).ready = obj[m].ready /\ Record(m, adopted).sha = obj[m].sha
             /\ Record(m, adopted).preflight = w[m].preflight
  BY <1>a DEF Record, Object, Work
<1>1. CASE Start(m)
  <2> DEFINE w1 == [Idle EXCEPT !.data = data[m], !.preflight = obj[m].preflight,
                      !.pc = IF configUnchanged(m) THEN "link"
                             ELSE IF obj[m].ready THEN "apply" ELSE "maintenance",
                      !.auth = IF obj[m].ready THEN "own" ELSE "none",
                      !.match = obj[m].ready]
  <2>1. /\ data[m] \in Versions /\ obj[m].ready \in BOOLEAN /\ w[m].pc = "idle"
        /\ w' = [w EXCEPT ![m] = w1] /\ Unrecorded /\ UNCHANGED faults
    BY <1>1, <1>a DEF AdoptionInv, TypeOK, Start, Object
  <2>2. /\ w1 \in Work /\ w1.data = data[m] /\ w1.preflight = obj[m].preflight
        /\ IF obj[m].ready THEN w1.pc \in {"apply", "link"} ELSE w1.pc = "maintenance"
        /\ w1.auth = (IF obj[m].ready THEN "own" ELSE "none")
    BY <1>a, <2>1 DEF Idle, Work, Steps, Bundles, Passed, Object, configUnchanged
  <2> HIDE DEF w1
  <2>3. Starts(m, w1, obj[m], node[m])
    BY <2>1, <2>2 DEF Starts
  <2> QED BY <1>c, <1>f, <2>1, <2>2, <2>3 DEF Effect
<1>2. CASE ProbeMaintenance(m)
  <2>1. w[m].pc = "maintenance" /\ Unrecorded
    BY <1>2 DEF ProbeMaintenance
  <2>2. CASE Succeeds(m, "none") /\ Choose(m, "none", FALSE, "MaintenanceMode")
    <3> DEFINE w1 == [w[m] EXCEPT !.pc = "gate", !.auth = "none", !.match = FALSE,
                                 !.preflight = "MaintenanceMode"]
    <3>1. /\ w1 \in Work /\ w1.pc = "gate" /\ w1.data = w[m].data /\ w1.auth = "none"
          /\ w1.preflight = "MaintenanceMode" /\ w' = [w EXCEPT ![m] = w1]
      <4>1. /\ w1 \in Work /\ w1.pc = "gate" /\ w1.data = w[m].data /\ w1.auth = "none"
            /\ w1.preflight = "MaintenanceMode"
        BY <1>a DEF Work, Steps, Bundles, Passed
      <4>2. w' = [w EXCEPT ![m] = w1]
        BY <2>2 DEF Choose
      <4> QED BY <4>1, <4>2
    <3> HIDE DEF w1
    <3>2. Passes(m, w1, obj[m], node[m])
      BY <2>1, <3>1 DEF Passes, Passed
    <3> QED BY <1>e, <1>f, <2>1, <2>2, <3>1, <3>2 DEF Effect
  <2>3. CASE Fails(m, "none", "ProbeFails") /\ Goto(m, "bundle")
    BY <1>e, <1>f, <1>h, <2>1, <2>3 DEF Effect, Probes, Steps
  <2> QED BY <1>2, <2>2, <2>3 DEF ProbeMaintenance
<1>3. CASE ProbeBundle(m)
  <2>1. w[m].pc = "bundle" /\ Unrecorded
    BY <1>3 DEF ProbeBundle
  <2>2. CASE Stop(m) /\ UNCHANGED faults
    BY <1>c, <1>g, <2>1, <2>2
  <2>3. CASE Succeeds(m, "own") /\ Choose(m, "own", TRUE, "BundleMatch")
    <3> DEFINE w1 == [w[m] EXCEPT !.pc = "gate", !.auth = "own", !.match = TRUE, !.preflight = "BundleMatch"]
    <3>1. /\ w1 \in Work /\ w1.pc = "gate" /\ w1.data = w[m].data /\ w1.auth = "own"
          /\ w1.preflight = "BundleMatch" /\ w' = [w EXCEPT ![m] = w1]
      <4>1. /\ w1 \in Work /\ w1.pc = "gate" /\ w1.data = w[m].data /\ w1.auth = "own"
            /\ w1.preflight = "BundleMatch"
        BY <1>a DEF Work, Steps, Bundles, Passed
      <4>2. w' = [w EXCEPT ![m] = w1]
        BY <2>3 DEF Choose
      <4> QED BY <4>1, <4>2
    <3> HIDE DEF w1
    <3>2. Passes(m, w1, obj[m], node[m])
      BY <2>1, <3>1 DEF Passes, Passed
    <3> QED BY <1>e, <1>f, <2>1, <2>3, <3>1, <3>2 DEF Effect
  <2>4. CASE Fails(m, "own", "ProbeFails") /\ Goto(m, "foreign")
    BY <1>e, <1>f, <1>h, <2>1, <2>4 DEF Effect, Probes, Steps
  <2> QED BY <1>3, <2>2, <2>3, <2>4 DEF ProbeBundle
<1>4. CASE ProbeReferenced(m)
  <2>1. w[m].pc = "foreign" /\ UNCHANGED <<data, secrets, cpReady, node>>
    BY <1>4 DEF ProbeReferenced
  <2>2. ASSUME NEW reason \in {"NoCredentials", "BundleMismatch"}, recordPreflightFailure(m, reason),
               faults' \in 0..MaxFaults
        PROVE  Good
    <3> DEFINE o1 == [obj[m] EXCEPT !.preflight = reason]
    <3>1. o1 \in Object /\ o1.ready = obj[m].ready /\ o1.sha = obj[m].sha
      BY <1>a, <2>2 DEF Object
    <3>2. obj' = [obj EXCEPT ![m] = o1] /\ w' = [w EXCEPT ![m] = Idle]
      BY <2>2 DEF recordPreflightFailure, Stop
    <3> HIDE DEF o1
    <3>3. Moves(m, Idle, o1, node[m])
      BY <1>a, <2>1, <2>2, <3>2, <1>q DEF Moves
    <3>4. Halts(m, Idle, o1, node[m])
      BY <1>a, <2>1, <3>1 DEF Halts
    <3> QED BY <1>a, <1>d, <3>1, <3>3, <3>4 DEF Effect
  <2>3. CASE Stop(m) /\ UNCHANGED <<obj, faults>>
    BY <1>c, <1>g, <2>1, <2>3 DEF Unrecorded
  <2>4. CASE /\ Credentials[m] # "none" /\ Fails(m, Credentials[m], "ReferencedProbeFails")
             /\ Choose(m, Credentials[m], FALSE, w[m].preflight) /\ UNCHANGED obj
    <3>1. Credentials[m] \in Bundles /\ w[m].preflight \in Passed \cup {"", "NoCredentials", "BundleMismatch"}
      BY <1>a, CredentialsAssumption DEF Work
    <3>2. faults' \in 0..MaxFaults /\ (~Answers(m, Credentials[m]) \/ "ReferencedProbeFails" \in Faults)
      BY <1>e, <2>4
    <3> DEFINE w1 == [w[m] EXCEPT !.pc = "gate", !.auth = Credentials[m], !.match = FALSE,
                                 !.preflight = w[m].preflight]
    <3>3. /\ w1 \in Work /\ w1.pc = "gate" /\ w1.data = w[m].data /\ w1.auth = Credentials[m]
          /\ w1.preflight = w[m].preflight /\ w' = [w EXCEPT ![m] = w1]
      <4>1. /\ w1 \in Work /\ w1.pc = "gate" /\ w1.data = w[m].data /\ w1.auth = Credentials[m]
            /\ w1.preflight = w[m].preflight
        BY <1>a, <3>1 DEF Work, Steps, Bundles, Passed
      <4>2. w' = [w EXCEPT ![m] = w1]
        BY <2>4 DEF Choose
      <4> QED BY <4>1, <4>2
    <3> HIDE DEF w1
    <3>4. Tries(m, w1, obj[m], node[m])
      BY <2>1, <2>4, <3>2, <3>3 DEF Tries
    <3> QED BY <1>f, <2>1, <2>4, <3>2, <3>3, <3>4 DEF Effect, Unrecorded
  <2>5. \/ UNCHANGED faults /\ recordPreflightFailure(m, "NoCredentials")
        \/ Stop(m) /\ UNCHANGED <<obj, faults>>
        \/ Succeeds(m, Credentials[m]) /\ recordPreflightFailure(m, "BundleMismatch")
        \/ /\ Credentials[m] # "none" /\ Fails(m, Credentials[m], "ReferencedProbeFails")
           /\ Choose(m, Credentials[m], FALSE, w[m].preflight) /\ UNCHANGED obj
    BY <1>4 DEF ProbeReferenced
  <2> QED BY <1>c, <1>e, <2>2, <2>3, <2>4, <2>5
<1>5. CASE AwaitControlPlane(m)
  <2>1. w[m].pc = "gate" /\ UNCHANGED <<data, secrets, cpReady, node, faults>>
    BY <1>5 DEF AwaitControlPlane
  <2>2. CASE ControlPlaneGate(m) /\ Goto(m, "apply") /\ UNCHANGED obj
    BY <1>c, <1>f, <1>h, <2>1, <2>2 DEF Effect, Proceeds, Steps, Unrecorded
  <2>3. CASE obj' = [obj EXCEPT ![m] = Record(m, "WaitingForControlPlane")] /\ Stop(m)
    <3>1. Moves(m, Idle, Record(m, "WaitingForControlPlane"), node[m])
      BY <1>a, <1>c, <2>1, <2>3, <1>q DEF Moves, Stop
    <3>2. Halts(m, Idle, Record(m, "WaitingForControlPlane"), node[m])
      BY <1>a, <1>j, <2>1 DEF Halts
    <3> QED BY <1>a, <1>d, <1>j, <3>1, <3>2 DEF Effect
  <2> QED BY <1>5, <2>2, <2>3 DEF AwaitControlPlane
<1>6. CASE ApplyConfig(m)
  <2>1. w[m].pc = "apply" /\ w[m].data \in Versions /\ UNCHANGED <<data, secrets, cpReady>>
    BY <1>6 DEF ApplyConfig, AdoptionInv, MachineInv, HasData
  <2>2. CASE recordApplyFailure(m) /\ UNCHANGED node /\ faults' \in 0..MaxFaults
    <3>1. Moves(m, Idle, Record(m, "ApplyFailed"), node[m])
      BY <1>a, <2>1, <2>2, <1>q DEF Moves, Stop, recordApplyFailure
    <3>2. Halts(m, Idle, Record(m, "ApplyFailed"), node[m])
      BY <1>a, <1>j, <2>1 DEF Halts
    <3> QED BY <1>a, <1>d, <1>j, <3>1, <3>2 DEF Effect
  <2>3. ASSUME Answers(m, w[m].auth), NEW disk, NEW up \in {FALSE, w[m].auth = "own"},
               node' = [node EXCEPT ![m] = Configured(m, disk, up)],
               \/ Goto(m, "nudge") /\ UNCHANGED <<obj, faults>>
               \/ recordApplyFailure(m) /\ Fault("ApplyLost")
        PROVE  Good
    <3> DEFINE n1 == Configured(m, disk, up)
    <3>1. NodeOK(n1) /\ n1.bundle = "own" /\ n1.version = w[m].data
      <4>1. NodeShape(node[m]) /\ node[m].registered \in BOOLEAN
        BY <1>a DEF NodeOK
      <4> DEFINE docs == Sent[m][w[m].data][disk]
      <4>2. n1 = [node[m] EXCEPT !.up = up, !.bundle = "own", !.version = w[m].data,
                                !.disk = disk, !.docs = docs]
        BY DEF Configured
      <4> HIDE DEF n1, docs
      <4>3. n1 = [up |-> up, bundle |-> "own", version |-> w[m].data, docs |-> docs,
                  disk |-> disk, registered |-> node[m].registered]
        BY <4>1, <4>2 DEF NodeShape
      <4> QED BY <2>1, <4>1, <4>3 DEF NodeOK, NodeShape, Bundles
    <3>2. node' = [node EXCEPT ![m] = n1]
      BY <2>3
    <3> HIDE DEF n1
    <3>3. CASE Goto(m, "nudge") /\ UNCHANGED <<obj, faults>>
      <4> DEFINE w1 == [w[m] EXCEPT !.pc = "nudge"]
      <4>1. /\ w1 \in Work /\ w1.pc = "nudge" /\ w1.data = w[m].data /\ w1.preflight = w[m].preflight
            /\ w' = [w EXCEPT ![m] = w1]
        BY <1>h, <3>3 DEF Steps
      <4> HIDE DEF w1
      <4>2. Moves(m, w1, obj[m], n1)
        BY <1>a, <1>c, <2>1, <3>2, <3>3, <4>1, <1>q DEF Moves
      <4>3. Applies(m, w1, obj[m], n1)
        BY <2>1, <2>3, <3>1, <4>1 DEF Applies
      <4> QED BY <1>a, <1>d, <3>1, <4>1, <4>2, <4>3 DEF Effect
    <3>4. CASE recordApplyFailure(m) /\ Fault("ApplyLost")
      <4>1. Moves(m, Idle, Record(m, "ApplyFailed"), n1)
        BY <1>b, <2>1, <3>2, <3>4, <1>q DEF Moves, Stop, recordApplyFailure
      <4>2. Applies(m, Idle, Record(m, "ApplyFailed"), n1)
        BY <1>a, <1>j, <2>1, <2>3, <3>1 DEF Applies
      <4> QED BY <1>a, <1>d, <1>j, <3>1, <4>1, <4>2 DEF Effect
    <3> QED BY <2>3, <3>3, <3>4
  <2>4. \/ /\ Answers(m, w[m].auth)
           /\ \E disk \in InstallDisks(m), up \in {FALSE, w[m].auth = "own"} :
                node' = [node EXCEPT ![m] = Configured(m, disk, up)]
           /\ \/ Goto(m, "nudge") /\ UNCHANGED <<obj, faults>>
              \/ recordApplyFailure(m) /\ Fault("ApplyLost")
        \/ /\ recordApplyFailure(m) /\ UNCHANGED node
           /\ Fails(m, w[m].auth, "ApplyFails") \/ UNCHANGED faults
    BY <1>6 DEF ApplyConfig
  <2> QED BY <1>c, <1>e, <2>2, <2>3, <2>4
<1>7. CASE NudgeKubelet(m)
  <2>1. w[m].pc = "nudge" /\ Goto(m, "mark") /\ UNCHANGED <<data, secrets, cpReady, obj>>
    BY <1>7 DEF NudgeKubelet
  <2>2. PICK w1 \in Work : /\ w1.pc = "mark" /\ w1.data = w[m].data /\ w1.preflight = w[m].preflight
                           /\ w' = [w EXCEPT ![m] = w1]
    BY <1>h, <2>1 DEF Steps
  <2>3. CASE UNCHANGED node /\ faults' \in 0..MaxFaults
    <3>1. Nudges(m, w1, obj[m], node[m])
      BY <2>1, <2>2 DEF Nudges
    <3> QED BY <1>f, <2>1, <2>2, <2>3, <3>1 DEF Effect, Unrecorded
  <2>4. CASE node' = [node EXCEPT ![m].registered = TRUE] /\ faults' \in 0..MaxFaults
    <3> DEFINE n1 == [node[m] EXCEPT !.registered = TRUE]
    <3>1. /\ NodeOK(n1) /\ n1.up = node[m].up /\ n1.bundle = node[m].bundle
          /\ n1.version = node[m].version
      BY <1>a, NodeFlags, Zenon
    <3>2. node' = [node EXCEPT ![m] = n1]
      BY <2>4
    <3> HIDE DEF n1
    <3>3. Moves(m, w1, obj[m], n1) /\ Nudges(m, w1, obj[m], n1)
      BY <1>a, <2>1, <2>2, <2>4, <3>1, <3>2, <1>q DEF Moves, Nudges
    <3> QED BY <1>a, <1>d, <3>1, <3>3 DEF Effect
  <2>5. \/ Succeeds(m, "own") /\ node' = [node EXCEPT ![m].registered = TRUE]
        \/ Fails(m, "own", "NudgeFails") /\ UNCHANGED node
        \/ UNCHANGED <<node, faults>>
    BY <1>7 DEF NudgeKubelet
  <2> QED BY <1>c, <1>e, <2>3, <2>4, <2>5
<1>8. CASE MarkAdopted(m)
  <2>1. w[m].pc = "mark" /\ UNCHANGED <<data, secrets, cpReady, node>>
    BY <1>8 DEF MarkAdopted
  <2>2. PICK lost \in SUBSET PatchLosses :
          /\ obj' = [obj EXCEPT ![m] = Adopted(m, lost)]
          /\ \/ lost = {} /\ Goto(m, "link") /\ UNCHANGED faults
             \/ lost # {} /\ Stop(m) /\ \A kind \in lost : Fault(kind)
    BY <1>8 DEF MarkAdopted
  <2> DEFINE o1 == Adopted(m, lost)
  <2>3. /\ o1 \in Object
        /\ o1.ready = (IF "StatusLost" \in lost THEN obj[m].ready ELSE TRUE)
        /\ o1.sha = (IF "StatusLost" \in lost THEN obj[m].sha ELSE w[m].data)
        /\ o1.preflight = (IF "ConditionsLost" \in lost THEN obj[m].preflight ELSE w[m].preflight)
    BY <1>a DEF Adopted, Object, Work
  <2>4. obj' = [obj EXCEPT ![m] = o1]
    BY <2>2
  <2>5. faults' \in 0..MaxFaults /\ \A kind \in lost : kind \in Faults
    BY <1>b, <1>c, <2>2
  <2> HIDE DEF o1
  <2>6. CASE Goto(m, "link")
    <3> DEFINE w1 == [w[m] EXCEPT !.pc = "link"]
    <3>1. /\ w1 \in Work /\ w1.pc = "link" /\ w1.data = w[m].data /\ w1.preflight = w[m].preflight
          /\ w' = [w EXCEPT ![m] = w1]
      BY <1>h, <2>6 DEF Steps
    <3> HIDE DEF w1
    <3>2. Moves(m, w1, o1, node[m])
      BY <1>a, <1>q, <2>1, <2>4, <2>5, <3>1 DEF Moves
    <3>3. Marks(m, w1, o1, node[m])
      BY <2>1, <2>3, <2>5, <3>1 DEF Marks
    <3> QED BY <1>a, <1>d, <2>3, <3>1, <3>2, <3>3 DEF Effect
  <2>7. CASE Stop(m)
    <3>1. Moves(m, Idle, o1, node[m])
      BY <1>a, <1>q, <2>1, <2>4, <2>5, <2>7 DEF Moves, Stop
    <3>2. Marks(m, Idle, o1, node[m])
      BY <1>a, <2>1, <2>3, <2>5 DEF Marks
    <3> QED BY <1>a, <1>d, <2>3, <3>1, <3>2 DEF Effect
  <2> QED BY <2>2, <2>6, <2>7
<1>9. CASE Abort(m)
  BY <1>9, <1>b, <1>g DEF Abort
<1>10. CASE EnsureLinked(m)
  <2>1. w' = [w EXCEPT ![m] = Idle] /\ Unrecorded /\ UNCHANGED faults
    BY <1>10 DEF EnsureLinked
  <2> QED BY <1>a, <1>c, <1>f, <2>1 DEF Effect, Halts
<1> QED BY <1>1, <1>2, <1>3, <1>4, <1>5, <1>6, <1>7, <1>8, <1>9, <1>10 DEF ReconcileStep

-----------------------------------------------------------------------------
(* Every step is one of four: of a reconcile, of the bootstrap provider, a *)
(* boot, or one that leaves the machines and their nodes alone.            *)

Reconciles ==
  \E m \in Machines : \E w1 \in Work, o1 \in Object : \E n1 :
    NodeOK(n1) /\ Moves(m, w1, o1, n1) /\ Effect(m, w1, o1, n1)

Publishes ==
  /\ \E m \in Machines, v \in Versions :
       data' = [data EXCEPT ![m] = v] /\ (v = data[m] + 1 \/ "DataReverts" \in Faults)
  /\ UNCHANGED <<secrets, cpReady, obj, node, queue, w>> /\ faults' \in 0..MaxFaults

Boots ==
  /\ \E m \in Machines : \E n1 :
       /\ NodeOK(n1) /\ node' = [node EXCEPT ![m] = n1]
       /\ n1.up /\ n1.bundle = node[m].bundle /\ n1.version = node[m].version
  /\ UNCHANGED <<data, secrets, cpReady, obj, queue, w, faults>>

Rests ==
  /\ UNCHANGED <<data, obj, node, w>> /\ secrets' \subseteq {"cluster", "referenced"}
  /\ cpReady' \in BOOLEAN /\ queue' \subseteq Machines /\ faults' \in 0..MaxFaults
  /\ cpReady' => cpReady \/ ControlPlaneUp

\* Every step is one of a reconcile, one that publishes data or secrets, a boot, or none of these.
LEMMA StepKinds ==
  ASSUME AdoptionInv, [Next]_vars
  PROVE  Reconciles \/ Publishes \/ Boots \/ Rests
<1>a. /\ secrets \subseteq {"cluster", "referenced"} /\ cpReady \in BOOLEAN /\ faults \in 0..MaxFaults
      /\ queue \subseteq Machines
  BY DEF AdoptionInv, TypeOK
<1>1. ASSUME NEW m \in Machines, ReconcileStep(m) \/ Abort(m)
      PROVE  Reconciles
  BY <1>1, ReconcileMoves DEF Reconciles
<1>2. ASSUME NEW m \in Machines, PublishData(m)
      PROVE  Publishes
  <2>1. PICK v \in Versions \ {data[m]} :
          /\ IF v = data[m] + 1 THEN UNCHANGED faults ELSE v < data[m] /\ Fault("DataReverts")
          /\ data' = [data EXCEPT ![m] = v]
    BY <1>2 DEF PublishData
  <2>2. UNCHANGED <<secrets, cpReady, obj, node, queue, w>>
    BY <1>2 DEF PublishData
  <2>3. faults' \in 0..MaxFaults /\ (v = data[m] + 1 \/ "DataReverts" \in Faults)
    BY <2>1, FaultCounts
  <2> QED BY <2>1, <2>2, <2>3 DEF Publishes
<1>3. ASSUME NEW m \in Machines, Boot(m)
      PROVE  Boots
  <2> DEFINE t == node[m].registered \/ node[m].bundle = "own"
             n1 == [node[m] EXCEPT !.up = TRUE, !.registered = t]
  <2>1. node' = [node EXCEPT ![m] = n1] /\ UNCHANGED <<data, secrets, cpReady, obj, queue, w, faults>>
    BY <1>3 DEF Boot
  <2>2. NodeOK(node[m])
    BY Writes
  <2>3. NodeOK(n1) /\ n1.up /\ n1.bundle = node[m].bundle /\ n1.version = node[m].version
    <3>1. t \in BOOLEAN
      OBVIOUS
    <3> HIDE DEF t
    <3> QED BY <2>2, <3>1, NodeFlags, Zenon
  <2> HIDE DEF n1, t
  <2> QED BY <2>1, <2>3 DEF Boots
<1>4. ASSUME ReportControlPlane
      PROVE  Rests
  <2>1. /\ UNCHANGED <<data, secrets, obj, node, queue, w>> /\ cpReady' \in BOOLEAN
        /\ cpReady' => cpReady \/ ControlPlaneUp
    BY <1>4 DEF ReportControlPlane
  <2>2. faults' \in 0..MaxFaults
    BY <1>4, FaultCounts DEF ReportControlPlane
  <2> QED BY <1>a, <2>1, <2>2 DEF Rests
<1>5. ASSUME NEW s \in {"cluster", "referenced"}, PublishSecret(s)
      PROVE  Rests
  BY <1>5, <1>a DEF PublishSecret, Rests
<1>6. ASSUME NEW m \in Machines, Wake(m)
      PROVE  Rests
  BY <1>6, <1>a DEF Wake, Rests
<1>7. CASE UNCHANGED vars
  BY <1>7, <1>a DEF vars, Rests
<1> QED BY <1>1, <1>2, <1>3, <1>4, <1>5, <1>6, <1>7 DEF Next

-----------------------------------------------------------------------------
(* The invariant is inductive.                                             *)

\* The invariant holds before the first reconcile.
LEMMA InitAdoption ==
  ASSUME Init
  PROVE  AdoptionInv
<1>1. PICK b \in [Machines -> Bundles] : node = [m \in Machines |-> NewNode(b[m])]
  BY DEF Init
<1>2. /\ data = [m \in Machines |-> 0] /\ secrets = {} /\ cpReady = FALSE /\ faults = 0
      /\ obj = [m \in Machines |-> [ready |-> FALSE, providerID |-> FALSE, sha |-> 0,
                                    preflight |-> "", adopted |-> ""]]
      /\ w = [m \in Machines |-> Idle] /\ queue = Machines
  BY DEF Init
<1>3. Idle \in Work /\ Idle.pc = "idle"
  BY DEF Idle, Work, Steps, Bundles, Passed
<1>4. [ready |-> FALSE, providerID |-> FALSE, sha |-> 0, preflight |-> "", adopted |-> ""] \in Object
  BY DEF Object
<1>5. ASSUME NEW m \in Machines
      PROVE  /\ NodeShape(node[m]) /\ {node[m].up, node[m].registered} \subseteq BOOLEAN
             /\ node[m].bundle \in Bundles /\ node[m].version = 0
  <2>1. node[m] = NewNode(b[m]) /\ b[m] \in Bundles
    BY <1>1
  <2> QED BY <2>1 DEF NewNode, NodeShape
<1>6. TypeOK
  <2>1. /\ data \in [Machines -> Versions \cup {0}] /\ w \in [Machines -> Work]
        /\ obj \in [Machines -> Object] /\ DOMAIN node = Machines
    BY <1>1, <1>2, <1>3, <1>4
  <2>2. secrets \subseteq {"cluster", "referenced"} /\ cpReady \in BOOLEAN /\ queue \subseteq Machines
    BY <1>2, Zenon
  <2>3. faults = 0 /\ MaxFaults \in Nat
    BY <1>2, FaultsAssumption, Zenon
  <2>4. faults \in 0..MaxFaults
    BY <2>3
  <2> QED BY <1>5, <2>1, <2>2, <2>4 DEF TypeOK
<1>7. Shapes
  BY <1>1, <1>5 DEF Shapes
<1>8. \A m \in Machines : MachineInv(m)
  <2> TAKE m \in Machines
  <2>1. w[m].pc = "idle" /\ ~obj[m].ready
    BY <1>2, <1>3
  <2> QED BY <2>1 DEF MachineInv, HasData, ProbesUnadopted, ProbingSteps, AppliedIsOn, AppliedSteps,
             ReadyIsOwn
<1> QED BY <1>6, <1>7, <1>8 DEF AdoptionInv

\* Every step preserves it.
LEMMA NextAdoption ==
  ASSUME AdoptionInv, [Next]_vars
  PROVE  AdoptionInv'
<1>a. TypeOK /\ Shapes /\ \A m \in Machines : MachineInv(m)
  BY DEF AdoptionInv
<1>1. CASE Reconciles
  <2>1. PICK m \in Machines, w1 \in Work, o1 \in Object : \E n1 :
          NodeOK(n1) /\ Moves(m, w1, o1, n1) /\ Effect(m, w1, o1, n1)
    BY <1>1 DEF Reconciles
  <2>2. PICK n1 : NodeOK(n1) /\ Moves(m, w1, o1, n1) /\ Effect(m, w1, o1, n1)
    BY <2>1
  <2>3. /\ w'[m] = w1 /\ obj'[m] = o1 /\ node'[m] = n1
        /\ \A k \in Machines \ {m} : w'[k] = w[k] /\ obj'[k] = obj[k] /\ node'[k] = node[k]
    BY <1>a, <2>2 DEF Moves, TypeOK, Shapes
  <2>4. TypeOK'
    <3>1. /\ data' = data /\ secrets' = secrets /\ cpReady' = cpReady /\ faults' \in 0..MaxFaults
          /\ queue' \subseteq Machines
      BY <2>2 DEF Moves
    <3>2. obj' \in [Machines -> Object] /\ w' \in [Machines -> Work] /\ DOMAIN node' = Machines
      BY <1>a, <2>2 DEF Moves, TypeOK
    <3>3. ASSUME NEW k \in Machines
          PROVE  /\ {node'[k].up, node'[k].registered} \subseteq BOOLEAN
                 /\ node'[k].bundle \in Bundles /\ node'[k].version \in Versions \cup {0}
      BY <1>a, <2>2, <2>3 DEF TypeOK, NodeOK
    <3> QED BY <1>a, <3>1, <3>2, <3>3 DEF TypeOK
  <2>5. Shapes'
    <3>1. node' = [k \in Machines |-> node'[k]]
      BY <1>a, <2>2 DEF Moves, Shapes
    <3>2. ASSUME NEW k \in Machines
          PROVE  NodeShape(node'[k])
      <4>1. CASE k = m
        BY <2>2, <2>3, <4>1 DEF NodeOK
      <4>2. CASE k # m
        BY <1>a, <2>3, <4>2 DEF Shapes
      <4> QED BY <4>1, <4>2
    <3> QED BY <3>1, <3>2 DEF Shapes
  <2>6. ASSUME NEW k \in Machines \ {m}
        PROVE  MachineInv(k)'
    BY <1>a, <2>3 DEF MachineInv, HasData, ProbesUnadopted, AppliedIsOn, ReadyIsOwn
  <2>7. MachineInv(m)'
    <3>1. w[m].pc # "idle" => w[m].data \in Versions /\ w[m].data # 0
      BY <1>a, VersionsAssumption DEF MachineInv, HasData
    <3>2. w[m].pc \in ProbingSteps => ~obj[m].ready
      BY <1>a DEF MachineInv, ProbesUnadopted
    <3>3. w[m].pc \in AppliedSteps => node[m].bundle = "own" /\ node[m].version = w[m].data
      BY <1>a DEF MachineInv, AppliedIsOn
    <3>4. obj[m].ready => node[m].bundle = "own" /\ node[m].version # 0
      BY <1>a DEF MachineInv, ReadyIsOwn
    <3>5. /\ w1.pc # "idle" => w1.data \in Versions
          /\ w1.pc \in ProbingSteps => ~o1.ready
          /\ w1.pc \in AppliedSteps => n1.bundle = "own" /\ n1.version = w1.data
          /\ o1.ready => n1.bundle = "own" /\ n1.version # 0
      BY <2>2, <3>1, <3>2, <3>3, <3>4
      DEF Effect, Halts, Starts, Probes, Passes, Tries, Proceeds, Applies, Nudges, Marks,
          ProbingSteps, AppliedSteps
    <3> QED BY <2>3, <3>5 DEF MachineInv, HasData, ProbesUnadopted, AppliedIsOn, ReadyIsOwn
  <2> QED BY <2>4, <2>5, <2>6, <2>7 DEF AdoptionInv
<1>2. CASE Publishes
  <2>1. data' \in [Machines -> Versions \cup {0}]
    BY <1>2, <1>a DEF Publishes, TypeOK
  <2>2. TypeOK' /\ Shapes'
    BY <1>2, <1>a, <2>1 DEF Publishes, TypeOK, Shapes
  <2>3. \A m \in Machines : MachineInv(m)'
    BY <1>2, <1>a DEF Publishes, MachineInv, HasData, ProbesUnadopted, AppliedIsOn, ReadyIsOwn
  <2> QED BY <2>2, <2>3 DEF AdoptionInv
<1>3. CASE Boots
  <2>1. PICK m \in Machines : \E n1 :
          /\ NodeOK(n1) /\ node' = [node EXCEPT ![m] = n1]
          /\ n1.bundle = node[m].bundle /\ n1.version = node[m].version
    BY <1>3 DEF Boots
  <2>2. PICK n1 : /\ NodeOK(n1) /\ node' = [node EXCEPT ![m] = n1]
                  /\ n1.bundle = node[m].bundle /\ n1.version = node[m].version
    BY <2>1
  <2>3. UNCHANGED <<data, secrets, cpReady, obj, queue, w, faults>>
    BY <1>3 DEF Boots
  <2>4. /\ node'[m] = n1 /\ \A k \in Machines \ {m} : node'[k] = node[k]
        /\ DOMAIN node' = Machines /\ node' = [k \in Machines |-> node'[k]]
    BY <1>a, <2>2 DEF Shapes
  <2>5. ASSUME NEW k \in Machines
        PROVE  NodeOK(node'[k]) /\ node'[k].bundle = node[k].bundle /\ node'[k].version = node[k].version
    <3>1. CASE k = m
      BY <2>2, <2>4, <3>1
    <3>2. CASE k # m
      BY <2>4, <3>2, Writes
    <3> QED BY <3>1, <3>2
  <2>6. TypeOK'
    BY <1>a, <2>3, <2>4, <2>5 DEF TypeOK, NodeOK
  <2>7. Shapes'
    BY <2>4, <2>5 DEF Shapes, NodeOK
  <2>8. \A k \in Machines : MachineInv(k)'
    BY <1>a, <2>3, <2>5 DEF MachineInv, HasData, ProbesUnadopted, AppliedIsOn, ReadyIsOwn
  <2> QED BY <2>6, <2>7, <2>8 DEF AdoptionInv
<1>4. CASE Rests
  BY <1>4, <1>a
  DEF Rests, AdoptionInv, TypeOK, Shapes, MachineInv, HasData, ProbesUnadopted, AppliedIsOn, ReadyIsOwn
<1> QED BY <1>1, <1>2, <1>3, <1>4, StepKinds

\* The code's invariant on every machine: a reconcile that is under way has data,
\* probes only a machine that is not adopted, marks only what it has applied, and
\* an adopted machine's node carries a configuration; and every variable keeps its
\* type (adoptionInputs, applyAndMarkAdopted).
THEOREM AdoptionInvariance == Spec => []AdoptionInv
<1>1. Init => AdoptionInv
  BY InitAdoption
<1>2. AdoptionInv /\ [Next]_vars => AdoptionInv'
  BY NextAdoption
<1> QED BY <1>1, <1>2, PTL DEF Spec

\* Every variable of the adoption keeps its type.
THEOREM AdoptionTyped == Spec => []TypeOK
<1>1. AdoptionInv => TypeOK
  BY DEF AdoptionInv
<1> QED BY <1>1, AdoptionInvariance, PTL

-----------------------------------------------------------------------------
(* The control plane first: awaitControlPlaneReady.                        *)

\* A control-plane node carries the cluster's bundle.
ControlPlaneOwns == \E c \in ControlPlane : node[c].bundle = "own"

\* The gate's condition is true only of such a cluster, and so is everything a
\* worker does once it is past the gate.
GateInv ==
  /\ cpReady => ControlPlaneOwns
  /\ \A m \in Machines \ ControlPlane :
       node[m].version # 0 \/ w[m].pc \in {"apply", "nudge", "mark"} => ControlPlaneOwns

\* No worker is configured at first.
LEMMA InitGate ==
  ASSUME Init
  PROVE  GateInv
<1>1. PICK b \in [Machines -> Bundles] : node = [m \in Machines |-> NewNode(b[m])]
  BY DEF Init
<1>2. ASSUME NEW m \in Machines
      PROVE  node[m].version = 0 /\ w[m].pc = "idle"
  BY <1>1 DEF NewNode, Init, Idle
<1>3. cpReady = FALSE
  BY DEF Init
<1> QED BY <1>2, <1>3 DEF GateInv

\* No step lets a worker pass the gate before the control plane is ready.
LEMMA NextGate ==
  ASSUME AdoptionInv, GateInv, [Next]_vars
  PROVE  GateInv'
<1>a. TypeOK /\ Shapes /\ \A m \in Machines : MachineInv(m)
  BY DEF AdoptionInv
<1>1. CASE Reconciles
  <2>1. PICK m \in Machines, w1 \in Work, o1 \in Object : \E n1 :
          NodeOK(n1) /\ Moves(m, w1, o1, n1) /\ Effect(m, w1, o1, n1)
    BY <1>1 DEF Reconciles
  <2>2. PICK n1 : NodeOK(n1) /\ Moves(m, w1, o1, n1) /\ Effect(m, w1, o1, n1)
    BY <2>1
  <2>3. /\ w'[m] = w1 /\ node'[m] = n1 /\ cpReady' = cpReady
        /\ \A k \in Machines \ {m} : w'[k] = w[k] /\ node'[k] = node[k]
    BY <1>a, <2>2 DEF Moves, TypeOK, Shapes
  <2>4. node[m].bundle = "own" => n1.bundle = "own"
    BY <2>2 DEF Effect, Halts, Starts, Probes, Passes, Tries, Proceeds, Applies, Nudges, Marks
  <2>5. ControlPlaneOwns => ControlPlaneOwns'
    BY <2>3, <2>4, MachinesAssumption DEF ControlPlaneOwns
  <2>6. obj[m].ready => node[m].version # 0
    BY <1>a DEF MachineInv, ReadyIsOwn
  <2>7. \/ n1.version = node[m].version
        \/ w[m].pc = "apply"
    BY <2>2 DEF Effect, Halts, Starts, Probes, Passes, Tries, Proceeds, Applies, Nudges, Marks
  <2>8. \/ w1.pc \notin {"apply", "nudge", "mark"}
        \/ w[m].pc \in {"apply", "nudge"}
        \/ node[m].version # 0
        \/ m \in ControlPlane \/ cpReady
    BY <2>2, <2>6
    DEF Effect, Halts, Starts, Probes, Passes, Tries, Proceeds, Applies, Nudges, Marks, ControlPlaneGate
  <2>9. ASSUME NEW k \in Machines \ ControlPlane,
               node'[k].version # 0 \/ w'[k].pc \in {"apply", "nudge", "mark"}
        PROVE  ControlPlaneOwns
    <3>1. CASE k = m
      BY <2>3, <2>7, <2>8, <2>9, <3>1 DEF GateInv
    <3>2. CASE k # m
      BY <2>3, <2>9, <3>2 DEF GateInv
    <3> QED BY <3>1, <3>2
  <2>10. cpReady' => ControlPlaneOwns
    BY <2>3 DEF GateInv
  <2> QED BY <2>5, <2>9, <2>10 DEF GateInv
<1>2. CASE Publishes
  BY <1>2 DEF Publishes, GateInv, ControlPlaneOwns
<1>3. CASE Boots
  <2>1. PICK m \in Machines : \E n1 :
          /\ node' = [node EXCEPT ![m] = n1]
          /\ n1.bundle = node[m].bundle /\ n1.version = node[m].version
    BY <1>3 DEF Boots
  <2>2. \A k \in Machines : node'[k].bundle = node[k].bundle /\ node'[k].version = node[k].version
    BY <1>a, <2>1 DEF Shapes
  <2>3. UNCHANGED <<cpReady, w>>
    BY <1>3 DEF Boots
  <2> QED BY <2>2, <2>3, MachinesAssumption DEF GateInv, ControlPlaneOwns
<1>4. CASE Rests
  BY <1>4 DEF Rests, GateInv, ControlPlaneOwns, ControlPlaneUp
<1> QED BY <1>1, <1>2, <1>3, <1>4, StepKinds

\* awaitControlPlaneReady: whatever crashes, flaps and lost answers there are, a
\* worker has a configuration only when a control-plane node carries one.  A stale
\* Ready condition cannot break it, because a node never loses its bundle.
THEOREM ControlPlaneIsFirst == Spec => []ControlPlaneFirst
<1>1. Init => GateInv
  BY InitGate
<1>2. AdoptionInv /\ GateInv /\ [Next]_vars => GateInv'
  BY NextGate
<1>3. GateInv => ControlPlaneFirst
  BY DEF GateInv, ControlPlaneFirst, ControlPlaneOwns
<1> QED BY <1>1, <1>2, <1>3, AdoptionInvariance, PTL DEF Spec

-----------------------------------------------------------------------------
(* What is recorded was applied: lastAppliedConfigSHA.                     *)

\* The bootstrap provider never goes back to earlier data.
DataAdvances == "DataReverts" \notin Faults

\* The versions of a machine, oldest first: recorded, on its node, read by its
\* reconcile, published.
Ordered(m) ==
  /\ obj[m].sha <= node[m].version /\ node[m].version <= data[m]
  /\ w[m].pc # "idle" => node[m].version <= w[m].data /\ w[m].data <= data[m]
VersionsInv == \A m \in Machines : Ordered(m)

\* Versions of the bootstrap data can be compared.
LEMMA VersionsAreNumbers ==
  ASSUME AdoptionInv, NEW m \in Machines
  PROVE  /\ obj[m].sha \in Nat /\ node[m].version \in Nat
         /\ w[m].data \in Nat /\ data[m] \in Nat
<1>1. \A v \in Versions \cup {0} : v \in Nat
  BY VersionsAssumption
<1>2. obj[m] \in Object /\ w[m] \in Work
  BY Writes
<1>3. obj[m].sha \in Versions \cup {0} /\ w[m].data \in Versions \cup {0}
  BY <1>2 DEF Object, Work
<1>4. node[m].version \in Versions \cup {0} /\ data[m] \in Versions \cup {0}
  BY DEF AdoptionInv, TypeOK
<1> QED BY <1>1, <1>3, <1>4

\* Nothing is recorded at first.
LEMMA InitVersions ==
  ASSUME Init
  PROVE  VersionsInv
<1>1. PICK b \in [Machines -> Bundles] : node = [m \in Machines |-> NewNode(b[m])]
  BY DEF Init
<1>2. ASSUME NEW m \in Machines
      PROVE  node[m].version = 0 /\ w[m].pc = "idle" /\ obj[m].sha = 0 /\ data[m] = 0
  BY <1>1 DEF NewNode, Init, Idle
<1> QED BY <1>2 DEF VersionsInv, Ordered

\* No step records a version that the node is behind.
LEMMA NextVersions ==
  ASSUME DataAdvances, AdoptionInv, VersionsInv, [Next]_vars
  PROVE  VersionsInv'
<1>a. TypeOK /\ Shapes /\ \A m \in Machines : MachineInv(m)
  BY DEF AdoptionInv
<1>b. \A m \in Machines : /\ obj[m].sha \in Nat /\ node[m].version \in Nat
                          /\ w[m].data \in Nat /\ data[m] \in Nat
  BY VersionsAreNumbers
<1>1. CASE Reconciles
  <2>1. PICK m \in Machines, w1 \in Work, o1 \in Object : \E n1 :
          NodeOK(n1) /\ Moves(m, w1, o1, n1) /\ Effect(m, w1, o1, n1)
    BY <1>1 DEF Reconciles
  <2>2. PICK n1 : NodeOK(n1) /\ Moves(m, w1, o1, n1) /\ Effect(m, w1, o1, n1)
    BY <2>1
  <2>3. /\ w'[m] = w1 /\ obj'[m] = o1 /\ node'[m] = n1 /\ data' = data
        /\ \A k \in Machines \ {m} : w'[k] = w[k] /\ obj'[k] = obj[k] /\ node'[k] = node[k]
    BY <1>a, <2>2 DEF Moves, TypeOK, Shapes
  <2>4. w[m].pc \in AppliedSteps => node[m].version = w[m].data
    BY <1>a DEF MachineInv, AppliedIsOn
  <2>5. /\ o1.sha <= n1.version /\ n1.version <= data[m]
        /\ w1.pc # "idle" => n1.version <= w1.data /\ w1.data <= data[m]
    BY <1>b, <2>2, <2>4
    DEF Effect, Halts, Starts, Probes, Passes, Tries, Proceeds, Applies, Nudges, Marks, AppliedSteps,
        VersionsInv, Ordered
  <2> QED BY <2>3, <2>5 DEF VersionsInv, Ordered
<1>2. CASE Publishes
  <2>1. PICK m \in Machines, v \in Versions : data' = [data EXCEPT ![m] = v] /\ v = data[m] + 1
    BY <1>2 DEF Publishes, DataAdvances
  <2>2. \A k \in Machines : data[k] <= data'[k] /\ data'[k] \in Nat
    BY <1>a, <1>b, <2>1 DEF TypeOK
  <2>3. UNCHANGED <<obj, node, w>>
    BY <1>2 DEF Publishes
  <2> QED BY <1>b, <2>2, <2>3 DEF VersionsInv, Ordered
<1>3. CASE Boots
  <2>1. PICK m \in Machines : \E n1 :
          /\ node' = [node EXCEPT ![m] = n1]
          /\ n1.bundle = node[m].bundle /\ n1.version = node[m].version
    BY <1>3 DEF Boots
  <2>2. \A k \in Machines : node'[k].version = node[k].version
    BY <1>a, <2>1 DEF Shapes
  <2>3. UNCHANGED <<data, obj, w>>
    BY <1>3 DEF Boots
  <2> QED BY <2>2, <2>3 DEF VersionsInv, Ordered
<1>4. CASE Rests
  BY <1>4 DEF Rests, VersionsInv, Ordered
<1> QED BY <1>1, <1>2, <1>3, <1>4, StepKinds

\* markAdopted: while the bootstrap provider only moves forward, the hash recorded
\* as applied is of the version the node carries or of an earlier one, through
\* every crash and lost answer between the apply and the patch that records it.
THEOREM RecordedIsApplied ==
  ASSUME DataAdvances
  PROVE  Spec => []RecordedWasApplied
<1>1. Init => VersionsInv
  BY InitVersions
<1>2. AdoptionInv /\ VersionsInv /\ [Next]_vars => VersionsInv'
  BY NextVersions
<1>3. AdoptionInv /\ VersionsInv => RecordedWasApplied
  <2> SUFFICES ASSUME AdoptionInv, VersionsInv, NEW m \in Machines, obj[m].ready
               PROVE  node[m].bundle = "own" /\ node[m].version >= obj[m].sha
    BY DEF RecordedWasApplied
  <2>1. obj[m].sha \in Nat /\ node[m].version \in Nat
    BY VersionsAreNumbers
  <2> QED BY <2>1 DEF AdoptionInv, MachineInv, ReadyIsOwn, VersionsInv, Ordered
<1> QED BY <1>1, <1>2, <1>3, AdoptionInvariance, PTL DEF Spec

-----------------------------------------------------------------------------
(* The join preflight.                                                     *)

\* A probe of the referenced talosconfig fails only on a node that does not answer.
ReferencedProbeIsSound == "ReferencedProbeFails" \notin Faults

\* A foreign node is up, since nothing restarts it; credentials of another bundle
\* are in use only against a node that does not carry that bundle.
ForeignInv ==
  \A m \in Machines :
    /\ node[m].bundle = "foreign" => node[m].up
    /\ w[m].pc \in {"gate", "apply"} /\ w[m].auth = "foreign" => node[m].bundle # "foreign"

\* No reconcile has passed a preflight at first.
LEMMA InitForeign ==
  ASSUME Init
  PROVE  ForeignInv
<1>1. PICK b \in [Machines -> Bundles] : node = [m \in Machines |-> NewNode(b[m])]
  BY DEF Init
<1>2. ASSUME NEW m \in Machines
      PROVE  node[m].up /\ w[m].pc = "idle"
  BY <1>1 DEF NewNode, Init, Idle
<1> QED BY <1>2 DEF ForeignInv

\* The step keeps the invariant, and changes no foreign bundle.
LEMMA NextForeign ==
  ASSUME ReferencedProbeIsSound, AdoptionInv, ForeignInv, [Next]_vars
  PROVE  /\ ForeignInv'
         /\ \A m \in Machines : node[m].bundle = "foreign" => node'[m].bundle = "foreign"
<1>a. TypeOK /\ Shapes
  BY DEF AdoptionInv
<1>1. CASE Reconciles
  <2>1. PICK m \in Machines, w1 \in Work, o1 \in Object : \E n1 :
          NodeOK(n1) /\ Moves(m, w1, o1, n1) /\ Effect(m, w1, o1, n1)
    BY <1>1 DEF Reconciles
  <2>2. PICK n1 : NodeOK(n1) /\ Moves(m, w1, o1, n1) /\ Effect(m, w1, o1, n1)
    BY <2>1
  <2>3. /\ w'[m] = w1 /\ node'[m] = n1
        /\ \A k \in Machines \ {m} : w'[k] = w[k] /\ node'[k] = node[k]
    BY <1>a, <2>2 DEF Moves, TypeOK, Shapes
  <2>4. /\ node[m].bundle = "foreign" => node[m].up
        /\ w[m].pc \in {"gate", "apply"} /\ w[m].auth = "foreign" => node[m].bundle # "foreign"
    BY DEF ForeignInv
  <2>5. /\ n1.bundle = "foreign" => n1.up
        /\ w1.pc \in {"gate", "apply"} /\ w1.auth = "foreign" => n1.bundle # "foreign"
        /\ node[m].bundle = "foreign" => n1.bundle = "foreign"
    BY <2>2, <2>4
    DEF Effect, Halts, Starts, Probes, Passes, Tries, Proceeds, Applies, Nudges, Marks,
        Answers, ReferencedProbeIsSound
  <2> QED BY <2>3, <2>5 DEF ForeignInv
<1>2. CASE Publishes
  BY <1>2 DEF Publishes, ForeignInv
<1>3. CASE Boots
  <2>1. PICK m \in Machines : \E n1 :
          node' = [node EXCEPT ![m] = n1] /\ n1.up /\ n1.bundle = node[m].bundle
    BY <1>3 DEF Boots
  <2>2. \A k \in Machines : node'[k].bundle = node[k].bundle /\ (node[k].up => node'[k].up)
    BY <1>a, <2>1 DEF Shapes
  <2>3. UNCHANGED w
    BY <1>3 DEF Boots
  <2> QED BY <2>2, <2>3 DEF ForeignInv
<1>4. CASE Rests
  BY <1>4 DEF Rests, ForeignInv
<1> QED BY <1>1, <1>2, <1>3, <1>4, StepKinds

\* The foreign bundles are safe in every reachable state.
LEMMA ForeignInvariance ==
  ASSUME ReferencedProbeIsSound
  PROVE  Spec => []ForeignInv
<1>1. Init => ForeignInv
  BY InitForeign
<1>2. AdoptionInv /\ ForeignInv /\ [Next]_vars => ForeignInv'
  BY NextForeign
<1> QED BY <1>1, <1>2, AdoptionInvariance, PTL DEF Spec

\* preflightJoin, preflightForeignMachine: a machine that carries another cluster's
\* bundle keeps it, whatever credentials the ByotMachine references, as long as the
\* probe with those credentials does not fail on a node that answers.
THEOREM ForeignIsPreserved ==
  ASSUME ReferencedProbeIsSound
  PROVE  Spec => ForeignPreserved
<1>1. AdoptionInv /\ ForeignInv /\ [Next]_vars =>
        [\A m \in Machines : node[m].bundle = "foreign" => node'[m].bundle = "foreign"]_vars
  BY NextForeign
<1> QED BY <1>1, AdoptionInvariance, ForeignInvariance, PTL DEF Spec, ForeignPreserved

\* The referenced talosconfig is never the cluster's own.
ReferencedIsForeign == \A m \in Machines : Credentials[m] # "own"

\* The conditions call of markAdopted's patch does not fail.
ConditionsLand == "ConditionsLost" \notin Faults

\* The condition an adopted machine holds, and the one a reconcile is about to write,
\* say that the preflight passed; only a foreign machine's reconcile goes on without.
PreflightInv ==
  \A m \in Machines :
    /\ obj[m].ready => obj[m].preflight \in Passed
    /\ obj[m].ready /\ w[m].pc # "idle" => w[m].preflight \in Passed
    /\ w[m].pc \in {"gate", "apply"} => w[m].preflight \in Passed \/ w[m].auth = "foreign"
    /\ w[m].pc \in AppliedSteps => w[m].preflight \in Passed

\* No step adopts a machine that did not pass.
LEMMA NextPreflight ==
  ASSUME ReferencedProbeIsSound, ReferencedIsForeign, ConditionsLand, AdoptionInv, ForeignInv,
         PreflightInv, [Next]_vars
  PROVE  PreflightInv'
<1>a. TypeOK /\ Shapes /\ \A m \in Machines : MachineInv(m)
  BY DEF AdoptionInv
<1>1. CASE Reconciles
  <2>1. PICK m \in Machines, w1 \in Work, o1 \in Object : \E n1 :
          NodeOK(n1) /\ Moves(m, w1, o1, n1) /\ Effect(m, w1, o1, n1)
    BY <1>1 DEF Reconciles
  <2>2. PICK n1 : NodeOK(n1) /\ Moves(m, w1, o1, n1) /\ Effect(m, w1, o1, n1)
    BY <2>1
  <2>3. /\ w'[m] = w1 /\ obj'[m] = o1
        /\ \A k \in Machines \ {m} : w'[k] = w[k] /\ obj'[k] = obj[k]
    BY <1>a, <2>2 DEF Moves, TypeOK
  <2>4. w[m].pc \in ProbingSteps => ~obj[m].ready
    BY <1>a DEF MachineInv, ProbesUnadopted
  <2>5. w[m].pc = "apply" /\ Answers(m, w[m].auth) => w[m].preflight \in Passed
    BY DEF ForeignInv, PreflightInv, Answers
  <2>6. Credentials[m] # "none" => Credentials[m] = "foreign"
    BY CredentialsAssumption DEF ReferencedIsForeign, Bundles
  <2>7. /\ obj[m].ready => obj[m].preflight \in Passed
        /\ obj[m].ready /\ w[m].pc # "idle" => w[m].preflight \in Passed
        /\ w[m].pc \in {"gate", "apply"} => w[m].preflight \in Passed \/ w[m].auth = "foreign"
        /\ w[m].pc \in AppliedSteps => w[m].preflight \in Passed
    BY DEF PreflightInv
  <2>8. /\ o1.ready => o1.preflight \in Passed
        /\ o1.ready /\ w1.pc # "idle" => w1.preflight \in Passed
        /\ w1.pc \in {"gate", "apply"} => w1.preflight \in Passed \/ w1.auth = "foreign"
        /\ w1.pc \in AppliedSteps => w1.preflight \in Passed
    BY <2>2, <2>4, <2>5, <2>6, <2>7
    DEF ConditionsLand, Effect, Halts, Starts, Probes, Passes, Tries, Proceeds, Applies, Nudges, Marks,
        AppliedSteps, ProbingSteps
  <2> QED BY <2>3, <2>8 DEF PreflightInv
<1>2. CASE Publishes \/ Boots \/ Rests
  BY <1>2 DEF Publishes, Boots, Rests, PreflightInv
<1> QED BY <1>1, <1>2, StepKinds

\* recordPreflightFailure, markAdopted: an adopted machine's JoinPreflight condition
\* says that the preflight passed, whichever of the spec and status calls of the patch
\* that marks it is lost.  With the cluster's own talosconfig as the referenced one, a
\* node that finishes booting between two probes is adopted with the condition of an
\* earlier attempt, and so is one whose conditions call alone is lost:
\* ReferencedIsForeign and ConditionsLand are needed.
THEOREM AdoptedHasPassed ==
  ASSUME ReferencedProbeIsSound, ReferencedIsForeign, ConditionsLand
  PROVE  Spec => []AdoptedPassedPreflight
<1>1. Init => PreflightInv
  <2> SUFFICES ASSUME Init, NEW m \in Machines
               PROVE  w[m].pc = "idle" /\ ~obj[m].ready
    BY DEF PreflightInv, AppliedSteps
  <2> QED BY DEF Init, Idle
<1>2. AdoptionInv /\ ForeignInv /\ PreflightInv /\ [Next]_vars => PreflightInv'
  BY NextPreflight
<1>3. PreflightInv => AdoptedPassedPreflight
  BY DEF PreflightInv, AdoptedPassedPreflight
<1> QED BY <1>1, <1>2, <1>3, AdoptionInvariance, ForeignInvariance, PTL DEF Spec

-----------------------------------------------------------------------------
(* The documents a node is given.                                          *)

\* A step gives a node new documents only by applying a version to it: those
\* that Rewrite makes of the version's, with the disk the node then reports.
Given(m) ==
  \/ node'[m].docs = node[m].docs
  \/ /\ node'[m].version \in Versions
     /\ node'[m].docs = Rewrite(Bootstrap[node'[m].version].docs, node'[m].disk, Endpoints[m])

\* Only applyMachineConfig writes documents.
LEMMA DocumentsGiven ==
  ASSUME AdoptionInv, [Next]_vars, NEW k \in Machines
  PROVE  Given(k)
<1>a. \A m \in Machines : NodeShape(node[m])
  BY DEF AdoptionInv, Shapes
<1>b. DOMAIN node = Machines /\ node = [m \in Machines |-> node[m]]
  BY DEF AdoptionInv, Shapes, TypeOK
<1>1. CASE UNCHANGED node
  BY <1>1 DEF Given
<1>2. ASSUME NEW m \in Machines, NEW n1, n1.docs = node[m].docs, node' = [node EXCEPT ![m] = n1]
      PROVE  Given(k)
  BY <1>b, <1>2 DEF Given
<1>3. ASSUME NEW m \in Machines, Boot(m)
      PROVE  Given(k)
  <2> DEFINE n1 == [node[m] EXCEPT !.up = TRUE,
                                   !.registered = node[m].registered \/ node[m].bundle = "own"]
  <2>1. node' = [node EXCEPT ![m] = n1]
    BY <1>3 DEF Boot
  <2>2. n1.docs = node[m].docs
    BY <1>a DEF NodeShape
  <2> HIDE DEF n1
  <2> QED BY <1>2, <2>1, <2>2
<1>4. ASSUME NEW m \in Machines, node' = [node EXCEPT ![m].registered = TRUE]
      PROVE  Given(k)
  <2> DEFINE n1 == [node[m] EXCEPT !.registered = TRUE]
  <2>1. node' = [node EXCEPT ![m] = n1]
    BY <1>4
  <2>2. n1.docs = node[m].docs
    BY <1>a DEF NodeShape
  <2> HIDE DEF n1
  <2> QED BY <1>2, <2>1, <2>2
<1>5. ASSUME NEW m \in Machines, w[m].pc = "apply", NEW disk \in InstallDisks(m), NEW up,
             node' = [node EXCEPT ![m] = Configured(m, disk, up)]
      PROVE  Given(k)
  <2> DEFINE n1 == Configured(m, disk, up)
             docs == Sent[m][w[m].data][disk]
             v == w[m].data
  <2>1. v \in Versions
    BY <1>5 DEF AdoptionInv, MachineInv, HasData
  <2>2. docs = Rewrite(Bootstrap[v].docs, disk, Endpoints[m])
    BY <2>1 DEF Sent
  <2>3. n1 = [node[m] EXCEPT !.up = up, !.bundle = "own", !.version = v, !.disk = disk, !.docs = docs]
    BY DEF Configured
  <2>4. node' = [node EXCEPT ![m] = n1]
    BY <1>5
  <2> HIDE DEF n1, docs, v
  <2>5. n1.version = v /\ n1.docs = docs /\ n1.disk = disk
    BY <1>a, <2>3 DEF NodeShape
  <2>6. CASE k = m
    BY <1>b, <2>1, <2>2, <2>4, <2>5, <2>6 DEF Given
  <2>7. CASE k # m
    BY <1>b, <2>4, <2>7 DEF Given
  <2> QED BY <2>6, <2>7
<1>6. ASSUME NEW m \in Machines, ApplyConfig(m)
      PROVE  Given(k)
  <2>1. \/ UNCHANGED node
        \/ /\ w[m].pc = "apply"
           /\ \E disk \in InstallDisks(m), up \in {FALSE, w[m].auth = "own"} :
                node' = [node EXCEPT ![m] = Configured(m, disk, up)]
    BY <1>6 DEF ApplyConfig
  <2>2. CASE UNCHANGED node
    BY <1>1, <2>2
  <2>3. ASSUME w[m].pc = "apply", NEW disk \in InstallDisks(m), NEW up,
               node' = [node EXCEPT ![m] = Configured(m, disk, up)]
        PROVE  Given(k)
    BY <1>5, <2>3
  <2> QED BY <2>1, <2>2, <2>3
<1>7. ASSUME NEW m \in Machines, NudgeKubelet(m)
      PROVE  Given(k)
  <2>1. UNCHANGED node \/ node' = [node EXCEPT ![m].registered = TRUE]
    BY <1>7 DEF NudgeKubelet
  <2> QED BY <1>1, <1>4, <2>1
<1>8. ASSUME NEW m \in Machines,
             \/ Start(m) \/ ProbeMaintenance(m) \/ ProbeBundle(m) \/ ProbeReferenced(m)
             \/ AwaitControlPlane(m) \/ MarkAdopted(m) \/ EnsureLinked(m) \/ Abort(m)
             \/ PublishData(m) \/ Wake(m)
      PROVE  UNCHANGED node
  BY <1>8 DEF Start, ProbeMaintenance, ProbeBundle, ProbeReferenced, AwaitControlPlane, MarkAdopted,
              EnsureLinked, Abort, PublishData, Wake, Unrecorded
<1>9. CASE ReportControlPlane \/ (\E s \in {"cluster", "referenced"} : PublishSecret(s))
  BY <1>1, <1>9 DEF ReportControlPlane, PublishSecret
<1>10. CASE UNCHANGED vars
  BY <1>1, <1>10 DEF vars
<1> QED BY <1>1, <1>3, <1>6, <1>7, <1>8, <1>9, <1>10 DEF Next, ReconcileStep

\* injectInstallDisk, injectHostCertSANs and applyMachineConfig: whatever is
\* applied to a node, at any time, keeps every document of the bootstrap data, an
\* operator's disk and an operator's SANs (RewriteIsARewriting).
THEOREM DocumentsAreKept == Spec => DocumentsSurvive
<1> DEFINE Kept == \A m \in Machines : node'[m].docs # node[m].docs =>
                     Rewritten(Bootstrap[node'[m].version].docs, node'[m].docs, node'[m].disk,
                               Endpoints[m])
<1>1. ASSUME AdoptionInv, [Next]_vars, NEW m \in Machines, node'[m].docs # node[m].docs
      PROVE  Rewritten(Bootstrap[node'[m].version].docs, node'[m].docs, node'[m].disk,
                       Endpoints[m])
  <2> DEFINE docs == Bootstrap[node'[m].version].docs
             disk == node'[m].disk
  <2>1. /\ node'[m].version \in Versions
        /\ node'[m].docs = Rewrite(docs, disk, Endpoints[m])
    BY <1>1, DocumentsGiven DEF Given
  <2>2. docs \in Seq(Document) /\ Endpoints[m] \in Seq(Text)
    BY <2>1, DocumentsAssumption
  <2> HIDE DEF docs, disk
  <2>3. Rewritten(docs, Rewrite(docs, disk, Endpoints[m]), disk, Endpoints[m])
    BY <2>2, RewriteIsARewriting
  <2> QED BY <2>1, <2>3 DEF docs, disk
<1>2. AdoptionInv /\ [Next]_vars => [Kept]_vars
  BY <1>1
<1> QED BY <1>2, AdoptionInvariance, PTL DEF Spec, DocumentsSurvive
=============================================================================

--------------------------- MODULE DiscoveryProofs ---------------------------
(***************************************************************************)
(* Proofs about Discovery, for every inventory, every set of reads that    *)
(* may be lost, every threshold and any number of outages, edits, claims   *)
(* and aborted reconciles.                                                 *)
(***************************************************************************)
EXTENDS Discovery, DataInduction, FiniteSetTheorems, TLAPS

-----------------------------------------------------------------------------
(* Labels.                                                                 *)

\* A set of labels: a value, or None, for every key.
Labelled(l) == l = [k \in LabelKeys |-> l[k]]

\* Writing controller-managed labels leaves the operator's alone.
LEMMA PromotedKeeps ==
  ASSUME NEW l, Labelled(l), NEW s, NEW fd
  PROVE  Labelled(Promoted(l, s, fd)) /\ Promoted(l, s, fd).site = l.site
<1> DEFINE hw == s.hardware
           disk == systemDisk(hw.disks)
           a == IF s.phase = "Available" THEN "true" ELSE None
           b == Unless(Blank, s.arch)
           c == Unless(Blank, s.version)
           d == Unless(Blank, s.platform)
           e == Unless(Blank, fd)
           f == Unless(0, hw.cpu.cores)
           g == IF hw.memory = 0 THEN None ELSE roundQuantity(hw.memory)
           h == IF disk = None THEN None ELSE diskTypeLabel(disk.type)
           i == IF disk = None \/ disk.size = 0 THEN None ELSE roundQuantity(disk.size)
           j == Unless(0, hw.gpus.count)
           m == Unless(Blank, hw.gpus.vendor)
           n == Unless(Blank, hw.gpus.model)
           plain == [l EXCEPT !.available = a, !.cpuArch = b, !.talosVersion = c, !.platform = d,
                              !.failureDomain = e]
           sized == [plain EXCEPT !.cpuCores = f, !.memory = g, !.diskType = h, !.diskSize = i]
           all == [sized EXCEPT !.gpuCount = j, !.gpuVendor = m, !.gpuModel = n]
<1>1. Promoted(l, s, fd) =
        IF hw = None THEN plain ELSE IF hw.gpus = None THEN sized ELSE all
  BY Zenon DEF Promoted, promoteHardwareLabels, promoteGPULabels
<1> HIDE DEF a, b, c, d, e, f, g, h, i, j, m, n, hw, disk
<1>2. Labelled(plain) /\ plain.site = l.site
  BY DEF Labelled, LabelKeys, ManagedKeys
<1> HIDE DEF plain
<1>3. Labelled(sized) /\ sized.site = plain.site
  BY <1>2 DEF Labelled, LabelKeys, ManagedKeys
<1> HIDE DEF sized
<1>4. Labelled(all) /\ all.site = sized.site
  BY <1>3 DEF Labelled, LabelKeys, ManagedKeys
<1> HIDE DEF all
<1> QED BY <1>1, <1>2, <1>3, <1>4, Zenon

\* applyDiscoveryLabels keeps what the operator wrote.
LEMMA RelabelKeeps ==
  ASSUME NEW l, Labelled(l), NEW s
  PROVE  /\ Labelled(applyDiscoveryLabels(s, l))
         /\ applyDiscoveryLabels(s, l).site = l.site
<1> DEFINE m == [k \in LabelKeys |-> IF k \in ManagedKeys THEN None ELSE l[k]]
<1>1. Labelled(m)
  BY DEF Labelled
<1>2. m.site = l.site
  BY DEF LabelKeys, ManagedKeys
<1> HIDE DEF m
<1>3. Labelled(Promoted(m, s, FailureDomain)) /\ Promoted(m, s, FailureDomain).site = m.site
  BY <1>1, PromotedKeeps
<1>4. applyDiscoveryLabels(s, l) = Promoted(m, s, FailureDomain)
  BY DEF applyDiscoveryLabels, m
<1> QED BY <1>2, <1>3, <1>4

-----------------------------------------------------------------------------
(* The status, and patches of it.                                          *)

StatusFields == {"phase", "claimed", "probed", "discovered", "failures", "version", "arch", "platform",
                 "identity", "hardware"}
Shaped(s) == s = [f \in StatusFields |-> s[f]]
Typed(s) ==
  /\ s.phase \in Phases /\ s.failures \in 0..FailureThreshold
  /\ s.claimed \in BOOLEAN /\ s.probed \in BOOLEAN /\ s.discovered \in BOOLEAN

\* A discovery the node may have answered.
Sampled(sample) == sample.node \in DOMAIN Inventory /\ sample.lost \in LostReads
Facts(sample) == Answers[sample.node][sample.lost].hardware

\* The identity is the one it was, or another, which the sample has.
Identifies(new, old, sample) ==
  \/ new = old
  \/ new # None /\ sample # None /\ new = discoverIdentity(Inventory[sample.node], sample.lost)

\* What a handler makes of the host it read.
Handled(r) ==
  /\ Labelled(r.labels) /\ r.labels.site = labels.site
  /\ Shaped(r.status) /\ Typed(r.status) /\ Identifies(r.status.identity, status.identity, r.sample)
  /\ \/ r.sample = None /\ r.status.hardware = status.hardware
     \/ r.sample # None /\ Sampled(r.sample) /\ r.status.hardware = Facts(r.sample)

\* The phases other than the empty one.
LEMMA PhaseNames ==
  {"Probing", "Available", "Unavailable", "Claimed", "Releasing"} \subseteq Phases
BY DEF Phases

\* What the answers of a node have in common.
LEMMA AnswersFacts ==
  ASSUME NEW n \in DOMAIN Inventory, NEW lost \in LostReads
  PROVE  /\ Answers[n][lost].identity = discoverIdentity(Inventory[n], lost)
         /\ Answers[n][lost].hardware \notin {None, Keep}
         /\ [node |-> n, lost |-> lost] # None
<1>1. Answers[n][lost] = discoverHost(Inventory[n], lost)
  BY DEF Answers
<1>2. discoverHost(Inventory[n], lost).identity = discoverIdentity(Inventory[n], lost)
  BY Zenon DEF discoverHost
<1> QED BY <1>1, <1>2, MarkersAssumption

\* A handler that ends in Outcome has promoted the labels and kept the operator's.
LEMMA OutcomeHandled ==
  ASSUME Labelled(labels), NEW s, Shaped(s), Typed(s), NEW sample,
         Identifies(s.identity, status.identity, sample),
         \/ sample = None /\ s.hardware = status.hardware
         \/ sample # None /\ Sampled(sample) /\ s.hardware = Facts(sample)
  PROVE  Handled(Outcome(s, labels, sample))
<1>1. Labelled(applyDiscoveryLabels(s, labels)) /\ applyDiscoveryLabels(s, labels).site = labels.site
  BY RelabelKeeps
<1>2. /\ Outcome(s, labels, sample).status = s /\ Outcome(s, labels, sample).sample = sample
      /\ Outcome(s, labels, sample).labels = applyDiscoveryLabels(s, labels)
  BY DEF Outcome
<1> QED BY <1>1, <1>2 DEF Handled

\* Every handler: what it keeps of the host, and what it takes from a discovery.
LEMMA HandlersHandle ==
  ASSUME Labelled(labels), Shaped(status), Typed(status), node \in DOMAIN Inventory,
         NEW r \in reconcileHost([status |-> status, labels |-> labels])
  PROVE  Handled(r)
<1> DEFINE o == [status |-> status, labels |-> labels]
<1>a. o.status = status /\ o.labels = labels
  OBVIOUS
<1> HIDE DEF o
<1>b. Identifies(status.identity, status.identity, None)
  BY DEF Identifies
<1>n. FailureThreshold \in Nat /\ FailureThreshold >= 1 /\ 0 \in 0..FailureThreshold
  BY DiscoveryAssumption
<1>f. status.failures \in 0..FailureThreshold /\ status.phase \in Phases
  BY DEF Typed
<1>1. ASSUME NEW lost \in LostReads
      PROVE  Handled(Discovered(o, lost))
  <2> DEFINE res == Answers[node][lost]
             sample == [node |-> node, lost |-> lost]
             x == res.hardware.gpus = None \/ ~res.hardware.gpus.mixed
             i == IF res.identity # None THEN res.identity ELSE status.identity
             h == res.hardware
             v == res.version
             a == res.arch
             p == res.platform
             s1 == [status EXCEPT !.version = v, !.arch = a, !.platform = p, !.identity = i,
                                  !.hardware = h, !.discovered = x]
             s2 == [s1 EXCEPT !.phase = "Available", !.probed = TRUE, !.failures = 0]
  <2>1. Discovered(o, lost) = Outcome(s2, labels, sample)
    BY <1>a DEF Discovered, populateFromDiscovery
  <2>2. x \in BOOLEAN
    OBVIOUS
  <2>3. Identifies(i, status.identity, sample)
    BY <1>1, AnswersFacts DEF Identifies
  <2>4. sample # None /\ Sampled(sample) /\ h = Facts(sample)
    BY <1>1, AnswersFacts DEF Sampled, Facts
  <2> HIDE DEF x, i, h, v, a, p, sample, res
  <2>5. Shaped(s1) /\ Typed(s1) /\ s1.identity = i /\ s1.hardware = h
    BY <2>2 DEF Shaped, Typed, StatusFields
  <2> HIDE DEF s1
  <2>6. Shaped(s2) /\ Typed(s2) /\ s2.identity = i /\ s2.hardware = h
    BY <2>5, <1>n, PhaseNames DEF Shaped, Typed, StatusFields
  <2> HIDE DEF s2
  <2> QED BY <2>1, <2>3, <2>4, <2>6, OutcomeHandled
<1>2. Handled(recordDiscoveryFailure(o))
  <2> DEFINE s == [status EXCEPT !.phase = "Probing", !.probed = FALSE, !.discovered = FALSE]
  <2>1. Shaped(s) /\ Typed(s) /\ s.identity = status.identity /\ s.hardware = status.hardware
    BY PhaseNames DEF Shaped, Typed, StatusFields
  <2>2. recordDiscoveryFailure(o) = Outcome(s, labels, None)
    BY <1>a DEF recordDiscoveryFailure
  <2> HIDE DEF s
  <2> QED BY <1>b, <2>1, <2>2, OutcomeHandled
<1>3. Handled(recordProbeFailure(o))
  <2> DEFINE n == IF status.failures + 1 > FailureThreshold THEN status.failures ELSE status.failures + 1
             p == IF status.failures + 1 >= FailureThreshold THEN "Unavailable" ELSE status.phase
             s == [status EXCEPT !.failures = n, !.probed = FALSE, !.phase = p]
  <2>1. n \in 0..FailureThreshold
    BY <1>f, <1>n
  <2>2. p \in Phases
    BY <1>f, PhaseNames
  <2>3. recordProbeFailure(o) = Outcome(s, labels, None)
    BY <1>a DEF recordProbeFailure
  <2> HIDE DEF n, p
  <2>4. Shaped(s) /\ Typed(s) /\ s.identity = status.identity /\ s.hardware = status.hardware
    BY <2>1, <2>2 DEF Shaped, Typed, StatusFields
  <2> HIDE DEF s
  <2> QED BY <1>b, <2>3, <2>4, OutcomeHandled
<1>4. Handled(Outcome([status EXCEPT !.failures = 0, !.probed = TRUE], labels, None))
  <2> DEFINE s == [status EXCEPT !.failures = 0, !.probed = TRUE]
  <2>1. Shaped(s) /\ Typed(s) /\ s.identity = status.identity /\ s.hardware = status.hardware
    BY <1>n DEF Shaped, Typed, StatusFields
  <2> HIDE DEF s
  <2>2. Handled(Outcome(s, labels, None))
    BY <1>b, <2>1, OutcomeHandled
  <2> QED BY <2>2 DEF s
<1>5. Handled(Outcome(status, labels, None))
  BY <1>b, OutcomeHandled
<1>6. \A q \in Discover(o) : Handled(q)
  BY <1>1, <1>2 DEF Discover
<1>7. \A q \in reconcileProbing(o) : Handled(q)
  BY <1>2, <1>6 DEF reconcileProbing
<1>8. \A q \in reconcileAvailable(o) : Handled(q)
  BY <1>3, <1>4, <1>a DEF reconcileAvailable
<1>9. \A q \in reconcileUnavailable(o) : Handled(q) /\ \E s, l, sample : q = Outcome(s, l, sample)
  BY <1>5, <1>6, <1>a DEF reconcileUnavailable, Discover, Discovered, recordDiscoveryFailure
<1>10. \A q \in reconcileReleasing(o) : Handled(q)
  <2>1. ASSUME NEW q \in reconcileUnavailable(o)
        PROVE  Handled([q EXCEPT !.status.claimed = IF q.sample = None THEN @ ELSE FALSE])
    <3> DEFINE b == IF q.sample = None THEN q.status.claimed ELSE FALSE
               t == [q EXCEPT !.status.claimed = b]
    <3>1. Handled(q)
      BY <1>9
    <3>2. q = [status |-> q.status, labels |-> q.labels, sample |-> q.sample]
      BY <1>9 DEF Outcome
    <3>3. b \in BOOLEAN
      BY <3>1 DEF Handled, Typed
    <3>4. [q EXCEPT !.status.claimed = IF q.sample = None THEN @ ELSE FALSE] = t
      BY <3>2
    <3> HIDE DEF b
    <3>5. t.labels = q.labels /\ t.sample = q.sample /\ t.status = [q.status EXCEPT !.claimed = b]
      BY <3>2
    <3> HIDE DEF t
    <3>6. /\ Shaped(t.status) /\ Typed(t.status) /\ t.status.identity = q.status.identity
          /\ t.status.hardware = q.status.hardware
      BY <3>1, <3>3, <3>5 DEF Handled, Shaped, Typed, StatusFields
    <3>7. Handled(t)
      BY <3>1, <3>5, <3>6 DEF Handled
    <3> QED BY <3>4, <3>7
  <2> QED BY <2>1, Zenon DEF reconcileReleasing
<1>11. r \in reconcileProbing(o) \cup reconcileAvailable(o) \cup reconcileUnavailable(o)
               \cup reconcileReleasing(o)
  <2>1. r \in reconcileHost(o)
    BY DEF o
  <2> QED BY <2>1, Zenon DEF reconcileHost
<1> QED BY <1>7, <1>8, <1>9, <1>10, <1>11

-----------------------------------------------------------------------------
(* The invariant.                                                          *)

\* A patch under way says nothing of the operator's label, carries values of the
\* right types, and hardware only with the discovery behind it: what it leaves out
\* because it did not change is what the server still has.
PassInv ==
  /\ pass.labels.site = Keep
  /\ pass.status.phase \in Phases \cup {Keep}
  /\ pass.status.failures \in (0..FailureThreshold) \cup {Keep}
  /\ pass.status.claimed \in BOOLEAN \cup {Keep} /\ pass.status.probed \in BOOLEAN \cup {Keep}
  /\ pass.status.discovered \in BOOLEAN \cup {Keep}
  /\ pass.sample = None => pass.status.hardware = Keep
  /\ pass.sample # None =>
       /\ Sampled(pass.sample)
       /\ IF pass.status.hardware = Keep THEN status.hardware = Facts(pass.sample)
          ELSE pass.status.hardware = Facts(pass.sample)

\* status.hardware is what one discovery of the node answered, whole: never a
\* mixture of two, and never a discovery that was not the last one written.
RecordedIsDiscovered ==
  seen # None => Sampled(seen) /\ status.hardware = Facts(seen)

PassShaped ==
  pass = [pc |-> pass.pc, status |-> pass.status, labels |-> pass.labels, sample |-> pass.sample]

DiscoveryInv ==
  /\ TypeOK /\ Shaped(status) /\ Labelled(labels) /\ PassShaped
  /\ RecordedIsDiscovered
  /\ pass.pc # "idle" => PassInv

\* The types of the status, field by field.
LEMMA TypedStatus == TypeOK => Typed(status)
BY DEF TypeOK, Typed

\* The server's side of a patch.
LEMMA MergeWrites ==
  ASSUME NEW server, Shaped(server), NEW patch, NEW fields
  PROVE  LET m == Merge(server, patch, fields)
         IN  /\ Shaped(m)
             /\ \A f \in StatusFields :
                  m[f] = IF f \notin fields \/ patch[f] = Keep THEN server[f] ELSE patch[f]
<1> DEFINE m == Merge(server, patch, fields)
<1>1. DOMAIN server = StatusFields
  BY DEF Shaped
<1>2. m = [f \in StatusFields |-> IF f \notin fields \/ patch[f] = Keep THEN server[f] ELSE patch[f]]
  BY <1>1 DEF Merge
<1> HIDE DEF m
<1>3. Shaped(m) /\ \A f \in StatusFields :
                  m[f] = IF f \notin fields \/ patch[f] = Keep THEN server[f] ELSE patch[f]
  BY <1>2 DEF Shaped
<1> QED BY <1>3 DEF m

\* A metadata patch that does not mention the operator's label leaves it alone.
LEMMA LabelsMerge ==
  ASSUME Labelled(labels), NEW patch, patch.site = Keep
  PROVE  LET m == Merge(labels, patch, LabelKeys)
         IN  Labelled(m) /\ m.site = labels.site
BY DEF Labelled, LabelKeys, Merge

\* What a step may do to the status and to the labels.
StatusStep ==
  /\ Shaped(status') /\ Typed(status')
  /\ \/ UNCHANGED seen /\ status'.hardware = status.hardware /\ status'.identity = status.identity
     \/ /\ pass.pc = "status" /\ pass'.pc = "idle"
        /\ seen' = IF pass.sample = None THEN seen ELSE pass.sample
        /\ status'.hardware = IF pass.status.hardware = Keep THEN status.hardware ELSE pass.status.hardware
        /\ status'.identity = IF pass.status.identity = Keep THEN status.identity ELSE pass.status.identity
LabelsStep ==
  /\ Labelled(labels')
  /\ \/ labels'.site = labels.site
     \/ ~HostStep /\ labels'.site \in Sites \cup {None}
\* ... and to the reconcile: it begins with what a handler made of the host, goes on
\* with the same patch, or ends.
PassStep ==
  /\ PassShaped' /\ pass'.pc \in {"idle", "conditions", "metadata", "status"}
  /\ \/ pass'.pc = "idle"
     \/ /\ pass.pc = "idle" /\ UNCHANGED <<status, seen>>
        /\ \E r : /\ Handled(r) /\ pass'.status = Changed(status, r.status)
                  /\ pass'.labels = Changed(labels, r.labels) /\ pass'.sample = r.sample
     \/ /\ pass.pc \notin {"idle", "status"} \/ UNCHANGED pass
        /\ pass'.status = pass.status /\ pass'.labels = pass.labels /\ pass'.sample = pass.sample
        /\ pass.pc = "idle" => pass'.pc = "idle"

\* Every step does to the status, the labels and the reconcile what is said above.
LEMMA DiscoverySteps ==
  ASSUME DiscoveryInv, [Next]_vars
  PROVE  StatusStep /\ LabelsStep /\ PassStep /\ node' \in DOMAIN Inventory /\ up' \in BOOLEAN
<1> DEFINE Goal == StatusStep /\ LabelsStep /\ PassStep /\ node' \in DOMAIN Inventory /\ up' \in BOOLEAN
<1> SUFFICES Goal
  OBVIOUS
<1>a. /\ Shaped(status) /\ Typed(status) /\ Labelled(labels) /\ PassShaped
      /\ node \in DOMAIN Inventory /\ up \in BOOLEAN
      /\ pass.pc \in {"idle", "conditions", "metadata", "status"}
      /\ pass.pc # "idle" => PassInv
  BY TypedStatus DEF DiscoveryInv, TypeOK
<1>s. UNCHANGED <<status, seen>> => StatusStep
  BY <1>a DEF StatusStep
<1>l. UNCHANGED labels => LabelsStep
  BY <1>a DEF LabelsStep
<1>p. UNCHANGED pass => PassStep
  BY <1>a DEF PassStep, PassShaped
<1>e. UNCHANGED <<node, up>> => node' \in DOMAIN Inventory /\ up' \in BOOLEAN
  BY <1>a
<1>i. pass' = Idle => PassStep /\ pass'.pc = "idle"
  BY DEF PassStep, PassShaped, Idle
<1>m. ASSUME NEW fields, pass.pc # "idle", status' = Merge(status, pass.status, fields)
      PROVE  /\ Shaped(status') /\ Typed(status')
             /\ \A f \in StatusFields :
                  status'[f] = IF f \notin fields \/ pass.status[f] = Keep THEN status[f] ELSE pass.status[f]
  <2>1. /\ Shaped(status')
        /\ \A f \in StatusFields :
             status'[f] = IF f \notin fields \/ pass.status[f] = Keep THEN status[f] ELSE pass.status[f]
    BY <1>a, <1>m, MergeWrites
  <2>2. Typed(status')
    BY <1>a, <1>m, <2>1 DEF Typed, PassInv, StatusFields
  <2> QED BY <2>1, <2>2
<1> HIDE DEF Goal
<1>1. CASE HostReconcile
  <2>1. /\ pass.pc = "idle" /\ UNCHANGED <<node, up, status, labels, seen, budget>>
        /\ \E r \in reconcileHost([status |-> status, labels |-> labels]) :
             pass' = [pc |-> "conditions", status |-> Changed(status, r.status),
                      labels |-> Changed(labels, r.labels), sample |-> r.sample]
    BY <1>1 DEF HostReconcile
  <2>2. PICK r \in reconcileHost([status |-> status, labels |-> labels]) :
             pass' = [pc |-> "conditions", status |-> Changed(status, r.status),
                      labels |-> Changed(labels, r.labels), sample |-> r.sample]
    BY <2>1
  <2>3. Handled(r)
    BY <1>a, HandlersHandle
  <2>4. /\ PassShaped' /\ pass'.pc = "conditions" /\ pass'.status = Changed(status, r.status)
        /\ pass'.labels = Changed(labels, r.labels) /\ pass'.sample = r.sample
    BY <2>2 DEF PassShaped
  <2>5. PassStep
    BY <2>1, <2>3, <2>4 DEF PassStep
  <2> QED BY <1>e, <1>l, <1>s, <2>1, <2>5 DEF Goal
<1>2. CASE PatchConditions
  <2>1. /\ pass.pc = "conditions" /\ pass' = [pass EXCEPT !.pc = "metadata"]
        /\ status' = Merge(status, pass.status, Conditions) \/ UNCHANGED status
        /\ UNCHANGED <<node, up, labels, seen>>
    BY <1>2 DEF PatchConditions
  <2>2. PassStep
    BY <1>a, <2>1 DEF PassStep, PassShaped
  <2>3. /\ Shaped(status') /\ Typed(status')
        /\ status'.hardware = status.hardware /\ status'.identity = status.identity
    BY <1>a, <1>m, <2>1 DEF Conditions, StatusFields
  <2>4. StatusStep
    BY <2>1, <2>3 DEF StatusStep
  <2> QED BY <1>e, <1>l, <2>1, <2>2, <2>4 DEF Goal
<1>3. CASE PatchMetadata
  <2>1. /\ pass.pc = "metadata" /\ pass' = [pass EXCEPT !.pc = "status"]
        /\ labels' = Merge(labels, pass.labels, LabelKeys) \/ UNCHANGED labels
        /\ UNCHANGED <<node, up, status, seen>>
    BY <1>3 DEF PatchMetadata
  <2>2. PassStep
    BY <1>a, <2>1 DEF PassStep, PassShaped
  <2>3. pass.labels.site = Keep
    BY <1>a, <2>1 DEF PassInv
  <2>4. LabelsStep
    BY <1>a, <1>l, <2>1, <2>3, LabelsMerge DEF LabelsStep
  <2> QED BY <1>e, <1>s, <2>1, <2>2, <2>4 DEF Goal
<1>4. CASE PatchStatus
  <2>0. /\ pass.pc = "status" /\ pass' = Idle /\ UNCHANGED <<node, up, labels>>
        /\ \/ UNCHANGED <<status, seen>>
           \/ /\ status' = Merge(status, pass.status, DOMAIN status \ Conditions)
              /\ seen' = IF pass.sample = None THEN seen ELSE pass.sample
    BY <1>4 DEF PatchStatus
  <2>5. CASE UNCHANGED <<status, seen>>
    BY <1>e, <1>i, <1>l, <1>s, <2>0, <2>5 DEF Goal
  <2>1. ASSUME /\ status' = Merge(status, pass.status, DOMAIN status \ Conditions)
               /\ seen' = IF pass.sample = None THEN seen ELSE pass.sample
        PROVE  StatusStep
    <3>2. DOMAIN status = StatusFields
      BY <1>a DEF Shaped
    <3>3. /\ Shaped(status') /\ Typed(status')
          /\ status'.hardware = IF pass.status.hardware = Keep THEN status.hardware ELSE pass.status.hardware
          /\ status'.identity = IF pass.status.identity = Keep THEN status.identity ELSE pass.status.identity
      BY <1>m, <2>0, <2>1, <3>2 DEF Conditions, StatusFields
    <3> QED BY <1>i, <2>0, <2>1, <3>3 DEF StatusStep
  <2> QED BY <1>e, <1>i, <1>l, <2>0, <2>1, <2>5 DEF Goal
<1>5. CASE Abort
  BY <1>5, <1>e, <1>i, <1>l, <1>s DEF Abort, Goal
<1>6. CASE Claim
  <2>1. /\ status' = [status EXCEPT !.phase = "Claimed", !.claimed = TRUE]
        /\ UNCHANGED <<node, up, labels, pass, seen>>
    BY <1>6 DEF Claim
  <2>2. StatusStep
    BY <1>a, <2>1, PhaseNames DEF StatusStep, Shaped, Typed, StatusFields
  <2> QED BY <1>e, <1>l, <1>p, <2>1, <2>2 DEF Goal
<1>7. CASE MirrorVersion
  <2>1. PICK v : status' = [status EXCEPT !.version = v]
    BY <1>7 DEF MirrorVersion
  <2>2. UNCHANGED <<node, up, labels, pass, seen>>
    BY <1>7 DEF MirrorVersion
  <2>3. StatusStep
    BY <1>a, <2>1, <2>2 DEF StatusStep, Shaped, Typed, StatusFields
  <2> QED BY <1>e, <1>l, <1>p, <2>2, <2>3 DEF Goal
<1>8. CASE Release
  <2> DEFINE p == IF up THEN "Available" ELSE "Releasing"
  <2>1. /\ status' = [status EXCEPT !.claimed = FALSE, !.phase = p]
        /\ UNCHANGED <<node, up, labels, pass, seen>>
    BY <1>8 DEF Release
  <2>2. p \in Phases
    BY PhaseNames
  <2> HIDE DEF p
  <2>3. StatusStep
    BY <1>a, <2>1, <2>2 DEF StatusStep, Shaped, Typed, StatusFields
  <2> QED BY <1>e, <1>l, <1>p, <2>1, <2>3 DEF Goal
<1>9. CASE GoDown \/ ComeUp
  BY <1>9, <1>a, <1>l, <1>p, <1>s DEF GoDown, ComeUp, Goal
<1>10. CASE EditLabels
  <2>1. /\ \/ \E v \in Sites \cup {None} : labels' = [labels EXCEPT !.site = v]
           \/ \E v \in {"true", None} : labels' = [labels EXCEPT !.available = v]
        /\ labels' # labels /\ UNCHANGED <<node, up, status, pass, seen>>
    BY <1>10 DEF EditLabels
  <2>2. CASE \E v \in Sites \cup {None} : labels' = [labels EXCEPT !.site = v]
    <3>1. PICK v \in Sites \cup {None} : labels' = [labels EXCEPT !.site = v]
      BY <2>2
    <3>2. Labelled(labels') /\ labels'.site \in Sites \cup {None}
      BY <1>a, <3>1 DEF Labelled, LabelKeys
    <3>3. ~HostStep
      <4>1. UNCHANGED pass /\ labels' # labels
        BY <2>1
      <4>2. PassShaped
        BY <1>a
      <4> QED BY <4>1, <4>2 DEF HostStep, HostReconcile, PatchConditions, PatchMetadata, PatchStatus,
                 Idle, PassShaped
    <3> QED BY <1>e, <1>p, <1>s, <2>1, <3>2, <3>3 DEF Goal, LabelsStep
  <2>3. CASE \E v \in {"true", None} : labels' = [labels EXCEPT !.available = v]
    <3>1. PICK v : labels' = [labels EXCEPT !.available = v]
      BY <2>3
    <3>2. Labelled(labels') /\ labels'.site = labels.site
      BY <1>a, <3>1 DEF Labelled, LabelKeys, ManagedKeys
    <3> QED BY <1>e, <1>p, <1>s, <2>1, <3>2 DEF Goal, LabelsStep
  <2> QED BY <2>1, <2>2, <2>3
<1>11. CASE UNCHANGED vars
  BY <1>11, <1>e, <1>l, <1>p, <1>s DEF vars, Goal
<1> QED BY <1>1, <1>2, <1>3, <1>4, <1>5, <1>6, <1>7, <1>8, <1>9, <1>10, <1>11 DEF Next, HostStep

\* The invariant holds before the first reconcile.
LEMMA InitDiscovery == Init => DiscoveryInv
<1> SUFFICES ASSUME Init PROVE DiscoveryInv
  OBVIOUS
<1>1. Blank \in Phases
  BY Zenon DEF Phases
<1>2. status = [phase |-> Blank, claimed |-> FALSE, probed |-> FALSE, discovered |-> FALSE, failures |-> 0,
                version |-> Blank, arch |-> Blank, platform |-> Blank, identity |-> None, hardware |-> None]
  BY Zenon DEF Init, NewStatus
<1>3. /\ node \in DOMAIN Inventory /\ up \in BOOLEAN /\ labels = [k \in LabelKeys |-> None]
      /\ pass = Idle /\ seen = None
  BY DEF Init, NoLabels
<1> HIDE DEF Init
<1>4. Shaped(status)
  BY <1>2 DEF Shaped, StatusFields
<1>5. Labelled(labels) /\ DOMAIN labels = LabelKeys /\ labels.site = None
  BY <1>3 DEF Labelled, LabelKeys
<1>6. PassShaped /\ pass.pc = "idle"
  BY <1>3 DEF PassShaped, Idle
<1>7. TypeOK
  BY <1>1, <1>2, <1>3, <1>5, <1>6, DiscoveryAssumption DEF TypeOK
<1> QED BY <1>3, <1>4, <1>5, <1>6, <1>7 DEF DiscoveryInv, RecordedIsDiscovered

\* A patch says what a handler changed of the host it read.
LEMMA PatchOfHandled ==
  ASSUME DiscoveryInv, NEW r, Handled(r), NEW field \in StatusFields
  PROVE  Changed(status, r.status)[field] = IF r.status[field] = status[field] THEN Keep ELSE r.status[field]
<1>1. DOMAIN r.status = StatusFields
  BY DEF Handled, Shaped
<1> QED BY <1>1 DEF Changed

\* Every step preserves it.
LEMMA NextDiscovery == DiscoveryInv /\ [Next]_vars => DiscoveryInv'
<1> SUFFICES ASSUME DiscoveryInv, [Next]_vars PROVE DiscoveryInv'
  OBVIOUS
<1>1. StatusStep /\ LabelsStep /\ PassStep /\ node' \in DOMAIN Inventory /\ up' \in BOOLEAN
  BY DiscoverySteps
<1>2. /\ TypeOK /\ RecordedIsDiscovered
      /\ pass.pc # "idle" => PassInv
  BY DEF DiscoveryInv
<1>3. ASSUME NEW sample, Sampled(sample)
      PROVE  Facts(sample) # None /\ Facts(sample) # Keep
  BY <1>3, AnswersFacts DEF Sampled, Facts
<1>4. RecordedIsDiscovered'
  <2>1. CASE UNCHANGED seen /\ status'.hardware = status.hardware
    BY <1>2, <2>1 DEF RecordedIsDiscovered, Sampled, Facts
  <2>2. CASE /\ pass.pc = "status"
             /\ seen' = IF pass.sample = None THEN seen ELSE pass.sample
             /\ status'.hardware = IF pass.status.hardware = Keep THEN status.hardware
                                   ELSE pass.status.hardware
    <3>1. PassInv
      BY <1>2, <2>2
    <3>2. CASE pass.sample = None
      BY <1>2, <2>2, <3>1, <3>2 DEF RecordedIsDiscovered, PassInv, Sampled, Facts
    <3>3. CASE pass.sample # None
      BY <1>2, <2>2, <3>1, <3>3 DEF RecordedIsDiscovered, PassInv, Sampled, Facts
    <3> QED BY <3>2, <3>3
  <2> QED BY <1>1, <2>1, <2>2 DEF StatusStep
<1>5. (status'.hardware = None) = (seen' = None)
  <2>1. CASE UNCHANGED seen /\ status'.hardware = status.hardware
    BY <1>2, <2>1 DEF TypeOK
  <2>2. CASE /\ pass.pc = "status"
             /\ seen' = IF pass.sample = None THEN seen ELSE pass.sample
             /\ status'.hardware = IF pass.status.hardware = Keep THEN status.hardware
                                   ELSE pass.status.hardware
    <3>1. PassInv
      BY <1>2, <2>2
    <3>2. CASE pass.sample = None
      BY <1>2, <2>2, <3>1, <3>2 DEF TypeOK, PassInv
    <3>3. CASE pass.sample # None
      BY <1>3, <2>2, <3>1, <3>3 DEF PassInv
    <3> QED BY <3>2, <3>3
  <2> QED BY <1>1, <2>1, <2>2 DEF StatusStep
<1>6. TypeOK'
  <2>1. DOMAIN labels' = LabelKeys
    BY <1>1 DEF LabelsStep, Labelled
  <2>2. labels'.site \in Sites \cup {None}
    BY <1>1, <1>2 DEF LabelsStep, TypeOK
  <2>3. pass'.pc \in {"idle", "conditions", "metadata", "status"}
    BY <1>1 DEF PassStep
  <2>4. Typed(status')
    BY <1>1 DEF StatusStep
  <2> QED BY <1>1, <1>5, <2>1, <2>2, <2>3, <2>4 DEF TypeOK, Typed
<1>7. ASSUME pass'.pc # "idle" PROVE PassInv'
  <2>1. CASE /\ pass.pc = "idle" /\ UNCHANGED <<status, seen>>
             /\ \E r : /\ Handled(r) /\ pass'.status = Changed(status, r.status)
                       /\ pass'.labels = Changed(labels, r.labels) /\ pass'.sample = r.sample
    <3>1. PICK r : /\ Handled(r) /\ pass'.status = Changed(status, r.status)
                   /\ pass'.labels = Changed(labels, r.labels) /\ pass'.sample = r.sample
      BY <2>1
    <3>2. pass'.labels.site = Keep
      BY <3>1 DEF Handled, Labelled, LabelKeys, Changed
    <3>3. \A f \in StatusFields :
            pass'.status[f] = IF r.status[f] = status[f] THEN Keep ELSE r.status[f]
      BY <3>1, PatchOfHandled
    <3>4. Typed(r.status)
      BY <3>1 DEF Handled
    <3>5. /\ pass'.status.phase \in Phases \cup {Keep}
          /\ pass'.status.failures \in (0..FailureThreshold) \cup {Keep}
          /\ pass'.status.claimed \in BOOLEAN \cup {Keep} /\ pass'.status.probed \in BOOLEAN \cup {Keep}
          /\ pass'.status.discovered \in BOOLEAN \cup {Keep}
      BY <3>3, <3>4 DEF Typed, StatusFields
    <3>6. pass'.status.hardware = IF r.status.hardware = status.hardware THEN Keep ELSE r.status.hardware
      BY <3>3 DEF StatusFields
    <3>7. \/ r.sample = None /\ r.status.hardware = status.hardware
          \/ r.sample # None /\ Sampled(r.sample) /\ r.status.hardware = Facts(r.sample)
      BY <3>1 DEF Handled
    <3>8. /\ pass'.sample = None => pass'.status.hardware = Keep
          /\ pass'.sample # None =>
               /\ Sampled(pass'.sample)
               /\ IF pass'.status.hardware = Keep THEN status'.hardware = Facts(pass'.sample)
                  ELSE pass'.status.hardware = Facts(pass'.sample)
      BY <1>3, <2>1, <3>1, <3>6, <3>7
    <3> QED BY <3>2, <3>5, <3>8 DEF PassInv, Sampled, Facts
  <2>2. CASE /\ pass.pc # "idle" /\ pass'.status = pass.status /\ pass'.labels = pass.labels
             /\ pass'.sample = pass.sample
    <3>1. status'.hardware = status.hardware
      BY <1>1, <1>7 DEF StatusStep
    <3>2. PassInv
      BY <1>2, <2>2
    <3> QED BY <2>2, <3>1, <3>2 DEF PassInv, Sampled, Facts
  <2> QED BY <1>1, <1>7, <2>1, <2>2 DEF PassStep
<1>8. Shaped(status') /\ Labelled(labels') /\ PassShaped'
  BY <1>1 DEF StatusStep, LabelsStep, PassStep
<1> QED BY <1>4, <1>6, <1>7, <1>8 DEF DiscoveryInv, Shaped, Labelled

-----------------------------------------------------------------------------
(* Theorems.                                                               *)

\* DiscoveryInv is an invariant, whatever the node answers and wherever a reconcile
\* is aborted between the three calls of its patch.
THEOREM DiscoveryInvariance == Spec => []DiscoveryInv
BY InitDiscovery, NextDiscovery, PTL DEF Spec

\* Types; in particular the failure counter stays within the threshold, and a host
\* has recorded hardware exactly when some discovery was written.
THEOREM DiscoveryTyped == Spec => []TypeOK
<1>1. DiscoveryInv => TypeOK
  BY DEF DiscoveryInv
<1> QED BY <1>1, DiscoveryInvariance, PTL

\* patchHost writes the conditions, the metadata and the rest of the status in three
\* calls of which each sends only what changed: the hardware it leaves in the status
\* is nevertheless what one discovery answered, whole, and that discovery is the last
\* one whose patch was finished.
THEOREM RecordedWhole == Spec => []RecordedIsDiscovered
<1>1. DiscoveryInv => RecordedIsDiscovered
  BY DEF DiscoveryInv
<1> QED BY <1>1, DiscoveryInvariance, PTL

\* applyDiscoveryLabels and the metadata patch: no step of the host controller changes
\* a label that is not its own, whatever an operator writes between the read and the
\* patch.
THEOREM OperatorLabelsAreKept == Spec => OperatorLabelsKept
<1>1. DiscoveryInv /\ [Next]_vars => [HostStep => labels'.site = labels.site]_vars
  BY DiscoverySteps DEF LabelsStep
<1> QED BY <1>1, DiscoveryInvariance, PTL DEF Spec, OperatorLabelsKept

-----------------------------------------------------------------------------
(* The identity.                                                           *)

\* A patch under way leaves the identity alone or brings the one of its sample.
IdentityInv ==
  pass.pc # "idle" =>
    \/ pass.status.identity = Keep
    \/ /\ pass.status.identity # None /\ pass.sample # None
       /\ pass.status.identity = discoverIdentity(Inventory[pass.sample.node], pass.sample.lost)

\* An identity without a UUID is one of which none was read, and has a MAC.
LEMMA IdentityWithoutUUID ==
  ASSUME NEW inv, NEW lost, NEW identity, identity = discoverIdentity(inv, lost), identity # None,
         identity.uuid = Blank
  PROVE  ("smbios" \in lost \/ inv.uuid = Blank) /\ identity.mac # Blank
<1> DEFINE mac == IF "mac" \in lost \/ inv.mac = "zero" THEN Blank ELSE inv.mac
           uuid == IF "smbios" \in lost THEN Blank ELSE inv.uuid
<1>1. identity = IF uuid = Blank /\ mac = Blank THEN None ELSE [uuid |-> uuid, mac |-> mac]
  BY Zenon DEF discoverIdentity
<1>2. [uuid |-> uuid, mac |-> mac].uuid = uuid /\ [uuid |-> uuid, mac |-> mac].mac = mac
  BY Zenon
<1>3. uuid = Blank => "smbios" \in lost \/ inv.uuid = Blank
  BY Zenon
<1> QED BY <1>1, <1>2, <1>3, Zenon

\* Every step preserves the invariant of the identity.
LEMMA NextIdentity == DiscoveryInv /\ IdentityInv /\ [Next]_vars => IdentityInv'
<1> SUFFICES ASSUME DiscoveryInv, IdentityInv, [Next]_vars, pass'.pc # "idle"
             PROVE  IdentityInv'
  BY DEF IdentityInv
<1>1. PassStep
  BY DiscoverySteps
<1>2. CASE pass.pc # "idle" /\ pass'.status = pass.status /\ pass'.sample = pass.sample
  BY <1>2 DEF IdentityInv
<1>3. CASE \E r : Handled(r) /\ pass'.status = Changed(status, r.status) /\ pass'.sample = r.sample
  <2>1. PICK r : Handled(r) /\ pass'.status = Changed(status, r.status) /\ pass'.sample = r.sample
    BY <1>3
  <2>2. pass'.status.identity = IF r.status.identity = status.identity THEN Keep ELSE r.status.identity
    BY <2>1, PatchOfHandled DEF StatusFields
  <2>3. Identifies(r.status.identity, status.identity, r.sample)
    BY <2>1 DEF Handled
  <2> QED BY <2>1, <2>2, <2>3 DEF Identifies, IdentityInv
<1> QED BY <1>1, <1>2, <1>3 DEF PassStep

\* populateFromDiscovery keeps an identity that a discovery could not read: once a
\* host has one, no reconcile, whatever reads it lost, and no call or crash between
\* its patches takes it away; its UUID goes only with a discovery that read no UUID
\* but a MAC.
THEOREM IdentityIsKept == Spec => IdentityKept
<1>1. Init => IdentityInv
  BY DEF Init, Idle, IdentityInv
<1> DEFINE Kept == status.identity # None =>
                     /\ status'.identity # None
                     /\ status.identity.uuid # Blank /\ status'.identity.uuid = Blank =>
                          NoUUIDRead' /\ status'.identity.mac # Blank
<1>3. DiscoveryInv /\ IdentityInv /\ [Next]_vars => [Kept]_vars
  <2> SUFFICES ASSUME DiscoveryInv, IdentityInv, [Next]_vars, status.identity # None
               PROVE  /\ status'.identity # None
                      /\ status.identity.uuid # Blank /\ status'.identity.uuid = Blank =>
                           NoUUIDRead' /\ status'.identity.mac # Blank
    BY Zenon
  <2>1. \/ status'.identity = status.identity
        \/ /\ pass.pc = "status" /\ pass.status.identity # Keep
           /\ status'.identity = pass.status.identity
           /\ seen' = IF pass.sample = None THEN seen ELSE pass.sample
    BY DiscoverySteps DEF StatusStep
  <2>2. CASE status'.identity = status.identity
    BY <2>2, Zenon
  <2>3. CASE /\ pass.pc = "status" /\ pass.status.identity # Keep
             /\ status'.identity = pass.status.identity
             /\ seen' = IF pass.sample = None THEN seen ELSE pass.sample
    <3>1. /\ status'.identity # None /\ seen' # None
          /\ status'.identity = discoverIdentity(Inventory[seen'.node], seen'.lost)
      BY <2>3 DEF IdentityInv
    <3>2. status'.identity.uuid = Blank =>
            /\ "smbios" \in seen'.lost \/ Inventory[seen'.node].uuid = Blank
            /\ status'.identity.mac # Blank
      BY <3>1, IdentityWithoutUUID
    <3> QED BY <3>1, <3>2, Zenon DEF NoUUIDRead
  <2> QED BY <2>1, <2>2, <2>3
<1> QED BY <1>1, <1>3, NextIdentity, DiscoveryInvariance, PTL DEF Spec, IdentityKept

-----------------------------------------------------------------------------
(* The loops of discoverCPU and discoverGPUs.                              *)

\* The cores of one socket.
LEMMA CoresOfSocket ==
  ASSUME NEW i, NEW c \in Nat
  PROVE  IsFiniteSet({i} \X (1..c)) /\ Cardinality({i} \X (1..c)) = c
<1>1. IsFiniteSet({i}) /\ Cardinality({i}) = 1
  BY FS_Singleton
<1>2. IsFiniteSet(1..c) /\ Cardinality(1..c) = c
  BY FS_Interval
<1>3. /\ IsFiniteSet({i} \X (1..c))
      /\ Cardinality({i} \X (1..c)) = Cardinality({i}) * Cardinality(1..c)
  BY <1>1, <1>2, FS_Product
<1> QED BY <1>1, <1>2, <1>3

\* What the loop over the processors adds up: the cores of the populated sockets,
\* and their names.
LEMMA ProcessorsCounted ==
  ASSUME NEW procs \in Seq(Processor)
  PROVE  LET sockets == {i \in 1..Len(procs) : procs[i].socket # Blank}
             cores == UNION {{i} \X (1..procs[i].cores) : i \in sockets}
             found == CountProcessors(procs)
         IN  /\ IsFiniteSet(cores) /\ found.cores = Cardinality(cores)
             /\ found.sockets = {procs[i].socket : i \in sockets} /\ IsFiniteSet(found.sockets)
<1> DEFINE N == Len(procs)
           S == [cores: Nat, sockets: SUBSET Text]
           zero == [cores |-> 0, sockets |-> {}]
           Add(x, n) == [cores |-> x.cores + procs[n].cores, sockets |-> x.sockets \cup {procs[n].socket}]
           F == [n \in 1..N |-> [x \in S |-> IF Populated(procs[n]) THEN Add(x, n) ELSE x]]
           Loop(g) == [n \in 0..N |-> IF n = 0 THEN zero
                                      ELSE IF Populated(procs[n]) THEN Add(g[n - 1], n) ELSE g[n - 1]]
           done == CHOOSE g : g = Loop(g)
           I(n) == {i \in 1..n : procs[i].socket # Blank}
           C(n) == UNION {{i} \X (1..procs[i].cores) : i \in I(n)}
           Q(n) == /\ IsFiniteSet(C(n)) /\ done[n].cores = Cardinality(C(n))
                   /\ done[n].sockets = {procs[i].socket : i \in I(n)} /\ IsFiniteSet(done[n].sockets)
           T == {n \in 0..N : Q(n)}
<1>1. N \in Nat /\ \A n \in 1..N : procs[n].cores \in Nat /\ procs[n].socket \in Text
  <2>1. N \in Nat /\ \A n \in 1..N : procs[n] \in Processor
    OBVIOUS
  <2> QED
    BY <2>1 DEF Processor
<1>2. CountProcessors(procs) = done[N]
  BY Zenon DEF CountProcessors
<1>3. F \in [1..N -> [S -> S]]
  <2>1. ASSUME NEW n \in 1..N, NEW x \in S
        PROVE  Add(x, n) \in S
    BY <1>1
  <2> HIDE DEF Add, S
  <2> QED
    BY <2>1
<1>4. \E f : f = Loop(f)
  <2>1. zero \in S
    OBVIOUS
  <2> HIDE DEF F, S, zero, Add
  <2>2. PICK f \in [0..N -> S] : IsRun(f, N, zero, F)
    BY <1>1, <1>3, <2>1, LoopRuns
  <2>3. ASSUME NEW n \in 0..N
        PROVE  f[n] = IF n = 0 THEN zero
                      ELSE IF Populated(procs[n]) THEN Add(f[n - 1], n) ELSE f[n - 1]
    <3>1. CASE n = 0
      BY <2>2, <3>1 DEF IsRun
    <3>2. CASE n # 0
      <4>1. n \in 1..N /\ f[n - 1] \in S
        BY <1>1, <3>2
      <4>2. f[n] = F[n][f[n - 1]]
        BY <2>2, <4>1 DEF IsRun
      <4> QED
        BY <3>2, <4>1, <4>2 DEF F
    <3> QED
      BY <3>1, <3>2
  <2>4. f = Loop(f)
    BY <2>3
  <2> QED
    BY <2>4
<1>5. done = Loop(done)
  BY <1>4
<1> HIDE DEF done
<1>a. /\ done[0] = zero
      /\ \A n \in 1..N : done[n] = IF Populated(procs[n]) THEN Add(done[n - 1], n) ELSE done[n - 1]
  <2> HIDE DEF zero, Add
  <2> QED
    BY <1>1, <1>5
<1>6. 0 \in T
  <2>1. done[0].cores = 0 /\ done[0].sockets = {}
    BY <1>a
  <2>2. I(0) = {} /\ C(0) = {} /\ {procs[i].socket : i \in I(0)} = {}
    OBVIOUS
  <2> HIDE DEF I, C
  <2>3. IsFiniteSet({}) /\ Cardinality({}) = 0
    BY FS_EmptySet
  <2>4. IsFiniteSet(C(0)) /\ Cardinality(C(0)) = 0 /\ IsFiniteSet(done[0].sockets)
    BY <2>1, <2>2, <2>3
  <2>5. Q(0)
    BY <2>1, <2>2, <2>4
  <2> HIDE DEF Q
  <2> QED
    BY <1>1, <2>5
<1>7. ASSUME NEW n \in 1..N, n - 1 \in T
      PROVE  n \in T
  <2>1. /\ IsFiniteSet(C(n - 1)) /\ done[n - 1].cores = Cardinality(C(n - 1))
        /\ done[n - 1].sockets = {procs[i].socket : i \in I(n - 1)} /\ IsFiniteSet(done[n - 1].sockets)
    <3>1. Q(n - 1)
      <4> HIDE DEF Q
      <4> QED
        BY <1>7
    <3> QED
      BY <3>1
  <2>2. n \in 0..N /\ n - 1 \in Nat /\ procs[n].cores \in Nat
    BY <1>1
  <2>3. CASE ~Populated(procs[n])
    <3>1. done[n] = done[n - 1]
      BY <1>a, <2>3
    <3>2. I(n) = I(n - 1)
      BY <2>2, <2>3 DEF Populated
    <3>3. C(n) = C(n - 1) /\ {procs[i].socket : i \in I(n)} = {procs[i].socket : i \in I(n - 1)}
      BY <3>2
    <3> HIDE DEF I, C
    <3>4. Q(n)
      BY <2>1, <3>1, <3>3
    <3> HIDE DEF Q
    <3> QED
      BY <2>2, <3>4
  <2>4. CASE Populated(procs[n])
    <3> DEFINE D == {n} \X (1..procs[n].cores)
    <3>0. done[n] = Add(done[n - 1], n)
      <4> HIDE DEF Add
      <4> QED
        BY <1>a, <2>4
    <3>1. done[n].cores = done[n - 1].cores + procs[n].cores
      BY <3>0
    <3>2. done[n].sockets = done[n - 1].sockets \cup {procs[n].socket}
      BY <3>0
    <3>3. I(n) = I(n - 1) \cup {n}
      BY <2>2, <2>4 DEF Populated
    <3>4. {procs[i].socket : i \in I(n)} = {procs[i].socket : i \in I(n - 1)} \cup {procs[n].socket}
      BY <3>3
    <3>5. C(n) = C(n - 1) \cup D
      BY <3>3
    <3>6. C(n - 1) \cap D = {}
      <4>1. n \notin I(n - 1)
        BY <2>2
      <4> HIDE DEF I
      <4> QED
        BY <4>1
    <3> HIDE DEF I, C
    <3>7. IsFiniteSet(D) /\ Cardinality(D) = procs[n].cores
      BY <2>2, CoresOfSocket
    <3> HIDE DEF D
    <3>8. /\ IsFiniteSet(C(n))
          /\ Cardinality(C(n)) = Cardinality(C(n - 1)) + Cardinality(D) - Cardinality(C(n - 1) \cap D)
      <4>1. /\ IsFiniteSet(C(n - 1) \cup D)
            /\ Cardinality(C(n - 1) \cup D) =
                 Cardinality(C(n - 1)) + Cardinality(D) - Cardinality(C(n - 1) \cap D)
        BY <2>1, <3>7, FS_Union
      <4> QED
        BY <3>5, <4>1
    <3>9. Cardinality(C(n - 1) \cap D) = 0 /\ Cardinality(C(n - 1)) \in Nat
      BY <2>1, <3>6, FS_EmptySet, FS_CardinalityType
    <3>10. Cardinality(C(n)) = done[n].cores
      BY <2>1, <2>2, <3>1, <3>7, <3>8, <3>9
    <3>11. IsFiniteSet(done[n].sockets)
      <4>1. IsFiniteSet(done[n - 1].sockets \cup {procs[n].socket})
        BY <2>1, FS_AddElement
      <4> QED
        BY <3>2, <4>1
    <3>12. done[n].sockets = {procs[i].socket : i \in I(n)}
      BY <2>1, <3>2, <3>4
    <3>13. Q(n)
      BY <3>8, <3>10, <3>11, <3>12
    <3> HIDE DEF Q
    <3> QED
      BY <2>2, <3>13
  <2> QED
    BY <2>3, <2>4
<1> HIDE DEF T
<1>8. 0..N \subseteq T
  BY <1>1, <1>6, <1>7, BoundedInduction
<1>9. N \in T
  BY <1>1, <1>8
<1> QED
  BY <1>2, <1>9 DEF T

\* What the loop over the PCI devices counts: the GPUs, and the pairs among them.
LEMMA GPUsCounted ==
  ASSUME NEW pci \in Seq(Device)
  PROVE  LET gpus == {i \in 1..Len(pci) : IsGPU(pci[i])}
             found == CountGPUs(pci)
         IN  /\ IsFiniteSet(gpus) /\ found.count = Cardinality(gpus)
             /\ found.pairs = {<<pci[i].vendor, pci[i].device>> : i \in gpus}
             /\ IsFiniteSet(found.pairs)
<1> DEFINE N == Len(pci)
           Pair(n) == <<pci[n].vendor, pci[n].device>>
           S == [count: Nat, pairs: SUBSET (Text \X Text)]
           zero == [count |-> 0, pairs |-> {}]
           Add(x, n) == [count |-> x.count + 1, pairs |-> x.pairs \cup {Pair(n)}]
           F == [n \in 1..N |-> [x \in S |-> IF IsGPU(pci[n]) THEN Add(x, n) ELSE x]]
           Loop(g) == [n \in 0..N |-> IF n = 0 THEN zero
                                      ELSE IF IsGPU(pci[n]) THEN Add(g[n - 1], n) ELSE g[n - 1]]
           done == CHOOSE g : g = Loop(g)
           I(n) == {i \in 1..n : IsGPU(pci[i])}
           Q(n) == /\ IsFiniteSet(I(n)) /\ done[n].count = Cardinality(I(n))
                   /\ done[n].pairs = {Pair(i) : i \in I(n)} /\ IsFiniteSet(done[n].pairs)
           T == {n \in 0..N : Q(n)}
<1>1. N \in Nat /\ \A n \in 1..N : Pair(n) \in Text \X Text
  <2>1. N \in Nat /\ \A n \in 1..N : pci[n] \in Device
    OBVIOUS
  <2> QED
    BY <2>1 DEF Device
<1>2. CountGPUs(pci) = done[N]
  BY Zenon DEF CountGPUs
<1>3. F \in [1..N -> [S -> S]]
  <2> HIDE DEF Pair
  <2>1. ASSUME NEW n \in 1..N, NEW x \in S
        PROVE  Add(x, n) \in S
    BY <1>1
  <2> HIDE DEF Add, S
  <2> QED
    BY <2>1
<1>4. \E f : f = Loop(f)
  <2>1. zero \in S
    OBVIOUS
  <2> HIDE DEF F, S, zero, Add
  <2>2. PICK f \in [0..N -> S] : IsRun(f, N, zero, F)
    BY <1>1, <1>3, <2>1, LoopRuns
  <2>3. ASSUME NEW n \in 0..N
        PROVE  f[n] = IF n = 0 THEN zero
                      ELSE IF IsGPU(pci[n]) THEN Add(f[n - 1], n) ELSE f[n - 1]
    <3>1. CASE n = 0
      BY <2>2, <3>1 DEF IsRun
    <3>2. CASE n # 0
      <4>1. n \in 1..N /\ f[n - 1] \in S
        BY <1>1, <3>2
      <4>2. f[n] = F[n][f[n - 1]]
        BY <2>2, <4>1 DEF IsRun
      <4> QED
        BY <3>2, <4>1, <4>2 DEF F
    <3> QED
      BY <3>1, <3>2
  <2>4. f = Loop(f)
    BY <2>3
  <2> QED
    BY <2>4
<1>5. done = Loop(done)
  BY <1>4
<1> HIDE DEF done, Pair
<1>6. /\ done[0] = zero
      /\ \A n \in 1..N : done[n] = IF IsGPU(pci[n]) THEN Add(done[n - 1], n) ELSE done[n - 1]
  <2> HIDE DEF zero, Add
  <2>1. N \in Nat
    BY <1>1
  <2>2. done[0] = zero
    BY <1>5, <2>1
  <2>3. ASSUME NEW n \in 1..N
        PROVE  done[n] = IF IsGPU(pci[n]) THEN Add(done[n - 1], n) ELSE done[n - 1]
    BY <1>5, <2>1
  <2> QED
    BY <2>2, <2>3
<1>7. 0 \in T
  <2>1. done[0].count = 0 /\ done[0].pairs = {}
    BY <1>6
  <2>2. I(0) = {} /\ {Pair(i) : i \in I(0)} = {}
    OBVIOUS
  <2> HIDE DEF I
  <2>3. IsFiniteSet({}) /\ Cardinality({}) = 0
    BY FS_EmptySet
  <2>4. IsFiniteSet(I(0)) /\ Cardinality(I(0)) = 0 /\ IsFiniteSet(done[0].pairs)
    BY <2>1, <2>2, <2>3
  <2>5. Q(0)
    BY <2>1, <2>2, <2>4
  <2> HIDE DEF Q
  <2> QED
    BY <1>1, <2>5
<1>8. ASSUME NEW n \in 1..N, n - 1 \in T
      PROVE  n \in T
  <2>1. /\ IsFiniteSet(I(n - 1)) /\ done[n - 1].count = Cardinality(I(n - 1))
        /\ done[n - 1].pairs = {Pair(i) : i \in I(n - 1)} /\ IsFiniteSet(done[n - 1].pairs)
    <3>1. Q(n - 1)
      <4> HIDE DEF Q
      <4> QED
        BY <1>8
    <3> QED
      BY <3>1
  <2>2. n \in 0..N /\ n - 1 \in Nat
    BY <1>1
  <2>3. CASE ~IsGPU(pci[n])
    <3>1. done[n] = done[n - 1]
      BY <1>6, <2>3
    <3>2. I(n) = I(n - 1)
      BY <2>2, <2>3
    <3>3. {Pair(i) : i \in I(n)} = {Pair(i) : i \in I(n - 1)}
      BY <3>2
    <3> HIDE DEF I
    <3>4. Q(n)
      BY <2>1, <3>1, <3>2, <3>3
    <3> HIDE DEF Q
    <3> QED
      BY <2>2, <3>4
  <2>4. CASE IsGPU(pci[n])
    <3>1. done[n] = Add(done[n - 1], n)
      <4> HIDE DEF Add
      <4> QED
        BY <1>6, <2>4
    <3>2. done[n].count = done[n - 1].count + 1
      BY <3>1
    <3>3. done[n].pairs = done[n - 1].pairs \cup {Pair(n)}
      BY <3>1
    <3>4. I(n) = I(n - 1) \cup {n}
      BY <2>2, <2>4
    <3>5. {Pair(i) : i \in I(n)} = {Pair(i) : i \in I(n - 1)} \cup {Pair(n)}
      BY <3>4
    <3>6. ~(n \in I(n - 1))
      BY <2>2
    <3> HIDE DEF I
    <3>7. IsFiniteSet(I(n)) /\ Cardinality(I(n)) = Cardinality(I(n - 1)) + 1
      <4>1. /\ IsFiniteSet(I(n - 1) \cup {n})
            /\ Cardinality(I(n - 1) \cup {n}) =
                 IF n \in I(n - 1) THEN Cardinality(I(n - 1)) ELSE Cardinality(I(n - 1)) + 1
        BY <2>1, FS_AddElement
      <4> QED
        BY <3>4, <3>6, <4>1
    <3>8. IsFiniteSet(done[n].pairs)
      <4>1. IsFiniteSet(done[n - 1].pairs \cup {Pair(n)})
        BY <2>1, FS_AddElement
      <4> QED
        BY <3>3, <4>1
    <3>9. done[n].pairs = {Pair(i) : i \in I(n)}
      BY <2>1, <3>3, <3>5
    <3>10. done[n].count = Cardinality(I(n))
      BY <2>1, <3>2, <3>7
    <3>11. Q(n)
      BY <3>7, <3>8, <3>9, <3>10
    <3> HIDE DEF Q
    <3> QED
      BY <2>2, <3>11
  <2> QED
    BY <2>3, <2>4
<1> HIDE DEF T
<1>9. 0..N \subseteq T
  BY <1>1, <1>7, <1>8, BoundedInduction
<1>10. N \in T
  BY <1>1, <1>9
<1> QED
  BY <1>2, <1>10 DEF T, Pair

\* A summary in which only the count is known.
LEMMA CountedSummary ==
  ASSUME NEW c \in Nat
  PROVE  LET gpu == [NoGPUFacts EXCEPT !.count = c]
         IN  /\ gpu \in GPUSummary /\ gpu.count = c /\ gpu.vendor = Blank /\ gpu.device = Blank
             /\ gpu.model = Blank /\ gpu.memoryPerGPU = 0 /\ gpu.totalMemory = 0 /\ gpu.mixed = FALSE
<1>1. Blank \in Text
  BY HardwareAssumption
<1>2. NoGPUFacts \in GPUSummary
  BY <1>1 DEF NoGPUFacts, GPUSummary
<1>3. /\ NoGPUFacts.vendor = Blank /\ NoGPUFacts.device = Blank
      /\ NoGPUFacts.model = Blank /\ NoGPUFacts.memoryPerGPU = 0 /\ NoGPUFacts.totalMemory = 0
  BY DEF NoGPUFacts
<1>4. NoGPUFacts.mixed = FALSE
  BY Zenon DEF NoGPUFacts
<1> QED
  BY <1>2, <1>3, <1>4 DEF GPUSummary

\* The summary of GPUs of one pair.
LEMMA HomogeneousSummary ==
  ASSUME NEW g \in GPUSummary, NEW p, VendorNames[p[1]] \in Text, p[2] \in Text,
         g.model = Blank, g.memoryPerGPU = 0, g.totalMemory = 0, g.mixed = FALSE,
         p \in DOMAIN ModelTable => ModelTable[p].model \in Text /\ ModelTable[p].memory \in Nat
  PROVE  LET gpu == populateHomogeneousGPU(g, p)
         IN  /\ gpu \in GPUSummary /\ gpu.count = g.count
             /\ gpu.vendor = VendorNames[p[1]] /\ gpu.device = p[2]
             /\ gpu.model = IF p \in DOMAIN ModelTable THEN ModelTable[p].model ELSE Blank
             /\ gpu.totalMemory = gpu.count * gpu.memoryPerGPU
             /\ gpu.mixed = FALSE
<1> DEFINE v == VendorNames[p[1]]
           d == p[2]
           model == ModelTable[p].model
           memory == ModelTable[p].memory
           named == [g EXCEPT !.vendor = v, !.device = d]
           known == [named EXCEPT !.model = model, !.memoryPerGPU = memory,
                                  !.totalMemory = g.count * memory]
<1>1. populateHomogeneousGPU(g, p) = IF p \in DOMAIN ModelTable THEN known ELSE named
  BY DEF populateHomogeneousGPU
<1>2. v \in Text /\ d \in Text /\ (p \in DOMAIN ModelTable => model \in Text /\ memory \in Nat)
  OBVIOUS
<1> HIDE DEF v, d, model, memory
<1>3. /\ named \in GPUSummary /\ named.count = g.count /\ named.vendor = v /\ named.device = d
      /\ named.model = Blank /\ named.memoryPerGPU = 0 /\ named.totalMemory = 0
      /\ named.mixed = FALSE
  BY <1>2 DEF GPUSummary
<1> HIDE DEF named
<1>4. g.count \in Nat
  BY DEF GPUSummary
<1>5. CASE p \in DOMAIN ModelTable
  <2>1. g.count * memory \in Nat
    BY <1>2, <1>4, <1>5
  <2> DEFINE total == g.count * memory
  <2>2. total \in Nat
    BY <2>1
  <2> HIDE DEF total
  <2>3. known = [named EXCEPT !.model = model, !.memoryPerGPU = memory, !.totalMemory = total]
    BY DEF total
  <2> HIDE DEF known
  <2>4. /\ known \in GPUSummary /\ known.count = g.count /\ known.vendor = v /\ known.device = d
        /\ known.model = model /\ known.memoryPerGPU = memory /\ known.totalMemory = total
        /\ known.mixed = FALSE
    BY <1>2, <1>3, <1>5, <2>2, <2>3 DEF GPUSummary
  <2>5. populateHomogeneousGPU(g, p) = known
    BY <1>1, <1>5
  <2> QED
    BY <1>5, <2>4, <2>5 DEF v, d, model, total
<1>6. CASE ~(p \in DOMAIN ModelTable)
  <2>1. populateHomogeneousGPU(g, p) = named
    BY <1>1, <1>6
  <2>2. named.totalMemory = named.count * named.memoryPerGPU
    BY <1>3, <1>4
  <2> QED
    BY <1>3, <1>6, <2>1, <2>2 DEF v, d
<1> QED
  BY <1>5, <1>6

\* The summary of GPUs of several pairs.
LEMMA MixedSummary ==
  ASSUME NEW g \in GPUSummary, NEW pairs,
         \A p \in pairs : VendorNames[p[1]] \in Text,
         g.vendor = Blank, g.device = Blank, g.model = Blank, g.memoryPerGPU = 0, g.totalMemory = 0
  PROVE  LET vendors == {p[1] : p \in pairs}
             gpu == populateMixedGPU(g, pairs)
         IN  /\ gpu \in GPUSummary /\ gpu.count = g.count
             /\ gpu.vendor = IF Cardinality(vendors) = 1
                               THEN VendorNames[CHOOSE v \in vendors : TRUE] ELSE Blank
             /\ gpu.device = Blank /\ gpu.model = Blank
             /\ gpu.totalMemory = gpu.count * gpu.memoryPerGPU
             /\ gpu.mixed = TRUE
<1> DEFINE vendors == {p[1] : p \in pairs}
           one == VendorNames[CHOOSE v \in vendors : TRUE]
           vendor == IF Cardinality(vendors) = 1 THEN one ELSE g.vendor
           gpu == [g EXCEPT !.mixed = TRUE, !.vendor = vendor]
<1>1. populateMixedGPU(g, pairs) = gpu
  BY DEF populateMixedGPU
<1>2. g.vendor \in Text /\ g.count \in Nat
  BY DEF GPUSummary
<1>3. vendor \in Text
  <2>1. CASE Cardinality(vendors) = 1
    <3>1. vendors # {}
      <4> HIDE DEF vendors
      <4> QED
        BY <2>1, FS_EmptySet
    <3>2. (CHOOSE v \in vendors : TRUE) \in vendors
      BY <3>1
    <3>3. one \in Text
      BY <3>2
    <3> QED
      BY <2>1, <3>3
  <2>2. CASE Cardinality(vendors) # 1
    BY <1>2, <2>2
  <2> QED
    BY <2>1, <2>2
<1>4. vendor = IF Cardinality(vendors) = 1 THEN one ELSE Blank
  OBVIOUS
<1> HIDE DEF vendor, vendors, one
<1>5. /\ gpu \in GPUSummary /\ gpu.count = g.count /\ gpu.vendor = vendor /\ gpu.device = Blank
      /\ gpu.model = Blank /\ gpu.memoryPerGPU = 0 /\ gpu.totalMemory = 0
  BY <1>3 DEF GPUSummary
<1>6. gpu.mixed = TRUE
  BY DEF GPUSummary
<1> HIDE DEF gpu
<1>7. gpu.totalMemory = gpu.count * gpu.memoryPerGPU
  BY <1>2, <1>5
<1> QED
  BY <1>1, <1>4, <1>5, <1>6, <1>7 DEF vendors, one

\* The GPU summary describes the GPUs: all of them are counted, what it names they
\* share.
LEMMA GPUsDescribed ==
  ASSUME NEW inv, inv.pci \in Seq(Device), NEW lost
  PROVE  LET gpus == discoverGPUs(inv, lost)
         IN  /\ ~("pci" \in lost) => GPUsFaithful(inv, gpus)
             /\ gpus = None \/ gpus \in GPUSummary
             /\ gpus # None /\ gpus.model # Blank =>
                  \A i \in GPUsOf(inv) :
                    ModelTable[<<inv.pci[i].vendor, inv.pci[i].device>>].model = gpus.model
<1> DEFINE pci == inv.pci
           all == GPUsOf(inv)
           found == CountGPUs(pci)
           pairs == found.pairs
           counted == [NoGPUFacts EXCEPT !.count = found.count]
           gpus == discoverGPUs(inv, lost)
           Pair(i) == <<pci[i].vendor, pci[i].device>>
           Same == gpus # None /\ gpus.model # Blank => \A i \in all : ModelTable[Pair(i)].model = gpus.model
           one == CHOOSE p \in pairs : TRUE
<1>1. /\ IsFiniteSet(all) /\ found.count = Cardinality(all)
      /\ pairs = {Pair(i) : i \in all} /\ IsFiniteSet(pairs)
  <2>1. all = {i \in 1..Len(pci) : IsGPU(pci[i])}
    BY DEF GPUsOf, IsGPU
  <2> QED
    BY <2>1, GPUsCounted
<1>2. ASSUME NEW i \in all
      PROVE  /\ pci[i].vendor \in DOMAIN VendorNames /\ pci[i].device \in Text
             /\ Pair(i)[1] = pci[i].vendor /\ Pair(i)[2] = pci[i].device
  <2>1. i \in DOMAIN pci /\ pci[i].vendor \in DOMAIN VendorNames
    BY DEF GPUsOf
  <2>2. pci[i] \in Device
    BY <2>1
  <2> QED
    BY <2>1, <2>2 DEF Device
<1>3. gpus = IF "pci" \in lost \/ pairs = {} THEN None
             ELSE IF Cardinality(pairs) = 1 THEN populateHomogeneousGPU(counted, one)
             ELSE populateMixedGPU(counted, pairs)
  BY Zenon DEF discoverGPUs
<1>4. /\ \A v \in DOMAIN VendorNames : VendorNames[v] \in Text
      /\ \A p \in DOMAIN ModelTable : ModelTable[p].model \in Text /\ ModelTable[p].memory \in Nat
      /\ ~(None \in GPUSummary)
  BY HardwareAssumption
<1>5. found.count \in Nat
  BY <1>1, FS_CardinalityType
<1>6. /\ counted \in GPUSummary /\ counted.count = found.count /\ counted.vendor = Blank
      /\ counted.device = Blank /\ counted.model = Blank /\ counted.memoryPerGPU = 0
      /\ counted.totalMemory = 0 /\ counted.mixed = FALSE
  BY <1>5, CountedSummary
<1>7. GPUsFaithful(inv, gpus) =
        (/\ (gpus = None <=> all = {})
         /\ gpus # None =>
              /\ gpus.count = Cardinality(all)
              /\ gpus.vendor # Blank => \A i \in all : VendorNames[pci[i].vendor] = gpus.vendor
              /\ gpus.device # Blank => \A i \in all : pci[i].device = gpus.device
              /\ gpus.mixed = (Cardinality({Pair(i) : i \in all}) > 1)
              /\ gpus.totalMemory = gpus.count * gpus.memoryPerGPU)
  BY Zenon DEF GPUsFaithful
<1>8. Cardinality(pairs) \in Nat /\ (Cardinality(pairs) = 0 <=> pairs = {}) /\ (pairs = {} <=> all = {})
  <2>1. Cardinality(pairs) \in Nat
    BY <1>1, FS_CardinalityType
  <2>2. Cardinality(pairs) = 0 <=> pairs = {}
    BY <1>1, FS_EmptySet
  <2>3. pairs = {} <=> all = {}
    <3> HIDE DEF Pair, pairs, all
    <3> QED
      BY <1>1
  <2> QED
    BY <2>1, <2>2, <2>3
<1> HIDE DEF counted, found, gpus, all, one
<1>9. CASE "pci" \in lost \/ pairs = {}
  <2>1. gpus = None
    BY <1>3, <1>9
  <2>2. ~("pci" \in lost) => GPUsFaithful(inv, gpus)
    BY <1>7, <1>8, <1>9, <2>1
  <2> QED
    BY <2>1, <2>2 DEF gpus
<1>10. CASE ~("pci" \in lost) /\ pairs # {} /\ Cardinality(pairs) = 1
  <2>1. PICK x : pairs = {x}
    BY <1>1, <1>10, FS_Singleton
  <2>2. one = x
    BY <2>1 DEF one
  <2>3. gpus = populateHomogeneousGPU(counted, x)
    BY <1>3, <1>10, <2>2
  <2>4. \A i \in all : Pair(i) = x
    BY <1>1, <2>1
  <2>5. PICK k \in all : x = Pair(k)
    BY <1>1, <2>1
  <2>6. VendorNames[x[1]] \in Text /\ x[2] \in Text
    BY <1>2, <1>4, <2>5
  <2> HIDE DEF Pair
  <2>7. /\ gpus \in GPUSummary /\ gpus.count = counted.count
        /\ gpus.vendor = VendorNames[x[1]] /\ gpus.device = x[2]
        /\ gpus.model = IF x \in DOMAIN ModelTable THEN ModelTable[x].model ELSE Blank
        /\ gpus.totalMemory = gpus.count * gpus.memoryPerGPU
        /\ gpus.mixed = FALSE
    BY <1>4, <1>6, <2>3, <2>6, HomogeneousSummary
  <2>8. gpus # None /\ all # {}
    BY <1>4, <1>8, <1>10, <2>7
  <2>9. gpus.mixed = (Cardinality({Pair(i) : i \in all}) > 1)
    <3>1. (Cardinality(pairs) > 1) = FALSE
      BY <1>10
    <3>2. {Pair(i) : i \in all} = pairs
      BY <1>1
    <3>3. gpus.mixed = FALSE
      BY <2>7
    <3> QED
      BY <3>1, <3>2, <3>3, Zenon
  <2>10. \A i \in all : x[1] = pci[i].vendor /\ x[2] = pci[i].device
    BY <1>2, <2>4
  <2>11. GPUsFaithful(inv, gpus)
    <3>1. gpus.count = Cardinality(all)
      BY <1>1, <1>6, <2>7
    <3>2. \A i \in all : VendorNames[pci[i].vendor] = gpus.vendor /\ pci[i].device = gpus.device
      BY <2>7, <2>10
    <3>3. gpus.totalMemory = gpus.count * gpus.memoryPerGPU
      BY <2>7
    <3> QED
      BY <1>7, <2>8, <2>9, <3>1, <3>2, <3>3, Zenon
  <2>12. Same
    BY <2>4, <2>7
  <2> QED
    BY <2>7, <2>11, <2>12 DEF gpus, Pair, all
<1>11. CASE ~("pci" \in lost) /\ pairs # {} /\ Cardinality(pairs) # 1
  <2> DEFINE vendors == {p[1] : p \in pairs}
  <2>1. gpus = populateMixedGPU(counted, pairs)
    BY <1>3, <1>11
  <2>2. \A p \in pairs : VendorNames[p[1]] \in Text
    BY <1>1, <1>2, <1>4
  <2>3. \A i \in all : pci[i].vendor \in vendors
    BY <1>1, <1>2
  <2> HIDE DEF Pair
  <2>4. /\ gpus \in GPUSummary /\ gpus.count = counted.count
        /\ gpus.vendor = IF Cardinality(vendors) = 1
                           THEN VendorNames[CHOOSE v \in vendors : TRUE] ELSE Blank
        /\ gpus.device = Blank /\ gpus.model = Blank
        /\ gpus.totalMemory = gpus.count * gpus.memoryPerGPU
        /\ gpus.mixed = TRUE
    BY <1>6, <2>1, <2>2, MixedSummary
  <2>5. gpus # None /\ all # {}
    BY <1>4, <1>8, <1>11, <2>4
  <2>6. Cardinality(pairs) > 1
    BY <1>8, <1>11
  <2>7. gpus.mixed = (Cardinality({Pair(i) : i \in all}) > 1)
    BY <1>1, <2>4, <2>6
  <2>8. IsFiniteSet(vendors)
    <3> DEFINE f == [p \in pairs |-> p[1]]
    <3> HIDE DEF pairs
    <3>1. f \in Surjection(pairs, vendors)
      BY DEF Surjection
    <3> HIDE DEF f, vendors
    <3> QED
      BY <1>1, <3>1, FS_Surjection
  <2> HIDE DEF vendors
  <2>9. gpus.vendor # Blank => \A i \in all : VendorNames[pci[i].vendor] = gpus.vendor
    <3> SUFFICES ASSUME gpus.vendor # Blank
                 PROVE  \A i \in all : VendorNames[pci[i].vendor] = gpus.vendor
      OBVIOUS
    <3>1. Cardinality(vendors) = 1 /\ gpus.vendor = VendorNames[CHOOSE v \in vendors : TRUE]
      BY <2>4
    <3>2. PICK w : vendors = {w}
      BY <2>8, <3>1, FS_Singleton
    <3>3. (CHOOSE v \in vendors : TRUE) = w
      BY <3>2
    <3> QED
      BY <2>3, <3>1, <3>2, <3>3
  <2>10. GPUsFaithful(inv, gpus)
    <3>1. gpus.count = Cardinality(all) /\ gpus.device = Blank
      BY <1>1, <1>6, <2>4
    <3>2. gpus.totalMemory = gpus.count * gpus.memoryPerGPU
      BY <2>4
    <3> QED
      BY <1>7, <2>5, <2>7, <2>9, <3>1, <3>2, Zenon
  <2> QED
    BY <2>4, <2>10 DEF gpus
<1> QED
  BY <1>9, <1>10, <1>11

\* The least index of a set of indices is one of them.
LEMMA MinIn ==
  ASSUME NEW S, S \subseteq Nat, S # {}
  PROVE  Min(S) \in S
BY LeastNat DEF Min

\* discoverCPU: cores and packages of the populated sockets, at least one of each.
LEMMA CPUDescribed ==
  ASSUME NEW inv, inv.processors \in Seq(Processor), inv.numaNodes \in Nat, NEW lost
  PROVE  LET cpu == discoverNumaNodes(discoverCPU(inv, lost), inv, lost)
         IN  /\ ~("processors" \in lost) =>
                  /\ cpu.cores = AtLeastOne(Cardinality(CoresOf(inv)))
                  /\ cpu.packages =
                       AtLeastOne(Cardinality({inv.processors[i].socket : i \in SocketsOf(inv)}))
             /\ ~("numa" \in lost) => cpu.numaNodes = AtLeastOne(inv.numaNodes)
<1> DEFINE found == CountProcessors(inv.processors)
           sockets == found.sockets
           m == IF sockets # {} THEN Cardinality(sockets) ELSE 1
           k == IF found.cores > 0 THEN found.cores ELSE 1
           base == [cores |-> 1, packages |-> 1, numaNodes |-> 1]
           first == IF "processors" \in lost THEN base ELSE [base EXCEPT !.packages = m, !.cores = k]
           n == inv.numaNodes
           cpu == IF ~("numa" \in lost) /\ n > 0 THEN [first EXCEPT !.numaNodes = n] ELSE first
<1>1. /\ IsFiniteSet(CoresOf(inv)) /\ found.cores = Cardinality(CoresOf(inv))
      /\ sockets = {inv.processors[i].socket : i \in SocketsOf(inv)} /\ IsFiniteSet(sockets)
  <2>1. SocketsOf(inv) = {i \in 1..Len(inv.processors) : inv.processors[i].socket # Blank}
    BY DEF SocketsOf
  <2> QED
    BY <2>1, ProcessorsCounted DEF CoresOf
<1>2. found.cores \in Nat /\ Cardinality(sockets) \in Nat /\ (Cardinality(sockets) = 0 <=> sockets = {})
  BY <1>1, FS_CardinalityType, FS_EmptySet
<1>3. k = AtLeastOne(Cardinality(CoresOf(inv)))
  <2> HIDE DEF found
  <2> QED
    BY <1>1, <1>2 DEF AtLeastOne
<1>4. m = AtLeastOne(Cardinality({inv.processors[i].socket : i \in SocketsOf(inv)}))
  <2>1. m = AtLeastOne(Cardinality(sockets))
    <3> HIDE DEF sockets
    <3> QED
      BY <1>2 DEF AtLeastOne
  <2> QED
    BY <1>1, <2>1
<1>5. discoverNumaNodes(discoverCPU(inv, lost), inv, lost) = cpu
  BY DEF discoverNumaNodes, discoverCPU, OneCPU
<1>6. n \in Nat /\ (n > 0 => AtLeastOne(n) = n) /\ (~(n > 0) => AtLeastOne(n) = 1)
  BY DEF AtLeastOne
<1> HIDE DEF m, k, n
<1>7. ~("processors" \in lost) => first.packages = m /\ first.cores = k
  OBVIOUS
<1>8. first.numaNodes = 1 /\ first = [cores |-> first.cores, packages |-> first.packages, numaNodes |-> 1]
  OBVIOUS
<1> HIDE DEF first
<1>9. /\ cpu.cores = first.cores /\ cpu.packages = first.packages
      /\ cpu.numaNodes = IF ~("numa" \in lost) /\ n > 0 THEN n ELSE 1
  BY <1>8
<1> HIDE DEF cpu
<1>10. ~("numa" \in lost) => cpu.numaNodes = AtLeastOne(n)
  BY <1>6, <1>9
<1> QED
  BY <1>3, <1>4, <1>5, <1>7, <1>9, <1>10 DEF n

\* discoverAddresses: an internal address if there is one to read.
LEMMA InternalDescribed ==
  ASSUME NEW inv, inv.addresses \in Seq(Address), NEW lost
  PROVE  LET ip == InternalIP(inv, lost)
             internal == {i \in DOMAIN inv.addresses : Internal(inv.addresses[i])}
         IN  /\ ip # Blank => \E i \in internal : inv.addresses[i].ip = ip
             /\ ~("addresses" \in lost) /\ internal # {} => ip # Blank
<1> DEFINE internal == {i \in DOMAIN inv.addresses : Internal(inv.addresses[i])}
           ip == InternalIP(inv, lost)
<1>1. ip = IF "addresses" \in lost \/ internal = {} THEN Blank ELSE inv.addresses[Min(internal)].ip
  BY DEF InternalIP
<1>2. internal # {} => Min(internal) \in internal
  <2>1. internal \subseteq Nat
    OBVIOUS
  <2> HIDE DEF internal
  <2> QED
    BY <2>1, MinIn
<1>3. \A i \in internal : inv.addresses[i].ip # Blank
  BY DEF Internal, Routable
<1> HIDE DEF internal, ip
<1> QED
  BY <1>1, <1>2, <1>3 DEF internal, ip

\* What a discovery answers of the node's hardware.
Described(sample) ==
  LET inv == Inventory[sample.node]
      hw == Facts(sample)
      internal == {i \in DOMAIN inv.addresses : Internal(inv.addresses[i])}
  IN  /\ ~("pci" \in sample.lost) => GPUsFaithful(inv, hw.gpus)
      /\ ~("processors" \in sample.lost) =>
           /\ hw.cpu.cores = AtLeastOne(Cardinality(CoresOf(inv)))
           /\ hw.cpu.packages =
                AtLeastOne(Cardinality({inv.processors[i].socket : i \in SocketsOf(inv)}))
      /\ ~("numa" \in sample.lost) => hw.cpu.numaNodes = AtLeastOne(inv.numaNodes)
      /\ hw.internalIP # Blank => \E i \in internal : inv.addresses[i].ip = hw.internalIP
      /\ ~("addresses" \in sample.lost) /\ internal # {} => hw.internalIP # Blank
      /\ hw.memory = inv.memory /\ hw.disks = inv.disks

\* The hardware of an answer, field by field.
LEMMA HardwareFields ==
  ASSUME NEW n \in DOMAIN Inventory, NEW lost \in LostReads
  PROVE  LET inv == Inventory[n]
             hw == Answers[n][lost].hardware
         IN  /\ hw.cpu = discoverNumaNodes(discoverCPU(inv, lost), inv, lost)
             /\ hw.memory = inv.memory /\ hw.disks = inv.disks
             /\ hw.internalIP = InternalIP(inv, lost) /\ hw.gpus = discoverGPUs(inv, lost)
<1> DEFINE inv == Inventory[n]
           cpu == discoverNumaNodes(discoverCPU(inv, lost), inv, lost)
           memory == inv.memory
           disks == inv.disks
           interfaces == discoverNetInterfaces(inv)
           external == ExternalIP(inv, lost)
           internal == InternalIP(inv, lost)
           gpus == discoverGPUs(inv, lost)
           hw == Answers[n][lost].hardware
<1>1. Answers[n][lost] = discoverHost(inv, lost)
  BY DEF Answers
<1>2. discoverHost(inv, lost).hardware =
        [cpu |-> cpu, memory |-> memory, disks |-> disks, interfaces |-> interfaces,
         externalIP |-> external, internalIP |-> internal, gpus |-> gpus]
  BY Zenon DEF discoverHost
<1>3. hw = [cpu |-> cpu, memory |-> memory, disks |-> disks, interfaces |-> interfaces,
            externalIP |-> external, internalIP |-> internal, gpus |-> gpus]
  BY <1>1, <1>2, Zenon
<1> HIDE DEF cpu, memory, disks, interfaces, external, internal, gpus, hw
<1>4. /\ hw.cpu = cpu /\ hw.memory = memory /\ hw.disks = disks
      /\ hw.internalIP = internal /\ hw.gpus = gpus
  BY <1>3
<1> QED
  BY <1>4, Zenon DEF cpu, memory, disks, internal, gpus, hw

\* Every discovery describes the node that answered it.
LEMMA FactsDescribed ==
  ASSUME NEW sample, Sampled(sample)
  PROVE  Described(sample)
<1> DEFINE n == sample.node
           lost == sample.lost
           inv == Inventory[n]
           hw == Facts(sample)
<1>1. n \in DOMAIN Inventory /\ lost \in LostReads
  BY DEF Sampled
<1>2. /\ inv.processors \in Seq(Processor) /\ inv.pci \in Seq(Device)
      /\ inv.addresses \in Seq(Address) /\ inv.numaNodes \in Nat
  BY <1>1, HardwareAssumption
<1>3. /\ hw.cpu = discoverNumaNodes(discoverCPU(inv, lost), inv, lost)
      /\ hw.memory = inv.memory /\ hw.disks = inv.disks
      /\ hw.internalIP = InternalIP(inv, lost) /\ hw.gpus = discoverGPUs(inv, lost)
  BY <1>1, HardwareFields DEF Facts
<1>4. ~("pci" \in lost) => GPUsFaithful(inv, hw.gpus)
  BY <1>2, <1>3, GPUsDescribed
<1>5. /\ ~("processors" \in lost) =>
           /\ hw.cpu.cores = AtLeastOne(Cardinality(CoresOf(inv)))
           /\ hw.cpu.packages =
                AtLeastOne(Cardinality({inv.processors[i].socket : i \in SocketsOf(inv)}))
      /\ ~("numa" \in lost) => hw.cpu.numaNodes = AtLeastOne(inv.numaNodes)
  <2> DEFINE cpu == discoverNumaNodes(discoverCPU(inv, lost), inv, lost)
  <2>1. /\ ~("processors" \in lost) =>
             /\ cpu.cores = AtLeastOne(Cardinality(CoresOf(inv)))
             /\ cpu.packages =
                  AtLeastOne(Cardinality({inv.processors[i].socket : i \in SocketsOf(inv)}))
        /\ ~("numa" \in lost) => cpu.numaNodes = AtLeastOne(inv.numaNodes)
    <3> HIDE DEF inv, lost
    <3> QED
      BY <1>2, CPUDescribed
  <2>2. hw.cpu = cpu
    BY <1>3
  <2> HIDE DEF cpu, hw
  <2> QED
    BY <2>1, <2>2, Zenon
<1> DEFINE internal == {i \in DOMAIN inv.addresses : Internal(inv.addresses[i])}
<1>6. /\ hw.internalIP # Blank => \E i \in internal : inv.addresses[i].ip = hw.internalIP
      /\ ~("addresses" \in lost) /\ internal # {} => hw.internalIP # Blank
  BY <1>2, <1>3, InternalDescribed
<1> QED
  BY <1>3, <1>4, <1>5, <1>6, Zenon DEF Described

\* patchHost and discoverHost together: whatever reads a discovery lost, in whatever
\* order claims, outages and aborted patches came since, what status.hardware says of
\* a source that was read is what that node has.
THEOREM RecordedIsFaithful == Spec => []RecordedFaithful
<1>1. DiscoveryInv => RecordedFaithful
  <2> SUFFICES ASSUME DiscoveryInv, seen # None
               PROVE  RecordedFaithful
    BY DEF RecordedFaithful
  <2>1. Sampled(seen) /\ status.hardware = Facts(seen)
    BY DEF DiscoveryInv, RecordedIsDiscovered
  <2>2. Described(seen)
    BY <2>1, FactsDescribed
  <2> QED
    BY <2>1, <2>2, Zenon DEF Described, RecordedFaithful
<1> QED BY <1>1, DiscoveryInvariance, PTL

-----------------------------------------------------------------------------
(* What a selector sees.                                                   *)

\* The labels that a selector matches hardware by, and what a host with the
\* hardware hw has for them.
HardwareKeys == {"gpuModel", "diskType", "diskSize"}
HardwareLabels(hw) ==
  LET disk == systemDisk(hw.disks) IN
  [gpuModel |-> IF hw = None \/ hw.gpus = None THEN None ELSE Unless(Blank, hw.gpus.model),
   diskType |-> IF hw = None \/ disk = None THEN None ELSE diskTypeLabel(disk.type),
   diskSize |-> IF hw = None \/ disk = None \/ disk.size = 0 THEN None ELSE roundQuantity(disk.size)]

\* applyDiscoveryLabels promotes the hardware of the status, and nothing else, to
\* them.
LEMMA HardwarePromoted ==
  ASSUME NEW l, Labelled(l), NEW s
  PROVE  \A k \in HardwareKeys : applyDiscoveryLabels(s, l)[k] = HardwareLabels(s.hardware)[k]
<1> DEFINE z == [k \in LabelKeys |-> IF k \in ManagedKeys THEN None ELSE l[k]]
           hw == s.hardware
           disk == systemDisk(hw.disks)
           a == IF s.phase = "Available" THEN "true" ELSE None
           b == Unless(Blank, s.arch)
           c == Unless(Blank, s.version)
           d == Unless(Blank, s.platform)
           e == Unless(Blank, FailureDomain)
           f == Unless(0, hw.cpu.cores)
           g == IF hw.memory = 0 THEN None ELSE roundQuantity(hw.memory)
           h == IF disk = None THEN None ELSE diskTypeLabel(disk.type)
           i == IF disk = None \/ disk.size = 0 THEN None ELSE roundQuantity(disk.size)
           j == Unless(0, hw.gpus.count)
           m == Unless(Blank, hw.gpus.vendor)
           n == Unless(Blank, hw.gpus.model)
           plain == [z EXCEPT !.available = a, !.cpuArch = b, !.talosVersion = c, !.platform = d,
                              !.failureDomain = e]
           sized == [plain EXCEPT !.cpuCores = f, !.memory = g, !.diskType = h, !.diskSize = i]
           all == [sized EXCEPT !.gpuCount = j, !.gpuVendor = m, !.gpuModel = n]
           new == IF hw = None THEN plain ELSE IF hw.gpus = None THEN sized ELSE all
<1>1. applyDiscoveryLabels(s, l) = new
  BY Zenon DEF applyDiscoveryLabels, Promoted, promoteHardwareLabels, promoteGPULabels
<1>2. HardwareLabels(hw) =
        [gpuModel |-> IF hw = None \/ hw.gpus = None THEN None ELSE n,
         diskType |-> IF hw = None THEN None ELSE h, diskSize |-> IF hw = None THEN None ELSE i]
  BY DEF HardwareLabels
<1>3. Labelled(z) /\ z.gpuModel = None /\ z.diskType = None /\ z.diskSize = None
  BY DEF Labelled, LabelKeys, ManagedKeys
<1> HIDE DEF a, b, c, d, e, f, g, h, i, j, m, n, hw, disk, z
<1>4. Labelled(plain) /\ plain.gpuModel = None /\ plain.diskType = None /\ plain.diskSize = None
  BY <1>3 DEF Labelled, LabelKeys, ManagedKeys
<1> HIDE DEF plain
<1>5. Labelled(sized) /\ sized.gpuModel = None /\ sized.diskType = h /\ sized.diskSize = i
  BY <1>4 DEF Labelled, LabelKeys, ManagedKeys
<1> HIDE DEF sized
<1>6. all.gpuModel = n /\ all.diskType = h /\ all.diskSize = i
  BY <1>5 DEF Labelled, LabelKeys, ManagedKeys
<1> HIDE DEF all
<1>7. /\ new.gpuModel = IF hw = None \/ hw.gpus = None THEN None ELSE n
      /\ new.diskType = IF hw = None THEN None ELSE h
      /\ new.diskSize = IF hw = None THEN None ELSE i
  BY <1>4, <1>5, <1>6
<1> HIDE DEF new
<1>8. \A k \in HardwareKeys : new[k] = HardwareLabels(hw)[k]
  BY <1>2, <1>7 DEF HardwareKeys
<1> QED
  BY <1>1, <1>8 DEF hw

\* A host that is, or that a machine holds as, Available.
Ready(s) == s.phase \in {"Available", "Claimed"}

\* What the reconciles decide of the host they read: a discovery, a wait for one, a
\* probe that succeeds, a probe that fails.
Decided(r) ==
  /\ \A k \in HardwareKeys : r.labels[k] = HardwareLabels(r.status.hardware)[k]
  /\ \/ /\ r.sample # None /\ up /\ ~Ready(status) /\ r.status.phase = "Available"
        /\ r.status.probed = TRUE /\ r.status.failures = 0
        /\ r.status.claimed \in {FALSE, status.claimed}
     \/ /\ r.sample = None /\ ~Ready(status) /\ r.status.phase \in {"Probing", status.phase}
        /\ r.status.probed \in {FALSE, status.probed}
        /\ r.status.failures = status.failures /\ r.status.claimed = status.claimed
     \/ /\ r.sample = None /\ up /\ status.phase = "Available" /\ r.status.phase = status.phase
        /\ r.status.probed = TRUE /\ r.status.failures = 0 /\ r.status.claimed = status.claimed
     \/ /\ r.sample = None /\ ~up /\ status.phase = "Available"
        /\ r.status.phase = IF status.failures + 1 >= FailureThreshold THEN "Unavailable"
                            ELSE status.phase
        /\ r.status.probed = FALSE /\ r.status.claimed = status.claimed
        /\ r.status.failures = IF status.failures + 1 > FailureThreshold THEN status.failures
                               ELSE status.failures + 1

\* A handler that ends in Outcome has promoted the hardware.
LEMMA OutcomePromotes ==
  ASSUME Labelled(labels), NEW s, NEW sample
  PROVE  LET r == Outcome(s, labels, sample)
         IN  /\ r.status = s /\ r.sample = sample
             /\ \A k \in HardwareKeys : r.labels[k] = HardwareLabels(r.status.hardware)[k]
<1>1. \A k \in HardwareKeys : applyDiscoveryLabels(s, labels)[k] = HardwareLabels(s.hardware)[k]
  BY HardwarePromoted
<1>2. /\ Outcome(s, labels, sample).status = s /\ Outcome(s, labels, sample).sample = sample
      /\ Outcome(s, labels, sample).labels = applyDiscoveryLabels(s, labels)
  BY DEF Outcome
<1> QED BY <1>1, <1>2

\* The handlers, one by one.
LEMMA HandlersDecide ==
  ASSUME Labelled(labels), Shaped(status), Typed(status), node \in DOMAIN Inventory, up \in BOOLEAN,
         NEW r \in reconcileHost([status |-> status, labels |-> labels])
  PROVE  Decided(r)
<1> DEFINE o == [status |-> status, labels |-> labels]
           Promotes(q) == \A k \in HardwareKeys : q.labels[k] = HardwareLabels(q.status.hardware)[k]
           Found(q) == /\ q.sample # None /\ q.status.phase = "Available"
                       /\ q.status.probed = TRUE /\ q.status.failures = 0
                       /\ q.status.claimed \in {FALSE, status.claimed}
           Waits(q) == /\ q.sample = None /\ q.status.phase \in {"Probing", status.phase}
                       /\ q.status.probed \in {FALSE, status.probed}
                       /\ q.status.failures = status.failures /\ q.status.claimed = status.claimed
           Record(q) == q = [status |-> q.status, labels |-> q.labels, sample |-> q.sample]
           Good(q) == Promotes(q) /\ Record(q) /\ Shaped(q.status) /\ ((up /\ Found(q)) \/ Waits(q))
<1>1. o.status = status /\ o.labels = labels
  OBVIOUS
<1> HIDE DEF o
<1>2. ASSUME NEW lost \in LostReads
      PROVE  LET q == Discovered(o, lost)
             IN  Promotes(q) /\ Record(q) /\ Shaped(q.status) /\ Found(q)
  <2> DEFINE res == Answers[node][lost]
             sample == [node |-> node, lost |-> lost]
             x == res.hardware.gpus = None \/ ~res.hardware.gpus.mixed
             i == IF res.identity # None THEN res.identity ELSE status.identity
             h == res.hardware
             v == res.version
             a == res.arch
             p == res.platform
             s1 == [status EXCEPT !.version = v, !.arch = a, !.platform = p, !.identity = i,
                                  !.hardware = h, !.discovered = x]
             s2 == [s1 EXCEPT !.phase = "Available", !.probed = TRUE, !.failures = 0]
             q == Discovered(o, lost)
  <2>1. q = Outcome(s2, labels, sample)
    BY <1>1 DEF Discovered, populateFromDiscovery
  <2>2. sample # None
    BY AnswersFacts
  <2> HIDE DEF x, i, h, v, a, p, sample, res
  <2>3. Shaped(s1) /\ s1.claimed = status.claimed
    BY DEF Shaped, StatusFields
  <2> HIDE DEF s1
  <2>4. /\ Shaped(s2) /\ s2.claimed = status.claimed /\ s2.phase = "Available" /\ s2.failures = 0
        /\ s2.probed = TRUE
    BY <2>3 DEF Shaped, StatusFields
  <2> HIDE DEF s2
  <2>5. q.status = s2 /\ q.sample = sample /\ Promotes(q)
    BY <2>1, OutcomePromotes
  <2>6. Record(q)
    BY <2>1 DEF Outcome
  <2> HIDE DEF q, Promotes, Record
  <2>7. Shaped(q.status) /\ Found(q)
    BY <2>2, <2>4, <2>5
  <2> QED
    BY <2>5, <2>6, <2>7 DEF q
<1>3. LET q == recordDiscoveryFailure(o)
      IN  Promotes(q) /\ Record(q) /\ Shaped(q.status) /\ Waits(q)
  <2> DEFINE s == [status EXCEPT !.phase = "Probing", !.probed = FALSE, !.discovered = FALSE]
             q == recordDiscoveryFailure(o)
  <2>1. q = Outcome(s, labels, None)
    BY <1>1 DEF recordDiscoveryFailure
  <2>2. /\ Shaped(s) /\ s.phase = "Probing" /\ s.probed = FALSE /\ s.failures = status.failures
        /\ s.claimed = status.claimed
    BY DEF Shaped, StatusFields
  <2> HIDE DEF s
  <2>3. q.status = s /\ q.sample = None /\ Promotes(q)
    BY <2>1, OutcomePromotes
  <2>4. Record(q)
    BY <2>1 DEF Outcome
  <2> HIDE DEF q, Promotes, Record
  <2>5. Shaped(q.status) /\ Waits(q)
    BY <2>2, <2>3
  <2> QED
    BY <2>3, <2>4, <2>5 DEF q
<1>4. LET q == Outcome(status, labels, None)
      IN  Promotes(q) /\ Record(q) /\ Shaped(q.status) /\ Waits(q)
  <2> DEFINE q == Outcome(status, labels, None)
  <2>1. q.status = status /\ q.sample = None /\ Promotes(q)
    BY OutcomePromotes
  <2>2. Record(q)
    BY DEF Outcome
  <2> HIDE DEF q, Promotes, Record
  <2>3. Shaped(q.status) /\ Waits(q)
    BY <2>1
  <2> QED
    BY <2>1, <2>2, <2>3 DEF q
<1> HIDE DEF Promotes, Record, Found, Waits
<1>5. up => \A q \in Discover(o) : Good(q)
  BY <1>2, <1>3 DEF Discover
<1>6. \A q \in reconcileProbing(o) : Good(q)
  BY <1>3, <1>5 DEF reconcileProbing
<1>7. \A q \in reconcileUnavailable(o) : Good(q)
  BY <1>1, <1>4, <1>5 DEF reconcileUnavailable
<1>8. \A q \in reconcileReleasing(o) : Good(q)
  <2>1. ASSUME NEW q \in reconcileUnavailable(o)
        PROVE  Good([q EXCEPT !.status.claimed = IF q.sample = None THEN @ ELSE FALSE])
    <3> DEFINE b == IF q.sample = None THEN q.status.claimed ELSE FALSE
               t == [q EXCEPT !.status.claimed = b]
    <3>1. Good(q)
      BY <1>7
    <3>2. q = [status |-> q.status, labels |-> q.labels, sample |-> q.sample] /\ Shaped(q.status)
      BY <3>1 DEF Record
    <3>3. [q EXCEPT !.status.claimed = IF q.sample = None THEN @ ELSE FALSE] = t
      BY <3>2
    <3>4. q.sample = None => b = q.status.claimed
      OBVIOUS
    <3>5. q.sample # None => b = FALSE
      OBVIOUS
    <3> HIDE DEF b
    <3>6. /\ t = [status |-> t.status, labels |-> q.labels, sample |-> q.sample]
          /\ t.labels = q.labels /\ t.sample = q.sample /\ t.status = [q.status EXCEPT !.claimed = b]
      BY <3>2
    <3> HIDE DEF t
    <3>7. /\ Shaped(t.status) /\ t.status.claimed = b /\ t.status.phase = q.status.phase
          /\ t.status.failures = q.status.failures /\ t.status.hardware = q.status.hardware
      BY <3>2, <3>6 DEF Shaped, StatusFields
    <3>8. t.status.probed = q.status.probed
      BY <3>2, <3>6 DEF Shaped, StatusFields
    <3>9. Promotes(t)
      BY <3>1, <3>6, <3>7 DEF Promotes
    <3>10. Record(t)
      BY <3>6 DEF Record
    <3>11. (up /\ Found(t)) \/ Waits(t)
      <4>1. CASE up /\ Found(q)
        <5>1. q.sample # None
          BY <4>1 DEF Found
        <5> QED
          BY <3>5, <3>6, <3>7, <3>8, <4>1, <5>1 DEF Found
      <4>2. CASE Waits(q)
        <5>1. q.sample = None
          BY <4>2 DEF Waits
        <5> QED
          BY <3>4, <3>6, <3>7, <3>8, <4>2, <5>1 DEF Waits
      <4> QED
        BY <3>1, <4>1, <4>2
    <3> QED
      BY <3>3, <3>7, <3>9, <3>10, <3>11
  <2> HIDE DEF Good
  <2> QED BY <2>1, Zenon DEF reconcileReleasing
<1>9. CASE ~Ready(status) /\ Good(r)
  BY <1>9 DEF Decided, Promotes, Found, Waits
<1>10. ASSUME status.phase = "Available", r \in reconcileAvailable(o)
       PROVE  Decided(r)
  <2>1. CASE up
    <3> DEFINE s == [status EXCEPT !.failures = 0, !.probed = TRUE]
    <3>1. r = Outcome(s, labels, None)
      BY <1>1, <1>10, <2>1 DEF reconcileAvailable
    <3>2. s.phase = status.phase /\ s.failures = 0 /\ s.claimed = status.claimed /\ s.probed = TRUE
      BY DEF Shaped, StatusFields
    <3> HIDE DEF s
    <3>3. r.status = s /\ r.sample = None /\ Promotes(r)
      BY <3>1, OutcomePromotes DEF Promotes
    <3> QED
      BY <1>10, <2>1, <3>2, <3>3 DEF Decided, Promotes
  <2>2. CASE ~up
    <3> DEFINE n == IF status.failures + 1 > FailureThreshold THEN status.failures ELSE status.failures + 1
               p == IF status.failures + 1 >= FailureThreshold THEN "Unavailable" ELSE status.phase
               s == [status EXCEPT !.failures = n, !.probed = FALSE, !.phase = p]
    <3>1. r = Outcome(s, labels, None)
      BY <1>1, <1>10, <2>2 DEF reconcileAvailable, recordProbeFailure
    <3> HIDE DEF n, p
    <3>2. s.phase = p /\ s.failures = n /\ s.claimed = status.claimed /\ s.probed = FALSE
      BY DEF Shaped, StatusFields
    <3> HIDE DEF s
    <3>3. r.status = s /\ r.sample = None /\ Promotes(r)
      BY <3>1, OutcomePromotes DEF Promotes
    <3> QED
      BY <1>10, <2>2, <3>2, <3>3 DEF Decided, Promotes, n, p
  <2> QED
    BY <2>1, <2>2
<1>11. r \in reconcileHost(o)
  BY DEF o
<1>12. CASE status.phase \in {Blank, "Probing"}
  <2>1. ~Ready(status)
    BY <1>12, Zenon DEF Ready, Blank
  <2>2. r \in reconcileProbing(o)
    BY <1>1, <1>11, <1>12, Zenon DEF reconcileHost, Blank
  <2> QED
    BY <1>6, <1>9, <2>1, <2>2
<1>13. CASE status.phase = "Available"
  <2>1. r \in reconcileAvailable(o)
    BY <1>1, <1>11, <1>13, Zenon DEF reconcileHost, Blank
  <2> QED
    BY <1>10, <1>13, <2>1
<1>14. CASE status.phase = "Unavailable"
  <2>1. ~Ready(status)
    BY <1>14 DEF Ready
  <2>2. r \in reconcileUnavailable(o)
    BY <1>1, <1>11, <1>14, Zenon DEF reconcileHost, Blank
  <2> QED
    BY <1>7, <1>9, <2>1, <2>2
<1>15. CASE status.phase = "Releasing"
  <2>1. ~Ready(status)
    BY <1>15 DEF Ready
  <2>2. r \in reconcileReleasing(o)
    BY <1>1, <1>11, <1>15, Zenon DEF reconcileHost, Blank
  <2> QED
    BY <1>8, <1>9, <2>1, <2>2
<1>16. CASE status.phase = "Claimed"
  <2>1. r \in {}
    BY <1>1, <1>11, <1>16, Zenon DEF reconcileHost, Blank
  <2> QED
    BY <2>1
<1> QED
  BY <1>12, <1>13, <1>14, <1>15, <1>16 DEF Typed, Phases

-----------------------------------------------------------------------------
(* The steps, as far as a selector can tell.                               *)

SamePatch == pass'.status = pass.status /\ pass'.labels = pass.labels /\ pass'.sample = pass.sample

Begins ==
  /\ pass.pc = "idle" /\ pass'.pc = "conditions" /\ UNCHANGED <<status, labels, seen, up, budget>>
  /\ \E r : /\ Handled(r) /\ Decided(r) /\ pass'.sample = r.sample
            /\ \A f \in StatusFields :
                 pass'.status[f] = IF r.status[f] = status[f] THEN Keep ELSE r.status[f]
            /\ \A k \in HardwareKeys :
                 pass'.labels[k] = IF r.labels[k] = labels[k] THEN Keep ELSE r.labels[k]
WritesConditions ==
  /\ pass.pc = "conditions" /\ pass'.pc = "metadata" /\ SamePatch
  /\ UNCHANGED <<labels, seen, up, budget>>
  /\ status'.phase = status.phase /\ status'.claimed = status.claimed
  /\ status'.failures = status.failures /\ status'.hardware = status.hardware
  /\ status'.probed = IF pass.status.probed = Keep THEN status.probed ELSE pass.status.probed
WritesLabels ==
  /\ pass.pc = "metadata" /\ pass'.pc = "status" /\ SamePatch
  /\ UNCHANGED <<status, seen, up, budget>>
  /\ \A k \in HardwareKeys : labels'[k] = IF pass.labels[k] = Keep THEN labels[k] ELSE pass.labels[k]
WritesStatus ==
  /\ pass.pc = "status" /\ pass'.pc = "idle" /\ UNCHANGED <<labels, up, budget>>
  /\ seen' = IF pass.sample = None THEN seen ELSE pass.sample
  /\ status'.probed = status.probed
  /\ status'.phase = IF pass.status.phase = Keep THEN status.phase ELSE pass.status.phase
  /\ status'.claimed = IF pass.status.claimed = Keep THEN status.claimed ELSE pass.status.claimed
  /\ status'.failures = IF pass.status.failures = Keep THEN status.failures ELSE pass.status.failures
  /\ status'.hardware = IF pass.status.hardware = Keep THEN status.hardware ELSE pass.status.hardware
\* The conditions call fails alone.
LosesConditions ==
  /\ pass.pc = "conditions" /\ pass'.pc = "metadata" /\ SamePatch
  /\ UNCHANGED <<status, labels, seen, up>> /\ "conditions" \in LostCalls
  /\ budget.faults > 0 /\ budget'.faults = budget.faults - 1 /\ budget'.outages = budget.outages
\* A crash, or a status call that fails.
Aborts ==
  /\ pass.pc # "idle" /\ pass'.pc = "idle" /\ UNCHANGED <<status, labels, seen, up>>
  /\ budget.faults > 0 /\ budget'.faults = budget.faults - 1 /\ budget'.outages = budget.outages
Claims ==
  /\ Candidate(status) /\ UNCHANGED <<labels, pass, seen, up, budget>>
  /\ status'.phase = "Claimed" /\ status'.claimed = TRUE /\ status'.probed = status.probed
  /\ status'.failures = status.failures /\ status'.hardware = status.hardware
Releases ==
  /\ status.claimed /\ UNCHANGED <<labels, pass, seen, up, budget>>
  /\ status'.phase \in {"Available", "Releasing"} /\ status'.claimed = FALSE
  /\ status'.probed = status.probed
  /\ status'.failures = status.failures /\ status'.hardware = status.hardware
Elsewhere ==
  /\ UNCHANGED <<pass, seen>>
  /\ status'.phase = status.phase /\ status'.claimed = status.claimed /\ status'.probed = status.probed
  /\ status'.failures = status.failures /\ status'.hardware = status.hardware
  /\ \A k \in HardwareKeys : labels'[k] = labels[k]
  /\ budget'.faults = budget.faults
  /\ \/ budget'.outages = budget.outages /\ (up' = up \/ up')
     \/ up /\ ~up' /\ budget.outages > 0 /\ budget'.outages = budget.outages - 1

Budgeted ==
  /\ budget = [outages |-> budget.outages, edits |-> budget.edits, mirrors |-> budget.mirrors,
               faults |-> budget.faults]
  /\ budget.outages \in 0..MaxOutages /\ budget.faults \in 0..MaxFaults

\* Every step is one of these.
LEMMA SelectorSteps ==
  ASSUME DiscoveryInv, Budgeted, "metadata" \notin LostCalls, [Next]_vars
  PROVE  \/ Begins \/ WritesConditions \/ WritesLabels \/ WritesStatus \/ LosesConditions \/ Aborts
         \/ Claims \/ Releases \/ Elsewhere
<1>1. /\ TypeOK /\ Shaped(status) /\ Labelled(labels) /\ PassShaped
      /\ node \in DOMAIN Inventory /\ up \in BOOLEAN /\ Typed(status)
  BY TypedStatus DEF DiscoveryInv, TypeOK
<1>2. CASE HostReconcile
  <2>1. PICK r \in reconcileHost([status |-> status, labels |-> labels]) :
          pass' = [pc |-> "conditions", status |-> Changed(status, r.status),
                   labels |-> Changed(labels, r.labels), sample |-> r.sample]
    BY <1>2 DEF HostReconcile
  <2>2. Handled(r) /\ Decided(r)
    BY <1>1, HandlersHandle, HandlersDecide
  <2>3. pass.pc = "idle" /\ UNCHANGED <<status, labels, seen, up, budget>>
    BY <1>2 DEF HostReconcile
  <2>4. \A f \in StatusFields :
          Changed(status, r.status)[f] = IF r.status[f] = status[f] THEN Keep ELSE r.status[f]
    BY <2>2, PatchOfHandled
  <2>5. \A k \in HardwareKeys :
          Changed(labels, r.labels)[k] = IF r.labels[k] = labels[k] THEN Keep ELSE r.labels[k]
    <3>1. DOMAIN r.labels = LabelKeys
      BY <2>2 DEF Handled, Labelled
    <3>2. HardwareKeys \subseteq LabelKeys
      BY DEF HardwareKeys, LabelKeys, ManagedKeys
    <3> QED
      BY <3>1, <3>2 DEF Changed
  <2>6. /\ pass'.pc = "conditions" /\ pass'.sample = r.sample
        /\ pass'.status = Changed(status, r.status) /\ pass'.labels = Changed(labels, r.labels)
    BY <2>1
  <2> QED
    BY <2>2, <2>3, <2>4, <2>5, <2>6 DEF Begins
<1>b. ASSUME NEW call, NEW lands \in Lands(call), ~lands, budget' = Spent(lands)
      PROVE  /\ call \in LostCalls /\ budget.faults > 0
             /\ budget'.faults = budget.faults - 1 /\ budget'.outages = budget.outages
  BY <1>b DEF Lands, Spent, Budgeted
<1>3. CASE PatchConditions
  <2>1. /\ pass.pc = "conditions" /\ pass' = [pass EXCEPT !.pc = "metadata"]
        /\ UNCHANGED <<labels, seen, up>>
    BY <1>3 DEF PatchConditions
  <2>2. PICK lands \in Lands("conditions") :
          /\ status' = IF lands THEN Merge(status, pass.status, Conditions) ELSE status
          /\ budget' = Spent(lands)
    BY <1>3 DEF PatchConditions
  <2>3. pass'.pc = "metadata" /\ SamePatch
    BY <1>1, <2>1 DEF PassShaped, SamePatch
  <2>4. CASE lands
    <3>1. status' = Merge(status, pass.status, Conditions) /\ UNCHANGED budget
      BY <2>2, <2>4 DEF Spent
    <3>2. \A f \in StatusFields :
            status'[f] = IF f \notin Conditions \/ pass.status[f] = Keep THEN status[f] ELSE pass.status[f]
      BY <1>1, <3>1, MergeWrites
    <3> QED
      BY <2>1, <2>3, <3>1, <3>2 DEF WritesConditions, Conditions, StatusFields
  <2>5. CASE ~lands
    BY <1>b, <2>1, <2>2, <2>3, <2>5 DEF LosesConditions
  <2> QED
    BY <2>4, <2>5
<1>4. CASE PatchMetadata
  <2>1. /\ pass.pc = "metadata" /\ pass' = [pass EXCEPT !.pc = "status"]
        /\ labels' = Merge(labels, pass.labels, LabelKeys) /\ UNCHANGED <<status, seen, up, budget>>
    BY <1>4 DEF PatchMetadata, Lands, Spent
  <2>2. pass'.pc = "status" /\ SamePatch
    BY <1>1, <2>1 DEF PassShaped, SamePatch
  <2>3. \A k \in HardwareKeys : labels'[k] = IF pass.labels[k] = Keep THEN labels[k] ELSE pass.labels[k]
    <3>1. DOMAIN labels = LabelKeys
      BY <1>1 DEF Labelled
    <3>2. HardwareKeys \subseteq LabelKeys
      BY DEF HardwareKeys, LabelKeys, ManagedKeys
    <3> QED
      BY <2>1, <3>1, <3>2 DEF Merge
  <2> QED
    BY <2>1, <2>2, <2>3 DEF WritesLabels
<1>5. CASE PatchStatus
  <2>1. pass.pc = "status" /\ pass' = Idle /\ UNCHANGED <<labels, up>>
    BY <1>5 DEF PatchStatus
  <2>2. PICK lands \in Lands("status") :
          /\ status' = IF lands THEN Merge(status, pass.status, DOMAIN status \ Conditions) ELSE status
          /\ seen' = IF lands /\ pass.sample # None THEN pass.sample ELSE seen
          /\ budget' = Spent(lands)
    BY <1>5 DEF PatchStatus
  <2>3. pass'.pc = "idle"
    BY <2>1 DEF Idle
  <2>4. CASE lands
    <3>1. /\ status' = Merge(status, pass.status, StatusFields \ Conditions) /\ UNCHANGED budget
          /\ seen' = IF pass.sample = None THEN seen ELSE pass.sample
      BY <1>1, <2>2, <2>4 DEF Spent, Shaped
    <3>2. \A f \in StatusFields :
            status'[f] = IF f \notin StatusFields \ Conditions \/ pass.status[f] = Keep THEN status[f]
                         ELSE pass.status[f]
      BY <1>1, <3>1, MergeWrites
    <3> QED
      BY <2>1, <2>3, <3>1, <3>2 DEF WritesStatus, Conditions, StatusFields
  <2>5. CASE ~lands
    BY <1>b, <2>1, <2>2, <2>3, <2>5 DEF Aborts
  <2> QED
    BY <2>4, <2>5
<1>6. CASE Abort
  <2>1. budget'.faults = budget.faults - 1 /\ budget'.outages = budget.outages /\ budget.faults > 0
    BY <1>6 DEF Abort, Budgeted
  <2> QED
    BY <1>6, <2>1 DEF Abort, Aborts, Idle
<1>7. CASE Claim
  <2>1. status' = [status EXCEPT !.phase = "Claimed", !.claimed = TRUE]
    BY <1>7 DEF Claim
  <2>2. /\ status'.phase = "Claimed" /\ status'.claimed = TRUE /\ status'.probed = status.probed
        /\ status'.failures = status.failures /\ status'.hardware = status.hardware
    BY <1>1, <2>1 DEF Shaped, StatusFields
  <2> QED
    BY <1>7, <2>2 DEF Claim, Claims
<1>8. CASE MirrorVersion
  <2>1. PICK v : status' = [status EXCEPT !.version = v]
    BY <1>8 DEF MirrorVersion
  <2>2. /\ status'.phase = status.phase /\ status'.claimed = status.claimed
        /\ status'.probed = status.probed
        /\ status'.failures = status.failures /\ status'.hardware = status.hardware
    BY <1>1, <2>1 DEF Shaped, StatusFields
  <2>3. budget'.faults = budget.faults /\ budget'.outages = budget.outages
    BY <1>8 DEF MirrorVersion, Budgeted
  <2> QED
    BY <1>8, <2>2, <2>3 DEF MirrorVersion, Elsewhere
<1>9. CASE Release
  <2> DEFINE p == IF up THEN "Available" ELSE "Releasing"
  <2>1. status' = [status EXCEPT !.claimed = FALSE, !.phase = p] /\ p \in {"Available", "Releasing"}
    BY <1>9 DEF Release
  <2> HIDE DEF p
  <2>2. /\ status'.phase = p /\ status'.claimed = FALSE /\ status'.probed = status.probed
        /\ status'.failures = status.failures /\ status'.hardware = status.hardware
    BY <1>1, <2>1 DEF Shaped, StatusFields
  <2> QED
    BY <1>9, <2>1, <2>2 DEF Release, Releases
<1>10. CASE GoDown
  <2>1. /\ budget'.faults = budget.faults /\ budget.outages > 0
        /\ budget'.outages = budget.outages - 1
    BY <1>10 DEF GoDown, Budgeted
  <2> QED
    BY <1>10, <2>1 DEF GoDown, Elsewhere
<1>11. CASE ComeUp
  BY <1>11 DEF ComeUp, Elsewhere
<1>12. CASE EditLabels
  <2>1. budget'.faults = budget.faults /\ budget'.outages = budget.outages
    BY <1>12 DEF EditLabels, Budgeted
  <2>2. PICK v : labels' = [labels EXCEPT !.site = v] \/ labels' = [labels EXCEPT !.available = v]
    BY <1>12 DEF EditLabels
  <2>3. \A k \in HardwareKeys : labels'[k] = labels[k]
    BY <1>1, <2>2 DEF Labelled, HardwareKeys, LabelKeys, ManagedKeys
  <2> QED
    BY <1>12, <2>1, <2>3 DEF EditLabels, Elsewhere
<1>13. CASE UNCHANGED vars
  BY <1>13 DEF vars, Elsewhere
<1> QED
  BY <1>2, <1>3, <1>4, <1>5, <1>6, <1>7, <1>8, <1>9, <1>10, <1>11, <1>12, <1>13 DEF Next, HostStep

\* What a label says is not the mark of a label left out.
LEMMA LabelsAreNoMarks ==
  ASSUME NEW sample, Sampled(sample), NEW k \in HardwareKeys
  PROVE  HardwareLabels(Facts(sample))[k] # Keep
<1> DEFINE n == sample.node
           lost == sample.lost
           inv == Inventory[n]
           hw == Facts(sample)
           disk == systemDisk(hw.disks)
<1>1. n \in DOMAIN Inventory /\ lost \in LostReads
  BY DEF Sampled
<1>2. inv.pci \in Seq(Device) /\ inv.disks \in Seq(BlockDevice)
  BY <1>1, HardwareAssumption
<1>3. hw.disks = inv.disks /\ hw.gpus = discoverGPUs(inv, lost)
  BY <1>1, HardwareFields DEF Facts
<1>4. hw.gpus = None \/ hw.gpus \in GPUSummary
  BY <1>2, <1>3, GPUsDescribed
<1>5. Keep # None /\ ~(Keep \in Text) /\ ~(Keep \in Nat \X {"G", "T"})
  BY MarkersAssumption
<1>6. disk = None \/ disk \in BlockDevice
  <2> DEFINE disks == inv.disks
             system == {i \in DOMAIN disks : disks[i].system}
             raid == {i \in system : disks[i].raid}
  <2>1. disk = IF raid # {} THEN disks[Min(raid)] ELSE IF system # {} THEN disks[Min(system)] ELSE None
    BY <1>3, Zenon DEF systemDisk
  <2>2. disks \in Seq(BlockDevice) /\ DOMAIN disks \subseteq Nat
    BY <1>2
  <2>3. system \subseteq DOMAIN disks /\ raid \subseteq DOMAIN disks
    OBVIOUS
  <2> HIDE DEF disks, system, raid
  <2>4. raid # {} => Min(raid) \in DOMAIN disks
    BY <2>2, <2>3, MinIn
  <2>5. system # {} => Min(system) \in DOMAIN disks
    BY <2>2, <2>3, MinIn
  <2>6. \A i \in DOMAIN disks : disks[i] \in BlockDevice
    BY <2>2
  <2> HIDE DEF disk
  <2> QED
    BY <2>1, <2>4, <2>5, <2>6
<1>7. disk # None => disk.type \in Text /\ disk.size \in Nat
  <2> HIDE DEF disk
  <2> QED
    BY <1>6 DEF BlockDevice
<1>8. disk # None => diskTypeLabel(disk.type) # Keep
  <2> HIDE DEF disk
  <2> QED
    BY <1>5, <1>7 DEF diskTypeLabel
<1>9. disk # None => roundQuantity(disk.size) # Keep
  <2> DEFINE size == disk.size
             gibs == (size + 1) \div 2
  <2> SUFFICES ASSUME disk # None
               PROVE  roundQuantity(size) # Keep
    OBVIOUS
  <2>1. size \in Nat
    BY <1>7
  <2> HIDE DEF size
  <2>2. gibs \in Nat /\ (gibs + 512) \div 1024 \in Nat
    BY <2>1
  <2>3. roundQuantity(size) = IF gibs >= 1024 THEN <<(gibs + 512) \div 1024, "T">> ELSE <<gibs, "G">>
    BY DEF roundQuantity
  <2> HIDE DEF gibs
  <2>4. roundQuantity(size) \in Nat \X {"G", "T"}
    BY <2>2, <2>3
  <2> QED
    BY <1>5, <2>4
<1>10. hw.gpus # None => Unless(Blank, hw.gpus.model) # Keep
  <2> HIDE DEF hw
  <2> QED
    BY <1>4, <1>5 DEF Unless, GPUSummary
<1> DEFINE model == IF hw = None \/ hw.gpus = None THEN None ELSE Unless(Blank, hw.gpus.model)
           type == IF hw = None \/ disk = None THEN None ELSE diskTypeLabel(disk.type)
           size == IF hw = None \/ disk = None \/ disk.size = 0 THEN None ELSE roundQuantity(disk.size)
<1>11. HardwareLabels(hw) = [gpuModel |-> model, diskType |-> type, diskSize |-> size]
  BY Zenon DEF HardwareLabels
<1>12. model # Keep /\ type # Keep /\ size # Keep
  <2> HIDE DEF hw, disk
  <2> QED
    BY <1>5, <1>8, <1>9, <1>10
<1> HIDE DEF model, type, size, hw
<1> QED
  BY <1>11, <1>12 DEF HardwareKeys, hw

-----------------------------------------------------------------------------
(* The invariant of the selectors.                                         *)

\* The metadata call of a patch succeeds, and one failed probe does not make a host
\* Unavailable; either nothing fails or there is at most one outage; and the conditions
\* call fails too rarely to hide every failed probe before the one that takes the host
\* out of service.
Trusted ==
  /\ "metadata" \notin LostCalls /\ FailureThreshold >= 2
  /\ MaxFaults = 0 \/ MaxOutages <= 1
  /\ "conditions" \in LostCalls => MaxFaults + 1 < FailureThreshold

\* A host that is Available, or held, was discovered, and its labels say what its
\* status says.
ClaimsInv ==
  /\ status.claimed => status.phase = "Claimed"
  /\ Ready(status) =>
       seen # None /\ \A k \in HardwareKeys : labels[k] = HardwareLabels(status.hardware)[k]

\* No machine can have claimed the host since a reconcile that takes it out of
\* service, or that brings it back, has read it.
DecisionInv ==
  pass.pc # "idle" =>
    /\ pass.status.claimed \in {Keep, FALSE}
    /\ pass.status.phase \in {Keep, "Available", "Probing", "Unavailable"}
    /\ pass.status.phase = "Available" => pass.sample # None
    /\ pass.sample # None \/ pass.status.phase = "Probing" => ~Ready(status)
    /\ pass.status.phase = "Unavailable" =>
         /\ status.claimed = FALSE /\ status.probed = FALSE
         /\ pass.status.probed \in {Keep, FALSE}

\* A patch brings the labels of the hardware it brings.
PromotionInv ==
  pass.pc # "idle" =>
    \A k \in HardwareKeys :
      IF pass.sample = None
        THEN pass.labels[k] \in {Keep, HardwareLabels(status.hardware)[k]}
        ELSE HardwareLabels(Facts(pass.sample))[k] =
               IF pass.pc = "status" \/ pass.labels[k] = Keep THEN labels[k] ELSE pass.labels[k]

\* No more failures than conditions calls that may have hidden them.
Hidden(failures) == "conditions" \in LostCalls /\ failures <= MaxFaults - budget.faults

\* Failures that are still counted, and a host that a machine may claim all the same:
\* either the patch that resets the counter is under way, or no probe fails any more,
\* or the calls that would have told are among those that failed.
CountInv ==
  /\ status.failures > 0 /\ status.probed =>
       \/ pass.pc \in {"metadata", "status"} /\ pass.status.failures = 0
       \/ up /\ budget.outages = 0
       \/ Hidden(status.failures)
  /\ pass.pc # "idle" =>
       /\ pass.status.probed = TRUE /\ status.failures > 0 => pass.status.failures = 0
       /\ pass.status.failures \notin {Keep, 0} =>
            IF pass.pc = "conditions" /\ pass.status.probed # Keep
              THEN /\ pass.status.probed = FALSE
                   /\ "conditions" \in LostCalls => Hidden(pass.status.failures - 1)
              ELSE status.probed = FALSE \/ Hidden(pass.status.failures)

\* With at most one outage, failures are counted after it only.
OutageInv ==
  MaxOutages <= 1 =>
    /\ ~up /\ budget.outages > 0 =>
         /\ ~(status.phase \in {"Available", "Unavailable", "Claimed", "Releasing"})
         /\ status.failures = 0
         /\ pass.pc # "idle" => /\ pass.sample = None /\ pass.status.phase \in {Keep, "Probing"}
                                /\ pass.status.failures = Keep
    /\ status.failures > 0 => budget.outages = 0
    /\ pass.pc # "idle" /\ pass.status.failures # Keep => budget.outages = 0
    /\ pass.pc # "idle" /\ pass.status.failures = 0 => up

SelectorInv ==
  /\ Budgeted /\ ClaimsInv /\ DecisionInv /\ PromotionInv /\ CountInv /\ OutageInv

\* The mark of a field left out is no value of a field.
LEMMA KeepIsNoValue ==
  /\ Keep # None /\ ~(Keep \in Nat) /\ ~(Keep \in BOOLEAN)
  /\ Keep \notin {"Probing", "Available", "Unavailable", "Claimed", "Releasing"}
BY MarkersAssumption, PhaseNames

\* The invariant holds before the first reconcile.
LEMMA InitSelector == Init => SelectorInv
<1> SUFFICES ASSUME Init PROVE SelectorInv
  OBVIOUS
<1>1. /\ status.claimed = FALSE /\ status.probed = FALSE /\ status.failures = 0 /\ status.phase = Blank
  BY Zenon DEF Init, NewStatus
<1>2. pass.pc = "idle"
  BY DEF Init, Idle
<1>3. Blank \notin {"Available", "Unavailable", "Claimed", "Releasing"}
  BY Zenon DEF Blank
<1>4. Budgeted
  BY DiscoveryAssumption DEF Init, Budgeted
<1>5. ClaimsInv
  BY <1>1, <1>3 DEF ClaimsInv, Ready
<1>6. CountInv /\ OutageInv
  BY <1>1, <1>2, <1>3 DEF CountInv, OutageInv
<1> QED
  BY <1>2, <1>4, <1>5, <1>6 DEF SelectorInv, DecisionInv, PromotionInv

\* What the steps do to the counter of failures and to the outages.
LEMMA NextBudget ==
  ASSUME DiscoveryInv, SelectorInv, Trusted, [Next]_vars
  PROVE  Budgeted'
<1>1. Budgeted /\ MaxOutages \in Nat /\ MaxFaults \in Nat
  BY DiscoveryAssumption DEF SelectorInv
<1>2. CASE UNCHANGED budget
  BY <1>1, <1>2 DEF Budgeted
<1>3. CASE /\ budget.faults > 0
           /\ budget' = [budget EXCEPT !.faults = @ - 1]
  BY <1>1, <1>3 DEF Budgeted
<1>4. CASE MirrorVersion
  BY <1>1, <1>4 DEF MirrorVersion, Budgeted
<1>5. CASE GoDown
  BY <1>1, <1>5 DEF GoDown, Budgeted
<1>6. CASE EditLabels
  BY <1>1, <1>6 DEF EditLabels, Budgeted
<1> QED
  BY <1>2, <1>3, <1>4, <1>5, <1>6 DEF Next, HostStep, HostReconcile, PatchConditions, PatchMetadata,
     PatchStatus, Lands, Spent, Abort, Claim, Release, ComeUp, vars

\* What the steps keep of the types.
SelectorTypes ==
  /\ status.failures \in Nat /\ status.failures <= FailureThreshold
  /\ status.claimed \in BOOLEAN /\ status.probed \in BOOLEAN
  /\ up \in BOOLEAN
  /\ budget.outages \in Nat /\ budget.faults \in Nat /\ budget.faults <= MaxFaults
  /\ MaxOutages \in Nat /\ MaxFaults \in Nat /\ budget.outages <= MaxOutages
  /\ FailureThreshold \in Nat

\* Types are part of the invariants.
LEMMA SelectorTyped == DiscoveryInv /\ SelectorInv => SelectorTypes
<1> SUFFICES ASSUME DiscoveryInv, SelectorInv PROVE SelectorTypes
  OBVIOUS
<1>1. Typed(status) /\ up \in BOOLEAN
  BY TypedStatus DEF DiscoveryInv, TypeOK
<1> QED
  BY <1>1, DiscoveryAssumption DEF Typed, SelectorInv, Budgeted, SelectorTypes

\* ... to the claims.
LEMMA NextClaims ==
  ASSUME DiscoveryInv, SelectorInv, Trusted, [Next]_vars
  PROVE  ClaimsInv'
<1>1. /\ ClaimsInv /\ DecisionInv /\ PromotionInv /\ "metadata" \notin LostCalls /\ Budgeted
  BY DEF SelectorInv, Trusted
<1>2. SelectorTypes
  BY SelectorTyped
<1>3. \/ Begins \/ WritesConditions \/ WritesLabels \/ WritesStatus \/ LosesConditions \/ Aborts
      \/ Claims \/ Releases \/ Elsewhere
  BY <1>1, SelectorSteps
<1>4. CASE Begins \/ WritesConditions \/ LosesConditions \/ Aborts \/ Elsewhere
  BY <1>1, <1>4 DEF ClaimsInv, Begins, WritesConditions, LosesConditions, Aborts, Elsewhere, Ready
<1>5. CASE WritesLabels
  <2>1. CASE Ready(status)
    <3>1. pass.sample = None
      BY <1>1, <1>5, <2>1 DEF DecisionInv, WritesLabels
    <3>2. \A k \in HardwareKeys : pass.labels[k] \in {Keep, HardwareLabels(status.hardware)[k]}
      BY <1>1, <1>5, <3>1 DEF PromotionInv, WritesLabels
    <3>3. \A k \in HardwareKeys : labels'[k] = HardwareLabels(status.hardware)[k]
      BY <1>1, <1>5, <2>1, <3>2 DEF ClaimsInv, WritesLabels
    <3> QED
      BY <1>1, <1>5, <2>1, <3>3 DEF ClaimsInv, WritesLabels
  <2>2. CASE ~Ready(status)
    BY <1>1, <1>5, <2>2 DEF ClaimsInv, WritesLabels, Ready
  <2> QED
    BY <2>1, <2>2
<1>6. CASE WritesStatus
  <2>1. /\ pass.status.claimed \in {Keep, FALSE}
        /\ pass.status.phase \in {Keep, "Available", "Probing", "Unavailable"}
        /\ pass.status.phase = "Available" => pass.sample # None
        /\ pass.sample # None \/ pass.status.phase = "Probing" => ~Ready(status)
        /\ pass.status.phase = "Unavailable" => status.claimed = FALSE
    BY <1>1, <1>6 DEF DecisionInv, WritesStatus
  <2>2. status'.claimed => status'.phase = "Claimed"
    <3> SUFFICES ASSUME status'.claimed
                 PROVE  status'.phase = "Claimed"
      OBVIOUS
    <3>1. status.claimed /\ status'.claimed = status.claimed
      BY <1>6, <2>1 DEF WritesStatus
    <3>2. status.phase = "Claimed" /\ Ready(status)
      BY <1>1, <3>1 DEF ClaimsInv, Ready
    <3>3. pass.status.phase = Keep
      BY <1>2, <2>1, <3>1, <3>2 DEF SelectorTypes
    <3> QED
      BY <1>6, <3>2, <3>3 DEF WritesStatus
  <2>3. CASE pass.sample = None
    <3>1. status'.hardware = status.hardware /\ seen' = seen /\ labels' = labels
      BY <1>6, <2>3 DEF WritesStatus, DiscoveryInv, PassInv
    <3>2. Ready(status)' => Ready(status)
      BY <1>6, <2>1, <2>3, KeepIsNoValue DEF WritesStatus, Ready
    <3> QED
      BY <1>1, <2>2, <3>1, <3>2 DEF ClaimsInv
  <2>4. CASE pass.sample # None
    <3>1. status'.hardware = Facts(pass.sample)
      BY <1>6, <2>4 DEF WritesStatus, DiscoveryInv, PassInv
    <3>2. \A k \in HardwareKeys : labels'[k] = HardwareLabels(Facts(pass.sample))[k]
      BY <1>1, <1>6, <2>4 DEF PromotionInv, WritesStatus
    <3>3. seen' # None
      BY <1>6, <2>4 DEF WritesStatus
    <3> QED
      BY <2>2, <3>1, <3>2, <3>3 DEF ClaimsInv
  <2> QED
    BY <2>3, <2>4
<1>7. CASE Claims
  BY <1>1, <1>7 DEF ClaimsInv, Claims, Candidate, Ready
<1>8. CASE Releases
  BY <1>1, <1>8 DEF ClaimsInv, Releases, Ready
<1> QED
  BY <1>3, <1>4, <1>5, <1>6, <1>7, <1>8

\* ... to what a patch under way may find.
LEMMA NextDecision ==
  ASSUME DiscoveryInv, SelectorInv, Trusted, [Next]_vars
  PROVE  DecisionInv'
<1> SUFFICES ASSUME pass'.pc # "idle"
             PROVE  DecisionInv'
  BY DEF DecisionInv
<1>1. /\ ClaimsInv /\ DecisionInv /\ CountInv /\ "metadata" \notin LostCalls /\ Budgeted
      /\ FailureThreshold >= 2 /\ ("conditions" \in LostCalls => MaxFaults + 1 < FailureThreshold)
  BY DEF SelectorInv, Trusted
<1>2. SelectorTypes
  BY SelectorTyped
<1>3. \/ Begins \/ WritesConditions \/ WritesLabels \/ WritesStatus \/ LosesConditions \/ Aborts
      \/ Claims \/ Releases \/ Elsewhere
  BY <1>1, SelectorSteps
<1>4. CASE Begins
  <2>1. PICK r : /\ Handled(r) /\ Decided(r) /\ pass'.sample = r.sample
                 /\ \A f \in StatusFields :
                      pass'.status[f] = IF r.status[f] = status[f] THEN Keep ELSE r.status[f]
    BY <1>4 DEF Begins
  <2>2. /\ pass'.status.claimed = IF r.status.claimed = status.claimed THEN Keep ELSE r.status.claimed
        /\ pass'.status.phase = IF r.status.phase = status.phase THEN Keep ELSE r.status.phase
    BY <2>1 DEF StatusFields
  <2>3. pass'.status.probed = IF r.status.probed = status.probed THEN Keep ELSE r.status.probed
    BY <2>1 DEF StatusFields
  <2>4. UNCHANGED <<status, labels>> /\ pass.pc = "idle"
    BY <1>4 DEF Begins
  <2>5. Keep # "Available" /\ Keep # "Probing" /\ Keep # "Unavailable"
    BY KeepIsNoValue
  <2>6. CASE r.sample # None
    <3>1. ~Ready(status) /\ r.status.phase = "Available" /\ r.status.claimed \in {FALSE, status.claimed}
      BY <2>1, <2>6 DEF Decided
    <3> QED
      BY <2>1, <2>2, <2>4, <2>5, <2>6, <3>1 DEF DecisionInv, Ready
  <2>7. CASE /\ r.sample = None /\ ~Ready(status) /\ r.status.phase \in {"Probing", status.phase}
             /\ r.status.claimed = status.claimed
    BY <2>1, <2>2, <2>4, <2>5, <2>7 DEF DecisionInv, Ready
  <2>8. CASE r.sample = None /\ r.status.phase = status.phase /\ r.status.claimed = status.claimed
    BY <2>1, <2>2, <2>4, <2>5, <2>8 DEF DecisionInv, Ready
  <2>9. CASE /\ r.sample = None /\ ~up /\ status.phase = "Available"
             /\ status.failures + 1 >= FailureThreshold /\ r.status.phase = "Unavailable"
             /\ r.status.probed = FALSE /\ r.status.claimed = status.claimed
    <3>1. status.failures > 0
      BY <1>1, <1>2, <2>9 DEF SelectorTypes
    <3>2. status.probed = FALSE
      BY <1>1, <1>2, <2>4, <2>9, <3>1 DEF CountInv, Hidden, SelectorTypes
    <3>3. status.claimed = FALSE
      BY <1>1, <1>2, <2>9 DEF ClaimsInv, SelectorTypes
    <3> QED
      BY <2>1, <2>2, <2>3, <2>4, <2>5, <2>9, <3>2, <3>3 DEF DecisionInv, Ready
  <2> QED
    BY <2>1, <2>6, <2>7, <2>8, <2>9 DEF Decided
<1>5. CASE WritesConditions \/ LosesConditions
  BY <1>1, <1>5 DEF DecisionInv, WritesConditions, LosesConditions, SamePatch, Ready
<1>6. CASE WritesLabels
  BY <1>1, <1>6 DEF DecisionInv, WritesLabels, SamePatch, Ready
<1>7. CASE Claims
  BY <1>1, <1>7 DEF DecisionInv, Claims, Candidate, Ready
<1>8. CASE Releases
  <2>1. Ready(status) /\ status.claimed # FALSE
    BY <1>1, <1>8 DEF ClaimsInv, Releases, Ready
  <2> QED
    BY <1>1, <1>8, <2>1 DEF DecisionInv, Releases
<1>9. CASE Elsewhere
  BY <1>1, <1>9 DEF DecisionInv, Elsewhere, Ready
<1> QED
  BY <1>3, <1>4, <1>5, <1>6, <1>7, <1>8, <1>9 DEF WritesStatus, Aborts

\* ... to the labels a patch brings.
LEMMA NextPromotion ==
  ASSUME DiscoveryInv, SelectorInv, Trusted, [Next]_vars
  PROVE  PromotionInv'
<1> SUFFICES ASSUME pass'.pc # "idle"
             PROVE  PromotionInv'
  BY DEF PromotionInv
<1>1. /\ PromotionInv /\ "metadata" \notin LostCalls /\ Budgeted
  BY DEF SelectorInv, Trusted
<1>3. \/ Begins \/ WritesConditions \/ WritesLabels \/ WritesStatus \/ LosesConditions \/ Aborts
      \/ Claims \/ Releases \/ Elsewhere
  BY <1>1, SelectorSteps
<1>4. CASE Begins
  <2>1. PICK r : /\ Handled(r) /\ Decided(r) /\ pass'.sample = r.sample
                 /\ \A k \in HardwareKeys :
                      pass'.labels[k] = IF r.labels[k] = labels[k] THEN Keep ELSE r.labels[k]
    BY <1>4 DEF Begins
  <2>2. UNCHANGED <<status, labels>> /\ pass'.pc = "conditions"
    BY <1>4 DEF Begins
  <2>3. \A k \in HardwareKeys : r.labels[k] = HardwareLabels(r.status.hardware)[k]
    BY <2>1 DEF Decided
  <2>4. CASE r.sample = None
    <3>1. r.status.hardware = status.hardware
      BY <2>1, <2>4 DEF Handled
    <3> QED
      BY <2>1, <2>2, <2>3, <2>4, <3>1 DEF PromotionInv
  <2>5. CASE r.sample # None
    <3>1. Sampled(r.sample) /\ r.status.hardware = Facts(r.sample)
      BY <2>1, <2>5 DEF Handled
    <3>2. \A k \in HardwareKeys : HardwareLabels(Facts(r.sample))[k] # Keep
      BY <3>1, LabelsAreNoMarks
    <3>3. \A k \in HardwareKeys :
            HardwareLabels(Facts(r.sample))[k] =
              IF pass'.labels[k] = Keep THEN labels[k] ELSE pass'.labels[k]
      BY <2>1, <2>3, <3>1, <3>2
    <3>4. Facts(r.sample) = Facts(pass.sample)'
      BY <2>1 DEF Facts
    <3> QED
      BY <2>1, <2>2, <2>5, <3>3, <3>4 DEF PromotionInv
  <2> QED
    BY <2>4, <2>5
<1>5. CASE WritesLabels
  <2>1. Facts(pass.sample)' = Facts(pass.sample)
    BY <1>5 DEF WritesLabels, SamePatch, Facts
  <2> QED
    BY <1>1, <1>5, <2>1 DEF PromotionInv, WritesLabels, SamePatch
<1>6. CASE WritesConditions \/ LosesConditions
  <2>1. Facts(pass.sample)' = Facts(pass.sample)
    BY <1>6 DEF WritesConditions, LosesConditions, SamePatch, Facts
  <2> QED
    BY <1>1, <1>6, <2>1 DEF PromotionInv, WritesConditions, LosesConditions, SamePatch
<1>7. CASE Claims \/ Releases \/ Elsewhere
  <2>1. /\ UNCHANGED pass /\ status'.hardware = status.hardware
        /\ \A k \in HardwareKeys : labels'[k] = labels[k]
    BY <1>7 DEF Claims, Releases, Elsewhere
  <2>2. Facts(pass.sample)' = Facts(pass.sample)
    BY <2>1 DEF Facts
  <2> QED
    BY <1>1, <2>1, <2>2 DEF PromotionInv
<1> QED
  BY <1>3, <1>4, <1>5, <1>6, <1>7 DEF WritesStatus, Aborts

\* ... to the outages.
LEMMA NextOutage ==
  ASSUME DiscoveryInv, SelectorInv, Trusted, [Next]_vars
  PROVE  OutageInv'
<1> SUFFICES ASSUME MaxOutages <= 1
             PROVE  OutageInv'
  BY DEF OutageInv
<1>1. /\ ClaimsInv /\ OutageInv /\ "metadata" \notin LostCalls /\ Budgeted
  BY DEF SelectorInv, Trusted
<1>2. SelectorTypes
  BY SelectorTyped
<1>3. \/ Begins \/ WritesConditions \/ WritesLabels \/ WritesStatus \/ LosesConditions \/ Aborts
      \/ Claims \/ Releases \/ Elsewhere
  BY <1>1, SelectorSteps
<1>4. CASE Begins
  <2>1. PICK r : /\ Handled(r) /\ Decided(r) /\ pass'.sample = r.sample
                 /\ \A f \in StatusFields :
                      pass'.status[f] = IF r.status[f] = status[f] THEN Keep ELSE r.status[f]
    BY <1>4 DEF Begins
  <2>2. /\ pass'.status.phase = IF r.status.phase = status.phase THEN Keep ELSE r.status.phase
        /\ pass'.status.failures = IF r.status.failures = status.failures THEN Keep ELSE r.status.failures
    BY <2>1 DEF StatusFields
  <2>3. UNCHANGED <<status, labels, up, budget>> /\ pass'.pc = "conditions"
    BY <1>4 DEF Begins
  <2>4. ~(Keep \in Nat)
    BY KeepIsNoValue
  <2>5. CASE up /\ r.status.failures = 0
    <3>1. pass'.status.failures # Keep => budget.outages = 0
      BY <1>1, <1>2, <2>2, <2>5 DEF OutageInv, SelectorTypes
    <3> QED
      BY <1>1, <2>3, <2>5, <3>1 DEF OutageInv
  <2>6. CASE /\ r.sample = None /\ r.status.phase \in {"Probing", status.phase}
             /\ r.status.failures = status.failures
    <3>1. pass'.status.failures = Keep /\ pass'.status.phase \in {Keep, "Probing"}
      BY <2>2, <2>6
    <3>2. pass'.status.failures # 0
      BY <2>4, <3>1
    <3> QED
      BY <1>1, <2>1, <2>3, <2>6, <3>1, <3>2 DEF OutageInv
  <2>7. CASE /\ r.sample = None /\ ~up /\ status.phase = "Available"
             /\ r.status.failures = IF status.failures + 1 > FailureThreshold THEN status.failures
                                    ELSE status.failures + 1
    <3>1. budget.outages = 0
      BY <1>1, <1>2, <2>7 DEF OutageInv, SelectorTypes
    <3>2. pass'.status.failures # 0
      BY <1>2, <2>2, <2>4, <2>7 DEF SelectorTypes
    <3> QED
      BY <1>1, <2>3, <3>1, <3>2 DEF OutageInv
  <2> QED
    BY <2>1, <2>5, <2>6, <2>7 DEF Decided
<1>5. CASE WritesConditions \/ LosesConditions
  BY <1>1, <1>5 DEF OutageInv, WritesConditions, LosesConditions, SamePatch
<1>6. CASE WritesLabels
  BY <1>1, <1>6 DEF OutageInv, WritesLabels, SamePatch
<1>7. CASE WritesStatus
  <2>1. status'.failures > 0 => budget.outages = 0
    BY <1>1, <1>7 DEF OutageInv, WritesStatus
  <2>2. ASSUME ~up, budget.outages > 0
        PROVE  /\ ~(status'.phase \in {"Available", "Unavailable", "Claimed", "Releasing"})
               /\ status'.failures = 0
    BY <1>1, <1>7, <2>2, KeepIsNoValue DEF OutageInv, WritesStatus
  <2> QED
    BY <1>7, <2>1, <2>2 DEF OutageInv, WritesStatus
<1>8. CASE Aborts
  BY <1>1, <1>8 DEF OutageInv, Aborts
<1>9. CASE Claims
  BY <1>1, <1>9 DEF OutageInv, Claims, Candidate
<1>10. CASE Releases
  <2>1. status.phase = "Claimed"
    BY <1>1, <1>10 DEF ClaimsInv, Releases
  <2> QED
    BY <1>1, <1>10, <2>1 DEF OutageInv, Releases
<1>11. CASE Elsewhere
  <2>1. CASE budget'.outages = budget.outages /\ (up' = up \/ up')
    BY <1>1, <1>11, <2>1 DEF OutageInv, Elsewhere
  <2>2. CASE up /\ ~up' /\ budget.outages > 0 /\ budget'.outages = budget.outages - 1
    <3>1. budget'.outages = 0
      BY <1>2, <2>2 DEF SelectorTypes
    <3>2. pass.pc # "idle" => pass.status.failures = Keep
      BY <1>1, <1>2, <2>2 DEF OutageInv, SelectorTypes
    <3>3. Keep # 0
      BY KeepIsNoValue
    <3> QED
      BY <1>11, <3>1, <3>2, <3>3 DEF OutageInv, Elsewhere
  <2> QED
    BY <1>11, <2>1, <2>2 DEF Elsewhere
<1> QED
  BY <1>3, <1>4, <1>5, <1>6, <1>7, <1>8, <1>9, <1>10, <1>11

\* ... to the counter of failures.
LEMMA NextCount ==
  ASSUME DiscoveryInv, SelectorInv, Trusted, [Next]_vars
  PROVE  CountInv'
<1>1. /\ CountInv /\ OutageInv /\ "metadata" \notin LostCalls /\ Budgeted
      /\ MaxFaults = 0 \/ MaxOutages <= 1
  BY DEF SelectorInv, Trusted
<1>2. SelectorTypes
  BY SelectorTyped
<1>3. \/ Begins \/ WritesConditions \/ WritesLabels \/ WritesStatus \/ LosesConditions \/ Aborts
      \/ Claims \/ Releases \/ Elsewhere
  BY <1>1, SelectorSteps
<1>4. ~(Keep \in Nat) /\ ~(Keep \in BOOLEAN)
  BY KeepIsNoValue
<1>5. CASE Begins
  <2>1. PICK r : /\ Handled(r) /\ Decided(r)
                 /\ \A f \in StatusFields :
                      pass'.status[f] = IF r.status[f] = status[f] THEN Keep ELSE r.status[f]
    BY <1>5 DEF Begins
  <2>2. /\ pass'.status.failures = IF r.status.failures = status.failures THEN Keep ELSE r.status.failures
    BY <2>1 DEF StatusFields
  <2>3. pass'.status.probed = IF r.status.probed = status.probed THEN Keep ELSE r.status.probed
    BY <2>1 DEF StatusFields
  <2>4. UNCHANGED <<status, up, budget>> /\ pass'.pc = "conditions" /\ pass.pc = "idle"
    BY <1>5 DEF Begins
  <2>5. status.failures > 0 /\ status.probed => (up /\ budget.outages = 0) \/ Hidden(status.failures)
    BY <1>1, <2>4 DEF CountInv
  <2>6. /\ pass'.status.probed = TRUE /\ status.failures > 0 => pass'.status.failures = 0
        /\ pass'.status.failures \notin {Keep, 0} =>
             IF pass'.status.probed # Keep THEN pass'.status.probed = FALSE ELSE status.probed = FALSE
    <3>1. CASE r.status.failures = 0 /\ r.status.probed = TRUE
      BY <1>2, <2>2, <3>1 DEF SelectorTypes
    <3>2. CASE r.status.failures = status.failures /\ r.status.probed \in {FALSE, status.probed}
      BY <1>4, <2>2, <2>3, <3>2
    <3>3. CASE r.status.probed = FALSE
      BY <1>2, <1>4, <2>2, <2>3, <3>3 DEF SelectorTypes
    <3> QED
      BY <2>1, <3>1, <3>2, <3>3 DEF Decided
  <2>7. ASSUME pass'.status.failures \notin {Keep, 0}, pass'.status.probed # Keep,
               "conditions" \in LostCalls
        PROVE  Hidden(pass'.status.failures - 1)
    <3>1. /\ r.status.failures # status.failures /\ r.status.failures # 0
          /\ pass'.status.failures = r.status.failures
      BY <2>2, <2>7
    <3>2. ~up /\ r.status.probed = FALSE /\ r.status.failures = status.failures + 1
      BY <2>1, <3>1 DEF Decided
    <3>3. status.probed = TRUE
      BY <1>2, <2>3, <2>7, <3>2 DEF SelectorTypes
    <3>4. status.failures = 0 \/ Hidden(status.failures)
      BY <1>2, <2>5, <3>2, <3>3 DEF SelectorTypes
    <3> QED
      BY <1>2, <2>7, <3>1, <3>2, <3>4 DEF Hidden, SelectorTypes
  <2> QED
    BY <2>4, <2>5, <2>6, <2>7 DEF CountInv, Hidden
<1>6. CASE WritesConditions
  <2>1. pass.pc = "conditions" /\ pass'.pc = "metadata" /\ pass'.status = pass.status
    BY <1>6 DEF WritesConditions, SamePatch
  <2>2. /\ status'.failures = status.failures /\ UNCHANGED <<up, budget>>
        /\ status'.probed = IF pass.status.probed = Keep THEN status.probed ELSE pass.status.probed
    BY <1>6 DEF WritesConditions
  <2>3. pass.status.probed \in BOOLEAN \cup {Keep}
    BY <2>1 DEF DiscoveryInv, PassInv
  <2> QED
    BY <1>1, <1>2, <2>1, <2>2, <2>3 DEF CountInv, Hidden, SelectorTypes
<1>13. CASE LosesConditions
  <2>1. /\ pass.pc = "conditions" /\ pass'.pc = "metadata" /\ pass'.status = pass.status
        /\ UNCHANGED <<status, up>> /\ budget'.outages = budget.outages
        /\ "conditions" \in LostCalls /\ budget'.faults = budget.faults - 1 /\ budget.faults > 0
    BY <1>13 DEF LosesConditions, SamePatch
  <2>2. pass.status.failures \in (0..FailureThreshold) \cup {Keep}
    BY <2>1 DEF DiscoveryInv, PassInv
  <2>3. \A n \in Nat : Hidden(n) \/ Hidden(n - 1) => Hidden(n)'
    BY <1>2, <2>1 DEF Hidden, SelectorTypes
  <2>4. pass.status.failures \notin {Keep, 0} =>
          pass.status.failures \in Nat /\ (status.probed = FALSE \/ Hidden(pass.status.failures)')
    BY <1>1, <1>2, <2>1, <2>2, <2>3 DEF CountInv, SelectorTypes
  <2>5. status.failures > 0 /\ status.probed => (up /\ budget.outages = 0) \/ Hidden(status.failures)'
    BY <1>1, <1>2, <2>1, <2>3 DEF CountInv, SelectorTypes
  <2> QED
    BY <1>1, <2>1, <2>4, <2>5 DEF CountInv, Hidden
<1>7. CASE WritesLabels
  BY <1>1, <1>7 DEF CountInv, Hidden, WritesLabels, SamePatch
<1>8. CASE WritesStatus
  <2>1. /\ pass.pc = "status" /\ pass'.pc = "idle" /\ UNCHANGED <<up, budget>>
        /\ status'.probed = status.probed
        /\ status'.failures = IF pass.status.failures = Keep THEN status.failures
                              ELSE pass.status.failures
    BY <1>8 DEF WritesStatus
  <2>2. ASSUME status'.failures > 0, status'.probed
        PROVE  (up /\ budget.outages = 0) \/ Hidden(status'.failures)
    <3>1. status.probed = TRUE
      BY <1>2, <2>1, <2>2 DEF SelectorTypes
    <3>2. pass.status.failures \in {Keep, 0} \/ Hidden(pass.status.failures)
      BY <1>1, <2>1, <3>1 DEF CountInv
    <3>5. CASE pass.status.failures \notin {Keep, 0}
      BY <2>1, <3>2, <3>5
    <3> SUFFICES ASSUME pass.status.failures \in {Keep, 0}
                 PROVE  (up /\ budget.outages = 0) \/ Hidden(status'.failures)
      BY <3>5
    <3>3. pass.status.failures = Keep
      BY <2>1, <2>2
    <3>4. status.failures > 0 /\ pass.status.failures # 0
      BY <1>4, <2>1, <2>2, <3>3
    <3> QED
      BY <1>1, <2>1, <3>1, <3>3, <3>4 DEF CountInv
  <2> QED
    BY <2>1, <2>2 DEF CountInv, Hidden
<1>9. CASE Aborts
  <2>1. budget.faults > 0 /\ pass.pc # "idle" /\ pass'.pc = "idle" /\ UNCHANGED <<status, up>>
        /\ budget'.outages = budget.outages
    BY <1>9 DEF Aborts
  <2>2. MaxOutages <= 1
    BY <1>1, <1>2, <2>1 DEF SelectorTypes
  <2>3. pass.status.failures = 0 => up /\ budget.outages = 0
    BY <1>1, <1>4, <2>1, <2>2 DEF OutageInv
  <2>4. Hidden(status.failures) => Hidden(status.failures)'
    BY <1>2, <1>9, <2>1 DEF Aborts, Hidden, SelectorTypes
  <2> QED
    BY <1>1, <2>1, <2>3, <2>4 DEF CountInv
<1>10. CASE Claims
  BY <1>1, <1>10 DEF CountInv, Hidden, Claims
<1>11. CASE Releases
  BY <1>1, <1>11 DEF CountInv, Hidden, Releases
<1>12. CASE Elsewhere
  BY <1>1, <1>2, <1>12 DEF CountInv, Hidden, Elsewhere, SelectorTypes
<1> QED
  BY <1>3, <1>5, <1>6, <1>7, <1>8, <1>9, <1>10, <1>11, <1>12, <1>13

\* The invariant of the selectors is one.
LEMMA SelectorInvariance ==
  ASSUME Trusted
  PROVE  Spec => [](DiscoveryInv /\ SelectorInv)
<1>1. DiscoveryInv /\ SelectorInv /\ [Next]_vars => SelectorInv'
  <2> SUFFICES ASSUME DiscoveryInv, SelectorInv, [Next]_vars
               PROVE  SelectorInv'
    OBVIOUS
  <2> QED
    BY NextBudget, NextClaims, NextDecision, NextPromotion, NextCount, NextOutage DEF SelectorInv
<1> QED BY <1>1, InitSelector, DiscoveryInvariance, PTL DEF Spec

-----------------------------------------------------------------------------
(* What a selector may rely on.                                            *)

\* applyDiscoveryLabels runs at the end of every reconcile, on the status the same
\* reconcile patches in a later call: in between, and whatever is claimed, released or
\* edited meanwhile, a host that a machine may claim and that has a model label had no
\* GPU of another model when it was last discovered.
THEOREM ModelLabelIsUnambiguous ==
  ASSUME Trusted
  PROVE  Spec => []ModelLabelUnambiguous
<1>1. DiscoveryInv /\ SelectorInv => ModelLabelUnambiguous
  <2> SUFFICES ASSUME DiscoveryInv, SelectorInv, Candidate(status), labels.gpuModel # None
               PROVE  \A i \in GPUsOf(Inventory[seen.node]) :
                        LET d == Inventory[seen.node].pci[i]
                        IN  ModelTable[<<d.vendor, d.device>>].model = labels.gpuModel
    BY DEF ModelLabelUnambiguous
  <2> DEFINE inv == Inventory[seen.node]
             hw == status.hardware
  <2>1. seen # None /\ labels.gpuModel = HardwareLabels(hw).gpuModel
    <3>1. Ready(status) /\ "gpuModel" \in HardwareKeys
      BY DEF Candidate, Ready, HardwareKeys
    <3> QED
      BY <3>1 DEF SelectorInv, ClaimsInv
  <2>2. Sampled(seen) /\ hw = Facts(seen)
    BY <2>1 DEF DiscoveryInv, RecordedIsDiscovered
  <2>3. inv.pci \in Seq(Device)
    BY <2>2, HardwareAssumption DEF Sampled
  <2>4. hw.gpus = discoverGPUs(inv, seen.lost)
    BY <2>2, HardwareFields DEF Sampled, Facts
  <2>5. hw.gpus # None /\ hw.gpus.model # Blank =>
          \A i \in GPUsOf(inv) :
            ModelTable[<<inv.pci[i].vendor, inv.pci[i].device>>].model = hw.gpus.model
    BY <2>3, <2>4, GPUsDescribed
  <2>6. HardwareLabels(hw).gpuModel =
          IF hw = None \/ hw.gpus = None THEN None ELSE Unless(Blank, hw.gpus.model)
    BY Zenon DEF HardwareLabels
  <2>7. hw.gpus # None /\ hw.gpus.model # Blank /\ labels.gpuModel = hw.gpus.model
    BY <2>1, <2>6 DEF Unless
  <2> QED
    BY <2>5, <2>7
<1> QED BY <1>1, SelectorInvariance, PTL

\* The disk that systemDisk labels is the one that selectSystemDisk installs to.
LEMMA LabelledDiskIsInstalled ==
  ASSUME NEW n \in DOMAIN Inventory, NEW hw, hw # None, hw.disks = Inventory[n].disks
  PROVE  LET disks == Inventory[n].disks
             target == {i \in DOMAIN disks : disks[i].name = selectSystemDisk(disks)}
         IN  IF target = {} THEN HardwareLabels(hw).diskSize = None /\ HardwareLabels(hw).diskType = None
             ELSE \A i \in target : /\ HardwareLabels(hw).diskSize = roundQuantity(disks[i].size)
                                    /\ HardwareLabels(hw).diskType = diskTypeLabel(disks[i].type)
<1> DEFINE disks == Inventory[n].disks
           system == {i \in DOMAIN disks : disks[i].system}
           raid == {i \in system : disks[i].raid}
           disk == systemDisk(disks)
           target == {i \in DOMAIN disks : disks[i].name = selectSystemDisk(disks)}
<1>1. /\ disks \in Seq(BlockDevice)
      /\ \A i, j \in DOMAIN disks :
           disks[i].name # NoDisk /\ (disks[i].name = disks[j].name => i = j)
      /\ ~(None \in BlockDevice)
  BY HardwareAssumption
<1>2. disk = IF raid # {} THEN disks[Min(raid)] ELSE IF system # {} THEN disks[Min(system)] ELSE None
  BY Zenon DEF systemDisk
<1>3. selectSystemDisk(disks) = IF raid # {} THEN disks[Min(raid)].name
                                ELSE IF system # {} THEN disks[Min(system)].name ELSE NoDisk
  BY Zenon DEF selectSystemDisk
<1>4. DOMAIN disks \subseteq Nat /\ \A i \in DOMAIN disks : disks[i] \in BlockDevice
  BY <1>1
<1>5. raid \subseteq DOMAIN disks /\ system \subseteq DOMAIN disks
  OBVIOUS
<1>6. /\ HardwareLabels(hw).diskType = IF disk = None THEN None ELSE diskTypeLabel(disk.type)
      /\ HardwareLabels(hw).diskSize = IF disk = None \/ disk.size = 0 THEN None ELSE roundQuantity(disk.size)
  BY Zenon DEF HardwareLabels
<1> HIDE DEF disks, system, raid, disk
<1>7. ASSUME NEW k \in DOMAIN disks, disk = disks[k], selectSystemDisk(disks) = disks[k].name
      PROVE  /\ target = {k}
             /\ HardwareLabels(hw).diskSize = roundQuantity(disks[k].size)
             /\ HardwareLabels(hw).diskType = diskTypeLabel(disks[k].type)
  <2>1. disks[k] \in BlockDevice /\ disks[k] # None
    BY <1>1, <1>4
  <2>2. disks[k].size # 0
    BY <2>1 DEF BlockDevice
  <2>3. target = {k}
    BY <1>1, <1>7
  <2> QED
    BY <1>6, <1>7, <2>1, <2>2, <2>3
<1>8. CASE raid # {}
  <2>1. Min(raid) \in DOMAIN disks
    BY <1>4, <1>5, <1>8, MinIn
  <2>2. disk = disks[Min(raid)] /\ selectSystemDisk(disks) = disks[Min(raid)].name
    BY <1>2, <1>3, <1>8
  <2> QED
    BY <1>7, <2>1, <2>2 DEF disks
<1>9. CASE raid = {} /\ system # {}
  <2>1. Min(system) \in DOMAIN disks
    BY <1>4, <1>5, <1>9, MinIn
  <2>2. disk = disks[Min(system)] /\ selectSystemDisk(disks) = disks[Min(system)].name
    BY <1>2, <1>3, <1>9
  <2> QED
    BY <1>7, <2>1, <2>2 DEF disks
<1>10. CASE raid = {} /\ system = {}
  <2>1. disk = None /\ selectSystemDisk(disks) = NoDisk
    BY <1>2, <1>3, <1>10
  <2>2. target = {}
    BY <1>1, <2>1
  <2> QED
    BY <1>6, <2>1, <2>2 DEF disks
<1> QED
  BY <1>8, <1>9, <1>10

\* promoteHardwareLabels and selectSystemDisk choose the system disk each on its own,
\* one for the labels and one for the installation: of the disks last discovered, the
\* labels of a host that a machine may claim describe the one that selectSystemDisk
\* takes, between the calls of a patch too.
THEOREM DiskLabelsAreTrue ==
  ASSUME Trusted
  PROVE  Spec => []DiskLabelsMatchInstall
<1>1. DiscoveryInv /\ SelectorInv => DiskLabelsMatchInstall
  <2> SUFFICES ASSUME DiscoveryInv, SelectorInv, Candidate(status)
               PROVE  DiskLabelsMatchInstall
    BY DEF DiskLabelsMatchInstall
  <2> DEFINE disks == Inventory[seen.node].disks
             target == {i \in DOMAIN disks : disks[i].name = selectSystemDisk(disks)}
  <2>1. /\ seen # None /\ labels.diskType = HardwareLabels(status.hardware).diskType
        /\ labels.diskSize = HardwareLabels(status.hardware).diskSize
    <3>1. Ready(status) /\ "diskType" \in HardwareKeys /\ "diskSize" \in HardwareKeys
      BY DEF Candidate, Ready, HardwareKeys
    <3> QED
      BY <3>1 DEF SelectorInv, ClaimsInv
  <2>2. Sampled(seen) /\ status.hardware = Facts(seen)
    BY <2>1 DEF DiscoveryInv, RecordedIsDiscovered
  <2>3. seen.node \in DOMAIN Inventory /\ status.hardware.disks = disks /\ status.hardware # None
    BY <2>2, HardwareFields, AnswersFacts DEF Sampled, Facts
  <2>4. IF target = {} THEN labels.diskSize = None /\ labels.diskType = None
        ELSE \A i \in target : /\ labels.diskSize = roundQuantity(disks[i].size)
                               /\ labels.diskType = diskTypeLabel(disks[i].type)
    BY <2>1, <2>3, LabelledDiskIsInstalled
  <2> QED
    BY <2>4 DEF DiskLabelsMatchInstall
<1> QED BY <1>1, SelectorInvariance, PTL
=============================================================================

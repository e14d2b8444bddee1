---------------------------- MODULE TalosUpgrade ----------------------------
(***************************************************************************)
(* The post-adoption Talos upgrade of one ByotMachine that holds a host:   *)
(* adopt, applyAndMarkAdopted, reconcileAdopted and the ensureTalosVersion *)
(* state machine of pkg/controller/byotmachine_controller.go, and the calls *)
(* to the node it makes (pkg/controller/talos_apply.go).                   *)
(*                                                                         *)
(* One action is one API write or one exchange with the node.  A reconcile *)
(* works on a copy of the object (cur) and writes, through patch.Helper,   *)
(* the fields of it that differ from the helper's base.  Neither the base  *)
(* nor the copy is refreshed by a write, which is why the reconcile that   *)
(* adopts a machine goes on with the generation it read first.             *)
(***************************************************************************)
EXTENDS Integers

CONSTANTS
  Images,                 \* installer image references
  NoImage,                \* no DesiredTalosVersion, no applied reference
  Tag,                    \* Tag[i]: the version tag a node installed from i reports
  VersionProbeThreshold,  \* versionProbeThreshold
  UpgradeThreshold,       \* upgradeThreshold
  MaxEdits,               \* bound: edits of spec.desiredTalosVersion
  MaxReboots,             \* bound: reboots the controller did not ask for
  Faults                  \* which of the failures below the run allows

\* A crashed or aborted reconcile; an operator who edits the version while an
\* upgrade runs; calls to a healthy node that fail: probes, the install, the
\* reboot, the reset, and reading the boot id (permission denied); an install or
\* a reset that takes effect although the call fails (a stream that breaks, a
\* timeout); the spec call of markAdopted's patch, failing alone; and an update
\* of the ByotHost that conflicts.
FaultKinds == {"Abort", "EditInFlight", "ProbeFails", "UpgradeFails", "UpgradeLost", "RebootFails",
               "ResetFails", "ResetLost", "BootIDDenied", "SpecLost", "MirrorFails"}

ASSUME ImagesAssumption == NoImage \notin Images /\ Images # {}
ASSUME ThresholdsAssumption ==
  VersionProbeThreshold \in Nat \ {0} /\ UpgradeThreshold \in Nat \ {0}
ASSUME BoundsAssumption == MaxEdits \in Nat /\ MaxReboots \in Nat
ASSUME FaultsAssumption == Faults \subseteq FaultKinds

VARIABLES
  obj,          \* the ByotMachine on the API server
  hostVersion,  \* status.talosVersion of the ByotHost it holds
  node,         \* the Talos node
  w,            \* the reconcile of the machine
  reboots,      \* how often the node rebooted by itself (bounded)
  streak,       \* history: probes that failed since one last succeeded
  installs      \* history: how often an image was installed, by generation

vars == <<obj, hostVersion, node, w, reboots, streak, installs>>

NoTag == ""
NoBootID == 0
Threshold == IF UpgradeThreshold > VersionProbeThreshold THEN UpgradeThreshold ELSE VersionProbeThreshold

Tags == {Tag[i] : i \in Images}
Generations == 1..(MaxEdits + 2)

\* The fields of a ByotMachine the upgrade reads and writes.  "ready" stands for
\* status.ready and the matching lastAppliedConfigSHA, which change together.
Object == [desired: Images \cup {NoImage}, gen: Generations, providerID: BOOLEAN,
           ready: BOOLEAN, state: {"", "InFlight", "Failed"},
           failures: 0..Threshold, attemptGen: Generations \cup {0},
           appliedRef: Images \cup {NoImage}, bootID: Nat,
           version: Tags \cup {NoTag}, nodeUpdated: BOOLEAN]

NewObject(desired) ==
  [desired |-> desired, gen |-> 1, providerID |-> FALSE, ready |-> FALSE, state |-> "",
   failures |-> 0, attemptGen |-> 0, appliedRef |-> NoImage, bootID |-> NoBootID,
   version |-> NoTag, nodeUpdated |-> FALSE]

\* The node: reachable or rebooting, configured or in maintenance mode, the
\* image on its disk and the one it runs, its boot id, and whether its
\* kubelet ever registered.
Node == [up: BOOLEAN, config: BOOLEAN, disk: Images, running: Images, boot: Nat,
         joined: BOOLEAN]

\* A reconcile: the call it is about to make, the patch helper's base, its copy.
Steps == {"idle", "apply", "markSpec", "markStatus", "markRest", "retrigger", "probe", "count", "giveUp",
          "inFlight", "upgrade", "stash", "fail", "reset", "clear", "pollBootID",
          "pollVersion", "refresh", "poll", "complete", "mirror", "link"}
Work == [pc: Steps, base: Object, cur: Object]
Idle == [pc |-> "idle", base |-> NewObject(NoImage), cur |-> NewObject(NoImage)]

\* A freshly claimed host, pre-imaged, in maintenance mode.
Init ==
  /\ \E i \in Images \cup {NoImage} : obj = NewObject(i)
  /\ hostVersion = NoTag
  /\ \E i \in Images :
       node = [up |-> TRUE, config |-> FALSE, disk |-> i, running |-> i, boot |-> 1,
               joined |-> FALSE]
  /\ w = Idle
  /\ reboots = 0
  /\ streak = 0
  /\ installs = [g \in Generations |-> 0]

-----------------------------------------------------------------------------
(* The API server, the operator and the node.                              *)

\* patch.Helper: only what differs from the base is written.  A change of the
\* spec (the provider ID) gives the object a new generation.
Patched(base, cur) ==
  LET o == [f \in DOMAIN obj |-> IF cur[f] # base[f] THEN cur[f] ELSE obj[f]] IN
  [o EXCEPT !.gen = IF o.providerID # obj.providerID THEN @ + 1 ELSE @]

Patch == obj' = Patched(w.base, w.cur)

Edits == obj.gen - (IF obj.providerID THEN 2 ELSE 1)

\* An operator sets spec.desiredTalosVersion (the same one again through a
\* change back and forth), which gives the object a new generation.
Edit(i) ==
  /\ Edits < MaxEdits
  /\ "EditInFlight" \in Faults \/ (w.pc = "idle" /\ obj.state # "InFlight")
  /\ obj' = [obj EXCEPT !.desired = i, !.gen = @ + 1]
  /\ UNCHANGED <<hostVersion, node, w, reboots, streak, installs>>

\* The node comes up from what is on its disk; its kubelet registers it.
NodeUp ==
  /\ ~node.up
  /\ node' = [node EXCEPT !.up = TRUE, !.running = node.disk, !.boot = @ + 1,
                          !.joined = @ \/ node.config]
  /\ UNCHANGED <<obj, hostVersion, w, reboots, streak, installs>>

\* "The host may reboot on its own or an operator nudges it."
NodeReboots ==
  /\ node.up /\ reboots < MaxReboots
  /\ node' = [node EXCEPT !.up = FALSE]
  /\ reboots' = reboots + 1
  /\ UNCHANGED <<obj, hostVersion, w, streak, installs>>

\* The same comment, for a reboot the controller asked for and that never came:
\* the upgrade waits for it, and the operator who waits for the upgrade nudges.
OperatorNudges ==
  /\ obj.state = "InFlight" /\ node.up /\ obj.bootID = node.boot
  /\ node' = [node EXCEPT !.up = FALSE]
  /\ UNCHANGED <<obj, hostVersion, w, reboots, streak, installs>>

\* The node answers over the cluster's talosconfig.
Answers == node.up /\ node.config
ProbeSucceeds == Answers /\ streak' = 0
ProbeFails == /\ ~Answers \/ "ProbeFails" \in Faults
              /\ streak' = IF streak < Threshold THEN streak + 1 ELSE streak

-----------------------------------------------------------------------------
(* The state machine's decisions.                                          *)

At(pc, base, cur) == [pc |-> pc, base |-> base, cur |-> cur]
Goto(pc, cur) == w' = At(pc, w.base, cur)

upgradeAlreadyApplied(c) == c.appliedRef = c.desired /\ c.attemptGen = c.gen

markUpgradeComplete(c) ==
  [c EXCEPT !.state = "", !.bootID = NoBootID, !.appliedRef = c.desired, !.attemptGen = c.gen]

\* Mutant: what is applied needs no more work.
SkipApplied(base, c) == At("link", base, c)

\* An applied upgrade is completed once more, for the mirrored version.
CompleteAgain(base, c) == At("complete", base, markUpgradeComplete(c))

\* Mutant: a failed upgrade is tried again without an edit.
RetriggerFailed(c) == c.state = "Failed"

MustRetrigger(c) == c.state = "Failed" /\ c.gen # c.attemptGen

\* Where ensureTalosVersion goes from the reconcile's copy c.
ensureTalosVersion(base, c) ==
  CASE c.desired = NoImage \/ ~c.ready -> At("link", base, c)
    [] c.desired # NoImage /\ c.ready /\ MustRetrigger(c) ->
         At("retrigger", base, [c EXCEPT !.state = "", !.failures = 0])
    [] c.desired # NoImage /\ c.ready /\ c.state = "Failed" /\ ~MustRetrigger(c) -> Idle
    [] c.desired # NoImage /\ c.ready /\ c.state = "" /\ upgradeAlreadyApplied(c) ->
         CompleteAgain(base, c)
    [] c.desired # NoImage /\ c.ready /\ c.state = "" /\ ~upgradeAlreadyApplied(c) ->
         At("probe", base, c)
    [] c.desired # NoImage /\ c.ready /\ c.state = "InFlight" ->
         At(IF c.bootID # NoBootID THEN "pollBootID" ELSE "pollVersion", base, c)

\* configUnchanged: the spec says so too, which a patch may have failed to write.
configUnchanged(c) == c.ready /\ c.providerID

\* adopt: apply the configuration unless it already was, or the upgrade failed.
adopt(c) ==
  IF c.state = "Failed" \/ configUnchanged(c) THEN ensureTalosVersion(c, c) ELSE At("apply", c, c)

\* Mutant: a failure is counted by the caller as well.
CountTwice(c) == [c EXCEPT !.failures = @ + 2]

\* recordUpgradeProbeFailure counts on the copy, then writes it.  The counter
\* stops at the larger threshold: from there on every failure acts alike.
CountFailure(c) == [c EXCEPT !.failures = IF @ < Threshold THEN @ + 1 ELSE @]

-----------------------------------------------------------------------------
(* Adoption.                                                               *)

Reconcile ==
  /\ w.pc = "idle"
  /\ w' = adopt(obj)
  /\ UNCHANGED <<obj, hostVersion, node, reboots, streak, installs>>

\* applyMachineConfig: a node in maintenance mode reboots into its
\* configuration; one that carries it already takes it in place.  A ready
\* machine's node is asked over the cluster's talosconfig.
ApplyConfig ==
  /\ w.pc = "apply"
  /\ IF node.up /\ (w.cur.ready => node.config)
       THEN /\ node' = [node EXCEPT !.config = TRUE, !.up = node.config]
            /\ Goto("markSpec", w.cur)
       ELSE UNCHANGED node /\ w' = Idle
  /\ UNCHANGED <<obj, hostVersion, reboots, streak, installs>>

\* markAdopted, whose patch writes the spec (providerID) ...
MarkAdoptedSpec ==
  /\ w.pc = "markSpec"
  /\ \/ /\ obj' = Patched(w.base, [w.cur EXCEPT !.providerID = TRUE])
        /\ Goto("markStatus", [w.cur EXCEPT !.providerID = TRUE])
     \/ "SpecLost" \in Faults /\ UNCHANGED obj /\ Goto("markRest", w.cur)
  /\ UNCHANGED <<hostVersion, node, reboots, streak, installs>>

\* ... and then the status; the same reconcile goes on to the upgrade.
MarkAdoptedStatus ==
  LET c == [w.cur EXCEPT !.ready = TRUE] IN
  /\ w.pc = "markStatus"
  /\ obj' = Patched(w.base, c)
  /\ w' = ensureTalosVersion(w.base, c)
  /\ UNCHANGED <<hostVersion, node, reboots, streak, installs>>

\* A patch makes its status call even if its spec call failed, and then returns
\* the error of that one, which ends the reconcile.
MarkAdoptedRest ==
  /\ w.pc = "markRest"
  /\ obj' = Patched(w.base, [w.cur EXCEPT !.ready = TRUE])
  /\ w' = Idle
  /\ UNCHANGED <<hostVersion, node, reboots, streak, installs>>

-----------------------------------------------------------------------------
(* Issuing the upgrade.                                                    *)

Retrigger ==
  /\ w.pc = "retrigger"
  /\ Patch
  /\ w' = ensureTalosVersion(w.base, w.cur)
  /\ UNCHANGED <<hostVersion, node, reboots, streak, installs>>

\* upgradeProbeAndIssue: the version probe.
VersionProbe ==
  /\ w.pc = "probe"
  /\ \/ /\ ProbeSucceeds
        /\ Goto("inFlight", [w.cur EXCEPT !.version = Tag[node.running], !.failures = 0,
                               !.state = "InFlight", !.attemptGen = w.cur.gen,
                               !.bootID = NoBootID])
     \/ ProbeFails /\ Goto("count", CountFailure(w.cur))
  /\ UNCHANGED <<obj, hostVersion, node, reboots, installs>>

\* upgradeProbeAndIssue: InFlight is on the API server before the call.
MarkInFlight ==
  /\ w.pc = "inFlight"
  /\ Patch
  /\ Goto("upgrade", w.cur)
  /\ UNCHANGED <<hostVersion, node, reboots, streak, installs>>

\* upgradeMachine: pull, install, read the boot id, reboot.  Only the pull and
\* the install can fail the call, the install before it ran or after: its stream
\* may break, or time out, before the installer's exit code arrives.
CountInstall == installs' = [installs EXCEPT ![w.cur.gen] = @ + 1]
UpgradeMachine ==
  /\ w.pc = "upgrade"
  /\ \/ /\ Answers
        /\ \E id \in {node.boot} \cup (IF "BootIDDenied" \in Faults THEN {NoBootID} ELSE {}),
              up \in {FALSE} \cup (IF "RebootFails" \in Faults THEN {TRUE} ELSE {}) :
             /\ node' = [node EXCEPT !.disk = w.cur.desired, !.up = up]
             /\ Goto("stash", [w.cur EXCEPT !.bootID = id])
        /\ CountInstall
     \/ /\ "UpgradeLost" \in Faults /\ Answers
        /\ node' = [node EXCEPT !.disk = w.cur.desired]
        /\ CountInstall /\ Goto("fail", w.cur)
     \/ /\ ~Answers \/ "UpgradeFails" \in Faults
        /\ Goto("fail", w.cur)
        /\ UNCHANGED <<node, installs>>
  /\ UNCHANGED <<obj, hostVersion, reboots, streak>>

\* Mutant: the boot id is not written.
ForgetBootID ==
  /\ w.pc = "stash"
  /\ w' = Idle
  /\ UNCHANGED <<obj, hostVersion, node, reboots, streak, installs>>

\* upgradeProbeAndIssue: the boot id, for the completion gate.
StashBootID ==
  /\ w.pc = "stash"
  /\ Patch
  /\ w' = Idle
  /\ UNCHANGED <<hostVersion, node, reboots, streak, installs>>

-----------------------------------------------------------------------------
(* Polling.                                                                *)

\* Mutant: a node that answers has rebooted.
RebootAssumed(c) == TRUE

Rebooted(c) == node.boot # c.bootID

\* upgradeInFlightBootIDGate: the live boot id.
PollBootID ==
  /\ w.pc = "pollBootID"
  /\ \/ ProbeSucceeds /\ Goto(IF Rebooted(w.cur) THEN "refresh" ELSE "poll", w.cur)
     \/ /\ "BootIDDenied" \in Faults /\ Answers
        /\ Goto("pollVersion", w.cur) /\ UNCHANGED streak
     \/ ProbeFails /\ Goto("count", CountFailure(w.cur))
  /\ UNCHANGED <<obj, hostVersion, node, reboots, installs>>

\* upgradeInFlightBootIDGate: the version, if the node answers, for the status.
RefreshVersion ==
  /\ w.pc = "refresh"
  /\ \/ /\ ProbeSucceeds
        /\ Goto("complete", markUpgradeComplete([w.cur EXCEPT !.version = Tag[node.running]]))
     \/ ProbeFails /\ Goto("complete", markUpgradeComplete(w.cur))
  /\ UNCHANGED <<obj, hostVersion, node, reboots, installs>>

\* upgradeInFlightVersionFallback: the upgrade is complete once the tag is another.
PollVersion ==
  LET seen == [w.cur EXCEPT !.version = Tag[node.running], !.failures = 0] IN
  /\ w.pc = "pollVersion"
  /\ \/ /\ ProbeSucceeds
        /\ IF Tag[node.running] = w.cur.version
             THEN Goto("poll", seen)
             ELSE Goto("complete", markUpgradeComplete(seen))
     \/ ProbeFails /\ Goto("count", CountFailure(w.cur))
  /\ UNCHANGED <<obj, hostVersion, node, reboots, installs>>

\* Both gates: the reboot was not seen yet; write what was and try again later.
PatchPoll ==
  /\ w.pc = "poll"
  /\ Patch
  /\ w' = Idle
  /\ UNCHANGED <<hostVersion, node, reboots, streak, installs>>

\* markUpgradeComplete ...
MarkComplete ==
  /\ w.pc = "complete"
  /\ Patch
  /\ Goto("mirror", w.cur)
  /\ UNCHANGED <<hostVersion, node, reboots, streak, installs>>

\* ... and syncHostTalosVersion; then the node may be linked.  An update that
\* fails ends the reconcile.
MirrorVersion ==
  /\ w.pc = "mirror"
  /\ \/ /\ hostVersion' = IF w.cur.version = NoTag THEN hostVersion ELSE w.cur.version
        /\ Goto("link", w.cur)
     \/ /\ "MirrorFails" \in Faults /\ w.cur.version \notin {NoTag, hostVersion}
        /\ w' = Idle /\ UNCHANGED hostVersion
  /\ UNCHANGED <<obj, node, reboots, streak, installs>>

\* linkNode, updateNodeProviderID: once, and only for a registered node.
LinkNode ==
  /\ w.pc = "link"
  /\ obj' = IF w.cur.providerID /\ node.joined
              THEN Patched(w.base, [w.cur EXCEPT !.nodeUpdated = TRUE])
              ELSE obj
  /\ w' = Idle
  /\ UNCHANGED <<hostVersion, node, reboots, streak, installs>>

-----------------------------------------------------------------------------
(* Failing.                                                                *)

\* recordUpgradeProbeFailure: write the counter; at the threshold give up, with
\* a reset if the upgrade was issued.
RecordProbeFailure ==
  /\ w.pc = "count"
  /\ Patch
  /\ \/ /\ w.cur.state = "" /\ w.cur.failures >= VersionProbeThreshold
        /\ Goto("giveUp", [w.cur EXCEPT !.state = "Failed", !.attemptGen = w.cur.gen])
     \/ /\ w.cur.state = "InFlight" /\ w.cur.failures >= UpgradeThreshold
        /\ Goto("fail", w.cur)
     \/ /\ w.cur.failures < (IF w.cur.state = "" THEN VersionProbeThreshold ELSE UpgradeThreshold)
        /\ w' = Idle
  /\ UNCHANGED <<hostVersion, node, reboots, streak, installs>>

GiveUp ==
  /\ w.pc = "giveUp"
  /\ Patch
  /\ w' = Idle
  /\ UNCHANGED <<hostVersion, node, reboots, streak, installs>>

\* finalizeUpgradeFailure: a fresh patch helper, whose base is the copy.
MarkFailed ==
  LET c == [w.cur EXCEPT !.state = "Failed", !.attemptGen = w.cur.gen] IN
  /\ w.pc = "fail"
  /\ obj' = Patched(w.cur, c)
  /\ w' = At("reset", c, c)
  /\ UNCHANGED <<hostVersion, node, reboots, streak, installs>>

\* finalizeUpgradeFailure, resetAdoptedHost: a reset that fails ends the
\* reconcile, also one that took effect and whose answer was lost.
ResetHost ==
  /\ w.pc = "reset"
  /\ \/ /\ Answers
        /\ node' = [node EXCEPT !.config = FALSE, !.up = FALSE]
        /\ \/ Goto("clear", [w.cur EXCEPT !.ready = FALSE])
           \/ "ResetLost" \in Faults /\ w' = Idle
     \/ /\ ~Answers \/ "ResetFails" \in Faults
        /\ UNCHANGED node /\ w' = Idle
  /\ UNCHANGED <<obj, hostVersion, reboots, streak, installs>>

\* Mutant: the reset machine stays ready.
KeepReady ==
  /\ w.pc = "clear"
  /\ w' = Idle
  /\ UNCHANGED <<obj, hostVersion, node, reboots, streak, installs>>

\* finalizeUpgradeFailure: not ready, and no configuration applied.
ClearReady ==
  /\ w.pc = "clear"
  /\ Patch
  /\ w' = Idle
  /\ UNCHANGED <<hostVersion, node, reboots, streak, installs>>

\* A crash, or an API error, ends the reconcile wherever it is.
Abort ==
  /\ "Abort" \in Faults
  /\ w.pc # "idle"
  /\ w' = Idle
  /\ UNCHANGED <<obj, hostVersion, node, reboots, streak, installs>>

-----------------------------------------------------------------------------

ReconcileStep ==
  \/ Reconcile \/ ApplyConfig \/ MarkAdoptedSpec \/ MarkAdoptedStatus \/ MarkAdoptedRest
  \/ Retrigger \/ VersionProbe \/ MarkInFlight \/ UpgradeMachine \/ StashBootID
  \/ PollBootID \/ RefreshVersion \/ PollVersion \/ PatchPoll
  \/ MarkComplete \/ MirrorVersion \/ LinkNode
  \/ RecordProbeFailure \/ GiveUp \/ MarkFailed \/ ResetHost \/ ClearReady

Next ==
  \/ ReconcileStep \/ Abort \/ NodeUp \/ NodeReboots \/ OperatorNudges
  \/ \E i \in Images : Edit(i)

Spec == Init /\ [][Next]_vars

-----------------------------------------------------------------------------
(* Properties.                                                             *)

\* Every variable keeps its type.
TypeOK ==
  /\ obj \in Object
  /\ hostVersion \in Tags \cup {NoTag}
  /\ node \in Node
  /\ w \in Work
  /\ reboots \in 0..MaxReboots
  /\ streak \in 0..Threshold
  /\ installs \in [Generations -> Nat]

\* Dedup by reference and generation (upgradeAlreadyApplied), and "install
\* already succeeded; never re-run it": no sequence of crashes, failed probes,
\* lost boot ids, lost answers and edits makes the controller run an installer
\* twice for one generation of the machine.  (An edit may have two: the
\* provider ID is a generation of its own, see FailedIsTerminal.)
InstallsOncePerGeneration == \A g \in Generations : installs[g] <= 1

\* The completion gate: an upgrade that ends in success ended in a node that
\* runs the image recorded as UpgradeAppliedImageRef, not merely in one that
\* rebooted.
CompletesOnDesired ==
  [][obj.state = "InFlight" /\ obj'.state = "" => node.running = obj'.appliedRef]_vars

\* A machine that counts as adopted, and whose upgrade has not failed, has a
\* node that carries its configuration.
ReadyIsConfigured == obj.ready /\ obj.state # "Failed" => node.config

-----------------------------------------------------------------------------
(* Statements of the documentation that the code does not keep (README,    *)
(* Refuted statements).                                                    *)

\* UpgradeProbeFailures counts consecutive failures; a success resets it.
CountsConsecutive == obj.failures <= streak

\* Upgrade before link: no node goes live while its upgrade is under way or
\* stopped on failure.
LinksOnlyUpgraded ==
  [][obj'.nodeUpdated /\ ~obj.nodeUpdated => obj.state = ""]_vars

\* A failed upgrade is terminal until an operator edits the machine.
FailedIsTerminal ==
  [][obj.state = "Failed" /\ Edits = 0 => obj'.state = "Failed"]_vars

-----------------------------------------------------------------------------
(* Liveness.  The controller runs a machine again after every requeue,     *)
(* error and event; nodes come up again; calls to a node that answers fail *)
(* finitely often; and an update of the ByotHost that is tried again and    *)
(* again does not conflict every time.                                     *)

NodeCallFails == w.pc \in {"probe", "pollBootID", "pollVersion"} /\ Answers /\ w'.pc = "count"
Settles == <>[][~NodeCallFails]_vars

Fairness ==
  /\ WF_vars(ReconcileStep)
  /\ WF_vars(NodeUp)
  /\ WF_vars(OperatorNudges)
  /\ SF_vars(MirrorVersion /\ w'.pc = "link")

LiveSpec == Spec /\ Fairness /\ Settles

\* Every upgrade comes to an end, in success or in failure.
InFlightEnds == obj.state = "InFlight" ~> obj.state # "InFlight"

\* markUpgradeComplete and syncHostTalosVersion: a completed upgrade reaches the
\* ByotHost's recorded version, even when the update of the ByotHost failed after
\* the completion was written.
VersionMirrored ==
  (obj.state = "" /\ upgradeAlreadyApplied(obj))
    ~> (hostVersion = obj.version \/ ~upgradeAlreadyApplied(obj))

\* An operator's edit restarts a failed upgrade.
RetriggerRestarts == MustRetrigger(obj) ~> ~MustRetrigger(obj)
=============================================================================

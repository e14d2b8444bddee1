------------------------- MODULE TalosUpgradeProofs -------------------------
(***************************************************************************)
(* Proofs about TalosUpgrade, for every set of images, every threshold and *)
(* any number of edits and reboots.                                        *)
(***************************************************************************)
EXTENDS TalosUpgrade, TLAPS

-----------------------------------------------------------------------------
(* patch.Helper.                                                           *)

\* The object after a patch of cur against base: each field of the status is
\* written when the copy changed it, and the spec's generation follows the
\* provider ID.
Merged(base, cur, p) ==
  /\ p.desired = obj.desired
  /\ p.providerID = (obj.providerID \/ cur.providerID)
  /\ p.gen = IF cur.providerID /\ ~obj.providerID THEN obj.gen + 1 ELSE obj.gen
  /\ p.ready = IF cur.ready = base.ready THEN obj.ready ELSE cur.ready
  /\ p.state = IF cur.state = base.state THEN obj.state ELSE cur.state
  /\ p.failures = IF cur.failures = base.failures THEN obj.failures ELSE cur.failures
  /\ p.attemptGen = IF cur.attemptGen = base.attemptGen THEN obj.attemptGen ELSE cur.attemptGen
  /\ p.appliedRef = IF cur.appliedRef = base.appliedRef THEN obj.appliedRef ELSE cur.appliedRef
  /\ p.bootID = IF cur.bootID = base.bootID THEN obj.bootID ELSE cur.bootID
  /\ p.version = IF cur.version = base.version THEN obj.version ELSE cur.version
  /\ p.nodeUpdated = IF cur.nodeUpdated = base.nodeUpdated THEN obj.nodeUpdated ELSE cur.nodeUpdated

Fields == {"desired", "gen", "providerID", "ready", "state", "failures", "attemptGen", "appliedRef",
           "bootID", "version", "nodeUpdated"}

\* An object whose generation may be one too large, before it is bounded.
Loose == [desired: Images \cup {NoImage}, gen: Nat, providerID: BOOLEAN,
          ready: BOOLEAN, state: {"", "InFlight", "Failed"},
          failures: 0..Threshold, attemptGen: Generations \cup {0},
          appliedRef: Images \cup {NoImage}, bootID: Nat,
          version: Tags \cup {NoTag}, nodeUpdated: BOOLEAN]

\* A record with fields of these types is an object whose generation is not bounded yet.
LEMMA LooseFields ==
  ASSUME NEW p,
         p = [desired |-> p.desired, gen |-> p.gen, providerID |-> p.providerID, ready |-> p.ready,
              state |-> p.state, failures |-> p.failures, attemptGen |-> p.attemptGen,
              appliedRef |-> p.appliedRef, bootID |-> p.bootID, version |-> p.version,
              nodeUpdated |-> p.nodeUpdated],
         p.desired \in Images \cup {NoImage}, p.gen \in Nat, p.providerID \in BOOLEAN,
         p.ready \in BOOLEAN, p.state \in {"", "InFlight", "Failed"}, p.failures \in 0..Threshold,
         p.attemptGen \in Generations \cup {0}, p.appliedRef \in Images \cup {NoImage},
         p.bootID \in Nat, p.version \in Tags \cup {NoTag}, p.nodeUpdated \in BOOLEAN
  PROVE  p \in Loose
BY DEF Loose

\* Generations count from 1, and the bound leaves room for one bump beside every edit.
LEMMA GenerationsAreNumbers == \A g \in Generations : g \in Nat /\ g >= 1 /\ g <= MaxEdits + 2
BY BoundsAssumption DEF Generations

\* patch.Helper: each field is the one of the copy if the reconcile changed it, and the
\* server's otherwise; a provider ID that is set for the first time bumps the generation.
LEMMA PatchMerges ==
  ASSUME obj \in Object, NEW base \in Object, NEW cur \in Object,
         cur.gen = base.gen, cur.desired = base.desired,
         base.providerID => cur.providerID, base.providerID => obj.providerID
  PROVE  Patched(base, cur) \in Loose /\ Merged(base, cur, Patched(base, cur))
<1> DEFINE o == [f \in DOMAIN obj |-> IF cur[f] # base[f] THEN cur[f] ELSE obj[f]]
           p == [o EXCEPT !.gen = IF o.providerID # obj.providerID THEN @ + 1 ELSE @]
<1>1. DOMAIN obj = Fields
  BY DEF Object, Fields
<1>2. o = [f \in Fields |-> IF cur[f] # base[f] THEN cur[f] ELSE obj[f]]
  BY <1>1
<1>3. o = [desired |-> o.desired, gen |-> o.gen, providerID |-> o.providerID, ready |-> o.ready,
           state |-> o.state, failures |-> o.failures, attemptGen |-> o.attemptGen,
           appliedRef |-> o.appliedRef, bootID |-> o.bootID, version |-> o.version,
           nodeUpdated |-> o.nodeUpdated]
  BY <1>2 DEF Fields
<1>4. /\ o.desired = obj.desired /\ o.gen = obj.gen
      /\ o.state = IF cur.state = base.state THEN obj.state ELSE cur.state
      /\ o.failures = IF cur.failures = base.failures THEN obj.failures ELSE cur.failures
      /\ o.attemptGen = IF cur.attemptGen = base.attemptGen THEN obj.attemptGen ELSE cur.attemptGen
      /\ o.appliedRef = IF cur.appliedRef = base.appliedRef THEN obj.appliedRef ELSE cur.appliedRef
      /\ o.bootID = IF cur.bootID = base.bootID THEN obj.bootID ELSE cur.bootID
      /\ o.version = IF cur.version = base.version THEN obj.version ELSE cur.version
  BY <1>2 DEF Fields
<1>5. /\ o.providerID = IF cur.providerID = base.providerID THEN obj.providerID ELSE cur.providerID
      /\ o.ready = IF cur.ready = base.ready THEN obj.ready ELSE cur.ready
      /\ o.nodeUpdated = IF cur.nodeUpdated = base.nodeUpdated THEN obj.nodeUpdated ELSE cur.nodeUpdated
  BY <1>2 DEF Fields
<1> HIDE DEF o
<1>6. o.providerID = (obj.providerID \/ cur.providerID)
  BY <1>5 DEF Object
<1>7. /\ o.desired \in Images \cup {NoImage} /\ o.gen \in Nat /\ o.state \in {"", "InFlight", "Failed"}
      /\ o.failures \in 0..Threshold /\ o.attemptGen \in Generations \cup {0}
      /\ o.appliedRef \in Images \cup {NoImage} /\ o.bootID \in Nat /\ o.version \in Tags \cup {NoTag}
  <2>1. obj.gen \in Nat
    BY GenerationsAreNumbers DEF Object
  <2> QED BY <1>4, <2>1 DEF Object
<1>b. o.providerID \in BOOLEAN /\ o.ready \in BOOLEAN /\ o.nodeUpdated \in BOOLEAN
  BY <1>5 DEF Object
<1>8. p = [desired |-> o.desired, gen |-> IF o.providerID # obj.providerID THEN o.gen + 1 ELSE o.gen,
           providerID |-> o.providerID, ready |-> o.ready,
           state |-> o.state, failures |-> o.failures, attemptGen |-> o.attemptGen,
           appliedRef |-> o.appliedRef, bootID |-> o.bootID, version |-> o.version,
           nodeUpdated |-> o.nodeUpdated]
  BY <1>3
<1> HIDE DEF p
<1>9. p \in Loose
  <2>1. (IF o.providerID # obj.providerID THEN o.gen + 1 ELSE o.gen) \in Nat
    <3>1. \A n \in Nat : n + 1 \in Nat
      OBVIOUS
    <3>2. o.gen \in Nat
      BY <1>7
    <3> QED BY <3>1, <3>2, Zenon
  <2>2. /\ p.desired = o.desired /\ p.gen \in Nat /\ p.providerID = o.providerID /\ p.ready = o.ready
        /\ p.state = o.state /\ p.failures = o.failures /\ p.attemptGen = o.attemptGen
        /\ p.appliedRef = o.appliedRef /\ p.bootID = o.bootID /\ p.version = o.version
        /\ p.nodeUpdated = o.nodeUpdated
        /\ p = [desired |-> p.desired, gen |-> p.gen, providerID |-> p.providerID, ready |-> p.ready,
                state |-> p.state, failures |-> p.failures, attemptGen |-> p.attemptGen,
                appliedRef |-> p.appliedRef, bootID |-> p.bootID, version |-> p.version,
                nodeUpdated |-> p.nodeUpdated]
    BY <1>8, <2>1
  <2> QED BY <1>7, <1>b, <2>2, LooseFields, Zenon
<1>10. Merged(base, cur, p)
  BY <1>4, <1>5, <1>6, <1>8 DEF Merged, Object
<1>11. Patched(base, cur) = p
  BY DEF Patched, p, o
<1> QED BY <1>9, <1>10, <1>11

-----------------------------------------------------------------------------
(* What the state machine does to a reconcile's copy of the object.        *)

\* The state of a machine whose upgrade was never issued, or has ended.
Unset == ""

\* No upgrade state is a state of its own.
LEMMA UnsetIsApart == Unset # "InFlight" /\ Unset # "Failed"
BY DEF Unset

SameSpec(a, b) == a.gen = b.gen /\ a.desired = b.desired /\ a.providerID = b.providerID
SameRecord(a, b) == a.attemptGen = b.attemptGen /\ a.appliedRef = b.appliedRef
SameStatus(a, b) ==
  SameRecord(a, b) /\ a.ready = b.ready /\ a.state = b.state /\ a.bootID = b.bootID

Completed(c1, c) ==
  /\ SameSpec(c1, c) /\ c1.ready = c.ready /\ c1.state = Unset /\ c1.bootID = NoBootID
  /\ c1.appliedRef = c.desired /\ c1.attemptGen = c.gen

Restarted(c1, c) ==
  SameSpec(c1, c) /\ SameRecord(c1, c) /\ c1.ready = c.ready /\ c1.state = Unset /\ c1.bootID = c.bootID

Issued(c1, c) ==
  /\ SameSpec(c1, c) /\ c1.ready = c.ready /\ c1.state = "InFlight" /\ c1.bootID = NoBootID
  /\ c1.appliedRef = c.appliedRef /\ c1.attemptGen = c.gen

GivenUp(c1, c) ==
  /\ SameSpec(c1, c) /\ c1.ready = c.ready /\ c1.state = "Failed" /\ c1.bootID = c.bootID
  /\ c1.appliedRef = c.appliedRef /\ c1.attemptGen = c.gen

\* The failure counters are bounded by a number.
LEMMA ThresholdIsNumber == Threshold \in Nat
BY ThresholdsAssumption DEF Threshold

\* The types of the fields of a copy.
LEMMA CopyFields ==
  ASSUME NEW c \in Object
  PROVE  /\ c.desired \in Images \cup {NoImage} /\ c.gen \in Generations /\ c.providerID \in BOOLEAN
         /\ c.ready \in BOOLEAN /\ c.state \in {"", "InFlight", "Failed"} /\ c.failures \in 0..Threshold
         /\ c.bootID \in Nat
BY DEF Object

\* markUpgradeComplete on the copy of the object.
LEMMA CopyCompletes ==
  ASSUME NEW c \in Object
  PROVE  markUpgradeComplete(c) \in Object /\ Completed(markUpgradeComplete(c), c)
<1> DEFINE c1 == [c EXCEPT !.state = "", !.bootID = NoBootID, !.appliedRef = c.desired, !.attemptGen = c.gen]
<1>1. NoBootID \in Nat /\ c.desired \in Images \cup {NoImage} /\ c.gen \in Generations \cup {0}
  BY DEF Object, NoBootID
<1>2. c1 \in Object
  BY <1>1 DEF Object
<1>3. Completed(c1, c)
  BY DEF Object, Completed, SameSpec, Unset
<1> QED BY <1>2, <1>3 DEF markUpgradeComplete

\* The retrigger: the state and the counter are cleared, the record of what ran is not.
LEMMA CopyRestarts ==
  ASSUME NEW c \in Object
  PROVE  /\ [c EXCEPT !.state = "", !.failures = 0] \in Object
         /\ Restarted([c EXCEPT !.state = "", !.failures = 0], c)
<1>1. 0 \in 0..Threshold
  BY ThresholdIsNumber
<1>2. [c EXCEPT !.state = "", !.failures = 0] \in Object
  BY <1>1 DEF Object
<1>3. Restarted([c EXCEPT !.state = "", !.failures = 0], c)
  BY DEF Object, Restarted, SameSpec, SameRecord, Unset
<1> QED BY <1>2, <1>3

\* upgradeProbeAndIssue: the attempt is stamped with the generation of the copy.
LEMMA CopyIssues ==
  ASSUME NEW c \in Object, NEW v \in Tags \cup {NoTag}
  PROVE  LET c1 == [c EXCEPT !.version = v, !.failures = 0, !.state = "InFlight", !.attemptGen = c.gen,
                             !.bootID = NoBootID]
         IN  c1 \in Object /\ Issued(c1, c)
<1> DEFINE c1 == [c EXCEPT !.version = v, !.failures = 0, !.state = "InFlight", !.attemptGen = c.gen,
                           !.bootID = NoBootID]
<1>0. 0 \in 0..Threshold /\ NoBootID \in Nat
  BY ThresholdIsNumber DEF NoBootID
<1>1. 0 \in 0..Threshold /\ NoBootID \in Nat /\ c.gen \in Generations \cup {0}
  BY <1>0, CopyFields
<1>2. c1 \in Object
  BY <1>1 DEF Object
<1>3. Issued(c1, c)
  BY DEF Object, Issued, SameSpec
<1> QED BY <1>2, <1>3

\* markUpgradeFailed: the failure is stamped with the generation of the copy.
LEMMA CopyGivesUp ==
  ASSUME NEW c \in Object
  PROVE  /\ [c EXCEPT !.state = "Failed", !.attemptGen = c.gen] \in Object
         /\ GivenUp([c EXCEPT !.state = "Failed", !.attemptGen = c.gen], c)
<1>1. c.gen \in Generations \cup {0}
  BY DEF Object
<1>2. [c EXCEPT !.state = "Failed", !.attemptGen = c.gen] \in Object
  BY <1>1 DEF Object
<1>3. GivenUp([c EXCEPT !.state = "Failed", !.attemptGen = c.gen], c)
  BY DEF Object, GivenUp, SameSpec
<1> QED BY <1>2, <1>3

\* A failed probe counts and does nothing else.
LEMMA CopyCounts ==
  ASSUME NEW c \in Object
  PROVE  CountFailure(c) \in Object /\ SameSpec(CountFailure(c), c) /\ SameStatus(CountFailure(c), c)
<1> DEFINE f == IF c.failures < Threshold THEN c.failures + 1 ELSE c.failures
           c1 == [c EXCEPT !.failures = f]
<1>1. f \in 0..Threshold
  <2>1. \A n \in 0..Threshold : (IF n < Threshold THEN n + 1 ELSE n) \in 0..Threshold
    BY ThresholdIsNumber
  <2>2. c.failures \in 0..Threshold
    BY CopyFields
  <2> QED BY <2>1, <2>2, Zenon
<1> HIDE DEF f
<1>2. c1 \in Object
  BY <1>1 DEF Object
<1>3. SameSpec(c1, c) /\ SameStatus(c1, c)
  BY DEF Object, SameSpec, SameStatus, SameRecord
<1>4. CountFailure(c) = c1
  BY DEF CountFailure, f
<1> QED BY <1>2, <1>3, <1>4

\* A successful probe records the version and may clear the counter.
LEMMA CopySees ==
  ASSUME NEW c \in Object, NEW v \in Tags \cup {NoTag}
  PROVE  /\ [c EXCEPT !.version = v] \in Object
         /\ SameSpec([c EXCEPT !.version = v], c) /\ SameStatus([c EXCEPT !.version = v], c)
         /\ [c EXCEPT !.version = v, !.failures = 0] \in Object
         /\ SameSpec([c EXCEPT !.version = v, !.failures = 0], c)
         /\ SameStatus([c EXCEPT !.version = v, !.failures = 0], c)
<1>1. 0 \in 0..Threshold
  BY ThresholdIsNumber
<1>2. [c EXCEPT !.version = v] \in Object /\ [c EXCEPT !.version = v, !.failures = 0] \in Object
  BY <1>1 DEF Object
<1>3. SameSpec([c EXCEPT !.version = v], c) /\ SameStatus([c EXCEPT !.version = v], c)
  BY DEF Object, SameSpec, SameStatus, SameRecord
<1>4. /\ SameSpec([c EXCEPT !.version = v, !.failures = 0], c)
      /\ SameStatus([c EXCEPT !.version = v, !.failures = 0], c)
  BY DEF Object, SameSpec, SameStatus, SameRecord
<1> QED BY <1>2, <1>3, <1>4

\* markAdopted, the reset and updateNodeProviderID set one field each.
LEMMA CopyFlags ==
  ASSUME NEW c \in Object
  PROVE  /\ /\ [c EXCEPT !.providerID = TRUE] \in Object /\ [c EXCEPT !.providerID = TRUE].providerID
            /\ [c EXCEPT !.providerID = TRUE].gen = c.gen /\ [c EXCEPT !.providerID = TRUE].desired = c.desired
            /\ SameStatus([c EXCEPT !.providerID = TRUE], c)
         /\ /\ [c EXCEPT !.ready = TRUE] \in Object /\ SameSpec([c EXCEPT !.ready = TRUE], c)
            /\ SameRecord([c EXCEPT !.ready = TRUE], c) /\ [c EXCEPT !.ready = TRUE].ready
            /\ [c EXCEPT !.ready = TRUE].state = c.state /\ [c EXCEPT !.ready = TRUE].bootID = c.bootID
         /\ /\ [c EXCEPT !.ready = FALSE] \in Object /\ SameSpec([c EXCEPT !.ready = FALSE], c)
            /\ SameRecord([c EXCEPT !.ready = FALSE], c) /\ ~[c EXCEPT !.ready = FALSE].ready
            /\ [c EXCEPT !.ready = FALSE].state = c.state /\ [c EXCEPT !.ready = FALSE].bootID = c.bootID
         /\ /\ [c EXCEPT !.nodeUpdated = TRUE] \in Object /\ SameSpec([c EXCEPT !.nodeUpdated = TRUE], c)
            /\ SameStatus([c EXCEPT !.nodeUpdated = TRUE], c)
<1>1. /\ [c EXCEPT !.providerID = TRUE] \in Object /\ [c EXCEPT !.ready = TRUE] \in Object
      /\ [c EXCEPT !.ready = FALSE] \in Object /\ [c EXCEPT !.nodeUpdated = TRUE] \in Object
  BY DEF Object
<1>2. /\ [c EXCEPT !.providerID = TRUE].providerID
      /\ [c EXCEPT !.providerID = TRUE].gen = c.gen /\ [c EXCEPT !.providerID = TRUE].desired = c.desired
      /\ SameStatus([c EXCEPT !.providerID = TRUE], c)
  BY DEF Object, SameStatus, SameRecord
<1>3. /\ SameSpec([c EXCEPT !.ready = TRUE], c)
      /\ SameRecord([c EXCEPT !.ready = TRUE], c) /\ [c EXCEPT !.ready = TRUE].ready
      /\ [c EXCEPT !.ready = TRUE].state = c.state /\ [c EXCEPT !.ready = TRUE].bootID = c.bootID
  BY DEF Object, SameSpec, SameRecord
<1>4. /\ SameSpec([c EXCEPT !.ready = FALSE], c)
      /\ SameRecord([c EXCEPT !.ready = FALSE], c) /\ ~[c EXCEPT !.ready = FALSE].ready
      /\ [c EXCEPT !.ready = FALSE].state = c.state /\ [c EXCEPT !.ready = FALSE].bootID = c.bootID
  BY DEF Object, SameSpec, SameRecord
<1>5. SameSpec([c EXCEPT !.nodeUpdated = TRUE], c) /\ SameStatus([c EXCEPT !.nodeUpdated = TRUE], c)
  BY DEF Object, SameSpec, SameStatus, SameRecord
<1> QED BY <1>1, <1>2, <1>3, <1>4, <1>5, Zenon

\* A new object of any desired image.
LEMMA NewObjectTyped ==
  ASSUME NEW i \in Images \cup {NoImage}
  PROVE  /\ NewObject(i) \in Object /\ NewObject(i).gen = 1 /\ NewObject(i).providerID = FALSE
         /\ NewObject(i).ready = FALSE /\ NewObject(i).state = "" /\ NewObject(i).bootID = NoBootID
<1>1. 0 \in 0..Threshold
  BY ThresholdIsNumber
<1>2. 1 \in Generations
  BY BoundsAssumption DEF Generations
<1>3. NoBootID \in Nat
  BY DEF NoBootID
<1> QED BY <1>1, <1>2, <1>3 DEF NewObject, Object

\* No reconcile.
LEMMA IdleTyped ==
  /\ Idle \in Work /\ Idle.pc = "idle" /\ Idle.cur = NewObject(NoImage) /\ Idle.base = NewObject(NoImage)
BY NewObjectTyped DEF Idle, Work, Steps

-----------------------------------------------------------------------------
(* The invariant every other one rests on.                                 *)

\* The bound of the model: an edit or the provider ID gives a new generation.
EditsBounded == obj.gen <= MaxEdits + (IF obj.providerID THEN 2 ELSE 1)

\* A copy never changes the spec but for the provider ID, which is never taken
\* back; and it claims readiness only after the API server has it.
CopyInv ==
  /\ w.cur.gen = w.base.gen /\ w.cur.desired = w.base.desired
  /\ w.base.providerID => w.cur.providerID
  /\ w.cur.providerID => obj.providerID
  /\ w.cur.ready => obj.ready
  /\ w.pc # "clear" => (w.base.ready => w.cur.ready)

\* Where the reconcile is says which state its copy is in; an upgrade is issued and
\* a host reset only after the API server has the state that says so.
AdoptingSteps == {"apply", "markSpec", "markStatus", "markRest"}
InstallSteps == {"retrigger", "probe", "inFlight", "upgrade", "stash"}
PollSteps == {"pollBootID", "pollVersion", "poll", "refresh"}
StateInv ==
  /\ w.pc \in AdoptingSteps => w.cur.state = w.base.state
  /\ w.pc \in InstallSteps => w.cur.desired # NoImage
  /\ w.pc = "retrigger" => w.base.state = "Failed" /\ w.cur.state = Unset /\ w.cur.ready
  /\ w.pc = "probe" => w.cur.state = Unset /\ w.base.state # "InFlight" /\ w.cur.ready
  /\ w.pc \in {"inFlight", "upgrade", "stash"} =>
       w.cur.state = "InFlight" /\ w.base.state # "InFlight" /\ w.cur.ready
  /\ w.pc \in {"upgrade", "stash"} => obj.state = "InFlight"
  /\ w.pc \in PollSteps \cup {"fail"} => w.cur.state = "InFlight" /\ w.cur.ready
  /\ w.pc \in {"count", "giveUp"} => w.cur.ready
  /\ w.pc = "reset" => w.cur.state = "Failed" /\ w.base = w.cur /\ w.cur.ready /\ obj.state = "Failed"
  /\ w.pc = "clear" => /\ w.base.ready /\ ~w.cur.ready /\ w.cur.state = w.base.state
                       /\ SameRecord(w.cur, w.base) /\ obj.state = "Failed"

\* An upgrade has a state only once the provider ID is written, and so has every
\* reconcile past its adoption: none adopts a machine whose upgrade was issued.
ProviderInv ==
  /\ obj.state # Unset => obj.providerID
  /\ w.cur.state # Unset => w.cur.providerID
  /\ w.pc \notin {"idle", "apply", "markSpec", "markRest", "link"} => w.cur.providerID

UpgradeInv == TypeOK /\ EditsBounded /\ CopyInv /\ StateInv /\ ProviderInv

-----------------------------------------------------------------------------
(* What each step does, field by field.                                    *)

\* Where ensureTalosVersion leads the reconcile.
Decides(base, c) ==
  \/ w' = Idle
  \/ /\ w'.pc = "link" /\ w'.base = base /\ w'.cur = c
     /\ c.desired = NoImage \/ ~c.ready
  \/ /\ c.desired # NoImage /\ c.ready /\ w'.base = base
     /\ \/ w'.pc = "retrigger" /\ c.state = "Failed" /\ c.gen # c.attemptGen /\ Restarted(w'.cur, c)
        \/ /\ w'.pc = "complete" /\ c.state = Unset /\ upgradeAlreadyApplied(c)
           /\ Completed(w'.cur, c)
        \/ w'.pc = "probe" /\ c.state = Unset /\ ~upgradeAlreadyApplied(c) /\ w'.cur = c
        \/ /\ w'.pc \in {"pollBootID", "pollVersion"} /\ c.state = "InFlight" /\ w'.cur = c
           /\ w'.pc = "pollVersion" <=> c.bootID = NoBootID

\* ensureTalosVersion: where the reconcile goes on, and on what that depends.
LEMMA EnsureDecides ==
  ASSUME NEW base \in Object, NEW c \in Object, w' = ensureTalosVersion(base, c)
  PROVE  Decides(base, c) /\ w' \in Work
<1>a. c.ready \in BOOLEAN /\ c.state \in {"", "InFlight", "Failed"}
  BY CopyFields
<1>b. ASSUME NEW pc \in Steps, NEW c1 \in Object
      PROVE  /\ At(pc, base, c1) \in Work /\ At(pc, base, c1).pc = pc
             /\ At(pc, base, c1).base = base /\ At(pc, base, c1).cur = c1
  BY DEF At, Work
<1>1. CASE c.desired = NoImage \/ ~c.ready
  <2>1. w' = At("link", base, c)
    BY <1>1 DEF ensureTalosVersion
  <2>3. w' \in Work /\ w'.pc = "link" /\ w'.base = base /\ w'.cur = c
    BY <1>b, <2>1 DEF Steps
  <2> QED BY <1>1, <2>3 DEF Decides
<1>2. CASE c.desired # NoImage /\ c.ready /\ MustRetrigger(c)
  <2> DEFINE c1 == [c EXCEPT !.state = "", !.failures = 0]
  <2>1. w' = At("retrigger", base, c1)
    BY <1>2 DEF ensureTalosVersion, MustRetrigger
  <2>2. c1 \in Object /\ Restarted(c1, c)
    BY CopyRestarts
  <2> HIDE DEF c1
  <2>3. w' \in Work /\ w'.pc = "retrigger" /\ w'.base = base /\ w'.cur = c1
    BY <1>b, <2>1, <2>2 DEF Steps
  <2> QED BY <1>2, <2>3, <2>2 DEF Decides, MustRetrigger
<1>3. CASE c.desired # NoImage /\ c.ready /\ c.state = "Failed" /\ ~MustRetrigger(c)
  <2>1. w' = Idle
    BY <1>3 DEF ensureTalosVersion
  <2> QED BY <2>1, IdleTyped DEF Decides
<1>4. CASE c.desired # NoImage /\ c.ready /\ c.state = "" /\ upgradeAlreadyApplied(c)
  <2>1. w' = At("complete", base, markUpgradeComplete(c))
    BY <1>4 DEF ensureTalosVersion, CompleteAgain, MustRetrigger
  <2>2. markUpgradeComplete(c) \in Object /\ Completed(markUpgradeComplete(c), c)
    BY CopyCompletes
  <2>3. w' \in Work /\ w'.pc = "complete" /\ w'.base = base /\ w'.cur = markUpgradeComplete(c)
    BY <1>b, <2>1, <2>2 DEF Steps
  <2> QED BY <1>4, <2>3, <2>2 DEF Decides, Unset
<1>5. CASE c.desired # NoImage /\ c.ready /\ c.state = "" /\ ~upgradeAlreadyApplied(c)
  <2>1. w' = At("probe", base, c)
    BY <1>5 DEF ensureTalosVersion, MustRetrigger
  <2>3. w' \in Work /\ w'.pc = "probe" /\ w'.base = base /\ w'.cur = c
    BY <1>b, <2>1 DEF Steps
  <2> QED BY <1>5, <2>3 DEF Decides, Unset
<1>6. CASE c.desired # NoImage /\ c.ready /\ c.state = "InFlight"
  <2>1. w' = At(IF c.bootID # NoBootID THEN "pollBootID" ELSE "pollVersion", base, c)
    BY <1>6 DEF ensureTalosVersion, MustRetrigger
  <2> QED BY <1>6, <1>b, <2>1 DEF Decides, Steps
<1> QED BY <1>a, <1>1, <1>2, <1>3, <1>4, <1>5, <1>6 DEF MustRetrigger

\* A patch of the API object keeps its type and its bound.
Patches(base, cur) == obj' \in Object /\ EditsBounded' /\ Merged(base, cur, obj')

\* A patch leaves an object, with at most one generation more than the operator's edits made.
LEMMA PatchWrites ==
  ASSUME obj \in Object, EditsBounded, NEW base \in Object, NEW cur \in Object,
         cur.gen = base.gen, cur.desired = base.desired,
         base.providerID => cur.providerID, base.providerID => obj.providerID,
         obj' = Patched(base, cur)
  PROVE  Patches(base, cur)
<1>1. obj' \in Loose /\ Merged(base, cur, obj')
  BY PatchMerges
<1>2. obj.gen \in Nat /\ obj.gen >= 1 /\ obj.providerID \in BOOLEAN /\ cur.providerID \in BOOLEAN
  BY GenerationsAreNumbers, CopyFields
<1>3. obj.gen <= MaxEdits + (IF obj.providerID THEN 2 ELSE 1)
  BY DEF EditsBounded
<1>4. obj'.providerID = (obj.providerID \/ cur.providerID)
      /\ obj'.gen = IF cur.providerID /\ ~obj.providerID THEN obj.gen + 1 ELSE obj.gen
  BY <1>1 DEF Merged
<1>5. obj'.gen \in Nat /\ obj'.gen >= 1 /\ obj'.gen <= MaxEdits + (IF obj'.providerID THEN 2 ELSE 1)
  BY <1>2, <1>3, <1>4, BoundsAssumption
<1>6. obj'.gen \in Generations
  BY <1>5, BoundsAssumption DEF Generations
<1>7. obj' \in Object
  BY <1>1, <1>6 DEF Loose, Object
<1>8. EditsBounded'
  BY <1>5 DEF EditsBounded
<1> QED BY <1>1, <1>7, <1>8 DEF Patches

\* The reconcile goes on, with the same base.
Goes(pc, c1) == w'.pc = pc /\ w'.base = w.base /\ w'.cur = c1

\* Adoption: adopt, applyMachineConfig and the calls of markAdopted's patch, of which
\* the first may fail alone.
Begins ==
  /\ w.pc = "idle" /\ UNCHANGED <<obj, node>>
  /\ \/ Decides(obj, obj) /\ (obj.state = "Failed" \/ obj.providerID)
     \/ /\ w'.pc = "apply" /\ w'.base = obj /\ w'.cur = obj
        /\ ~(obj.ready /\ obj.providerID) /\ obj.state # "Failed"
Applies ==
  /\ w.pc = "apply" /\ UNCHANGED obj /\ Goes("markSpec", w.cur)
  /\ node.up /\ node'.config /\ node'.boot = node.boot /\ node'.disk = node.disk
  /\ node'.running = node.running
MarksSpec ==
  /\ w.pc = "markSpec" /\ w'.pc = "markStatus" /\ w'.base = w.base /\ UNCHANGED node
  /\ w'.cur.gen = w.cur.gen /\ w'.cur.desired = w.cur.desired /\ w'.cur.providerID
  /\ SameStatus(w'.cur, w.cur) /\ Patches(w.base, w'.cur)
MarksStatus ==
  /\ w.pc = "markStatus" /\ UNCHANGED node
  /\ \E c \in Object :
       /\ SameSpec(c, w.cur) /\ SameRecord(c, w.cur) /\ c.ready /\ c.state = w.cur.state
       /\ c.bootID = w.cur.bootID /\ Patches(w.base, c) /\ Decides(w.base, c)
LosesSpec == w.pc = "markSpec" /\ UNCHANGED <<obj, node>> /\ Goes("markRest", w.cur)
MarksRest ==
  /\ w.pc = "markRest" /\ UNCHANGED node /\ w' = Idle
  /\ \E c \in Object :
       /\ SameSpec(c, w.cur) /\ SameRecord(c, w.cur) /\ c.ready /\ c.state = w.cur.state
       /\ c.bootID = w.cur.bootID /\ Patches(w.base, c)

\* Issuing: Retrigger, VersionProbe, MarkInFlight, UpgradeMachine.
Retriggers ==
  /\ w.pc = "retrigger" /\ UNCHANGED node /\ Patches(w.base, w.cur) /\ Decides(w.base, w.cur)
Issues ==
  /\ w.pc = "probe" /\ UNCHANGED <<obj, node>> /\ w'.pc = "inFlight" /\ w'.base = w.base
  /\ Issued(w'.cur, w.cur) /\ node.config
MarksInFlight ==
  w.pc = "inFlight" /\ UNCHANGED node /\ Patches(w.base, w.cur) /\ Goes("upgrade", w.cur)
Installs ==
  /\ w.pc = "upgrade" /\ UNCHANGED obj /\ Answers /\ w'.pc = "stash" /\ w'.base = w.base
  /\ SameSpec(w'.cur, w.cur) /\ SameRecord(w'.cur, w.cur)
  /\ w'.cur.ready = w.cur.ready /\ w'.cur.state = w.cur.state
  /\ w'.cur.bootID = node.boot \/ "BootIDDenied" \in Faults
  /\ node'.disk = w.cur.desired /\ node'.running = node.running /\ node'.boot = node.boot
  /\ node'.config = node.config
FailsInstall == w.pc = "upgrade" /\ UNCHANGED <<obj, node>> /\ Goes("fail", w.cur)
LosesInstall ==
  /\ w.pc = "upgrade" /\ UNCHANGED obj /\ Goes("fail", w.cur)
  /\ node'.disk = w.cur.desired /\ node'.running = node.running /\ node'.boot = node.boot
  /\ node'.config = node.config /\ node'.up = node.up

\* Polling: PollBootID, RefreshVersion, PollVersion, MarkComplete, MirrorVersion.
PollsBootID ==
  /\ w.pc = "pollBootID" /\ UNCHANGED <<obj, node>>
  /\ \/ Goes("refresh", w.cur) /\ node.boot # w.cur.bootID
     \/ Goes("poll", w.cur)
     \/ Goes("pollVersion", w.cur) /\ "BootIDDenied" \in Faults
Completes ==
  /\ w.pc \in {"refresh", "pollVersion"} /\ UNCHANGED <<obj, node>> /\ w'.pc = "complete"
  /\ w'.base = w.base /\ Completed(w'.cur, w.cur)
PollsVersion ==
  /\ w.pc = "pollVersion" /\ UNCHANGED <<obj, node>> /\ w'.pc = "poll" /\ w'.base = w.base
  /\ SameSpec(w'.cur, w.cur) /\ SameStatus(w'.cur, w.cur)
MarksComplete ==
  w.pc = "complete" /\ UNCHANGED node /\ Patches(w.base, w.cur) /\ Goes("mirror", w.cur)
Mirrors == w.pc = "mirror" /\ UNCHANGED <<obj, node>> /\ Goes("link", w.cur)
Links ==
  /\ w.pc = "link" /\ w' = Idle /\ UNCHANGED node
  /\ \E c \in Object : SameSpec(c, w.cur) /\ SameStatus(c, w.cur) /\ Patches(w.base, c)

\* Failing: a probe that fails, RecordProbeFailure, MarkFailed, ResetHost.
Counts ==
  /\ w.pc \in {"probe", "pollBootID", "pollVersion"} /\ UNCHANGED <<obj, node>>
  /\ w'.pc = "count" /\ w'.base = w.base
  /\ SameSpec(w'.cur, w.cur) /\ SameStatus(w'.cur, w.cur)
RecordsFailure ==
  /\ w.pc = "count" /\ UNCHANGED node /\ Patches(w.base, w.cur)
  /\ \/ w'.pc = "giveUp" /\ w.cur.state = Unset /\ w'.base = w.base /\ GivenUp(w'.cur, w.cur)
     \/ Goes("fail", w.cur) /\ w.cur.state = "InFlight"
     \/ w' = Idle
MarksFailed ==
  /\ w.pc = "fail" /\ UNCHANGED node /\ w'.pc = "reset" /\ w'.base = w'.cur
  /\ GivenUp(w'.cur, w.cur) /\ Patches(w.cur, w'.cur)
Resets ==
  /\ w.pc = "reset" /\ UNCHANGED obj /\ w'.pc = "clear" /\ w'.base = w.base
  /\ SameSpec(w'.cur, w.cur) /\ SameRecord(w'.cur, w.cur) /\ ~w'.cur.ready
  /\ w'.cur.state = w.cur.state /\ w'.cur.bootID = w.cur.bootID
  /\ ~node'.config /\ ~node'.up /\ node'.boot = node.boot
LosesReset ==
  /\ w.pc = "reset" /\ UNCHANGED obj /\ w' = Idle /\ "ResetLost" \in Faults
  /\ ~node'.config /\ ~node'.up /\ node'.boot = node.boot

\* The steps that end a reconcile with a patch, and those that end it without.
Ends ==
  w.pc \in {"stash", "poll", "giveUp", "clear"} /\ UNCHANGED node /\ Patches(w.base, w.cur) /\ w' = Idle
Halts ==
  /\ UNCHANGED <<obj, node>> /\ w' = Idle
  /\ "Abort" \in Faults \/ w.pc \in {"apply", "link", "mirror"}
     \/ (w.pc = "reset" /\ (~Answers \/ "ResetFails" \in Faults))

\* The node on its own, and the operator.
NodeMoves ==
  /\ UNCHANGED <<obj, w>> /\ node'.config = node.config /\ node'.disk = node.disk
  /\ \/ ~node'.up /\ node'.boot = node.boot /\ node'.running = node.running
     \/ ~node.up /\ node'.up /\ node'.boot = node.boot + 1 /\ node'.running = node.disk
Edited ==
  /\ UNCHANGED <<node, w>> /\ obj' \in Object /\ EditsBounded'
  /\ obj'.gen = obj.gen + 1 /\ obj'.providerID = obj.providerID /\ SameStatus(obj', obj)
  /\ "EditInFlight" \in Faults \/ (w.pc = "idle" /\ obj.state # "InFlight")

ReconcileEffect ==
  \/ Begins \/ Applies \/ MarksSpec \/ MarksStatus \/ LosesSpec \/ MarksRest
  \/ Retriggers \/ Issues \/ MarksInFlight \/ FailsInstall
  \/ PollsBootID \/ Completes \/ PollsVersion \/ MarksComplete \/ Mirrors \/ Links
  \/ Counts \/ RecordsFailure \/ MarksFailed \/ Resets \/ LosesReset \/ Ends \/ Halts

Effect ==
  \/ ReconcileEffect /\ installs' = installs
  \/ (Installs \/ LosesInstall) /\ CountInstall
  \/ NodeMoves /\ installs' = installs
  \/ Edited /\ installs' = installs
  \/ UNCHANGED <<obj, node, w, installs>>

\* The types of everything but the object.
RestTyped ==
  /\ hostVersion \in Tags \cup {NoTag} /\ node \in Node /\ w \in Work
  /\ reboots \in 0..MaxReboots /\ streak \in 0..Threshold /\ installs \in [Generations -> Nat]

\* Every action of the reconcile has one of the effects named above.
LEMMA ReconcileEffects ==
  ASSUME UpgradeInv, ReconcileStep \/ Abort
  PROVE  /\ w' \in Work /\ node' \in Node
         /\ \/ ReconcileEffect /\ installs' = installs
            \/ (Installs \/ LosesInstall) /\ CountInstall
<1> DEFINE Same == w' \in Work /\ node' \in Node /\ ReconcileEffect /\ installs' = installs
           Goal == /\ w' \in Work /\ node' \in Node
                   /\ \/ ReconcileEffect /\ installs' = installs
                      \/ (Installs \/ LosesInstall) /\ CountInstall
<1> SUFFICES Goal
  OBVIOUS
<1>s. Same => Goal
  OBVIOUS
<1>a. /\ obj \in Object /\ w \in Work /\ w.base \in Object /\ w.cur \in Object /\ node \in Node
      /\ EditsBounded
  BY DEF UpgradeInv, TypeOK, Work
<1>b. /\ w.cur.gen = w.base.gen /\ w.cur.desired = w.base.desired
      /\ (w.base.providerID => w.cur.providerID) /\ (w.base.providerID => obj.providerID)
  BY DEF UpgradeInv, CopyInv
<1>c. ASSUME NEW pc \in Steps, NEW base \in Object, NEW c \in Object
      PROVE  /\ At(pc, base, c) \in Work /\ At(pc, base, c).pc = pc
             /\ At(pc, base, c).base = base /\ At(pc, base, c).cur = c
  BY DEF At, Work
<1>d. Idle \in Work
  BY IdleTyped
<1>e. Tag[node.running] \in Tags \cup {NoTag} /\ node.boot \in Nat
  BY <1>a DEF Node, Tags
<1>f. Patch => Patches(w.base, w.cur)
  BY <1>a, <1>b, PatchWrites DEF Patch
<1>g. ASSUME NEW pc \in Steps, NEW c \in Object, Goto(pc, c)
      PROVE  w' \in Work /\ w'.pc = pc /\ w'.base = w.base /\ w'.cur = c
  BY <1>a, <1>c, <1>g DEF Goto
<1> HIDE DEF Same, Goal
<1>1. CASE Reconcile
  <2>1. w.pc = "idle" /\ w' = adopt(obj) /\ UNCHANGED <<obj, node, installs>>
    BY <1>1 DEF Reconcile
  <2>2. CASE obj.state = "Failed" \/ (obj.ready /\ obj.providerID)
    <3>1. w' = ensureTalosVersion(obj, obj)
      BY <2>1, <2>2 DEF adopt, configUnchanged
    <3>2. Decides(obj, obj) /\ w' \in Work
      BY <1>a, <3>1, EnsureDecides
    <3> QED BY <1>a, <1>s, <2>1, <2>2, <3>2 DEF Same, ReconcileEffect, Begins
  <2>3. CASE ~(obj.state = "Failed" \/ (obj.ready /\ obj.providerID))
    <3>1. w' = At("apply", obj, obj)
      BY <2>1, <2>3 DEF adopt, configUnchanged
    <3>2. w' \in Work /\ w'.pc = "apply" /\ w'.base = obj /\ w'.cur = obj
      BY <1>a, <1>c, <3>1 DEF Steps
    <3> QED BY <1>a, <1>s, <2>1, <2>3, <3>2 DEF Same, ReconcileEffect, Begins
  <2> QED BY <2>2, <2>3
<1>2. CASE ApplyConfig
  <2>1. w.pc = "apply" /\ UNCHANGED <<obj, installs>>
    BY <1>2 DEF ApplyConfig
  <2>2. CASE ~(node.up /\ (w.cur.ready => node.config))
    <3>1. w' = Idle /\ UNCHANGED node
      BY <1>2, <2>2 DEF ApplyConfig
    <3> QED BY <1>a, <1>d, <1>s, <2>1, <3>1 DEF Same, ReconcileEffect, Halts
  <2>3. CASE node.up /\ (w.cur.ready => node.config)
    <3>1. node' = [node EXCEPT !.config = TRUE, !.up = node.config] /\ Goto("markSpec", w.cur)
      BY <1>2, <2>3 DEF ApplyConfig
    <3>2. /\ node' \in Node /\ node'.config /\ node'.boot = node.boot /\ node'.disk = node.disk
          /\ node'.running = node.running
      BY <1>a, <3>1 DEF Node
    <3>3. w' \in Work /\ Goes("markSpec", w.cur)
      BY <1>a, <1>g, <3>1 DEF Goes, Steps
    <3> QED BY <1>s, <2>1, <2>3, <3>2, <3>3 DEF Same, ReconcileEffect, Applies
  <2> QED BY <2>2, <2>3
<1>3. CASE MarkAdoptedSpec
  <2> DEFINE c1 == [w.cur EXCEPT !.providerID = TRUE]
  <2>1. /\ w.pc = "markSpec" /\ UNCHANGED <<node, installs>>
        /\ \/ obj' = Patched(w.base, c1) /\ Goto("markStatus", c1)
           \/ UNCHANGED obj /\ Goto("markRest", w.cur)
    BY <1>3 DEF MarkAdoptedSpec
  <2>2. /\ c1 \in Object /\ c1.providerID /\ c1.gen = w.cur.gen /\ c1.desired = w.cur.desired
        /\ SameStatus(c1, w.cur)
    BY <1>a, CopyFlags
  <2> HIDE DEF c1
  <2>3. CASE obj' = Patched(w.base, c1) /\ Goto("markStatus", c1)
    <3>1. Patches(w.base, c1)
      BY <1>a, <1>b, <2>2, <2>3, PatchWrites
    <3>2. w' \in Work /\ w'.pc = "markStatus" /\ w'.base = w.base /\ w'.cur = c1
      BY <1>g, <2>2, <2>3 DEF Steps
    <3> QED BY <1>a, <1>s, <2>1, <2>2, <3>1, <3>2 DEF Same, ReconcileEffect, MarksSpec
  <2>4. CASE UNCHANGED obj /\ Goto("markRest", w.cur)
    <3>1. w' \in Work /\ Goes("markRest", w.cur)
      BY <1>a, <1>g, <2>4 DEF Goes, Steps
    <3> QED BY <1>a, <1>s, <2>1, <2>4, <3>1 DEF Same, ReconcileEffect, LosesSpec
  <2> QED BY <2>1, <2>3, <2>4
<1>20. CASE MarkAdoptedRest
  <2> DEFINE c == [w.cur EXCEPT !.ready = TRUE]
  <2>1. /\ w.pc = "markRest" /\ UNCHANGED <<node, installs>>
        /\ obj' = Patched(w.base, c) /\ w' = Idle
    BY <1>20 DEF MarkAdoptedRest
  <2>2. /\ c \in Object /\ SameSpec(c, w.cur) /\ SameRecord(c, w.cur) /\ c.ready
        /\ c.state = w.cur.state /\ c.bootID = w.cur.bootID
    BY <1>a, CopyFlags
  <2> HIDE DEF c
  <2>3. Patches(w.base, c)
    BY <1>a, <1>b, <2>1, <2>2, PatchWrites DEF SameSpec
  <2> QED BY <1>a, <1>d, <1>s, <2>1, <2>2, <2>3 DEF Same, ReconcileEffect, MarksRest
<1>4. CASE MarkAdoptedStatus
  <2> DEFINE c == [w.cur EXCEPT !.ready = TRUE]
  <2>1. /\ w.pc = "markStatus" /\ UNCHANGED <<node, installs>>
        /\ obj' = Patched(w.base, c) /\ w' = ensureTalosVersion(w.base, c)
    BY <1>4 DEF MarkAdoptedStatus
  <2>2. /\ c \in Object /\ SameSpec(c, w.cur) /\ SameRecord(c, w.cur) /\ c.ready
        /\ c.state = w.cur.state /\ c.bootID = w.cur.bootID
    BY <1>a, CopyFlags
  <2> HIDE DEF c
  <2>3. Patches(w.base, c)
    BY <1>a, <1>b, <2>1, <2>2, PatchWrites DEF SameSpec
  <2>4. Decides(w.base, c) /\ w' \in Work
    BY <1>a, <2>1, <2>2, EnsureDecides
  <2> QED BY <1>a, <1>s, <2>1, <2>2, <2>3, <2>4 DEF Same, ReconcileEffect, MarksStatus
<1>5. CASE Retrigger
  <2>1. /\ w.pc = "retrigger" /\ UNCHANGED <<node, installs>> /\ Patch
        /\ w' = ensureTalosVersion(w.base, w.cur)
    BY <1>5 DEF Retrigger
  <2>2. Decides(w.base, w.cur) /\ w' \in Work
    BY <1>a, <2>1, EnsureDecides
  <2> QED BY <1>a, <1>f, <1>s, <2>1, <2>2 DEF Same, ReconcileEffect, Retriggers
<1>6. CASE VersionProbe
  <2>1. w.pc = "probe" /\ UNCHANGED <<obj, node, installs>>
    BY <1>6 DEF VersionProbe
  <2> DEFINE c1 == [w.cur EXCEPT !.version = Tag[node.running], !.failures = 0,
                      !.state = "InFlight", !.attemptGen = w.cur.gen, !.bootID = NoBootID]
  <2>2. CASE Answers /\ Goto("inFlight", c1)
    <3>1. c1 \in Object /\ Issued(c1, w.cur)
      BY <1>a, <1>e, CopyIssues
    <3> HIDE DEF c1
    <3>2. w' \in Work /\ w'.pc = "inFlight" /\ w'.base = w.base /\ w'.cur = c1
      BY <1>g, <2>2, <3>1 DEF Steps
    <3>3. node.config
      BY <2>2 DEF Answers
    <3> QED BY <1>a, <1>s, <2>1, <3>1, <3>2, <3>3 DEF Same, ReconcileEffect, Issues
  <2>3. CASE Goto("count", CountFailure(w.cur))
    <3>1. /\ CountFailure(w.cur) \in Object /\ SameSpec(CountFailure(w.cur), w.cur)
          /\ SameStatus(CountFailure(w.cur), w.cur)
      BY <1>a, CopyCounts
    <3>2. w' \in Work /\ w'.pc = "count" /\ w'.base = w.base /\ w'.cur = CountFailure(w.cur)
      BY <1>g, <2>3, <3>1 DEF Steps
    <3> QED BY <1>a, <1>s, <2>1, <3>1, <3>2 DEF Same, ReconcileEffect, Counts
  <2> QED BY <1>6, <2>2, <2>3 DEF VersionProbe, ProbeSucceeds
<1>7. CASE MarkInFlight
  <2>1. w.pc = "inFlight" /\ UNCHANGED <<node, installs>> /\ Patch /\ Goto("upgrade", w.cur)
    BY <1>7 DEF MarkInFlight
  <2>2. w' \in Work /\ Goes("upgrade", w.cur)
    BY <1>a, <1>g, <2>1 DEF Goes, Steps
  <2> QED BY <1>a, <1>f, <1>s, <2>1, <2>2 DEF Same, ReconcileEffect, MarksInFlight
<1>8. CASE UpgradeMachine
  <2>1. w.pc = "upgrade" /\ UNCHANGED obj
    BY <1>8 DEF UpgradeMachine
  <2>2. CASE Goto("fail", w.cur) /\ UNCHANGED <<node, installs>>
    <3>1. w' \in Work /\ Goes("fail", w.cur)
      BY <1>a, <1>g, <2>2 DEF Goes, Steps
    <3> QED BY <1>a, <1>s, <2>1, <2>2, <3>1 DEF Same, ReconcileEffect, FailsInstall
  <2>5. w.cur.desired \in Images
    <3>1. w.cur.desired # NoImage
      BY <2>1 DEF UpgradeInv, StateInv, InstallSteps
    <3>2. w.cur.desired \in Images \cup {NoImage}
      BY <1>a, CopyFields
    <3> QED BY <3>1, <3>2
  <2>3. ASSUME Answers, NEW id \in {node.boot} \cup (IF "BootIDDenied" \in Faults THEN {NoBootID} ELSE {}),
               NEW up \in BOOLEAN, node' = [node EXCEPT !.disk = w.cur.desired, !.up = up],
               Goto("stash", [w.cur EXCEPT !.bootID = id]), CountInstall
        PROVE  Goal
    <3> DEFINE c1 == [w.cur EXCEPT !.bootID = id]
    <3>1. id \in Nat /\ (id = node.boot \/ "BootIDDenied" \in Faults)
      BY <1>e, <2>3 DEF NoBootID
    <3>2. c1 \in Object
      BY <1>a, <3>1 DEF Object
    <3>3. /\ SameSpec(c1, w.cur) /\ SameRecord(c1, w.cur)
          /\ c1.ready = w.cur.ready /\ c1.state = w.cur.state /\ c1.bootID = id
      BY <1>a DEF Object, SameSpec, SameRecord
    <3> HIDE DEF c1
    <3>4. w' \in Work /\ w'.pc = "stash" /\ w'.base = w.base /\ w'.cur = c1
      BY <1>g, <2>3, <3>2 DEF Steps, c1
    <3>6. /\ node' \in Node /\ node'.disk = w.cur.desired /\ node'.running = node.running
          /\ node'.boot = node.boot /\ node'.config = node.config
      BY <1>a, <2>3, <2>5 DEF Node
    <3> QED BY <2>1, <2>3, <3>1, <3>3, <3>4, <3>6 DEF Goal, Installs
  <2>6. CASE Goto("fail", w.cur) /\ node' = [node EXCEPT !.disk = w.cur.desired] /\ CountInstall
    <3>1. w' \in Work /\ Goes("fail", w.cur)
      BY <1>a, <1>g, <2>6 DEF Goes, Steps
    <3>2. /\ node' \in Node /\ node'.disk = w.cur.desired /\ node'.running = node.running
          /\ node'.boot = node.boot /\ node'.config = node.config /\ node'.up = node.up
      BY <1>a, <2>5, <2>6 DEF Node
    <3> QED BY <2>1, <2>6, <3>1, <3>2 DEF Goal, LosesInstall
  <2>4. \/ /\ Answers
           /\ \E id \in {node.boot} \cup (IF "BootIDDenied" \in Faults THEN {NoBootID} ELSE {}),
                 up \in BOOLEAN :
                /\ node' = [node EXCEPT !.disk = w.cur.desired, !.up = up]
                /\ Goto("stash", [w.cur EXCEPT !.bootID = id])
           /\ CountInstall
        \/ Goto("fail", w.cur) /\ node' = [node EXCEPT !.disk = w.cur.desired] /\ CountInstall
        \/ Goto("fail", w.cur) /\ UNCHANGED <<node, installs>>
    BY <1>8 DEF UpgradeMachine
  <2> QED BY <2>2, <2>3, <2>4, <2>6
<1>9. CASE StashBootID \/ PatchPoll \/ GiveUp \/ ClearReady
  <2>1. /\ w.pc \in {"stash", "poll", "giveUp", "clear"} /\ UNCHANGED <<node, installs>>
        /\ Patch /\ w' = Idle
    BY <1>9 DEF StashBootID, PatchPoll, GiveUp, ClearReady
  <2> QED BY <1>a, <1>d, <1>f, <1>s, <2>1 DEF Same, ReconcileEffect, Ends
<1>10. CASE PollBootID
  <2>1. w.pc = "pollBootID" /\ UNCHANGED <<obj, node, installs>>
    BY <1>10 DEF PollBootID
  <2>2. CASE Goto(IF Rebooted(w.cur) THEN "refresh" ELSE "poll", w.cur)
    <3>1. \/ w' \in Work /\ Goes("refresh", w.cur) /\ node.boot # w.cur.bootID
          \/ w' \in Work /\ Goes("poll", w.cur)
      BY <1>a, <1>g, <2>2 DEF Goes, Steps, Rebooted
    <3> QED BY <1>a, <1>s, <2>1, <3>1 DEF Same, ReconcileEffect, PollsBootID
  <2>3. CASE "BootIDDenied" \in Faults /\ Goto("pollVersion", w.cur)
    <3>1. w' \in Work /\ Goes("pollVersion", w.cur)
      BY <1>a, <1>g, <2>3 DEF Goes, Steps
    <3> QED BY <1>a, <1>s, <2>1, <2>3, <3>1 DEF Same, ReconcileEffect, PollsBootID
  <2>4. CASE Goto("count", CountFailure(w.cur))
    <3>1. /\ CountFailure(w.cur) \in Object /\ SameSpec(CountFailure(w.cur), w.cur)
          /\ SameStatus(CountFailure(w.cur), w.cur)
      BY <1>a, CopyCounts
    <3>2. w' \in Work /\ w'.pc = "count" /\ w'.base = w.base /\ w'.cur = CountFailure(w.cur)
      BY <1>g, <2>4, <3>1 DEF Steps
    <3> QED BY <1>a, <1>s, <2>1, <3>1, <3>2 DEF Same, ReconcileEffect, Counts
  <2> QED BY <1>10, <2>2, <2>3, <2>4 DEF PollBootID
<1>11. CASE RefreshVersion
  <2>1. w.pc = "refresh" /\ UNCHANGED <<obj, node, installs>>
    BY <1>11 DEF RefreshVersion
  <2>2. ASSUME NEW c \in Object, SameSpec(c, w.cur), SameStatus(c, w.cur),
               Goto("complete", markUpgradeComplete(c))
        PROVE  Goal
    <3>1. markUpgradeComplete(c) \in Object /\ Completed(markUpgradeComplete(c), c)
      BY CopyCompletes
    <3>2. w' \in Work /\ w'.pc = "complete" /\ w'.base = w.base /\ w'.cur = markUpgradeComplete(c)
      BY <1>g, <2>2, <3>1 DEF Steps
    <3>3. Completed(w'.cur, w.cur)
      BY <2>2, <3>1, <3>2 DEF Completed, SameSpec, SameStatus
    <3> QED BY <1>a, <1>s, <2>1, <3>2, <3>3 DEF Same, ReconcileEffect, Completes
  <2>3. CASE Goto("complete", markUpgradeComplete([w.cur EXCEPT !.version = Tag[node.running]]))
    BY <1>a, <1>e, <2>2, <2>3, CopySees
  <2>4. CASE Goto("complete", markUpgradeComplete(w.cur))
    <3>1. SameSpec(w.cur, w.cur) /\ SameStatus(w.cur, w.cur)
      BY DEF SameSpec, SameStatus, SameRecord
    <3> QED BY <1>a, <2>2, <2>4, <3>1
  <2> QED BY <1>11, <2>3, <2>4 DEF RefreshVersion
<1>12. CASE PollVersion
  <2> DEFINE seen == [w.cur EXCEPT !.version = Tag[node.running], !.failures = 0]
  <2>1. /\ w.pc = "pollVersion" /\ UNCHANGED <<obj, node, installs>>
        /\ \/ Goto("poll", seen) \/ Goto("complete", markUpgradeComplete(seen))
           \/ Goto("count", CountFailure(w.cur))
    BY <1>12 DEF PollVersion
  <2>2. seen \in Object /\ SameSpec(seen, w.cur) /\ SameStatus(seen, w.cur)
    BY <1>a, <1>e, CopySees
  <2> HIDE DEF seen
  <2>3. CASE Goto("poll", seen)
    <3>1. w' \in Work /\ w'.pc = "poll" /\ w'.base = w.base /\ w'.cur = seen
      BY <1>g, <2>2, <2>3 DEF Steps
    <3> QED BY <1>a, <1>s, <2>1, <2>2, <3>1 DEF Same, ReconcileEffect, PollsVersion
  <2>4. CASE Goto("complete", markUpgradeComplete(seen))
    <3>1. markUpgradeComplete(seen) \in Object /\ Completed(markUpgradeComplete(seen), seen)
      BY <2>2, CopyCompletes
    <3>2. w' \in Work /\ w'.pc = "complete" /\ w'.base = w.base /\ w'.cur = markUpgradeComplete(seen)
      BY <1>g, <2>4, <3>1 DEF Steps
    <3>3. Completed(w'.cur, w.cur)
      BY <2>2, <3>1, <3>2 DEF Completed, SameSpec, SameStatus
    <3> QED BY <1>a, <1>s, <2>1, <3>2, <3>3 DEF Same, ReconcileEffect, Completes
  <2>5. CASE Goto("count", CountFailure(w.cur))
    <3>1. /\ CountFailure(w.cur) \in Object /\ SameSpec(CountFailure(w.cur), w.cur)
          /\ SameStatus(CountFailure(w.cur), w.cur)
      BY <1>a, CopyCounts
    <3>2. w' \in Work /\ w'.pc = "count" /\ w'.base = w.base /\ w'.cur = CountFailure(w.cur)
      BY <1>g, <2>5, <3>1 DEF Steps
    <3> QED BY <1>a, <1>s, <2>1, <3>1, <3>2 DEF Same, ReconcileEffect, Counts
  <2> QED BY <2>1, <2>3, <2>4, <2>5
<1>13. CASE MarkComplete
  <2>1. w.pc = "complete" /\ UNCHANGED <<node, installs>> /\ Patch /\ Goto("mirror", w.cur)
    BY <1>13 DEF MarkComplete
  <2>2. w' \in Work /\ Goes("mirror", w.cur)
    BY <1>a, <1>g, <2>1 DEF Goes, Steps
  <2> QED BY <1>a, <1>f, <1>s, <2>1, <2>2 DEF Same, ReconcileEffect, MarksComplete
<1>14. CASE MirrorVersion
  <2>1. w.pc = "mirror" /\ UNCHANGED <<obj, node, installs>> /\ (Goto("link", w.cur) \/ w' = Idle)
    BY <1>14 DEF MirrorVersion
  <2>2. CASE Goto("link", w.cur)
    <3>1. w' \in Work /\ Goes("link", w.cur)
      BY <1>a, <1>g, <2>2 DEF Goes, Steps
    <3> QED BY <1>a, <1>s, <2>1, <3>1 DEF Same, ReconcileEffect, Mirrors
  <2>3. CASE w' = Idle
    BY <1>a, <1>d, <1>s, <2>1, <2>3 DEF Same, ReconcileEffect, Halts
  <2> QED BY <2>1, <2>2, <2>3
<1>15. CASE LinkNode
  <2> DEFINE c == [w.cur EXCEPT !.nodeUpdated = TRUE]
  <2>1. /\ w.pc = "link" /\ w' = Idle /\ UNCHANGED <<node, installs>>
        /\ UNCHANGED obj \/ obj' = Patched(w.base, c)
    BY <1>15 DEF LinkNode
  <2>2. c \in Object /\ SameSpec(c, w.cur) /\ SameStatus(c, w.cur)
    BY <1>a, CopyFlags
  <2> HIDE DEF c
  <2>3. CASE UNCHANGED obj
    BY <1>a, <1>d, <1>s, <2>1, <2>3 DEF Same, ReconcileEffect, Halts
  <2>4. CASE obj' = Patched(w.base, c)
    <3>1. Patches(w.base, c)
      BY <1>a, <1>b, <2>2, <2>4, PatchWrites DEF SameSpec
    <3> QED BY <1>a, <1>d, <1>s, <2>1, <2>2, <3>1 DEF Same, ReconcileEffect, Links
  <2> QED BY <2>1, <2>3, <2>4
<1>16. CASE RecordProbeFailure
  <2> DEFINE c1 == [w.cur EXCEPT !.state = "Failed", !.attemptGen = w.cur.gen]
  <2>1. /\ w.pc = "count" /\ UNCHANGED <<node, installs>> /\ Patch
        /\ \/ w.cur.state = "" /\ Goto("giveUp", c1)
           \/ w.cur.state = "InFlight" /\ Goto("fail", w.cur)
           \/ w' = Idle
    BY <1>16 DEF RecordProbeFailure
  <2>2. c1 \in Object /\ GivenUp(c1, w.cur)
    BY <1>a, CopyGivesUp
  <2> HIDE DEF c1
  <2>3. CASE w.cur.state = "" /\ Goto("giveUp", c1)
    <3>1. w' \in Work /\ w'.pc = "giveUp" /\ w'.base = w.base /\ w'.cur = c1
      BY <1>g, <2>2, <2>3 DEF Steps
    <3> QED BY <1>a, <1>f, <1>s, <2>1, <2>2, <2>3, <3>1 DEF Same, ReconcileEffect, RecordsFailure, Unset
  <2>4. CASE w.cur.state = "InFlight" /\ Goto("fail", w.cur)
    <3>1. w' \in Work /\ Goes("fail", w.cur)
      BY <1>a, <1>g, <2>4 DEF Goes, Steps
    <3> QED BY <1>a, <1>f, <1>s, <2>1, <2>4, <3>1 DEF Same, ReconcileEffect, RecordsFailure
  <2>5. CASE w' = Idle
    BY <1>a, <1>d, <1>f, <1>s, <2>1, <2>5 DEF Same, ReconcileEffect, RecordsFailure
  <2> QED BY <2>1, <2>3, <2>4, <2>5
<1>17. CASE MarkFailed
  <2> DEFINE c1 == [w.cur EXCEPT !.state = "Failed", !.attemptGen = w.cur.gen]
  <2>1. /\ w.pc = "fail" /\ UNCHANGED <<node, installs>> /\ obj' = Patched(w.cur, c1)
        /\ w' = At("reset", c1, c1)
    BY <1>17 DEF MarkFailed
  <2>2. c1 \in Object /\ GivenUp(c1, w.cur)
    BY <1>a, CopyGivesUp
  <2> HIDE DEF c1
  <2>3. w.cur.providerID => obj.providerID
    BY DEF UpgradeInv, CopyInv
  <2>4. Patches(w.cur, c1)
    BY <1>a, <2>1, <2>2, <2>3, PatchWrites DEF GivenUp, SameSpec
  <2>5. w' \in Work /\ w'.pc = "reset" /\ w'.base = c1 /\ w'.cur = c1
    BY <1>c, <2>1, <2>2 DEF Steps
  <2> QED BY <1>a, <1>s, <2>1, <2>2, <2>4, <2>5 DEF Same, ReconcileEffect, MarksFailed
<1>18. CASE ResetHost
  <2> DEFINE c1 == [w.cur EXCEPT !.ready = FALSE]
  <2>1. /\ w.pc = "reset" /\ UNCHANGED <<obj, installs>>
        /\ \/ /\ node' = [node EXCEPT !.config = FALSE, !.up = FALSE]
              /\ Goto("clear", c1) \/ ("ResetLost" \in Faults /\ w' = Idle)
           \/ (~Answers \/ "ResetFails" \in Faults) /\ UNCHANGED node /\ w' = Idle
    BY <1>18 DEF ResetHost
  <2>2. CASE UNCHANGED node /\ w' = Idle /\ (~Answers \/ "ResetFails" \in Faults)
    BY <1>a, <1>d, <1>s, <2>1, <2>2 DEF Same, ReconcileEffect, Halts
  <2>3. CASE node' = [node EXCEPT !.config = FALSE, !.up = FALSE] /\ Goto("clear", c1)
    <3>1. /\ c1 \in Object /\ SameSpec(c1, w.cur) /\ SameRecord(c1, w.cur) /\ ~c1.ready
          /\ c1.state = w.cur.state /\ c1.bootID = w.cur.bootID
      BY <1>a, CopyFlags
    <3> HIDE DEF c1
    <3>2. w' \in Work /\ w'.pc = "clear" /\ w'.base = w.base /\ w'.cur = c1
      BY <1>g, <2>3, <3>1 DEF Steps
    <3>3. node' \in Node /\ ~node'.config /\ ~node'.up /\ node'.boot = node.boot
      BY <1>a, <2>3 DEF Node
    <3> QED BY <1>s, <2>1, <3>1, <3>2, <3>3 DEF Same, ReconcileEffect, Resets
  <2>4. CASE node' = [node EXCEPT !.config = FALSE, !.up = FALSE] /\ "ResetLost" \in Faults /\ w' = Idle
    <3>1. node' \in Node /\ ~node'.config /\ ~node'.up /\ node'.boot = node.boot
      BY <1>a, <2>4 DEF Node
    <3> QED BY <1>d, <1>s, <2>1, <2>4, <3>1 DEF Same, ReconcileEffect, LosesReset
  <2> QED BY <2>1, <2>2, <2>3, <2>4
<1>19. CASE Abort
  BY <1>19, <1>a, <1>d, <1>s DEF Abort, Same, ReconcileEffect, Halts
<1> QED BY <1>1, <1>2, <1>3, <1>4, <1>5, <1>6, <1>7, <1>8, <1>9, <1>10, <1>11, <1>12, <1>13, <1>14,
           <1>15, <1>16, <1>17, <1>18, <1>19, <1>20 DEF ReconcileStep

\* Every step is one of these effects, and keeps the types.
LEMMA StepEffects ==
  ASSUME UpgradeInv, [Next]_vars
  PROVE  Effect /\ TypeOK' /\ EditsBounded'
<1>a. /\ obj \in Object /\ hostVersion \in Tags \cup {NoTag} /\ node \in Node /\ w \in Work
      /\ reboots \in 0..MaxReboots /\ streak \in 0..Threshold /\ installs \in [Generations -> Nat]
      /\ EditsBounded /\ w.cur \in Object
  BY DEF UpgradeInv, TypeOK, Work
<1>b. /\ obj.gen \in Nat /\ obj.gen >= 1 /\ obj.providerID \in BOOLEAN
      /\ obj.gen <= MaxEdits + (IF obj.providerID THEN 2 ELSE 1)
  BY <1>a, GenerationsAreNumbers, CopyFields DEF EditsBounded
<1>s. Threshold \in Nat /\ \A n \in 0..Threshold : (IF n < Threshold THEN n + 1 ELSE n) \in 0..Threshold
  BY ThresholdIsNumber
<1>t. (ProbeSucceeds \/ ProbeFails) => streak' \in 0..Threshold
  BY <1>a, <1>s DEF ProbeSucceeds, ProbeFails
<1>v. w.cur.version \in Tags \cup {NoTag}
  BY <1>a DEF Object
<1>o. UNCHANGED obj => obj' \in Object /\ EditsBounded'
  BY <1>a DEF EditsBounded
<1>1. CASE ReconcileStep \/ Abort
  <2>1. /\ w' \in Work /\ node' \in Node
        /\ \/ ReconcileEffect /\ installs' = installs
           \/ (Installs \/ LosesInstall) /\ CountInstall
    BY <1>1, ReconcileEffects
  <2>2. obj' \in Object /\ EditsBounded'
    <3>1. ReconcileEffect \/ Installs \/ LosesInstall =>
            UNCHANGED obj \/ \E base \in Object, c \in Object : Patches(base, c)
      <4>1. w.base \in Object /\ w.cur \in Object /\ w'.cur \in Object
        BY <1>a, <2>1 DEF Work
      <4> QED BY <4>1 DEF ReconcileEffect, Begins, Applies, MarksSpec, MarksStatus, Retriggers, Issues,
           MarksInFlight, FailsInstall, PollsBootID, Completes, PollsVersion, MarksComplete, Mirrors,
           Links, Counts, RecordsFailure, MarksFailed, Resets, Ends, Halts, Installs, LosesInstall,
           LosesReset, LosesSpec, MarksRest
    <3> QED BY <1>o, <2>1, <3>1 DEF Patches
  <2>3. installs' \in [Generations -> Nat]
    <3>1. w.cur.gen \in Generations
      BY <1>a, CopyFields
    <3>2. installs[w.cur.gen] + 1 \in Nat
      BY <1>a, <3>1
    <3> QED BY <1>a, <2>1, <3>1, <3>2 DEF CountInstall
  <2>4. reboots' \in 0..MaxReboots
    BY <1>1, <1>a DEF ReconcileStep, Reconcile, ApplyConfig, MarkAdoptedSpec, MarkAdoptedStatus,
       MarkAdoptedRest,
       Retrigger,
         VersionProbe, MarkInFlight, UpgradeMachine, StashBootID, PollBootID, RefreshVersion, PollVersion,
         PatchPoll, MarkComplete, MirrorVersion, LinkNode, RecordProbeFailure, GiveUp, MarkFailed,
         ResetHost, ClearReady, Abort
  <2>5. streak' \in 0..Threshold
    BY <1>1, <1>a, <1>t DEF ReconcileStep, Reconcile, ApplyConfig, MarkAdoptedSpec, MarkAdoptedStatus,
       MarkAdoptedRest,
         Retrigger, VersionProbe, MarkInFlight, UpgradeMachine, StashBootID, PollBootID, RefreshVersion,
         PollVersion, PatchPoll, MarkComplete, MirrorVersion, LinkNode, RecordProbeFailure, GiveUp,
         MarkFailed, ResetHost, ClearReady, Abort
  <2>6. hostVersion' \in Tags \cup {NoTag}
    BY <1>1, <1>a, <1>v DEF ReconcileStep, Reconcile, ApplyConfig, MarkAdoptedSpec, MarkAdoptedStatus,
       MarkAdoptedRest,
         Retrigger, VersionProbe, MarkInFlight, UpgradeMachine, StashBootID, PollBootID, RefreshVersion,
         PollVersion, PatchPoll, MarkComplete, MirrorVersion, LinkNode, RecordProbeFailure, GiveUp,
         MarkFailed, ResetHost, ClearReady, Abort
  <2> QED BY <2>1, <2>2, <2>3, <2>4, <2>5, <2>6 DEF TypeOK, Effect
<1>2. CASE NodeUp
  <2>1. /\ ~node.up /\ UNCHANGED <<obj, hostVersion, w, reboots, streak, installs>>
        /\ node' = [node EXCEPT !.up = TRUE, !.running = node.disk, !.boot = @ + 1,
                                !.joined = @ \/ node.config]
    BY <1>2 DEF NodeUp
  <2>2. node.boot + 1 \in Nat
    BY <1>a DEF Node
  <2>3. node' \in Node
    BY <1>a, <2>1, <2>2 DEF Node
  <2>4. /\ node'.config = node.config /\ node'.disk = node.disk /\ node'.up
        /\ node'.boot = node.boot + 1 /\ node'.running = node.disk
    BY <1>a, <2>1 DEF Node
  <2> QED BY <1>a, <1>o, <2>1, <2>3, <2>4 DEF Effect, NodeMoves, TypeOK
<1>3. CASE NodeReboots \/ OperatorNudges
  <2>1. /\ UNCHANGED <<obj, hostVersion, w, streak, installs>>
        /\ node' = [node EXCEPT !.up = FALSE]
        /\ reboots' = reboots \/ (reboots < MaxReboots /\ reboots' = reboots + 1)
    BY <1>3 DEF NodeReboots, OperatorNudges
  <2>2. node' \in Node
    BY <1>a, <2>1 DEF Node
  <2>3. /\ node'.config = node.config /\ node'.disk = node.disk /\ ~node'.up
        /\ node'.boot = node.boot /\ node'.running = node.running
    BY <1>a, <2>1 DEF Node
  <2>4. reboots' \in 0..MaxReboots
    BY <1>a, <2>1, BoundsAssumption
  <2> QED BY <1>a, <1>o, <2>1, <2>2, <2>3, <2>4 DEF Effect, NodeMoves, TypeOK
<1>4. ASSUME NEW i \in Images, Edit(i)
      PROVE  Effect /\ TypeOK' /\ EditsBounded'
  <2>1. /\ Edits < MaxEdits
        /\ "EditInFlight" \in Faults \/ (w.pc = "idle" /\ obj.state # "InFlight")
        /\ obj' = [obj EXCEPT !.desired = i, !.gen = @ + 1]
        /\ UNCHANGED <<hostVersion, node, w, reboots, streak, installs>>
    BY <1>4 DEF Edit
  <2>2. obj.gen + 1 <= MaxEdits + (IF obj.providerID THEN 2 ELSE 1)
    <3>1. obj.gen - (IF obj.providerID THEN 2 ELSE 1) < MaxEdits
      BY <2>1 DEF Edits
    <3> QED BY <1>b, <3>1, BoundsAssumption
  <2>3. obj.gen + 1 \in Generations
    BY <1>b, <2>2, BoundsAssumption DEF Generations
  <2>4. obj' \in Object
    BY <1>a, <2>1, <2>3 DEF Object
  <2>5. obj'.gen = obj.gen + 1 /\ obj'.providerID = obj.providerID /\ SameStatus(obj', obj)
    BY <1>a, <2>1 DEF Object, SameStatus, SameRecord
  <2>6. EditsBounded'
    BY <2>2, <2>5 DEF EditsBounded
  <2>7. Edited
    BY <2>1, <2>4, <2>5, <2>6 DEF Edited
  <2> QED BY <1>a, <2>1, <2>4, <2>6, <2>7 DEF Effect, TypeOK
<1>5. CASE UNCHANGED vars
  BY <1>5, <1>a, <1>o DEF vars, Effect, TypeOK
<1> QED BY <1>1, <1>2, <1>3, <1>4, <1>5 DEF Next

-----------------------------------------------------------------------------
(* The invariants.                                                         *)

\* A ready machine has a configured node until its reset is written back.
ConfigInv ==
  /\ obj.ready /\ w.pc # "clear" => node.config
  /\ w.pc \in {"markSpec", "markStatus", "markRest"} => node.config

\* Once an image is installed for the generation the object is at, its state says so:
\* the upgrade runs, is recorded as applied, or has failed for this generation.  No
\* reconcile is on its way to another install, and one that is not about to write the
\* boot id works on the current generation.
Agrees(a, b) == a.ready = b.ready /\ a.state = b.state /\ SameRecord(a, b)
Recorded ==
  /\ obj.providerID
  /\ \/ obj.state = "InFlight" /\ obj.ready
     \/ obj.state = Unset /\ obj.ready /\ upgradeAlreadyApplied(obj)
     \/ obj.state = "Failed" /\ obj.attemptGen = obj.gen
Current ==
  /\ w.pc \notin {"idle", "stash"} => w.cur.gen = obj.gen /\ w.cur.desired = obj.desired
  /\ w.pc \in PollSteps \cup {"count"} =>
       w.cur.state = "InFlight" /\ Agrees(w.cur, obj) /\ Agrees(w.base, obj)
  /\ w.pc = "complete" =>
       /\ w.cur.state = Unset /\ w.cur.ready /\ upgradeAlreadyApplied(w.cur)
       /\ Agrees(w.base, obj)
  /\ w.pc \in {"mirror", "link"} => Agrees(w.cur, obj)
  /\ w.pc = "fail" => w.cur.attemptGen = obj.attemptGen
  /\ w.pc \in {"reset", "clear"} => obj.attemptGen = obj.gen
EarlySteps == AdoptingSteps \cup {"retrigger", "probe", "inFlight", "upgrade"}
InstalledInv ==
  /\ Recorded
  /\ w.pc \notin EarlySteps \cup {"giveUp"}
  /\ Current

\* A copy is of this generation of the object or of an older one, and carries the
\* generation of the last attempt until its own is written.
GenerationInv ==
  /\ w.cur.gen <= obj.gen
  /\ w.pc # "idle" /\ w.cur.gen = obj.gen => w.cur.desired = obj.desired
  /\ w.pc \in EarlySteps \ {"upgrade"} => obj.attemptGen = w.base.attemptGen
  /\ w.pc \in EarlySteps \ {"inFlight", "upgrade"} => w.cur.attemptGen = w.base.attemptGen
  /\ w.pc \in {"inFlight", "upgrade"} => w.cur.attemptGen = w.cur.gen
  /\ w.pc = "upgrade" => obj.attemptGen = w.cur.gen

\* No generation is installed twice: none is ahead of the object; no reconcile on its
\* way to an install works on one that was; and the one the object is at is recorded.
InstallsInv ==
  /\ GenerationInv
  /\ \A g \in Generations : installs[g] >= 1 =>
       /\ installs[g] = 1 /\ g <= obj.gen
       /\ w.pc \in EarlySteps => w.cur.gen # g
       /\ obj.gen = g => InstalledInv

\* An idle reconcile satisfies every statement about a copy.
LEMMA IdleCopy ==
  w' = Idle => /\ w'.pc = "idle" /\ w'.cur = w'.base /\ ~w'.cur.ready /\ ~w'.cur.providerID
               /\ w'.cur.state = Unset
<1>1. NoImage \in Images \cup {NoImage}
  OBVIOUS
<1>2. /\ NewObject(NoImage).ready = FALSE /\ NewObject(NoImage).providerID = FALSE
      /\ NewObject(NoImage).state = ""
  BY <1>1, NewObjectTyped
<1> QED BY <1>2, IdleTyped, Zenon DEF Unset

\* The reconcile's copies, and the object, are of the types the effects assume.
LEMMA Copies ==
  ASSUME TypeOK
  PROVE  /\ obj \in Object /\ w.base \in Object /\ w.cur \in Object /\ w.pc \in Steps
         /\ obj.ready \in BOOLEAN /\ w.base.ready \in BOOLEAN /\ w.cur.ready \in BOOLEAN
         /\ obj.providerID \in BOOLEAN /\ w.base.providerID \in BOOLEAN /\ w.cur.providerID \in BOOLEAN
BY CopyFields DEF TypeOK, Work

\* What a reconcile may rely on of its base and its copy is preserved.
LEMMA CopyInvStep ==
  ASSUME UpgradeInv, Effect, TypeOK'
  PROVE  CopyInv'
<1>a. CopyInv /\ StateInv
  BY DEF UpgradeInv
<1>b. /\ obj.ready \in BOOLEAN /\ w.base.ready \in BOOLEAN /\ w.cur.ready \in BOOLEAN
      /\ obj.providerID \in BOOLEAN /\ w.base.providerID \in BOOLEAN /\ w.cur.providerID \in BOOLEAN
  BY Copies DEF UpgradeInv
<1>c. /\ obj'.ready \in BOOLEAN /\ w'.base.ready \in BOOLEAN /\ w'.cur.ready \in BOOLEAN
      /\ obj'.providerID \in BOOLEAN /\ w'.base.providerID \in BOOLEAN /\ w'.cur.providerID \in BOOLEAN
  BY CopyFields DEF TypeOK, Work
<1>1. CASE w' = Idle
  BY <1>1, IdleCopy DEF CopyInv
<1>2. CASE Begins
  BY <1>2, <1>1, <1>b DEF Begins, Decides, CopyInv, Restarted, Completed, SameSpec
<1>3. CASE Applies \/ LosesSpec \/ FailsInstall \/ LosesInstall \/ PollsBootID \/ Mirrors
  BY <1>3, <1>a, <1>b, <1>c DEF Applies, LosesSpec, FailsInstall, LosesInstall, PollsBootID, Mirrors,
     Goes,
     CopyInv
<1>4. CASE MarksSpec
  BY <1>4, <1>a, <1>b, <1>c DEF MarksSpec, CopyInv, Patches, Merged, SameStatus
<1>5. CASE MarksStatus
  <2>1. PICK c \in Object :
          /\ SameSpec(c, w.cur) /\ SameRecord(c, w.cur) /\ c.ready /\ c.state = w.cur.state
          /\ c.bootID = w.cur.bootID /\ Patches(w.base, c) /\ Decides(w.base, c)
    BY <1>5 DEF MarksStatus
  <2>2. c.ready \in BOOLEAN /\ c.providerID \in BOOLEAN
    BY CopyFields
  <2>3. obj'.ready
    <3>1. w.base.ready => obj.ready
      BY <1>5, <1>a DEF MarksStatus, CopyInv
    <3>2. obj'.ready = IF c.ready = w.base.ready THEN obj.ready ELSE c.ready
      BY <2>1 DEF Patches, Merged
    <3> QED BY <3>1, <3>2, <2>1, <2>2, <1>b
  <2>4. obj'.providerID = (obj.providerID \/ c.providerID)
    BY <2>1 DEF Patches, Merged
  <2>5. c.gen = w.base.gen /\ c.desired = w.base.desired /\ c.providerID = w.cur.providerID
    BY <2>1, <1>a DEF SameSpec, CopyInv
  <2>6. CASE w' # Idle
    <3>1. w'.base = w.base /\ SameSpec(w'.cur, c) /\ w'.cur.ready = c.ready
      BY <2>1, <2>6 DEF Decides, Restarted, Completed, SameSpec
    <3> QED BY <3>1, <2>1, <2>3, <2>4, <2>5, <1>a, <1>b, <1>c DEF CopyInv, SameSpec
  <2> QED BY <1>1, <2>6
<1>6. CASE Retriggers
  BY <1>6, <1>1, <1>a, <1>b, <1>c
     DEF Retriggers, CopyInv, Patches, Merged, Decides, Restarted, Completed, SameSpec
<1>7. CASE Issues \/ Installs \/ Completes \/ PollsVersion \/ Counts
  BY <1>7, <1>a, <1>b, <1>c DEF Issues, Issued, Installs, Completes, Completed, PollsVersion, Counts,
     CopyInv, SameSpec, SameStatus
<1>8. CASE MarksInFlight \/ MarksComplete
  BY <1>8, <1>a, <1>b, <1>c DEF MarksInFlight, MarksComplete, Goes, Patches, Merged, CopyInv
<1>9. CASE RecordsFailure
  BY <1>9, <1>1, <1>a, <1>b, <1>c DEF RecordsFailure, Goes, Patches, Merged, CopyInv, GivenUp, SameSpec
<1>10. CASE MarksFailed
  BY <1>10, <1>a, <1>b, <1>c DEF MarksFailed, Patches, Merged, CopyInv, GivenUp, SameSpec
<1>11. CASE Resets
  BY <1>11, <1>a, <1>b, <1>c DEF Resets, CopyInv, SameSpec
<1>12. CASE MarksRest \/ Links \/ LosesReset \/ Ends \/ Halts
  BY <1>12, <1>1 DEF MarksRest, Links, LosesReset, Ends, Halts
<1>13. CASE NodeMoves \/ UNCHANGED <<obj, node, w, installs>>
  BY <1>13, <1>a DEF NodeMoves, CopyInv
<1>14. CASE Edited
  BY <1>14, <1>a DEF Edited, CopyInv, SameStatus
<1> QED BY <1>2, <1>3, <1>4, <1>5, <1>6, <1>7, <1>8, <1>9, <1>10, <1>11, <1>12, <1>13, <1>14
        DEF Effect, ReconcileEffect

\* What the upgrade state says of the steps of the reconcile is preserved.
LEMMA StateInvStep ==
  ASSUME UpgradeInv, Effect, TypeOK'
  PROVE  StateInv'
<1>a. CopyInv /\ StateInv
  BY DEF UpgradeInv
<1>b. /\ obj.ready \in BOOLEAN /\ w.base.ready \in BOOLEAN /\ w.cur.ready \in BOOLEAN
  BY Copies DEF UpgradeInv
<1>c. /\ obj'.ready \in BOOLEAN /\ w'.base.ready \in BOOLEAN /\ w'.cur.ready \in BOOLEAN
  BY CopyFields DEF TypeOK, Work
<1> USE DEF AdoptingSteps, InstallSteps, PollSteps
<1>1. CASE w' = Idle
  BY <1>1, IdleCopy DEF StateInv
<1>2. CASE Begins
  BY <1>2, <1>1, <1>b, UnsetIsApart DEF Begins, Decides, StateInv, Restarted, Completed, SameSpec
<1>3. CASE Applies \/ LosesSpec \/ FailsInstall \/ LosesInstall \/ PollsBootID \/ Mirrors
  BY <1>3, <1>a, <1>b DEF Applies, LosesSpec, FailsInstall, LosesInstall, PollsBootID, Mirrors, Goes,
     StateInv
<1>4. CASE MarksSpec
  BY <1>4, <1>a, <1>b, <1>c DEF MarksSpec, StateInv, SameStatus
<1>5. CASE MarksStatus
  BY <1>5, <1>1, <1>a, <1>b, <1>c, UnsetIsApart
     DEF MarksStatus, StateInv, Decides, Restarted, Completed, SameSpec
<1>6. CASE Retriggers
  BY <1>6, <1>1, <1>a, <1>b, <1>c, UnsetIsApart
     DEF Retriggers, StateInv, Decides, Restarted, Completed, SameSpec
<1>7. CASE Issues \/ Installs \/ Completes \/ PollsVersion \/ Counts
  BY <1>7, <1>a, <1>b, <1>c, UnsetIsApart DEF Issues, Issued, Installs, Completes, Completed,
     PollsVersion,
     Counts, StateInv, SameSpec, SameStatus
<1>8. CASE MarksInFlight \/ MarksComplete
  BY <1>8, <1>a, <1>b, <1>c, UnsetIsApart DEF MarksInFlight, MarksComplete, Goes, Patches, Merged,
     StateInv
<1>9. CASE RecordsFailure
  BY <1>9, <1>1, <1>a, <1>b, <1>c DEF RecordsFailure, Goes, StateInv, GivenUp, SameSpec
<1>10. CASE MarksFailed
  BY <1>10, <1>a, <1>b, <1>c DEF MarksFailed, Patches, Merged, StateInv, GivenUp, SameSpec
<1>11. CASE Resets
  BY <1>11, <1>a, <1>b, <1>c DEF Resets, StateInv, SameRecord
<1>12. CASE MarksRest \/ Links \/ LosesReset \/ Ends \/ Halts
  BY <1>12, <1>1 DEF MarksRest, Links, LosesReset, Ends, Halts
<1>13. CASE NodeMoves \/ UNCHANGED <<obj, node, w, installs>>
  BY <1>13, <1>a DEF NodeMoves, StateInv, SameRecord
<1>14. CASE Edited
  BY <1>14, <1>a DEF Edited, StateInv, SameStatus, SameRecord
<1> QED BY <1>2, <1>3, <1>4, <1>5, <1>6, <1>7, <1>8, <1>9, <1>10, <1>11, <1>12, <1>13, <1>14
        DEF Effect, ReconcileEffect

\* The provider ID comes before every upgrade state, and is not taken back.
LEMMA ProviderInvStep ==
  ASSUME UpgradeInv, Effect, TypeOK'
  PROVE  ProviderInv'
<1>a. CopyInv /\ StateInv /\ ProviderInv
  BY DEF UpgradeInv
<1>m. \A base, c : Patches(base, c) =>
        /\ obj'.providerID = (obj.providerID \/ c.providerID)
        /\ obj'.state = IF c.state = base.state THEN obj.state ELSE c.state
  BY DEF Patches, Merged
<1>i. w' = Idle => w'.pc = "idle" /\ w'.cur.state = Unset
  BY IdleCopy
<1> USE DEF ProviderInv
<1>1. CASE UNCHANGED obj /\ w' = Idle
  BY <1>1, <1>a, <1>i
<1>2. CASE Begins
  BY <1>2, <1>1, <1>a, UnsetIsApart DEF Begins, Decides, Restarted, Completed, SameSpec
<1>3. CASE Applies \/ LosesSpec \/ FailsInstall \/ LosesInstall \/ PollsBootID \/ Mirrors
  BY <1>3, <1>a DEF Applies, LosesSpec, FailsInstall, LosesInstall, PollsBootID, Mirrors, Goes
<1>4. CASE MarksSpec
  BY <1>4, <1>a, <1>m DEF MarksSpec, SameStatus
<1>5. CASE MarksStatus
  <2>1. PICK c \in Object : /\ SameSpec(c, w.cur) /\ c.state = w.cur.state
                            /\ Patches(w.base, c) /\ Decides(w.base, c)
    BY <1>5 DEF MarksStatus
  <2>2. w.pc = "markStatus"
    BY <1>5 DEF MarksStatus
  <2> QED BY <2>1, <2>2, <1>a, <1>i, <1>m DEF Decides, Restarted, Completed, SameSpec
<1>6. CASE MarksRest
  <2>1. PICK c \in Object : SameSpec(c, w.cur) /\ c.state = w.cur.state /\ Patches(w.base, c)
    BY <1>6 DEF MarksRest
  <2>2. w' = Idle
    BY <1>6 DEF MarksRest
  <2> QED BY <2>1, <2>2, <1>a, <1>i, <1>m DEF SameSpec
<1>7. CASE Retriggers
  BY <1>7, <1>a, <1>i, <1>m DEF Retriggers, Decides, Restarted, Completed, SameSpec
<1>8. CASE Issues \/ Installs \/ Completes \/ PollsVersion \/ Counts
  BY <1>8, <1>a DEF Issues, Issued, Installs, Completes, Completed, PollsVersion, Counts, SameSpec,
     SameStatus
<1>9. CASE MarksInFlight \/ MarksComplete
  BY <1>9, <1>a, <1>m DEF MarksInFlight, MarksComplete, Goes
<1>10. CASE RecordsFailure
  BY <1>10, <1>a, <1>i, <1>m DEF RecordsFailure, Goes, GivenUp, SameSpec
<1>11. CASE MarksFailed
  BY <1>11, <1>a, <1>m DEF MarksFailed, GivenUp, SameSpec
<1>12. CASE Resets
  BY <1>12, <1>a DEF Resets, SameSpec
<1>13. CASE Links
  <2>1. PICK c \in Object : SameSpec(c, w.cur) /\ SameStatus(c, w.cur) /\ Patches(w.base, c)
    BY <1>13 DEF Links
  <2>2. w' = Idle
    BY <1>13 DEF Links
  <2> QED BY <2>1, <2>2, <1>a, <1>i, <1>m DEF SameSpec, SameStatus
<1>14. CASE Ends \/ Halts \/ LosesReset
  BY <1>14, <1>a, <1>i, <1>m DEF Ends, Halts, LosesReset
<1>15. CASE NodeMoves \/ UNCHANGED <<obj, node, w, installs>>
  BY <1>15, <1>a DEF NodeMoves
<1>16. CASE Edited
  BY <1>16, <1>a DEF Edited, SameStatus
<1> QED BY <1>2, <1>3, <1>4, <1>5, <1>6, <1>7, <1>8, <1>9, <1>10, <1>11, <1>12, <1>13, <1>14, <1>15,
           <1>16 DEF Effect, ReconcileEffect

-----------------------------------------------------------------------------
(* Type correctness.                                                       *)

\* The invariant holds before the first reconcile.
LEMMA InitUpgrade == Init => UpgradeInv
<1> SUFFICES ASSUME Init PROVE UpgradeInv
  OBVIOUS
<1>1. PICK i \in Images \cup {NoImage} : obj = NewObject(i)
  BY DEF Init
<1>2. /\ obj \in Object /\ obj.gen = 1 /\ obj.providerID = FALSE
  BY <1>1, NewObjectTyped
<1>3. node \in Node
  <2>1. PICK j \in Images :
          node = [up |-> TRUE, config |-> FALSE, disk |-> j, running |-> j, boot |-> 1, joined |-> FALSE]
    BY DEF Init
  <2> QED BY <2>1 DEF Node
<1>4. w = Idle /\ w \in Work
  BY IdleTyped DEF Init
<1>5. /\ w.pc = "idle" /\ w.cur = w.base /\ w.cur.ready = FALSE /\ w.cur.providerID = FALSE
  BY <1>4, IdleTyped, NewObjectTyped
<1>6. TypeOK
  <2>1. hostVersion \in Tags \cup {NoTag}
    BY DEF Init
  <2>2. reboots \in 0..MaxReboots /\ streak \in 0..Threshold /\ installs \in [Generations -> Nat]
    <3>1. reboots = 0 /\ streak = 0 /\ installs = [g \in Generations |-> 0]
      BY DEF Init
    <3> QED BY <3>1, BoundsAssumption, ThresholdIsNumber
  <2> QED BY <1>2, <1>3, <1>4, <2>1, <2>2 DEF TypeOK
<1>7. EditsBounded
  BY <1>2, BoundsAssumption DEF EditsBounded
<1>8. CopyInv
  BY <1>5 DEF CopyInv
<1>9. StateInv
  BY <1>5 DEF StateInv, AdoptingSteps, InstallSteps, PollSteps
<1>10. ProviderInv
  BY <1>1, <1>4, <1>5, IdleTyped, NewObjectTyped DEF ProviderInv, Unset
<1> QED BY <1>6, <1>7, <1>8, <1>9, <1>10 DEF UpgradeInv

\* Every step preserves the invariant, and has one of the effects.
LEMMA NextUpgrade == UpgradeInv /\ [Next]_vars => UpgradeInv' /\ Effect
<1> SUFFICES ASSUME UpgradeInv, [Next]_vars PROVE UpgradeInv' /\ Effect
  OBVIOUS
<1>1. Effect /\ TypeOK' /\ EditsBounded'
  BY StepEffects
<1>2. CopyInv' /\ StateInv' /\ ProviderInv'
  BY <1>1, CopyInvStep, StateInvStep, ProviderInvStep
<1> QED BY <1>1, <1>2 DEF UpgradeInv

\* What every reconcile of the upgrade may rely on: its copy is never ahead of the
\* object in the provider ID or in readiness (patch.Helper writes only what
\* changed, and neither is taken back outside a reset), an image is installed only
\* once InFlight is on the API server, and a host is reset only once Failed is.
THEOREM UpgradeInvariance == Spec => []UpgradeInv
BY InitUpgrade, NextUpgrade, PTL DEF Spec

\* Every variable keeps its type; with it, the generation stays within the bound of
\* edits, whatever the patches of stale copies write.
THEOREM UpgradeTyped == Spec => []TypeOK
<1>1. UpgradeInv => TypeOK
  BY DEF UpgradeInv
<1> QED BY <1>1, UpgradeInvariance, PTL

-----------------------------------------------------------------------------
(* A ready machine has a configured node.                                  *)

\* No reconcile is cut off between two of its writes, and no reset of a host takes
\* effect without an answer.
ReconcileEnds == Faults \cap {"Abort", "ResetLost"} = {}

\* Only markAdopted makes a machine ready.
LEMMA ReadyChanges ==
  ASSUME UpgradeInv, UpgradeInv', Effect
  PROVE  obj'.ready => obj.ready \/ w.pc \in {"markStatus", "markRest"}
<1>a. CopyInv /\ StateInv
  BY DEF UpgradeInv
<1>b. /\ obj.ready \in BOOLEAN /\ w.base.ready \in BOOLEAN /\ w.cur.ready \in BOOLEAN
  BY Copies DEF UpgradeInv
<1>c. obj'.ready \in BOOLEAN /\ w'.cur.ready \in BOOLEAN
  BY CopyFields DEF UpgradeInv, TypeOK, Work
<1>1. ASSUME NEW base \in Object, NEW c \in Object, Patches(base, c), c.ready => obj.ready
      PROVE  obj'.ready => obj.ready
  <2>1. obj'.ready = IF c.ready = base.ready THEN obj.ready ELSE c.ready
    BY <1>1 DEF Patches, Merged
  <2> QED BY <1>1, <2>1
<1>2. w.base \in Object /\ w.cur \in Object /\ w'.cur \in Object
  BY DEF UpgradeInv, TypeOK, Work
<1>3. w.cur.ready => obj.ready
  BY <1>a DEF CopyInv
<1>4. CASE UNCHANGED obj
  BY <1>4
<1>5. CASE MarksSpec
  <2>1. Patches(w.base, w'.cur) /\ w'.cur.ready = w.cur.ready
    BY <1>5 DEF MarksSpec, SameStatus
  <2> QED BY <2>1, <1>1, <1>2, <1>3
<1>6. CASE MarksStatus \/ MarksRest
  BY <1>6 DEF MarksStatus, MarksRest
<1>7. CASE Patches(w.base, w.cur)
  BY <1>7, <1>1, <1>2, <1>3
<1>8. CASE Links
  <2>1. PICK c \in Object : SameStatus(c, w.cur) /\ Patches(w.base, c)
    BY <1>8 DEF Links
  <2> QED BY <2>1, <1>1, <1>2, <1>3 DEF SameStatus
<1>9. CASE MarksFailed
  <2>1. Patches(w.cur, w'.cur) /\ w'.cur.ready = w.cur.ready
    BY <1>9 DEF MarksFailed, GivenUp
  <2> QED BY <2>1, <1>1, <1>2, <1>3
<1>10. CASE Edited
  BY <1>10 DEF Edited, SameStatus
<1> QED BY <1>4, <1>5, <1>6, <1>7, <1>8, <1>9, <1>10 DEF Effect, ReconcileEffect, Begins, Applies,
           Retriggers,
      Issues, MarksInFlight, Installs, FailsInstall, LosesInstall, PollsBootID, Completes, PollsVersion,
      MarksComplete, Mirrors, Counts, RecordsFailure, Resets, LosesSpec, LosesReset, Ends, Halts, NodeMoves

\* No step takes the configuration off the node of a ready machine.
LEMMA NextConfig ==
  ASSUME ReconcileEnds, UpgradeInv, UpgradeInv', ConfigInv, Effect
  PROVE  ConfigInv'
<1>a. StateInv /\ StateInv' /\ CopyInv
  BY DEF UpgradeInv
<1>b. /\ obj.ready \in BOOLEAN /\ w.base.ready \in BOOLEAN /\ w.cur.ready \in BOOLEAN
  BY Copies DEF UpgradeInv
<1>r. obj'.ready => obj.ready \/ w.pc \in {"markStatus", "markRest"}
  BY ReadyChanges
<1>1. CASE Resets
  BY <1>1 DEF Resets, ConfigInv
<1>2. CASE w.pc = "clear" /\ ~(NodeMoves \/ Edited \/ UNCHANGED <<obj, node, w, installs>>)
  <2>1. Ends
    BY <1>2 DEF Effect, ReconcileEffect, Begins, Applies, MarksSpec, MarksStatus, Retriggers, Issues,
      MarksInFlight, Installs, FailsInstall, LosesInstall, LosesSpec, MarksRest,
      LosesReset, PollsBootID, Completes, PollsVersion, MarksComplete, Mirrors,
      Links, Counts, RecordsFailure, MarksFailed, Resets, Halts, ReconcileEnds
  <2>2. w' = Idle /\ obj'.ready = IF w.cur.ready = w.base.ready THEN obj.ready ELSE w.cur.ready
    BY <2>1 DEF Ends, Patches, Merged
  <2>3. ~w.cur.ready /\ w.base.ready
    BY <1>2, <1>a DEF StateInv
  <2>4. ~obj'.ready /\ w'.pc = "idle"
    BY <2>2, <2>3, <1>b, IdleTyped
  <2> QED BY <2>4 DEF ConfigInv
<1>3. CASE NodeMoves \/ Edited \/ UNCHANGED <<obj, node, w, installs>>
  BY <1>3, <1>a DEF NodeMoves, Edited, SameStatus, ConfigInv
<1>4. CASE w.pc # "clear" /\ ~Resets /\ ~(NodeMoves \/ Edited \/ UNCHANGED <<obj, node, w, installs>>)
  <2>1. node.config => node'.config
    BY <1>4 DEF Effect, ReconcileEffect, Begins, Applies, MarksSpec, MarksStatus, Retriggers, Issues,
      MarksInFlight, Installs, FailsInstall, LosesInstall, LosesSpec, MarksRest,
      LosesReset, PollsBootID, Completes, PollsVersion, MarksComplete, Mirrors,
      Links, Counts, RecordsFailure, MarksFailed, Ends, Halts, ReconcileEnds
  <2>2. w'.pc \in {"markSpec", "markStatus", "markRest"} => node'.config
    BY <1>4, <2>1, IdleTyped DEF ConfigInv, Effect, ReconcileEffect, Begins, Applies, MarksSpec,
       MarksStatus,
      Retriggers, Issues, MarksInFlight, Installs, FailsInstall, LosesInstall, LosesSpec, MarksRest,
      LosesReset, PollsBootID, Completes, PollsVersion,
      MarksComplete, Mirrors, Links, Counts, RecordsFailure, MarksFailed, Ends, Halts, Goes, Decides
  <2>3. obj'.ready => node'.config
    BY <1>4, <1>r, <2>1 DEF ConfigInv
  <2> QED BY <2>2, <2>3 DEF ConfigInv
<1> QED BY <1>1, <1>2, <1>3, <1>4

\* applyAndMarkAdopted and finalizeUpgradeFailure: a machine that counts as adopted
\* and has not failed has a node that carries its configuration, as long as no
\* reconcile is cut off between the reset of the host and the write that takes the
\* readiness back, or between two of the writes before it, and no reset wipes a host
\* without the controller learning of it.
THEOREM ReadyNodeIsConfigured ==
  ASSUME ReconcileEnds
  PROVE  Spec => []ReadyIsConfigured
<1>1. Init => ConfigInv
  <2> SUFFICES ASSUME Init PROVE ConfigInv
    OBVIOUS
  <2>1. PICK i \in Images \cup {NoImage} : obj = NewObject(i)
    BY DEF Init
  <2>2. obj.ready = FALSE /\ w.pc = "idle"
    BY <2>1, NewObjectTyped, IdleTyped DEF Init
  <2> QED BY <2>2 DEF ConfigInv
<1>2. UpgradeInv /\ ConfigInv /\ [Next]_vars => UpgradeInv' /\ ConfigInv'
  BY NextUpgrade, NextConfig
<1>3. UpgradeInv /\ ConfigInv => ReadyIsConfigured
  BY DEF ConfigInv, ReadyIsConfigured, UpgradeInv, StateInv
<1> QED BY <1>1, <1>2, <1>3, InitUpgrade, PTL DEF Spec

-----------------------------------------------------------------------------
(* One install per generation.                                             *)

\* With the image installed, a patch that the copy only confirms changes nothing
\* the invariant is about.
LEMMA PatchKeeps ==
  ASSUME NEW base \in Object, NEW c \in Object, Patches(base, c), c.providerID => obj.providerID,
         Agrees(c, obj) \/ Agrees(c, base)
  PROVE  Agrees(obj', obj) /\ obj'.gen = obj.gen /\ obj'.desired = obj.desired
BY DEF Patches, Merged, Agrees, SameRecord

\* The provider ID is never taken back.
LEMMA ProviderStays ==
  ASSUME obj.providerID, ReconcileEffect
  PROVE  obj'.providerID
<1>1. \A base, c : Patches(base, c) => obj'.providerID
  BY DEF Patches, Merged
<1> QED BY <1>1 DEF ReconcileEffect, Begins, Applies, MarksSpec, MarksStatus, Retriggers, Issues,
      MarksInFlight, FailsInstall, LosesSpec, MarksRest, LosesReset, PollsBootID, Completes,
      PollsVersion, MarksComplete, Mirrors, Links, Counts, RecordsFailure, MarksFailed, Resets, Ends,
      Halts

\* Once an image was installed for this generation, no step of the reconcile forgets it.
LEMMA InstalledStep ==
  ASSUME UpgradeInv, UpgradeInv', InstalledInv, ReconcileEffect
  PROVE  InstalledInv'
<1>a. CopyInv /\ StateInv
  BY DEF UpgradeInv
<1>b. /\ w.base \in Object /\ w.cur \in Object /\ w'.cur \in Object /\ obj \in Object
  BY DEF UpgradeInv, TypeOK, Work
<1>r. /\ obj.ready \in BOOLEAN /\ w.base.ready \in BOOLEAN /\ w.cur.ready \in BOOLEAN
      /\ w'.cur.ready \in BOOLEAN
  BY <1>b, CopyFields
<1>p. w.cur.providerID => obj.providerID
  BY <1>a DEF CopyInv
<1>d. /\ Recorded /\ Current
      /\ w.pc \notin EarlySteps \cup {"giveUp"}
  BY DEF InstalledInv
<1>c. w.pc \notin {"idle", "stash"} => w.cur.gen = obj.gen /\ w.cur.desired = obj.desired
  BY <1>d DEF Current
<1>v. obj'.providerID
  BY ProviderStays DEF InstalledInv, Recorded
<1>e. Agrees(obj', obj) /\ obj'.gen = obj.gen /\ obj'.desired = obj.desired => Recorded'
  BY <1>d, <1>v DEF Recorded, Agrees, SameRecord, upgradeAlreadyApplied
<1>i. Recorded' /\ w' = Idle => InstalledInv'
  BY IdleTyped DEF InstalledInv, Current, PollSteps, AdoptingSteps, EarlySteps
<1>u. UNCHANGED obj => Recorded'
  BY <1>d DEF Recorded, upgradeAlreadyApplied
<1> USE DEF AdoptingSteps, EarlySteps, PollSteps
<1>1. CASE Begins
  <2>1. UNCHANGED obj
    BY <1>1 DEF Begins
  <2>2. Decides(obj, obj)
    BY <1>1, <1>d, <1>r, UnsetIsApart DEF Begins, Recorded
  <2>3. CASE w' # Idle
    <3>1. \/ w'.pc = "link" /\ w'.base = obj /\ w'.cur = obj
          \/ w'.pc = "complete" /\ w'.base = obj /\ Completed(w'.cur, obj) /\ obj.ready
          \/ /\ w'.pc \in {"pollBootID", "pollVersion"} /\ obj.state = "InFlight"
             /\ w'.base = obj /\ w'.cur = obj
      BY <2>2, <2>3, <1>d, UnsetIsApart DEF Decides, Recorded
    <3>2. Current'
      BY <3>1, <2>1 DEF Current, Agrees, SameRecord, Completed, SameSpec, upgradeAlreadyApplied
    <3>3. w'.pc \notin EarlySteps \cup {"giveUp"}
      BY <3>1
    <3> QED BY <2>1, <1>u, <3>2, <3>3 DEF InstalledInv
  <2> QED BY <2>1, <2>3, <1>i, <1>u
<1>2. CASE PollsBootID \/ PollsVersion \/ Mirrors
  <2>1. /\ UNCHANGED obj /\ w'.base = w.base /\ SameSpec(w'.cur, w.cur) /\ Agrees(w'.cur, w.cur)
        /\ \/ w.pc \in PollSteps /\ w'.pc \in PollSteps
           \/ w.pc = "mirror" /\ w'.pc = "link"
    BY <1>2 DEF PollsBootID, PollsVersion, Mirrors, Goes, SameStatus, SameSpec, Agrees, SameRecord
  <2>2. Current'
    BY <2>1, <1>d DEF Current, Agrees, SameRecord, SameSpec
  <2> QED BY <2>1, <2>2, <1>u DEF InstalledInv
<1>3. CASE Completes
  <2>1. /\ UNCHANGED obj /\ w'.base = w.base /\ Completed(w'.cur, w.cur) /\ w'.pc = "complete"
        /\ w.pc \in PollSteps
    BY <1>3 DEF Completes
  <2>2. w.cur.ready
    BY <2>1, <1>a DEF StateInv
  <2>3. Current'
    BY <2>1, <2>2, <1>d, <1>c DEF Current, Agrees, SameRecord, Completed, SameSpec,
       upgradeAlreadyApplied
  <2> QED BY <2>1, <2>3, <1>u DEF InstalledInv
<1>4. CASE Counts
  <2>1. /\ UNCHANGED obj /\ w'.base = w.base /\ SameSpec(w'.cur, w.cur) /\ Agrees(w'.cur, w.cur)
        /\ w.pc \in PollSteps /\ w'.pc = "count"
    BY <1>4, <1>d DEF Counts, SameStatus, SameSpec, Agrees, SameRecord
  <2>2. Current'
    BY <2>1, <1>d DEF Current, Agrees, SameRecord, SameSpec
  <2> QED BY <2>1, <2>2, <1>u DEF InstalledInv
<1>5. CASE MarksComplete
  <2>1. w.pc = "complete" /\ Merged(w.base, w.cur, obj') /\ Goes("mirror", w.cur)
    BY <1>5 DEF MarksComplete, Patches
  <2>2. /\ w.cur.state = Unset /\ w.cur.ready /\ upgradeAlreadyApplied(w.cur) /\ Agrees(w.base, obj)
        /\ w.cur.gen = obj.gen /\ w.cur.desired = obj.desired
    BY <2>1, <1>d DEF Current
  <2>3. Agrees(w.cur, obj') /\ obj'.gen = obj.gen /\ obj'.desired = obj.desired
    BY <2>1, <2>2, <1>p DEF Merged, Agrees, SameRecord
  <2>4. Recorded'
    BY <2>2, <2>3, <1>v DEF Recorded, Agrees, SameRecord, upgradeAlreadyApplied
  <2>5. Current'
    BY <2>1, <2>2, <2>3 DEF Goes, Current
  <2> QED BY <2>1, <2>4, <2>5 DEF InstalledInv, Goes
<1>6. CASE Links
  <2>1. PICK c \in Object : SameSpec(c, w.cur) /\ SameStatus(c, w.cur) /\ Patches(w.base, c)
    BY <1>6 DEF Links
  <2>2. Agrees(c, obj) /\ (c.providerID => obj.providerID)
    BY <2>1, <1>6, <1>d, <1>p DEF Links, Current, SameStatus, SameSpec, Agrees, SameRecord
  <2> QED BY <2>1, <2>2, <1>6, <1>b, <1>e, <1>i, PatchKeeps DEF Links
<1>7. CASE RecordsFailure
  <2>1. /\ w.pc = "count" /\ Patches(w.base, w.cur) /\ w.cur.state = "InFlight"
        /\ Agrees(w.cur, obj)
    BY <1>7, <1>d DEF RecordsFailure, Current
  <2>2. Agrees(obj', obj) /\ obj'.gen = obj.gen /\ obj'.desired = obj.desired
    BY <2>1, <1>b, <1>p, PatchKeeps
  <2>3. CASE Goes("fail", w.cur)
    <3>1. Current'
      BY <2>1, <2>2, <2>3, <1>c DEF Goes, Current, Agrees, SameRecord
    <3> QED BY <2>2, <2>3, <3>1, <1>e DEF InstalledInv, Goes
  <2>4. CASE w' = Idle
    BY <2>2, <2>4, <1>e, <1>i
  <2> QED BY <1>7, <2>1, <2>3, <2>4, UnsetIsApart DEF RecordsFailure
<1>8. CASE MarksFailed
  <2>1. /\ w.pc = "fail" /\ w'.pc = "reset" /\ GivenUp(w'.cur, w.cur) /\ Merged(w.cur, w'.cur, obj')
    BY <1>8 DEF MarksFailed, Patches
  <2>2. /\ w.cur.attemptGen = obj.attemptGen /\ w.cur.state = "InFlight"
        /\ w.cur.gen = obj.gen /\ w.cur.desired = obj.desired
    BY <2>1, <1>a, <1>d DEF Current, StateInv
  <2>3. /\ obj'.gen = obj.gen /\ obj'.desired = obj.desired /\ obj'.state = "Failed"
        /\ obj'.attemptGen = obj.gen
    BY <2>1, <2>2, <1>p DEF Merged, GivenUp, SameSpec
  <2>4. Current' /\ Recorded'
    BY <2>1, <2>2, <2>3, <1>v DEF Current, Recorded, GivenUp, SameSpec
  <2> QED BY <2>1, <2>4 DEF InstalledInv
<1>9. CASE Resets
  <2>1. /\ w.pc = "reset" /\ w'.pc = "clear" /\ UNCHANGED obj /\ SameSpec(w'.cur, w.cur)
    BY <1>9 DEF Resets
  <2>2. Current'
    BY <2>1, <1>d DEF Current, SameSpec
  <2> QED BY <2>1, <2>2, <1>u DEF InstalledInv
<1>10. CASE Ends
  <2>1. w.pc \in {"stash", "poll", "clear"} /\ Patches(w.base, w.cur) /\ w' = Idle
    BY <1>10, <1>d DEF Ends
  <2>2. CASE w.pc = "poll"
    BY <2>1, <2>2, <1>b, <1>d, <1>e, <1>i, <1>p, PatchKeeps DEF Current
  <2>3. CASE w.pc = "stash"
    <3>1. w.cur.state = "InFlight" /\ w.base.state # "InFlight" /\ w.cur.ready /\ obj.ready
      BY <2>3, <1>a DEF StateInv, CopyInv
    <3>2. obj'.state = "InFlight"
      BY <2>1, <3>1 DEF Patches, Merged
    <3>3. obj'.ready = IF w.cur.ready = w.base.ready THEN obj.ready ELSE w.cur.ready
      BY <2>1 DEF Patches, Merged
    <3>4. Recorded'
      BY <3>1, <3>2, <3>3, <1>r, <1>v DEF Recorded
    <3> QED BY <2>1, <3>4, <1>i
  <2>4. CASE w.pc = "clear"
    <3>1. /\ w.cur.state = w.base.state /\ SameRecord(w.cur, w.base) /\ obj.state = "Failed"
          /\ obj.attemptGen = obj.gen
      BY <2>4, <1>a, <1>d DEF StateInv, Current
    <3>2. obj'.state = "Failed" /\ obj'.attemptGen = obj'.gen
      BY <2>1, <3>1, <1>p DEF Patches, Merged, SameRecord
    <3> QED BY <2>1, <3>2, <1>i, <1>v DEF Recorded
  <2> QED BY <2>1, <2>2, <2>3, <2>4
<1>11. CASE Halts \/ LosesReset
  BY <1>11, <1>i, <1>u DEF Halts, LosesReset
<1>12. ~(Applies \/ MarksSpec \/ MarksStatus \/ LosesSpec \/ MarksRest \/ Retriggers \/ Issues
         \/ MarksInFlight \/ FailsInstall)
  BY <1>d DEF Applies, MarksSpec, MarksStatus, LosesSpec, MarksRest, Retriggers, Issues, MarksInFlight,
     FailsInstall
<1> QED BY <1>1, <1>2, <1>3, <1>4, <1>5, <1>6, <1>7, <1>8, <1>9, <1>10, <1>11, <1>12 DEF ReconcileEffect

\* The generation of the object grows with an edit and with the provider ID, and a
\* reconcile that goes on keeps the generation of its copy.
LEMMA GenerationMoves ==
  ASSUME UpgradeInv, UpgradeInv', GenerationInv, Effect
  PROVE  /\ GenerationInv'
         /\ obj.gen <= obj'.gen
         /\ w'.pc \in EarlySteps => \/ w.pc \in EarlySteps /\ w'.cur.gen = w.cur.gen
                                    \/ w.pc = "idle" /\ w'.cur.gen = obj.gen
         /\ obj'.gen # obj.gen => w.pc = "markSpec" \/ Edited
<1> DEFINE Good == /\ GenerationInv' /\ obj.gen <= obj'.gen
                   /\ w'.pc \in EarlySteps => \/ w.pc \in EarlySteps /\ w'.cur.gen = w.cur.gen
                                              \/ w.pc = "idle" /\ w'.cur.gen = obj.gen
                   /\ obj'.gen # obj.gen => w.pc = "markSpec" \/ Edited
<1> SUFFICES Good
  OBVIOUS
<1>a. CopyInv /\ StateInv
  BY DEF UpgradeInv
<1>n. obj.gen \in Nat /\ obj.gen >= 1 /\ w.cur.gen \in Nat /\ obj'.gen \in Nat /\ obj'.gen >= 1
  BY GenerationsAreNumbers, CopyFields DEF UpgradeInv, TypeOK, Work
<1>m. \A base, c : Patches(base, c) =>
        /\ obj'.desired = obj.desired
        /\ obj'.gen = IF c.providerID /\ ~obj.providerID THEN obj.gen + 1 ELSE obj.gen
        /\ obj'.attemptGen = IF c.attemptGen = base.attemptGen THEN obj.attemptGen ELSE c.attemptGen
  BY DEF Patches, Merged
<1>p. w.cur.providerID => obj.providerID
  BY <1>a DEF CopyInv
<1>i. w' = Idle => w'.pc = "idle" /\ w'.cur.gen = 1
  <2>1. NoImage \in Images \cup {NoImage}
    OBVIOUS
  <2> QED BY <2>1, IdleTyped, NewObjectTyped
<1> USE DEF EarlySteps, AdoptingSteps, GenerationInv
<1>1. CASE Begins
  BY <1>1, <1>i, <1>n DEF Begins, Decides, Restarted, Completed, SameSpec, SameRecord
<1>2. CASE Applies \/ LosesSpec \/ FailsInstall \/ LosesInstall \/ PollsBootID \/ Mirrors
  BY <1>2, <1>n DEF Applies, LosesSpec, FailsInstall, LosesInstall, PollsBootID, Mirrors, Goes
<1>3. CASE MarksSpec
  BY <1>3, <1>m, <1>n DEF MarksSpec, SameStatus, SameRecord
<1>4. CASE MarksStatus
  <2>1. PICK c \in Object : /\ SameSpec(c, w.cur) /\ SameRecord(c, w.cur)
                            /\ Patches(w.base, c) /\ Decides(w.base, c)
    BY <1>4 DEF MarksStatus
  <2>2. w.pc = "markStatus"
    BY <1>4 DEF MarksStatus
  <2>3. obj'.gen = obj.gen /\ obj'.desired = obj.desired /\ obj'.attemptGen = obj.attemptGen
    BY <2>1, <2>2, <1>m, <1>p DEF SameSpec, SameRecord
  <2> QED BY <2>1, <2>2, <2>3, <1>i, <1>n DEF Decides, Restarted, Completed, SameSpec, SameRecord
<1>5. CASE MarksRest
  <2>1. PICK c \in Object : SameSpec(c, w.cur) /\ Patches(w.base, c)
    BY <1>5 DEF MarksRest
  <2>2. w' = Idle
    BY <1>5 DEF MarksRest
  <2> QED BY <2>1, <2>2, <1>i, <1>m, <1>n, <1>p DEF SameSpec
<1>6. CASE Retriggers
  BY <1>6, <1>i, <1>m, <1>n, <1>p DEF Retriggers, Decides, Restarted, Completed, SameSpec, SameRecord
<1>7. CASE Issues
  BY <1>7, <1>n DEF Issues, Issued, SameSpec
<1>8. CASE MarksInFlight \/ MarksComplete
  BY <1>8, <1>m, <1>n, <1>p DEF MarksInFlight, MarksComplete, Goes
<1>9. CASE Installs \/ Completes \/ PollsVersion \/ Counts
  BY <1>9, <1>n DEF Installs, Completes, Completed, PollsVersion, Counts, SameSpec
<1>10. CASE RecordsFailure
  BY <1>10, <1>i, <1>m, <1>n, <1>p DEF RecordsFailure, Goes, GivenUp, SameSpec
<1>11. CASE MarksFailed
  BY <1>11, <1>m, <1>n, <1>p DEF MarksFailed, GivenUp, SameSpec
<1>12. CASE Resets
  BY <1>12, <1>n DEF Resets, SameSpec
<1>13. CASE Links
  <2>1. PICK c \in Object : SameSpec(c, w.cur) /\ Patches(w.base, c)
    BY <1>13 DEF Links
  <2>2. w' = Idle
    BY <1>13 DEF Links
  <2> QED BY <2>1, <2>2, <1>i, <1>m, <1>n, <1>p DEF SameSpec
<1>14. CASE Ends \/ Halts \/ LosesReset
  BY <1>14, <1>i, <1>m, <1>n, <1>p DEF Ends, Halts, LosesReset
<1>15. CASE NodeMoves \/ UNCHANGED <<obj, node, w, installs>>
  BY <1>15, <1>n DEF NodeMoves
<1>16. CASE Edited
  BY <1>16, <1>n DEF Edited, SameStatus, SameRecord
<1> QED BY <1>1, <1>2, <1>3, <1>4, <1>5, <1>6, <1>7, <1>8, <1>9, <1>10, <1>11, <1>12, <1>13, <1>14,
           <1>15, <1>16 DEF Effect, ReconcileEffect

\* A step that installs leaves the installation on record.
LEMMA InstallRecorded ==
  ASSUME UpgradeInv, GenerationInv, Installs \/ LosesInstall, obj.gen = w.cur.gen
  PROVE  InstalledInv'
<1>1. w.pc = "upgrade" /\ UNCHANGED obj /\ w'.pc \in {"stash", "fail"}
  BY DEF Installs, LosesInstall, Goes
<1>2. obj.state = "InFlight" /\ obj.ready /\ obj.providerID
  BY <1>1 DEF UpgradeInv, StateInv, CopyInv, ProviderInv
<1>3. obj.attemptGen = w.cur.attemptGen /\ w.cur.desired = obj.desired
  BY <1>1 DEF GenerationInv
<1>4. w'.pc = "fail" => w'.cur = w.cur
  BY DEF Installs, LosesInstall, Goes
<1> QED BY <1>1, <1>2, <1>3, <1>4 DEF InstalledInv, Recorded, Current, EarlySteps, AdoptingSteps,
           PollSteps

\* What is on record stays there while the object keeps its generation.
LEMMA RecordStays ==
  ASSUME UpgradeInv, UpgradeInv', InstalledInv, Effect, obj'.gen = obj.gen
  PROVE  InstalledInv'
<1>1. CASE ReconcileEffect
  BY <1>1, InstalledStep
<1>2. CASE Installs \/ LosesInstall
  BY <1>2 DEF Installs, LosesInstall, InstalledInv, EarlySteps
<1>3. CASE NodeMoves \/ UNCHANGED <<obj, node, w, installs>>
  BY <1>3 DEF NodeMoves, InstalledInv, Recorded, Current, Agrees, SameRecord, upgradeAlreadyApplied
<1>4. ~Edited
  <2>1. obj.gen \in Nat
    BY GenerationsAreNumbers, CopyFields DEF UpgradeInv, TypeOK
  <2> QED BY <2>1 DEF Edited
<1> QED BY <1>1, <1>2, <1>3, <1>4 DEF Effect

\* No step installs a second time for one generation.
LEMMA NextInstalls ==
  ASSUME UpgradeInv, UpgradeInv', InstallsInv, Effect
  PROVE  InstallsInv'
<1>a. GenerationInv
  BY DEF InstallsInv
<1>1. /\ GenerationInv' /\ obj.gen <= obj'.gen
      /\ w'.pc \in EarlySteps => \/ w.pc \in EarlySteps /\ w'.cur.gen = w.cur.gen
                                 \/ w.pc = "idle" /\ w'.cur.gen = obj.gen
  BY <1>a, GenerationMoves
<1>2. ASSUME NEW g \in Generations, installs'[g] >= 1
      PROVE  /\ installs'[g] = 1 /\ g <= obj'.gen
             /\ w'.pc \in EarlySteps => w'.cur.gen # g
             /\ obj'.gen = g => InstalledInv'
  <2>n. /\ g \in Nat /\ obj.gen \in Nat /\ obj'.gen \in Nat /\ w.cur.gen \in Generations
        /\ installs \in [Generations -> Nat]
    BY GenerationsAreNumbers, CopyFields DEF UpgradeInv, TypeOK, Work
  <2>1. CASE installs[g] >= 1 /\ installs'[g] = installs[g]
    <3>1. /\ installs[g] = 1 /\ g <= obj.gen
          /\ w.pc \in EarlySteps => w.cur.gen # g
          /\ obj.gen = g => InstalledInv
      BY <2>1 DEF InstallsInv
    <3>2. obj'.gen = g => obj'.gen = obj.gen /\ InstalledInv
      BY <1>1, <2>n, <3>1
    <3>3. w.pc = "idle" /\ w'.pc \in EarlySteps => obj.gen # g
      <4> SUFFICES ASSUME w.pc = "idle", w'.pc \in EarlySteps, obj.gen = g PROVE FALSE
        OBVIOUS
      <4>1. Begins
        <5>1. w' # w
          BY DEF EarlySteps, AdoptingSteps
        <5> QED BY <5>1, IdleTyped DEF Effect, ReconcileEffect, Applies, MarksSpec, MarksStatus,
                   LosesSpec,
               MarksRest, Retriggers, Issues, MarksInFlight, FailsInstall, PollsBootID, Completes,
               PollsVersion, MarksComplete, Mirrors, Links, Counts, RecordsFailure, MarksFailed, Resets,
               LosesReset, Ends, Halts, Installs, LosesInstall, NodeMoves, Edited, EarlySteps, AdoptingSteps
      <4>2. obj'.gen = obj.gen
        BY <4>1 DEF Begins
      <4>3. InstalledInv'
        BY <3>1, <4>2, RecordStays
      <4> QED BY <4>3 DEF InstalledInv
    <3> QED BY <1>1, <2>1, <2>n, <3>1, <3>2, <3>3, RecordStays
  <2>2. CASE (Installs \/ LosesInstall) /\ CountInstall /\ g = w.cur.gen
    <3>1. w.pc = "upgrade" /\ UNCHANGED obj /\ w'.pc \in {"stash", "fail"}
      BY <2>2 DEF Installs, LosesInstall, Goes
    <3>2. ~(installs[g] >= 1)
      BY <2>2, <3>1 DEF InstallsInv, EarlySteps
    <3>3. installs'[g] = 1
      BY <2>2, <2>n, <3>2 DEF CountInstall
    <3>4. g <= obj'.gen
      BY <1>a, <2>2, <3>1 DEF GenerationInv
    <3>5. obj'.gen = g => InstalledInv'
      BY <1>a, <2>2, <3>1, InstallRecorded
    <3> QED BY <3>1, <3>3, <3>4, <3>5 DEF EarlySteps, AdoptingSteps
  <2>3. CASE (Installs \/ LosesInstall) /\ CountInstall /\ g # w.cur.gen
    BY <1>2, <2>1, <2>3, <2>n DEF CountInstall
  <2>4. CASE installs' = installs
    BY <1>2, <2>1, <2>4
  <2> QED BY <2>2, <2>3, <2>4 DEF Effect
<1> QED BY <1>1, <1>2 DEF InstallsInv

\* upgradeAlreadyApplied and "install already succeeded; never re-run it": whatever
\* crashes, failed probes, installs whose answer is lost, denied boot ids, failed
\* resets and edits in the middle of an upgrade do to a reconcile working on a stale
\* copy, the node gets at most one install for each generation of the machine.
THEOREM OneInstallPerGeneration == Spec => []InstallsOncePerGeneration
<1>1. Init => InstallsInv
  <2> SUFFICES ASSUME Init PROVE InstallsInv
    OBVIOUS
  <2>1. PICK i \in Images \cup {NoImage} : obj = NewObject(i)
    BY DEF Init
  <2>2. obj.gen = 1
    BY <2>1, NewObjectTyped
  <2>3. w.pc = "idle" /\ w.cur.gen = 1
    <3>1. w = Idle /\ NoImage \in Images \cup {NoImage}
      BY DEF Init
    <3> QED BY <3>1, IdleTyped, NewObjectTyped
  <2>4. \A g \in Generations : ~(installs[g] >= 1)
    BY DEF Init
  <2>5. GenerationInv
    BY <2>2, <2>3 DEF GenerationInv, EarlySteps, AdoptingSteps
  <2> QED BY <2>4, <2>5 DEF InstallsInv
<1>2. UpgradeInv /\ InstallsInv /\ [Next]_vars => UpgradeInv' /\ InstallsInv'
  BY NextUpgrade, NextInstalls
<1>3. UpgradeInv /\ InstallsInv => InstallsOncePerGeneration
  <2> SUFFICES ASSUME UpgradeInv, InstallsInv, NEW g \in Generations PROVE installs[g] <= 1
    BY DEF InstallsOncePerGeneration
  <2>1. installs[g] \in Nat
    BY DEF UpgradeInv, TypeOK
  <2>2. installs[g] >= 1 => installs[g] = 1
    BY DEF InstallsInv
  <2> QED BY <2>1, <2>2
<1> QED BY <1>1, <1>2, <1>3, InitUpgrade, PTL DEF Spec

-----------------------------------------------------------------------------
(* A completed upgrade runs its image.                                     *)

\* No reconcile is cut off, no edit comes while one is under way, and the calls that
\* read the boot id and reset a healthy node do not fail.
UpgradeUndisturbed ==
  Faults \cap {"Abort", "EditInFlight", "BootIDDenied", "ResetFails"} = {}

\* A boot id the node has left behind, or is about to: no reboot that follows is
\* mistaken for one that came before it.
Behind(id) == id < node.boot \/ (id = node.boot /\ ~node.up)

\* The node has the image on its disk, and runs it if it is past the boot id.
Installed(id) ==
  id # NoBootID /\ node.disk = obj.desired /\ (node.boot = id \/ node.running = obj.desired)

\* The copy is in step with the object: an upgrade under way is one whose image is
\* on the disk and whose boot id was written; before one, every recorded boot id is
\* behind the node.
InStep ==
  /\ w.pc # "idle" => w.cur.desired = obj.desired
  /\ w.pc \notin {"idle", "retrigger", "inFlight", "giveUp", "complete"} => w.cur.state = obj.state
  /\ w.pc = "retrigger" => obj.state = "Failed"
  /\ w.pc \in {"inFlight", "giveUp"} => obj.state = Unset
  /\ w.pc = "giveUp" => w.cur.state = "Failed"
  /\ w.pc \in AdoptingSteps \cup {"mirror", "link"} => obj.state # "InFlight"
  /\ obj.state = "InFlight" => obj.ready
BootIDs ==
  /\ node.boot >= 1 /\ obj.bootID <= node.boot /\ w.cur.bootID <= node.boot
  /\ obj.state # "InFlight" /\ w.pc # "reset" => Behind(obj.bootID)
  /\ obj.state # "InFlight" /\ w.pc \notin {"idle", "reset"} => Behind(w.cur.bootID)
  /\ w.pc \in AdoptingSteps \cup {"retrigger", "probe", "inFlight", "upgrade"} => Behind(w.base.bootID)
  /\ w.pc = "stash" => Installed(w.cur.bootID) /\ w.cur.bootID # w.base.bootID
  /\ obj.state = "InFlight" /\ w.pc \notin {"upgrade", "stash", "fail"} => Installed(obj.bootID)
Polling ==
  /\ w.pc # "pollVersion"
  /\ w.pc \in PollSteps \/ (w.pc \in {"count", "complete"} /\ obj.state = "InFlight") =>
       /\ w.base.state = "InFlight" /\ w.base.bootID = obj.bootID /\ w.base.appliedRef = obj.appliedRef
  /\ w.pc \in PollSteps \/ (w.pc = "count" /\ obj.state = "InFlight") => w.cur.bootID = obj.bootID
  /\ w.pc = "refresh" \/ (w.pc = "complete" /\ obj.state = "InFlight") => node.running = obj.desired
  /\ w.pc = "complete" => /\ w.cur.state = Unset /\ w.cur.appliedRef = w.cur.desired
                          /\ w.cur.bootID = NoBootID /\ obj.state \in {Unset, "InFlight"}
\* An upgrade is issued to a node that answers, hence to a configured one, and is over
\* before the node is reset.
Served == obj.state = "InFlight" \/ w.pc \in {"inFlight", "reset"} => node.config
CompletionInv == InStep /\ BootIDs /\ Polling /\ Served

\* Readiness is taken back by ClearReady alone.
LEMMA ReadyStays ==
  ASSUME UpgradeInv, UpgradeInv', Effect
  PROVE  obj.ready /\ w.pc # "clear" => obj'.ready
<1> SUFFICES ASSUME obj.ready, w.pc # "clear" PROVE obj'.ready
  OBVIOUS
<1>a. CopyInv /\ StateInv
  BY DEF UpgradeInv
<1>b. w.base \in Object /\ w.cur \in Object /\ w'.cur \in Object
  BY DEF UpgradeInv, TypeOK, Work
<1>c. /\ obj.ready \in BOOLEAN /\ w.base.ready \in BOOLEAN /\ w.cur.ready \in BOOLEAN
      /\ w'.cur.ready \in BOOLEAN
  BY <1>b, Copies, CopyFields DEF UpgradeInv
<1>1. ASSUME NEW base \in Object, NEW c \in Object, Patches(base, c), base.ready => c.ready
      PROVE  obj'.ready
  <2>1. obj'.ready = IF c.ready = base.ready THEN obj.ready ELSE c.ready
    BY <1>1 DEF Patches, Merged
  <2>2. c.ready \in BOOLEAN /\ base.ready \in BOOLEAN
    BY CopyFields
  <2> QED BY <1>1, <1>c, <2>1, <2>2
<1>3. w.base.ready => w.cur.ready
  BY <1>a DEF CopyInv
<1>4. CASE UNCHANGED obj
  BY <1>4
<1>5. CASE MarksSpec
  <2>1. Patches(w.base, w'.cur) /\ w'.cur.ready = w.cur.ready
    BY <1>5 DEF MarksSpec, SameStatus
  <2> QED BY <2>1, <1>1, <1>b, <1>3
<1>6. CASE MarksStatus \/ MarksRest
  <2>1. PICK c \in Object : c.ready /\ Patches(w.base, c)
    BY <1>6 DEF MarksStatus, MarksRest
  <2> QED BY <2>1, <1>1, <1>b
<1>7. CASE Patches(w.base, w.cur)
  BY <1>7, <1>1, <1>b, <1>3
<1>8. CASE Links
  <2>1. PICK c \in Object : SameStatus(c, w.cur) /\ Patches(w.base, c)
    BY <1>8 DEF Links
  <2> QED BY <2>1, <1>1, <1>b, <1>3 DEF SameStatus
<1>9. CASE MarksFailed
  <2>1. Patches(w.cur, w'.cur) /\ w'.cur.ready = w.cur.ready
    BY <1>9 DEF MarksFailed, GivenUp
  <2> QED BY <2>1, <1>1, <1>b
<1>10. CASE Edited
  BY <1>10 DEF Edited, SameStatus
<1> QED BY <1>4, <1>5, <1>6, <1>7, <1>8, <1>9, <1>10 DEF Effect, ReconcileEffect, Begins, Applies,
           Retriggers,
      Issues, MarksInFlight, Installs, FailsInstall, LosesInstall, PollsBootID, Completes, PollsVersion,
      MarksComplete, Mirrors, Counts, RecordsFailure, Resets, LosesSpec, LosesReset, Ends, Halts, NodeMoves

\* What the completion invariant needs of a patch.
PatchedFields(base, c) ==
  /\ obj'.desired = obj.desired
  /\ obj'.state = IF c.state = base.state THEN obj.state ELSE c.state
  /\ obj'.appliedRef = IF c.appliedRef = base.appliedRef THEN obj.appliedRef ELSE c.appliedRef
  /\ obj'.bootID = IF c.bootID = base.bootID THEN obj.bootID ELSE c.bootID

\* Served, through every effect: only a reset takes the configuration off a node.
LEMMA ServedStep ==
  ASSUME UpgradeInv, InStep, Polling, Served, "Abort" \notin Faults, Effect
  PROVE  Served'
<1>a. StateInv
  BY DEF UpgradeInv
<1>i. w' = Idle => w'.pc = "idle"
  BY IdleTyped
<1>p. \A base, c : Patches(base, c) => PatchedFields(base, c)
  BY DEF Patches, Merged, PatchedFields
<1> USE DEF AdoptingSteps, PollSteps, InStep, Served
<1>1. CASE Resets \/ LosesReset
  BY <1>1, <1>a, <1>i DEF Resets, LosesReset, StateInv
<1>2. CASE MarksInFlight
  BY <1>2 DEF MarksInFlight, Goes
<1>3. CASE Issues
  BY <1>3 DEF Issues
<1>4. CASE MarksFailed
  BY <1>4, <1>a, <1>p DEF MarksFailed, StateInv, PatchedFields, GivenUp
<1>5. CASE ~(Resets \/ LosesReset \/ MarksInFlight \/ Issues \/ MarksFailed)
  <2>1. node.config => node'.config
    BY <1>5 DEF Effect, ReconcileEffect, Begins, Applies, MarksSpec, MarksStatus, Retriggers,
       Installs, FailsInstall, LosesInstall, LosesSpec, MarksRest, PollsBootID, Completes,
       PollsVersion, MarksComplete, Mirrors, Links, Counts, RecordsFailure, Ends, Halts, NodeMoves,
       Edited
  <2>2. w'.pc \notin {"inFlight", "reset"} \/ UNCHANGED w
    BY <1>5, <1>i DEF Effect, ReconcileEffect, Begins, Applies, MarksSpec, MarksStatus, Retriggers,
       Installs, FailsInstall, LosesInstall, LosesSpec, MarksRest, PollsBootID, Completes,
       PollsVersion, MarksComplete, Mirrors, Links, Counts, RecordsFailure, Ends, Halts, NodeMoves,
       Edited, Goes, Decides
  <2>3. obj'.state = "InFlight" => obj.state = "InFlight"
    <3>1. CASE Begins \/ Applies \/ LosesSpec \/ Installs \/ FailsInstall \/ LosesInstall \/ PollsBootID
               \/ Completes \/ PollsVersion \/ Mirrors \/ Counts \/ Halts \/ NodeMoves
               \/ UNCHANGED <<obj, node, w, installs>>
      BY <3>1 DEF Begins, Applies, LosesSpec, Installs, FailsInstall, LosesInstall, PollsBootID,
         Completes, PollsVersion, Mirrors, Counts, Halts, NodeMoves
    <3>2. CASE MarksSpec \/ MarksStatus \/ MarksRest
      BY <3>2, <1>a, <1>p DEF MarksSpec, MarksStatus, MarksRest, SameStatus, PatchedFields, StateInv
    <3>3. CASE Retriggers
      BY <3>3, <1>a, <1>p, UnsetIsApart DEF Retriggers, PatchedFields, StateInv
    <3>4. CASE MarksComplete
      BY <3>4, <1>p, UnsetIsApart DEF MarksComplete, Polling, PatchedFields
    <3>5. CASE Links
      BY <3>5, <1>p DEF Links, SameStatus, PatchedFields
    <3>6. CASE RecordsFailure
      BY <3>6, <1>p DEF RecordsFailure, PatchedFields
    <3>7. CASE Ends
      BY <3>7, <1>a, <1>p DEF Ends, PatchedFields, StateInv
    <3>8. CASE Edited
      BY <3>8 DEF Edited, SameStatus
    <3> QED BY <1>5, <3>1, <3>2, <3>3, <3>4, <3>5, <3>6, <3>7, <3>8 DEF Effect, ReconcileEffect
  <2> QED BY <2>1, <2>2, <2>3
<1> QED BY <1>1, <1>2, <1>3, <1>4, <1>5

\* Every effect preserves the invariant, and an upgrade that leaves InFlight for the
\* empty state leaves it with the recorded image running.
LEMMA CompletionStep ==
  ASSUME UpgradeUndisturbed, UpgradeInv, UpgradeInv', CompletionInv, Effect
  PROVE  /\ CompletionInv'
         /\ obj.state = "InFlight" /\ obj'.state = Unset => node.running = obj'.appliedRef
<1> DEFINE Good == /\ CompletionInv'
                   /\ obj.state = "InFlight" /\ obj'.state = Unset => node.running = obj'.appliedRef
<1> SUFFICES Good
  OBVIOUS
<1> HIDE DEF Good
<1>a. CopyInv /\ StateInv /\ InStep /\ BootIDs /\ Polling
  BY DEF UpgradeInv, CompletionInv
<1>v. obj.state = "InFlight" => obj.providerID
  BY UnsetIsApart DEF UpgradeInv, ProviderInv
<1>s. Served /\ Served'
  BY ServedStep DEF CompletionInv, UpgradeUndisturbed
<1>n. /\ obj.bootID \in Nat /\ w.cur.bootID \in Nat /\ w.base.bootID \in Nat /\ node.boot \in Nat
      /\ obj'.bootID \in Nat /\ w'.cur.bootID \in Nat /\ node'.boot \in Nat
  BY CopyFields DEF UpgradeInv, TypeOK, Work, Node
<1>d. node.disk # NoImage
  BY ImagesAssumption DEF UpgradeInv, TypeOK, Node
<1>f. "Abort" \notin Faults /\ "EditInFlight" \notin Faults /\ "BootIDDenied" \notin Faults
      /\ "ResetFails" \notin Faults
  BY DEF UpgradeUndisturbed
<1>r. obj.ready /\ w.pc # "clear" => obj'.ready
  BY ReadyStays
<1>p. \A base, c : Patches(base, c) => PatchedFields(base, c)
  BY DEF Patches, Merged, PatchedFields
<1>i. w' = Idle => w'.pc = "idle" /\ w'.cur.bootID = 0
  <2>1. NoImage \in Images \cup {NoImage}
    OBVIOUS
  <2> QED BY <2>1, IdleTyped, NewObjectTyped DEF NoBootID
<1> USE DEF AdoptingSteps, PollSteps, CompletionInv, InStep, BootIDs, Polling, Behind, Installed
<1>1. CASE Begins
  BY <1>1, <1>v, <1>a, <1>s, <1>d, <1>i, <1>n, <1>p, <1>r, UnsetIsApart DEF Good, StateInv, CopyInv, PatchedFields,
     Begins, Decides, Restarted, Completed, SameSpec, NoBootID
<1>2. CASE Applies
  BY <1>2, <1>a, <1>s, <1>n, <1>r, UnsetIsApart DEF Good, Applies, Goes
<1>3. CASE MarksSpec
  BY <1>3, <1>a, <1>s, <1>n, <1>p, <1>r, UnsetIsApart DEF Good, MarksSpec, SameStatus, SameRecord,
     PatchedFields, StateInv
<1>4. CASE MarksStatus
  <2>1. PICK c \in Object :
          /\ SameSpec(c, w.cur) /\ c.state = w.cur.state
          /\ c.bootID = w.cur.bootID /\ Patches(w.base, c) /\ Decides(w.base, c)
    BY <1>4 DEF MarksStatus
  <2>2. w.pc = "markStatus" /\ UNCHANGED node
    BY <1>4 DEF MarksStatus
  <2> QED BY <2>1, <2>2, <1>a, <1>s, <1>i, <1>n, <1>p, <1>r, UnsetIsApart DEF Good, StateInv, CopyInv,
             PatchedFields, Decides, Restarted, Completed, SameSpec, NoBootID
<1>5. CASE Retriggers
  BY <1>5, <1>a, <1>s, <1>i, <1>n, <1>p, <1>r, UnsetIsApart DEF Good, StateInv, CopyInv, PatchedFields,
     Retriggers, Decides, Restarted, Completed, SameSpec, NoBootID
<1>6. CASE Issues
  BY <1>6, <1>a, <1>s, <1>n, UnsetIsApart DEF Good, Issues, Issued, SameSpec, StateInv, NoBootID
<1>7. CASE MarksInFlight
  BY <1>7, <1>a, <1>s, <1>i, <1>n, <1>p, <1>r, UnsetIsApart DEF Good, StateInv, CopyInv, PatchedFields,
     MarksInFlight, Goes
<1>8. CASE Installs
  BY <1>8, <1>f, <1>a, <1>s, <1>i, <1>n, <1>p, <1>r, UnsetIsApart DEF Good, StateInv, CopyInv, PatchedFields,
     Installs, Answers, SameSpec, NoBootID
<1>9. CASE FailsInstall
  BY <1>9, <1>a, <1>s, <1>n, UnsetIsApart DEF Good, FailsInstall, Goes, StateInv
<1>10. CASE PollsBootID
  BY <1>10, <1>a, <1>s, <1>n, <1>f, UnsetIsApart DEF Good, PollsBootID, Goes, StateInv
<1>11. CASE Completes
  BY <1>11, <1>a, <1>s, <1>n, UnsetIsApart DEF Good, Completes, Completed, SameSpec, StateInv, NoBootID
<1>12. ~PollsVersion
  BY <1>a DEF PollsVersion
<1>13. CASE MarksComplete
  BY <1>13, <1>a, <1>s, <1>i, <1>n, <1>p, <1>r, UnsetIsApart DEF Good, StateInv, CopyInv, PatchedFields,
     MarksComplete, Goes, NoBootID
<1>14. CASE Mirrors
  BY <1>14, <1>a, <1>s, <1>n, UnsetIsApart DEF Good, Mirrors, Goes, StateInv
<1>15. CASE Links
  <2>1. PICK c \in Object : SameSpec(c, w.cur) /\ SameStatus(c, w.cur) /\ Patches(w.base, c)
    BY <1>15 DEF Links
  <2>2. w.pc = "link" /\ UNCHANGED node /\ w' = Idle
    BY <1>15 DEF Links
  <2> QED BY <2>1, <2>2, <1>a, <1>s, <1>i, <1>n, <1>p, <1>r, UnsetIsApart DEF Good, StateInv, CopyInv,
             PatchedFields, SameStatus
<1>16. CASE Counts
  BY <1>16, <1>a, <1>s, <1>n, UnsetIsApart DEF Good, Counts, SameSpec, SameStatus, StateInv
<1>17. CASE RecordsFailure
  BY <1>17, <1>a, <1>s, <1>i, <1>n, <1>p, <1>r, UnsetIsApart DEF Good, StateInv, CopyInv, PatchedFields,
     RecordsFailure, Goes, GivenUp, SameSpec
<1>18. CASE MarksFailed
  BY <1>18, <1>a, <1>s, <1>i, <1>n, <1>p, <1>r, UnsetIsApart DEF Good, StateInv, CopyInv, PatchedFields,
     MarksFailed, GivenUp, SameSpec
<1>19. CASE Resets
  BY <1>19, <1>a, <1>s, <1>n, UnsetIsApart DEF Good, Resets, SameSpec, StateInv
<1>20. CASE Ends
  <2>1. w.pc \in {"stash", "poll", "giveUp", "clear"} /\ UNCHANGED node /\ Patches(w.base, w.cur) /\ w' = Idle
    BY <1>20 DEF Ends
  <2>2. CASE w.pc = "stash"
    BY <2>2, <2>1, <1>a, <1>s, <1>i, <1>n, <1>p, <1>r, UnsetIsApart DEF Good, StateInv, CopyInv, PatchedFields
  <2>3. CASE w.pc = "poll"
    BY <2>3, <2>1, <1>a, <1>s, <1>i, <1>n, <1>p, <1>r, UnsetIsApart DEF Good, StateInv, CopyInv, PatchedFields
  <2>4. CASE w.pc = "giveUp"
    BY <2>4, <2>1, <1>a, <1>s, <1>i, <1>n, <1>p, <1>r, UnsetIsApart DEF Good, StateInv, CopyInv, PatchedFields
  <2>5. CASE w.pc = "clear"
    BY <2>5, <2>1, <1>a, <1>s, <1>i, <1>n, <1>p, <1>r, UnsetIsApart DEF Good, StateInv, CopyInv, PatchedFields
  <2> QED BY <2>1, <2>2, <2>3, <2>4, <2>5
<1>21. CASE Halts
  BY <1>21, <1>f, <1>a, <1>s, <1>i, <1>n, <1>p, <1>r, UnsetIsApart DEF Good, StateInv, CopyInv, PatchedFields,
     Halts, Answers, Served
<1>22. CASE NodeMoves
  BY <1>22, <1>a, <1>s, <1>n, UnsetIsApart DEF Good, NodeMoves, StateInv
<1>23. CASE Edited
  BY <1>23, <1>a, <1>s, <1>n, <1>f, <1>r, UnsetIsApart DEF Good, Edited, SameStatus, SameRecord
<1>24. CASE UNCHANGED <<obj, node, w, installs>>
  BY <1>24, <1>a, <1>s, UnsetIsApart DEF Good
<1>25. CASE LosesSpec
  BY <1>25, <1>a, <1>s, <1>n, UnsetIsApart DEF Good, LosesSpec, Goes
<1>26. CASE MarksRest
  <2>1. PICK c \in Object : c.state = w.cur.state /\ c.bootID = w.cur.bootID /\ Patches(w.base, c)
    BY <1>26 DEF MarksRest
  <2>2. w.pc = "markRest" /\ UNCHANGED node /\ w' = Idle
    BY <1>26 DEF MarksRest
  <2> QED BY <2>1, <2>2, <1>a, <1>s, <1>i, <1>n, <1>p, <1>r, UnsetIsApart DEF Good, StateInv, CopyInv,
             PatchedFields
<1>27. CASE LosesInstall
  BY <1>27, <1>a, <1>s, <1>n, UnsetIsApart DEF Good, LosesInstall, Goes, StateInv
<1>28. CASE LosesReset
  BY <1>28, <1>a, <1>s, <1>i, <1>n, UnsetIsApart DEF Good, LosesReset, StateInv
<1> QED BY <1>1, <1>2, <1>3, <1>4, <1>5, <1>6, <1>7, <1>8, <1>9, <1>10, <1>11, <1>12, <1>13, <1>14,
           <1>15, <1>16, <1>17, <1>18, <1>19, <1>20, <1>21, <1>22, <1>23, <1>24, <1>25, <1>26, <1>27,
           <1>28 DEF Effect, ReconcileEffect

\* The completion gate (upgradeInFlightBootIDGate): an upgrade that ends in success
\* ended on a node that runs the image recorded as UpgradeAppliedImageRef.  The boot id
\* stashed by upgradeProbeAndIssue is one the node was still running under when the
\* image was installed, so a boot that differs from it is a boot from that image;
\* whatever the node's own reboots, failed probes, installs, reboots and updates of
\* the ByotHost do.
THEOREM CompletedRunsDesired ==
  ASSUME UpgradeUndisturbed
  PROVE  Spec => CompletesOnDesired
<1> DEFINE Inv == UpgradeInv /\ CompletionInv
<1>1. Init => Inv
  <2> SUFFICES ASSUME Init PROVE Inv
    OBVIOUS
  <2>1. PICK i \in Images \cup {NoImage} : obj = NewObject(i)
    BY DEF Init
  <2>2. obj.ready = FALSE /\ obj.state = "" /\ obj.bootID = 0
    BY <2>1, NewObjectTyped DEF NoBootID
  <2>3. w.pc = "idle" /\ w.cur.bootID = 0
    <3>1. w = Idle /\ NoImage \in Images \cup {NoImage}
      BY DEF Init
    <3> QED BY <3>1, IdleTyped, NewObjectTyped DEF NoBootID
  <2>4. node.boot = 1
    BY DEF Init
  <2>6. obj.state # "InFlight"
    BY <2>2
  <2>7. obj.bootID = 0
    BY <2>2
  <2>8. CompletionInv
    BY <2>3, <2>4, <2>6, <2>7
       DEF CompletionInv, InStep, BootIDs, Polling, Served, Behind, AdoptingSteps, PollSteps
  <2> QED BY <2>8, InitUpgrade
<1>2. Inv /\ [Next]_vars =>
        Inv' /\ (obj.state = "InFlight" /\ obj'.state = Unset => node.running = obj'.appliedRef)
  BY NextUpgrade, CompletionStep
<1>3. Inv /\ [Next]_vars =>
        Inv' /\ [obj.state = "InFlight" /\ obj'.state = "" => node.running = obj'.appliedRef]_vars
  BY <1>2 DEF Unset
<1> QED BY <1>1, <1>3, PTL DEF Spec, CompletesOnDesired
=============================================================================

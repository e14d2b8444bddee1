---------------------------- MODULE MachineConfig ----------------------------
(***************************************************************************)
(* How the Talos machine configuration is rewritten before it is applied:  *)
(* the install disk and the certificate SANs, injected into a stream of    *)
(* YAML documents (pkg/controller/talos_apply.go; resolveInstallDisk and   *)
(* injectHostCertSANs of byotmachine_controller.go).                       *)
(*                                                                         *)
(* A stream is a sequence of documents.  Of a document the rewriting reads *)
(* and writes whether it has a machine section and a cluster section, and  *)
(* in them install.disk, install.diskSelector and the two SAN lists; what  *)
(* else it says is its payload.                                            *)
(***************************************************************************)
EXTENDS Integers, Sequences, FiniteSetsExt, SequencesExt

NoDisk == "none"

Text == STRING
Document == [machine: BOOLEAN, cluster: BOOLEAN, disk: Text, diskSelector: BOOLEAN,
             certSANs: Seq(Text), apiSANs: Seq(Text), payload: Text]

\* A machine configuration: bytes that may or may not be YAML.
Config(parses, docs) == [parses |-> parses, docs |-> docs]

\* selectSystemDisk: the first system disk that is an md device, or else the
\* first system disk.  Names are paths: the prefix is normalised away.
selectSystemDisk(disks) ==
  LET system == {i \in DOMAIN disks : disks[i].system}
      raid == {i \in system : disks[i].raid}
  IN  IF raid # {} THEN disks[Min(raid)].name
      ELSE IF system # {} THEN disks[Min(system)].name ELSE NoDisk

\* resolveInstallDisk: the operator's spec.installDisk, or else what the node
\* reports, which is nothing when the node does not answer.
resolveInstallDisk(installDisk, detected) ==
  IF installDisk # NoDisk THEN installDisk ELSE detected

\* setInstallDisk: in every document with a machine section, unless the
\* document chooses a disk itself.
setInstallDisk(docs, disk) ==
  [i \in DOMAIN docs |->
     IF docs[i].machine /\ docs[i].disk = NoDisk /\ ~docs[i].diskSelector
       THEN [docs[i] EXCEPT !.disk = disk] ELSE docs[i]]

\* Mutant: the list is not searched first.
AppendAnyway(sans, ip) == Append(sans, ip)

\* containsStringAny and append: an address already listed is not listed again.
AppendSAN(sans, ip) == IF Contains(sans, ip) THEN sans ELSE Append(sans, ip)

setCertSANs(docs, ip) ==
  [i \in DOMAIN docs |->
     IF docs[i].machine THEN [docs[i] EXCEPT !.certSANs = AppendSAN(@, ip)] ELSE docs[i]]

setClusterAPIServerCertSANs(docs, ip) ==
  [i \in DOMAIN docs |->
     IF docs[i].cluster THEN [docs[i] EXCEPT !.apiSANs = AppendSAN(@, ip)] ELSE docs[i]]

\* The loops over the addresses: done[n] is the stream after n of them.
injectCertSANs(docs, ipAddresses) ==
  LET done[n \in 0..Len(ipAddresses)] ==
        IF n = 0 THEN docs ELSE setCertSANs(done[n - 1], ipAddresses[n])
  IN  done[Len(ipAddresses)]

injectClusterAPIServerCertSANs(docs, ipAddresses) ==
  LET done[n \in 0..Len(ipAddresses)] ==
        IF n = 0 THEN docs ELSE setClusterAPIServerCertSANs(done[n - 1], ipAddresses[n])
  IN  done[Len(ipAddresses)]

injectHostCertSANs(docs, endpoints) ==
  injectClusterAPIServerCertSANs(injectCertSANs(docs, endpoints), endpoints)

\* The documents that are applied, from the documents of the bootstrap secret.
Rewrite(docs, disk, endpoints) ==
  injectHostCertSANs(IF disk = NoDisk THEN docs ELSE setInstallDisk(docs, disk), endpoints)

-----------------------------------------------------------------------------
(* What the rewriting promises.                                            *)

\* The list keeps the operator's addresses where they were and gains exactly
\* the endpoints it lacked, each of them once.
SANsExtended(old, new, endpoints) ==
  /\ IsPrefix(old, new)
  /\ ToSet(new) = ToSet(old) \cup ToSet(endpoints)
  /\ \A i, j \in (Len(old) + 1)..Len(new) : new[i] = new[j] => i = j
  /\ \A i \in (Len(old) + 1)..Len(new) : ~Contains(old, new[i])

\* One document: sections it lacks stay untouched, an operator's disk or disk
\* selector wins, and every other part is kept.
DocRewritten(old, new, disk, endpoints) ==
  /\ new.machine = old.machine /\ new.cluster = old.cluster
  /\ new.diskSelector = old.diskSelector /\ new.payload = old.payload
  /\ IF old.machine THEN SANsExtended(old.certSANs, new.certSANs, endpoints)
                    ELSE new.certSANs = old.certSANs
  /\ IF old.cluster THEN SANsExtended(old.apiSANs, new.apiSANs, endpoints)
                    ELSE new.apiSANs = old.apiSANs
  /\ new.disk = IF old.machine /\ old.disk = NoDisk /\ ~old.diskSelector THEN disk ELSE old.disk

\* The stream: no document is dropped, added or moved.
Rewritten(old, new, disk, endpoints) ==
  /\ Len(new) = Len(old)
  /\ \A i \in DOMAIN old : DocRewritten(old[i], new[i], disk, endpoints)
=============================================================================

------------------------------ MODULE HostFacts ------------------------------
(***************************************************************************)
(* Hardware discovery and label promotion as functions: what discoverHost  *)
(* makes of the answers of a node in maintenance mode, and the byot.io/    *)
(* labels applyDiscoveryLabels makes of a host's status                    *)
(* (pkg/controller/discovery.go).                                          *)
(*                                                                         *)
(* A node is its inventory: the version and hardware resources its API     *)
(* reports.  Reads of the COSI state and of /sys/devices/system/node are   *)
(* best-effort; those that failed are the set "lost".                      *)
(***************************************************************************)
EXTENDS Integers, Sequences, FiniteSets, SequencesExt, FiniteSetsExt

CONSTANTS
  None,           \* a nil pointer, or a label that is not set
  VendorNames,    \* gpuVendorNames: the PCI vendors that count as GPU vendors
  ModelTable,     \* gpuModelTable: model and memory of known <<vendor, device>> pairs
  PublicIP        \* spec.publicIP

-----------------------------------------------------------------------------
(* discoverHost.                                                           *)

\* The zero value of a Go string.
Blank == ""

\* Mutant: an unpopulated socket counts.
AnySocket(proc) == TRUE

\* Talos lists a Processor for every SMBIOS entry, populated or not.
Populated(proc) == proc.socket # Blank

OneCPU == [cores |-> 1, packages |-> 1, numaNodes |-> 1]

\* The loop over the processors: done[n] is what the first n of them add up to.
CountProcessors(procs) ==
  LET done[n \in 0..Len(procs)] ==
        IF n = 0 THEN [cores |-> 0, sockets |-> {}]
        ELSE IF Populated(procs[n])
          THEN [cores |-> done[n - 1].cores + procs[n].cores,
                sockets |-> done[n - 1].sockets \cup {procs[n].socket}]
          ELSE done[n - 1]
  IN  done[Len(procs)]

discoverCPU(inv, lost) ==
  LET found == CountProcessors(inv.processors) IN
  IF "processors" \in lost
    THEN OneCPU
    ELSE [OneCPU EXCEPT !.packages = IF found.sockets # {} THEN Cardinality(found.sockets) ELSE @,
                        !.cores = IF found.cores > 0 THEN found.cores ELSE @]

\* discoverNumaNodes runs after discoverCPU, which sets the whole record.
discoverNumaNodes(cpu, inv, lost) ==
  IF "numa" \notin lost /\ inv.numaNodes > 0 THEN [cpu EXCEPT !.numaNodes = inv.numaNodes] ELSE cpu

NoGPUFacts == [count |-> 0, vendor |-> Blank, device |-> Blank, model |-> Blank, memoryPerGPU |-> 0,
               totalMemory |-> 0, mixed |-> FALSE]

populateHomogeneousGPU(gpu, pair) ==
  LET named == [gpu EXCEPT !.vendor = VendorNames[pair[1]], !.device = pair[2]] IN
  IF pair \in DOMAIN ModelTable
    THEN [named EXCEPT !.model = ModelTable[pair].model,
                       !.memoryPerGPU = ModelTable[pair].memory,
                       !.totalMemory = gpu.count * ModelTable[pair].memory]
    ELSE named

\* Mutant: the first pair stands for all of them.
PopulateFirst(gpu, pairs) == populateHomogeneousGPU(gpu, CHOOSE p \in pairs : TRUE)

populateMixedGPU(gpu, pairs) ==
  LET vendors == {p[1] : p \in pairs} IN
  [gpu EXCEPT !.mixed = TRUE,
              !.vendor = IF Cardinality(vendors) = 1 THEN VendorNames[CHOOSE v \in vendors : TRUE] ELSE @]

\* Display-class devices of a known vendor.
IsGPU(dev) == dev.display /\ dev.vendor \in DOMAIN VendorNames

\* The loop over the devices: how many of the first n are GPUs, and the (vendor,
\* device) pairs among them.
CountGPUs(pci) ==
  LET done[n \in 0..Len(pci)] ==
        IF n = 0 THEN [count |-> 0, pairs |-> {}]
        ELSE IF IsGPU(pci[n])
          THEN [count |-> done[n - 1].count + 1,
                pairs |-> done[n - 1].pairs \cup {<<pci[n].vendor, pci[n].device>>}]
          ELSE done[n - 1]
  IN  done[Len(pci)]

discoverGPUs(inv, lost) ==
  LET found == CountGPUs(inv.pci)
      counted == [NoGPUFacts EXCEPT !.count = found.count]
  IN  IF "pci" \in lost \/ found.pairs = {} THEN None
      ELSE IF Cardinality(found.pairs) = 1
        THEN populateHomogeneousGPU(counted, CHOOSE p \in found.pairs : TRUE)
        ELSE populateMixedGPU(counted, found.pairs)

discoverPlatform(inv, lost) == IF "cmdline" \in lost THEN Blank ELSE inv.platform

\* discoverAddresses: IPv4, neither link-local nor loopback.
Routable(a) == a.inet4 /\ ~a.local /\ a.ip # Blank

ExternalIP(inv, lost) ==
  IF "addresses" \notin lost
       /\ \E i \in DOMAIN inv.addresses : Routable(inv.addresses[i]) /\ inv.addresses[i].ip = PublicIP
    THEN PublicIP ELSE Blank

\* The first private address that is not the public one.
Internal(a) == Routable(a) /\ a.ip # PublicIP /\ a.private
InternalIP(inv, lost) ==
  LET internal == {i \in DOMAIN inv.addresses : Internal(inv.addresses[i])} IN
  IF "addresses" \in lost \/ internal = {} THEN Blank ELSE inv.addresses[Min(internal)].ip

\* discoverIdentity: the SMBIOS fields (the UUID stands for all four) and the
\* MAC, read independently; an all-zero MAC is no MAC, and an identity of
\* which nothing is known is none.
discoverIdentity(inv, lost) ==
  LET uuid == IF "smbios" \in lost THEN Blank ELSE inv.uuid
      mac == IF "mac" \in lost \/ inv.mac = "zero" THEN Blank ELSE inv.mac
  IN  IF uuid = Blank /\ mac = Blank THEN None ELSE [uuid |-> uuid, mac |-> mac]

\* The entries of /sys/class/net but for the directory and the loopback, sorted.
discoverNetInterfaces(inv) == inv.interfaces \ {".", "lo", Blank}

\* What a successful discoverHost returns.  The version, the memory, the disks
\* and the interfaces are mandatory: losing one of them fails the discovery.
discoverHost(inv, lost) ==
  [version |-> inv.version, arch |-> inv.arch, platform |-> discoverPlatform(inv, lost),
   identity |-> discoverIdentity(inv, lost),
   hardware |-> [cpu |-> discoverNumaNodes(discoverCPU(inv, lost), inv, lost),
                 memory |-> inv.memory, disks |-> inv.disks, interfaces |-> discoverNetInterfaces(inv),
                 externalIP |-> ExternalIP(inv, lost), internalIP |-> InternalIP(inv, lost),
                 gpus |-> discoverGPUs(inv, lost)]]

-----------------------------------------------------------------------------
(* The promoted labels.                                                    *)

\* Sizes are counted in halves of a GiB; a rounded size is a number and a unit.
roundQuantity(size) ==
  LET gibs == (size + 1) \div 2 IN
  IF gibs >= 1024 THEN <<(gibs + 512) \div 1024, "T">> ELSE <<gibs, "G">>

diskTypeLabel(type) == IF type \in {"nvme", "ssd", "hdd", "sd"} THEN type ELSE None

\* Mutant: the raw members of an array count.
FirstDisk(disks) ==
  LET system == SelectSeq(disks, LAMBDA d : d.system) IN
  IF system = <<>> THEN None ELSE Head(system)

\* The loop over the disks returns at the first md device among the system
\* disks, and falls back on the first system disk.
systemDisk(disks) ==
  LET system == {i \in DOMAIN disks : disks[i].system}
      raid == {i \in system : disks[i].raid}
  IN  IF raid # {} THEN disks[Min(raid)]
      ELSE IF system # {} THEN disks[Min(system)] ELSE None

\* A label that is set only if there is something to say.
Unless(empty, value) == IF value = empty THEN None ELSE value

promoteGPULabels(l, gpus) ==
  [l EXCEPT !.gpuCount = Unless(0, gpus.count), !.gpuVendor = Unless(Blank, gpus.vendor),
            !.gpuModel = Unless(Blank, gpus.model)]

promoteHardwareLabels(l, hw) ==
  LET disk == systemDisk(hw.disks)
      sized == [l EXCEPT !.cpuCores = Unless(0, hw.cpu.cores),
                         !.memory = IF hw.memory = 0 THEN None ELSE roundQuantity(hw.memory),
                         !.diskType = IF disk = None THEN None ELSE diskTypeLabel(disk.type),
                         !.diskSize = IF disk = None \/ disk.size = 0 THEN None
                                      ELSE roundQuantity(disk.size)]
  IN  IF hw.gpus = None THEN sized ELSE promoteGPULabels(sized, hw.gpus)

\* The labels l, and on top of them the controller-managed ones of a host with
\* status s.
Promoted(l, s, failureDomain) ==
  LET plain == [l EXCEPT !.available = IF s.phase = "Available" THEN "true" ELSE None,
                         !.cpuArch = Unless(Blank, s.arch), !.talosVersion = Unless(Blank, s.version),
                         !.platform = Unless(Blank, s.platform),
                         !.failureDomain = Unless(Blank, failureDomain)]
  IN  IF s.hardware = None THEN plain ELSE promoteHardwareLabels(plain, s.hardware)

ManagedKeys == {"available", "cpuArch", "talosVersion", "platform", "failureDomain", "cpuCores",
                "memory", "diskType", "diskSize", "gpuCount", "gpuVendor", "gpuModel"}
=============================================================================

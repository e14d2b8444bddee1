----------------------------- MODULE MCDiscovery -----------------------------
(* A node that may have one kind of GPU, two kinds, or none.               *)
EXTENDS Discovery, TLC

Names == ("10de" :> "nvidia") @@ ("1002" :> "amd")
Models == (<<"10de", "2330">> :> [model |-> "h100-sxm5", memory |-> 160])
            @@ (<<"1002", "74a1">> :> [model |-> "mi300x", memory |-> 384])

Proc(socket, cores) == [socket |-> socket, cores |-> cores]
Dev(display, vendor, device) == [display |-> display, vendor |-> vendor, device |-> device]
Addr(ip, inet4, local, private) == [ip |-> ip, inet4 |-> inet4, local |-> local, private |-> private]
Disk(name, system, raid, type, size) ==
  [name |-> name, system |-> system, raid |-> raid, type |-> type, size |-> size]

\* Two sockets of which one is empty, two H100s beside a network card, a
\* mirror with its two members, a private address equal to the public one.
Uniform ==
  [version |-> "v1", arch |-> "amd64", platform |-> "metal",
   processors |-> <<Proc("", 0), Proc("CPU1", 8), Proc("CPU2", 8)>>, numaNodes |-> 2,
   pci |-> <<Dev(TRUE, "10de", "2330"), Dev(FALSE, "8086", "1572"), Dev(TRUE, "10de", "2330")>>,
   memory |-> 2047,
   disks |-> <<Disk("/dev/sda", TRUE, FALSE, "ssd", 3000), Disk("/dev/sdb", TRUE, FALSE, "ssd", 3000),
               Disk("/dev/md0", TRUE, TRUE, "unknown", 2999)>>,
   interfaces |-> {".", "lo", "eth0"},
   addresses |-> <<Addr("10.0.0.1", TRUE, FALSE, TRUE), Addr("10.0.0.2", TRUE, FALSE, TRUE)>>,
   uuid |-> "u1", mac |-> "zero"]

\* The same machine after a repair: cards of two vendors.
Mixed == [Uniform EXCEPT !.pci = <<Dev(TRUE, "10de", "2330"), Dev(TRUE, "1002", "74a1")>>]

\* Another one: no GPU Talos knows, one socket, no NUMA directory entry read.
Plain ==
  [Uniform EXCEPT !.version = "v2", !.pci = <<Dev(TRUE, "1a03", "2000")>>,
     !.processors = <<Proc("CPU1", 4)>>, !.numaNodes = 1, !.memory = 0,
     !.disks = <<Disk("/dev/nvme0n1", FALSE, FALSE, "nvme", 100), Disk("/dev/sda", TRUE, FALSE, "hdd", 2048)>>,
     !.addresses = <<Addr("fe80::1", FALSE, TRUE, FALSE), Addr("169.254.0.1", TRUE, TRUE, FALSE)>>,
     !.uuid = "u2", !.mac = "m2"]

ThreeNodes == [uniform |-> Uniform, mixed |-> Mixed, plain |-> Plain]

\* No read fails, or some of sources other than the COSI state, or the SMBIOS
\* read alone, or all the reads of the COSI state.
COSI == {"processors", "pci", "cmdline", "addresses", "smbios", "mac"}
Losses == {{}, {"pci", "numa"}, {"smbios"}, COSI}
=============================================================================

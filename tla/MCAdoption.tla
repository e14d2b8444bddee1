----------------------------- MODULE MCAdoption -----------------------------
(* One control-plane machine and one worker; three versions of the         *)
(* bootstrap data for the worker, the second of which is not YAML.         *)
EXTENDS Adoption, TLC

CONSTANTS c1, w1

Doc(machine, cluster, disk, selector, sans) ==
  [machine |-> machine, cluster |-> cluster, disk |-> disk, diskSelector |-> selector,
   certSANs |-> sans, apiSANs |-> sans, payload |-> "p"]

\* A v1alpha1 document followed by a HostnameConfig document; at last one with an
\* operator's disk selector and SANs, before a document without a cluster section.
ThreeVersions ==
  <<Config(TRUE, <<Doc(TRUE, TRUE, NoDisk, FALSE, <<>>),
                   Doc(FALSE, FALSE, NoDisk, FALSE, <<>>)>>),
    Config(FALSE, <<>>),
    Config(TRUE, <<Doc(TRUE, TRUE, NoDisk, TRUE, <<"pub", "op">>),
                   Doc(TRUE, FALSE, "/dev/op", FALSE, <<"op">>)>>)>>
LastVersions == (c1 :> 1) @@ (w1 :> 3)

\* The internal address comes first and may equal the public one.
Addresses == (c1 :> <<"int", "pub">>) @@ (w1 :> <<"pub", "pub">>)

Disk(name, system, raid) == [name |-> name, system |-> system, raid |-> raid]
ReportedDisks ==
  (c1 :> <<Disk("/dev/sda", TRUE, FALSE), Disk("/dev/md0", TRUE, TRUE)>>)
    @@ (w1 :> <<Disk("/dev/sdb", FALSE, FALSE)>>)
OperatorDisks == (c1 :> NoDisk) @@ (w1 :> "/dev/nvme0")

ForeignCredentials == (c1 :> "none") @@ (w1 :> "foreign")
AnyBundle == (c1 :> {"none", "own"}) @@ (w1 :> Bundles)
=============================================================================

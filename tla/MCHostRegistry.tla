--------------------------- MODULE MCHostRegistry ---------------------------
(* Instances of HostRegistry: one or two hosts, which every machine may    *)
(* claim, and one or two machines, which are alike.                        *)
EXTENDS HostRegistry, TLC

CONSTANTS m1, m2

OneHost == {1}
TwoHosts == {1, 2}
NoHosts == {}
AnyHost == [m \in Machines |-> Hosts]
AllMachines == Machines
Everything == Hosts \cup Machines
Symmetry == Permutations(Machines)
=============================================================================

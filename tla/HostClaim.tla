----------------------------- MODULE HostClaim ------------------------------
(***************************************************************************)
(* What the host registry promises (docs/PRD-host-registry.md, decision 7, *)
(* and the comments of claimCAS and releaseHost): a claim is a lock on a   *)
(* Talos node.  Only the holder configures or wipes the node, a lock never *)
(* passes from one machine to another without being given back, and it is  *)
(* given back only once the node carries no configuration.                 *)
(***************************************************************************)
EXTENDS Integers

CONSTANTS Hosts, Machines, None

VARIABLES
  owner,  \* owner[h]: the machine that holds host h
  node    \* node[h]: "maintenance", "booting", or the machine it is configured for

Init ==
  /\ owner = [h \in Hosts |-> None]
  /\ node = [h \in Hosts |-> "maintenance"]

Acquire(m, h) ==
  /\ owner[h] = None
  /\ owner' = [owner EXCEPT ![h] = m]
  /\ UNCHANGED node

Configure(m, h) ==
  /\ owner[h] = m /\ node[h] # "booting"
  /\ node' = [node EXCEPT ![h] = m]
  /\ UNCHANGED owner

Wipe(m, h) ==
  /\ owner[h] = m /\ node[h] # "booting"
  /\ node' = [node EXCEPT ![h] = "booting"]
  /\ UNCHANGED owner

Boot(h) ==
  /\ node[h] = "booting"
  /\ node' = [node EXCEPT ![h] = "maintenance"]
  /\ UNCHANGED owner

GiveBack(m, h) ==
  /\ owner[h] = m /\ node[h] \notin Machines
  /\ owner' = [owner EXCEPT ![h] = None]
  /\ UNCHANGED node

Next ==
  \E h \in Hosts :
    \/ Boot(h)
    \/ \E m \in Machines :
         Acquire(m, h) \/ Configure(m, h) \/ Wipe(m, h) \/ GiveBack(m, h)

Spec == Init /\ [][Next]_<<owner, node>>
=============================================================================

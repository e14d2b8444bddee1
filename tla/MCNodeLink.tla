----------------------------- MODULE MCNodeLink -----------------------------
(* One control-plane machine and one worker; a discovered label and one in *)
(* a subdomain of a reserved domain.                                       *)
EXTENDS NodeLink, TLC

CONSTANTS c1, w1

KeyDomains == ("arch" :> <<"byot", "io">>) @@ ("role" :> <<"node-role", "kubernetes", "io">>)
ClaimedLabels ==
  [m \in Machines |-> [k \in Keys |-> IF m = c1 /\ k = "arch" THEN "x" ELSE NoValue]]
KubeletLabels == ("arch" :> NoValue) @@ ("role" :> NoValue)
=============================================================================

--------------------------- MODULE MCTalosUpgrade ---------------------------
(* Two installer images, with different or with the same version tag.      *)
EXTENDS TalosUpgrade, TLC

CONSTANTS i1, i2

OwnTags == (i1 :> "v1") @@ (i2 :> "v2")
SameTag == (i1 :> "v1") @@ (i2 :> "v1")
=============================================================================

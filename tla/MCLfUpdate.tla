----------------------------- MODULE MCLfUpdate -----------------------------
(* Updates of a stack of up to three DataCatalogDatabase constructs, one   *)
(* per permission model, over three database names.                        *)
EXTENDS LfUpdate, TLC

CONSTANTS d1, d2, d3, n1, n2, n3

MCPermModel == (d1 :> "HYBRID") @@ (d2 :> "LAKE_FORMATION") @@ (d3 :> "IAM")
=============================================================================

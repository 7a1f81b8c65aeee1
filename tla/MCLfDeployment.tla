--------------------------- MODULE MCLfDeployment ---------------------------
(* The stack of test/e2e/data-catalog-database.e2e.test.ts: one database  *)
(* per permission model, all with RemovalPolicy.DESTROY.                  *)
EXTENDS LfDeployment

CONSTANTS dIam, dHybrid, dLf

MCPermModel ==
  [d \in Dbs |->
     CASE d = dIam -> "IAM" [] d = dHybrid -> "HYBRID" [] OTHER -> "LAKE_FORMATION"]

MCRemovalDestroy == [d \in Dbs |-> "DESTROY"]
=============================================================================

-------------------------- MODULE LfContractProofs --------------------------
(***************************************************************************)
(* Proof that LfDeployment implements CatalogContract under the refinement *)
(* mapping Contract of LfDeployment: the catalog variables are the         *)
(* contract's catalog, Retained the RETAIN databases and StackAdmins the   *)
(* two principals the APPEND settings add.                                 *)
(***************************************************************************)
EXTENDS LfCatalogProofs

USE ConstantsAssumption

ModeOf(d) == IF PermModel[d] = "HYBRID" THEN "hybrid" ELSE "lf"

RevokeDone(d) == <<"Revoke", d>> \in Res /\ status[<<"Revoke", d>>] = "created"

(* What the catalog can hold at any time: a location is registered in the  *)
(* mode of its permission model, IAM_ALLOWED_PRINCIPALS only sits on an    *)
(* existing database, and a database exists only while its resource is     *)
(* created or because it is retained.                                      *)
CatalogShape ==
  /\ \A d \in Dbs : registered[d] \in {"none", ModeOf(d)}
  /\ iap \subseteq dbExists
  /\ \A d \in dbExists :
       status[<<"Database", d>>] = "created" \/ RemovalPolicy[d] = "RETAIN"
  /\ \A d \in Dbs : RevokeDone(d) => status[<<"Database", d>>] = "created"

(* While the stack is creating, the catalog follows the resources: a      *)
(* database exists and a location grant is in place exactly while its      *)
(* resource is created, a created admin setting has its principal in the   *)
(* admins, and, until a resource fails, IAM_ALLOWED_PRINCIPALS sits on     *)
(* exactly the created databases whose revoke is not created.              *)
CreateTrack ==
  stack = "CREATE_IN_PROGRESS" =>
    /\ \A d \in Dbs : d \in dbExists <=> status[<<"Database", d>>] = "created"
    /\ \A d \in Dbs :
         d \in locGrants <=> <<"Grant", d>> \in Res /\ status[<<"Grant", d>>] = "created"
    /\ (\E r \in Res : r[1] = "CdkAdmin" /\ status[r] = "created") => DeployRole \in admins
    /\ (\E r \in Res : r[1] = "ExecAdmin" /\ status[r] = "created") => ExecRole \in admins
    /\ ~Failing =>
         \A d \in Dbs :
           d \in iap <=> status[<<"Database", d>>] = "created" /\ ~RevokeDone(d)

ContractInv == CatalogShape /\ CreateTrack


(* The remover of a database is ordered after the database. *)
LEMMA RevokeNeedsDatabase ==
  ASSUME NEW d \in Dbs
  PROVE  <<"Database", d>> \in Deps(<<"Revoke", d>>)
BY LocationResources DEF Deps, KindEdges, CatalogDatabaseEdges

LEMMA InitContractInv == Init => ContractInv
BY LocationResources DEF Init, ContractInv, CatalogShape, CreateTrack, RevokeDone, Failing, ModeOf

(* A step that changes only the status of a role, policy or location, and *)
(* at most the registration of a location in the mode of its permission  *)
(* model, keeps the strengthening; it does not clear a refusal.            *)
LEMMA FrameContract ==
  ASSUME TypeOK, ContractInv,
         NEW q \in Res, q[1] \in {"Role", "Policy", "Location"},
         NEW v \in ResStatus, status' = [status EXCEPT ![q] = v],
         status[q] \in {"failed", "rejected", "denied"} =>
           v \in {"failed", "rejected", "denied"},
         UNCHANGED <<stack, admins, dbExists, iap, locGrants>>,
         \A d \in Dbs : registered'[d] \in {"none", ModeOf(d)}
  PROVE  ContractInv'
<1>1. \A r \in Res : r[1] \notin {"Role", "Policy", "Location"} => status'[r] = status[r]
  BY DEF TypeOK
<1>2. \A d \in Dbs : <<"Database", d>>[1] = "Database" /\ <<"Revoke", d>>[1] = "Revoke"
                    /\ <<"Grant", d>>[1] = "Grant"
  OBVIOUS
<1>3. \A d \in Dbs : /\ status'[<<"Database", d>>] = status[<<"Database", d>>]
                    /\ RevokeDone(d)' = RevokeDone(d)
                    /\ <<"Grant", d>> \in Res =>
                         status'[<<"Grant", d>>] = status[<<"Grant", d>>]
  BY <1>1, <1>2, LocationResources DEF RevokeDone
<1>4. ~Failing' => ~Failing
  BY DEF Failing, TypeOK
<1>5. \A r \in Res : r[1] \in {"CdkAdmin", "ExecAdmin"} => status'[r] = status[r]
  BY <1>1
<1>6. CatalogShape'
  BY <1>3 DEF ContractInv, CatalogShape, ModeOf, RevokeDone
<1>7. CreateTrack'
  BY <1>3, <1>4, <1>5 DEF ContractInv, CreateTrack, RevokeDone
<1>8. QED
  BY <1>6, <1>7 DEF ContractInv

(* A create refused or failing without effect keeps the strengthening. *)
LEMMA RefuseContract ==
  ASSUME TypeOK, ContractInv, stack = "CREATE_IN_PROGRESS",
         NEW q \in Res, status[q] = "none",
         NEW v \in {"failed", "rejected", "denied"},
         status' = [status EXCEPT ![q] = v],
         UNCHANGED <<stack, admins, s3Access, registered, dbExists, iap, locGrants>>
  PROVE  ContractInv'
<1>1. \A r \in Res : status'[r] = "created" <=> status[r] = "created"
  BY DEF TypeOK
<1>2. Failing'
  BY DEF Failing, TypeOK
<1>3. \A d \in Dbs : RevokeDone(d)' = RevokeDone(d)
  BY <1>1 DEF RevokeDone
<1>4. \A d \in Dbs : status'[<<"Database", d>>] = "created" <=> status[<<"Database", d>>] = "created"
  BY <1>1, LocationResources
<1>5. CatalogShape'
  BY <1>3, <1>4 DEF ContractInv, CatalogShape
<1>6. CreateTrack'
  BY <1>1, <1>2, <1>4 DEF ContractInv, CreateTrack
<1>7. QED
  BY <1>5, <1>6 DEF ContractInv

LEMMA NextContractInv == TypeOK /\ ContractInv /\ [Next]_vars => ContractInv'
<1> SUFFICES ASSUME TypeOK, ContractInv, [Next]_vars PROVE ContractInv'
  OBVIOUS
<1> USE DEF ContractInv, CatalogShape, CreateTrack, RevokeDone, Failing, ModeOf, TypeOK
<1>1. ASSUME NEW d \in Dbs, CreateRole(d) PROVE ContractInv'
  BY <1>1 DEF CreateRole, CanCreate, Created, catalog
<1>2. ASSUME NEW d \in Dbs, CreatePolicy(d) PROVE ContractInv'
  BY <1>2 DEF CreatePolicy, CanCreate, Created
<1>3. ASSUME NEW d \in Dbs, CreateLocation(d) PROVE ContractInv'
  <2>1. CASE d \in s3Access
    <3>1. \A e \in Dbs : registered'[e] \in {"none", ModeOf(e)}
      BY <1>3, <2>1 DEF CreateLocation, HybridAccessEnabled
    <3>2. QED
      BY <1>3, <2>1, <3>1, FrameContract DEF CreateLocation, CanCreate, Created, ResStatus
  <2>2. CASE d \notin s3Access
    BY <1>3, <2>2, RefuseContract DEF CreateLocation, CanCreate, Refused, catalog
  <2>3. QED
    BY <2>1, <2>2
<1>4. ASSUME NEW d \in Dbs, CreateDatabase(d) PROVE ContractInv'
  <2> DEFINE db == <<"Database", d>>
  <2>1. /\ status' = [status EXCEPT ![db] = "created"]
        /\ dbExists' = dbExists \cup {d} /\ iap' = iap \cup {d}
        /\ UNCHANGED <<stack, admins, registered, locGrants>>
        /\ db \in Res /\ status[db] = "none" /\ ~Failing
    BY <1>4 DEF CreateDatabase, CanCreate, Created
  <2>2. ~RevokeDone(d)
    BY <2>1
  <2>3. \A q \in Res : q # db => status'[q] = status[q]
    BY <2>1
  <2>4. \A e \in Dbs : RevokeDone(e)' <=> RevokeDone(e)
    BY <2>3
  <2>5. Failing' <=> Failing
    BY <2>1, <2>3
  <2>6. \A e \in Dbs : <<"Grant", e>> \in Res => status'[<<"Grant", e>>] = status[<<"Grant", e>>]
    BY <2>3
  <2>7. CatalogShape'
    BY <2>1, <2>3, <2>4
  <2>8. CreateTrack'
    BY <2>1, <2>2, <2>3, <2>4, <2>5, <2>6
  <2>9. QED
    BY <2>7, <2>8
<1>5. ASSUME NEW d \in Dbs, CreateCdkAdmin(d) PROVE ContractInv'
  BY <1>5 DEF CreateCdkAdmin, CanCreate, Created, CdkLfAdminPrincipal
<1>6. ASSUME NEW d \in Dbs, CreateExecAdmin(d) PROVE ContractInv'
  BY <1>6 DEF CreateExecAdmin, CanCreate, Created
<1>7. ASSUME NEW d \in Dbs, CreateRevoke(d) PROVE ContractInv'
  <2> DEFINE rv == <<"Revoke", d>>
  <2>0. /\ rv \in Res /\ status[rv] = "none"
        /\ stack = "CREATE_IN_PROGRESS" /\ ~Failing
        /\ \A q \in Deps(rv) : status[q] = "created"
    BY <1>7 DEF CreateRevoke, CanCreate
  <2>1. CASE d \notin dbExists
    BY <1>7, <2>0, <2>1, RefuseContract DEF CreateRevoke, Refused, catalog
  <2>2. CASE d \in dbExists /\ ExecRole \notin admins
    BY <1>7, <2>0, <2>2, RefuseContract DEF CreateRevoke, Refused, catalog
  <2>3. CASE d \in dbExists /\ ExecRole \in admins
    <3>1. /\ status' = [status EXCEPT ![rv] = "created"]
          /\ iap' = iap \ {d}
          /\ UNCHANGED <<stack, admins, registered, dbExists, locGrants>>
      BY <1>7, <2>3 DEF CreateRevoke, Created, RevokeIamAllowedPrincipals
    <3>2. status[<<"Database", d>>] = "created"
      BY <2>0, RevokeNeedsDatabase
    <3>3. \A r \in Res : r # rv => status'[r] = status[r]
      BY <3>1
    <3>4. \A e \in Dbs : /\ status'[<<"Database", e>>] = status[<<"Database", e>>]
                        /\ <<"Grant", e>> \in Res =>
                             status'[<<"Grant", e>>] = status[<<"Grant", e>>]
                        /\ RevokeDone(e)' <=> (e = d \/ RevokeDone(e))
      BY <2>0, <3>1, <3>3, LocationResources
    <3>5. Failing' <=> Failing
      BY <2>0, <3>1, <3>3
    <3>6. \A r \in Res : r[1] \in {"CdkAdmin", "ExecAdmin"} => status'[r] = status[r]
      BY <3>3
    <3>7. CatalogShape'
      BY <3>1, <3>2, <3>4 DEF ContractInv, CatalogShape
    <3>8. CreateTrack'
      BY <2>0, <3>1, <3>4, <3>5, <3>6 DEF ContractInv, CreateTrack
    <3>9. QED
      BY <3>7, <3>8
  <2>4. QED
    BY <2>1, <2>2, <2>3
<1>8. ASSUME NEW d \in Dbs, CreateGrant(d) PROVE ContractInv'
  <2> DEFINE gr == <<"Grant", d>>
  <2>0. /\ gr \in Res /\ status[gr] = "none"
        /\ stack = "CREATE_IN_PROGRESS" /\ ~Failing
    BY <1>8 DEF CreateGrant, CanCreate
  <2>1. CASE registered[d] = "none"
    BY <1>8, <2>0, <2>1, RefuseContract DEF CreateGrant, Refused, catalog
  <2>2. CASE registered[d] # "none" /\ EngineRole \notin admins
    BY <1>8, <2>0, <2>2, RefuseContract DEF CreateGrant, Refused, catalog
  <2>3. CASE registered[d] # "none" /\ EngineRole \in admins
    <3>1. /\ status' = [status EXCEPT ![gr] = "created"]
          /\ locGrants' = locGrants \cup {d}
          /\ UNCHANGED <<stack, admins, registered, dbExists, iap>>
      BY <1>8, <2>3 DEF CreateGrant, Created
    <3>3. \A r \in Res : r # gr => status'[r] = status[r]
      BY <3>1
    <3>4. \A e \in Dbs : /\ status'[<<"Database", e>>] = status[<<"Database", e>>]
                        /\ RevokeDone(e)' = RevokeDone(e)
                        /\ e # d /\ <<"Grant", e>> \in Res =>
                             status'[<<"Grant", e>>] = status[<<"Grant", e>>]
      BY <3>3, LocationResources DEF RevokeDone
    <3>5. Failing' <=> Failing
      BY <2>0, <3>1, <3>3
    <3>6. \A r \in Res : r[1] \in {"CdkAdmin", "ExecAdmin"} => status'[r] = status[r]
      BY <3>3
    <3>7. CatalogShape'
      BY <3>1, <3>4 DEF ContractInv, CatalogShape, ModeOf, RevokeDone
    <3>8. CreateTrack'
      BY <2>0, <3>1, <3>4, <3>5, <3>6 DEF ContractInv, CreateTrack, RevokeDone
    <3>9. QED
      BY <3>7, <3>8
  <2>4. QED
    BY <2>1, <2>2, <2>3
<1>9. ASSUME NEW d \in Dbs, DeletePolicy(d) PROVE ContractInv'
  BY <1>9 DEF DeletePolicy, CanDelete, Deleted, TearingDown
<1>10. ASSUME NEW d \in Dbs, DeleteLocation(d) PROVE ContractInv'
  BY <1>10 DEF DeleteLocation, CanDelete, Deleted, TearingDown
<1>11. ASSUME NEW d \in Dbs, DeleteDatabase(d) PROVE ContractInv'
  <2> DEFINE db == <<"Database", d>>
  <2>1. /\ status' = [status EXCEPT ![db] = "deleted"]
        /\ dbExists' = dbExists \ {d} /\ iap' = iap \ {d}
        /\ UNCHANGED <<stack, registered>>
        /\ stack # "CREATE_IN_PROGRESS"
        /\ \A q \in Res : db \in Deps(q) => status[q] # "created"
    BY <1>11 DEF DeleteDatabase, CanDelete, Deleted, TearingDown
  <2>2. ~RevokeDone(d)
    BY <2>1, RevokeNeedsDatabase DEF RevokeDone
  <2>3. \A e \in Dbs : /\ e # d => status'[<<"Database", e>>] = status[<<"Database", e>>]
                      /\ RevokeDone(e)' = RevokeDone(e)
    BY <2>1, LocationResources DEF RevokeDone
  <2>4. QED
    BY <2>1, <2>2, <2>3 DEF ContractInv, CatalogShape, CreateTrack, ModeOf
<1>12. ASSUME NEW d \in Dbs, DeleteCdkAdmin(d) PROVE ContractInv'
  BY <1>12 DEF DeleteCdkAdmin, CanDelete, Deleted, TearingDown
<1>13. ASSUME NEW d \in Dbs, DeleteExecAdmin(d) PROVE ContractInv'
  BY <1>13 DEF DeleteExecAdmin, CanDelete, Deleted, TearingDown
<1>14. ASSUME NEW d \in Dbs, DeleteGrant(d) PROVE ContractInv'
  <2>1. /\ \E v \in ResStatus : status' = [status EXCEPT ![<<"Grant", d>>] = v]
        /\ UNCHANGED <<stack, registered, dbExists, iap>>
        /\ stack # "CREATE_IN_PROGRESS"
    BY <1>14 DEF DeleteGrant, CanDelete, Deleted, Refused, catalog, TearingDown, ResStatus
  <2>2. \A e \in Dbs : /\ status'[<<"Database", e>>] = status[<<"Database", e>>]
                      /\ RevokeDone(e)' = RevokeDone(e)
    BY <2>1, LocationResources DEF RevokeDone
  <2>3. QED
    BY <2>1, <2>2 DEF ContractInv, CatalogShape, CreateTrack, ModeOf
<1>15. ASSUME NEW r \in Res, DeleteInert(r) PROVE ContractInv'
  <2>1. /\ status' = [status EXCEPT ![r] = "deleted"]
        /\ UNCHANGED <<stack, registered, dbExists, iap>>
        /\ stack # "CREATE_IN_PROGRESS"
        /\ r[1] = "Database" => RemovalPolicy[r[2]] = "RETAIN"
        /\ \A q \in Res : r \in Deps(q) => status[q] # "created"
    BY <1>15 DEF DeleteInert, CanDelete, Deleted, catalog, TearingDown
  <2>2. \A e \in Dbs : RevokeDone(e)' => RevokeDone(e)
    BY <2>1 DEF RevokeDone
  <2>3. \A e \in Dbs : RevokeDone(e) => r # <<"Database", e>>
    BY <2>1, RevokeNeedsDatabase DEF RevokeDone
  <2>4. \A e \in Dbs : r # <<"Database", e>> =>
                        status'[<<"Database", e>>] = status[<<"Database", e>>]
    BY <2>1, LocationResources
  <2>5. \A e \in dbExists : r = <<"Database", e>> => RemovalPolicy[e] = "RETAIN"
    BY <2>1
  <2>6. CatalogShape'
    BY <2>1, <2>2, <2>3, <2>4, <2>5 DEF ContractInv, CatalogShape, ModeOf
  <2>7. QED
    BY <2>1, <2>6 DEF ContractInv, CreateTrack
<1>16. ASSUME NEW r \in Res, CreateFails(r) PROVE ContractInv'
  BY <1>16 DEF CreateFails, CanCreate, Refused, catalog
<1>17. ASSUME NEW d \in Dbs, RevokeFailsAfterEffect(d) PROVE ContractInv'
  BY <1>17 DEF RevokeFailsAfterEffect, CanCreate, RevokeIamAllowedPrincipals
<1>18. CASE CreateComplete \/ BeginRollback \/ DeleteStack \/ TeardownEnd
  BY <1>18 DEF CreateComplete, BeginRollback, DeleteStack, TeardownEnd, TearingDown, catalog
<1>19. CASE UNCHANGED vars
  BY <1>19 DEF vars
<1>20. QED
  BY <1>1, <1>2, <1>3, <1>4, <1>5, <1>6, <1>7, <1>8, <1>9, <1>10,
     <1>11, <1>12, <1>13, <1>14, <1>15, <1>16, <1>17, <1>18, <1>19
  DEF Next, EngineStep, Faults


-----------------------------------------------------------------------------
(* The refinement *)

CView == [admins |-> admins, s3Access |-> s3Access, registered |-> registered,
          dbExists |-> dbExists, iap |-> iap, locGrants |-> locGrants]

(* The settings, the revoke and the grant exist exactly for governed      *)
(* databases.                                                              *)
LEMMA GovernedResources ==
  ASSUME NEW d \in Dbs
  PROVE  /\ <<"CdkAdmin", d>> \in Res <=> PermModel[d] # "IAM"
         /\ <<"ExecAdmin", d>> \in Res <=> PermModel[d] # "IAM"
         /\ <<"Revoke", d>> \in Res <=> PermModel[d] # "IAM"
         /\ <<"Grant", d>> \in Res <=> PermModel[d] # "IAM"
         /\ \A r \in Res : r[1] \in {"CdkAdmin", "ExecAdmin"} => PermModel[r[2]] # "IAM"
BY DEF Res, KindsOf, Kinds

Inv3 == TypeOK /\ RestoreInv /\ ContractInv

LEMMA InitInv3 ==
  ASSUME StackPrincipalsFresh
  PROVE  Init => Inv3
BY InitTypeOK, InitRestoreInv, InitContractInv DEF Inv3

LEMMA NextInv3 ==
  ASSUME StackPrincipalsFresh
  PROVE  Inv3 /\ [Next]_vars => Inv3'
BY NextTypeOK, NextRestoreInv, NextContractInv DEF Inv3

(* A complete stack holds the configured catalog: every resource created *)
(* means every catalog change the composition declares has been made.    *)
LEMMA CompleteConfigured ==
  ASSUME Inv3, stack = "CREATE_IN_PROGRESS", \A r \in Res : status[r] = "created"
  PROVE  Contract!Configured(CView)
<1> USE DEF Inv3
<1>0. ~Failing
  BY DEF Failing
<1>1. CView.admins = InitAdmins \cup
        (IF Contract!Governed # {} THEN {CdkLfAdminPrincipal, ExecRole} ELSE {})
  <2>1. CASE Contract!Governed # {}
    <3>1. PICK d \in Dbs : PermModel[d] # "IAM"
      BY <2>1 DEF Contract!Governed
    <3>2. <<"CdkAdmin", d>> \in Res /\ <<"ExecAdmin", d>> \in Res
      BY <3>1, GovernedResources
    <3>3. DeployRole \in admins /\ ExecRole \in admins
      BY <3>2 DEF ContractInv, CreateTrack
    <3>4. QED
      BY <2>1, <3>3 DEF RestoreInv, AdminTrack, CView, CdkLfAdminPrincipal
  <2>2. CASE Contract!Governed = {}
    <3>1. \A r \in Res : r[1] \notin {"CdkAdmin", "ExecAdmin"}
      BY <2>2, GovernedResources DEF Contract!Governed, Res
    <3>2. DeployRole \notin admins /\ ExecRole \notin admins
      BY <3>1 DEF RestoreInv, AdminTrack
    <3>3. QED
      BY <2>2, <3>2 DEF RestoreInv, AdminTrack, CView
  <2>3. QED
    BY <2>1, <2>2
<1>2. CView.s3Access = Dbs /\ CView.dbExists = Dbs
  BY LocationResources DEF RestoreInv, LocationInv, PolStatus, ContractInv, CreateTrack,
     TypeOK, CView
<1>3. CView.registered =
        [d \in Dbs |-> IF PermModel[d] = "HYBRID" THEN "hybrid" ELSE "lf"]
  BY LocationResources DEF RestoreInv, LocationInv, LocStatus, ContractInv, CatalogShape,
     ModeOf, TypeOK, CView
<1>4. CView.iap = Dbs \ Contract!Governed
  <2>1. \A d \in Dbs : d \in iap <=> PermModel[d] = "IAM"
    BY <1>0, GovernedResources, LocationResources DEF ContractInv, CreateTrack, RevokeDone
  <2>2. QED
    BY <2>1 DEF TypeOK, CView, Contract!Governed
<1>5. CView.locGrants = Contract!Governed
  <2>1. \A d \in Dbs : d \in locGrants <=> PermModel[d] # "IAM"
    BY GovernedResources DEF ContractInv, CreateTrack
  <2>2. QED
    BY <2>1 DEF TypeOK, CView, Contract!Governed
<1>6. QED
  BY <1>1, <1>2, <1>3, <1>4, <1>5 DEF Contract!Configured

(* A stack whose teardown ends with nothing created and no refused delete *)
(* holds the restored catalog.                                             *)
LEMMA TeardownRestored ==
  ASSUME StackPrincipalsFresh, Inv3,
         \A r \in Res : status[r] \notin {"created", "delete_denied"}
  PROVE  Contract!Restored(CView)
<1> USE DEF Inv3
<1>1. CView.admins = InitAdmins
  BY DEF RestoreInv, AdminTrack, CView
<1>2. CView.s3Access = {} /\ CView.registered = [d \in Dbs |-> "none"]
  BY LocationResources DEF RestoreInv, LocationInv, LocStatus, PolStatus, TypeOK, CView
<1>3. CView.locGrants = {}
  BY DEF RestoreInv, GrantTrack, CView
<1>4. CView.dbExists \subseteq {d \in Dbs : RemovalPolicy[d] = "RETAIN"}
  BY LocationResources DEF ContractInv, CatalogShape, TypeOK, CView
<1>5. CView.iap \subseteq CView.dbExists
  BY DEF ContractInv, CatalogShape, CView
<1>6. QED
  BY <1>1, <1>2, <1>3, <1>4, <1>5 DEF Contract!Restored


(* Every step of the deployment is a step of the contract or leaves the   *)
(* stack status and the catalog alone.                                     *)
LEMMA StepRefines ==
  ASSUME StackPrincipalsFresh
  PROVE  Inv3 /\ [Next]_vars => [Contract!Next]_Contract!cvars
<1> SUFFICES ASSUME Inv3, [Next]_vars PROVE [Contract!Next]_Contract!cvars
  OBVIOUS
<1>w. ASSUME stack \in Contract!InProgress, stack' = stack,
             stack = "CREATE_IN_PROGRESS" => admins \subseteq admins',
             stack # "CREATE_IN_PROGRESS" => admins' \subseteq admins
      PROVE  [Contract!Next]_Contract!cvars
  BY <1>w DEF Contract!Next, Contract!Work
<1>c. ASSUME stack = "CREATE_IN_PROGRESS", UNCHANGED stack, admins \subseteq admins'
      PROVE  [Contract!Next]_Contract!cvars
  BY <1>c, <1>w DEF Contract!InProgress
<1>t. ASSUME TearingDown, UNCHANGED stack, admins' \subseteq admins
      PROVE  [Contract!Next]_Contract!cvars
  BY <1>t, <1>w DEF Contract!InProgress, TearingDown
<1>1. ASSUME NEW d \in Dbs,
             \/ CreateRole(d) \/ CreatePolicy(d) \/ CreateLocation(d)
             \/ CreateDatabase(d) \/ CreateCdkAdmin(d) \/ CreateExecAdmin(d)
             \/ CreateRevoke(d) \/ CreateGrant(d) \/ RevokeFailsAfterEffect(d)
      PROVE  [Contract!Next]_Contract!cvars
  <2>1. stack = "CREATE_IN_PROGRESS" /\ UNCHANGED stack /\ admins \subseteq admins'
    BY <1>1 DEF CreateRole, CreatePolicy, CreateLocation, CreateDatabase,
       CreateCdkAdmin, CreateExecAdmin, CreateRevoke, CreateGrant,
       RevokeFailsAfterEffect, RevokeIamAllowedPrincipals, CanCreate, Refused, catalog
  <2>2. QED
    BY <2>1, <1>c
<1>2. ASSUME NEW r \in Res, CreateFails(r) PROVE [Contract!Next]_Contract!cvars
  BY <1>2, <1>c DEF CreateFails, CanCreate, Refused, catalog
<1>3. ASSUME NEW d \in Dbs,
             \/ DeletePolicy(d) \/ DeleteLocation(d) \/ DeleteDatabase(d)
             \/ DeleteCdkAdmin(d) \/ DeleteExecAdmin(d) \/ DeleteGrant(d)
      PROVE  [Contract!Next]_Contract!cvars
  <2>1. TearingDown /\ UNCHANGED stack /\ admins' \subseteq admins
    BY <1>3 DEF DeletePolicy, DeleteLocation, DeleteDatabase, DeleteCdkAdmin,
       DeleteExecAdmin, DeleteGrant, CanDelete, Refused, catalog
  <2>2. QED
    BY <2>1, <1>t
<1>4. ASSUME NEW r \in Res, DeleteInert(r) PROVE [Contract!Next]_Contract!cvars
  BY <1>4, <1>t DEF DeleteInert, CanDelete, catalog
<1>5. CASE CreateComplete
  <2>1. Contract!Configured(CView)
    BY <1>5, CompleteConfigured DEF CreateComplete
  <2>2. QED
    BY <1>5, <2>1 DEF CreateComplete, catalog, CView, Contract!Next, Contract!Complete
<1>6. CASE BeginRollback \/ DeleteStack
  BY <1>6 DEF BeginRollback, DeleteStack, catalog,
     Contract!Next, Contract!Rollback, Contract!Delete
<1>7. CASE TeardownEnd
  <2>1. /\ TearingDown /\ \A r \in Res : status[r] # "created"
        /\ UNCHANGED catalog
    BY <1>7 DEF TeardownEnd
  <2>2. CASE \E r \in Res : status[r] = "delete_denied"
    <3>1. stack' \in {"ROLLBACK_FAILED", "DELETE_FAILED"}
          /\ (stack' = "ROLLBACK_FAILED" <=> stack = "ROLLBACK_IN_PROGRESS")
      <4>1. CASE stack = "ROLLBACK_IN_PROGRESS"
        <5>1. stack' = "ROLLBACK_FAILED"
          BY <1>7, <2>2, <4>1 DEF TeardownEnd, DeleteRefused
        <5>2. QED
          BY <4>1, <5>1
      <4>2. CASE stack = "DELETE_IN_PROGRESS"
        <5>1. stack' = "DELETE_FAILED"
          BY <1>7, <2>2, <4>2 DEF TeardownEnd, DeleteRefused
        <5>2. QED
          BY <4>2, <5>1
      <4>3. QED
        BY <2>1, <4>1, <4>2 DEF TearingDown
    <3>2. QED
      BY <2>1, <3>1 DEF catalog, TearingDown, Contract!Next, Contract!TeardownDone
  <2>3. CASE \A r \in Res : status[r] # "delete_denied"
    <3>1. Contract!Restored(CView)
      BY <2>1, <2>3, TeardownRestored
    <3>2. stack' \in {"ROLLBACK_COMPLETE", "DELETE_COMPLETE"}
          /\ (stack' = "ROLLBACK_COMPLETE" <=> stack = "ROLLBACK_IN_PROGRESS")
      <4>1. CASE stack = "ROLLBACK_IN_PROGRESS"
        <5>1. stack' = "ROLLBACK_COMPLETE"
          BY <1>7, <2>3, <4>1 DEF TeardownEnd, DeleteRefused
        <5>2. QED
          BY <4>1, <5>1
      <4>2. CASE stack = "DELETE_IN_PROGRESS"
        <5>1. stack' = "DELETE_COMPLETE"
          BY <1>7, <2>3, <4>2 DEF TeardownEnd, DeleteRefused
        <5>2. QED
          BY <4>2, <5>1
      <4>3. QED
        BY <2>1, <4>1, <4>2 DEF TearingDown
    <3>3. QED
      BY <2>1, <3>1, <3>2 DEF catalog, CView, TearingDown, Contract!Next,
         Contract!TeardownDone
  <2>4. QED
    BY <2>2, <2>3
<1>8. CASE UNCHANGED vars
  BY <1>8 DEF vars, Contract!cvars
<1>9. QED
  BY <1>1, <1>2, <1>3, <1>4, <1>5, <1>6, <1>7, <1>8 DEF Next, EngineStep, Faults

(* When neither the deploy role nor the exec role was an admin before the *)
(* stack, LfDeployment implements CatalogContract: create, failure,        *)
(* rollback and delete of the DataCatalogDatabase helpers reach the       *)
(* stack's stable statuses only with the catalog the contract names, and   *)
(* move the admins only in the direction the phase allows.                 *)
THEOREM ImplementsContractTheorem ==
  ASSUME StackPrincipalsFresh
  PROVE  Spec => ImplementsContract
<1>1. Init => Contract!Init
  BY LocationResources DEF Init, Contract!Init, Contract!Restored
<1>2. Spec => []Inv3
  BY InitInv3, NextInv3, PTL DEF Spec
<1>3. QED
  BY <1>1, <1>2, StepRefines, PTL DEF Spec, ImplementsContract, Contract!Spec

-----------------------------------------------------------------------------
(* The deployed catalog, without any assumption on the principals *)

(* No step but CreateComplete enters CREATE_COMPLETE: the resource steps   *)
(* keep the stack status and run only while creating or tearing down, and *)
(* the stack steps all leave it for another status.                        *)
LEMMA EnterComplete ==
  ASSUME TypeOK, [Next]_vars, stack' = "CREATE_COMPLETE"
  PROVE  CreateComplete \/ UNCHANGED vars
<1> SUFFICES ASSUME ~UNCHANGED vars, ~CreateComplete PROVE FALSE
  OBVIOUS
<1> DEFINE Keep == stack' = stack /\ stack # "CREATE_COMPLETE"
<1>1. ASSUME NEW d \in Dbs,
             \/ CreateRole(d) \/ CreatePolicy(d) \/ CreateDatabase(d)
             \/ CreateCdkAdmin(d) \/ CreateExecAdmin(d)
      PROVE  Keep
  BY <1>1 DEF CreateRole, CreatePolicy, CreateDatabase, CreateCdkAdmin,
     CreateExecAdmin, CanCreate, Created
<1>2. ASSUME NEW d \in Dbs, CreateLocation(d) \/ CreateRevoke(d) \/ CreateGrant(d)
      PROVE  Keep
  BY <1>2 DEF CreateLocation, CreateRevoke, CreateGrant, CanCreate, Created, Refused,
     catalog, RevokeIamAllowedPrincipals
<1>3. ASSUME NEW d \in Dbs,
             \/ DeletePolicy(d) \/ DeleteLocation(d) \/ DeleteDatabase(d)
             \/ DeleteCdkAdmin(d) \/ DeleteExecAdmin(d) \/ DeleteGrant(d)
      PROVE  Keep
  BY <1>3 DEF DeletePolicy, DeleteLocation, DeleteDatabase, DeleteCdkAdmin,
     DeleteExecAdmin, DeleteGrant, CanDelete, TearingDown, Deleted, Refused, catalog
<1>4. ASSUME NEW r \in Res, DeleteInert(r) \/ CreateFails(r) PROVE Keep
  BY <1>4 DEF DeleteInert, CreateFails, CanDelete, CanCreate, TearingDown, Refused, catalog
<1>5. ASSUME NEW d \in Dbs, RevokeFailsAfterEffect(d) PROVE Keep
  BY <1>5 DEF RevokeFailsAfterEffect, CanCreate, RevokeIamAllowedPrincipals
<1>6. BeginRollback \/ DeleteStack \/ TeardownEnd => stack' # "CREATE_COMPLETE"
  BY DEF BeginRollback, DeleteStack, TeardownEnd, TearingDown
<1>. QED
  BY <1>1, <1>2, <1>3, <1>4, <1>5, <1>6 DEF Next, EngineStep, Faults

(* With every resource created, each database is governed as its          *)
(* permission model says.                                                  *)
LEMMA CompleteGoverned ==
  ASSUME TypeOK, LocationInv, ContractInv, stack = "CREATE_IN_PROGRESS",
         \A r \in Res : status[r] = "created"
  PROVE  \A d \in Dbs :
           /\ registered[d] = IF PermModel[d] = "HYBRID" THEN "hybrid" ELSE "lf"
           /\ d \in iap <=> PermModel[d] = "IAM"
           /\ d \in locGrants <=> PermModel[d] # "IAM"
<1>0. ~Failing
  BY DEF Failing
<1> TAKE d \in Dbs
<1>1. registered[d] = IF PermModel[d] = "HYBRID" THEN "hybrid" ELSE "lf"
  BY LocationResources DEF LocationInv, LocStatus, ContractInv, CatalogShape, ModeOf
<1>2. d \in iap <=> PermModel[d] = "IAM"
  BY <1>0, GovernedResources, LocationResources DEF ContractInv, CreateTrack, RevokeDone
<1>3. d \in locGrants <=> PermModel[d] # "IAM"
  BY GovernedResources DEF ContractInv, CreateTrack
<1>. QED  BY <1>1, <1>2, <1>3

DeployInv == TypeOK /\ LocationInv /\ ContractInv /\ DeployedMatchesModel

(* A completed stack governs every database as its permission model says  *)
(* (registration mode, IAM_ALLOWED_PRINCIPALS revoked, location granted),  *)
(* for any initial admins: the DataCatalogDatabase composition orders the  *)
(* location, revoke and grant so that completion implies all three.        *)
THEOREM DeployedMatchesModelTheorem == Spec => []DeployedMatchesModel
<1>1. Init => DeployInv
  BY InitTypeOK, InitLocationInv, InitContractInv DEF Init, DeployInv, DeployedMatchesModel
<1>2. DeployInv /\ [Next]_vars => DeployInv'
  <2> SUFFICES ASSUME DeployInv, [Next]_vars PROVE DeployInv'
    OBVIOUS
  <2>1. TypeOK' /\ LocationInv' /\ ContractInv'
    BY NextTypeOK, NextLocationInv, NextContractInv DEF DeployInv
  <2>2. DeployedMatchesModel'
    <3> SUFFICES ASSUME stack' = "CREATE_COMPLETE" PROVE DeployedMatchesModel'
      BY DEF DeployedMatchesModel
    <3>1. CASE CreateComplete
      BY <3>1, CompleteGoverned DEF CreateComplete, catalog, DeployInv, DeployedMatchesModel
    <3>2. CASE UNCHANGED vars
      BY <3>2 DEF vars, catalog, DeployInv, DeployedMatchesModel
    <3>. QED  BY <3>1, <3>2, EnterComplete DEF DeployInv
  <2>. QED  BY <2>1, <2>2 DEF DeployInv
<1>3. DeployInv => DeployedMatchesModel
  BY DEF DeployInv
<1>. QED  BY <1>1, <1>2, <1>3, PTL DEF Spec

=============================================================================

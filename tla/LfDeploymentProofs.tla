------------------------- MODULE LfDeploymentProofs -------------------------
(***************************************************************************)
(* Proofs about LfDeployment, for every set of databases, permission       *)
(* models, removal policies and initial admin set.                         *)
(***************************************************************************)
EXTENDS LfDeployment, TLAPS

USE ConstantsAssumption

(* Updating one resource's status keeps the status map well typed. *)
LEMMA StatusUpdate ==
  ASSUME NEW st \in [Res -> ResStatus], NEW r \in Res, NEW v \in ResStatus
  PROVE  [st EXCEPT ![r] = v] \in [Res -> ResStatus]
OBVIOUS

(* Every database has its data-access role, policy and location. *)
LEMMA LocationResources ==
  ASSUME NEW d \in Dbs
  PROVE  /\ <<"Role", d>> \in Res
         /\ <<"Policy", d>> \in Res
         /\ <<"Location", d>> \in Res
         /\ <<"Database", d>> \in Res
BY DEF Res, KindsOf, Kinds

(* The location of a database depends on its read-write policy. *)
LEMMA LocationNeedsPolicy ==
  ASSUME NEW d \in Dbs
  PROVE  <<"Policy", d>> \in Deps(<<"Location", d>>)
BY LocationResources DEF Deps, KindEdges, RegisterS3LocationEdges

-----------------------------------------------------------------------------
(* Type correctness *)

LEMMA InitTypeOK == Init => TypeOK
BY DEF Init, TypeOK, Principals, ResStatus, StackStatus

LEMMA NextTypeOK == TypeOK /\ [Next]_vars => TypeOK'
<1> SUFFICES ASSUME TypeOK, [Next]_vars PROVE TypeOK'
  OBVIOUS
<1> USE DEF TypeOK, ResStatus
<1> DEFINE SU(r, v) == [status EXCEPT ![r] = v]
<1>0. ASSUME NEW r \in Res, NEW v \in ResStatus PROVE SU(r, v) \in [Res -> ResStatus]
  BY StatusUpdate
<1>1. ASSUME NEW d \in Dbs, CreateRole(d) PROVE TypeOK'
  BY <1>0, <1>1 DEF CreateRole, CanCreate, Created, catalog
<1>2. ASSUME NEW d \in Dbs, CreatePolicy(d) PROVE TypeOK'
  BY <1>0, <1>2 DEF CreatePolicy, CanCreate, Created
<1>3. ASSUME NEW d \in Dbs, CreateLocation(d) PROVE TypeOK'
  BY <1>0, <1>3 DEF CreateLocation, CanCreate, Created, Refused, catalog
<1>4. ASSUME NEW d \in Dbs, CreateDatabase(d) PROVE TypeOK'
  BY <1>0, <1>4 DEF CreateDatabase, CanCreate, Created
<1>5. ASSUME NEW d \in Dbs, CreateCdkAdmin(d) PROVE TypeOK'
  BY <1>0, <1>5 DEF CreateCdkAdmin, CanCreate, Created, CdkLfAdminPrincipal, Principals
<1>6. ASSUME NEW d \in Dbs, CreateExecAdmin(d) PROVE TypeOK'
  BY <1>0, <1>6 DEF CreateExecAdmin, CanCreate, Created, Principals
<1>7. ASSUME NEW d \in Dbs, CreateRevoke(d) PROVE TypeOK'
  BY <1>0, <1>7 DEF CreateRevoke, CanCreate, Created, Refused, catalog,
                    RevokeIamAllowedPrincipals
<1>8. ASSUME NEW d \in Dbs, CreateGrant(d) PROVE TypeOK'
  BY <1>0, <1>8 DEF CreateGrant, CanCreate, Created, Refused, catalog
<1>9. ASSUME NEW d \in Dbs, DeletePolicy(d) PROVE TypeOK'
  BY <1>0, <1>9 DEF DeletePolicy, CanDelete, Deleted
<1>10. ASSUME NEW d \in Dbs, DeleteLocation(d) PROVE TypeOK'
  BY <1>0, <1>10 DEF DeleteLocation, CanDelete, Deleted
<1>11. ASSUME NEW d \in Dbs, DeleteDatabase(d) PROVE TypeOK'
  BY <1>0, <1>11 DEF DeleteDatabase, CanDelete, Deleted
<1>12. ASSUME NEW d \in Dbs, DeleteCdkAdmin(d) PROVE TypeOK'
  BY <1>0, <1>12 DEF DeleteCdkAdmin, CanDelete, Deleted
<1>13. ASSUME NEW d \in Dbs, DeleteExecAdmin(d) PROVE TypeOK'
  BY <1>0, <1>13 DEF DeleteExecAdmin, CanDelete, Deleted
<1>14. ASSUME NEW d \in Dbs, DeleteGrant(d) PROVE TypeOK'
  BY <1>0, <1>14 DEF DeleteGrant, CanDelete, Deleted, Refused, catalog
<1>15. ASSUME NEW r \in Res, DeleteInert(r) PROVE TypeOK'
  BY <1>0, <1>15 DEF DeleteInert, CanDelete, Deleted, catalog
<1>16. ASSUME NEW r \in Res, CreateFails(r) PROVE TypeOK'
  BY <1>0, <1>16 DEF CreateFails, CanCreate, Refused, catalog
<1>17. ASSUME NEW d \in Dbs, RevokeFailsAfterEffect(d) PROVE TypeOK'
  BY <1>0, <1>17 DEF RevokeFailsAfterEffect, CanCreate, RevokeIamAllowedPrincipals
<1>18. CASE CreateComplete \/ BeginRollback \/ DeleteStack
  BY <1>18 DEF CreateComplete, BeginRollback, DeleteStack, catalog, StackStatus
<1>19. CASE TeardownEnd
  BY <1>19 DEF TeardownEnd, DeleteRefused, TearingDown, catalog, StackStatus
<1>20. CASE UNCHANGED vars
  BY <1>20 DEF vars
<1>21. QED
  BY <1>1, <1>2, <1>3, <1>4, <1>5, <1>6, <1>7, <1>8, <1>9, <1>10,
     <1>11, <1>12, <1>13, <1>14, <1>15, <1>16, <1>17, <1>18, <1>19, <1>20
  DEF Next, EngineStep, Faults

(* The state is always well typed. *)
THEOREM TypeCorrect == Spec => []TypeOK
BY InitTypeOK, NextTypeOK, PTL DEF Spec

-----------------------------------------------------------------------------
(* A registered location always has its role's read-write grant.          *)
(*                                                                         *)
(* LocationAccessHeld is not inductive by itself: deleting the policy must *)
(* be known to happen only after the location is gone.  The strengthening  *)
(* ties the catalog to the engine's view (a location is registered exactly *)
(* while its resource is created, the role has access exactly while the    *)
(* policy is created) and records the dependency of the location on the    *)
(* policy, which the engine keeps in both directions: it creates the       *)
(* location only after the policy and deletes the policy only after the    *)
(* location.                                                               *)

LocStatus(d) == status[<<"Location", d>>]
PolStatus(d) == status[<<"Policy", d>>]

LocationInv ==
  /\ TypeOK
  /\ \A d \in Dbs : registered[d] # "none" <=> LocStatus(d) = "created"
  /\ \A d \in Dbs : d \in s3Access <=> PolStatus(d) = "created"
  /\ \A d \in Dbs : LocStatus(d) = "created" => PolStatus(d) = "created"

LEMMA InitLocationInv == Init => LocationInv
BY InitTypeOK, LocationResources DEF Init, LocationInv, LocStatus, PolStatus

(* A step that leaves the location, the policy, registered and s3Access   *)
(* of every database alone preserves the strengthening.                   *)
LEMMA FrameLocationInv ==
  ASSUME LocationInv, TypeOK',
         NEW r \in Res, r[1] \notin {"Location", "Policy"},
         NEW v, status' = [status EXCEPT ![r] = v],
         UNCHANGED <<registered, s3Access>>
  PROVE  LocationInv'
<1>1. \A d \in Dbs : LocStatus(d)' = LocStatus(d) /\ PolStatus(d)' = PolStatus(d)
  <2> SUFFICES ASSUME NEW d \in Dbs
               PROVE  LocStatus(d)' = LocStatus(d) /\ PolStatus(d)' = PolStatus(d)
    OBVIOUS
  <2>1. <<"Location", d>> # r /\ <<"Policy", d>> # r
    <3>1. <<"Location", d>>[1] = "Location" /\ <<"Policy", d>>[1] = "Policy"
      OBVIOUS
    <3>2. QED
      BY <3>1, Zenon
  <2>2. <<"Location", d>> \in Res /\ <<"Policy", d>> \in Res
    BY LocationResources, Zenon
  <2>3. status \in [Res -> ResStatus]
    BY DEF LocationInv, TypeOK
  <2>4. QED
    BY <2>1, <2>2, <2>3 DEF LocStatus, PolStatus
<1>2. QED
  BY <1>1 DEF LocationInv

LEMMA NextLocationInv == LocationInv /\ [Next]_vars => LocationInv'
<1> SUFFICES ASSUME LocationInv, [Next]_vars PROVE LocationInv'
  OBVIOUS
<1>0. TypeOK'
  BY NextTypeOK DEF LocationInv
<1> USE <1>0
<1>r. \A e \in Dbs : <<"Location", e>> \in Res /\ <<"Policy", e>> \in Res
  BY LocationResources, Zenon
<1>1. ASSUME NEW d \in Dbs, CreateRole(d) PROVE LocationInv'
  BY <1>1, FrameLocationInv DEF CreateRole, CanCreate, Created, catalog
<1>2. ASSUME NEW d \in Dbs, CreatePolicy(d) PROVE LocationInv'
  BY <1>2, <1>r DEF CreatePolicy, CanCreate, Created, LocationInv,
     LocStatus, PolStatus, TypeOK
<1>3. ASSUME NEW d \in Dbs, CreateLocation(d) PROVE LocationInv'
  <2>0. /\ status \in [Res -> ResStatus]
        /\ registered \in [Dbs -> {"none", "lf", "hybrid"}]
        /\ LocStatus(d) = "none"
    BY <1>3 DEF LocationInv, TypeOK, CreateLocation, CanCreate, LocStatus
  <2>1. CASE d \in s3Access
    <3>1. /\ status' = [status EXCEPT ![<<"Location", d>>] = "created"]
          /\ registered' = [registered EXCEPT ![d] =
                              IF HybridAccessEnabled(d) THEN "hybrid" ELSE "lf"]
          /\ s3Access' = s3Access
      BY <1>3, <2>1 DEF CreateLocation, Created
    <3>2. PolStatus(d) = "created"
      BY <2>1 DEF LocationInv
    <3>3. \A e \in Dbs : /\ LocStatus(e)' = IF e = d THEN "created" ELSE LocStatus(e)
                         /\ PolStatus(e)' = PolStatus(e)
                         /\ registered'[e] # "none" <=>
                              (IF e = d THEN TRUE ELSE registered[e] # "none")
      BY <2>0, <3>1, <1>r DEF LocStatus, PolStatus
    <3>4. QED
      BY <3>1, <3>2, <3>3 DEF LocationInv
  <2>2. CASE d \notin s3Access
    <3>1. /\ status' = [status EXCEPT ![<<"Location", d>>] = "rejected"]
          /\ UNCHANGED <<registered, s3Access>>
      BY <1>3, <2>2 DEF CreateLocation, Refused, catalog
    <3>2. \A e \in Dbs : /\ LocStatus(e)' = IF e = d THEN "rejected" ELSE LocStatus(e)
                         /\ PolStatus(e)' = PolStatus(e)
      BY <2>0, <3>1, <1>r DEF LocStatus, PolStatus
    <3>3. registered[d] = "none"
      BY <2>0 DEF LocationInv
    <3>4. QED
      BY <3>1, <3>2, <3>3 DEF LocationInv
  <2>3. QED
    BY <2>1, <2>2
<1>4. ASSUME NEW d \in Dbs, CreateDatabase(d) PROVE LocationInv'
  BY <1>4, FrameLocationInv, <1>r DEF CreateDatabase, CanCreate, Created
<1>5. ASSUME NEW d \in Dbs, CreateCdkAdmin(d) PROVE LocationInv'
  BY <1>5, FrameLocationInv DEF CreateCdkAdmin, CanCreate, Created
<1>6. ASSUME NEW d \in Dbs, CreateExecAdmin(d) PROVE LocationInv'
  BY <1>6, FrameLocationInv DEF CreateExecAdmin, CanCreate, Created
<1>7. ASSUME NEW d \in Dbs, CreateRevoke(d) PROVE LocationInv'
  BY <1>7, FrameLocationInv DEF CreateRevoke, CanCreate, Created, Refused,
     catalog, RevokeIamAllowedPrincipals
<1>8. ASSUME NEW d \in Dbs, CreateGrant(d) PROVE LocationInv'
  BY <1>8, FrameLocationInv DEF CreateGrant, CanCreate, Created, Refused, catalog
<1>9. ASSUME NEW d \in Dbs, DeletePolicy(d) PROVE LocationInv'
  <2>1. LocStatus(d) # "created"
    BY <1>9, <1>r, LocationNeedsPolicy
    DEF DeletePolicy, CanDelete, LocStatus
  <2>2. QED
    BY <1>9, <2>1, <1>r DEF DeletePolicy, CanDelete, Deleted,
       LocationInv, LocStatus, PolStatus, TypeOK
<1>10. ASSUME NEW d \in Dbs, DeleteLocation(d) PROVE LocationInv'
  BY <1>10, <1>r DEF DeleteLocation, CanDelete, Deleted,
     LocationInv, LocStatus, PolStatus, TypeOK
<1>11. ASSUME NEW d \in Dbs, DeleteDatabase(d) PROVE LocationInv'
  BY <1>11, FrameLocationInv, <1>r DEF DeleteDatabase, CanDelete, Deleted
<1>12. ASSUME NEW d \in Dbs, DeleteCdkAdmin(d) PROVE LocationInv'
  BY <1>12, FrameLocationInv DEF DeleteCdkAdmin, CanDelete, Deleted
<1>13. ASSUME NEW d \in Dbs, DeleteExecAdmin(d) PROVE LocationInv'
  BY <1>13, FrameLocationInv DEF DeleteExecAdmin, CanDelete, Deleted
<1>14. ASSUME NEW d \in Dbs, DeleteGrant(d) PROVE LocationInv'
  BY <1>14, FrameLocationInv DEF DeleteGrant, CanDelete, Deleted, Refused, catalog
<1>15. ASSUME NEW r \in Res, DeleteInert(r) PROVE LocationInv'
  BY <1>15, FrameLocationInv DEF DeleteInert, CanDelete, Deleted, catalog
<1>16. ASSUME NEW r \in Res, CreateFails(r) PROVE LocationInv'
  <2>1. CASE r[1] \in {"Location", "Policy"}
    <3>1. PICK d \in Dbs : r = <<"Location", d>> \/ r = <<"Policy", d>>
      BY <2>1 DEF Res
    <3>2. QED
      BY <1>16, <3>1, <1>r DEF CreateFails, CanCreate, Refused,
         catalog, LocationInv, LocStatus, PolStatus, TypeOK
  <2>2. CASE r[1] \notin {"Location", "Policy"}
    BY <1>16, <2>2, FrameLocationInv DEF CreateFails, CanCreate, Refused, catalog
  <2>3. QED
    BY <2>1, <2>2
<1>17. ASSUME NEW d \in Dbs, RevokeFailsAfterEffect(d) PROVE LocationInv'
  <2>1. <<"Revoke", d>> \in Res
    BY <1>17 DEF RevokeFailsAfterEffect, CanCreate
  <2>2. QED
    BY <1>17, <2>1, FrameLocationInv DEF RevokeFailsAfterEffect,
       RevokeIamAllowedPrincipals
<1>18. CASE CreateComplete \/ BeginRollback \/ DeleteStack \/ TeardownEnd
  BY <1>18 DEF CreateComplete, BeginRollback, DeleteStack, TeardownEnd, DeleteRefused, catalog,
     LocationInv, LocStatus, PolStatus, TypeOK
<1>19. CASE UNCHANGED vars
  BY <1>19 DEF vars, LocationInv, LocStatus, PolStatus, TypeOK
<1>20. QED
  BY <1>1, <1>2, <1>3, <1>4, <1>5, <1>6, <1>7, <1>8, <1>9, <1>10,
     <1>11, <1>12, <1>13, <1>14, <1>15, <1>16, <1>17, <1>18, <1>19
  DEF Next, EngineStep, Faults

(* The data-access role of every registered S3 location holds read-write  *)
(* on the location's prefix in every reachable state (the dependency of   *)
(* registerS3Location's location on grantReadWrite).                       *)
THEOREM LocationAccessHeldTheorem == Spec => []LocationAccessHeld
<1>1. LocationInv => LocationAccessHeld
  BY DEF LocationInv, LocationAccessHeld, LocStatus, PolStatus
<1>2. QED
  BY <1>1, InitLocationInv, NextLocationInv, PTL DEF Spec

=============================================================================

--------------------------- MODULE LfCatalogProofs ---------------------------
(***************************************************************************)
(* Proofs about the Lake Formation catalog the deployment model leaves     *)
(* behind: no step is refused for lack of admin rights, and a torn-down    *)
(* stack restores the catalog.  Each holds under an assumption on the      *)
(* admins present before the stack, which the violation runs show to be    *)
(* needed.                                                                 *)
(***************************************************************************)
EXTENDS LfDeploymentProofs

USE ConstantsAssumption

(* The remover of a database is ordered after its exec role's admin grant. *)
LEMMA RevokeNeedsExecAdmin ==
  ASSUME NEW d \in Dbs, <<"Revoke", d>> \in Res
  PROVE  <<"ExecAdmin", d>> \in Deps(<<"Revoke", d>>)
<1>1. PermModel[d] # "IAM"
  BY DEF Res, KindsOf
<1>2. <<"ExecAdmin", d>> \in Res
  BY <1>1 DEF Res, KindsOf, Kinds
<1>3. QED
  BY <1>2 DEF Deps, KindEdges, CatalogDatabaseEdges

-----------------------------------------------------------------------------
(* No authorization failure, when the engine's identity is an admin.       *)
(*                                                                         *)
(* The engine role keeps its admin rights because the settings resources   *)
(* only ever remove the deploy role and the exec role.  The exec role is   *)
(* an admin whenever a revoke can start: the revoke waits for its          *)
(* ExecAdmin settings, and while the stack is still being created no       *)
(* settings resource is deleted.                                           *)

AuthInv ==
  /\ EngineRole \in admins
  /\ stack = "CREATE_IN_PROGRESS" =>
       \A r \in Res : r[1] = "ExecAdmin" /\ status[r] = "created" => ExecRole \in admins
  /\ NoAuthorizationFailure

LEMMA InitAuthInv ==
  ASSUME EngineRole \in InitAdmins
  PROVE  Init => AuthInv
BY DEF Init, AuthInv, NoAuthorizationFailure

(* A step that sets one resource of another kind than ExecAdmin to a      *)
(* status other than a refusal, and leaves admins and the stack alone,    *)
(* preserves AuthInv.                                                      *)
LEMMA FrameAuthInv ==
  ASSUME TypeOK, AuthInv,
         NEW q \in Res, q[1] # "ExecAdmin",
         NEW v \in ResStatus \ {"denied", "delete_denied"},
         status' = [status EXCEPT ![q] = v],
         UNCHANGED <<stack, admins>>
  PROVE  AuthInv'
BY DEF AuthInv, NoAuthorizationFailure, TypeOK

LEMMA NextAuthInv ==
  ASSUME EngineRole \in InitAdmins
  PROVE  TypeOK /\ AuthInv /\ [Next]_vars => AuthInv'
<1> SUFFICES ASSUME TypeOK, AuthInv, [Next]_vars PROVE AuthInv'
  OBVIOUS
<1>1. ASSUME NEW d \in Dbs, CreateRole(d) PROVE AuthInv'
  BY <1>1, FrameAuthInv DEF CreateRole, CanCreate, Created, catalog, ResStatus
<1>2. ASSUME NEW d \in Dbs, CreatePolicy(d) PROVE AuthInv'
  BY <1>2, FrameAuthInv DEF CreatePolicy, CanCreate, Created, ResStatus
<1>3. ASSUME NEW d \in Dbs, CreateLocation(d) PROVE AuthInv'
  BY <1>3, FrameAuthInv DEF CreateLocation, CanCreate, Created, Refused,
     catalog, ResStatus
<1>4. ASSUME NEW d \in Dbs, CreateDatabase(d) PROVE AuthInv'
  BY <1>4, FrameAuthInv DEF CreateDatabase, CanCreate, Created, ResStatus
<1>5. ASSUME NEW d \in Dbs, CreateCdkAdmin(d) PROVE AuthInv'
  BY <1>5 DEF CreateCdkAdmin, CanCreate, Created, AuthInv,
     NoAuthorizationFailure, TypeOK
<1>6. ASSUME NEW d \in Dbs, CreateExecAdmin(d) PROVE AuthInv'
  BY <1>6 DEF CreateExecAdmin, CanCreate, Created, AuthInv,
     NoAuthorizationFailure, TypeOK
<1>7. ASSUME NEW d \in Dbs, CreateRevoke(d) PROVE AuthInv'
  <2>0. /\ <<"Revoke", d>> \in Res
        /\ stack = "CREATE_IN_PROGRESS"
        /\ \A q \in Deps(<<"Revoke", d>>) : status[q] = "created"
    BY <1>7 DEF CreateRevoke, CanCreate
  <2>a. <<"ExecAdmin", d>> \in Deps(<<"Revoke", d>>)
    BY <2>0, RevokeNeedsExecAdmin
  <2>b. /\ <<"ExecAdmin", d>> \in Res
        /\ <<"ExecAdmin", d>>[1] = "ExecAdmin"
        /\ status[<<"ExecAdmin", d>>] = "created"
    BY <2>0, <2>a DEF Deps
  <2>1. ExecRole \in admins
    BY <2>0, <2>b DEF AuthInv
  <2>2. QED
    BY <1>7, <2>1, FrameAuthInv DEF CreateRevoke, CanCreate, Created, Refused,
       catalog, RevokeIamAllowedPrincipals, ResStatus
<1>8. ASSUME NEW d \in Dbs, CreateGrant(d) PROVE AuthInv'
  BY <1>8, FrameAuthInv DEF CreateGrant, CanCreate, Created, Refused, catalog,
     AuthInv, ResStatus
<1>9. ASSUME NEW d \in Dbs, DeletePolicy(d) PROVE AuthInv'
  BY <1>9 DEF DeletePolicy, CanDelete, Deleted, TearingDown, AuthInv,
     NoAuthorizationFailure, TypeOK
<1>10. ASSUME NEW d \in Dbs, DeleteLocation(d) PROVE AuthInv'
  BY <1>10 DEF DeleteLocation, CanDelete, Deleted, TearingDown, AuthInv,
     NoAuthorizationFailure, TypeOK
<1>11. ASSUME NEW d \in Dbs, DeleteDatabase(d) PROVE AuthInv'
  BY <1>11 DEF DeleteDatabase, CanDelete, Deleted, TearingDown, AuthInv,
     NoAuthorizationFailure, TypeOK
<1>12. ASSUME NEW d \in Dbs, DeleteCdkAdmin(d) PROVE AuthInv'
  BY <1>12 DEF DeleteCdkAdmin, CanDelete, Deleted, TearingDown, AuthInv,
     NoAuthorizationFailure, TypeOK, CdkLfAdminPrincipal
<1>13. ASSUME NEW d \in Dbs, DeleteExecAdmin(d) PROVE AuthInv'
  BY <1>13 DEF DeleteExecAdmin, CanDelete, Deleted, TearingDown, AuthInv,
     NoAuthorizationFailure, TypeOK
<1>14. ASSUME NEW d \in Dbs, DeleteGrant(d) PROVE AuthInv'
  BY <1>14 DEF DeleteGrant, CanDelete, Deleted, Refused, catalog, TearingDown,
     AuthInv, NoAuthorizationFailure, TypeOK
<1>15. ASSUME NEW r \in Res, DeleteInert(r) PROVE AuthInv'
  BY <1>15 DEF DeleteInert, CanDelete, Deleted, TearingDown, catalog, AuthInv,
     NoAuthorizationFailure, TypeOK
<1>16. ASSUME NEW r \in Res, CreateFails(r) PROVE AuthInv'
  BY <1>16 DEF CreateFails, CanCreate, Refused, catalog, AuthInv,
     NoAuthorizationFailure, TypeOK
<1>17. ASSUME NEW d \in Dbs, RevokeFailsAfterEffect(d) PROVE AuthInv'
  BY <1>17 DEF RevokeFailsAfterEffect, CanCreate, RevokeIamAllowedPrincipals,
     AuthInv, NoAuthorizationFailure, TypeOK
<1>18. CASE CreateComplete \/ BeginRollback \/ DeleteStack \/ TeardownEnd
  BY <1>18 DEF CreateComplete, BeginRollback, DeleteStack, TeardownEnd, DeleteRefused, catalog,
     AuthInv, NoAuthorizationFailure
<1>19. CASE UNCHANGED vars
  BY <1>19 DEF vars, AuthInv, NoAuthorizationFailure
<1>20. QED
  BY <1>1, <1>2, <1>3, <1>4, <1>5, <1>6, <1>7, <1>8, <1>9, <1>10,
     <1>11, <1>12, <1>13, <1>14, <1>15, <1>16, <1>17, <1>18, <1>19
  DEF Next, EngineStep, Faults

(* When the CloudFormation execution role is already a Lake Formation     *)
(* admin, no create or delete of removeIamAllowedPrincipal's revoke or of  *)
(* grantDataLakeLocation's grant is ever refused, for any databases,       *)
(* permission models and failures.                                         *)
THEOREM NoAuthorizationFailureTheorem ==
  ASSUME EngineRole \in InitAdmins
  PROVE  Spec => []NoAuthorizationFailure
<1>1. AuthInv => NoAuthorizationFailure
  BY DEF AuthInv
<1>2. QED
  BY <1>1, InitAuthInv, NextAuthInv, TypeCorrect, PTL DEF Spec

-----------------------------------------------------------------------------
(* Catalog restored, when the stack's own principals were not admins.      *)
(*                                                                         *)
(* CatalogRestored speaks only of final states; the invariant behind it    *)
(* says what the catalog holds at every step.  Every admin other than the  *)
(* initial ones is there because a settings resource naming it is created; *)
(* every location grant because its CfnPermissions is created; and once    *)
(* teardown has ended, no resource is created any more.  Together with     *)
(* LocationInv (registration and S3 access follow their resources) this    *)
(* gives the restored catalog.                                             *)

StackPrincipalsFresh == InitAdmins \cap {DeployRole, ExecRole} = {}

Settled == {"ROLLBACK_COMPLETE", "ROLLBACK_FAILED", "DELETE_COMPLETE", "DELETE_FAILED"}

AdminTrack ==
  /\ InitAdmins \subseteq admins
  /\ admins \subseteq InitAdmins \cup {DeployRole, ExecRole}
  /\ DeployRole \in admins =>
       \E r \in Res : r[1] = "CdkAdmin" /\ status[r] = "created"
  /\ ExecRole \in admins =>
       \E r \in Res : r[1] = "ExecAdmin" /\ status[r] = "created"

GrantTrack ==
  \A d \in locGrants :
    <<"Grant", d>> \in Res /\ status[<<"Grant", d>>] \in {"created", "delete_denied"}

TornDown ==
  /\ stack \in Settled => \A r \in Res : status[r] # "created"
  /\ stack \in {"ROLLBACK_COMPLETE", "DELETE_COMPLETE"} =>
       \A r \in Res : status[r] # "delete_denied"

RestoreInv == LocationInv /\ AdminTrack /\ GrantTrack /\ TornDown

LEMMA InitRestoreInv ==
  ASSUME StackPrincipalsFresh
  PROVE  Init => RestoreInv
BY InitLocationInv DEF Init, RestoreInv, AdminTrack, GrantTrack, TornDown,
   Settled, StackPrincipalsFresh

(* A step that changes the status of one resource that is not created or   *)
(* not a settings or grant resource, away from a final stack, and leaves   *)
(* the admins, the grants and the stack alone, keeps the admin, grant and  *)
(* teardown tracking.                                                      *)
LEMMA FrameTrack ==
  ASSUME TypeOK, AdminTrack, GrantTrack, TornDown,
         NEW q \in Res, NEW v \in ResStatus,
         status[q] \notin {"created", "delete_denied"}
           \/ q[1] \notin {"CdkAdmin", "ExecAdmin", "Grant"},
         stack \notin Settled,
         status' = [status EXCEPT ![q] = v],
         UNCHANGED <<stack, admins, locGrants>>
  PROVE  AdminTrack' /\ GrantTrack' /\ TornDown'
<1>1. \A r \in Res : /\ r[1] \in {"CdkAdmin", "ExecAdmin", "Grant"}
                     /\ status[r] \in {"created", "delete_denied"}
                     => status'[r] = status[r]
  BY DEF TypeOK
<1>g. \A d \in Dbs : <<"Grant", d>>[1] = "Grant"
  OBVIOUS
<1>2. AdminTrack'
  BY <1>1 DEF AdminTrack
<1>3. GrantTrack'
  BY <1>1, <1>g DEF GrantTrack, TypeOK
<1>4. TornDown'
  BY DEF TornDown, Settled
<1>5. QED
  BY <1>2, <1>3, <1>4

LEMMA NextRestoreInv ==
  ASSUME StackPrincipalsFresh
  PROVE  TypeOK /\ RestoreInv /\ [Next]_vars => RestoreInv'
<1> SUFFICES ASSUME TypeOK, RestoreInv, [Next]_vars PROVE RestoreInv'
  OBVIOUS
<1>0. LocationInv'
  BY NextLocationInv DEF RestoreInv
<1> SUFFICES AdminTrack' /\ GrantTrack' /\ TornDown'
  BY <1>0 DEF RestoreInv
<1> DEFINE Frame(q, v) ==
      /\ q \in Res /\ v \in ResStatus
      /\ status[q] \notin {"created", "delete_denied"}
           \/ q[1] \notin {"CdkAdmin", "ExecAdmin", "Grant"}
      /\ stack \notin Settled
      /\ status' = [status EXCEPT ![q] = v]
      /\ UNCHANGED <<stack, admins, locGrants>>
<1>f. ASSUME NEW q, NEW v, Frame(q, v) PROVE AdminTrack' /\ GrantTrack' /\ TornDown'
  BY <1>f, FrameTrack DEF RestoreInv
<1>c. stack = "CREATE_IN_PROGRESS" => stack \notin Settled
  BY DEF Settled
<1>t. TearingDown => stack \notin Settled
  BY DEF Settled, TearingDown
<1>1. ASSUME NEW d \in Dbs, CreateRole(d) PROVE AdminTrack' /\ GrantTrack' /\ TornDown'
  BY <1>1, <1>c, <1>f DEF CreateRole, CanCreate, Created, catalog, ResStatus
<1>2. ASSUME NEW d \in Dbs, CreatePolicy(d) PROVE AdminTrack' /\ GrantTrack' /\ TornDown'
  BY <1>2, <1>c, <1>f DEF CreatePolicy, CanCreate, Created, ResStatus
<1>3. ASSUME NEW d \in Dbs, CreateLocation(d) PROVE AdminTrack' /\ GrantTrack' /\ TornDown'
  BY <1>3, <1>c, <1>f DEF CreateLocation, CanCreate, Created, Refused, catalog, ResStatus
<1>4. ASSUME NEW d \in Dbs, CreateDatabase(d) PROVE AdminTrack' /\ GrantTrack' /\ TornDown'
  BY <1>4, <1>c, <1>f DEF CreateDatabase, CanCreate, Created, ResStatus
<1>5. ASSUME NEW d \in Dbs, CreateCdkAdmin(d) PROVE AdminTrack' /\ GrantTrack' /\ TornDown'
  BY <1>5, <1>c DEF CreateCdkAdmin, CanCreate, Created, CdkLfAdminPrincipal,
     AdminTrack, GrantTrack, TornDown, TypeOK, RestoreInv
<1>6. ASSUME NEW d \in Dbs, CreateExecAdmin(d) PROVE AdminTrack' /\ GrantTrack' /\ TornDown'
  BY <1>6, <1>c DEF CreateExecAdmin, CanCreate, Created,
     AdminTrack, GrantTrack, TornDown, TypeOK, RestoreInv
<1>7. ASSUME NEW d \in Dbs, CreateRevoke(d) PROVE AdminTrack' /\ GrantTrack' /\ TornDown'
  BY <1>7, <1>c, <1>f DEF CreateRevoke, CanCreate, Created, Refused, catalog,
     RevokeIamAllowedPrincipals, ResStatus
<1>8. ASSUME NEW d \in Dbs, CreateGrant(d) PROVE AdminTrack' /\ GrantTrack' /\ TornDown'
  <2>1. CASE registered[d] = "none" \/ EngineRole \notin admins
    BY <1>8, <2>1, <1>c, <1>f DEF CreateGrant, CanCreate, Refused, catalog, ResStatus
  <2>2. CASE registered[d] # "none" /\ EngineRole \in admins
    <3>1. /\ status' = [status EXCEPT ![<<"Grant", d>>] = "created"]
          /\ locGrants' = locGrants \cup {d}
          /\ <<"Grant", d>> \in Res /\ status[<<"Grant", d>>] = "none"
          /\ UNCHANGED <<stack, admins>>
          /\ stack \notin Settled
      BY <1>8, <2>2, <1>c DEF CreateGrant, CanCreate, Created
    <3>2. \A r \in Res : r[1] \in {"CdkAdmin", "ExecAdmin"} => status'[r] = status[r]
      BY <3>1 DEF TypeOK
    <3>3. QED
      BY <3>1, <3>2 DEF AdminTrack, GrantTrack, TornDown, TypeOK, RestoreInv, Settled
  <2>3. QED
    BY <2>1, <2>2
<1>9. ASSUME NEW d \in Dbs, DeletePolicy(d) PROVE AdminTrack' /\ GrantTrack' /\ TornDown'
  BY <1>9, <1>t, <1>f DEF DeletePolicy, CanDelete, Deleted, ResStatus
<1>10. ASSUME NEW d \in Dbs, DeleteLocation(d) PROVE AdminTrack' /\ GrantTrack' /\ TornDown'
  BY <1>10, <1>t, <1>f DEF DeleteLocation, CanDelete, Deleted, ResStatus
<1>11. ASSUME NEW d \in Dbs, DeleteDatabase(d) PROVE AdminTrack' /\ GrantTrack' /\ TornDown'
  BY <1>11, <1>t, <1>f DEF DeleteDatabase, CanDelete, Deleted, ResStatus
<1>12. ASSUME NEW d \in Dbs, DeleteCdkAdmin(d) PROVE AdminTrack' /\ GrantTrack' /\ TornDown'
  <2>1. /\ status' = [status EXCEPT ![<<"CdkAdmin", d>>] = "deleted"]
        /\ admins' = admins \ {DeployRole}
        /\ <<"CdkAdmin", d>> \in Res
        /\ UNCHANGED <<stack, locGrants>>
        /\ stack \notin Settled
    BY <1>12, <1>t DEF DeleteCdkAdmin, CanDelete, Deleted, CdkLfAdminPrincipal
  <2>2. \A r \in Res : r[1] \in {"ExecAdmin", "Grant"} => status'[r] = status[r]
    BY <2>1 DEF TypeOK
  <2>3. \A e \in Dbs : <<"Grant", e>>[1] = "Grant"
    OBVIOUS
  <2>4. QED
    BY <2>1, <2>2, <2>3 DEF AdminTrack, GrantTrack, TornDown, TypeOK, RestoreInv,
       Settled, StackPrincipalsFresh
<1>13. ASSUME NEW d \in Dbs, DeleteExecAdmin(d) PROVE AdminTrack' /\ GrantTrack' /\ TornDown'
  <2>1. /\ status' = [status EXCEPT ![<<"ExecAdmin", d>>] = "deleted"]
        /\ admins' = admins \ {ExecRole}
        /\ <<"ExecAdmin", d>> \in Res
        /\ UNCHANGED <<stack, locGrants>>
        /\ stack \notin Settled
    BY <1>13, <1>t DEF DeleteExecAdmin, CanDelete, Deleted
  <2>2. \A r \in Res : r[1] \in {"CdkAdmin", "Grant"} => status'[r] = status[r]
    BY <2>1 DEF TypeOK
  <2>3. \A e \in Dbs : <<"Grant", e>>[1] = "Grant"
    OBVIOUS
  <2>4. QED
    BY <2>1, <2>2, <2>3 DEF AdminTrack, GrantTrack, TornDown, TypeOK, RestoreInv,
       Settled, StackPrincipalsFresh
<1>14. ASSUME NEW d \in Dbs, DeleteGrant(d) PROVE AdminTrack' /\ GrantTrack' /\ TornDown'
  <2>0. /\ <<"Grant", d>> \in Res /\ status[<<"Grant", d>>] = "created"
        /\ stack \notin Settled
    BY <1>14, <1>t DEF DeleteGrant, CanDelete
  <2>1. CASE EngineRole \in admins
    <3>1. /\ status' = [status EXCEPT ![<<"Grant", d>>] = "deleted"]
          /\ locGrants' = locGrants \ {d}
          /\ UNCHANGED <<stack, admins>>
      BY <1>14, <2>1 DEF DeleteGrant, Deleted
    <3>2. \A r \in Res : r[1] \in {"CdkAdmin", "ExecAdmin"} => status'[r] = status[r]
      BY <2>0, <3>1 DEF TypeOK
    <3>3. \A e \in locGrants' : status'[<<"Grant", e>>] = status[<<"Grant", e>>]
      BY <2>0, <3>1 DEF TypeOK
    <3>4. QED
      BY <2>0, <3>1, <3>2, <3>3 DEF AdminTrack, GrantTrack, TornDown, RestoreInv, Settled
  <2>2. CASE EngineRole \notin admins
    <3>1. /\ status' = [status EXCEPT ![<<"Grant", d>>] = "delete_denied"]
          /\ UNCHANGED <<stack, admins, locGrants>>
      BY <1>14, <2>2 DEF DeleteGrant, Refused, catalog
    <3>2. \A r \in Res : r[1] \in {"CdkAdmin", "ExecAdmin"} => status'[r] = status[r]
      BY <2>0, <3>1 DEF TypeOK
    <3>3. \A e \in locGrants : status'[<<"Grant", e>>] \in {"created", "delete_denied"}
      BY <2>0, <3>1 DEF TypeOK, GrantTrack, RestoreInv
    <3>4. QED
      BY <2>0, <3>1, <3>2, <3>3 DEF AdminTrack, GrantTrack, TornDown, RestoreInv, Settled
  <2>3. QED
    BY <2>1, <2>2
<1>15. ASSUME NEW r \in Res, DeleteInert(r) PROVE AdminTrack' /\ GrantTrack' /\ TornDown'
  BY <1>15, <1>t, <1>f DEF DeleteInert, CanDelete, Deleted, catalog, ResStatus
<1>16. ASSUME NEW r \in Res, CreateFails(r) PROVE AdminTrack' /\ GrantTrack' /\ TornDown'
  BY <1>16, <1>c, <1>f DEF CreateFails, CanCreate, Refused, catalog, ResStatus
<1>17. ASSUME NEW d \in Dbs, RevokeFailsAfterEffect(d) PROVE AdminTrack' /\ GrantTrack' /\ TornDown'
  BY <1>17, <1>c, <1>f DEF RevokeFailsAfterEffect, CanCreate,
     RevokeIamAllowedPrincipals, ResStatus
<1>18. CASE CreateComplete \/ BeginRollback \/ DeleteStack
  BY <1>18 DEF CreateComplete, BeginRollback, DeleteStack, catalog,
     AdminTrack, GrantTrack, TornDown, RestoreInv, Settled
<1>19. CASE TeardownEnd
  <2>1. /\ \A r \in Res : status[r] # "created"
        /\ stack' \in Settled
        /\ stack' \in {"ROLLBACK_COMPLETE", "DELETE_COMPLETE"} =>
             \A r \in Res : status[r] # "delete_denied"
        /\ UNCHANGED <<status, admins, locGrants>>
    BY <1>19 DEF TeardownEnd, DeleteRefused, TearingDown, catalog, Settled
  <2>2. QED
    BY <2>1 DEF AdminTrack, GrantTrack, TornDown, RestoreInv
<1>20. CASE UNCHANGED vars
  BY <1>20 DEF vars, AdminTrack, GrantTrack, TornDown, RestoreInv
<1>21. QED
  BY <1>1, <1>2, <1>3, <1>4, <1>5, <1>6, <1>7, <1>8, <1>9, <1>10,
     <1>11, <1>12, <1>13, <1>14, <1>15, <1>16, <1>17, <1>18, <1>19, <1>20
  DEF Next, EngineStep, Faults

(* When neither the synthesizer's deploy role nor the remover's exec role  *)
(* was a Lake Formation admin before the stack, a rolled-back or deleted   *)
(* stack leaves the catalog as it found it: the APPEND settings of         *)
(* makeCdkLfAdmin and grantLfAdminRole take away exactly what they added,  *)
(* and no registration, role access or location grant is left behind.     *)
THEOREM CatalogRestoredTheorem ==
  ASSUME StackPrincipalsFresh
  PROVE  Spec => []CatalogRestored
<1>1. RestoreInv => CatalogRestored
  <2> SUFFICES ASSUME RestoreInv, stack \in {"ROLLBACK_COMPLETE", "DELETE_COMPLETE"}
               PROVE  /\ admins = InitAdmins
                      /\ s3Access = {}
                      /\ locGrants = {}
                      /\ \A d \in Dbs : registered[d] = "none"
    BY DEF CatalogRestored
  <2>1. \A r \in Res : status[r] \notin {"created", "delete_denied"}
    BY DEF RestoreInv, TornDown, Settled
  <2>2. admins = InitAdmins
    BY <2>1 DEF RestoreInv, AdminTrack
  <2>3. locGrants = {}
    BY <2>1 DEF RestoreInv, GrantTrack
  <2>4. s3Access = {} /\ \A d \in Dbs : registered[d] = "none"
    BY <2>1, LocationResources DEF RestoreInv, LocationInv, LocStatus, PolStatus, TypeOK
  <2>5. QED
    BY <2>2, <2>3, <2>4
<1>2. QED
  BY <1>1, InitRestoreInv, NextRestoreInv, TypeCorrect, PTL DEF Spec

=============================================================================

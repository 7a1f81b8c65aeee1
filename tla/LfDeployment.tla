---------------------------- MODULE LfDeployment ----------------------------
(***************************************************************************)
(* One CloudFormation stack holding DataCatalogDatabase constructs, each   *)
(* assembled from the Lake Formation helpers of                            *)
(* test/e2e/datazone-msk.e2e.test.ts (lines 135-355):                      *)
(*   registerS3Location      -> Role, Policy (grantReadWrite), Location    *)
(*   makeCdkLfAdmin          -> CdkAdmin   (DataLakeSettings, APPEND)      *)
(*   grantLfAdminRole        -> ExecAdmin  (DataLakeSettings, APPEND)      *)
(*   removeIamAllowedPrincipal -> Revoke   (AwsCustomResource, onCreate)   *)
(*   grantDataLakeLocation   -> Grant      (CfnPermissions)                *)
(* plus the Glue Database the composition creates.                         *)
(*                                                                         *)
(* The provisioning engine creates a resource once every resource it       *)
(* depends on is created, in any order otherwise; a failed create rolls    *)
(* the stack back, deleting resources in reverse dependency order; a       *)
(* completed stack may later be deleted the same way.  Each create or      *)
(* delete is one atomic step of the catalog, S3/IAM or Glue, with the      *)
(* checks those services make at that moment.                              *)
(***************************************************************************)
EXTENDS FiniteSets

CONSTANTS
  Dbs,            \* the DataCatalogDatabase constructs of the stack
  PermModel,      \* [Dbs -> PermissionModels]: the model each one is given
  RemovalPolicy,  \* [Dbs -> {"DESTROY", "RETAIN"}]: of the Glue database
  EngineRole,     \* identity CloudFormation acts under (cfn exec role)
  DeployRole,     \* the synthesizer's deploy role (assumed by the CLI)
  ExecRole,       \* execution role of the IAM_ALLOWED_PRINCIPALS remover
  InitAdmins      \* Lake Formation admins before the stack is deployed

PermissionModels == {"IAM", "HYBRID", "LAKE_FORMATION"}
Principals == {EngineRole, DeployRole, ExecRole}

ASSUME ConstantsAssumption ==
  /\ IsFiniteSet(Dbs)
  /\ PermModel \in [Dbs -> PermissionModels]
  /\ RemovalPolicy \in [Dbs -> {"DESTROY", "RETAIN"}]
  /\ EngineRole # DeployRole /\ EngineRole # ExecRole /\ DeployRole # ExecRole
  /\ InitAdmins \subseteq Principals

VARIABLES
  status,      \* [Res -> ResStatus]: engine's view of every resource
  stack,       \* the stack status
  admins,      \* Lake Formation data lake administrators
  s3Access,    \* dbs whose data-access role holds read-write on its prefix
  registered,  \* [Dbs -> {"none", "lf", "hybrid"}]: registered S3 location
  dbExists,    \* dbs whose Glue database exists
  iap,         \* dbs still carrying the IAM_ALLOWED_PRINCIPALS permission
  locGrants    \* dbs whose DATA_LOCATION_ACCESS grant is in place

vars == <<status, stack, admins, s3Access, registered, dbExists, iap, locGrants>>
catalog == <<admins, s3Access, registered, dbExists, iap, locGrants>>

Kinds == {"Role", "Policy", "Location", "Database",
          "CdkAdmin", "ExecAdmin", "Revoke", "Grant"}

(***************************************************************************)
(* The PermissionModel resolver of the composition: IAM databases get no   *)
(* admin grant, no revoke and no catalog grant.                            *)
(***************************************************************************)
KindsOf(d) ==
  IF PermModel[d] = "IAM" THEN {"Role", "Policy", "Location", "Database"}
                          ELSE Kinds

Res == {r \in Kinds \X Dbs : r[1] \in KindsOf(r[2])}

(***************************************************************************)
(* Dependency edges <<dependent, dependency>> inside one database.         *)
(* registerS3Location: the policy is attached to the role, the location    *)
(* names the role's ARN, and the location is made to depend on the         *)
(* read-write grant.                                                       *)
(***************************************************************************)
(* Mutant: the location is not made to depend on the read-write grant. *)
RegisterS3LocationEdgesNoGrantDep ==
  {<<"Policy", "Role">>, <<"Location", "Role">>}

RegisterS3LocationEdges ==
  {<<"Policy", "Role">>, <<"Location", "Role">>, <<"Location", "Policy">>}

(* Mutants: the revoke not ordered after its role's admin grant; the      *)
(* location grant not ordered after the location.                          *)
CatalogDatabaseEdgesNoAdminDep ==
  {<<"Revoke", "Database">>, <<"Grant", "Location">>, <<"Grant", "CdkAdmin">>}
CatalogDatabaseEdgesNoLocationDep ==
  {<<"Revoke", "Database">>, <<"Revoke", "ExecAdmin">>, <<"Grant", "CdkAdmin">>}

(* The composition orders the revoke after the database and the admin      *)
(* grant of its role, and the location grant after the location and the    *)
(* admin grant of the engine.                                              *)
CatalogDatabaseEdges ==
  {<<"Revoke", "Database">>, <<"Revoke", "ExecAdmin">>,
   <<"Grant", "Location">>, <<"Grant", "CdkAdmin">>}

KindEdges == RegisterS3LocationEdges \cup CatalogDatabaseEdges

Deps(r) == {q \in Res : q[2] = r[2] /\ <<r[1], q[1]>> \in KindEdges}

ResStatus == {"none", "created", "failed", "rejected", "denied",
              "deleted", "delete_denied"}
StackStatus == {"CREATE_IN_PROGRESS", "CREATE_COMPLETE",
                "ROLLBACK_IN_PROGRESS", "ROLLBACK_COMPLETE", "ROLLBACK_FAILED",
                "DELETE_IN_PROGRESS", "DELETE_COMPLETE", "DELETE_FAILED"}

TypeOK ==
  /\ status \in [Res -> ResStatus]
  /\ stack \in StackStatus
  /\ admins \subseteq Principals
  /\ s3Access \subseteq Dbs
  /\ registered \in [Dbs -> {"none", "lf", "hybrid"}]
  /\ dbExists \subseteq Dbs
  /\ iap \subseteq Dbs
  /\ locGrants \subseteq Dbs

Init ==
  /\ status = [r \in Res |-> "none"]
  /\ stack = "CREATE_IN_PROGRESS"
  /\ admins = InitAdmins
  /\ s3Access = {}
  /\ registered = [d \in Dbs |-> "none"]
  /\ dbExists = {}
  /\ iap = {}
  /\ locGrants = {}

-----------------------------------------------------------------------------
(* Creation *)

Failing == \E r \in Res : status[r] \in {"failed", "rejected", "denied"}

(* The engine starts a resource once all it depends on is created. *)
CanCreate(r) ==
  /\ r \in Res
  /\ stack = "CREATE_IN_PROGRESS"
  /\ ~Failing
  /\ status[r] = "none"
  /\ \A q \in Deps(r) : status[q] = "created"

Created(r) == status' = [status EXCEPT ![r] = "created"]
Refused(r, why) ==
  /\ status' = [status EXCEPT ![r] = why]
  /\ UNCHANGED <<stack, catalog>>

(* new Role(...DataAccessRole): nothing the catalog observes. *)
CreateRole(d) ==
  /\ CanCreate(<<"Role", d>>)
  /\ Created(<<"Role", d>>)
  /\ UNCHANGED <<stack, catalog>>

(* locationBucket.grantReadWrite(lfDataAccessRole, locationPrefix) *)
CreatePolicy(d) ==
  /\ CanCreate(<<"Policy", d>>)
  /\ Created(<<"Policy", d>>)
  /\ s3Access' = s3Access \cup {d}
  /\ UNCHANGED <<stack, admins, registered, dbExists, iap, locGrants>>

(* Mutant: the flag keyed on the wrong model. *)
HybridAccessEnabledLf(d) == PermModel[d] = "LAKE_FORMATION"

HybridAccessEnabled(d) == PermModel[d] = "HYBRID"

(* Mutant: the access mode passed through as the registration. *)
CreateLocationRawMode(d) ==
  /\ CanCreate(<<"Location", d>>)
  /\ IF d \in s3Access
       THEN /\ Created(<<"Location", d>>)
            /\ registered' = [registered EXCEPT ![d] = PermModel[d]]
            /\ UNCHANGED <<stack, admins, s3Access, dbExists, iap, locGrants>>
       ELSE Refused(<<"Location", d>>, "rejected")

(* The data lake location: the catalog checks that the role can reach the  *)
(* prefix when the location is registered.                                 *)
CreateLocation(d) ==
  /\ CanCreate(<<"Location", d>>)
  /\ IF d \in s3Access
       THEN /\ Created(<<"Location", d>>)
            /\ registered' = [registered EXCEPT ![d] =
                                IF HybridAccessEnabled(d) THEN "hybrid" ELSE "lf"]
            /\ UNCHANGED <<stack, admins, s3Access, dbExists, iap, locGrants>>
       ELSE Refused(<<"Location", d>>, "rejected")

(* The Glue database; the catalog attaches IAM_ALLOWED_PRINCIPALS to it. *)
CreateDatabase(d) ==
  /\ CanCreate(<<"Database", d>>)
  /\ Created(<<"Database", d>>)
  /\ dbExists' = dbExists \cup {d}
  /\ iap' = iap \cup {d}
  /\ UNCHANGED <<stack, admins, s3Access, registered, locGrants>>

(* makeCdkLfAdmin: APPEND the synthesizer's deployRoleArn to the admins. *)
CdkLfAdminPrincipal == DeployRole

(* Mutant: mutationType REPLACE instead of APPEND. *)
CreateCdkAdminReplace(d) ==
  /\ CanCreate(<<"CdkAdmin", d>>)
  /\ Created(<<"CdkAdmin", d>>)
  /\ admins' = {CdkLfAdminPrincipal}
  /\ UNCHANGED <<stack, s3Access, registered, dbExists, iap, locGrants>>

CreateCdkAdmin(d) ==
  /\ CanCreate(<<"CdkAdmin", d>>)
  /\ Created(<<"CdkAdmin", d>>)
  /\ admins' = admins \cup {CdkLfAdminPrincipal}
  /\ UNCHANGED <<stack, s3Access, registered, dbExists, iap, locGrants>>

(* Mutant: grantLfAdminRole called with the CDK role, not execRole. *)
CreateExecAdminWrongRole(d) ==
  /\ CanCreate(<<"ExecAdmin", d>>)
  /\ Created(<<"ExecAdmin", d>>)
  /\ admins' = admins \cup {CdkLfAdminPrincipal}
  /\ UNCHANGED <<stack, s3Access, registered, dbExists, iap, locGrants>>

(* grantLfAdminRole(execRole): APPEND the remover's role to the admins. *)
CreateExecAdmin(d) ==
  /\ CanCreate(<<"ExecAdmin", d>>)
  /\ Created(<<"ExecAdmin", d>>)
  /\ admins' = admins \cup {ExecRole}
  /\ UNCHANGED <<stack, s3Access, registered, dbExists, iap, locGrants>>

(* removeIamAllowedPrincipal onCreate: RevokePermissions ALL from          *)
(* IAM_ALLOWED_PRINCIPALS on the database, called as execRole.             *)
RevokeIamAllowedPrincipals(d) ==
  /\ iap' = iap \ {d}
  /\ UNCHANGED <<stack, admins, s3Access, registered, dbExists, locGrants>>

CreateRevoke(d) ==
  /\ CanCreate(<<"Revoke", d>>)
  /\ CASE d \notin dbExists -> Refused(<<"Revoke", d>>, "rejected")
       [] ExecRole \notin admins -> Refused(<<"Revoke", d>>, "denied")
       [] OTHER -> Created(<<"Revoke", d>>) /\ RevokeIamAllowedPrincipals(d)

(* grantDataLakeLocation: DATA_LOCATION_ACCESS on the registered location, *)
(* granted by CloudFormation's own identity.                               *)
CreateGrant(d) ==
  /\ CanCreate(<<"Grant", d>>)
  /\ CASE registered[d] = "none" -> Refused(<<"Grant", d>>, "rejected")
       [] EngineRole \notin admins -> Refused(<<"Grant", d>>, "denied")
       [] OTHER -> /\ Created(<<"Grant", d>>)
                   /\ locGrants' = locGrants \cup {d}
                   /\ UNCHANGED <<stack, admins, s3Access, registered,
                                  dbExists, iap>>

(* A create fails for a reason outside the model (throttling, timeout). *)
CreateFails(r) ==
  /\ CanCreate(r)
  /\ Refused(r, "failed")

(* The remover's Lambda makes the SDK call and then times out or loses its *)
(* response: the revoke is applied but the resource is reported failed.    *)
RevokeFailsAfterEffect(d) ==
  /\ CanCreate(<<"Revoke", d>>)
  /\ d \in dbExists /\ ExecRole \in admins
  /\ status' = [status EXCEPT ![<<"Revoke", d>>] = "failed"]
  /\ RevokeIamAllowedPrincipals(d)

CreateComplete ==
  /\ stack = "CREATE_IN_PROGRESS"
  /\ \A r \in Res : status[r] = "created"
  /\ stack' = "CREATE_COMPLETE"
  /\ UNCHANGED <<status, catalog>>

BeginRollback ==
  /\ stack = "CREATE_IN_PROGRESS"
  /\ Failing
  /\ stack' = "ROLLBACK_IN_PROGRESS"
  /\ UNCHANGED <<status, catalog>>

(* The user deletes a completed stack. *)
DeleteStack ==
  /\ stack = "CREATE_COMPLETE"
  /\ stack' = "DELETE_IN_PROGRESS"
  /\ UNCHANGED <<status, catalog>>

-----------------------------------------------------------------------------
(* Deletion, during a rollback or a stack deletion *)

TearingDown == stack \in {"ROLLBACK_IN_PROGRESS", "DELETE_IN_PROGRESS"}

(* A created resource is deleted once nothing created depends on it. *)
CanDelete(r) ==
  /\ r \in Res
  /\ TearingDown
  /\ status[r] = "created"
  /\ \A q \in Res : r \in Deps(q) => status[q] # "created"

Deleted(r) == status' = [status EXCEPT ![r] = "deleted"]

(* Role, the Revoke custom resource (it has no onDelete call) and a        *)
(* retained database are deleted without touching the catalog.             *)
DeleteInert(r) ==
  /\ CanDelete(r)
  /\ \/ r[1] \in {"Role", "Revoke"}
     \/ r[1] = "Database" /\ RemovalPolicy[r[2]] = "RETAIN"
  /\ Deleted(r)
  /\ UNCHANGED <<stack, catalog>>

DeletePolicy(d) ==
  /\ CanDelete(<<"Policy", d>>)
  /\ Deleted(<<"Policy", d>>)
  /\ s3Access' = s3Access \ {d}
  /\ UNCHANGED <<stack, admins, registered, dbExists, iap, locGrants>>

DeleteLocation(d) ==
  /\ CanDelete(<<"Location", d>>)
  /\ Deleted(<<"Location", d>>)
  /\ registered' = [registered EXCEPT ![d] = "none"]
  /\ UNCHANGED <<stack, admins, s3Access, dbExists, iap, locGrants>>

DeleteDatabase(d) ==
  /\ CanDelete(<<"Database", d>>)
  /\ RemovalPolicy[d] = "DESTROY"
  /\ Deleted(<<"Database", d>>)
  /\ dbExists' = dbExists \ {d}
  /\ iap' = iap \ {d}
  /\ UNCHANGED <<stack, admins, s3Access, registered, locGrants>>

(* Deleting APPEND settings removes the principals they appended. *)
DeleteCdkAdmin(d) ==
  /\ CanDelete(<<"CdkAdmin", d>>)
  /\ Deleted(<<"CdkAdmin", d>>)
  /\ admins' = admins \ {CdkLfAdminPrincipal}
  /\ UNCHANGED <<stack, s3Access, registered, dbExists, iap, locGrants>>

DeleteExecAdmin(d) ==
  /\ CanDelete(<<"ExecAdmin", d>>)
  /\ Deleted(<<"ExecAdmin", d>>)
  /\ admins' = admins \ {ExecRole}
  /\ UNCHANGED <<stack, s3Access, registered, dbExists, iap, locGrants>>

(* Deleting the CfnPermissions revokes the grant, again as the engine. *)
DeleteGrant(d) ==
  /\ CanDelete(<<"Grant", d>>)
  /\ IF EngineRole \in admins
       THEN /\ Deleted(<<"Grant", d>>)
            /\ locGrants' = locGrants \ {d}
            /\ UNCHANGED <<stack, admins, s3Access, registered, dbExists, iap>>
       ELSE Refused(<<"Grant", d>>, "delete_denied")

DeleteRefused == \E r \in Res : status[r] = "delete_denied"

(* The teardown fails if a delete was refused and completes otherwise. *)
TeardownEnd ==
  /\ TearingDown
  /\ \A r \in Res : status[r] # "created"
  /\ stack' = CASE stack = "ROLLBACK_IN_PROGRESS" /\ DeleteRefused -> "ROLLBACK_FAILED"
                [] stack = "ROLLBACK_IN_PROGRESS" /\ ~DeleteRefused -> "ROLLBACK_COMPLETE"
                [] stack = "DELETE_IN_PROGRESS" /\ DeleteRefused -> "DELETE_FAILED"
                [] stack = "DELETE_IN_PROGRESS" /\ ~DeleteRefused -> "DELETE_COMPLETE"
  /\ UNCHANGED <<status, catalog>>

-----------------------------------------------------------------------------

EngineStep ==
  \/ \E d \in Dbs :
       \/ CreateRole(d) \/ CreatePolicy(d) \/ CreateLocation(d)
       \/ CreateDatabase(d) \/ CreateCdkAdmin(d) \/ CreateExecAdmin(d)
       \/ CreateRevoke(d) \/ CreateGrant(d)
       \/ DeletePolicy(d) \/ DeleteLocation(d) \/ DeleteDatabase(d)
       \/ DeleteCdkAdmin(d) \/ DeleteExecAdmin(d) \/ DeleteGrant(d)
  \/ \E r \in Res : DeleteInert(r)
  \/ CreateComplete \/ BeginRollback \/ TeardownEnd

Faults ==
  \/ \E r \in Res : CreateFails(r)
  \/ \E d \in Dbs : RevokeFailsAfterEffect(d)

Next == EngineStep \/ Faults \/ DeleteStack

(* CloudFormation keeps working on a stack until it reaches a final status. *)
Spec == Init /\ [][Next]_vars /\ WF_vars(EngineStep)

-----------------------------------------------------------------------------
(* Properties *)

InProgress == {"CREATE_IN_PROGRESS", "ROLLBACK_IN_PROGRESS", "DELETE_IN_PROGRESS"}

(* No create or delete of the stack is refused by Lake Formation for lack  *)
(* of admin rights: the admin grants the composition declares are in place *)
(* before the revoke and the location grant run (removeIamAllowedPrincipal *)
(* and grantDataLakeLocation), and stay in place until those are deleted.  *)
NoAuthorizationFailure ==
  \A r \in Res : status[r] \notin {"denied", "delete_denied"}

(* A registered S3 location's data-access role can always reach the       *)
(* prefix: registerS3Location's dependency on the read-write grant keeps   *)
(* the grant in place from before registration until after deregistration, *)
(* through rollbacks and stack deletion.                                   *)
LocationAccessHeld ==
  \A d \in Dbs : registered[d] # "none" => d \in s3Access

(* Once the stack is complete each database is governed as its permission *)
(* model says: the location is hybrid-enabled exactly for HYBRID, the      *)
(* IAM_ALLOWED_PRINCIPALS permission survives exactly for IAM, and the     *)
(* explicit location grant exists exactly for HYBRID and LAKE_FORMATION.   *)
DeployedMatchesModel ==
  stack = "CREATE_COMPLETE" =>
    \A d \in Dbs :
      /\ registered[d] = IF PermModel[d] = "HYBRID" THEN "hybrid" ELSE "lf"
      /\ d \in iap <=> PermModel[d] = "IAM"
      /\ d \in locGrants <=> PermModel[d] # "IAM"

(* A rolled-back or deleted stack leaves the catalog as it found it: the   *)
(* admin set is the one before deployment (the APPEND settings removed     *)
(* only what they added), no location stays registered, no role access or *)
(* location grant is left behind.                                          *)
CatalogRestored ==
  stack \in {"ROLLBACK_COMPLETE", "DELETE_COMPLETE"} =>
    /\ admins = InitAdmins
    /\ s3Access = {}
    /\ locGrants = {}
    /\ \A d \in Dbs : registered[d] = "none"

(* A deployment that no external fault interrupts reaches CREATE_COMPLETE: *)
(* no service refuses a step because the declared order let it run early. *)
DeploySucceeds ==
  <>(stack = "CREATE_COMPLETE" \/ \E r \in Res : status[r] = "failed")

(* LfDeployment implements the catalog contract: the catalog variables     *)
(* are the contract's catalog, and every step is one of its steps or a     *)
(* stutter, so the stack reaches its stable statuses only with the catalog *)
(* the contract names and moves the admins only in the allowed direction.  *)
Contract == INSTANCE CatalogContract WITH
  catalog <- [admins |-> admins, s3Access |-> s3Access, registered |-> registered,
              dbExists |-> dbExists, iap |-> iap, locGrants |-> locGrants],
  Retained <- {d \in Dbs : RemovalPolicy[d] = "RETAIN"},
  StackAdmins <- {CdkLfAdminPrincipal, ExecRole}

ImplementsContract == Contract!Spec

=============================================================================

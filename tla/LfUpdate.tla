------------------------------ MODULE LfUpdate ------------------------------
(***************************************************************************)
(* A stack update of DataCatalogDatabase constructs: the deployed (old)    *)
(* template is replaced by a new one in which a database may be added,     *)
(* removed or renamed.  Only the resources an update of this kind touches  *)
(* in the catalog are kept: the Glue database, the two APPEND admin        *)
(* settings (makeCdkLfAdmin, grantLfAdminRole) and the                     *)
(* IAM_ALLOWED_PRINCIPALS remover (removeIamAllowedPrincipal); the         *)
(* location resources of LfDeployment do not change with a rename and do  *)
(* not touch the admins.                                                   *)
(*                                                                         *)
(* The engine first creates new resources, replaces those whose names      *)
(* changed and sends Update to changed custom resources, in dependency     *)
(* order; then, in the cleanup phase, deletes the removed resources and    *)
(* the old physical databases in reverse dependency order.                 *)
(***************************************************************************)
EXTENDS FiniteSets

CONSTANTS
  Dbs,          \* the DataCatalogDatabase constructs of either template
  PermModel,    \* [Dbs -> PermissionModels], fixed for a construct
  Names,        \* Glue database names
  None,         \* the construct is absent from a template
  DeployRole,   \* the synthesizer's deploy role, made admin by makeCdkLfAdmin
  ExecRole,     \* the remover's execution role
  InitAdmins    \* admins other than the stack's own

PermissionModels == {"IAM", "HYBRID", "LAKE_FORMATION"}

ASSUME UpdateAssumption ==
  /\ IsFiniteSet(Dbs) /\ IsFiniteSet(Names) /\ None \notin Names
  /\ PermModel \in [Dbs -> PermissionModels]
  /\ DeployRole # ExecRole
  /\ InitAdmins \cap {DeployRole, ExecRole} = {}

VARIABLES
  oldName,   \* [Dbs -> Names \cup {None}]: the deployed template
  newName,   \* [Dbs -> Names \cup {None}]: the template being deployed
  status,    \* [Res -> UStatus]: what the update still has to do
  stack,     \* the stack status
  admins,    \* Lake Formation admins
  dbNames,   \* Glue databases that exist
  iap        \* databases still carrying IAM_ALLOWED_PRINCIPALS

vars == <<oldName, newName, status, stack, admins, dbNames, iap>>

UKinds == {"Database", "CdkAdmin", "ExecAdmin", "Revoke"}
Res == {r \in UKinds \X Dbs : r[1] = "Database" \/ PermModel[r[2]] # "IAM"}

(* Revoke depends on its database and on its exec role's admin settings. *)
Deps(r) ==
  IF r[1] = "Revoke" THEN {<<"Database", r[2]>>, <<"ExecAdmin", r[2]>>} ELSE {}

(* idle: nothing to do; todo: to create, replace or update; replaced: the  *)
(* new database exists, the old one is still to delete; stale: to delete.  *)
UStatus == {"idle", "todo", "done", "denied", "failed", "replaced", "stale", "gone"}
UStack == {"UPDATE_IN_PROGRESS", "UPDATE_COMPLETE_CLEANUP_IN_PROGRESS",
           "UPDATE_COMPLETE", "UPDATE_ROLLBACK_IN_PROGRESS"}

In(t, d) == t[d] # None
NamesOf(t, S) == {t[d] : d \in {e \in S : In(t, e)}}
Governed(t) == {d \in Dbs : In(t, d) /\ PermModel[d] # "IAM"}

(* Templates name each database once; a name the update frees is not      *)
(* taken by another construct in the same update.                          *)
Templates == {t \in [Dbs -> Names \cup {None}] :
                \A d, e \in Dbs : d # e /\ In(t, d) => t[d] # t[e]}
Compatible(o, n) ==
  /\ o # n
  /\ \A d, e \in Dbs : d # e /\ In(n, d) => n[d] # o[e]

Renamed(d) == In(oldName, d) /\ In(newName, d) /\ oldName[d] # newName[d]

InitStatus(o, n, r) ==
  CASE ~In(o, r[2]) /\ In(n, r[2]) -> "todo"
    [] In(o, r[2]) /\ ~In(n, r[2]) -> "stale"
    [] In(o, r[2]) /\ In(n, r[2]) /\ o[r[2]] # n[r[2]]
         /\ r[1] \in {"Database", "Revoke"} -> "todo"
    [] OTHER -> "idle"

TypeOK ==
  /\ oldName \in Templates /\ newName \in Templates
  /\ status \in [Res -> UStatus]
  /\ stack \in UStack
  /\ admins \subseteq InitAdmins \cup {DeployRole, ExecRole}
  /\ dbNames \subseteq Names /\ iap \subseteq Names

(* The old template is deployed and complete (LfDeployment's               *)
(* DeployedMatchesModel): governed databases have been revoked and the     *)
(* stack's roles are admins.                                               *)
Init ==
  /\ oldName \in Templates /\ newName \in Templates
  /\ Compatible(oldName, newName)
  /\ status = [r \in Res |-> InitStatus(oldName, newName, r)]
  /\ stack = "UPDATE_IN_PROGRESS"
  /\ admins = InitAdmins \cup
       (IF Governed(oldName) # {} THEN {DeployRole, ExecRole} ELSE {})
  /\ dbNames = NamesOf(oldName, Dbs)
  /\ iap = NamesOf(oldName, Dbs \ Governed(oldName))

-----------------------------------------------------------------------------
(* Update phase *)

Failing == \E r \in Res : status[r] \in {"denied", "failed"}

CanApply(r) ==
  /\ r \in Res
  /\ stack = "UPDATE_IN_PROGRESS"
  /\ ~Failing
  /\ status[r] = "todo"
  /\ \A q \in Deps(r) : status[q] # "todo"

Mark(r, s) == status' = [status EXCEPT ![r] = s]

(* A new Glue database is created, with the IAM_ALLOWED_PRINCIPALS         *)
(* permission Lake Formation gives every new database; a renamed one is a  *)
(* replacement, whose old physical database waits for the cleanup.         *)
CreateDatabase(d) ==
  /\ CanApply(<<"Database", d>>)
  /\ Mark(<<"Database", d>>, IF In(oldName, d) THEN "replaced" ELSE "done")
  /\ dbNames' = dbNames \cup {newName[d]}
  /\ iap' = iap \cup {newName[d]}
  /\ UNCHANGED <<oldName, newName, stack, admins>>

(* makeCdkLfAdmin: APPEND the deploy role. *)
CreateCdkAdmin(d) ==
  /\ CanApply(<<"CdkAdmin", d>>)
  /\ Mark(<<"CdkAdmin", d>>, "done")
  /\ admins' = admins \cup {DeployRole}
  /\ UNCHANGED <<oldName, newName, stack, dbNames, iap>>

(* Mutant: grantLfAdminRole given the deploy role instead of execRole. *)
CreateExecAdminWrongRole(d) ==
  /\ CanApply(<<"ExecAdmin", d>>)
  /\ Mark(<<"ExecAdmin", d>>, "done")
  /\ admins' = admins \cup {DeployRole}
  /\ UNCHANGED <<oldName, newName, stack, dbNames, iap>>

(* Mutant: the role is taken for a SAML identity and the ARN is built as *)
(* samlProviderArn + name.                                               *)
CreateExecAdminSamlArn(d) ==
  /\ CanApply(<<"ExecAdmin", d>>)
  /\ Mark(<<"ExecAdmin", d>>, "done")
  /\ admins' = admins \cup {"samlProviderArn"}
  /\ UNCHANGED <<oldName, newName, stack, dbNames, iap>>

(* grantLfAdminRole(execRole): APPEND the exec role. *)
CreateExecAdmin(d) ==
  /\ CanApply(<<"ExecAdmin", d>>)
  /\ Mark(<<"ExecAdmin", d>>, "done")
  /\ admins' = admins \cup {ExecRole}
  /\ UNCHANGED <<oldName, newName, stack, dbNames, iap>>

(* removeIamAllowedPrincipal, Create event: onCreate's RevokePermissions  *)
(* on the database, as the exec role.                                      *)
CreateRevoke(d) ==
  /\ CanApply(<<"Revoke", d>>)
  /\ ~In(oldName, d)
  /\ IF ExecRole \in admins
       THEN /\ Mark(<<"Revoke", d>>, "done")
            /\ iap' = iap \ {newName[d]}
       ELSE /\ Mark(<<"Revoke", d>>, "denied")
            /\ UNCHANGED iap
  /\ UNCHANGED <<oldName, newName, stack, admins, dbNames>>

(* removeIamAllowedPrincipal, Update event (Database.Name changed): the   *)
(* custom resource has no onUpdate, so no SDK call is made, and the        *)
(* physical id stays, so no replacement is created.                        *)
UpdateRevoke(d) ==
  /\ CanApply(<<"Revoke", d>>)
  /\ In(oldName, d)
  /\ Mark(<<"Revoke", d>>, "done")
  /\ UNCHANGED <<oldName, newName, stack, admins, dbNames, iap>>

(* A create or update fails for a reason outside the model. *)
ApplyFails(r) ==
  /\ CanApply(r)
  /\ Mark(r, "failed")
  /\ UNCHANGED <<oldName, newName, stack, admins, dbNames, iap>>

(* The update rollback that follows a failure is not modelled further. *)
BeginUpdateRollback ==
  /\ stack = "UPDATE_IN_PROGRESS"
  /\ Failing
  /\ stack' = "UPDATE_ROLLBACK_IN_PROGRESS"
  /\ UNCHANGED <<oldName, newName, status, admins, dbNames, iap>>

BeginCleanup ==
  /\ stack = "UPDATE_IN_PROGRESS"
  /\ ~Failing
  /\ \A r \in Res : status[r] # "todo"
  /\ stack' = "UPDATE_COMPLETE_CLEANUP_IN_PROGRESS"
  /\ UNCHANGED <<oldName, newName, status, admins, dbNames, iap>>

-----------------------------------------------------------------------------
(* Cleanup phase: removed resources and old physical databases are deleted *)
(* once no stale resource depending on them is left.                       *)

CanCleanUp(r) ==
  /\ r \in Res
  /\ stack = "UPDATE_COMPLETE_CLEANUP_IN_PROGRESS"
  /\ status[r] \in {"stale", "replaced"}
  /\ \A q \in Res : r \in Deps(q) => status[q] # "stale"

(* DESTROY: the old physical database goes, with its permissions. *)
DeleteOldDatabase(d) ==
  /\ CanCleanUp(<<"Database", d>>)
  /\ Mark(<<"Database", d>>,
          IF status[<<"Database", d>>] = "replaced" THEN "done" ELSE "gone")
  /\ dbNames' = dbNames \ {oldName[d]}
  /\ iap' = iap \ {oldName[d]}
  /\ UNCHANGED <<oldName, newName, stack, admins>>

(* Deleting APPEND settings removes the principal they list. *)
DeleteCdkAdmin(d) ==
  /\ CanCleanUp(<<"CdkAdmin", d>>)
  /\ Mark(<<"CdkAdmin", d>>, "gone")
  /\ admins' = admins \ {DeployRole}
  /\ UNCHANGED <<oldName, newName, stack, dbNames, iap>>

DeleteExecAdmin(d) ==
  /\ CanCleanUp(<<"ExecAdmin", d>>)
  /\ Mark(<<"ExecAdmin", d>>, "gone")
  /\ admins' = admins \ {ExecRole}
  /\ UNCHANGED <<oldName, newName, stack, dbNames, iap>>

(* The remover has no onDelete. *)
DeleteRevoke(d) ==
  /\ CanCleanUp(<<"Revoke", d>>)
  /\ Mark(<<"Revoke", d>>, "gone")
  /\ UNCHANGED <<oldName, newName, stack, admins, dbNames, iap>>

CleanupEnd ==
  /\ stack = "UPDATE_COMPLETE_CLEANUP_IN_PROGRESS"
  /\ \A r \in Res : status[r] \notin {"stale", "replaced"}
  /\ stack' = "UPDATE_COMPLETE"
  /\ UNCHANGED <<oldName, newName, status, admins, dbNames, iap>>

EngineStep ==
  \/ \E d \in Dbs :
       \/ CreateDatabase(d) \/ CreateCdkAdmin(d) \/ CreateExecAdmin(d)
       \/ CreateRevoke(d) \/ UpdateRevoke(d)
       \/ DeleteOldDatabase(d) \/ DeleteCdkAdmin(d) \/ DeleteExecAdmin(d)
       \/ DeleteRevoke(d)
  \/ BeginUpdateRollback \/ BeginCleanup \/ CleanupEnd

Next == EngineStep \/ \E r \in Res : ApplyFails(r)

Spec == Init /\ [][Next]_vars /\ WF_vars(EngineStep)

-----------------------------------------------------------------------------
(* Properties *)

(* No revoke of the update is refused for lack of admin rights: the       *)
(* settings a removed database deletes are only deleted in the cleanup,    *)
(* after the revokes of added databases ran.                               *)
NoAuthorizationFailure == \A r \in Res : status[r] # "denied"

(* Every update that meets no external failure completes. *)
UpdateCompletes ==
  <>(stack = "UPDATE_COMPLETE" \/ \E r \in Res : status[r] = "failed")

(* After the update, every governed database of the new template has lost *)
(* its IAM_ALLOWED_PRINCIPALS permission (removeIamAllowedPrincipal's job; *)
(* spec: the record "must be explicitly revoked exactly once per           *)
(* database").                                                             *)
LegacyRevokedAfterUpdate ==
  stack = "UPDATE_COMPLETE" => \A d \in Governed(newName) : newName[d] \notin iap

(* After the update, while the stack still declares the admin settings of *)
(* a governed database, the principals they list are admins (APPEND        *)
(* settings are additive, spec 4.3).                                       *)
StackAdminsHeld ==
  stack = "UPDATE_COMPLETE" /\ Governed(newName) # {} =>
    {DeployRole, ExecRole} \subseteq admins

=============================================================================

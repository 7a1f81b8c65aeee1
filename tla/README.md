# Formal models of the Lake Formation helpers and DataLakeStorage

This directory holds TLA+ models of the parts of
`data-solutions-framework-on-aws` under `src/` whose behaviour depends on
ordering, failure or defaults, together with TLC configurations and TLAPS
proofs.

## 1. The system and its parts

The source tree under `src/` has these parts:

| Part | Source | What it does |
|---|---|---|
| Lake Formation helpers | `test/e2e/datazone-msk.e2e.test.ts` 143-354. This file also carries the LF utility module. | `makeCdkLfAdmin` and `grantLfAdminRole` add a principal as Lake Formation (LF) admin. They use a `CfnDataLakeSettings` with `mutationType: 'APPEND'`. `registerS3Location` creates an IAM role and a read/write grant on the bucket prefix, then a `CfnResource` that registers the location with `hybridAccessEnabled`. The registration explicitly depends on the grant. `removeIamAllowedPrincipal` is an `AwsCustomResource`. On create only, and acting as the given exec role, it calls `RevokePermissions` on `IAM_ALLOWED_PRINCIPALS` for a database. `grantDataLakeLocation` is a `CfnPermissions` that grants `DATA_LOCATION_ACCESS`. |
| DataCatalogDatabase composition | not under `src/`; used by `test/e2e/data-catalog-database.e2e.test.ts` | Per `PermissionModel`, it calls the helpers above. IAM registers the location. HYBRID and LAKE_FORMATION also make the CDK and exec roles admins, revoke `IAM_ALLOWED_PRINCIPALS`, and grant location access. |
| DataLakeStorage | `src/data-lake/data-lake-storage.ts` | Creates three analytics buckets with lifecycle transitions derived from optional props, and a removal policy. |
| Environment authorizer setup | `datazone-msk-environment-authorizer.ts`, and `authorizerEnvironmentWorkflowSetup` in the e2e file 77-134 | A grant role, a grant Lambda, and the two IAM grants that let the central authorizer role invoke the Lambda and assume its role. |
| MSK asset type, subscription target, Kinesis props | `datazone-msk-asset-type.ts`, `datazone-custom-asset-type-helper.ts`, `datazone-kinesis-asset-type-props.ts` | Constant descriptions passed to constructs that are not in this tree. |

How they interact: these CDK constructs only describe resources. The behaviour
that can go wrong runs at deployment time. The CloudFormation engine creates
resources in any order consistent with the dependency edges. It stops creating
when one fails, then rolls back by deleting the created resources in reverse
dependency order. Each create or delete is a call to Lake Formation, IAM or S3
as a specific identity, and that identity must be authorized.

## 2. Modules

### LfDeployment

`LfDeployment` models one stack that holds the resources of one
`DataCatalogDatabase` per element of `Dbs`, under the CloudFormation engine.

Resources:
- `Res` holds pairs of a resource kind and a database. The kinds per permission
  model are given by `KindsOf`.
- The kinds are `Role`, `Policy` (the read/write grant), `Location`,
  `Database`, `CdkAdmin`, `ExecAdmin`, `Revoke` and `Grant`.
- The dependency edges come from the code. `RegisterS3LocationEdges` models line
  268 and the token references to the role. `CatalogDatabaseEdges` models the
  composition and is taken from the spec.

State:

| Variable | What it models |
|---|---|
| `status[r]` | the CloudFormation status of each resource |
| `stack` | the stack status |
| `admins` | the LF data lake admins |
| `s3Access` | the databases whose data access role has the S3 policy |
| `registered[d]` | `none`, `hybrid` or `lf` |
| `dbExists` | the Glue databases that exist |
| `iap` | the databases on which `IAM_ALLOWED_PRINCIPALS` still has access |
| `locGrants` | the databases whose location access grant exists |

Actions. Each create and each delete handler is one action:
- `CreateCdkAdmin` and `CreateExecAdmin` append a principal.
- `CreateLocation` registers the location. It is rejected when the role has no
  S3 access.
- `CreateRevoke` removes `IAM_ALLOWED_PRINCIPALS`. It is denied unless the exec
  role is an admin.
- `CreateGrant` is denied unless the engine identity is an admin.
- `RevokeFailsAfterEffect` applies the revoke and then reports failure.
- `CreateFails` is a create that fails without effect.
- Deletes undo what their create did. APPEND settings remove the principal they
  added. The revoke has no `onDelete`, so deleting it is inert. A RETAIN
  database survives.
- `CreateComplete`, `BeginRollback`, `DeleteStack` and `TeardownEnd` are the
  stack transitions.

The three identities are constants:
- `EngineRole` is the CloudFormation execution role.
- `DeployRole` is the role `makeCdkLfAdmin` actually elevates.
- `ExecRole` is the role that runs the revoke.

`InitAdmins` is the set of admins present before the stack.

Fairness: `WF_vars(EngineStep)`. The CloudFormation engine keeps working on
an in-progress stack until it reaches a final status. `DeleteStack` is the
user's choice and gets no fairness. Faults are possible but not forced.

### CatalogContract (abstract) and the refinement

`CatalogContract` is the abstract specification of what a stack of
DataCatalogDatabase constructs promises the account's catalog. It sees only the
stack status and a record `catalog` (admins, S3 access, registrations,
databases, `IAM_ALLOWED_PRINCIPALS`, location grants). Its steps are:
- `Work`: resources change while the stack is in progress. Admins may only be
  added while creating and only removed while tearing down.
- `Complete`: CREATE_COMPLETE is reached only with the configured catalog
  (`Configured`). HYBRID locations are hybrid-enabled. Governed databases
  (HYBRID, LAKE_FORMATION) have lost `IAM_ALLOWED_PRINCIPALS` and hold a
  location grant. The stack's principals are admins.
- `Rollback`, `Delete`.
- `TeardownDone`: ROLLBACK_COMPLETE or DELETE_COMPLETE is reached only with
  the catalog restored (`Restored`: only RETAIN databases may stay), or the
  teardown fails.

`LfDeployment` defines the refinement mapping
`Contract == INSTANCE CatalogContract WITH catalog <- [...], Retained <- ...,
StackAdmins <- {CdkLfAdminPrincipal, ExecRole}`. The property
`ImplementsContract == Contract!Spec` is checked by `lf_deploy` and proved in
`LfContractProofs`.

### LfUpdate

`LfUpdate` models a stack update that replaces a deployed template (`oldName`)
by a new one (`newName`). Both are functions from construct to database name
or `None`. `Init` picks every pair of templates:
- each template names its databases injectively;
- a name freed by the update is not taken by another construct.

The deployed state is the one `DeployedMatchesModel` describes. Only the
resources an update touches in the catalog are kept: the database, the two
APPEND admin settings and the `IAM_ALLOWED_PRINCIPALS` remover.

Update phase (`UPDATE_IN_PROGRESS`), in dependency order:
- `CreateDatabase` creates an added database, or the replacement of a renamed
  one. The new database comes with `IAM_ALLOWED_PRINCIPALS`.
- `CreateCdkAdmin` and `CreateExecAdmin` append their principal.
- `CreateRevoke` is the Create event of the remover (`onCreate`).
- `UpdateRevoke` is the Update event a rename sends it. The custom resource
  has no `onUpdate` (lines 289-304), so no call is made and the physical id
  stays.
- `ApplyFails` is an external fault. It leads to `BeginUpdateRollback`, after
  which the update rollback is not modelled.

Cleanup phase (`UPDATE_COMPLETE_CLEANUP_IN_PROGRESS`), in reverse dependency
order:
- `DeleteOldDatabase` deletes a removed database, or the old physical database
  of a renamed one (DESTROY).
- `DeleteCdkAdmin` and `DeleteExecAdmin` remove their principal.
- `DeleteRevoke` is inert.
- `CleanupEnd` completes the update.

Fairness: `WF_vars(EngineStep)`, for the same reason as in `LfDeployment`.

### DataLakeStorage

`DataLakeStorage` models the constructor. The props are drawn from `Props`.
Each delay is `Undefined` or a member of `Delays`, and the removal policy is
omitted, RETAIN or DESTROY. The single action `Construct` computes the
following:
- the removal policy, from line 153 (`RemovalOf`);
- the transitions of each tier, from lines 161-231 (`BronzeTransitions` and
  `UpperTransitions`).

JavaScript `||` and the truthiness test on the archive delay are modelled by
what they do, in `OrDefault` and `Truthy`: 0 counts as absent.

The references are the JSDoc defaults (`DocIA` and `DocArchive`) and the S3
acceptance rule `S3Accepts`: IA at 30 days or more, and Glacier at least 30
days after IA.

## 3. Runs

| Run | cfg | Result | What it shows |
|---|---|---|---|
| `lf_deploy` | `MCLfDeployment.cfg` | pass (about 48k states) | The e2e stack has two DESTROY databases, one IAM and one HYBRID, and the engine role is already an admin. In every interleaving, including failures, a revoke that fails after its effect, rollback and delete, there is no authorization failure (`NoAuthorizationFailure`). A location is registered only while its role has S3 access (`LocationAccessHeld`). A complete stack has exactly the configured permission model: the hybrid flag, the `IAM_ALLOWED_PRINCIPALS` revocation and the location grants (`DeployedMatchesModel`). Teardown leaves the admins, grants, registrations and S3 access as before (`CatalogRestored`). Every run reaches CREATE_COMPLETE unless a resource failed (`DeploySucceeds`). The model implements `CatalogContract` (`ImplementsContract`). |
| `lf_fresh_account` | `MCLfDeploymentFresh.cfg` | violation of `NoAuthorizationFailure` | The account starts with no admin and holds one LAKE_FORMATION database. `makeCdkLfAdmin` elevates the deploy role, so the location grant, created by the engine role, is denied. |
| `lf_preexisting_admin` | `MCLfDeploymentPreAdmin.cfg` | violation of `CatalogRestored` | The deploy role is already an admin before the stack. Rollback or delete of the APPEND settings removes it. |
| `lf_update` | `MCLfUpdate.cfg` | pass (about 40k states) | Covers every update of a stack of up to three constructs (HYBRID, LAKE_FORMATION, IAM) over three names that adds, removes or renames databases. No revoke is denied (`NoAuthorizationFailure`): the settings a removed database deletes go only in the cleanup, after the added databases' revokes. Every update without an external fault completes (`UpdateCompletes`). |
| `lf_update_rename` | `MCLfUpdateLegacyRevokedAfterUpdate.cfg` | violation of `LegacyRevokedAfterUpdate` | A renamed governed database is replaced and comes with `IAM_ALLOWED_PRINCIPALS`. The remover only gets an Update, for which it makes no call. |
| `lf_update_shared_admin` | `MCLfUpdateStackAdminsHeld.cfg` | violation of `StackAdminsHeld` | The update removes one of two governed databases. Deleting its settings removes the deploy and exec roles that the remaining database's settings still list. |
| `storage_rules` | `MCDataLakeStorage.cfg` | pass (280k states) | Explicit, non-zero, S3-valid delay pairs are used exactly, and the all-defaults props produce rules S3 accepts (`ExplicitRulesExact`). |
| `storage_defaults_doc` | `MCDataLakeStorageDefaults.cfg` | violation of `DefaultsAsDocumented` | The applied defaults (90/180, then 180) are not the documented ones (30/90, then 90). |
| `storage_zero_delay` | `MCDataLakeStorageGiven.cfg` | violation of `GivenDelaysHonoured` | An explicit delay of 0 is replaced by the default, or drops the archive rule. |

Each property of a passing run has a mutant in `PROJECT.json`. The mutant
changes a mapped definition the way a plausible bug would, and TLC must find
the property violated under it. Examples:
- drop the location→policy dependency edge;
- make the wrong role admin in place of the revoke's exec role;
- drop the location grant's dependency on the location;
- replace the admin list instead of appending to it;
- flip the hybrid flag;
- drop the bronze defaults;
- copy the silver archive delay into gold.

Bounds:
- Two databases cover every kind of resource, because HYBRID uses all eight
  kinds and IAM uses four.
- Two databases also interleave two independent resource graphs, and make a
  failure of one database roll back the other.
- A third database, LAKE_FORMATION, only differs from HYBRID in the
  registration flag, which `DeployedMatchesModel` already distinguishes. It
  makes the liveness run exceed half an hour.
- For `LfUpdate`, three constructs, one per permission model, over three names
  give 444 pairs of templates. They include every combination of adding,
  removing and renaming, two governed databases sharing principals, a rename
  onto a name no other construct uses, and updates from or to a stack with no
  governed database (where the exec role is not yet an admin).
- The storage delays `{0, 30, 90, 180, 200}` hit the falsy value, the S3
  minimum and both code defaults. They also include a value less than 30 days
  after the 180-day default.

## 4. Proofs

The proofs hold for any finite `Dbs`, any permission-model and removal-policy
functions, and any three distinct identities. These are the assumptions in
`ConstantsAssumption`.

`LfDeploymentProofs`:
- `TypeCorrect`: `Spec => []TypeOK`. `TypeOK` is inductive. `NextTypeOK` has
  one step per action.
- `LocationAccessHeldTheorem`: `Spec => []LocationAccessHeld`. On its own,
  `LocationAccessHeld` is not inductive: a `DeletePolicy` step could remove S3
  access under a registered location. The strengthening `LocationInv` ties the
  catalog to the resource statuses:
  - a location is registered iff its `Location` resource is created;
  - a role has S3 access iff its `Policy` resource is created;
  - a created `Location` implies a created `Policy`.

  The last conjunct is exactly what the dependency edge of line 268 buys.
  `CanDelete` forbids `DeletePolicy` while the dependent Location is created,
  and `CreateLocation` needs the Policy created, so both preserve the
  invariant.

`LfCatalogProofs`:
- `NoAuthorizationFailureTheorem` assumes `EngineRole \in InitAdmins`, the e2e
  account's situation; `lf_fresh_account` shows it is needed. It proves
  `Spec => []NoAuthorizationFailure`. The strengthening `AuthInv` adds two
  facts:
  - the engine role stays an admin, because settings deletes only remove the
    deploy and exec roles;
  - while creating, a created ExecAdmin setting means the exec role is an
    admin.

  A revoke waits for its ExecAdmin (`RevokeNeedsExecAdmin`), so it is never
  denied.
- `CatalogRestoredTheorem` assumes `StackPrincipalsFresh` (neither stack
  principal was an admin before); `lf_preexisting_admin` shows it is needed.
  It proves `Spec => []CatalogRestored`. The strengthening `RestoreInv` is
  `LocationInv` plus three parts:
  - `AdminTrack`: admins lie between `InitAdmins` and `InitAdmins` plus the two
    roles, and each role is an admin only while some setting naming it is
    created;
  - `GrantTrack`: a location grant exists only while its resource is created
    or its delete was refused;
  - `TornDown`: a settled stack has nothing created, and a completed teardown
    has nothing refused.

`LfContractProofs`:
- `ImplementsContractTheorem` assumes `StackPrincipalsFresh`. It proves
  `Spec => ImplementsContract`, the refinement. The invariant used is
  `Inv3 = TypeOK /\ RestoreInv /\ ContractInv`. `ContractInv` is made of two
  parts:
  - `CatalogShape`: registrations are in the model's mode,
    `IAM_ALLOWED_PRINCIPALS` sits only on existing databases, a database exists
    only while created or retained, and a created revoke implies its database
    is created;
  - `CreateTrack`: while creating, databases, grants and admin settings follow
    their resources, and, until a failure, `IAM_ALLOWED_PRINCIPALS` sits
    exactly on created databases whose revoke is not created.
- `StepRefines` maps each resource step to `Contract!Work`, `CreateComplete` to
  `Complete` (via `CompleteConfigured`) and `TeardownEnd` to `TeardownDone`
  (via `TeardownRestored`).
- Writing this proof showed that `TeardownEnd`'s CASE had overlapping guards.
  TLA+ then leaves the outcome unspecified, and only TLC's first-match
  evaluation made it deterministic. The guards are now disjoint.

- `DeployedMatchesModelTheorem` proves `Spec => []DeployedMatchesModel` with
  no assumption on the principals: it holds for any initial admins. The
  strengthening is `DeployInv = TypeOK /\ LocationInv /\ ContractInv /\
  DeployedMatchesModel`. Two lemmas carry the step:
  - `EnterComplete`: every step into CREATE_COMPLETE is `CreateComplete` or a
    stutter. Resource steps keep the stack status and run only while creating
    or tearing down.
  - `CompleteGoverned`: with every resource created, `LocationInv` and
    `ContractInv` give the registration mode, the revocation and the grant of
    each database.

  No step leaves CREATE_COMPLETE without leaving that status, so the catalog
  it describes stays fixed until `DeleteStack`.

`LfUpdateProofs`. It assumes `UpdateAssumption`: finite sets, `None` not a
name, two distinct roles, neither of them in `InitAdmins`.
- `TypeCorrect`: `Spec => []TypeOK`. `TypeOK` alone is not inductive:
  `CreateDatabase` adds `newName[d]` to the Glue names, and that is a name only
  if the new template names `d`. The strengthening `TodoInNew` says a resource
  still to do belongs to a construct of the new template. `InitStatusFacts`
  checks this on each case of `InitStatus`.
- `NoAuthorizationFailureTheorem`: `Spec => []NoAuthorizationFailure`, for
  every pair of templates. The strengthening `ExecAdminTrack` holds while the
  update phase runs:
  - the ExecAdmin setting of an added database is todo, done or failed;
  - a done ExecAdmin setting means the exec role is an admin.

  `RevokeAuthorized` then shows that a revoke the engine can run finds the exec
  role an admin. The revoke waits for its ExecAdmin, which cannot have failed
  while nothing fails, and admins are only added before the cleanup.
  `MarkKeeps` and `LeaveKeeps` are the frame lemmas for the other steps.

`DataLakeStorageProofs`. These hold for every set of day counts `Delays`
(`DelaysAssumption`).
- `TypeCorrect`: `Spec => []TypeOK`.
- `ExplicitRulesExactTheorem`: `Spec => []ExplicitRulesExact`. The
  strengthening `Synthesized` says that once built, `rules` and `removal` are
  the functions of the unchanged props.
  - `ExplicitTier`: non-zero delays pass through `||` unchanged, and the
    archive delay is truthy.
  - `DefaultTiersAccepted`: works out the all-default rules and their days.
  - `ConcatPair`: a sequence lemma from `SequenceTheorems`.

TLC checked every strengthening as an invariant before it was proved.

The following stay with TLC:
- liveness (`DeploySucceeds`, `UpdateCompletes`). The prover does not handle
  liveness under fairness or ENABLED, which a proof of progress of the engine
  needs.
- the violation runs, which are counterexamples, not theorems;
- the `DataLakeStorage` documentation properties, which TLC refutes.

## 5. Assumptions about the services

These are assumptions, not code:
- A Glue database created by the stack gets `IAM_ALLOWED_PRINCIPALS` (the
  account default). A renamed database is a replacement.
- Deleting an APPEND `CfnDataLakeSettings` removes the principals it listed.
- Lake Formation rejects a registration whose role lacks S3 access.
- `RevokePermissions` and a `CfnPermissions` grant require the caller to be an
  LF admin.

## 6. Not modelled

The following are not modelled:
- The environment authorizer construct, the MSK asset type and the
  subscription target. These are straight-line resource declarations without
  guards or ordering of their own.
- The runtime grant/revoke workflow. It lives in the central authorizer and the
  Lambda code, which are not in this tree.
- Naming, tags, encryption keys and access-log prefixes. They do not affect any
  property.
- IAM eventual consistency. The model treats a created policy as effective
  immediately.
- In `LfUpdate`: the rollback of a failed update (`UPDATE_ROLLBACK_IN_PROGRESS`
  is final), RETAIN databases, and changes to locations and grants. A rename
  does not change the location resources, and they do not touch the admins.

## 7. Plan for later work

1. A RETAIN run, with a property that a retained database keeps a consistent
   access model after rollback. The revoke has no `onDelete`.
2. An S3-validity property of the mixed case (a caller-set IA with the default
   archive), as a violation run.
3. The update rollback in `LfUpdate`, and RETAIN databases in an update.
4. A refinement of `LfUpdate` to an abstract update contract, proved step by
   step like `LfContractProofs`.

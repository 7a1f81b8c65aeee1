--------------------------- MODULE LfUpdateProofs ---------------------------
(***************************************************************************)
(* Proofs about LfUpdate, for every set of databases, names, permission    *)
(* models and initial admins: the update is well typed, and no revoke of   *)
(* an added database is refused for lack of admin rights.                  *)
(***************************************************************************)
EXTENDS LfUpdate, TLAPS

USE UpdateAssumption

(* Work still to do concerns a construct of the new template. *)
TodoInNew == \A r \in Res : status[r] = "todo" => In(newName, r[2])

TypeInv == TypeOK /\ TodoInNew

Added(d) == ~In(oldName, d) /\ In(newName, d)

(* While the update runs, the exec role's admin setting of an added        *)
(* database is still to create, created, or failed; once created its       *)
(* principal is an admin, since nothing is deleted before the cleanup.     *)
ExecAdminTrack ==
  stack = "UPDATE_IN_PROGRESS" =>
    /\ \A d \in Dbs : <<"ExecAdmin", d>> \in Res /\ Added(d) =>
         status[<<"ExecAdmin", d>>] \in {"todo", "done", "failed"}
    /\ \A d \in Dbs : <<"ExecAdmin", d>> \in Res /\ status[<<"ExecAdmin", d>>] = "done" =>
         ExecRole \in admins

AuthInv == TypeInv /\ ExecAdminTrack /\ NoAuthorizationFailure


-----------------------------------------------------------------------------
(* Lemmas on the operators *)

(* The initial status of a resource: to do only for a construct the new   *)
(* template names, never done or refused, and to do for the admin setting *)
(* of an added database.                                                   *)
LEMMA InitStatusFacts ==
  ASSUME NEW o \in Templates, NEW n \in Templates, NEW r \in Res
  PROVE  /\ InitStatus(o, n, r) \in {"todo", "stale", "idle"}
         /\ InitStatus(o, n, r) = "todo" => In(n, r[2])
         /\ ~In(o, r[2]) /\ In(n, r[2]) => InitStatus(o, n, r) = "todo"
<1>1. CASE ~In(o, r[2]) /\ In(n, r[2])
  BY <1>1 DEF InitStatus
<1>2. CASE In(o, r[2]) /\ ~In(n, r[2])
  BY <1>2 DEF InitStatus
<1>3. CASE In(o, r[2]) /\ In(n, r[2])
  BY <1>3 DEF InitStatus
<1>4. CASE ~In(o, r[2]) /\ ~In(n, r[2])
  BY <1>4 DEF InitStatus
<1>. QED  BY <1>1, <1>2, <1>3, <1>4

(* The names a template gives are Glue names. *)
LEMMA NamesOfNames ==
  ASSUME NEW t \in Templates, NEW S \in SUBSET Dbs
  PROVE  NamesOf(t, S) \subseteq Names
BY DEF NamesOf, In, Templates

(* A governed construct has both admin settings and the remover. *)
LEMMA GovernedResources ==
  ASSUME NEW d \in Dbs
  PROVE  /\ <<"Database", d>> \in Res
         /\ <<"Revoke", d>> \in Res <=> PermModel[d] # "IAM"
         /\ <<"ExecAdmin", d>> \in Res <=> PermModel[d] # "IAM"
         /\ <<"Revoke", d>> \in Res =>
              Deps(<<"Revoke", d>>) = {<<"Database", d>>, <<"ExecAdmin", d>>}
BY DEF Res, UKinds, Deps

-----------------------------------------------------------------------------
(* Type correctness *)

LEMMA InitTypeInv == Init => TypeInv
<1> SUFFICES ASSUME Init PROVE TypeInv
  OBVIOUS
<1>1. \A r \in Res : /\ status[r] \in UStatus
                     /\ status[r] = "todo" => In(newName, r[2])
  BY InitStatusFacts DEF Init, UStatus
<1>2. dbNames \subseteq Names /\ iap \subseteq Names
  BY NamesOfNames DEF Init
<1>3. admins \subseteq InitAdmins \cup {DeployRole, ExecRole}
  BY DEF Init
<1>. QED  BY <1>1, <1>2, <1>3 DEF Init, TypeInv, TypeOK, TodoInNew, UStack

LEMMA NextTypeInv == TypeInv /\ [Next]_vars => TypeInv'
<1> SUFFICES ASSUME TypeInv, [Next]_vars PROVE TypeInv'
  OBVIOUS
<1> USE DEF TypeInv, TypeOK, TodoInNew, Mark, UStatus, UStack
<1>1. ASSUME NEW d \in Dbs, CreateDatabase(d) PROVE TypeInv'
  <2>1. In(newName, d) /\ newName[d] \in Names
    BY <1>1 DEF CreateDatabase, CanApply, In, Templates
  <2>. QED  BY <1>1, <2>1 DEF CreateDatabase, CanApply
<1>2. ASSUME NEW d \in Dbs, CreateCdkAdmin(d) \/ CreateExecAdmin(d) PROVE TypeInv'
  BY <1>2 DEF CreateCdkAdmin, CreateExecAdmin, CanApply
<1>3. ASSUME NEW d \in Dbs, CreateRevoke(d) \/ UpdateRevoke(d) PROVE TypeInv'
  BY <1>3 DEF CreateRevoke, UpdateRevoke, CanApply
<1>4. ASSUME NEW d \in Dbs, DeleteOldDatabase(d) PROVE TypeInv'
  BY <1>4 DEF DeleteOldDatabase, CanCleanUp
<1>5. ASSUME NEW d \in Dbs, DeleteCdkAdmin(d) \/ DeleteExecAdmin(d) \/ DeleteRevoke(d)
      PROVE  TypeInv'
  BY <1>5 DEF DeleteCdkAdmin, DeleteExecAdmin, DeleteRevoke, CanCleanUp
<1>6. CASE BeginUpdateRollback \/ BeginCleanup \/ CleanupEnd
  BY <1>6 DEF BeginUpdateRollback, BeginCleanup, CleanupEnd
<1>7. ASSUME NEW r \in Res, ApplyFails(r) PROVE TypeInv'
  BY <1>7 DEF ApplyFails, CanApply
<1>8. CASE UNCHANGED vars
  BY <1>8 DEF vars
<1>. QED  BY <1>1, <1>2, <1>3, <1>4, <1>5, <1>6, <1>7, <1>8 DEF Next, EngineStep

(* Every state of an update is well typed: the stack's roles are the only *)
(* principals the admin settings add and every name used is a Glue name.  *)
THEOREM TypeCorrect == Spec => []TypeOK
<1>1. TypeInv => TypeOK  BY DEF TypeInv
<1>. QED  BY <1>1, InitTypeInv, NextTypeInv, PTL DEF Spec

-----------------------------------------------------------------------------
(* No authorization failure *)

LEMMA InitAuthInv == Init => AuthInv
<1> SUFFICES ASSUME Init PROVE AuthInv
  OBVIOUS
<1>1. \A r \in Res : status[r] \in {"todo", "stale", "idle"}
  BY InitStatusFacts DEF Init
<1>2. \A d \in Dbs : <<"ExecAdmin", d>> \in Res /\ Added(d) =>
        status[<<"ExecAdmin", d>>] = "todo"
  BY InitStatusFacts DEF Init, Added
<1>. QED  BY <1>1, <1>2, InitTypeInv DEF AuthInv, ExecAdminTrack, NoAuthorizationFailure

(* A revoke the engine can run for an added database is run with the exec *)
(* role an admin: it waits for that database's ExecAdmin setting, which    *)
(* cannot have failed while nothing fails.                                 *)
LEMMA RevokeAuthorized ==
  ASSUME AuthInv, NEW d \in Dbs, CanApply(<<"Revoke", d>>), ~In(oldName, d)
  PROVE  ExecRole \in admins
<1>1. Added(d) /\ PermModel[d] # "IAM"
  BY GovernedResources DEF CanApply, AuthInv, TypeInv, TodoInNew, Added
<1>2. <<"ExecAdmin", d>> \in Res
      /\ <<"ExecAdmin", d>> \in Deps(<<"Revoke", d>>)
  BY <1>1, GovernedResources
<1>3. status[<<"ExecAdmin", d>>] # "todo" /\ status[<<"ExecAdmin", d>>] # "failed"
  BY <1>2 DEF CanApply, Failing
<1>4. status[<<"ExecAdmin", d>>] = "done"
  BY <1>1, <1>2, <1>3 DEF CanApply, AuthInv, ExecAdminTrack
<1>. QED  BY <1>2, <1>4 DEF CanApply, AuthInv, ExecAdminTrack

(* An update-phase step that marks a resource other than an ExecAdmin     *)
(* setting, without refusal, and removes no admin keeps the strengthening. *)
LEMMA MarkKeeps ==
  ASSUME AuthInv, TypeInv', NEW q \in Res, q[1] # "ExecAdmin",
         NEW v \in UStatus \ {"denied"}, status' = [status EXCEPT ![q] = v],
         UNCHANGED <<oldName, newName, stack>>, admins \subseteq admins'
  PROVE  AuthInv'
<1>1. \A e \in Dbs : <<"ExecAdmin", e>> \in Res =>
        status'[<<"ExecAdmin", e>>] = status[<<"ExecAdmin", e>>]
  BY DEF AuthInv, TypeInv, TypeOK
<1>2. \A r \in Res : status'[r] # "denied"
  BY DEF AuthInv, TypeInv, TypeOK, NoAuthorizationFailure
<1>. QED  BY <1>1, <1>2 DEF AuthInv, ExecAdminTrack, NoAuthorizationFailure, Added

(* A step out of the update phase that refuses nothing keeps it too. *)
LEMMA LeaveKeeps ==
  ASSUME AuthInv, TypeInv', stack' # "UPDATE_IN_PROGRESS",
         NEW q \in Res, NEW v \in UStatus \ {"denied"}, status' = [status EXCEPT ![q] = v]
  PROVE  AuthInv'
<1>1. \A r \in Res : status'[r] # "denied"
  BY DEF AuthInv, TypeInv, TypeOK, NoAuthorizationFailure
<1>. QED  BY <1>1 DEF AuthInv, ExecAdminTrack, NoAuthorizationFailure

LEMMA NextAuthInv == AuthInv /\ [Next]_vars => AuthInv'
<1> SUFFICES ASSUME AuthInv, [Next]_vars PROVE AuthInv'
  OBVIOUS
<1>0. TypeInv'
  BY NextTypeInv DEF AuthInv
<1> DEFINE EA(d) == <<"ExecAdmin", d>>
<1> USE DEF AuthInv, ExecAdminTrack, NoAuthorizationFailure, Added, Mark
<1>1. ASSUME NEW d \in Dbs, CreateDatabase(d) PROVE AuthInv'
  BY <1>0, <1>1, MarkKeeps DEF CreateDatabase, CanApply, UStatus
<1>9. ASSUME NEW d \in Dbs, CreateCdkAdmin(d) PROVE AuthInv'
  BY <1>0, <1>9, MarkKeeps DEF CreateCdkAdmin, CanApply, UStatus
<1>2. ASSUME NEW d \in Dbs, CreateExecAdmin(d) PROVE AuthInv'
  BY <1>0, <1>2 DEF CreateExecAdmin, CanApply
<1>3. ASSUME NEW d \in Dbs, CreateRevoke(d) PROVE AuthInv'
  <2>1. ExecRole \in admins
    BY <1>3, RevokeAuthorized DEF CreateRevoke
  <2>2. status' = [status EXCEPT ![<<"Revoke", d>>] = "done"]
        /\ UNCHANGED <<oldName, newName, stack, admins>>
    BY <1>3, <2>1 DEF CreateRevoke
  <2>. QED  BY <1>0, <1>3, <2>2 DEF CreateRevoke, CanApply
<1>4. ASSUME NEW d \in Dbs, UpdateRevoke(d) PROVE AuthInv'
  BY <1>0, <1>4 DEF UpdateRevoke, CanApply
<1>5. ASSUME NEW d \in Dbs,
             \/ DeleteOldDatabase(d) \/ DeleteCdkAdmin(d)
             \/ DeleteExecAdmin(d) \/ DeleteRevoke(d)
      PROVE  AuthInv'
  BY <1>0, <1>5, LeaveKeeps DEF DeleteOldDatabase, DeleteCdkAdmin, DeleteExecAdmin,
     DeleteRevoke, CanCleanUp, UStatus
<1>6. CASE BeginUpdateRollback \/ BeginCleanup \/ CleanupEnd
  BY <1>0, <1>6 DEF BeginUpdateRollback, BeginCleanup, CleanupEnd
<1>7. ASSUME NEW r \in Res, ApplyFails(r) PROVE AuthInv'
  BY <1>0, <1>7 DEF ApplyFails, CanApply
<1>8. CASE UNCHANGED vars
  BY <1>0, <1>8 DEF vars
<1>. QED  BY <1>1, <1>2, <1>3, <1>4, <1>5, <1>6, <1>7, <1>8, <1>9 DEF Next, EngineStep

(* No create or update of the update is refused by Lake Formation for lack *)
(* of admin rights, for every pair of templates: removeIamAllowedPrincipal *)
(* of an added database runs after its grantLfAdminRole setting, and the   *)
(* settings of removed databases are deleted only in the cleanup phase.    *)
THEOREM NoAuthorizationFailureTheorem == Spec => []NoAuthorizationFailure
<1>1. AuthInv => NoAuthorizationFailure  BY DEF AuthInv
<1>. QED  BY <1>1, InitAuthInv, NextAuthInv, PTL DEF Spec

=============================================================================

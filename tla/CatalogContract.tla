--------------------------- MODULE CatalogContract ---------------------------
(***************************************************************************)
(* What a stack of DataCatalogDatabase constructs promises the account's   *)
(* Lake Formation catalog, seen only at the stack's stable statuses: it    *)
(* starts from the catalog as it was, is CREATE_COMPLETE only with every   *)
(* database governed as its permission model says, and is ROLLBACK_ or     *)
(* DELETE_COMPLETE only with what it added taken away again.  While the    *)
(* stack is creating, admins are only added; while it is torn down they    *)
(* are only removed.                                                       *)
(***************************************************************************)
EXTENDS FiniteSets

CONSTANTS
  Dbs,          \* the constructs of the stack
  PermModel,    \* [Dbs -> {"IAM", "HYBRID", "LAKE_FORMATION"}]
  Retained,     \* constructs whose Glue database has RemovalPolicy.RETAIN
  InitAdmins,   \* Lake Formation admins before the stack
  StackAdmins   \* the principals the stack makes admins

VARIABLES
  stack,    \* the stack status
  catalog   \* [admins, s3Access, registered, dbExists, iap, locGrants]

cvars == <<stack, catalog>>

InProgress == {"CREATE_IN_PROGRESS", "ROLLBACK_IN_PROGRESS", "DELETE_IN_PROGRESS"}

Governed == {d \in Dbs : PermModel[d] # "IAM"}

(* The catalog of a complete stack: HYBRID locations are hybrid-enabled,   *)
(* governed databases have lost IAM_ALLOWED_PRINCIPALS and hold a location *)
(* grant, and the stack's principals are admins when any is governed.      *)
Configured(c) ==
  /\ c.admins = InitAdmins \cup (IF Governed # {} THEN StackAdmins ELSE {})
  /\ c.s3Access = Dbs
  /\ c.registered = [d \in Dbs |-> IF PermModel[d] = "HYBRID" THEN "hybrid" ELSE "lf"]
  /\ c.dbExists = Dbs
  /\ c.iap = Dbs \ Governed
  /\ c.locGrants = Governed

(* The catalog after teardown: only retained databases may be left. *)
Restored(c) ==
  /\ c.admins = InitAdmins
  /\ c.s3Access = {}
  /\ c.registered = [d \in Dbs |-> "none"]
  /\ c.locGrants = {}
  /\ c.dbExists \subseteq Retained
  /\ c.iap \subseteq c.dbExists

Init ==
  /\ stack = "CREATE_IN_PROGRESS"
  /\ Restored(catalog)
  /\ catalog.dbExists = {}

(* Resources are created or deleted; the stack status stays. *)
Work ==
  /\ stack \in InProgress
  /\ stack' = stack
  /\ stack = "CREATE_IN_PROGRESS" => catalog.admins \subseteq catalog'.admins
  /\ stack # "CREATE_IN_PROGRESS" => catalog'.admins \subseteq catalog.admins

Complete ==
  /\ stack = "CREATE_IN_PROGRESS" /\ stack' = "CREATE_COMPLETE"
  /\ Configured(catalog)
  /\ UNCHANGED catalog

Rollback ==
  /\ stack = "CREATE_IN_PROGRESS" /\ stack' = "ROLLBACK_IN_PROGRESS"
  /\ UNCHANGED catalog

Delete ==
  /\ stack = "CREATE_COMPLETE" /\ stack' = "DELETE_IN_PROGRESS"
  /\ UNCHANGED catalog

(* A teardown completes with the catalog restored, or fails. *)
TeardownDone ==
  /\ UNCHANGED catalog
  /\ \/ stack = "ROLLBACK_IN_PROGRESS" /\ stack' = "ROLLBACK_COMPLETE" /\ Restored(catalog)
     \/ stack = "DELETE_IN_PROGRESS" /\ stack' = "DELETE_COMPLETE" /\ Restored(catalog)
     \/ stack = "ROLLBACK_IN_PROGRESS" /\ stack' = "ROLLBACK_FAILED"
     \/ stack = "DELETE_IN_PROGRESS" /\ stack' = "DELETE_FAILED"

Next == Work \/ Complete \/ Rollback \/ Delete \/ TeardownDone

Spec == Init /\ [][Next]_cvars
=============================================================================

CONSTANTS
  dIam = dIam
  dHybrid = dHybrid
  dLf = dLf
  Dbs = {dIam, dHybrid}
  PermModel <- MCPermModel
  RemovalPolicy <- MCRemovalDestroy
  EngineRole = EngineRole
  DeployRole = DeployRole
  ExecRole = ExecRole
  InitAdmins = {EngineRole}
SPECIFICATION Spec
CHECK_DEADLOCK FALSE
INVARIANT TypeOK NoAuthorizationFailure LocationAccessHeld DeployedMatchesModel CatalogRestored
PROPERTY DeploySucceeds ImplementsContract

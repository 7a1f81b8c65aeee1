CONSTANTS
  dIam = dIam
  dHybrid = dHybrid
  dLf = dLf
  Dbs = {dHybrid}
  PermModel <- MCPermModel
  RemovalPolicy <- MCRemovalDestroy
  EngineRole = EngineRole
  DeployRole = DeployRole
  ExecRole = ExecRole
  InitAdmins = {EngineRole, DeployRole}
SPECIFICATION Spec
CHECK_DEADLOCK FALSE
INVARIANT CatalogRestored

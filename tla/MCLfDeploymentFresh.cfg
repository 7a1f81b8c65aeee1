CONSTANTS
  dIam = dIam
  dHybrid = dHybrid
  dLf = dLf
  Dbs = {dLf}
  PermModel <- MCPermModel
  RemovalPolicy <- MCRemovalDestroy
  EngineRole = EngineRole
  DeployRole = DeployRole
  ExecRole = ExecRole
  InitAdmins = {}
SPECIFICATION Spec
CHECK_DEADLOCK FALSE
INVARIANT NoAuthorizationFailure

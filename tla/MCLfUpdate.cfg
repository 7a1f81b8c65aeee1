CONSTANTS
  d1 = d1
  d2 = d2
  d3 = d3
  n1 = n1
  n2 = n2
  n3 = n3
  Dbs = {d1, d2, d3}
  Names = {n1, n2, n3}
  None = None
  PermModel <- MCPermModel
  DeployRole = DeployRole
  ExecRole = ExecRole
  InitAdmins = {}
SPECIFICATION Spec
CHECK_DEADLOCK FALSE
INVARIANT TypeOK NoAuthorizationFailure
PROPERTY UpdateCompletes

SPECIFICATION Spec
CONSTANTS
  MaxId = 1
  FirstTables <- MCFirst
  Tables <- MCTables
  MaxRole = 2
  RoleClass <- MCRoleClass
  RoleHint <- MCRoleHint
  Hidden = {2}
  AppDevice = 1
  STEADY = 4
  EXPIRES = 2
  MaxRestarts = 1
CHECK_DEADLOCK FALSE
INVARIANTS
  NoDangling
  FlagsMatchRoles
  RestartNoticed

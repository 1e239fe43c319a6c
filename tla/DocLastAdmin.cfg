CONSTANTS
  c1 = c1
  c2 = c2
  c3 = c3
  Calls = {c1, c2, c3}
  Users = {"alice", "bob", "carol"}
  Roles <- MCRoles
  Principals <- MCPrincipals
  InitialUsers <- MCInitialUsers
  InitialRoles <- MCInitialRoles
  InitialSessions <- MCInitialSessions
  MaxSessions = 3
  MaxTokens = 1
  PageSize = 1
  MaxMishaps = 0
  Operations = {"login", "disable"}
SYMMETRY CallSymmetry
SPECIFICATION Spec
CHECK_DEADLOCK FALSE
INVARIANT LastAdministratorProtected

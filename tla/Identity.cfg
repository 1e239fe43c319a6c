CONSTANTS
  c1 = c1
  c2 = c2
  c3 = c3
  Calls = {c1, c2, c3}
  Users = {"alice", "bob", "carol"}
  Roles <- MCRoles
  Principals <- MCPrincipals
  InitialUsers <- MCInitialUsers
  InitialRoles <- MCInitialRoles
  InitialSessions <- MCInitialSessions
  MaxSessions = 3
  MaxTokens = 1
  PageSize = 1
  MaxMishaps = 1
  Operations = {"login", "refresh", "logout", "logout_all", "sessions", "register",
                "confirm_email", "request_reset", "confirm_reset", "disable", "enable",
                "assign_role", "remove_role", "service_token"}
SYMMETRY CallSymmetry
SPECIFICATION Spec
CHECK_DEADLOCK FALSE
INVARIANTS
  TypeOK
  OneActivePerFamily
  RevokedFamiliesAreDead
  DisabledIsOut
  OneResetPerToken
  
  AdministratorRemains
  ListingIsComplete

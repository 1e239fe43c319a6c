------------------------------ MODULE MCIdentity ------------------------------
(* The Identity service for TLC: two users, both administrators, of whom   *)
(* one has a session, and requests of the kinds a configuration names.     *)
EXTENDS IdentityAccounts, TLC

MCRoles == {"admin", "customer"}
Account(status) == [status |-> status, verified |-> status = "ACTIVE", password |-> {}]
MCPrincipals == "gateway" :> [status |-> "ACTIVE", scopes |-> {"order:read"},
                              secrets |-> {"current"}]
MCInitialUsers == [u \in Users |-> Account(IF u = "carol" THEN "ABSENT" ELSE "ACTIVE")]
MCInitialRoles == [u \in Users |-> IF u = "carol" THEN {} ELSE MCRoles]
MCInitialSessions == 1 :> NewSession("alice", 1, MCRoles)

CallSymmetry == Permutations(Calls)
===============================================================================

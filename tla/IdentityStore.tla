---------------------------- MODULE IdentityStore ----------------------------
(***************************************************************************)
(* The tables of Identity and the statements on them, one operator per     *)
(* statement of adapters/outbound/postgres.  A statement maps the contents *)
(* of its table to the new contents, so that a transaction is written as   *)
(* one change per table.  Timestamps are kept as what they decide: whether *)
(* a row is still before its expiry.                                       *)
(***************************************************************************)
EXTENDS Naturals, FiniteSets

CONSTANTS Users,        \* users, identified by their normalized e-mail
          Roles,        \* rows of the table roles, all ACTIVE
          Principals,   \* client_id -> service principal with its credentials
          Calls,        \* requests to Identity, identified by correlation id
          MaxSessions, MaxTokens

ASSUME StoreAssumption ==
  /\ "admin" \in Roles /\ "customer" \in Roles
  /\ MaxSessions \in Nat /\ MaxTokens \in Nat
  /\ IsFiniteSet(Users)

VARIABLES users,       \* table users
          userRoles,   \* table user_roles
          sessions,    \* table sessions
          tokens,      \* tables reset_tokens and verification_tokens
          audit,       \* table security_audit
          outbox       \* table outbox_events

accountVars == <<users, userRoles, tokens>>
auditVars == <<audit, outbox>>
tables == <<accountVars, sessions, auditVars>>

(* Rows are numbered by created_at, which is read before the transaction   *)
(* that inserts the row: they may be committed in another order.           *)
SessionIds == 1 .. MaxSessions
TokenIds == 1 .. MaxTokens

(* password: the call that set it, none for the one the account came with. *)
User == [status : {"ABSENT", "PENDING_VERIFICATION", "ACTIVE", "DISABLED"},
         verified : BOOLEAN, password : SUBSET Calls]

(* family is the first session of the family; claims are the roles signed  *)
(* into the access token that names the session.                           *)
Session == [user : Users, family : SessionIds, claims : SUBSET Roles,
            status : {"ACTIVE", "ROTATED", "REVOKED"}, live : BOOLEAN]

Token == [kind : {"reset", "verification"}, user : Users, consumed : BOOLEAN,
          live : BOOLEAN, mailed : BOOLEAN]

AuditRow == [correlation : Calls, action : STRING]

StoreTypeOK ==
  /\ users \in [Users -> User]
  /\ userRoles \in [Users -> SUBSET Roles]
  /\ DOMAIN sessions \subseteq SessionIds /\ sessions \in [DOMAIN sessions -> Session]
  /\ DOMAIN tokens \subseteq TokenIds /\ tokens \in [DOMAIN tokens -> Token]
  /\ audit \subseteq AuditRow /\ outbox \subseteq AuditRow

Insert(table, id, row) ==
  [x \in DOMAIN table \cup {id} |-> IF x = id THEN row ELSE table[x]]

-------------------------------------------------------------------------------
(* users and user_roles.                                                   *)

CreateUser(u, c) ==
  [users EXCEPT ![u] = [status |-> "PENDING_VERIFICATION", verified |-> FALSE,
                        password |-> {c}]]

UpdateUserStatus(u, status) == [users EXCEPT ![u].status = status]

UpdatePassword(u, c) == [users EXCEPT ![u].password = {c}]

MarkEmailVerified(u) ==
  [users EXCEPT ![u] =
     IF users[u].status = "PENDING_VERIFICATION"
       THEN [users[u] EXCEPT !.status = "ACTIVE", !.verified = TRUE]
       ELSE users[u]]

GetUserByEmail(u) == users[u]

GetUserByID(u) == users[u]

ListUserRoles(u) == userRoles[u]

AssignRole(u, role) == [userRoles EXCEPT ![u] = userRoles[u] \cup {role}]

RemoveRole(u, role) == [userRoles EXCEPT ![u] = userRoles[u] \ {role}]

HasActiveRole(u, role) == role \in userRoles[u]

(* The statement counts the rows of user_roles and does not look at the    *)
(* status of their users.                                                  *)
CountActiveAdministrators == Cardinality({u \in Users : "admin" \in userRoles[u]})

GetRoleByName(role) == role \in Roles

-------------------------------------------------------------------------------
(* sessions.                                                               *)

NewSession(u, family, claims) ==
  [user |-> u, family |-> family, claims |-> claims, status |-> "ACTIVE",
   live |-> TRUE]

CreateSession(table, s, row) == Insert(table, s, row)

GetSessionByRefreshHash(s) == sessions[s]

GetSessionByID(s) == sessions[s]

IsUsable(row) == row.status = "ACTIVE" /\ row.live

(* WHERE id = $1 AND status = 'ACTIVE' FOR UPDATE.                         *)
LockActiveSession(s) == sessions[s].status = "ACTIVE"

(* Mutant: a status the table does not know.                               *)
RotateToReplaced(table, s) == [table EXCEPT ![s].status = "REPLACED"]

RotateSession(table, s) == [table EXCEPT ![s].status = "ROTATED"]

(* What the WHERE clause of a revocation selects when it starts.           *)
RevokeSessionFamily(family) ==
  {s \in DOMAIN sessions : /\ sessions[s].family = family
                           /\ sessions[s].status # "REVOKED"}

RevokeSessionByID(s) == {s}

(* Mutant: the statement of a clean-up job, for sessions past their expiry. *)
RevokeExpiredUserSessions(u) ==
  {s \in DOMAIN sessions : /\ sessions[s].user = u /\ sessions[s].status # "REVOKED"
                           /\ ~sessions[s].live}

RevokeUserSessions(u) ==
  {s \in DOMAIN sessions : sessions[s].user = u /\ sessions[s].status # "REVOKED"}

(* A row of the selection that changed meanwhile is updated as it is now.  *)
Revoked(rows) ==
  [s \in DOMAIN sessions |->
     IF s \in rows THEN [sessions[s] EXCEPT !.status = "REVOKED"] ELSE sessions[s]]

(* (created_at, id) < cursor ORDER BY created_at DESC, id DESC LIMIT size. *)
ListUserSessionsPage(u, cursor, size) ==
  LET rest == {s \in DOMAIN sessions : sessions[s].user = u /\ s < cursor}
  IN {s \in rest : Cardinality({x \in rest : x > s}) < size}

-------------------------------------------------------------------------------
(* One-time tokens, service principals and the audit trail.                *)

OneTimeToken(kind, u) ==
  [kind |-> kind, user |-> u, consumed |-> FALSE, live |-> TRUE, mailed |-> FALSE]

CreateResetToken(t, u) == Insert(tokens, t, OneTimeToken("reset", u))

CreateVerificationToken(t, u) == Insert(tokens, t, OneTimeToken("verification", u))

GetResetToken(t) == tokens[t]

GetVerificationToken(t) == tokens[t]

TokenIsUsable(row) == ~row.consumed /\ row.live

(* Mutant: no consumed_at IS NULL.                                         *)
ConsumableTwice(t) == TRUE

(* The number of rows with consumed_at IS NULL is 1.                       *)
Consumable(t) == ~tokens[t].consumed

ConsumeResetToken(t) == [tokens EXCEPT ![t].consumed = TRUE]

ConsumeVerificationToken(t) == [tokens EXCEPT ![t].consumed = TRUE]

GetServicePrincipal(p) == Principals[p]

ListActiveServiceCredentials(p) == Principals[p].secrets

InsertSecurityAudit(c, action) ==
  audit' = audit \cup {[correlation |-> c, action |-> action]}

InsertOutboxEvent(c, action) ==
  outbox' = outbox \cup {[correlation |-> c, action |-> action]}

(* Mutant: the audit row without its event.                                *)
RecordAuditOnly(c, action) == InsertSecurityAudit(c, action) /\ UNCHANGED outbox

recordAudit(c, action) == InsertSecurityAudit(c, action) /\ InsertOutboxEvent(c, action)
===============================================================================

--------------------------- MODULE IdentityAccounts ---------------------------
(***************************************************************************)
(* Registration, verification, password reset, user administration and     *)
(* service tokens (application/identity), composed with the sessions of    *)
(* IdentitySessions into the state machine of the Identity service.        *)
(***************************************************************************)
EXTENDS IdentitySessions

CONSTANTS InitialUsers, InitialRoles, InitialSessions   \* the tables at the start

(* Somebody is an administrator; sessions are the first of their families. *)
ASSUME InitialAssumption ==
  /\ InitialUsers \in [Users -> User]
  /\ InitialRoles \in [Users -> SUBSET Roles]
  /\ \E u \in Users : "admin" \in InitialRoles[u]
  /\ DOMAIN InitialSessions \subseteq SessionIds
  /\ InitialSessions \in [DOMAIN InitialSessions -> Session]
  /\ \A s \in DOMAIN InitialSessions : InitialSessions[s].family = s

vars == <<tables, call, mishaps>>

(* A transaction that wrote to a user keeps the row locked to its end.     *)
UserUnlocked(u, c) ==
  \A d \in Calls \ {c} : ~ /\ call[d].pc = "revoke" /\ call[d].user = u
                           /\ call[d].op \in {"disable", "confirm_reset"}

NewToken(t) == t \in TokenIds \ DOMAIN tokens

Mail(c, op, u, t) ==
  call' = [call EXCEPT ![c] = [Fresh EXCEPT !.op = op, !.pc = "mail", !.user = u,
                                            !.row = t]]

-------------------------------------------------------------------------------
(* Registration and verification.                                          *)

Register(c, u, t) ==
  /\ Starts(c, "register")
  /\ \/ /\ users[u].status # "ABSENT"
        /\ Refuse(c, "conflict")
        /\ UNCHANGED tables
     \/ /\ users[u].status = "ABSENT" /\ NewToken(t)
        /\ users' = CreateUser(u, c)
        /\ userRoles' = AssignRole(u, "customer")
        /\ tokens' = CreateVerificationToken(t, u)
        /\ recordAudit(c, "register.succeeded")
        /\ Mail(c, "register", u, t)
        /\ UNCHANGED sessions
  /\ UNCHANGED mishaps

(* The mail leaves after the commit; when it fails the row stays.          *)
SendMail(c) ==
  /\ call[c].pc = "mail"
  /\ \/ /\ tokens' = [tokens EXCEPT ![call[c].row].mailed = TRUE]
        /\ Return(c, "ok")
        /\ UNCHANGED mishaps
     \/ /\ mishaps < MaxMishaps
        /\ mishaps' = mishaps + 1
        /\ Return(c, "error")
        /\ UNCHANGED tokens
  /\ UNCHANGED <<users, userRoles, sessions, auditVars>>

(* A token is presented by whoever the mail reached.                       *)
PresentToken(c, op, row, t, pc) ==
  /\ Starts(c, op)
  /\ row.mailed
  /\ IF TokenIsUsable(row)
       THEN call' = [call EXCEPT ![c] = [Fresh EXCEPT !.op = op, !.pc = pc,
                                                !.user = row.user, !.row = t]]
       ELSE Refuse(c, "invalid_credentials")
  /\ UNCHANGED <<tables, mishaps>>

FindVerificationToken(c, t) ==
  /\ t \in DOMAIN tokens
  /\ GetVerificationToken(t).kind = "verification"
  /\ PresentToken(c, "confirm_email", GetVerificationToken(t), t, "verify")

ConfirmEmail(c) ==
  /\ call[c].pc = "verify"
  /\ UserUnlocked(call[c].user, c)
  /\ \/ /\ ~Consumable(call[c].row)
        /\ Refuse(c, "already_used")
        /\ UNCHANGED tables
     \/ /\ Consumable(call[c].row)
        /\ MarkEmailVerified(call[c].user) = users
        /\ Refuse(c, "invalid_credentials")
        /\ UNCHANGED tables
     \/ /\ Consumable(call[c].row)
        /\ MarkEmailVerified(call[c].user) # users
        /\ users' = MarkEmailVerified(call[c].user)
        /\ tokens' = ConsumeVerificationToken(call[c].row)
        /\ recordAudit(c, "email_verification.completed")
        /\ Return(c, "ok")
        /\ UNCHANGED <<userRoles, sessions>>
  /\ UNCHANGED mishaps

-------------------------------------------------------------------------------
(* Password reset.  An unknown address gets the same answer.               *)

requestPasswordReset(c, u, t) ==
  /\ Starts(c, "request_reset")
  /\ \/ /\ users[u].status = "ABSENT"
        /\ Answer(c, "request_reset", "ok")
        /\ UNCHANGED tables
     \/ /\ users[u].status # "ABSENT" /\ NewToken(t)
        /\ tokens' = CreateResetToken(t, u)
        /\ recordAudit(c, "password_reset.requested")
        /\ Mail(c, "request_reset", u, t)
        /\ UNCHANGED <<users, userRoles, sessions>>
  /\ UNCHANGED mishaps

FindResetToken(c, t) ==
  /\ t \in DOMAIN tokens
  /\ GetResetToken(t).kind = "reset"
  /\ PresentToken(c, "confirm_reset", GetResetToken(t), t, "reset")

(* UpdatePassword takes the row of the user, RevokeUserSessions its        *)
(* snapshot; the rest of the transaction follows.                          *)
BeginReset(c) ==
  /\ call[c].pc = "reset"
  /\ UserUnlocked(call[c].user, c)
  /\ call' = [call EXCEPT ![c].pc = "revoke", ![c].seen = RevokeUserSessions(call[c].user)]
  /\ UNCHANGED <<tables, mishaps>>

ConfirmPasswordReset(c) ==
  /\ call[c].op = "confirm_reset" /\ call[c].pc = "revoke"
  /\ \/ /\ ~Consumable(call[c].row)
        /\ Refuse(c, "already_used")
        /\ UNCHANGED tables
     \/ /\ Consumable(call[c].row)
        /\ RevokeSelected(c)
        /\ users' = UpdatePassword(call[c].user, c)
        /\ tokens' = ConsumeResetToken(call[c].row)
        /\ recordAudit(c, "password_reset.completed")
        /\ Return(c, "ok")
        /\ UNCHANGED userRoles
  /\ UNCHANGED mishaps

-------------------------------------------------------------------------------
(* Administration.                                                         *)

Administer(c, s) ==
  \E u \in Users :
    \/ \E op \in {"disable", "enable"} : Present(c, op, s, u, "admin")
    \/ \E op \in {"assign_role", "remove_role"}, role \in Roles :
         Present(c, op, s, u, role)

(* Mutant: the count is not compared.                                      *)
ProtectNone(c) ==
  /\ call[c].pc = "count"
  /\ Goto(c, IF call[c].op = "disable" THEN "update" ELSE "remove")
  /\ UNCHANGED <<tables, mishaps>>

ProtectLastAdministrator(c) ==
  /\ call[c].pc = "count"
  /\ IF HasActiveRole(call[c].user, "admin") /\ CountActiveAdministrators <= 1
       THEN Refuse(c, "conflict")
       ELSE Goto(c, IF call[c].op = "disable" THEN "update" ELSE "remove")
  /\ UNCHANGED <<tables, mishaps>>

BeginDisable(c) ==
  /\ call[c].pc = "update"
  /\ UserUnlocked(call[c].user, c)
  /\ IF users[call[c].user].status = "ABSENT"
       THEN Refuse(c, "not_found")
       ELSE call' = [call EXCEPT ![c].pc = "revoke",
                                 ![c].seen = RevokeUserSessions(call[c].user)]
  /\ UNCHANGED <<tables, mishaps>>

DisableUser(c) ==
  /\ call[c].op = "disable"
  /\ RevokeSelected(c)
  /\ users' = UpdateUserStatus(call[c].user, "DISABLED")
  /\ recordAudit(c, "user.disabled")
  /\ Return(c, "ok")
  /\ UNCHANGED <<userRoles, tokens, mishaps>>

EnableUser(c) ==
  /\ call[c].pc = "enable"
  /\ UserUnlocked(call[c].user, c)
  /\ \/ /\ users[call[c].user].status = "ABSENT"
        /\ Refuse(c, "not_found")
        /\ UNCHANGED tables
     \/ /\ users[call[c].user].status # "ABSENT"
        /\ users' = UpdateUserStatus(call[c].user, "ACTIVE")
        /\ recordAudit(c, "user.enabled")
        /\ Return(c, "ok")
        /\ UNCHANGED <<userRoles, tokens, sessions>>
  /\ UNCHANGED mishaps

(* A user that does not exist violates the foreign key.                    *)
AssignUserRole(c) ==
  /\ call[c].pc = "assign"
  /\ LET u == call[c].user
         role == call[c].role
     IN \/ /\ users[u].status = "ABSENT"
           /\ Refuse(c, "error")
           /\ UNCHANGED tables
        \/ /\ users[u].status # "ABSENT"
           /\ ~GetRoleByName(role) \/ HasActiveRole(u, role)
           /\ Refuse(c, "not_found")
           /\ UNCHANGED tables
        \/ /\ users[u].status # "ABSENT"
           /\ GetRoleByName(role) /\ ~HasActiveRole(u, role)
           /\ userRoles' = AssignRole(u, role)
           /\ recordAudit(c, "role.assigned")
           /\ Return(c, "ok")
           /\ UNCHANGED <<users, tokens, sessions>>
  /\ UNCHANGED mishaps

(* The commit marks the removals that have counted and not yet removed.    *)
RemoveUserRole(c) ==
  /\ call[c].pc = "remove"
  /\ LET u == call[c].user
         role == call[c].role
     IN \/ /\ ~HasActiveRole(u, role)
           /\ Refuse(c, "not_found")
           /\ UNCHANGED tables
        \/ /\ HasActiveRole(u, role)
           /\ userRoles' = RemoveRole(u, role)
           /\ recordAudit(c, "role.removed")
           /\ call' = [d \in Calls |->
                IF d = c THEN Done(c, "ok")
                ELSE IF call[d].pc = "remove" THEN [call[d] EXCEPT !.raced = TRUE]
                ELSE call[d]]
           /\ UNCHANGED <<users, tokens, sessions>>
  /\ UNCHANGED mishaps

-------------------------------------------------------------------------------
(* Service tokens.  Principals and their credentials do not change.        *)

Scopes == UNION {Principals[p].scopes : p \in DOMAIN Principals}

Grant(p, secret, requested) ==
  CASE requested = {}                                 -> "invalid_credentials"
    [] p \notin DOMAIN Principals                     -> "invalid_credentials"
    [] GetServicePrincipal(p).status # "ACTIVE"       -> "invalid_credentials"
    [] secret \notin ListActiveServiceCredentials(p)  -> "invalid_credentials"
    [] ~(requested \subseteq GetServicePrincipal(p).scopes) -> "forbidden"
    [] OTHER                                          -> "ok"

serviceToken(c, p, secret, requested) ==
  /\ Starts(c, "service_token")
  /\ Answer(c, "service_token", Grant(p, secret, requested))
  /\ IF Grant(p, secret, requested) = "ok"
       THEN recordAudit(c, "service_token.issued") /\ UNCHANGED <<accountVars, sessions>>
       ELSE UNCHANGED tables
  /\ UNCHANGED mishaps

-------------------------------------------------------------------------------
TokenExpires(t) ==
  /\ t \in DOMAIN tokens
  /\ tokens[t].live
  /\ tokens' = [tokens EXCEPT ![t].live = FALSE]
  /\ UNCHANGED <<users, userRoles, sessions, auditVars, call, mishaps>>

AccountStep(c) ==
  \/ \E u \in Users, t \in TokenIds : Register(c, u, t) \/ requestPasswordReset(c, u, t)
  \/ SendMail(c)
  \/ \E t \in TokenIds : FindVerificationToken(c, t) \/ FindResetToken(c, t)
  \/ ConfirmEmail(c) \/ BeginReset(c) \/ ConfirmPasswordReset(c)
  \/ \E s \in SessionIds : Administer(c, s)
  \/ ProtectLastAdministrator(c) \/ BeginDisable(c) \/ DisableUser(c) \/ EnableUser(c)
  \/ AssignUserRole(c) \/ RemoveUserRole(c)
  \/ \E p \in DOMAIN Principals \cup {"unknown"}, secret \in {"current", "retired"},
       requested \in SUBSET (Scopes \cup {"ungranted"}) :
       serviceToken(c, p, secret, requested)

Init ==
  /\ users = InitialUsers /\ userRoles = InitialRoles /\ sessions = InitialSessions
  /\ tokens = <<>> /\ audit = {} /\ outbox = {}
  /\ call = [c \in Calls |-> Fresh] /\ mishaps = 0

Next ==
  \/ \E c \in Calls : SessionStep(c) \/ AccountStep(c)
  \/ \E s \in SessionIds : SessionExpires(s)
  \/ \E t \in TokenIds : TokenExpires(t)

Spec == Init /\ [][Next]_vars
-------------------------------------------------------------------------------
(* The tables and the requests are of their types: statuses are those of   *)
(* the schema, sessions and tokens name users, no table outgrows its ids.  *)
TypeOK ==
  /\ StoreTypeOK
  /\ call \in [Calls -> Call]
  /\ mishaps \in 0 .. MaxMishaps

(* However refreshes of one token interleave, with each other and with     *)
(* revocations, a family has at most one ACTIVE session: LockActiveSession *)
(* and RotateSession let one of them through.                              *)
OneActivePerFamily ==
  \A s, t \in DOMAIN sessions :
    /\ sessions[s].status = "ACTIVE" /\ sessions[t].status = "ACTIVE"
    /\ sessions[s].family = sessions[t].family
    => s = t

Revocations == {"refresh", "logout", "logout_all", "disable", "confirm_reset"}

Revoking(c) ==
  /\ call[c].pc = "done" /\ call[c].op \in Revocations
  /\ call[c].reply \in IF call[c].op = "refresh" THEN {"refresh_reuse"}
                                               ELSE {"ok", "unavailable"}

(* A family that a completed reuse detection, logout, logout-all, reset or *)
(* disablement has revoked has no ACTIVE session ever after, whatever      *)
(* refresh was under way: unless one committed between the snapshot of the *)
(* revocation, or the check of the logout's session, and the commit.       *)
RevokedFamiliesAreDead ==
  \A c \in Calls : Revoking(c) /\ ~call[c].raced =>
    \A s \in DOMAIN sessions, t \in call[c].seen :
      sessions[s].family = sessions[t].family => sessions[s].status # "ACTIVE"

(* A DISABLED user has an ACTIVE session only if a login had read the user *)
(* before and committed after, or a refresh escaped the revocation:        *)
(* createSession does not look at the user again.                          *)
DisabledIsOut ==
  \A s \in DOMAIN sessions :
    /\ sessions[s].status = "ACTIVE"
    /\ users[sessions[s].user].status = "DISABLED"
    => \E c \in Calls : /\ call[c].pc = "done" /\ call[c].raced
                        /\ call[c].user = sessions[s].user
                        /\ call[c].op \in {"login", "disable"}

(* A reset token changes the password once, and the password in force was  *)
(* set by a registration or by a reset that was reported as done: the      *)
(* transaction that loses ConsumeResetToken rolls its UpdatePassword back. *)
OneResetPerToken ==
  /\ \A c, d \in Calls :
       /\ call[c].op = "confirm_reset" /\ call[d].op = "confirm_reset"
       /\ call[c].reply = "ok" /\ call[d].reply = "ok" /\ call[c].row = call[d].row
       => c = d
  /\ \A u \in Users : \A c \in users[u].password :
       \/ call[c].op = "register"
       \/ call[c].op = "confirm_reset" /\ call[c].reply = "ok"

Effective(c) ==
  \/ call[c].pc = "mail"
  \/ call[c].op = "register" /\ call[c].reply = "error"
  \/ call[c].op = "request_reset" /\ call[c].reply = "error"
  \/ call[c].reply \in {"refresh_reuse", "unavailable"}
  \/ /\ call[c].reply = "ok" /\ call[c].op # "sessions"
     /\ ~(call[c].op = "request_reset" /\ call[c].row = 0)

(* The audit trail and the outbox hold the requests that took effect, and  *)
(* no request that was refused or rolled back.                             *)
AuditedExactly ==
  /\ audit = outbox
  /\ \A c \in Calls : Effective(c) <=> \E row \in outbox : row.correlation = c

(* Somebody keeps the role admin, unless two removals overlap: the count   *)
(* is read without a lock and not compared again.                          *)
AdministratorRemains ==
  (\A c \in Calls : call[c].op = "remove_role" => ~call[c].raced)
    => \E u \in Users : "admin" \in userRoles[u]

(* A listing that was read to its last page has returned every session the *)
(* user had when it began, whatever was created or revoked meanwhile.      *)
ListingIsComplete ==
  \A c \in Calls : call[c].op = "sessions" /\ call[c].reply = "ok"
    => call[c].known \subseteq call[c].seen

(* A session leaves ACTIVE once, REVOKED never, and no row is deleted or   *)
(* changes its user or family.                                              *)
SessionLifecycle ==
  [][\A s \in DOMAIN sessions :
       /\ s \in DOMAIN sessions'
       /\ sessions'[s].user = sessions[s].user
       /\ sessions'[s].family = sessions[s].family
       /\ <<sessions[s].status, sessions'[s].status>> \in
            {<<"ACTIVE", "ACTIVE">>, <<"ACTIVE", "ROTATED">>, <<"ACTIVE", "REVOKED">>,
             <<"ROTATED", "ROTATED">>, <<"ROTATED", "REVOKED">>,
             <<"REVOKED", "REVOKED">>}]_vars

(* What STORY-010 and the tests call last administrator protection: an     *)
(* administrator who can still act is left.                                *)
LastAdministratorProtected ==
  \E u \in Users : "admin" \in userRoles[u] /\ users[u].status = "ACTIVE"
===============================================================================

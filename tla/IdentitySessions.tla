--------------------------- MODULE IdentitySessions ---------------------------
(***************************************************************************)
(* Login, refresh, logout and the listing of sessions (application/identity*)
(* with the handlers that call it), as concurrent requests over one        *)
(* database in READ COMMITTED.                                             *)
(*                                                                         *)
(* Reads outside a transaction are steps of their own.  A transaction is   *)
(* one step where its row locks make it so, and several where they do not: *)
(* a revocation selects its rows from the snapshot of its statement, waits *)
(* for the rows a refresh holds with FOR UPDATE, and then updates the rows *)
(* it selected.  What was committed meanwhile it does not see.             *)
(*                                                                         *)
(* The rate limits of an attempt are RateLimit's: one they refuse does not *)
(* reach the tables.                                                       *)
(***************************************************************************)
EXTENDS IdentityStore

CONSTANTS Operations,   \* the operations requests may ask for
          PageSize,     \* limit of a page; 25 by default, at most 100
          MaxMishaps    \* bound on failed database and mail calls

ASSUME SessionsAssumption == PageSize \in Nat \ {0} /\ MaxMishaps \in Nat

VARIABLES call, mishaps

Stages == {"ready", "auth", "user", "roles", "create", "lock", "locked", "reuse",
           "sessions", "revoke", "logout", "page", "count", "enable", "update", "assign",
           "remove", "verify", "reset", "mail", "done"}

Replies == {"none", "ok", "invalid_credentials", "refresh_reuse", "forbidden",
            "unauthorized", "conflict", "not_found", "already_used", "unavailable",
            "error"}

(* actor, row: the session presented as bearer token, the session or token *)
(* the request is about, 0 for none.  seen: rows a statement selected, or  *)
(* a listing returned.  known: the user's sessions when the listing began. *)
(* raced: another request committed in the window of this one.             *)
Call == [pc : Stages, op : Operations \cup {"none"}, user : Users \cup {"nobody"},
         actor : 0 .. MaxSessions, row : Nat, usable : BOOLEAN, claims : SUBSET Roles,
         role : Roles, seen : SUBSET SessionIds, known : SUBSET SessionIds,
         raced : BOOLEAN, reply : Replies]

Fresh == [pc |-> "ready", op |-> "none", user |-> "nobody", actor |-> 0, row |-> 0,
          usable |-> FALSE, claims |-> {}, role |-> "admin", seen |-> {},
          known |-> {}, raced |-> FALSE, reply |-> "none"]

SessionsOf(u) == {s \in DOMAIN sessions : sessions[s].user = u}

Starts(c, op) == call[c].pc = "ready" /\ op \in Operations

Goto(c, pc) == call' = [call EXCEPT ![c].pc = pc]

(* A request that took effect keeps what it did, one that was refused only *)
(* its answer.                                                             *)
Done(c, reply) ==
  [call[c] EXCEPT !.pc = "done", !.reply = reply, !.actor = 0, !.usable = FALSE,
                  !.claims = {}, !.role = "admin"]

Return(c, reply) == call' = [call EXCEPT ![c] = Done(c, reply)]

Answer(c, op, reply) ==
  call' = [call EXCEPT ![c] = [Fresh EXCEPT !.op = op, !.pc = "done", !.reply = reply]]

Refuse(c, reply) == Answer(c, "none", reply)

(* Mutant: LockActiveSession without FOR UPDATE.                           *)
NeverLocked(rows, c) == TRUE

(* Rows held by LockActiveSession until their refresh commits.             *)
Unlocked(rows, c) ==
  \A d \in Calls \ {c} : call[d].pc = "locked" => call[d].row \notin rows

(* A commit that adds a session to u marks the revocations it has escaped. *)
Committed(c, reply, u) ==
  call' = [d \in Calls |->
    IF d = c THEN Done(c, reply)
    ELSE IF call[d].pc = "revoke" /\ call[d].user = u
      THEN [call[d] EXCEPT !.raced = TRUE] ELSE call[d]]

-------------------------------------------------------------------------------
(* Login.                                                                  *)

MayLogin(u, password) ==
  LET user == GetUserByEmail(u)
  IN user.status = "ACTIVE" /\ user.verified /\ user.password = password

Login(c, u, password) ==
  /\ Starts(c, "login")
  /\ \/ /\ MayLogin(u, password)
        /\ call' = [call EXCEPT ![c] = [Fresh EXCEPT !.op = "login", !.pc = "roles",
                                                     !.user = u]]
     \/ /\ ~MayLogin(u, password)
        /\ Refuse(c, "invalid_credentials")
  /\ UNCHANGED <<tables, mishaps>>

UserRoles(c) ==
  /\ call[c].pc = "roles"
  /\ call' = [call EXCEPT ![c].claims = ListUserRoles(call[c].user),
                          ![c].pc = IF call[c].op = "login" THEN "create" ELSE "lock"]
  /\ UNCHANGED <<tables, mishaps>>

Disabling(u) ==
  \/ users[u].status = "DISABLED"
  \/ \E d \in Calls : call[d].pc = "revoke" /\ call[d].op = "disable" /\ call[d].user = u

(* A new family, in a transaction that does not look at the user again;    *)
(* raced when the user has meanwhile been disabled or is about to be.      *)
createSession(c, s) ==
  /\ call[c].pc = "create"
  /\ s \in SessionIds \ DOMAIN sessions
  /\ sessions' = CreateSession(sessions, s, NewSession(call[c].user, s, call[c].claims))
  /\ recordAudit(c, "login.succeeded")
  /\ call' = [call EXCEPT ![c] = [Done(c, "ok") EXCEPT !.raced = Disabling(call[c].user)]]
  /\ UNCHANGED <<accountVars, mishaps>>

-------------------------------------------------------------------------------
(* Refresh.  The holder of any refresh token ever issued may present it.   *)

Refresh(c, s) ==
  /\ Starts(c, "refresh")
  /\ s \in DOMAIN sessions
  /\ LET row == GetSessionByRefreshHash(s)
     IN call' = [call EXCEPT ![c] =
          [Fresh EXCEPT !.op = "refresh", !.pc = "user", !.user = row.user,
                        !.row = s, !.usable = IsUsable(row)]]
  /\ UNCHANGED <<tables, mishaps>>

FindUser(c) ==
  /\ call[c].pc = "user"
  /\ Goto(c, IF call[c].usable /\ GetUserByID(call[c].user).status = "ACTIVE"
               THEN "roles" ELSE "reuse")
  /\ UNCHANGED <<tables, mishaps>>

(* Mutant: the session that was read is trusted, the lock is not taken.    *)
RefreshWithoutLock(c) ==
  /\ call[c].pc = "lock"
  /\ Goto(c, "locked")
  /\ UNCHANGED <<tables, mishaps>>

RefreshLock(c) ==
  /\ call[c].pc = "lock"
  /\ Unlocked({call[c].row}, c)
  /\ Goto(c, IF LockActiveSession(call[c].row) THEN "locked" ELSE "reuse")
  /\ UNCHANGED <<tables, mishaps>>

(* The lock is held, so RotateSession finds its row.                       *)
RefreshCommit(c, s) ==
  /\ call[c].pc = "locked"
  /\ s \in SessionIds \ DOMAIN sessions
  /\ sessions' = RotateSession(
       CreateSession(sessions, s,
         NewSession(call[c].user, sessions[call[c].row].family, call[c].claims)),
       call[c].row)
  /\ recordAudit(c, "refresh.succeeded")
  /\ Committed(c, "ok", call[c].user)
  /\ UNCHANGED <<accountVars, mishaps>>

(* The two places that detect reuse, before and in the transaction.        *)
SelectFamily(c) ==
  /\ call[c].pc = "reuse"
  /\ call' = [call EXCEPT ![c].pc = "revoke",
       ![c].seen = RevokeSessionFamily(sessions[call[c].row].family)]
  /\ UNCHANGED <<tables, mishaps>>

RevokeSelected(c) ==
  /\ call[c].pc = "revoke"
  /\ Unlocked(call[c].seen, c)
  /\ sessions' = Revoked(call[c].seen)

RefreshReuse(c) ==
  /\ call[c].op = "refresh"
  /\ RevokeSelected(c)
  /\ recordAudit(c, "refresh.reuse_detected")
  /\ Return(c, "refresh_reuse")
  /\ UNCHANGED <<accountVars, mishaps>>

-------------------------------------------------------------------------------
(* Operations behind the auth middleware, which checks the session of the  *)
(* access token before the handler runs.                                   *)

Present(c, op, s, u, role) ==
  /\ Starts(c, op)
  /\ s \in DOMAIN sessions
  /\ call' = [call EXCEPT ![c] =
       [Fresh EXCEPT !.op = op, !.pc = "auth", !.actor = s, !.user = u, !.role = role,
                     !.row = MaxSessions + 1, !.known = SessionsOf(u)]]
  /\ UNCHANGED <<tables, mishaps>>

SelfService(c, s) ==
  \E op \in {"logout", "logout_all", "sessions"} :
    Present(c, op, s, sessions[s].user, "admin")

IsSessionActive(s) == IsUsable(GetSessionByID(s))

FirstStep(op, role) ==
  CASE op = "logout"      -> "logout"
    [] op = "logout_all"  -> "sessions"
    [] op = "sessions"    -> "page"
    [] op = "disable"     -> "count"
    [] op = "enable"      -> "enable"
    [] op = "assign_role" -> "assign"
    [] op = "remove_role" -> IF role = "admin" THEN "count" ELSE "remove"

(* identity:roles:manage is a permission of the role admin.                *)
hasScope(c) ==
  \/ call[c].op \in {"logout", "logout_all", "sessions"}
  \/ "admin" \in sessions[call[c].actor].claims

auth(c) ==
  /\ call[c].pc = "auth"
  /\ \/ ~IsSessionActive(call[c].actor) /\ Refuse(c, "unauthorized")
     \/ /\ IsSessionActive(call[c].actor)
        /\ IF hasScope(c) THEN Goto(c, FirstStep(call[c].op, call[c].role))
                          ELSE Refuse(c, "forbidden")
  /\ UNCHANGED <<tables, mishaps>>

(* raced: the session was refreshed after the middleware had looked at it, *)
(* and its successor stays.  After the commit the handler puts the token's *)
(* id on the denylist in Redis; when that fails the answer is 503 although *)
(* the session is revoked.  The denylist itself is not state here: a token *)
(* is on it only after its session was revoked, which the middleware finds *)
(* out by itself.                                                          *)
Logout(c) ==
  /\ call[c].pc = "logout"
  /\ Unlocked(RevokeSessionByID(call[c].actor), c)
  /\ sessions' = Revoked(RevokeSessionByID(call[c].actor))
  /\ recordAudit(c, "logout.succeeded")
  /\ \/ mishaps' = mishaps
     \/ mishaps < MaxMishaps /\ mishaps' = mishaps + 1
  /\ call' = [call EXCEPT ![c] =
       [Done(c, IF mishaps' = mishaps THEN "ok" ELSE "unavailable") EXCEPT
          !.seen = RevokeSessionByID(call[c].actor),
          !.raced = sessions[call[c].actor].status # "ACTIVE"]]
  /\ UNCHANGED accountVars

SelectSessions(c) ==
  /\ call[c].pc = "sessions"
  /\ call' = [call EXCEPT ![c].pc = "revoke", ![c].seen = RevokeUserSessions(call[c].user)]
  /\ UNCHANGED <<tables, mishaps>>

LogoutAll(c) ==
  /\ call[c].op = "logout_all"
  /\ RevokeSelected(c)
  /\ recordAudit(c, "logout_all.succeeded")
  /\ Return(c, "ok")
  /\ UNCHANGED <<accountVars, mishaps>>

Least(S) == CHOOSE x \in S : \A y \in S : x <= y

(* Mutant: the cursor is the row fetched to learn that there is more.      *)
CursorAfterFetched(page, fetched) == Least(fetched)

Cursor(page, fetched) == Least(page)

(* One row more than the page tells whether there is another page, which   *)
(* the client asks for with a new request.                                 *)
ListSessionsPage(c) ==
  /\ call[c].pc = "page"
  /\ LET fetched == ListUserSessionsPage(call[c].user, call[c].row, PageSize + 1)
         page == ListUserSessionsPage(call[c].user, call[c].row, PageSize)
     IN call' = [call EXCEPT ![c] =
          IF fetched # page
            THEN [call[c] EXCEPT !.seen = call[c].seen \cup page, !.pc = "auth",
                                 !.row = Cursor(page, fetched)]
            ELSE [Done(c, "ok") EXCEPT !.seen = call[c].seen \cup page]]
  /\ UNCHANGED <<tables, mishaps>>

-------------------------------------------------------------------------------
(* A failed statement rolls back and is reported as an error, by the       *)
(* middleware as a refusal.                                                *)
DatabaseError(c) ==
  /\ call[c].pc \notin {"ready", "mail", "done"}
  /\ mishaps < MaxMishaps
  /\ mishaps' = mishaps + 1
  /\ Refuse(c, IF call[c].pc = "auth" THEN "unauthorized" ELSE "error")
  /\ UNCHANGED tables

SessionExpires(s) ==
  /\ s \in DOMAIN sessions
  /\ sessions[s].live
  /\ sessions' = [sessions EXCEPT ![s].live = FALSE]
  /\ UNCHANGED <<accountVars, auditVars, call, mishaps>>

SessionStep(c) ==
  \/ \E u \in Users, p \in {{}} \cup {{d} : d \in Calls} : Login(c, u, p)
  \/ UserRoles(c) \/ \E s \in SessionIds : createSession(c, s)
  \/ \E s \in SessionIds : Refresh(c, s) \/ SelfService(c, s)
  \/ FindUser(c) \/ RefreshLock(c)
  \/ \E s \in SessionIds : RefreshCommit(c, s)
  \/ SelectFamily(c) \/ RefreshReuse(c)
  \/ auth(c) \/ Logout(c) \/ SelectSessions(c) \/ LogoutAll(c) \/ ListSessionsPage(c)
  \/ DatabaseError(c)
===============================================================================

-------------------------- MODULE IdentitySessionProofs --------------------------
(* The inductive invariant of IdentityAccounts, and the lemmas that login, *)
(* refresh and the revocations preserve it.                                *)
EXTENDS IdentityAccounts, TLAPS

USE StoreAssumption, SessionsAssumption

-------------------------------------------------------------------------------
(* The fields of a request that the invariants speak of.                   *)
Fields(v, pc, op, user, actor, row, role, seen, raced, reply) ==
  /\ v \in Call /\ v.pc = pc /\ v.op = op /\ v.user = user /\ v.actor = actor
  /\ v.row = row /\ v.role = role /\ v.seen = seen /\ v.raced = raced /\ v.reply = reply

LEMMA FreshFields ==
  Fields(Fresh, "ready", "none", "nobody", 0, 0, "admin", {}, FALSE, "none")
<1>1. /\ 0 \in 0 .. MaxSessions /\ 0 \in Nat /\ "ready" \in Stages /\ "none" \in Replies
      /\ "admin" \in Roles /\ "none" \in Operations \cup {"none"}
  BY DEF Stages, Replies
<1>2. "nobody" \in Users \cup {"nobody"} /\ {} \in SUBSET Roles /\ {} \in SUBSET SessionIds
  OBVIOUS
<1> QED
  BY <1>1, <1>2, Zenon DEF Fields, Fresh, Call

LEMMA PcFields ==
  ASSUME NEW v \in Call, NEW p \in Stages
  PROVE  Fields([v EXCEPT !.pc = p],
                p, v.op, v.user, v.actor, v.row, v.role, v.seen, v.raced, v.reply)
  BY Zenon DEF Fields, Call

LEMMA DoneFields ==
  ASSUME call \in [Calls -> Call], NEW c \in Calls, NEW reply \in Replies
  PROVE  Fields(Done(c, reply),
                "done", call[c].op, call[c].user, 0, call[c].row, "admin", call[c].seen,
                call[c].raced, reply)
<1>1. ASSUME NEW v \in Call
      PROVE  Fields([v EXCEPT !.pc = "done", !.reply = reply, !.actor = 0, !.usable = FALSE,
                              !.claims = {}, !.role = "admin"],
                    "done", v.op, v.user, 0, v.row, "admin", v.seen, v.raced, reply)
  <2>1. 0 \in 0 .. MaxSessions /\ "done" \in Stages
    BY DEF Stages
  <2>2. {} \in SUBSET Roles
    OBVIOUS
  <2> QED
    BY <2>1, <2>2, Zenon DEF Fields, Call
<1> QED
  BY <1>1, ZenonT(30) DEF Done

LEMMA RacedFields ==
  ASSUME NEW v \in Call, NEW b \in BOOLEAN
  PROVE  Fields([v EXCEPT !.raced = b],
                v.pc, v.op, v.user, v.actor, v.row, v.role, v.seen, b, v.reply)
  BY Zenon DEF Fields, Call

LEMMA SeenFields ==
  ASSUME NEW v \in Call, NEW S \in SUBSET SessionIds
  PROVE  Fields([v EXCEPT !.seen = S],
                v.pc, v.op, v.user, v.actor, v.row, v.role, S, v.raced, v.reply)
  BY Zenon DEF Fields, Call

LEMMA SeenRacedFields ==
  ASSUME NEW v \in Call, NEW S \in SUBSET SessionIds, NEW b \in BOOLEAN
  PROVE  Fields([v EXCEPT !.seen = S, !.raced = b],
                v.pc, v.op, v.user, v.actor, v.row, v.role, S, b, v.reply)
  BY Zenon DEF Fields, Call

LEMMA AnswerFields ==
  ASSUME NEW op \in Operations \cup {"none"}, NEW reply \in Replies
  PROVE  Fields([Fresh EXCEPT !.op = op, !.pc = "done", !.reply = reply],
                "done", op, "nobody", 0, 0, "admin", {}, FALSE, reply)
<1>1. ASSUME NEW v \in Call
      PROVE  Fields([v EXCEPT !.op = op, !.pc = "done", !.reply = reply],
                    "done", op, v.user, v.actor, v.row, v.role, v.seen, v.raced, reply)
  <2>1. "done" \in Stages
    BY DEF Stages
  <2> QED
    BY <2>1, Zenon DEF Fields, Call
<1> QED
  BY <1>1, FreshFields, ZenonT(30) DEF Fields

LEMMA StartFields ==
  ASSUME NEW op \in Operations \cup {"none"}, NEW p \in Stages, NEW u \in Users
  PROVE  Fields([Fresh EXCEPT !.op = op, !.pc = p, !.user = u],
                p, op, u, 0, 0, "admin", {}, FALSE, "none")
<1>1. ASSUME NEW v \in Call
      PROVE  Fields([v EXCEPT !.op = op, !.pc = p, !.user = u],
                    p, op, u, v.actor, v.row, v.role, v.seen, v.raced, v.reply)
  BY Zenon DEF Fields, Call
<1> QED
  BY <1>1, FreshFields, ZenonT(30) DEF Fields

LEMMA RowFields ==
  ASSUME NEW op \in Operations \cup {"none"}, NEW p \in Stages, NEW u \in Users, NEW n \in Nat
  PROVE  Fields([Fresh EXCEPT !.op = op, !.pc = p, !.user = u, !.row = n],
                p, op, u, 0, n, "admin", {}, FALSE, "none")
<1>1. ASSUME NEW v \in Call
      PROVE  Fields([v EXCEPT !.op = op, !.pc = p, !.user = u, !.row = n],
                    p, op, u, v.actor, n, v.role, v.seen, v.raced, v.reply)
  BY Zenon DEF Fields, Call
<1> QED
  BY <1>1, FreshFields, ZenonT(30) DEF Fields

LEMMA RefreshFields ==
  ASSUME NEW u \in Users, NEW n \in Nat, NEW b \in BOOLEAN, "refresh" \in Operations
  PROVE  Fields([Fresh EXCEPT !.op = "refresh", !.pc = "user", !.user = u, !.row = n,
                              !.usable = b],
                "user", "refresh", u, 0, n, "admin", {}, FALSE, "none")
<1>1. ASSUME NEW v \in Call
      PROVE  Fields([v EXCEPT !.op = "refresh", !.pc = "user", !.user = u, !.row = n,
                              !.usable = b],
                    "user", "refresh", u, v.actor, n, v.role, v.seen, v.raced, v.reply)
  <2>1. "user" \in Stages /\ "refresh" \in Operations \cup {"none"}
    BY DEF Stages
  <2> QED
    BY <2>1, Zenon DEF Fields, Call
<1> QED
  BY <1>1, FreshFields, ZenonT(30) DEF Fields

LEMMA ClaimsFields ==
  ASSUME NEW v \in Call, NEW p \in Stages, NEW S \in SUBSET Roles
  PROVE  Fields([v EXCEPT !.claims = S, !.pc = p],
                p, v.op, v.user, v.actor, v.row, v.role, v.seen, v.raced, v.reply)
  BY Zenon DEF Fields, Call

LEMMA SelectFields ==
  ASSUME NEW v \in Call, NEW S \in SUBSET SessionIds
  PROVE  Fields([v EXCEPT !.pc = "revoke", !.seen = S],
                "revoke", v.op, v.user, v.actor, v.row, v.role, S, v.raced, v.reply)
<1>1. "revoke" \in Stages
  BY DEF Stages
<1> QED
  BY <1>1, Zenon DEF Fields, Call

LEMMA PresentFields ==
  ASSUME NEW op \in Operations \cup {"none"}, NEW s \in 0 .. MaxSessions, NEW u \in Users, NEW role \in Roles,
         NEW n \in Nat, NEW S \in SUBSET SessionIds
  PROVE  Fields([Fresh EXCEPT !.op = op, !.pc = "auth", !.actor = s, !.user = u,
                              !.role = role, !.row = n, !.known = S],
                "auth", op, u, s, n, role, {}, FALSE, "none")
<1>1. ASSUME NEW v \in Call
      PROVE  Fields([v EXCEPT !.op = op, !.pc = "auth", !.actor = s, !.user = u,
                              !.role = role, !.row = n, !.known = S],
                    "auth", op, u, s, n, role, v.seen, v.raced, v.reply)
  <2>1. "auth" \in Stages
    BY DEF Stages
  <2> QED
    BY <2>1, Zenon DEF Fields, Call
<1> QED
  BY <1>1, FreshFields, ZenonT(30) DEF Fields

LEMMA PageFields ==
  ASSUME NEW v \in Call, NEW S \in SUBSET SessionIds, NEW n \in Nat
  PROVE  Fields([v EXCEPT !.seen = S, !.pc = "auth", !.row = n],
                "auth", v.op, v.user, v.actor, n, v.role, S, v.raced, v.reply)
<1>1. "auth" \in Stages
  BY DEF Stages
<1> QED
  BY <1>1, Zenon DEF Fields, Call

-------------------------------------------------------------------------------
(* The table of sessions.  T is its contents before a step, U after it.    *)

(* Every session is of the family of an existing one, families are of one  *)
(* user and have at most one ACTIVE session.                               *)
SessionsOK(T) ==
  /\ DOMAIN T \subseteq SessionIds /\ T \in [DOMAIN T -> Session]
  /\ \A s \in DOMAIN T : T[s].family \in DOMAIN T
  /\ \A s, t \in DOMAIN T : T[s].family = T[t].family => T[s].user = T[t].user
  /\ \A s, t \in DOMAIN T :
       T[s].status = "ACTIVE" /\ T[t].status = "ACTIVE" /\ T[s].family = T[t].family => s = t

Kept(T, U, t) ==
  U[t] \in Session /\ U[t].user = T[t].user /\ U[t].family = T[t].family

(* A new session of a new family.                                          *)
Opens(T, U, s, u) ==
  /\ s \in SessionIds \ DOMAIN T /\ DOMAIN U = DOMAIN T \cup {s} /\ U \in [DOMAIN U -> Session]
  /\ U[s].user = u /\ U[s].family = s
  /\ \A t \in DOMAIN T : Kept(T, U, t) /\ U[t].status = T[t].status

(* The ACTIVE session r is replaced by s.                                  *)
Rotates(T, U, r, s) ==
  /\ r \in DOMAIN T /\ T[r].status = "ACTIVE"
  /\ s \in SessionIds \ DOMAIN T /\ DOMAIN U = DOMAIN T \cup {s} /\ U \in [DOMAIN U -> Session]
  /\ U[s].user = T[r].user /\ U[s].family = T[r].family
  /\ U[r].status = "ROTATED"
  /\ \A t \in DOMAIN T : Kept(T, U, t) /\ (t # r => U[t].status = T[t].status)

(* The sessions in rows are revoked.                                       *)
Revokes(T, U, rows) ==
  /\ DOMAIN U = DOMAIN T /\ U \in [DOMAIN U -> Session]
  /\ \A t \in DOMAIN T : /\ Kept(T, U, t)
                         /\ t \in rows => U[t].status = "REVOKED"
                         /\ t \notin rows => U[t].status = T[t].status

LEMMA OpensKeeps ==
  ASSUME NEW T, NEW U, NEW s, NEW u, SessionsOK(T), Opens(T, U, s, u)
  PROVE  SessionsOK(U)
<1>1. \A t \in DOMAIN U : U[t].family \in DOMAIN U
  BY DEF SessionsOK, Opens, Kept
<1>2. \A t \in DOMAIN T : U[t].family # s
  BY DEF SessionsOK, Opens, Kept
<1>3. ASSUME NEW x \in DOMAIN U, NEW y \in DOMAIN U, U[x].family = U[y].family
      PROVE  /\ U[x].user = U[y].user
             /\ U[x].status = "ACTIVE" /\ U[y].status = "ACTIVE" => x = y
  <2>1. CASE x = s \/ y = s
    BY <1>2, <1>3, <2>1 DEF Opens
  <2>2. CASE x \in DOMAIN T /\ y \in DOMAIN T
    BY <1>3, <2>2 DEF Opens, Kept, SessionsOK
  <2> QED
    BY <2>1, <2>2 DEF Opens
<1> QED
  BY <1>1, <1>3 DEF SessionsOK, Opens

LEMMA RotatesKeeps ==
  ASSUME NEW T, NEW U, NEW r, NEW s, SessionsOK(T), Rotates(T, U, r, s)
  PROVE  SessionsOK(U)
<1>1. \A t \in DOMAIN U : U[t].family \in DOMAIN U
  BY DEF SessionsOK, Rotates, Kept
<1>2. ASSUME NEW y \in DOMAIN T, U[y].family = U[s].family
      PROVE  U[y].user = U[s].user /\ U[y].status # "ACTIVE"
  BY <1>2 DEF SessionsOK, Rotates, Kept
<1>3. ASSUME NEW x \in DOMAIN U, NEW y \in DOMAIN U, U[x].family = U[y].family
      PROVE  /\ U[x].user = U[y].user
             /\ U[x].status = "ACTIVE" /\ U[y].status = "ACTIVE" => x = y
  <2>1. CASE x = s
    BY <1>2, <1>3, <2>1 DEF Rotates
  <2>2. CASE y = s
    BY <1>2, <1>3, <2>2 DEF Rotates
  <2>3. CASE x \in DOMAIN T /\ y \in DOMAIN T
    BY <1>3, <2>3 DEF Rotates, Kept, SessionsOK
  <2> QED
    BY <2>1, <2>2, <2>3 DEF Rotates
<1> QED
  BY <1>1, <1>3 DEF SessionsOK, Rotates

LEMMA RevokesKeeps ==
  ASSUME NEW T, NEW U, NEW rows, SessionsOK(T), Revokes(T, U, rows)
  PROVE  SessionsOK(U)
<1>1. ASSUME NEW x \in DOMAIN U, NEW y \in DOMAIN U, U[x].family = U[y].family
      PROVE  /\ U[x].user = U[y].user
             /\ U[x].status = "ACTIVE" /\ U[y].status = "ACTIVE" => x = y
  BY <1>1 DEF SessionsOK, Revokes, Kept
<1>2. \A t \in DOMAIN U : U[t].family \in DOMAIN U
  BY DEF SessionsOK, Revokes, Kept
<1> QED
  BY <1>1, <1>2 DEF SessionsOK, Revokes

-------------------------------------------------------------------------------
(* A request and the rows it names.                                        *)

Presented == {"logout", "logout_all", "sessions", "disable", "enable", "assign_role",
              "remove_role"}

StageOK(v) ==
  /\ v.pc \in {"user", "lock", "locked", "reuse"} => v.op = "refresh"
  /\ v.pc = "roles" => v.op \in {"login", "refresh"}
  /\ v.pc = "create" => v.op = "login"
  /\ v.pc = "auth" => v.op \in Presented
  /\ v.pc = "logout" => v.op = "logout"
  /\ v.pc = "page" => v.op = "sessions"
  /\ v.pc = "count" => v.op \in {"disable", "remove_role"}
  /\ v.pc = "enable" => v.op = "enable"
  /\ v.pc = "assign" => v.op = "assign_role"
  /\ v.pc = "remove" => v.op = "remove_role"
  /\ v.pc = "verify" => v.op = "confirm_email"
  /\ v.pc = "mail" => v.op \in {"register", "request_reset"}
  /\ v.pc \notin {"ready", "done"} => v.user \in Users

Refreshing(v) ==
  v.pc \in {"user", "lock", "locked", "reuse"} \/ (v.pc = "roles" /\ v.op = "refresh")

(* A refresh knows a session of its user, which is ACTIVE while locked.    *)
RowsOK(T, v) ==
  /\ Refreshing(v) => v.row \in DOMAIN T /\ T[v.row].user = v.user
  /\ v.pc = "locked" => T[v.row].status = "ACTIVE"
  /\ v.pc \in {"auth", "page", "logout"} => v.actor \in DOMAIN T

(* A revocation that has not been raced selected all of its families.      *)
SelectedOK(T, v) ==
  v.pc = "revoke" =>
    /\ \A t \in v.seen : t \in DOMAIN T /\ T[t].user = v.user
    /\ ~v.raced => \A s \in DOMAIN T, t \in v.seen :
         T[s].family = T[t].family /\ T[s].status # "REVOKED" => s \in v.seen

HasRevoked(v) ==
  /\ v.pc = "done" /\ v.op \in Revocations
  /\ v.reply \in IF v.op = "refresh" THEN {"refresh_reuse"} ELSE {"ok", "unavailable"}

(* The families a completed revocation selected have no ACTIVE session.    *)
DeadOK(T, v) ==
  HasRevoked(v) =>
    /\ v.seen \subseteq DOMAIN T
    /\ ~v.raced => \A s \in DOMAIN T, t \in v.seen :
         T[s].family = T[t].family => T[s].status # "ACTIVE"

CallOK(T, v) == StageOK(v) /\ RowsOK(T, v) /\ SelectedOK(T, v) /\ DeadOK(T, v)

LEMMA OpensOthers ==
  ASSUME NEW T, NEW U, NEW s, NEW u, SessionsOK(T), Opens(T, U, s, u),
         NEW v \in Call, CallOK(T, v)
  PROVE  CallOK(U, v)
<1>1. \A t \in DOMAIN T : U[t].family # s /\ t # s /\ t \in DOMAIN U
  BY DEF SessionsOK, Opens, Kept
<1>2. RowsOK(U, v)
  BY <1>1 DEF CallOK, RowsOK, Refreshing, Opens, Kept
<1>3. SelectedOK(U, v)
  <2> SUFFICES ASSUME v.pc = "revoke"
               PROVE  /\ \A t \in v.seen : t \in DOMAIN U /\ U[t].user = v.user
                      /\ ~v.raced => \A x \in DOMAIN U, t \in v.seen :
                           U[x].family = U[t].family /\ U[x].status # "REVOKED" => x \in v.seen
    BY DEF SelectedOK
  <2>1. \A t \in v.seen : t \in DOMAIN T /\ T[t].user = v.user
    BY DEF CallOK, SelectedOK
  <2>2. \A t \in v.seen : t \in DOMAIN U /\ U[t].user = v.user
    BY <2>1, <1>1 DEF Opens, Kept
  <2>3. ASSUME ~v.raced, NEW x \in DOMAIN U, NEW t \in v.seen, U[x].family = U[t].family,
               U[x].status # "REVOKED"
        PROVE  x \in v.seen
    <3>1. x \in DOMAIN T
      BY <2>1, <2>3, <1>1 DEF Opens
    <3> QED
      BY <2>1, <2>3, <3>1 DEF CallOK, SelectedOK, Opens, Kept
  <2> QED
    BY <2>2, <2>3
<1>4. DeadOK(U, v)
  <2> SUFFICES ASSUME HasRevoked(v)
               PROVE  /\ v.seen \subseteq DOMAIN U
                      /\ ~v.raced => \A x \in DOMAIN U, t \in v.seen :
                           U[x].family = U[t].family => U[x].status # "ACTIVE"
    BY DEF DeadOK
  <2>1. v.seen \subseteq DOMAIN T
    BY DEF CallOK, DeadOK
  <2>2. ASSUME ~v.raced, NEW x \in DOMAIN U, NEW t \in v.seen, U[x].family = U[t].family
        PROVE  U[x].status # "ACTIVE"
    <3>1. x \in DOMAIN T
      BY <2>1, <2>2, <1>1 DEF Opens
    <3> QED
      BY <2>1, <2>2, <3>1 DEF CallOK, DeadOK, Opens, Kept
  <2> QED
    BY <2>1, <2>2, <1>1
<1> QED
  BY <1>2, <1>3, <1>4 DEF CallOK

LEMMA RotatesOthers ==
  ASSUME NEW T, NEW U, NEW r, NEW s, SessionsOK(T), Rotates(T, U, r, s),
         NEW v \in Call, CallOK(T, v),
         v.pc = "locked" => v.row # r,
         v.pc = "revoke" /\ v.user = T[r].user => v.raced
  PROVE  CallOK(U, v)
<1>1. \A t \in DOMAIN T : t # s /\ t \in DOMAIN U
  BY DEF Rotates
<1>2. RowsOK(U, v)
  BY <1>1 DEF CallOK, RowsOK, Refreshing, Rotates, Kept
<1>3. SelectedOK(U, v)
  <2> SUFFICES ASSUME v.pc = "revoke"
               PROVE  /\ \A t \in v.seen : t \in DOMAIN U /\ U[t].user = v.user
                      /\ ~v.raced => \A x \in DOMAIN U, t \in v.seen :
                           U[x].family = U[t].family /\ U[x].status # "REVOKED" => x \in v.seen
    BY DEF SelectedOK
  <2>1. \A t \in v.seen : t \in DOMAIN T /\ T[t].user = v.user
    BY DEF CallOK, SelectedOK
  <2>2. \A t \in v.seen : t \in DOMAIN U /\ U[t].user = v.user
    BY <2>1, <1>1 DEF Rotates, Kept
  <2>3. ASSUME ~v.raced, NEW x \in DOMAIN U, NEW t \in v.seen, U[x].family = U[t].family,
               U[x].status # "REVOKED"
        PROVE  x \in v.seen
    <3>1. T[t].user # T[r].user
      BY <2>1, <2>3
    <3>2. T[t].family # T[r].family
      BY <2>1, <3>1 DEF SessionsOK, Rotates
    <3>3. x \in DOMAIN T /\ x # r
      BY <2>1, <2>3, <3>2 DEF Rotates, Kept
    <3> QED
      BY <2>1, <2>3, <3>3 DEF CallOK, SelectedOK, Rotates, Kept
  <2> QED
    BY <2>2, <2>3
<1>4. DeadOK(U, v)
  <2> SUFFICES ASSUME HasRevoked(v)
               PROVE  /\ v.seen \subseteq DOMAIN U
                      /\ ~v.raced => \A x \in DOMAIN U, t \in v.seen :
                           U[x].family = U[t].family => U[x].status # "ACTIVE"
    BY DEF DeadOK
  <2>1. v.seen \subseteq DOMAIN T
    BY DEF CallOK, DeadOK
  <2>2. ASSUME ~v.raced, NEW x \in DOMAIN U, NEW t \in v.seen, U[x].family = U[t].family
        PROVE  U[x].status # "ACTIVE"
    <3>1. T[t].family # T[r].family
      BY <2>1, <2>2 DEF CallOK, DeadOK, Rotates
    <3>2. x \in DOMAIN T /\ x # r
      BY <2>1, <2>2, <3>1 DEF Rotates, Kept
    <3> QED
      BY <2>1, <2>2, <3>2 DEF CallOK, DeadOK, Rotates, Kept
  <2> QED
    BY <2>1, <2>2, <1>1
<1> QED
  BY <1>2, <1>3, <1>4 DEF CallOK

LEMMA RevokesOthers ==
  ASSUME NEW T, NEW U, NEW rows, SessionsOK(T), Revokes(T, U, rows),
         NEW v \in Call, CallOK(T, v),
         v.pc = "locked" => v.row \notin rows
  PROVE  CallOK(U, v)
<1>1. RowsOK(U, v)
  BY DEF CallOK, RowsOK, Refreshing, Revokes, Kept
<1>2. SelectedOK(U, v)
  BY DEF CallOK, SelectedOK, Revokes, Kept
<1>3. DeadOK(U, v)
  BY DEF CallOK, DeadOK, Revokes, Kept
<1> QED
  BY <1>1, <1>2, <1>3 DEF CallOK

-------------------------------------------------------------------------------
(* What the statements do to the table.                                    *)

LEMMA NewSessionRow ==
  ASSUME NEW u \in Users, NEW f \in SessionIds, NEW claims \in SUBSET Roles
  PROVE  /\ NewSession(u, f, claims) \in Session
         /\ NewSession(u, f, claims).user = u /\ NewSession(u, f, claims).family = f
  BY DEF NewSession, Session

LEMMA RowStatus ==
  ASSUME NEW row \in Session, NEW status \in {"ACTIVE", "ROTATED", "REVOKED"}
  PROVE  /\ [row EXCEPT !.status = status] \in Session
         /\ [row EXCEPT !.status = status].user = row.user
         /\ [row EXCEPT !.status = status].family = row.family
         /\ [row EXCEPT !.status = status].status = status
  BY DEF Session

LEMMA CreateOpens ==
  ASSUME SessionsOK(sessions), NEW s \in SessionIds \ DOMAIN sessions, NEW u \in Users,
         NEW claims \in SUBSET Roles
  PROVE  Opens(sessions, CreateSession(sessions, s, NewSession(u, s, claims)), s, u)
<1> DEFINE row == NewSession(u, s, claims)
<1>1. row \in Session /\ row.user = u /\ row.family = s
  BY NewSessionRow
<1> HIDE DEF row
<1> QED
  BY <1>1 DEF SessionsOK, Opens, Kept, CreateSession, Insert, row

LEMMA CommitRotates ==
  ASSUME SessionsOK(sessions), NEW s \in SessionIds \ DOMAIN sessions,
         NEW r \in DOMAIN sessions, sessions[r].status = "ACTIVE",
         NEW claims \in SUBSET Roles
  PROVE  Rotates(sessions,
           RotateSession(CreateSession(sessions, s,
             NewSession(sessions[r].user, sessions[r].family, claims)), r), r, s)
<1> DEFINE row == NewSession(sessions[r].user, sessions[r].family, claims)
           mid == CreateSession(sessions, s, row)
           U   == RotateSession(mid, r)
<1>1. sessions[r] \in Session /\ sessions[r].user \in Users /\ sessions[r].family \in SessionIds
  BY DEF SessionsOK, Session
<1>2. row \in Session /\ row.user = sessions[r].user /\ row.family = sessions[r].family
  BY <1>1, NewSessionRow
<1> HIDE DEF row
<1>3. /\ DOMAIN mid = DOMAIN sessions \cup {s} /\ mid[s] = row
      /\ \A t \in DOMAIN sessions : mid[t] = sessions[t]
      /\ mid = [x \in DOMAIN mid |-> mid[x]]
  BY DEF CreateSession, Insert
<1> HIDE DEF mid
<1>4. /\ DOMAIN U = DOMAIN mid /\ U = [x \in DOMAIN U |-> U[x]]
      /\ U[r] = [sessions[r] EXCEPT !.status = "ROTATED"]
      /\ \A t \in DOMAIN mid : t # r => U[t] = mid[t]
  BY <1>3, ZenonT(30) DEF RotateSession
<1> HIDE DEF U
<1>5. /\ U[r] \in Session /\ U[r].user = sessions[r].user
      /\ U[r].family = sessions[r].family /\ U[r].status = "ROTATED"
  BY <1>1, <1>4 DEF Session
<1>6. ASSUME NEW t \in DOMAIN sessions
      PROVE  Kept(sessions, U, t) /\ (t # r => U[t].status = sessions[t].status)
  <2>1. CASE t = r
    BY <1>5, <2>1 DEF Kept
  <2>2. CASE t # r
    BY <1>3, <1>4, <2>2 DEF Kept, SessionsOK
  <2> QED
    BY <2>1, <2>2
<1>7. U[s] = row
  BY <1>3, <1>4
<1>8. \A x \in DOMAIN U : U[x] \in Session
  BY <1>2, <1>3, <1>4, <1>6, <1>7 DEF Kept
<1>9. U \in [DOMAIN U -> Session]
  BY <1>4, <1>8
<1>10. Rotates(sessions, U, r, s)
  BY <1>2, <1>3, <1>4, <1>5, <1>6, <1>7, <1>9 DEF Rotates
<1> QED
  BY <1>10 DEF U, mid, row

LEMMA RevokedRevokes ==
  ASSUME SessionsOK(sessions), NEW rows
  PROVE  Revokes(sessions, Revoked(rows), rows)
<1>1. ASSUME NEW t \in DOMAIN sessions
      PROVE  /\ Kept(sessions, Revoked(rows), t)
             /\ t \in rows => Revoked(rows)[t].status = "REVOKED"
             /\ t \notin rows => Revoked(rows)[t].status = sessions[t].status
  BY RowStatus, ZenonT(30) DEF SessionsOK, Kept, Revoked
<1> QED
  BY <1>1 DEF Revokes, Kept, Revoked

LEMMA ExpiryRevokesNone ==
  ASSUME SessionsOK(sessions), NEW s \in DOMAIN sessions
  PROVE  Revokes(sessions, [sessions EXCEPT ![s].live = FALSE], {})
<1> DEFINE U == [sessions EXCEPT ![s].live = FALSE]
<1>1. ASSUME NEW t \in DOMAIN sessions
      PROVE  Kept(sessions, U, t) /\ U[t].status = sessions[t].status
  <2>1. sessions[t] \in Session
    BY DEF SessionsOK
  <2>2. CASE t = s
    BY <2>1, <2>2, ZenonT(30) DEF Kept, Session
  <2>3. CASE t # s
    BY <2>1, <2>3 DEF Kept
  <2> QED
    BY <2>2, <2>3
<1> QED
  BY <1>1, ZenonT(30) DEF Revokes, Kept

LEMMA NothingRevoked ==
  ASSUME SessionsOK(sessions)
  PROVE  Revokes(sessions, sessions, {})
  BY DEF SessionsOK, Revokes, Kept

-------------------------------------------------------------------------------
(* The invariant: the table, every request, and locks that exclude.        *)

Exclusive ==
  \A c, d \in Calls :
    call[c].pc = "locked" /\ call[d].pc = "locked" /\ call[c].row = call[d].row => c = d

SessionInv ==
  /\ call \in [Calls -> Call]
  /\ SessionsOK(sessions)
  /\ \A c \in Calls : CallOK(sessions, call[c])
  /\ Exclusive

(* An unraced removal of the role admin leaves another administrator.      *)
AdminOK(roles, v) ==
  v.pc = "remove" /\ v.role = "admin" /\ ~v.raced
    => \E u \in Users \ {v.user} : "admin" \in roles[u]

Taints(v) == v.pc = "done" /\ v.op = "remove_role" /\ v.raced

AdminInv ==
  /\ userRoles \in [Users -> SUBSET Roles]
  /\ \/ \E c \in Calls : Taints(call[c])
     \/ /\ \E u \in Users : "admin" \in userRoles[u]
        /\ \A c \in Calls : AdminOK(userRoles, call[c])

Inv == SessionInv /\ AdminInv

(* Request c goes from one stage to the next and becomes v.                *)
Moves(c, v) == call' = [call EXCEPT ![c] = v]

LEMMA SessionMove ==
  ASSUME SessionInv, NEW c \in Calls, NEW v \in Call, Moves(c, v),
         SessionsOK(sessions'), CallOK(sessions', v),
         \A d \in Calls \ {c} : CallOK(sessions', call[d]),
         v.pc = "locked" =>
           \A d \in Calls \ {c} : call[d].pc = "locked" => call[d].row # v.row
  PROVE  SessionInv'
<1>1. call' \in [Calls -> Call]
  BY DEF SessionInv, Moves
<1>2. call'[c] = v /\ \A d \in Calls \ {c} : call'[d] = call[d]
  BY DEF SessionInv, Moves
<1>3. \A d \in Calls : CallOK(sessions', call'[d])
  BY <1>2
<1>4. Exclusive'
  BY <1>2 DEF Exclusive, SessionInv
<1> QED
  BY <1>1, <1>3, <1>4 DEF SessionInv

LEMMA AdminMove ==
  ASSUME Inv, NEW c \in Calls, NEW v \in Call, Moves(c, v),
         ~Taints(call[c]), ~Taints(v),
         userRoles' \in [Users -> SUBSET Roles],
         \A u \in Users : userRoles[u] \subseteq userRoles'[u],
         \/ \E d \in Calls : Taints(call[d])
         \/ AdminOK(userRoles, v)
  PROVE  AdminInv'
<1>1. call'[c] = v /\ \A d \in Calls \ {c} : call'[d] = call[d]
  BY DEF Inv, SessionInv, Moves
<1>2. CASE \E d \in Calls : Taints(call[d])
  <2>1. PICK d \in Calls : Taints(call[d])
    BY <1>2
  <2>2. Taints(call'[d])
    BY <2>1, <1>1
  <2> QED
    BY <2>2 DEF AdminInv
<1>3. CASE ~ \E d \in Calls : Taints(call[d])
  <2>1. \E u \in Users : "admin" \in userRoles'[u]
    BY <1>3 DEF Inv, AdminInv
  <2>2. \A d \in Calls : AdminOK(userRoles, call'[d])
    BY <1>1, <1>3 DEF Inv, AdminInv
  <2>3. \A d \in Calls : AdminOK(userRoles', call'[d])
    BY <2>2 DEF AdminOK
  <2> QED
    BY <2>1, <2>3 DEF AdminInv
<1> QED
  BY <1>2, <1>3

TableStep ==
  \/ \E rows \in SUBSET SessionIds : Revokes(sessions, sessions', rows)
  \/ \E s \in SessionIds, u \in Users : Opens(sessions, sessions', s, u)
  \/ \E r, s \in SessionIds : Rotates(sessions, sessions', r, s)

StepOK == Inv' /\ TableStep

RolesGrow ==
  /\ userRoles' \in [Users -> SUBSET Roles]
  /\ \A u \in Users : userRoles[u] \subseteq userRoles'[u]

LEMMA RolesKept ==
  ASSUME Inv, userRoles' = userRoles
  PROVE  RolesGrow
  BY DEF Inv, AdminInv, RolesGrow

(* The usual step: no session changes and no role is removed.              *)
LEMMA QuietMove ==
  ASSUME Inv, NEW c \in Calls, NEW v, v \in Call, Moves(c, v), call[c].pc # "done",
         sessions' = sessions, RolesGrow, CallOK(sessions, v), v.pc # "locked",
         ~Taints(v), (\E d \in Calls : Taints(call[d])) \/ AdminOK(userRoles, v)
  PROVE  StepOK
<1>1. SessionInv'
  BY SessionMove DEF Inv, SessionInv
<1>2. AdminInv'
  BY AdminMove DEF Taints, RolesGrow
<1>3. Revokes(sessions, sessions', {})
  BY NothingRevoked DEF Inv, SessionInv
<1>4. TableStep
  BY <1>3 DEF TableStep
<1> QED
  BY <1>1, <1>2, <1>4 DEF Inv, StepOK

LEMMA AnswerStep ==
  ASSUME Inv, NEW c \in Calls, call[c].pc # "done", NEW op \in Operations \cup {"none"},
         op \notin Revocations, NEW reply \in Replies, Answer(c, op, reply),
         sessions' = sessions, RolesGrow
  PROVE  StepOK
<1> DEFINE v == [Fresh EXCEPT !.op = op, !.pc = "done", !.reply = reply]
<1>1. Fields(v, "done", op, "nobody", 0, 0, "admin", {}, FALSE, reply)
  BY AnswerFields, ZenonT(30)
<1>2. Moves(c, v)
  BY DEF Answer, Moves
<1> HIDE DEF v
<1>3. CallOK(sessions, v) /\ AdminOK(userRoles, v) /\ ~Taints(v)
  BY <1>1 DEF Fields, CallOK, StageOK, RowsOK, Refreshing, SelectedOK, DeadOK, HasRevoked,
              AdminOK, Taints
<1> QED
  BY <1>1, <1>2, <1>3, QuietMove DEF Fields

LEMMA RefuseStep ==
  ASSUME Inv, NEW c \in Calls, call[c].pc # "done", NEW reply \in Replies,
         Refuse(c, reply), sessions' = sessions, userRoles' = userRoles
  PROVE  StepOK
<1>1. "none" \notin Revocations /\ "none" \in Operations \cup {"none"}
  BY DEF Revocations
<1> QED
  BY <1>1, AnswerStep, RolesKept DEF Refuse

(* A request that ends, other than a revocation or a removal.              *)
LEMMA ReturnStep ==
  ASSUME Inv, NEW c \in Calls, call[c].pc # "done", NEW reply \in Replies,
         call[c].op \notin Revocations, call[c].op # "remove_role",
         Return(c, reply), sessions' = sessions, RolesGrow
  PROVE  StepOK
<1>1. Fields(Done(c, reply), "done", call[c].op, call[c].user, 0, call[c].row, "admin",
             call[c].seen, call[c].raced, reply)
  BY DoneFields DEF Inv, SessionInv
<1>2. Moves(c, Done(c, reply))
  BY DEF Return, Moves
<1> DEFINE v == Done(c, reply)
<1> HIDE DEF v
<1>3. CallOK(sessions, v) /\ AdminOK(userRoles, v) /\ ~Taints(v)
  BY <1>1 DEF v, Fields, CallOK, StageOK, RowsOK, Refreshing, SelectedOK, DeadOK, HasRevoked,
              AdminOK, Taints
<1> QED
  BY <1>1, <1>2, <1>3, QuietMove DEF v, Fields

(* A request that goes on with what it has.                                *)
LEMMA GotoStep ==
  ASSUME Inv, NEW c \in Calls, call[c].pc # "done", NEW p \in Stages \ {"locked", "done"},
         Goto(c, p), sessions' = sessions, userRoles' = userRoles,
         NEW v, v = [call[c] EXCEPT !.pc = p],
         Fields(v, p, call[c].op, call[c].user, call[c].actor, call[c].row, call[c].role,
                call[c].seen, call[c].raced, call[c].reply)
           => /\ CallOK(sessions, v)
              /\ (\E d \in Calls : Taints(call[d])) \/ AdminOK(userRoles, v)
  PROVE  StepOK
<1>1. call[c] \in Call
  BY DEF Inv, SessionInv
<1>2. Fields(v, p, call[c].op, call[c].user, call[c].actor, call[c].row, call[c].role,
             call[c].seen, call[c].raced, call[c].reply)
  BY <1>1, PcFields
<1>3. Moves(c, v)
  BY DEF Goto, Moves
<1>4. ~Taints(v) /\ v.pc # "locked" /\ v \in Call
  BY <1>2 DEF Fields, Taints
<1> QED
  BY <1>2, <1>3, <1>4, QuietMove, RolesKept, ZenonT(30)

-------------------------------------------------------------------------------
(* Login and refresh.                                                      *)

LEMMA CallFacts ==
  ASSUME Inv, NEW c \in Calls
  PROVE  call[c] \in Call /\ CallOK(sessions, call[c])
  BY DEF Inv, SessionInv

LEMMA LoginStep ==
  ASSUME Inv, NEW c \in Calls, NEW u \in Users, NEW p, Login(c, u, p)
  PROVE  StepOK
<1>1. call[c].pc = "ready" /\ "login" \in Operations /\ sessions' = sessions
      /\ userRoles' = userRoles
  BY DEF Login, Starts, tables, accountVars
<1>2. CASE Refuse(c, "invalid_credentials")
  BY <1>1, <1>2, RefuseStep DEF Replies
<1>3. CASE call' = [call EXCEPT ![c] = [Fresh EXCEPT !.op = "login", !.pc = "roles",
                                                     !.user = u]]
  <2> DEFINE v == [Fresh EXCEPT !.op = "login", !.pc = "roles", !.user = u]
  <2>1. Fields(v, "roles", "login", u, 0, 0, "admin", {}, FALSE, "none")
    BY <1>1, StartFields, ZenonT(30) DEF Stages
  <2>2. Moves(c, v)
    BY <1>3 DEF Moves
  <2> HIDE DEF v
  <2>3. CallOK(sessions, v) /\ AdminOK(userRoles, v) /\ ~Taints(v)
    BY <2>1 DEF Fields, CallOK, StageOK, RowsOK, Refreshing, SelectedOK, DeadOK, HasRevoked,
                AdminOK, Taints
  <2> QED
    BY <1>1, <2>1, <2>2, <2>3, QuietMove, RolesKept DEF Fields
<1> QED
  BY <1>2, <1>3 DEF Login

LEMMA UserRolesStep ==
  ASSUME Inv, NEW c \in Calls, UserRoles(c)
  PROVE  StepOK
<1>1. call[c].pc = "roles" /\ sessions' = sessions /\ userRoles' = userRoles
  BY DEF UserRoles, tables, accountVars
<1>2. call[c].user \in Users
  BY <1>1, CallFacts DEF CallOK, StageOK
<1>3. userRoles[call[c].user] \in SUBSET Roles
  BY <1>2 DEF Inv, AdminInv
<1> DEFINE p == IF call[c].op = "login" THEN "create" ELSE "lock"
           v == [call[c] EXCEPT !.claims = userRoles[call[c].user], !.pc = p]
<1>4. p \in Stages
  BY DEF Stages
<1>5. Fields(v, p, call[c].op, call[c].user, call[c].actor, call[c].row, call[c].role,
             call[c].seen, call[c].raced, call[c].reply)
  BY <1>3, <1>4, ClaimsFields, CallFacts, ZenonT(30)
<1>6. Moves(c, v)
  BY CallFacts, ZenonT(30) DEF UserRoles, Moves, ListUserRoles, Inv, SessionInv
<1> HIDE DEF v
<1>7. v.pc \in {"create", "lock"} /\ v.op = call[c].op
  BY <1>5 DEF Fields
<1>8. CallOK(sessions, v)
  BY <1>1, <1>5, CallFacts, SMTT(60)
     DEF Fields, CallOK, StageOK, RowsOK, Refreshing, SelectedOK, DeadOK, HasRevoked
<1>9. AdminOK(userRoles, v) /\ ~Taints(v)
  BY <1>1, <1>5, CallFacts, SMTT(30) DEF Fields, AdminOK, Taints, CallOK, StageOK
<1> QED
  BY <1>1, <1>5, <1>6, <1>7, <1>8, <1>9, QuietMove, RolesKept DEF Fields

LEMMA RefreshStep ==
  ASSUME Inv, NEW c \in Calls, NEW s \in SessionIds, Refresh(c, s)
  PROVE  StepOK
<1>1. /\ call[c].pc = "ready" /\ "refresh" \in Operations /\ sessions' = sessions
      /\ userRoles' = userRoles /\ s \in DOMAIN sessions /\ s \in Nat
  BY DEF Refresh, Starts, tables, accountVars, SessionIds
<1>2. sessions[s].user \in Users /\ IsUsable(sessions[s]) \in BOOLEAN
  BY <1>1 DEF Inv, SessionInv, SessionsOK, Session, IsUsable
<1> DEFINE v == [Fresh EXCEPT !.op = "refresh", !.pc = "user", !.user = sessions[s].user,
                              !.row = s, !.usable = IsUsable(sessions[s])]
<1>3. Fields(v, "user", "refresh", sessions[s].user, 0, s, "admin", {}, FALSE, "none")
  BY <1>1, <1>2, RefreshFields, ZenonT(30)
<1>4. Moves(c, v)
  BY DEF Refresh, GetSessionByRefreshHash, Moves
<1> HIDE DEF v
<1>5. CallOK(sessions, v) /\ AdminOK(userRoles, v) /\ ~Taints(v)
  BY <1>1, <1>2, <1>3
     DEF Fields, CallOK, StageOK, RowsOK, Refreshing, SelectedOK, DeadOK, HasRevoked,
         AdminOK, Taints
<1> QED
  BY <1>1, <1>3, <1>4, <1>5, QuietMove, RolesKept DEF Fields

LEMMA FindUserStep ==
  ASSUME Inv, NEW c \in Calls, FindUser(c)
  PROVE  StepOK
<1>1. call[c].pc = "user" /\ sessions' = sessions /\ userRoles' = userRoles
  BY DEF FindUser, tables, accountVars
<1>2. PICK p \in {"roles", "reuse"} : Goto(c, p)
  BY DEF FindUser
<1>3. p \in Stages \ {"locked", "done"}
  BY SMTT(30) DEF Stages
<1>4. ASSUME NEW v, Fields(v, p, call[c].op, call[c].user, call[c].actor, call[c].row,
                           call[c].role, call[c].seen, call[c].raced, call[c].reply)
      PROVE  CallOK(sessions, v) /\ AdminOK(userRoles, v)
  BY <1>1, <1>4, CallFacts
     DEF Fields, CallOK, StageOK, RowsOK, Refreshing, SelectedOK, DeadOK, HasRevoked, AdminOK
<1> QED
  BY <1>1, <1>2, <1>3, <1>4, GotoStep, ZenonT(30)

LEMMA RefreshLockStep ==
  ASSUME Inv, NEW c \in Calls, RefreshLock(c)
  PROVE  StepOK
<1>1. call[c].pc = "lock" /\ sessions' = sessions /\ userRoles' = userRoles
  BY DEF RefreshLock, tables, accountVars
<1>2. CASE sessions[call[c].row].status # "ACTIVE"
  <2>1. Goto(c, "reuse") /\ "reuse" \in Stages \ {"locked", "done"}
    BY <1>2 DEF RefreshLock, LockActiveSession, Stages
  <2>2. ASSUME NEW v, Fields(v, "reuse", call[c].op, call[c].user, call[c].actor,
                             call[c].row, call[c].role, call[c].seen, call[c].raced,
                             call[c].reply)
        PROVE  CallOK(sessions, v) /\ AdminOK(userRoles, v)
    BY <1>1, <2>2, CallFacts
       DEF Fields, CallOK, StageOK, RowsOK, Refreshing, SelectedOK, DeadOK, HasRevoked, AdminOK
  <2> QED
    BY <1>1, <2>1, <2>2, GotoStep, ZenonT(30)
<1>3. CASE sessions[call[c].row].status = "ACTIVE"
  <2> DEFINE v == [call[c] EXCEPT !.pc = "locked"]
  <2>1. Fields(v, "locked", call[c].op, call[c].user, call[c].actor, call[c].row,
               call[c].role, call[c].seen, call[c].raced, call[c].reply)
    BY PcFields, CallFacts, ZenonT(30) DEF Stages
  <2>2. Moves(c, v)
    BY <1>3 DEF RefreshLock, LockActiveSession, Goto, Moves
  <2> HIDE DEF v
  <2>3. CallOK(sessions, v) /\ AdminOK(userRoles, v) /\ ~Taints(v) /\ ~Taints(call[c])
    BY <1>1, <1>3, <2>1, CallFacts
       DEF Fields, CallOK, StageOK, RowsOK, Refreshing, SelectedOK, DeadOK, HasRevoked,
           AdminOK, Taints
  <2>4. \A d \in Calls \ {c} : call[d].pc = "locked" => call[d].row # v.row
    BY <2>1 DEF RefreshLock, Unlocked, Fields
  <2>5. SessionInv'
    BY <1>1, <2>1, <2>2, <2>3, <2>4, SessionMove DEF Fields, Inv, SessionInv
  <2>6. AdminInv'
    BY <1>1, <2>1, <2>2, <2>3, AdminMove, RolesKept DEF Fields, RolesGrow
  <2>7. TableStep
    BY <1>1, NothingRevoked DEF TableStep, Inv, SessionInv
  <2> QED
    BY <2>5, <2>6, <2>7 DEF StepOK, Inv
<1> QED
  BY <1>2, <1>3

(* A revocation takes its snapshot.                                        *)
LEMMA SelectStep ==
  ASSUME Inv, NEW c \in Calls, call[c].pc \notin {"ready", "done"},
         NEW S \in SUBSET DOMAIN sessions,
         \A t \in S : sessions[t].user = call[c].user,
         \A s \in DOMAIN sessions, t \in S :
           sessions[s].family = sessions[t].family /\ sessions[s].status # "REVOKED" => s \in S,
         Moves(c, [call[c] EXCEPT !.pc = "revoke", !.seen = S]),
         sessions' = sessions, userRoles' = userRoles
  PROVE  StepOK
<1> DEFINE v == [call[c] EXCEPT !.pc = "revoke", !.seen = S]
<1>1. S \in SUBSET SessionIds
  BY DEF Inv, SessionInv, SessionsOK
<1>2. Fields(v, "revoke", call[c].op, call[c].user, call[c].actor, call[c].row,
             call[c].role, S, call[c].raced, call[c].reply)
  BY <1>1, SelectFields, CallFacts, ZenonT(30)
<1> HIDE DEF v
<1>3. AdminOK(userRoles, v) /\ ~Taints(v)
  BY <1>2 DEF Fields, AdminOK, Taints
<1>4. StageOK(v) /\ RowsOK(sessions, v) /\ DeadOK(sessions, v)
  BY <1>2, CallFacts DEF Fields, CallOK, StageOK, RowsOK, Refreshing, DeadOK, HasRevoked
<1>5. SelectedOK(sessions, v)
  BY <1>2 DEF Fields, SelectedOK
<1> QED
  BY <1>2, <1>3, <1>4, <1>5, QuietMove, RolesKept, ZenonT(30) DEF Fields, CallOK, v

LEMMA SelectUserStep ==
  ASSUME Inv, NEW c \in Calls, call[c].pc \notin {"ready", "done"},
         call' = [call EXCEPT ![c].pc = "revoke",
                              ![c].seen = RevokeUserSessions(call[c].user)],
         sessions' = sessions, userRoles' = userRoles
  PROVE  StepOK
<1> DEFINE S == RevokeUserSessions(call[c].user)
<1>1. /\ S \in SUBSET DOMAIN sessions
      /\ \A t \in S : sessions[t].user = call[c].user
  BY DEF RevokeUserSessions
<1>2. \A s \in DOMAIN sessions, t \in S :
        sessions[s].family = sessions[t].family /\ sessions[s].status # "REVOKED" => s \in S
  BY DEF RevokeUserSessions, Inv, SessionInv, SessionsOK
<1> HIDE DEF S
<1>3. Moves(c, [call[c] EXCEPT !.pc = "revoke", !.seen = S])
  BY ZenonT(30) DEF Moves, Inv, SessionInv, S
<1> QED
  BY <1>1, <1>2, <1>3, SelectStep, ZenonT(30)

LEMMA SelectFamilyStep ==
  ASSUME Inv, NEW c \in Calls, SelectFamily(c)
  PROVE  StepOK
<1>1. call[c].pc = "reuse" /\ sessions' = sessions /\ userRoles' = userRoles
  BY DEF SelectFamily, tables, accountVars
<1>2. call[c].row \in DOMAIN sessions /\ sessions[call[c].row].user = call[c].user
  BY <1>1, CallFacts DEF CallOK, RowsOK, Refreshing
<1> DEFINE S == RevokeSessionFamily(sessions[call[c].row].family)
<1>3. S \in SUBSET DOMAIN sessions
  BY DEF RevokeSessionFamily
<1>4. \A t \in S : sessions[t].user = call[c].user
  BY <1>2 DEF RevokeSessionFamily, Inv, SessionInv, SessionsOK
<1>5. \A s \in DOMAIN sessions, t \in S :
        sessions[s].family = sessions[t].family /\ sessions[s].status # "REVOKED" => s \in S
  BY DEF RevokeSessionFamily
<1> HIDE DEF S
<1>6. Moves(c, [call[c] EXCEPT !.pc = "revoke", !.seen = S])
  BY ZenonT(30) DEF SelectFamily, Moves, Inv, SessionInv, S
<1> QED
  BY <1>1, <1>3, <1>4, <1>5, <1>6, SelectStep, ZenonT(30)

(* A revocation commits: its families are dead.                            *)
LEMMA RevokeStep ==
  ASSUME Inv, NEW c \in Calls, RevokeSelected(c), NEW reply \in Replies, Return(c, reply),
         call[c].op \in Revocations, userRoles' = userRoles
  PROVE  StepOK
<1> DEFINE v == Done(c, reply)
<1>1. Fields(v, "done", call[c].op, call[c].user, 0, call[c].row, "admin",
             call[c].seen, call[c].raced, reply)
  BY DoneFields DEF Inv, SessionInv
<1>2. Moves(c, v)
  BY DEF Return, Moves
<1> HIDE DEF v
<1>3. SessionsOK(sessions) /\ call[c].seen \in SUBSET SessionIds
  BY CallFacts DEF Inv, SessionInv, Call
<1>4. Revokes(sessions, sessions', call[c].seen)
  BY <1>3, RevokedRevokes DEF RevokeSelected
<1>5. SessionsOK(sessions')
  BY <1>3, <1>4, RevokesKeeps
<1>6. ASSUME NEW d \in Calls \ {c}
      PROVE  CallOK(sessions', call[d])
  <2>1. call[d].pc = "locked" => call[d].row \notin call[c].seen
    BY DEF RevokeSelected, Unlocked
  <2> QED
    BY <2>1, <1>3, <1>4, RevokesOthers, CallFacts
<1>7. SelectedOK(sessions, call[c]) /\ call[c].pc = "revoke"
  BY CallFacts DEF CallOK, RevokeSelected
<1>8. DeadOK(sessions', v)
  <2>1. v.seen = call[c].seen /\ v.raced = call[c].raced
    BY <1>1 DEF Fields
  <2>2. v.seen \subseteq DOMAIN sessions'
    BY <1>4, <1>7, <2>1 DEF SelectedOK, Revokes
  <2>3. ASSUME ~v.raced, NEW s \in DOMAIN sessions', NEW t \in v.seen,
               sessions'[s].family = sessions'[t].family
        PROVE  sessions'[s].status # "ACTIVE"
    <3>1. s \in DOMAIN sessions /\ t \in DOMAIN sessions
      BY <1>4, <2>2 DEF Revokes
    <3>2. sessions[s].family = sessions[t].family
      BY <1>4, <2>3, <3>1 DEF Revokes, Kept
    <3>3. s \in call[c].seen \/ sessions[s].status = "REVOKED"
      BY <1>7, <2>1, <2>3, <3>1, <3>2 DEF SelectedOK
    <3> QED
      BY <1>4, <3>1, <3>3 DEF Revokes
  <2> QED
    BY <2>2, <2>3 DEF DeadOK
<1>9. CallOK(sessions', v) /\ AdminOK(userRoles, v) /\ ~Taints(v) /\ v.pc # "locked"
  BY <1>1, <1>8 DEF Fields, CallOK, StageOK, RowsOK, Refreshing, SelectedOK, AdminOK, Taints,
                    Revocations
<1>10. SessionInv'
  BY <1>1, <1>2, <1>5, <1>6, <1>9, SessionMove DEF Fields, Inv
<1>11. AdminInv'
  BY <1>1, <1>2, <1>7, <1>9, AdminMove, RolesKept DEF Fields, RolesGrow, Taints
<1> QED
  BY <1>3, <1>4, <1>10, <1>11 DEF StepOK, Inv, TableStep

LEMMA LogoutStep ==
  ASSUME Inv, NEW c \in Calls, Logout(c)
  PROVE  StepOK
<1> DEFINE a == call[c].actor
           b == sessions[a].status # "ACTIVE"
<1>1. call[c].pc = "logout" /\ userRoles' = userRoles /\ call[c].op = "logout"
  BY CallFacts DEF Logout, accountVars, CallOK, StageOK
<1>2. a \in DOMAIN sessions
  BY <1>1, CallFacts DEF CallOK, RowsOK
<1>3. SessionsOK(sessions) /\ {a} \in SUBSET SessionIds
  BY <1>2 DEF Inv, SessionInv, SessionsOK
<1>4. PICK reply \in {"ok", "unavailable"} :
        Moves(c, [Done(c, reply) EXCEPT !.seen = {a}, !.raced = b])
  BY ZenonT(30) DEF Logout, RevokeSessionByID, Moves
<1> DEFINE v == [Done(c, reply) EXCEPT !.seen = {a}, !.raced = b]
<1>5. Fields(Done(c, reply), "done", "logout", call[c].user, 0, call[c].row, "admin",
             call[c].seen, call[c].raced, reply)
  BY <1>1, DoneFields DEF Inv, SessionInv, Replies
<1>b. b \in BOOLEAN
  OBVIOUS
<1> HIDE DEF a, b
<1>6. Fields(v, "done", "logout", call[c].user, 0, call[c].row, "admin", {a}, b, reply)
  <2> DEFINE w == Done(c, reply)
  <2> HIDE DEF w
  <2>1. w \in Call
    BY <1>5 DEF Fields, w
  <2>2. Fields([w EXCEPT !.seen = {a}, !.raced = b],
               w.pc, w.op, w.user, w.actor, w.row, w.role, {a}, b, w.reply)
    BY <2>1, <1>3, <1>b, SeenRacedFields, ZenonT(30)
  <2> QED
    BY <2>2, <1>5 DEF Fields, w
<1> HIDE DEF v
<1>7. Revokes(sessions, sessions', {a})
  BY <1>3, RevokedRevokes DEF Logout, RevokeSessionByID, a
<1>8. SessionsOK(sessions')
  BY <1>3, <1>7, RevokesKeeps
<1>9. ASSUME NEW d \in Calls \ {c}
      PROVE  CallOK(sessions', call[d])
  <2>1. call[d].pc = "locked" => call[d].row \notin {a}
    BY DEF Logout, Unlocked, RevokeSessionByID, a
  <2> QED
    BY <2>1, <1>3, <1>7, RevokesOthers, CallFacts
<1>10. DeadOK(sessions', v)
  <2>1. v.seen = {a} /\ v.raced = b
    BY <1>6 DEF Fields
  <2>2. v.seen \subseteq DOMAIN sessions'
    BY <1>2, <1>7, <2>1 DEF Revokes
  <2>3. ASSUME ~b, NEW s \in DOMAIN sessions', sessions'[s].family = sessions'[a].family
        PROVE  sessions'[s].status # "ACTIVE"
    <3>1. s \in DOMAIN sessions /\ sessions[s].family = sessions[a].family
      BY <1>2, <1>7, <2>3 DEF Revokes, Kept
    <3>2. s = a \/ sessions[s].status # "ACTIVE"
      BY <1>2, <1>3, <2>3, <3>1 DEF SessionsOK, b
    <3> QED
      BY <1>7, <3>1, <3>2 DEF Revokes
  <2> QED
    BY <2>1, <2>2, <2>3 DEF DeadOK
<1>11. CallOK(sessions', v) /\ AdminOK(userRoles, v) /\ ~Taints(v) /\ v.pc # "locked"
  BY <1>6, <1>10 DEF Fields, CallOK, StageOK, RowsOK, Refreshing, SelectedOK, AdminOK, Taints
<1>12. SessionInv'
  BY <1>4, <1>6, <1>8, <1>9, <1>11, SessionMove, ZenonT(30) DEF Fields, Inv, v
<1>13. AdminInv'
  BY <1>1, <1>4, <1>6, <1>11, AdminMove, RolesKept, ZenonT(30) DEF Fields, RolesGrow, Taints, v
<1> QED
  BY <1>3, <1>7, <1>12, <1>13 DEF StepOK, Inv, TableStep

LEMMA CreateSessionStep ==
  ASSUME Inv, NEW c \in Calls, NEW s \in SessionIds, createSession(c, s)
  PROVE  StepOK
<1> DEFINE b == Disabling(call[c].user)
           v == [Done(c, "ok") EXCEPT !.raced = b]
<1>1. /\ call[c].pc = "create" /\ userRoles' = userRoles /\ call[c].op = "login"
      /\ call[c].user \in Users /\ call[c].claims \in SUBSET Roles /\ s \notin DOMAIN sessions
  BY CallFacts DEF createSession, accountVars, CallOK, StageOK, Call
<1>2. SessionsOK(sessions)
  BY DEF Inv, SessionInv
<1>3. Opens(sessions, sessions', s, call[c].user)
  BY <1>1, <1>2, CreateOpens DEF createSession
<1>4. Fields(Done(c, "ok"), "done", "login", call[c].user, 0, call[c].row, "admin",
             call[c].seen, call[c].raced, "ok")
  BY <1>1, DoneFields DEF Inv, SessionInv, Replies
<1>5. b \in BOOLEAN
  BY DEF Disabling
<1> HIDE DEF b
<1>6. Fields(v, "done", "login", call[c].user, 0, call[c].row, "admin", call[c].seen, b, "ok")
  BY <1>4, <1>5, RacedFields DEF Fields
<1>7. Moves(c, v)
  BY DEF createSession, Moves, b
<1> HIDE DEF v
<1>8. SessionsOK(sessions')
  BY <1>2, <1>3, OpensKeeps
<1>9. \A d \in Calls \ {c} : CallOK(sessions', call[d])
  BY <1>2, <1>3, OpensOthers, CallFacts
<1>10. CallOK(sessions', v) /\ AdminOK(userRoles, v) /\ ~Taints(v) /\ v.pc # "locked"
  BY <1>6 DEF Fields, CallOK, StageOK, RowsOK, Refreshing, SelectedOK, DeadOK, HasRevoked,
              Revocations, AdminOK, Taints
<1>11. SessionInv'
  BY <1>6, <1>7, <1>8, <1>9, <1>10, SessionMove DEF Fields, Inv
<1>12. AdminInv'
  BY <1>1, <1>6, <1>7, <1>10, AdminMove, RolesKept DEF Fields, RolesGrow, Taints
<1> QED
  BY <1>1, <1>3, <1>11, <1>12 DEF StepOK, Inv, TableStep

(* The refresh that holds the lock replaces its session, and every         *)
(* revocation of its user that is under way has been raced.                *)
LEMMA RefreshCommitStep ==
  ASSUME Inv, NEW c \in Calls, NEW s \in SessionIds, RefreshCommit(c, s)
  PROVE  StepOK
<1> DEFINE r == call[c].row
           v == Done(c, "ok")
<1>1. /\ call[c].pc = "locked" /\ userRoles' = userRoles /\ call[c].op = "refresh"
      /\ call[c].claims \in SUBSET Roles /\ s \notin DOMAIN sessions
  BY CallFacts DEF RefreshCommit, accountVars, CallOK, StageOK, Call
<1>2. r \in DOMAIN sessions /\ sessions[r].status = "ACTIVE" /\ sessions[r].user = call[c].user
  BY <1>1, CallFacts DEF CallOK, RowsOK, Refreshing
<1>3. SessionsOK(sessions) /\ r \in SessionIds
  BY <1>2 DEF Inv, SessionInv, SessionsOK
<1>4. Rotates(sessions, sessions', r, s)
  BY <1>1, <1>2, <1>3, CommitRotates DEF RefreshCommit
<1>5. SessionsOK(sessions')
  BY <1>3, <1>4, RotatesKeeps
<1>6. Fields(v, "done", "refresh", call[c].user, 0, r, "admin", call[c].seen, call[c].raced,
             "ok")
  BY <1>1, DoneFields DEF Inv, SessionInv, Replies
<1> HIDE DEF v
<1>7. call'[c] = v
  BY DEF RefreshCommit, Committed, v
<1>8. CallOK(sessions', v) /\ AdminOK(userRoles, v) /\ ~Taints(v) /\ v.pc # "locked"
  BY <1>6 DEF Fields, CallOK, StageOK, RowsOK, Refreshing, SelectedOK, DeadOK, HasRevoked,
              AdminOK, Taints
<1>9. ASSUME NEW d \in Calls \ {c}
      PROVE  /\ call'[d] \in Call /\ CallOK(sessions', call'[d])
             /\ call'[d].pc = call[d].pc /\ call'[d].row = call[d].row
             /\ AdminOK(userRoles, call[d]) => AdminOK(userRoles, call'[d])
             /\ Taints(call[d]) => Taints(call'[d])
  <2>1. call[d].pc = "locked" => call[d].row # r
    BY <1>1 DEF Inv, SessionInv, Exclusive
  <2>2. CASE call[d].pc = "revoke" /\ call[d].user = call[c].user
    <3> DEFINE w == [call[d] EXCEPT !.raced = TRUE]
    <3>1. call'[d] = w
      BY <2>2 DEF RefreshCommit, Committed
    <3>2. Fields(w, "revoke", call[d].op, call[d].user, call[d].actor, call[d].row,
                 call[d].role, call[d].seen, TRUE, call[d].reply)
      BY <2>2, RacedFields, CallFacts, ZenonT(30)
    <3> HIDE DEF w
    <3>3. CallOK(sessions, w) /\ w \in Call /\ w.raced /\ w.pc = "revoke"
      BY <2>2, <3>2, CallFacts
         DEF Fields, CallOK, StageOK, RowsOK, Refreshing, SelectedOK, DeadOK, HasRevoked
    <3>4. CallOK(sessions', w)
      BY <1>3, <1>4, <3>3, RotatesOthers
    <3> QED
      BY <2>2, <3>1, <3>2, <3>4 DEF Fields, AdminOK, Taints
  <2>3. CASE ~(call[d].pc = "revoke" /\ call[d].user = call[c].user)
    <3>1. call'[d] = call[d]
      BY <2>3 DEF RefreshCommit, Committed
    <3>2. CallOK(sessions', call[d])
      BY <1>2, <1>3, <1>4, <2>1, <2>3, RotatesOthers, CallFacts
    <3> QED
      BY <3>1, <3>2, CallFacts
  <2> QED
    BY <2>2, <2>3
<1>10. SessionInv'
  <2>1. call' \in [Calls -> Call]
    BY <1>6, <1>7, <1>9 DEF RefreshCommit, Committed, Fields
  <2>2. \A d \in Calls : CallOK(sessions', call'[d])
    BY <1>7, <1>8, <1>9
  <2>3. Exclusive'
    BY <1>7, <1>8, <1>9 DEF Exclusive, Inv, SessionInv
  <2> QED
    BY <1>5, <2>1, <2>2, <2>3 DEF SessionInv
<1>11. AdminInv'
  <2>1. ~Taints(call[c])
    BY <1>1 DEF Taints
  <2>2. (\E d \in Calls : Taints(call[d])) => \E d \in Calls : Taints(call'[d])
    BY <2>1, <1>9
  <2>3. (\A d \in Calls : AdminOK(userRoles, call[d]))
          => \A d \in Calls : AdminOK(userRoles, call'[d])
    BY <1>7, <1>8, <1>9
  <2> QED
    BY <1>1, <2>2, <2>3 DEF Inv, AdminInv
<1> QED
  BY <1>3, <1>4, <1>10, <1>11, SMTT(30) DEF StepOK, Inv, TableStep

LEMMA ExpiryStep ==
  ASSUME Inv, NEW s \in SessionIds, SessionExpires(s)
  PROVE  StepOK
<1>1. /\ s \in DOMAIN sessions /\ call' = call /\ userRoles' = userRoles
      /\ sessions' = [sessions EXCEPT ![s].live = FALSE]
  BY DEF SessionExpires, accountVars
<1>2. SessionsOK(sessions)
  BY DEF Inv, SessionInv
<1>3. Revokes(sessions, sessions', {})
  BY <1>1, <1>2, ExpiryRevokesNone, ZenonT(30)
<1>4. SessionsOK(sessions')
  BY <1>2, <1>3, RevokesKeeps
<1>5. \A d \in Calls : CallOK(sessions', call[d])
  BY <1>2, <1>3, RevokesOthers, CallFacts
<1>6. SessionInv'
  BY <1>1, <1>4, <1>5, ZenonT(30) DEF Inv, SessionInv, Exclusive
<1>7. AdminInv'
  BY <1>1 DEF Inv, AdminInv
<1> QED
  BY <1>3, <1>6, <1>7 DEF StepOK, Inv, TableStep

LEMMA IdleStep ==
  ASSUME Inv, call' = call, sessions' = sessions, userRoles' = userRoles
  PROVE  StepOK
<1>1. SessionInv' /\ AdminInv'
  BY DEF Inv, SessionInv, Exclusive, AdminInv
<1>2. Revokes(sessions, sessions', {})
  BY NothingRevoked DEF Inv, SessionInv
<1> QED
  BY <1>1, <1>2 DEF StepOK, Inv, TableStep
===============================================================================

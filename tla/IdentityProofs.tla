---------------------------- MODULE IdentityProofs ----------------------------
(* Theorems about IdentityAccounts, for any users, roles, sessions and any *)
(* number of concurrent requests.                                          *)
EXTENDS IdentitySessionProofs, FiniteSetTheorems, WellFoundedInduction

USE StoreAssumption, SessionsAssumption

-------------------------------------------------------------------------------
(* The operations behind the middleware.                                   *)

LEMMA PresentStep ==
  ASSUME Inv, NEW c \in Calls, NEW op \in Presented, NEW s \in SessionIds, NEW u \in Users,
         NEW role \in Roles, Present(c, op, s, u, role)
  PROVE  StepOK
<1> DEFINE n == MaxSessions + 1
           K == SessionsOf(u)
           v == [Fresh EXCEPT !.op = op, !.pc = "auth", !.actor = s, !.user = u, !.role = role,
                              !.row = n, !.known = K]
<1>1. /\ call[c].pc = "ready" /\ op \in Operations /\ s \in DOMAIN sessions
      /\ sessions' = sessions /\ userRoles' = userRoles
  BY DEF Present, Starts, tables, accountVars
<1>2. n \in Nat /\ s \in 0 .. MaxSessions
  BY DEF SessionIds
<1>3. K \in SUBSET SessionIds
  BY DEF SessionsOf, Inv, SessionInv, SessionsOK
<1>4. Moves(c, v)
  BY DEF Present, Moves
<1> HIDE DEF n, K
<1>5. Fields(v, "auth", op, u, s, n, role, {}, FALSE, "none")
  BY <1>1, <1>2, <1>3, PresentFields, ZenonT(30)
<1> HIDE DEF v
<1>6. CallOK(sessions, v) /\ AdminOK(userRoles, v) /\ ~Taints(v)
  BY <1>1, <1>5
     DEF Fields, CallOK, StageOK, RowsOK, Refreshing, SelectedOK, DeadOK, HasRevoked,
         AdminOK, Taints
<1> QED
  BY <1>1, <1>4, <1>5, <1>6, QuietMove, RolesKept DEF Fields

LEMMA FirstStepStages ==
  ASSUME NEW op \in Presented, NEW role
  PROVE  /\ FirstStep(op, role) \in {"logout", "sessions", "page", "count", "enable", "assign",
                                    "remove"}
         /\ FirstStep(op, role) = "logout" => op = "logout"
         /\ FirstStep(op, role) = "page" => op = "sessions"
         /\ FirstStep(op, role) = "count" => op \in {"disable", "remove_role"}
         /\ FirstStep(op, role) = "enable" => op = "enable"
         /\ FirstStep(op, role) = "assign" => op = "assign_role"
         /\ FirstStep(op, role) = "remove" => op = "remove_role" /\ role # "admin"
  BY DEF Presented, FirstStep

LEMMA authStep ==
  ASSUME Inv, NEW c \in Calls, auth(c)
  PROVE  StepOK
<1>1. call[c].pc = "auth" /\ sessions' = sessions /\ userRoles' = userRoles
  BY DEF auth, tables, accountVars
<1>2. CASE Refuse(c, "unauthorized") \/ Refuse(c, "forbidden")
  BY <1>1, <1>2, RefuseStep DEF Replies
<1>3. CASE Goto(c, FirstStep(call[c].op, call[c].role))
  <2> DEFINE p == FirstStep(call[c].op, call[c].role)
  <2>1. call[c].op \in Presented
    BY <1>1, CallFacts DEF CallOK, StageOK
  <2>2. /\ p \in {"logout", "sessions", "page", "count", "enable", "assign", "remove"}
        /\ p = "logout" => call[c].op = "logout"
        /\ p = "page" => call[c].op = "sessions"
        /\ p = "count" => call[c].op \in {"disable", "remove_role"}
        /\ p = "enable" => call[c].op = "enable"
        /\ p = "assign" => call[c].op = "assign_role"
        /\ p = "remove" => call[c].op = "remove_role" /\ call[c].role # "admin"
    BY <2>1, FirstStepStages
  <2> HIDE DEF p
  <2>3. p \in Stages \ {"locked", "done"}
    BY <2>2 DEF Stages
  <2>4. ASSUME NEW v, Fields(v, p, call[c].op, call[c].user, call[c].actor, call[c].row,
                             call[c].role, call[c].seen, call[c].raced, call[c].reply)
        PROVE  CallOK(sessions, v) /\ AdminOK(userRoles, v)
    BY <1>1, <2>2, <2>4, CallFacts
       DEF Fields, CallOK, StageOK, RowsOK, Refreshing, SelectedOK, DeadOK, HasRevoked, AdminOK
  <2>5. Goto(c, p)
    BY <1>3 DEF p
  <2> QED
    BY <1>1, <2>3, <2>4, <2>5, GotoStep, ZenonT(30)
<1> QED
  BY <1>2, <1>3 DEF auth

LEMMA LeastIsMember ==
  ASSUME NEW S \in SUBSET Nat, S # {}
  PROVE  Least(S) \in S
<1>1. PICK x \in S : \A y \in S : ~(<<y, x>> \in OpToRel(<, Nat))
  BY NatLessThanWellFounded, WFMin, ZenonT(30)
<1>2. ASSUME NEW y \in S
      PROVE  x <= y
  <2>1. x \in Nat /\ y \in Nat
    OBVIOUS
  <2>2. ~(y < x)
    BY <1>1, <2>1, ZenonT(30) DEF OpToRel
  <2> QED
    BY <2>1, <2>2
<1> QED
  BY <1>2, ZenonT(30) DEF Least

LEMMA GreatestExists ==
  ASSUME NEW S \in SUBSET SessionIds, S # {}
  PROVE  \E x \in S : \A y \in S : y <= x
<1> DEFINE D == {MaxSessions - x : x \in S}
<1>1. D \in SUBSET Nat /\ D # {}
  <2>1. \A x \in S : MaxSessions - x \in Nat
    BY DEF SessionIds
  <2> QED
    BY <2>1
<1>2. PICK m \in D : \A y \in D : ~(<<y, m>> \in OpToRel(<, Nat))
  BY <1>1, NatLessThanWellFounded, WFMin, ZenonT(30)
<1>3. PICK x \in S : m = MaxSessions - x
  OBVIOUS
<1>4. ASSUME NEW y \in S
      PROVE  y <= x
  <2>1. MaxSessions - y \in D
    OBVIOUS
  <2>2. ~(MaxSessions - y < m)
    BY <1>1, <1>2, <2>1, ZenonT(30) DEF OpToRel
  <2> QED
    BY <1>3, <2>2 DEF SessionIds
<1> QED
  BY <1>4

(* A page that is not the last one has a row to continue after.            *)
LEMMA PageRows ==
  ASSUME SessionsOK(sessions), NEW u, NEW cursor \in Nat, NEW size \in Nat \ {0},
         ListUserSessionsPage(u, cursor, size + 1) # ListUserSessionsPage(u, cursor, size)
  PROVE  ListUserSessionsPage(u, cursor, size) # {}
<1> DEFINE rest == {s \in DOMAIN sessions : sessions[s].user = u /\ s < cursor}
<1>1. rest \in SUBSET SessionIds
  BY DEF SessionsOK
<1>2. \A n : ListUserSessionsPage(u, cursor, n)
               = {s \in rest : Cardinality({x \in rest : x > s}) < n}
  BY DEF ListUserSessionsPage
<1> HIDE DEF rest
<1>3. rest # {}
  BY <1>2
<1>4. PICK m \in rest : \A y \in rest : y <= m
  BY <1>1, <1>3, GreatestExists
<1>5. {x \in rest : x > m} = {}
  <2>1. ASSUME NEW x \in rest
        PROVE  ~(x > m)
    <3>1. x \in Nat /\ m \in Nat
      BY <1>1 DEF SessionIds
    <3> QED
      BY <1>4, <3>1
  <2> QED
    BY <2>1
<1>6. Cardinality({x \in rest : x > m}) = 0
  BY <1>5, FS_EmptySet
<1>7. m \in {s \in rest : Cardinality({x \in rest : x > s}) < size}
  BY <1>6
<1> QED
  BY <1>2, <1>7

LEMMA PageStep ==
  ASSUME Inv, NEW c \in Calls, ListSessionsPage(c)
  PROVE  StepOK
<1> DEFINE fetched == ListUserSessionsPage(call[c].user, call[c].row, PageSize + 1)
           page == ListUserSessionsPage(call[c].user, call[c].row, PageSize)
           S == call[c].seen \cup page
<1>1. /\ call[c].pc = "page" /\ call[c].op = "sessions" /\ call[c].actor \in DOMAIN sessions
      /\ call[c].row \in Nat /\ call[c].seen \in SUBSET SessionIds
      /\ call[c].user \in Users /\ sessions' = sessions /\ userRoles' = userRoles
  BY CallFacts DEF ListSessionsPage, CallOK, StageOK, RowsOK, tables, accountVars, Call
<1>2. page \in SUBSET SessionIds
  BY DEF ListUserSessionsPage, Inv, SessionInv, SessionsOK
<1>3. S \in SUBSET SessionIds
  BY <1>1, <1>2
<1>4. CASE fetched # page
  <2> DEFINE n == Cursor(page, fetched)
             v == [call[c] EXCEPT !.seen = S, !.pc = "auth", !.row = n]
  <2>1. page # {}
    BY <1>1, <1>4, PageRows DEF Inv, SessionInv
  <2>2. page \in SUBSET Nat
    BY <1>2 DEF SessionIds
  <2>3. Moves(c, v)
    BY <1>4 DEF ListSessionsPage, Moves
  <2> HIDE DEF page, fetched
  <2>4. n \in Nat
    BY <2>1, <2>2, LeastIsMember, ZenonT(30) DEF Cursor
  <2> HIDE DEF n, S
  <2>5. Fields(v, "auth", call[c].op, call[c].user, call[c].actor, n, call[c].role, S,
               call[c].raced, call[c].reply)
    BY <1>3, <2>4, PageFields, CallFacts, ZenonT(30)
  <2> HIDE DEF v
  <2>6. CallOK(sessions, v) /\ AdminOK(userRoles, v) /\ ~Taints(v)
    BY <1>1, <2>5
       DEF Fields, CallOK, StageOK, RowsOK, Refreshing, SelectedOK, DeadOK, HasRevoked,
           AdminOK, Taints, Presented
  <2> QED
    BY <1>1, <2>3, <2>5, <2>6, QuietMove, RolesKept DEF Fields
<1>5. CASE fetched = page
  <2> DEFINE v == [Done(c, "ok") EXCEPT !.seen = S]
  <2>1. Fields(Done(c, "ok"), "done", "sessions", call[c].user, 0, call[c].row, "admin",
               call[c].seen, call[c].raced, "ok")
    BY <1>1, DoneFields DEF Inv, SessionInv, Replies
  <2>2. Moves(c, v)
    BY <1>5 DEF ListSessionsPage, Moves
  <2> HIDE DEF S
  <2>3. Fields(v, "done", "sessions", call[c].user, 0, call[c].row, "admin", S,
               call[c].raced, "ok")
    BY <1>3, <2>1, SeenFields DEF Fields
  <2> HIDE DEF v
  <2>4. CallOK(sessions, v) /\ AdminOK(userRoles, v) /\ ~Taints(v)
    BY <2>3 DEF Fields, CallOK, StageOK, RowsOK, Refreshing, SelectedOK, DeadOK, HasRevoked,
                Revocations, AdminOK, Taints
  <2> QED
    BY <1>1, <2>2, <2>3, <2>4, QuietMove, RolesKept DEF Fields
<1> QED
  BY <1>4, <1>5

LEMMA DatabaseErrorStep ==
  ASSUME Inv, NEW c \in Calls, DatabaseError(c)
  PROVE  StepOK
<1>1. call[c].pc # "done" /\ sessions' = sessions /\ userRoles' = userRoles
  BY DEF DatabaseError, tables, accountVars
<1>2. Refuse(c, "unauthorized") \/ Refuse(c, "error")
  BY DEF DatabaseError
<1> QED
  BY <1>1, <1>2, RefuseStep DEF Replies

LEMMA SessionStepOK ==
  ASSUME Inv, NEW c \in Calls, SessionStep(c)
  PROVE  StepOK
<1>1. CASE \E u \in Users, p \in {{}} \cup {{d} : d \in Calls} : Login(c, u, p)
  BY <1>1, LoginStep
<1>2. CASE \E s \in SessionIds : Refresh(c, s)
  BY <1>2, RefreshStep
<1>3. CASE \E s \in SessionIds : SelfService(c, s)
  <2>1. PICK s \in SessionIds, op \in {"logout", "logout_all", "sessions"} :
          Present(c, op, s, sessions[s].user, "admin")
    BY <1>3 DEF SelfService
  <2>2. sessions[s].user \in Users
    BY <2>1 DEF Present, Inv, SessionInv, SessionsOK, Session
  <2> QED
    BY <2>1, <2>2, PresentStep DEF Presented
<1>4. CASE RefreshReuse(c)
  BY <1>4, RevokeStep DEF RefreshReuse, Replies, Revocations, accountVars
<1>5. CASE LogoutAll(c)
  BY <1>5, RevokeStep DEF LogoutAll, Replies, Revocations, accountVars
<1>6. CASE SelectSessions(c)
  BY <1>6, SelectUserStep, ZenonT(30) DEF SelectSessions, tables, accountVars
<1> QED
  BY <1>1, <1>2, <1>3, <1>4, <1>5, <1>6, UserRolesStep, CreateSessionStep, FindUserStep,
     RefreshLockStep, RefreshCommitStep, SelectFamilyStep, authStep, LogoutStep, PageStep,
     DatabaseErrorStep DEF SessionStep

-------------------------------------------------------------------------------
(* One-time tokens name users.                                             *)

TokensOK == DOMAIN tokens \subseteq TokenIds /\ tokens \in [DOMAIN tokens -> Token]

LEMMA TokenCreated ==
  ASSUME TokensOK, NEW t \in TokenIds, NEW u \in Users,
         NEW kind \in {"reset", "verification"},
         tokens' = Insert(tokens, t, OneTimeToken(kind, u))
  PROVE  TokensOK'
<1>1. OneTimeToken(kind, u) \in Token
  BY DEF OneTimeToken, Token
<1> QED
  BY <1>1 DEF TokensOK, Insert

LEMMA TokenUpdated ==
  ASSUME TokensOK, NEW t,
         \/ tokens' = [tokens EXCEPT ![t].mailed = TRUE]
         \/ tokens' = [tokens EXCEPT ![t].consumed = TRUE]
         \/ tokens' = [tokens EXCEPT ![t].live = FALSE]
  PROVE  TokensOK'
<1>1. DOMAIN tokens' = DOMAIN tokens /\ tokens' = [x \in DOMAIN tokens |-> tokens'[x]]
  BY DEF TokensOK
<1>2. ASSUME NEW x \in DOMAIN tokens
      PROVE  tokens'[x] \in Token
  <2>1. tokens[x] \in Token
    BY DEF TokensOK
  <2>2. /\ [tokens[x] EXCEPT !.mailed = TRUE] \in Token
        /\ [tokens[x] EXCEPT !.consumed = TRUE] \in Token
        /\ [tokens[x] EXCEPT !.live = FALSE] \in Token
    BY <2>1, ZenonT(30) DEF Token
  <2> QED
    BY <2>1, <2>2, ZenonT(30) DEF TokensOK
<1> QED
  BY <1>1, <1>2 DEF TokensOK

LEMMA TokensKept ==
  ASSUME TokensOK, [Next]_vars
  PROVE  TokensOK'
<1>1. CASE tokens' = tokens
  BY <1>1 DEF TokensOK
<1>2. ASSUME NEW c \in Calls, SessionStep(c)
      PROVE  tokens' = tokens
  BY <1>2, Zenon
     DEF SessionStep, Login, UserRoles, createSession, Refresh, SelfService, Present, FindUser,
         RefreshLock, RefreshCommit, SelectFamily, RefreshReuse, auth, Logout, SelectSessions,
         LogoutAll, ListSessionsPage, DatabaseError, tables, accountVars
<1>3. ASSUME NEW c \in Calls, AccountStep(c)
      PROVE  TokensOK'
  <2>1. CASE \E u \in Users, t \in TokenIds : Register(c, u, t) \/ requestPasswordReset(c, u, t)
    BY <2>1, <1>1, TokenCreated
       DEF Register, requestPasswordReset, CreateVerificationToken, CreateResetToken, tables,
           accountVars
  <2>2. CASE SendMail(c)
    BY <2>2, <1>1, TokenUpdated DEF SendMail
  <2>3. CASE ConfirmEmail(c)
    BY <2>3, <1>1, TokenUpdated DEF ConfirmEmail, ConsumeVerificationToken, tables, accountVars
  <2>4. CASE ConfirmPasswordReset(c)
    BY <2>4, <1>1, TokenUpdated DEF ConfirmPasswordReset, ConsumeResetToken, tables, accountVars
  <2>5. CASE \/ \E t \in TokenIds : FindVerificationToken(c, t) \/ FindResetToken(c, t)
             \/ BeginReset(c) \/ \E s \in SessionIds : Administer(c, s)
             \/ ProtectLastAdministrator(c) \/ BeginDisable(c) \/ DisableUser(c)
    BY <2>5, <1>1, Zenon
       DEF FindVerificationToken, FindResetToken, PresentToken, BeginReset, Administer, Present,
           ProtectLastAdministrator, BeginDisable, DisableUser, tables, accountVars
  <2>6. CASE EnableUser(c) \/ AssignUserRole(c) \/ RemoveUserRole(c)
    BY <2>6, <1>1, Zenon
       DEF EnableUser, AssignUserRole, RemoveUserRole, tables, accountVars
  <2>7. ASSUME NEW p, NEW secret, NEW requested, serviceToken(c, p, secret, requested)
        PROVE  tokens' = tokens
    BY <2>7, Zenon DEF serviceToken, tables, accountVars
  <2> QED
    BY <1>3, <1>1, <2>1, <2>2, <2>3, <2>4, <2>5, <2>6, <2>7, SMTT(30) DEF AccountStep
<1>4. CASE \E s \in SessionIds : SessionExpires(s)
  BY <1>1, <1>4 DEF SessionExpires, accountVars
<1>5. CASE \E t \in TokenIds : TokenExpires(t)
  BY <1>5, TokenUpdated, ZenonT(30) DEF TokenExpires
<1>6. CASE UNCHANGED vars
  BY <1>1, <1>6 DEF vars, tables, accountVars
<1> QED
  BY <1>1, <1>2, <1>3, <1>4, <1>5, <1>6 DEF Next

-------------------------------------------------------------------------------
(* Accounts and administration.                                            *)

LEMMA RoleAssigned ==
  ASSUME Inv, NEW u \in Users, NEW role \in Roles, userRoles' = AssignRole(u, role)
  PROVE  RolesGrow
  BY DEF Inv, AdminInv, AssignRole, RolesGrow

(* A request that begins with a one-time token, or waits for its mail.     *)
LEMMA BeginStep ==
  ASSUME Inv, NEW c \in Calls, call[c].pc = "ready", NEW op \in Operations, NEW u \in Users,
         NEW p \in {"mail", "verify", "reset"}, NEW t \in TokenIds,
         p = "mail" => op \in {"register", "request_reset"},
         p = "verify" => op = "confirm_email",
         Moves(c, [Fresh EXCEPT !.op = op, !.pc = p, !.user = u, !.row = t]),
         sessions' = sessions, RolesGrow
  PROVE  StepOK
<1> DEFINE v == [Fresh EXCEPT !.op = op, !.pc = p, !.user = u, !.row = t]
<1>1. p \in Stages /\ t \in Nat /\ op \in Operations \cup {"none"}
  BY DEF Stages, TokenIds
<1>2. Fields(v, p, op, u, 0, t, "admin", {}, FALSE, "none")
  BY <1>1, RowFields, ZenonT(30)
<1> HIDE DEF v
<1>3. CallOK(sessions, v) /\ AdminOK(userRoles, v) /\ ~Taints(v) /\ v.pc # "locked"
  BY <1>2 DEF Fields, CallOK, StageOK, RowsOK, Refreshing, SelectedOK, DeadOK, HasRevoked,
              AdminOK, Taints
<1> QED
  BY <1>2, <1>3, QuietMove, ZenonT(30) DEF Fields, v

LEMMA RegisterStep ==
  ASSUME Inv, NEW c \in Calls, NEW u \in Users, NEW t \in TokenIds, Register(c, u, t)
  PROVE  StepOK
<1>1. call[c].pc = "ready" /\ "register" \in Operations
  BY DEF Register, Starts
<1>2. CASE Refuse(c, "conflict") /\ UNCHANGED tables
  BY <1>1, <1>2, RefuseStep DEF Replies, tables, accountVars
<1>3. CASE /\ userRoles' = AssignRole(u, "customer") /\ sessions' = sessions
           /\ Mail(c, "register", u, t)
  <2>1. RolesGrow
    BY <1>3, RoleAssigned
  <2> QED
    BY <1>1, <1>3, <2>1, BeginStep, ZenonT(30) DEF Mail, Moves
<1> QED
  BY <1>2, <1>3 DEF Register

LEMMA RequestResetStep ==
  ASSUME Inv, NEW c \in Calls, NEW u \in Users, NEW t \in TokenIds,
         requestPasswordReset(c, u, t)
  PROVE  StepOK
<1>1. call[c].pc = "ready" /\ "request_reset" \in Operations
  BY DEF requestPasswordReset, Starts
<1>2. CASE Answer(c, "request_reset", "ok") /\ UNCHANGED tables
  BY <1>1, <1>2, AnswerStep, RolesKept DEF Replies, tables, accountVars, Revocations
<1>3. CASE Mail(c, "request_reset", u, t) /\ sessions' = sessions /\ userRoles' = userRoles
  BY <1>1, <1>3, BeginStep, RolesKept, ZenonT(30) DEF Mail, Moves
<1> QED
  BY <1>2, <1>3 DEF requestPasswordReset

LEMMA PresentTokenStep ==
  ASSUME Inv, TokensOK, NEW c \in Calls, NEW t \in TokenIds,
         FindVerificationToken(c, t) \/ FindResetToken(c, t)
  PROVE  StepOK
<1>1. PICK op \in {"confirm_email", "confirm_reset"}, p \in {"verify", "reset"} :
        /\ PresentToken(c, op, tokens[t], t, p)
        /\ p = "verify" => op = "confirm_email"
  BY DEF FindVerificationToken, FindResetToken, GetVerificationToken, GetResetToken
<1>2. t \in DOMAIN tokens /\ tokens[t].user \in Users
  BY DEF FindVerificationToken, FindResetToken, TokensOK, Token
<1>3. /\ call[c].pc = "ready" /\ op \in Operations
      /\ sessions' = sessions /\ userRoles' = userRoles
  BY <1>1 DEF PresentToken, Starts, tables, accountVars
<1>4. CASE Refuse(c, "invalid_credentials")
  BY <1>3, <1>4, RefuseStep DEF Replies
<1>5. CASE call' = [call EXCEPT ![c] = [Fresh EXCEPT !.op = op, !.pc = p,
                                                     !.user = tokens[t].user, !.row = t]]
  BY <1>1, <1>2, <1>3, <1>5, BeginStep, RolesKept, ZenonT(30) DEF Moves
<1> QED
  BY <1>1, <1>4, <1>5 DEF PresentToken

LEMMA SendMailStep ==
  ASSUME Inv, NEW c \in Calls, SendMail(c)
  PROVE  StepOK
<1>1. /\ call[c].pc = "mail" /\ call[c].op \in {"register", "request_reset"}
      /\ sessions' = sessions /\ userRoles' = userRoles
  BY CallFacts DEF SendMail, CallOK, StageOK
<1>2. Return(c, "ok") \/ Return(c, "error")
  BY DEF SendMail
<1> QED
  BY <1>1, <1>2, ReturnStep, RolesKept DEF Replies, Revocations

LEMMA ConfirmEmailStep ==
  ASSUME Inv, NEW c \in Calls, ConfirmEmail(c)
  PROVE  StepOK
<1>1. call[c].pc = "verify" /\ call[c].op = "confirm_email"
  BY CallFacts DEF ConfirmEmail, CallOK, StageOK
<1>2. sessions' = sessions /\ userRoles' = userRoles
  BY DEF ConfirmEmail, tables, accountVars
<1>3. Refuse(c, "already_used") \/ Refuse(c, "invalid_credentials") \/ Return(c, "ok")
  BY DEF ConfirmEmail
<1> QED
  BY <1>1, <1>2, <1>3, RefuseStep, ReturnStep, RolesKept, SMTT(30) DEF Replies, Revocations

LEMMA ConfirmResetStep ==
  ASSUME Inv, NEW c \in Calls, ConfirmPasswordReset(c)
  PROVE  StepOK
<1>1. call[c].op = "confirm_reset" /\ call[c].pc = "revoke" /\ userRoles' = userRoles
  BY DEF ConfirmPasswordReset, tables, accountVars
<1>2. CASE Refuse(c, "already_used") /\ UNCHANGED tables
  BY <1>1, <1>2, RefuseStep DEF Replies, tables
<1>3. CASE RevokeSelected(c) /\ Return(c, "ok")
  BY <1>1, <1>3, RevokeStep DEF Replies, Revocations
<1> QED
  BY <1>2, <1>3 DEF ConfirmPasswordReset

(* Two administrators, or one who is not the user, leave another one.      *)
LEMMA AnotherAdministrator ==
  ASSUME Inv, NEW u, NEW w \in Users, "admin" \in userRoles[w],
         ~(HasActiveRole(u, "admin") /\ CountActiveAdministrators <= 1)
  PROVE  \E x \in Users \ {u} : "admin" \in userRoles[x]
<1> DEFINE A == {x \in Users : "admin" \in userRoles[x]}
<1>1. CASE w # u
  BY <1>1
<1>2. CASE w = u
  <2>1. ~(Cardinality(A) <= 1)
    BY <1>2 DEF HasActiveRole, CountActiveAdministrators
  <2>2. Cardinality({u}) = 1 /\ IsFiniteSet({u})
    BY FS_Singleton, ZenonT(30)
  <2>3. ~(A \subseteq {u})
    BY <2>1, <2>2, FS_Subset
  <2> QED
    BY <2>3
<1> QED
  BY <1>1, <1>2

LEMMA ProtectStep ==
  ASSUME Inv, NEW c \in Calls, ProtectLastAdministrator(c)
  PROVE  StepOK
<1>1. /\ call[c].pc = "count" /\ call[c].op \in {"disable", "remove_role"}
      /\ sessions' = sessions /\ userRoles' = userRoles
  BY CallFacts DEF ProtectLastAdministrator, CallOK, StageOK, tables, accountVars
<1>2. CASE Refuse(c, "conflict")
  BY <1>1, <1>2, RefuseStep DEF Replies
<1>3. CASE ~(HasActiveRole(call[c].user, "admin") /\ CountActiveAdministrators <= 1)
  <2>1. PICK p \in {"update", "remove"} :
          Goto(c, p) /\ (p = "remove" => call[c].op = "remove_role")
    BY <1>1, <1>3 DEF ProtectLastAdministrator
  <2>2. p \in Stages \ {"locked", "done"}
    BY SMTT(30) DEF Stages
  <2>3. ASSUME NEW v, Fields(v, p, call[c].op, call[c].user, call[c].actor, call[c].row,
                             call[c].role, call[c].seen, call[c].raced, call[c].reply)
        PROVE  CallOK(sessions, v)
    BY <1>1, <2>1, <2>3, CallFacts
       DEF Fields, CallOK, StageOK, RowsOK, Refreshing, SelectedOK, DeadOK, HasRevoked
  <2>4. \/ \E d \in Calls : Taints(call[d])
        \/ \E x \in Users \ {call[c].user} : "admin" \in userRoles[x]
    BY <1>3, AnotherAdministrator DEF Inv, AdminInv
  <2>5. ASSUME NEW v, Fields(v, p, call[c].op, call[c].user, call[c].actor, call[c].row,
                             call[c].role, call[c].seen, call[c].raced, call[c].reply)
        PROVE  (\E d \in Calls : Taints(call[d])) \/ AdminOK(userRoles, v)
    BY <2>4, <2>5 DEF Fields, AdminOK
  <2> QED
    BY <1>1, <2>1, <2>2, <2>3, <2>5, GotoStep, ZenonT(30)
<1> QED
  BY <1>2, <1>3 DEF ProtectLastAdministrator

LEMMA DisableStep ==
  ASSUME Inv, NEW c \in Calls, BeginDisable(c) \/ DisableUser(c)
  PROVE  StepOK
<1>1. CASE DisableUser(c)
  BY <1>1, RevokeStep DEF DisableUser, Replies, Revocations
<1>2. CASE BeginDisable(c)
  <2>1. call[c].pc = "update" /\ sessions' = sessions /\ userRoles' = userRoles
    BY <1>2 DEF BeginDisable, tables, accountVars
  <2>2. CASE Refuse(c, "not_found")
    BY <2>1, <2>2, RefuseStep DEF Replies
  <2>3. CASE call' = [call EXCEPT ![c].pc = "revoke",
                                  ![c].seen = RevokeUserSessions(call[c].user)]
    BY <2>1, <2>3, SelectUserStep, ZenonT(30)
  <2> QED
    BY <1>2, <2>2, <2>3 DEF BeginDisable
<1> QED
  BY <1>1, <1>2, SMTT(30)

LEMMA EnableStep ==
  ASSUME Inv, NEW c \in Calls, EnableUser(c)
  PROVE  StepOK
<1>1. call[c].pc = "enable" /\ call[c].op = "enable"
  BY CallFacts DEF EnableUser, CallOK, StageOK
<1>2. sessions' = sessions /\ userRoles' = userRoles
  BY DEF EnableUser, tables, accountVars
<1>3. Refuse(c, "not_found") \/ Return(c, "ok")
  BY DEF EnableUser
<1> QED
  BY <1>1, <1>2, <1>3, RefuseStep, ReturnStep, RolesKept, SMTT(30) DEF Replies, Revocations

LEMMA AssignStep ==
  ASSUME Inv, NEW c \in Calls, AssignUserRole(c)
  PROVE  StepOK
<1>1. /\ call[c].pc = "assign" /\ call[c].op = "assign_role"
      /\ call[c].user \in Users /\ call[c].role \in Roles
  BY CallFacts DEF AssignUserRole, CallOK, StageOK, Call
<1>2. CASE (Refuse(c, "error") \/ Refuse(c, "not_found")) /\ UNCHANGED tables
  BY <1>1, <1>2, RefuseStep, SMTT(30) DEF Replies, tables, accountVars
<1>3. CASE /\ userRoles' = AssignRole(call[c].user, call[c].role) /\ Return(c, "ok")
           /\ sessions' = sessions
  BY <1>1, <1>3, ReturnStep, RoleAssigned DEF Replies, Revocations
<1> QED
  BY <1>2, <1>3, SMTT(30) DEF AssignUserRole

(* A removal commits: those that have counted before are raced.            *)
LEMMA RemoveStep ==
  ASSUME Inv, NEW c \in Calls, RemoveUserRole(c)
  PROVE  StepOK
<1>1. /\ call[c].pc = "remove" /\ call[c].op = "remove_role"
      /\ call[c].user \in Users /\ call[c].role \in Roles
  BY CallFacts DEF RemoveUserRole, CallOK, StageOK, Call
<1>2. CASE Refuse(c, "not_found") /\ UNCHANGED tables
  BY <1>1, <1>2, RefuseStep DEF Replies, tables, accountVars
<1>3. CASE /\ userRoles' = RemoveRole(call[c].user, call[c].role) /\ sessions' = sessions
           /\ call' = [d \in Calls |->
                IF d = c THEN Done(c, "ok")
                ELSE IF call[d].pc = "remove" THEN [call[d] EXCEPT !.raced = TRUE]
                ELSE call[d]]
  <2> DEFINE v == Done(c, "ok")
  <2>1. Fields(v, "done", "remove_role", call[c].user, 0, call[c].row, "admin",
               call[c].seen, call[c].raced, "ok")
    BY <1>1, DoneFields DEF Inv, SessionInv, Replies
  <2>2. call'[c] = v
    BY <1>3
  <2> HIDE DEF v
  <2>3. CallOK(sessions, v) /\ v.pc # "locked" /\ (Taints(v) <=> call[c].raced)
    BY <2>1 DEF Fields, CallOK, StageOK, RowsOK, Refreshing, SelectedOK, DeadOK, HasRevoked,
                Revocations, Taints
  <2>4. ASSUME NEW d \in Calls \ {c}
        PROVE  /\ call'[d] \in Call /\ CallOK(sessions, call'[d])
               /\ call'[d].pc = call[d].pc /\ call'[d].row = call[d].row
               /\ call'[d].pc = "remove" => call'[d].raced
               /\ Taints(call[d]) => Taints(call'[d])
    <3>1. CASE call[d].pc = "remove"
      <4> DEFINE w == [call[d] EXCEPT !.raced = TRUE]
      <4>1. call'[d] = w
        BY <1>3, <3>1
      <4>2. Fields(w, "remove", call[d].op, call[d].user, call[d].actor, call[d].row,
                   call[d].role, call[d].seen, TRUE, call[d].reply)
        BY <3>1, RacedFields, CallFacts, ZenonT(30)
      <4> HIDE DEF w
      <4>3. CallOK(sessions, w)
        BY <3>1, <4>2, CallFacts
           DEF Fields, CallOK, StageOK, RowsOK, Refreshing, SelectedOK, DeadOK, HasRevoked
      <4> QED
        BY <3>1, <4>1, <4>2, <4>3 DEF Fields, Taints
    <3>2. CASE call[d].pc # "remove"
      <4>1. call'[d] = call[d]
        BY <1>3, <3>2
      <4> QED
        BY <3>2, <4>1, CallFacts
    <3> QED
      BY <3>1, <3>2, SMTT(30)
  <2>5. SessionInv'
    <3>1. call' \in [Calls -> Call]
      BY <1>3, <2>1, <2>2, <2>4 DEF Fields
    <3>2. \A d \in Calls : CallOK(sessions', call'[d])
      BY <1>3, <2>2, <2>3, <2>4
    <3>3. Exclusive'
      BY <2>2, <2>3, <2>4 DEF Exclusive, Inv, SessionInv
    <3> QED
      BY <1>3, <3>1, <3>2, <3>3 DEF SessionInv, Inv
  <2>6. userRoles' \in [Users -> SUBSET Roles]
    BY <1>1, <1>3 DEF Inv, AdminInv, RemoveRole
  <2>7. AdminInv'
    <3>1. CASE \E d \in Calls : Taints(call[d])
      <4>1. PICK d \in Calls : Taints(call[d])
        BY <3>1
      <4>2. d # c
        BY <1>1, <4>1 DEF Taints
      <4>3. Taints(call'[d])
        BY <2>4, <4>1, <4>2
      <4> QED
        BY <2>6, <4>3 DEF AdminInv
    <3>2. CASE call[c].raced
      BY <2>2, <2>3, <2>6, <3>2 DEF AdminInv
    <3>3. CASE ~call[c].raced /\ ~ \E d \in Calls : Taints(call[d])
      <4>1. AdminOK(userRoles, call[c]) /\ \E u \in Users : "admin" \in userRoles[u]
        BY <3>3 DEF Inv, AdminInv
      <4>2. \E u \in Users : "admin" \in userRoles'[u]
        <5>1. CASE call[c].role = "admin"
          <6>1. PICK u \in Users \ {call[c].user} : "admin" \in userRoles[u]
            BY <1>1, <3>3, <4>1, <5>1 DEF AdminOK
          <6>2. userRoles'[u] = userRoles[u]
            BY <1>3, <6>1 DEF RemoveRole, Inv, AdminInv
          <6> QED
            BY <6>1, <6>2
        <5>2. CASE call[c].role # "admin"
          BY <1>1, <1>3, <4>1, <5>2 DEF RemoveRole, Inv, AdminInv
        <5> QED
          BY <5>1, <5>2
      <4>3. \A d \in Calls : AdminOK(userRoles', call'[d])
        BY <2>1, <2>2, <2>4 DEF AdminOK, Fields
      <4> QED
        BY <2>6, <4>2, <4>3 DEF AdminInv
    <3> QED
      BY <3>1, <3>2, <3>3
  <2>8. TableStep
    BY <1>3, NothingRevoked DEF TableStep, Inv, SessionInv
  <2> QED
    BY <2>5, <2>7, <2>8 DEF StepOK, Inv
<1> QED
  BY <1>2, <1>3 DEF RemoveUserRole

LEMMA ServiceTokenStep ==
  ASSUME Inv, NEW c \in Calls, NEW p, NEW secret, NEW requested,
         serviceToken(c, p, secret, requested)
  PROVE  StepOK
<1>1. /\ call[c].pc = "ready" /\ "service_token" \in Operations
      /\ sessions' = sessions /\ userRoles' = userRoles
  BY DEF serviceToken, Starts, tables, accountVars
<1>2. Grant(p, secret, requested) \in Replies
  BY DEF Grant, Replies
<1>3. Answer(c, "service_token", Grant(p, secret, requested))
  BY DEF serviceToken
<1>4. "service_token" \notin Revocations
  BY DEF Revocations
<1> QED
  BY <1>1, <1>2, <1>3, <1>4, AnswerStep, RolesKept

LEMMA AccountStepOK ==
  ASSUME Inv, TokensOK, NEW c \in Calls, AccountStep(c)
  PROVE  StepOK
<1>1. CASE \E u \in Users, t \in TokenIds : Register(c, u, t) \/ requestPasswordReset(c, u, t)
  BY <1>1, RegisterStep, RequestResetStep
<1>2. CASE \E t \in TokenIds : FindVerificationToken(c, t) \/ FindResetToken(c, t)
  BY <1>2, PresentTokenStep
<1>3. CASE BeginReset(c)
  BY <1>3, SelectUserStep, ZenonT(30) DEF BeginReset, tables, accountVars
<1>4. CASE \E s \in SessionIds : Administer(c, s)
  BY <1>4, PresentStep DEF Administer, Presented
<1>5. CASE \E p \in DOMAIN Principals \cup {"unknown"}, secret \in {"current", "retired"},
             requested \in SUBSET (Scopes \cup {"ungranted"}) :
             serviceToken(c, p, secret, requested)
  BY <1>5, ServiceTokenStep
<1> QED
  BY <1>1, <1>2, <1>3, <1>4, <1>5, SendMailStep, ConfirmEmailStep, ConfirmResetStep,
     ProtectStep, DisableStep, EnableStep, AssignStep, RemoveStep DEF AccountStep

LEMMA NextOK ==
  ASSUME Inv, TokensOK, [Next]_vars
  PROVE  StepOK
<1>1. CASE UNCHANGED vars
  BY <1>1, IdleStep DEF vars, tables, accountVars
<1>2. CASE \E t \in TokenIds : TokenExpires(t)
  BY <1>2, IdleStep DEF TokenExpires
<1> QED
  BY <1>1, <1>2, SessionStepOK, AccountStepOK, ExpiryStep DEF Next

LEMMA InitOK == Init => Inv /\ TokensOK
<1> SUFFICES ASSUME Init
             PROVE  Inv /\ TokensOK
  OBVIOUS
<1>1. call \in [Calls -> Call] /\ \A c \in Calls : call[c] = Fresh
  BY FreshFields DEF Init, Fields
<1>2. SessionsOK(sessions)
  BY InitialAssumption DEF Init, SessionsOK
<1>3. CallOK(sessions, Fresh) /\ AdminOK(userRoles, Fresh) /\ Fresh.pc # "locked"
  BY FreshFields
     DEF Fields, CallOK, StageOK, RowsOK, Refreshing, SelectedOK, DeadOK, HasRevoked, AdminOK
<1>4. SessionInv
  BY <1>1, <1>2, <1>3 DEF SessionInv, Exclusive
<1>5. AdminInv
  BY <1>1, <1>3, InitialAssumption DEF Init, AdminInv
<1>6. TokensOK
  <2>1. tokens = <<>>
    BY DEF Init
  <2> QED
    BY <2>1 DEF TokensOK
<1> QED
  BY <1>4, <1>5, <1>6 DEF Inv

LEMMA Invariance == Spec => [](Inv /\ TokensOK)
<1>1. Inv /\ TokensOK /\ [Next]_vars => (Inv /\ TokensOK)'
  BY NextOK, TokensKept DEF StepOK
<1> QED
  BY <1>1, InitOK, PTL DEF Spec

-------------------------------------------------------------------------------
(* Of any number of refreshes that present a token of one family, at any   *)
(* interleaving with each other, with logouts and with revocations, only   *)
(* one leaves an ACTIVE session: LockActiveSession and RotateSession.      *)
THEOREM RefreshesExclude == Spec => []OneActivePerFamily
<1>1. Inv => OneActivePerFamily
  BY DEF Inv, SessionInv, SessionsOK, OneActivePerFamily
<1> QED
  BY <1>1, Invariance, PTL

(* A family revoked by reuse detection, logout, logout-all, a reset or a   *)
(* disablement that no refresh has raced stays without ACTIVE session.     *)
THEOREM RevocationsHold == Spec => []RevokedFamiliesAreDead
<1>1. Inv => RevokedFamiliesAreDead
  <2> SUFFICES ASSUME Inv, NEW c \in Calls, Revoking(c), ~call[c].raced
               PROVE  \A s \in DOMAIN sessions, t \in call[c].seen :
                        sessions[s].family = sessions[t].family
                          => sessions[s].status # "ACTIVE"
    BY DEF RevokedFamiliesAreDead
  <2>1. HasRevoked(call[c])
    BY DEF Revoking, HasRevoked
  <2> QED
    BY <2>1, CallFacts DEF CallOK, DeadOK
<1> QED
  BY <1>1, Invariance, PTL

(* The check of RemoveRole keeps an administrator for any number of users  *)
(* and removals, as long as no two removals overlap.                       *)
THEOREM AdministratorsRemain == Spec => []AdministratorRemains
<1>1. Inv => AdministratorRemains
  BY DEF Inv, AdminInv, AdministratorRemains, Taints
<1> QED
  BY <1>1, Invariance, PTL

(* No statement of Identity brings a session back to life, deletes it or   *)
(* moves it to another user or family.                                     *)
THEOREM SessionsOnlyEnd == Spec => SessionLifecycle
<1> DEFINE Ends ==
      \A s \in DOMAIN sessions :
        /\ s \in DOMAIN sessions'
        /\ sessions'[s].user = sessions[s].user
        /\ sessions'[s].family = sessions[s].family
        /\ <<sessions[s].status, sessions'[s].status>> \in
             {<<"ACTIVE", "ACTIVE">>, <<"ACTIVE", "ROTATED">>, <<"ACTIVE", "REVOKED">>,
              <<"ROTATED", "ROTATED">>, <<"ROTATED", "REVOKED">>,
              <<"REVOKED", "REVOKED">>}
<1>1. Inv /\ TokensOK /\ [Next]_vars => [Ends]_vars
  <2> SUFFICES ASSUME Inv, TokensOK, [Next]_vars, NEW s \in DOMAIN sessions
               PROVE  /\ s \in DOMAIN sessions'
                      /\ sessions'[s].user = sessions[s].user
                      /\ sessions'[s].family = sessions[s].family
                      /\ <<sessions[s].status, sessions'[s].status>> \in
                           {<<"ACTIVE", "ACTIVE">>, <<"ACTIVE", "ROTATED">>,
                            <<"ACTIVE", "REVOKED">>, <<"ROTATED", "ROTATED">>,
                            <<"ROTATED", "REVOKED">>, <<"REVOKED", "REVOKED">>}
    OBVIOUS
  <2>1. TableStep /\ sessions[s].status \in {"ACTIVE", "ROTATED", "REVOKED"}
    BY NextOK DEF StepOK, Inv, SessionInv, SessionsOK, Session
  <2>2. CASE \E rows \in SUBSET SessionIds : Revokes(sessions, sessions', rows)
    BY <2>1, <2>2 DEF Revokes, Kept
  <2>3. CASE \E t \in SessionIds, u \in Users : Opens(sessions, sessions', t, u)
    BY <2>1, <2>3 DEF Opens, Kept
  <2>4. CASE \E r, t \in SessionIds : Rotates(sessions, sessions', r, t)
    BY <2>1, <2>4 DEF Rotates, Kept
  <2> QED
    BY <2>1, <2>2, <2>3, <2>4 DEF TableStep
<1> QED
  BY <1>1, Invariance, PTL DEF Spec, SessionLifecycle
===============================================================================

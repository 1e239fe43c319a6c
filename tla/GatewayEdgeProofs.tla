-------------------------- MODULE GatewayEdgeProofs --------------------------
(* Theorems about GatewayEdge and the limiters, for any number of requests,*)
(* slots and failures, and any limits, timeouts and margin.                *)
EXTENDS GatewayEdge, FiniteSetTheorems, TLAPS

USE EdgeAssumption

Forwarded == {r \in Requests : req[r].pc \in {"send", "reply"}}

(* How often a request may have been transmitted where it stands.          *)
Attempts(v) ==
  /\ v.pc \in {"idle", "limit"} => v.sent = 0 /\ v.round = 1
  /\ v.pc \notin {"send", "reply", "refresh"} => v.attempt = 0
  /\ v.pc = "refresh" => v.round = 1
  /\ v.pc # "done" =>
       v.sent <= 2 * (v.round - 1) + v.attempt
                 + (IF v.pc \in {"reply", "refresh"} THEN 1 ELSE 0)

OneTry(v) ==
  v.route # "none" /\ IsMutation(DefaultPolicies[v.route]) =>
    v.round = 1 /\ v.attempt = 0 /\ v.pc # "refresh" /\ v.sent <= 1

(* How long the token of a request still lives: longer than the request.   *)
Lifetime(v) ==
  /\ v.pc = "issued" => v.life + v.since >= TokenTTL
  /\ v.pc \in {"slot", "send", "reply"} => v.life > v.budget

(* What holds of a request by itself.                                      *)
Sound(v) ==
  /\ v \in Request
  /\ v.pc # "idle" => v.route \in Routes
  /\ v.pc = "idle" => v.route = "none"
  /\ Attempts(v) /\ OneTry(v) /\ Lifetime(v)

(* The client is mistaken about the expiry by a fetch at most.             *)
Belief == client.held => client.believed <= client.life + FetchTimeout

EdgeType ==
  /\ slots \in 0 .. MaxInFlight
  /\ client \in [held : BOOLEAN, believed : 0 .. TokenTTL, life : 0 .. TokenTTL]
  /\ mishaps \in 0 .. MaxMishaps

EdgeInv ==
  /\ req \in [Requests -> Request]
  /\ \A r \in Requests : Sound(req[r])
  /\ EdgeType /\ Belief
  /\ slots = Cardinality(Forwarded)

-------------------------------------------------------------------------------
(* Requests after a step: each lemma is about one way to change a record.  *)

LEMMA Numbers ==
  ASSUME NEW v \in Request
  PROVE  /\ v.budget \in Nat /\ v.budget <= Timeout
         /\ v.since \in Nat /\ v.since <= FetchTimeout
         /\ v.life \in Nat /\ v.life <= TokenTTL
         /\ v.attempt \in Nat /\ v.attempt <= 1
         /\ v.round \in Nat /\ v.round >= 1 /\ v.round <= 2
         /\ v.sent \in Nat /\ v.sent <= 4
  BY DEF Request

LEMMA OnlyReadsRetry ==
  \A name \in Routes : DefaultPolicies[name].retry => ~IsMutation(DefaultPolicies[name])
  BY RouteAssumption DEF DefaultPolicies, Policy, IsMutation

(* The fields of a request that the invariants speak of.                   *)
Fields(v, pc, name, budget, since, life, attempt, round, sent) ==
  /\ v \in Request /\ v.pc = pc /\ v.route = name /\ v.budget = budget
  /\ v.since = since /\ v.life = life /\ v.attempt = attempt /\ v.round = round
  /\ v.sent = sent

LEMMA IdleFields ==
  ASSUME NEW c \in Clients PROVE Fields(Idle(c), "idle", "none", 0, 0, 0, 0, 1, 0)
<1>1. /\ 0 \in 0 .. Timeout /\ 0 \in 0 .. FetchTimeout /\ 0 \in 0 .. TokenTTL
      /\ 0 \in 0 .. 1 /\ 1 \in 1 .. 2 /\ 0 \in 0 .. 4
      /\ "idle" \in Stages /\ 0 \in Statuses /\ 0 \in Replies
  BY DEF Stages, Statuses, Replies
<1> QED
  BY <1>1, Zenon DEF Fields, Idle, Request

LEMMA FinishFields ==
  ASSUME NEW v \in Request, NEW status \in Statuses
  PROVE  Fields([Idle(v.client) EXCEPT !.pc = "done", !.status = status,
                                       !.route = v.route, !.sent = v.sent],
                "done", v.route, 0, 0, 0, 0, 1, v.sent)
<1>1. ASSUME NEW u \in Request, NEW name \in Routes \cup {"none"}, NEW n \in 0 .. 4
      PROVE  Fields([u EXCEPT !.pc = "done", !.status = status, !.route = name, !.sent = n],
                    "done", name, u.budget, u.since, u.life, u.attempt, u.round, n)
  <2>1. "done" \in Stages
    BY DEF Stages
  <2> QED
    BY <2>1, Zenon DEF Fields, Request
<1>2. v.client \in Clients /\ v.route \in Routes \cup {"none"} /\ v.sent \in 0 .. 4
  BY DEF Request
<1>3. Idle(v.client) \in Request
  BY <1>2, IdleFields DEF Fields
<1>4. Fields([Idle(v.client) EXCEPT !.pc = "done", !.status = status,
                                    !.route = v.route, !.sent = v.sent],
             "done", v.route, Idle(v.client).budget, Idle(v.client).since,
             Idle(v.client).life, Idle(v.client).attempt, Idle(v.client).round, v.sent)
  BY <1>1, <1>2, <1>3
<1> QED
  BY <1>2, <1>4, IdleFields DEF Fields

LEMMA PcFields ==
  ASSUME NEW v \in Request, NEW p \in Stages
  PROVE  Fields([v EXCEPT !.pc = p],
                p, v.route, v.budget, v.since, v.life, v.attempt, v.round, v.sent)
  BY Zenon DEF Fields, Request

LEMMA ArrivedFields ==
  ASSUME NEW v \in Request, NEW name \in Routes, NEW b \in {"ok", "too_large"}
  PROVE  Fields([v EXCEPT !.route = name, !.body = b],
                v.pc, name, v.budget, v.since, v.life, v.attempt, v.round, v.sent)
  BY Zenon DEF Fields, Request

LEMMA RefusedFields ==
  ASSUME NEW v \in Request, NEW status \in Statuses
  PROVE  Fields([v EXCEPT !.pc = "done", !.status = status],
                "done", v.route, v.budget, v.since, v.life, v.attempt, v.round, v.sent)
<1>1. "done" \in Stages
  BY DEF Stages
<1> QED
  BY <1>1, Zenon DEF Fields, Request

LEMMA BudgetFields ==
  ASSUME NEW v \in Request
  PROVE  Fields([v EXCEPT !.pc = "token", !.budget = Timeout],
                "token", v.route, Timeout, v.since, v.life, v.attempt, v.round, v.sent)
<1>1. "token" \in Stages /\ Timeout \in 0 .. Timeout
  BY DEF Stages
<1> QED
  BY <1>1, Zenon DEF Fields, Request

LEMMA LifeFields ==
  ASSUME NEW v \in Request, NEW p \in Stages, NEW n \in 0 .. TokenTTL
  PROVE  Fields([v EXCEPT !.pc = p, !.life = n],
                p, v.route, v.budget, v.since, n, v.attempt, v.round, v.sent)
  BY Zenon DEF Fields, Request

LEMMA IssuedFields ==
  ASSUME NEW v \in Request
  PROVE  Fields([v EXCEPT !.pc = "issued", !.life = TokenTTL, !.since = 0],
                "issued", v.route, v.budget, 0, TokenTTL, v.attempt, v.round, v.sent)
<1>1. "issued" \in Stages /\ TokenTTL \in 0 .. TokenTTL /\ 0 \in 0 .. FetchTimeout
  BY DEF Stages
<1> QED
  BY <1>1, Zenon DEF Fields, Request

LEMMA RoundFields ==
  ASSUME NEW v \in Request
  PROVE  Fields([v EXCEPT !.pc = "token", !.round = 2, !.attempt = 0],
                "token", v.route, v.budget, v.since, v.life, 0, 2, v.sent)
<1>1. "token" \in Stages /\ 2 \in 1 .. 2 /\ 0 \in 0 .. 1
  BY DEF Stages
<1> QED
  BY <1>1, Zenon DEF Fields, Request

LEMMA SentFields ==
  ASSUME NEW v \in Request, NEW status \in Replies, v.sent < 4
  PROVE  Fields([v EXCEPT !.pc = "reply", !.reply = status, !.sent = v.sent + 1],
                "reply", v.route, v.budget, v.since, v.life, v.attempt, v.round, v.sent + 1)
<1>1. "reply" \in Stages /\ v.sent + 1 \in 0 .. 4
  BY Numbers DEF Stages
<1> QED
  BY <1>1, Zenon DEF Fields, Request

LEMMA AgainFields ==
  ASSUME NEW v \in Request
  PROVE  Fields([v EXCEPT !.pc = "send", !.attempt = 1],
                "send", v.route, v.budget, v.since, v.life, 1, v.round, v.sent)
<1>1. "send" \in Stages /\ 1 \in 0 .. 1
  BY DEF Stages
<1> QED
  BY <1>1, Zenon DEF Fields, Request

LEMMA WaitedFields ==
  ASSUME NEW v \in Request, NEW b \in 0 .. Timeout, NEW l \in 0 .. TokenTTL, NEW s \in 0 .. FetchTimeout
  PROVE  Fields([v EXCEPT !.budget = b, !.life = l, !.since = s],
                v.pc, v.route, b, s, l, v.attempt, v.round, v.sent)
  BY Zenon DEF Fields, Request

-------------------------------------------------------------------------------
(* A step of one request, which may take or release a slot.                *)

Slot(v) == IF v.pc \in {"send", "reply"} THEN 1 ELSE 0

LEMMA SlotCount ==
  ASSUME EdgeInv, NEW r \in Requests, NEW v \in Request, req' = [req EXCEPT ![r] = v],
         slots' = (slots + Slot(v)) - Slot(req[r])
  PROVE  slots' = Cardinality(Forwarded') /\ slots' \in Nat
<1>1. IsFiniteSet(Forwarded) /\ Cardinality(Forwarded) \in Nat
  BY FS_Subset, FS_CardinalityType DEF Forwarded
<1>2. slots = Cardinality(Forwarded) /\ req \in [Requests -> Request]
  BY DEF EdgeInv
<1>3. CASE v.pc \in {"send", "reply"} /\ req[r].pc \notin {"send", "reply"}
  <2>1. Forwarded' = Forwarded \cup {r} /\ r \notin Forwarded
    BY <1>2, <1>3 DEF Forwarded
  <2>2. Cardinality(Forwarded') = Cardinality(Forwarded) + 1
    BY <1>1, <2>1, FS_AddElement
  <2> QED
    BY <1>1, <1>2, <1>3, <2>2 DEF Slot
<1>4. CASE v.pc \notin {"send", "reply"} /\ req[r].pc \in {"send", "reply"}
  <2>1. Forwarded' = Forwarded \ {r} /\ r \in Forwarded
    BY <1>2, <1>4 DEF Forwarded
  <2>2. Cardinality(Forwarded') = Cardinality(Forwarded) - 1 /\ Cardinality(Forwarded') \in Nat
    BY <1>1, <2>1, FS_RemoveElement, FS_CardinalityType
  <2> QED
    BY <1>1, <1>2, <1>4, <2>2 DEF Slot
<1>5. CASE v.pc \in {"send", "reply"} <=> req[r].pc \in {"send", "reply"}
  <2>1. Forwarded' = Forwarded
    BY <1>2, <1>5 DEF Forwarded
  <2> QED
    BY <1>1, <1>2, <1>5, <2>1 DEF Slot
<1> QED
  BY <1>3, <1>4, <1>5

LEMMA Moves ==
  ASSUME EdgeInv, NEW r \in Requests, NEW v, Sound(v), req' = [req EXCEPT ![r] = v],
         slots' = (slots + Slot(v)) - Slot(req[r]), slots' <= MaxInFlight,
         client' \in [held : BOOLEAN, believed : 0 .. TokenTTL, life : 0 .. TokenTTL],
         Belief', mishaps' \in 0 .. MaxMishaps
  PROVE  EdgeInv'
<1>1. v \in Request
  BY DEF Sound
<1>2. slots' = Cardinality(Forwarded') /\ slots' \in 0 .. MaxInFlight
  <2>1. slots' = Cardinality(Forwarded') /\ slots' \in Nat
    BY <1>1, SlotCount
  <2> QED
    BY <2>1
<1>3. req' \in [Requests -> Request] /\ \A q \in Requests : Sound(req'[q])
  BY <1>1 DEF EdgeInv
<1> QED
  BY <1>2, <1>3 DEF EdgeInv, EdgeType

(* The same for a step that leaves slots and the client alone.             *)
LEMMA PlainMove ==
  ASSUME EdgeInv, NEW r \in Requests, NEW v, Sound(v), req' = [req EXCEPT ![r] = v],
         Slot(v) = Slot(req[r]), UNCHANGED <<slots, client>>, mishaps' \in 0 .. MaxMishaps
  PROVE  EdgeInv'
<1>1. slots' = (slots + Slot(v)) - Slot(req[r]) /\ slots' <= MaxInFlight
  BY DEF EdgeInv, EdgeType, Slot
<1>2. /\ client' \in [held : BOOLEAN, believed : 0 .. TokenTTL, life : 0 .. TokenTTL]
      /\ Belief'
  BY DEF EdgeInv, EdgeType, Belief
<1> QED
  BY <1>1, <1>2, Moves

LEMMA FinishSound ==
  ASSUME NEW v, Sound(v), v.pc # "idle", NEW status \in Statuses,
         NEW new, new = [Idle(v.client) EXCEPT !.pc = "done", !.status = status,
                                               !.route = v.route, !.sent = v.sent]
  PROVE  Sound(new) /\ Slot(new) = 0
<1>1. Fields(new, "done", v.route, 0, 0, 0, 0, 1, v.sent)
  BY FinishFields DEF Sound
<1> QED
  BY <1>1 DEF Fields, Sound, Attempts, OneTry, Lifetime, Slot

LEMMA ErrorStatuses ==
  /\ mapError.unauthorized \in Statuses /\ mapError.forbidden \in Statuses
  /\ mapError.rate_limited \in Statuses /\ mapError.dependency \in Statuses
  /\ mapError.upstream_timeout \in Statuses /\ mapError.upstream_unavailable \in Statuses
  /\ mapError.upstream_response \in Statuses /\ mapError.payload_too_large \in Statuses
  /\ mapError.unsupported_media \in Statuses /\ mapError.bad_request \in Statuses
  BY DEF mapError, Statuses

(* A request is answered: from where it holds no slot, or with its slot.   *)
LEMMA FinishStep ==
  ASSUME EdgeInv, NEW r \in Requests, NEW status \in Statuses, Finish(r, status),
         req[r].pc # "idle", UNCHANGED client, mishaps' \in 0 .. MaxMishaps,
         \/ req[r].pc \notin {"send", "reply"} /\ UNCHANGED slots
         \/ req[r].pc \in {"send", "reply"} /\ slots' = slots - 1
  PROVE  EdgeInv'
<1> DEFINE new == [Idle(req[r].client) EXCEPT !.pc = "done", !.status = status,
                                    !.route = req[r].route, !.sent = req[r].sent]
<1>1. Sound(req[r])
  BY DEF EdgeInv
<1>2. Sound(new) /\ Slot(new) = 0
  BY <1>1, FinishSound
<1>3. req' = [req EXCEPT ![r] = new]
  BY DEF Finish
<1>4. slots' = (slots + Slot(new)) - Slot(req[r]) /\ slots' <= MaxInFlight
  BY <1>2 DEF EdgeInv, EdgeType, Slot
<1>5. /\ client' \in [held : BOOLEAN, believed : 0 .. TokenTTL, life : 0 .. TokenTTL]
      /\ Belief'
  BY DEF EdgeInv, EdgeType, Belief
<1> HIDE DEF new
<1> QED
  BY <1>2, <1>3, <1>4, <1>5, Moves

-------------------------------------------------------------------------------
(* The steps of a request.                                                 *)

LEMMA routeInv ==
  ASSUME EdgeInv, NEW r \in Requests, NEW name \in Routes, NEW body \in {"ok", "too_large"},
         route(r, name, body)
  PROVE  EdgeInv'
<1> DEFINE arrived == [req[r] EXCEPT !.route = name, !.body = body]
<1>0. Sound(req[r]) /\ req[r].pc = "idle" /\ mishaps' \in 0 .. MaxMishaps
  BY DEF EdgeInv, EdgeType, route
<1>1. Fields(arrived, "idle", name, req[r].budget, req[r].since, req[r].life, 0, 1, 0)
  <2>1. /\ req[r] \in Request
        /\ req[r].attempt = 0 /\ req[r].round = 1 /\ req[r].sent = 0
    BY <1>0 DEF Sound, Attempts
  <2>2. Fields(arrived, req[r].pc, name, req[r].budget, req[r].since, req[r].life,
               req[r].attempt, req[r].round, req[r].sent)
    BY <2>1, ArrivedFields
  <2> QED
    BY <1>0, <2>1, <2>2
<1>2. UNCHANGED <<slots, client>> /\ Slot(req[r]) = 0
  BY <1>0 DEF route, Slot
<1>3. CASE req' = [req EXCEPT ![r] = [arrived EXCEPT !.pc = "limit"]]
  <2> DEFINE new == [arrived EXCEPT !.pc = "limit"]
  <2>0. arrived \in Request /\ "limit" \in Stages
    BY <1>1 DEF Fields, Stages
  <2> HIDE DEF arrived
  <2>1. Fields(new, "limit", name, arrived.budget, arrived.since, arrived.life, 0, 1, 0)
    BY <1>1, <2>0, PcFields DEF Fields
  <2> HIDE DEF new
  <2>2. Sound(new) /\ Slot(new) = 0
    BY <2>1 DEF Fields, Sound, Attempts, OneTry, Lifetime, Slot
  <2> QED
    BY <1>0, <1>2, <1>3, <2>2, PlainMove DEF new
<1>4. ASSUME NEW status \in Statuses,
             req' = [req EXCEPT ![r] = [arrived EXCEPT !.pc = "done", !.status = status]]
      PROVE  EdgeInv'
  <2> DEFINE new == [arrived EXCEPT !.pc = "done", !.status = status]
  <2>0. arrived \in Request
    BY <1>1 DEF Fields
  <2> HIDE DEF arrived
  <2>1. Fields(new, "done", name, arrived.budget, arrived.since, arrived.life, 0, 1, 0)
    BY <1>1, <2>0, RefusedFields DEF Fields
  <2> HIDE DEF new
  <2>2. Sound(new) /\ Slot(new) = 0
    BY <2>1 DEF Fields, Sound, Attempts, OneTry, Lifetime, Slot
  <2> QED
    BY <1>0, <1>2, <1>4, <2>2, PlainMove DEF new
<1>5. /\ \A p : validateRequest(p) \subseteq Statuses /\ Authorize(p) \subseteq Statuses
      /\ {404, 405} \subseteq Statuses
  <2>1. {404, 405} \subseteq Statuses
    BY DEF Statuses
  <2> QED
    BY <2>1, ErrorStatuses DEF validateRequest, Authorize
<1>6. \/ req' = [req EXCEPT ![r] = [arrived EXCEPT !.pc = "limit"]]
      \/ \E status \in {404, 405} \cup validateRequest(DefaultPolicies[name])
                        \cup Authorize(DefaultPolicies[name]) :
           req' = [req EXCEPT ![r] = [arrived EXCEPT !.pc = "done", !.status = status]]
  BY DEF route
<1> HIDE DEF arrived
<1>7. {404, 405} \cup validateRequest(DefaultPolicies[name])
        \cup Authorize(DefaultPolicies[name]) \subseteq Statuses
  BY <1>5
<1> QED
  BY <1>3, <1>4, <1>6, <1>7, ZenonT(60)

LEMMA AllowInv == ASSUME EdgeInv, NEW r \in Requests, Allow(r) PROVE EdgeInv'
<1>0. /\ Sound(req[r]) /\ req[r].pc = "limit" /\ mishaps' \in 0 .. MaxMishaps
      /\ UNCHANGED <<slots, client>>
  BY DEF EdgeInv, EdgeType, Allow
<1>1. CASE Finish(r, mapError.rate_limited) \/ Finish(r, mapError.payload_too_large)
  BY <1>0, <1>1, FinishStep, ErrorStatuses
<1>2. CASE req' = [req EXCEPT ![r].pc = "token", ![r].budget = Timeout]
  <2> DEFINE new == [req[r] EXCEPT !.pc = "token", !.budget = Timeout]
  <2>1. Fields(new, "token", req[r].route, Timeout, req[r].since, req[r].life,
               req[r].attempt, req[r].round, req[r].sent)
    BY <1>0, BudgetFields DEF Sound
  <2>2. req' = [req EXCEPT ![r] = new]
    BY <1>2
  <2> HIDE DEF new
  <2>3. Sound(new) /\ Slot(new) = 0 /\ Slot(req[r]) = 0
    BY <1>0, <2>1 DEF Fields, Sound, Attempts, OneTry, Lifetime, Slot
  <2> QED
    BY <1>0, <2>2, <2>3, PlainMove
<1> QED
  BY <1>1, <1>2 DEF Allow

LEMMA TokenInv == ASSUME EdgeInv, NEW r \in Requests, Token(r) PROVE EdgeInv'
<1>0. /\ Sound(req[r]) /\ req[r].pc = "token" /\ mishaps' \in 0 .. MaxMishaps
      /\ UNCHANGED <<slots, client>> /\ req[r] \in Request
  BY DEF EdgeInv, EdgeType, Token, Sound
<1> DEFINE p == IF cached THEN "slot" ELSE "fetching"
           n == IF cached THEN client.life ELSE 0
           new == [req[r] EXCEPT !.pc = p, !.life = n]
<1>1. p \in Stages /\ n \in 0 .. TokenTTL
  BY DEF EdgeInv, EdgeType, Stages
<1>2. req' = [req EXCEPT ![r] = new]
  BY DEF Token
<1>3. p = "slot" => n > Timeout
  BY MarginAssumption DEF cached, EdgeInv, EdgeType, Belief
<1>4. p \in {"slot", "fetching"}
  OBVIOUS
<1> HIDE DEF p, n
<1>5. Fields(new, p, req[r].route, req[r].budget, req[r].since, n,
             req[r].attempt, req[r].round, req[r].sent)
  BY <1>0, <1>1, LifeFields
<1> HIDE DEF new
<1>6. Sound(new) /\ Slot(new) = 0 /\ Slot(req[r]) = 0
  BY <1>0, <1>1, <1>3, <1>4, <1>5, Numbers
  DEF Fields, Sound, Attempts, OneTry, Lifetime, Slot
<1> QED
  BY <1>0, <1>2, <1>6, PlainMove

LEMMA TokenIssuedInv == ASSUME EdgeInv, NEW r \in Requests, TokenIssued(r) PROVE EdgeInv'
<1>0. /\ Sound(req[r]) /\ req[r].pc = "fetching" /\ mishaps' \in 0 .. MaxMishaps
      /\ UNCHANGED <<slots, client>> /\ req[r] \in Request
  BY DEF EdgeInv, EdgeType, TokenIssued, Sound
<1>1. CASE Finish(r, mapError.dependency)
  BY <1>0, <1>1, FinishStep, ErrorStatuses
<1>2. CASE req' = [req EXCEPT ![r].pc = "issued", ![r].life = TokenTTL, ![r].since = 0]
  <2> DEFINE new == [req[r] EXCEPT !.pc = "issued", !.life = TokenTTL, !.since = 0]
  <2>1. Fields(new, "issued", req[r].route, req[r].budget, 0, TokenTTL,
               req[r].attempt, req[r].round, req[r].sent)
    BY <1>0, IssuedFields
  <2>2. req' = [req EXCEPT ![r] = new]
    BY <1>2
  <2> HIDE DEF new
  <2>3. Sound(new) /\ Slot(new) = 0 /\ Slot(req[r]) = 0
    BY <1>0, <2>1 DEF Fields, Sound, Attempts, OneTry, Lifetime, Slot
  <2> QED
    BY <1>0, <2>2, <2>3, PlainMove
<1> QED
  BY <1>1, <1>2 DEF TokenIssued

LEMMA TokenCachedInv == ASSUME EdgeInv, NEW r \in Requests, TokenCached(r) PROVE EdgeInv'
<1>0. /\ Sound(req[r]) /\ req[r].pc = "issued" /\ mishaps' \in 0 .. MaxMishaps
      /\ UNCHANGED slots /\ req[r] \in Request
  BY DEF EdgeInv, EdgeType, TokenCached, Sound
<1> DEFINE new == [req[r] EXCEPT !.pc = "slot"]
<1>1. Fields(new, "slot", req[r].route, req[r].budget, req[r].since, req[r].life,
             req[r].attempt, req[r].round, req[r].sent)
  BY <1>0, PcFields DEF Stages
<1>2. req' = [req EXCEPT ![r] = new]
  BY DEF TokenCached, Goto
<1> HIDE DEF new
<1>3. Sound(new) /\ Slot(new) = 0 /\ Slot(req[r]) = 0
  BY <1>0, <1>1, Numbers, MarginAssumption, SMTT(30)
  DEF Fields, Sound, Attempts, OneTry, Lifetime, Slot
<1>4. req[r].life \in 0 .. TokenTTL /\ TokenTTL \in 0 .. TokenTTL
      /\ TokenTTL <= req[r].life + FetchTimeout
  BY <1>0, Numbers DEF Sound, Lifetime
<1>5. /\ client' \in [held : BOOLEAN, believed : 0 .. TokenTTL, life : 0 .. TokenTTL]
      /\ Belief'
  BY <1>4 DEF TokenCached, Belief
<1>6. slots' = (slots + Slot(new)) - Slot(req[r]) /\ slots' <= MaxInFlight
  BY <1>0, <1>3 DEF EdgeInv, EdgeType
<1> QED
  BY <1>0, <1>2, <1>3, <1>5, <1>6, Moves

LEMMA RefreshInv == ASSUME EdgeInv, NEW r \in Requests, Refresh(r) PROVE EdgeInv'
<1>0. /\ Sound(req[r]) /\ req[r].pc = "refresh" /\ mishaps' \in 0 .. MaxMishaps
      /\ UNCHANGED slots /\ req[r] \in Request
  BY DEF EdgeInv, EdgeType, Refresh, Sound
<1> DEFINE new == [req[r] EXCEPT !.pc = "token", !.round = 2, !.attempt = 0]
<1>1. Fields(new, "token", req[r].route, req[r].budget, req[r].since, req[r].life,
             0, 2, req[r].sent)
  BY <1>0, RoundFields
<1>2. req' = [req EXCEPT ![r] = new]
  BY DEF Refresh
<1> HIDE DEF new
<1>3. Sound(new) /\ Slot(new) = 0 /\ Slot(req[r]) = 0
  BY <1>0, <1>1, Numbers DEF Fields, Sound, Attempts, OneTry, Lifetime, Slot
<1>4. 0 \in 0 .. TokenTTL
  OBVIOUS
<1>5. /\ client' \in [held : BOOLEAN, believed : 0 .. TokenTTL, life : 0 .. TokenTTL]
      /\ Belief'
  BY <1>4 DEF Refresh, NoToken, Belief
<1>6. slots' = (slots + Slot(new)) - Slot(req[r]) /\ slots' <= MaxInFlight
  BY <1>0, <1>3 DEF EdgeInv, EdgeType
<1> QED
  BY <1>0, <1>2, <1>3, <1>5, <1>6, Moves

LEMMA AcquireSlotInv == ASSUME EdgeInv, NEW r \in Requests, AcquireSlot(r) PROVE EdgeInv'
<1>0. /\ Sound(req[r]) /\ req[r].pc = "slot" /\ mishaps' \in 0 .. MaxMishaps
      /\ UNCHANGED client /\ req[r] \in Request
  BY DEF EdgeInv, EdgeType, AcquireSlot, Sound
<1> DEFINE new == [req[r] EXCEPT !.pc = "send"]
<1>1. Fields(new, "send", req[r].route, req[r].budget, req[r].since, req[r].life,
             req[r].attempt, req[r].round, req[r].sent)
  BY <1>0, PcFields DEF Stages
<1>2. req' = [req EXCEPT ![r] = new]
  BY DEF AcquireSlot, Goto
<1> HIDE DEF new
<1>3. Sound(new) /\ Slot(new) = 1 /\ Slot(req[r]) = 0
  BY <1>0, <1>1, Numbers DEF Fields, Sound, Attempts, OneTry, Lifetime, Slot
<1>4. slots' = (slots + Slot(new)) - Slot(req[r]) /\ slots' <= MaxInFlight
  BY <1>3 DEF EdgeInv, EdgeType, AcquireSlot
<1>5. /\ client' \in [held : BOOLEAN, believed : 0 .. TokenTTL, life : 0 .. TokenTTL]
      /\ Belief'
  BY <1>0 DEF EdgeInv, EdgeType, Belief
<1> QED
  BY <1>0, <1>2, <1>3, <1>4, <1>5, Moves

LEMMA DoInv == ASSUME EdgeInv, NEW r \in Requests, Do(r) PROVE EdgeInv'
<1>0. /\ Sound(req[r]) /\ req[r].pc = "send" /\ mishaps' \in 0 .. MaxMishaps
      /\ UNCHANGED <<slots, client>> /\ req[r] \in Request
  BY DEF EdgeInv, EdgeType, Do, Mishap, Sound
<1>1. PICK status \in Replies : req' = [req EXCEPT ![r] = Transmitted(r, status)]
  <2>0. 200 \in Replies /\ 401 \in Replies /\ 429 \in Replies
    BY DEF Replies
  <2>1. CASE req[r].route = "login"
    BY <2>0, <2>1 DEF Do
  <2>2. CASE req[r].route # "login"
    BY <2>0, <2>2 DEF Do
  <2> QED
    BY <2>1, <2>2
<1> DEFINE new == Transmitted(r, status)
<1>2. req' = [req EXCEPT ![r] = new]
  BY <1>1
<1>3. req[r].sent < 4
  BY <1>0, Numbers DEF Sound, Attempts
<1>4. Fields(new, "reply", req[r].route, req[r].budget, req[r].since, req[r].life,
             req[r].attempt, req[r].round, req[r].sent + 1)
  BY <1>0, <1>3, SentFields DEF Transmitted
<1> HIDE DEF new
<1>5. Sound(new) /\ Slot(new) = 1 /\ Slot(req[r]) = 1
  <2>0. Attempts(req[r]) /\ OneTry(req[r]) /\ Lifetime(req[r]) /\ req[r].route \in Routes
    BY <1>0 DEF Sound
  <2>1. Attempts(new)
    BY <1>0, <1>4, <2>0, Numbers DEF Fields, Attempts
  <2>2. OneTry(new)
    BY <1>0, <1>4, <2>0, Numbers DEF Fields, OneTry, Attempts
  <2>3. Lifetime(new)
    BY <1>0, <1>4, <2>0 DEF Fields, Lifetime
  <2> QED
    BY <1>0, <1>4, <2>0, <2>1, <2>2, <2>3 DEF Fields, Sound, Slot
<1> QED
  BY <1>0, <1>2, <1>5, PlainMove

LEMMA ResponseInv == ASSUME EdgeInv, NEW r \in Requests, Response(r) PROVE EdgeInv'
<1>0. /\ Sound(req[r]) /\ req[r].pc = "reply" /\ mishaps' \in 0 .. MaxMishaps
      /\ UNCHANGED client /\ req[r] \in Request /\ slots' = slots - 1
  BY DEF EdgeInv, EdgeType, Response, ReleaseSlot, Sound
<1>1. CASE Finish(r, req[r].reply)
  <2>1. req[r].reply \in Replies
    BY <1>0 DEF Request
  <2>2. req[r].reply \in Statuses
    BY <2>1 DEF Replies, Statuses
  <2> QED
    BY <1>0, <1>1, <2>2, FinishStep
<1>2. CASE RetriesWithNewToken(r) /\ Goto(r, "refresh")
  <2> DEFINE new == [req[r] EXCEPT !.pc = "refresh"]
  <2>1. Fields(new, "refresh", req[r].route, req[r].budget, req[r].since, req[r].life,
               req[r].attempt, req[r].round, req[r].sent)
    BY <1>0, PcFields DEF Stages
  <2>2. req' = [req EXCEPT ![r] = new]
    BY <1>2 DEF Goto
  <2> HIDE DEF new
  <2>3. req[r].round = 1 /\ ~IsMutation(DefaultPolicies[req[r].route])
    BY <1>0, <1>2, OnlyReadsRetry DEF RetriesWithNewToken, policy, Sound
  <2>4. Sound(new) /\ Slot(new) = 0 /\ Slot(req[r]) = 1
    BY <1>0, <2>1, <2>3, Numbers DEF Fields, Sound, Attempts, OneTry, Lifetime, Slot
  <2>5. slots' = (slots + Slot(new)) - Slot(req[r]) /\ slots' <= MaxInFlight
    BY <1>0, <2>4 DEF EdgeInv, EdgeType
  <2>6. /\ client' \in [held : BOOLEAN, believed : 0 .. TokenTTL, life : 0 .. TokenTTL]
        /\ Belief'
    BY <1>0 DEF EdgeInv, EdgeType, Belief
  <2> QED
    BY <1>0, <2>2, <2>4, <2>5, <2>6, Moves
<1> QED
  BY <1>1, <1>2 DEF Response

LEMMA TransportFailsInv == ASSUME EdgeInv, NEW r \in Requests, TransportFails(r) PROVE EdgeInv'
<1>0. /\ Sound(req[r]) /\ req[r].pc = "reply" /\ mishaps' \in 0 .. MaxMishaps
      /\ UNCHANGED client /\ req[r] \in Request
  BY DEF EdgeInv, EdgeType, TransportFails, Mishap, Sound
<1>1. ASSUME NEW status \in Statuses, Finish(r, status), ReleaseSlot PROVE EdgeInv'
  BY <1>0, <1>1, FinishStep DEF ReleaseSlot
<1>2. CASE /\ RetriesTransport(r) /\ UNCHANGED slots
           /\ req' = [req EXCEPT ![r].pc = "send", ![r].attempt = 1]
  <2> DEFINE new == [req[r] EXCEPT !.pc = "send", !.attempt = 1]
  <2>1. Fields(new, "send", req[r].route, req[r].budget, req[r].since, req[r].life,
               1, req[r].round, req[r].sent)
    BY <1>0, AgainFields
  <2>2. req' = [req EXCEPT ![r] = new]
    BY <1>2
  <2> HIDE DEF new
  <2>3. req[r].attempt = 0 /\ ~IsMutation(DefaultPolicies[req[r].route])
    BY <1>2 DEF RetriesTransport, policy, IsMutation
  <2>4. Sound(new) /\ Slot(new) = 1 /\ Slot(req[r]) = 1
    BY <1>0, <2>1, <2>3, Numbers DEF Fields, Sound, Attempts, OneTry, Lifetime, Slot
  <2> QED
    BY <1>0, <1>2, <2>2, <2>4, PlainMove
<1> QED
  BY <1>1, <1>2, ErrorStatuses DEF TransportFails

LEMMA RefusalsInv ==
  ASSUME EdgeInv, NEW r \in Requests,
         LimiterFails(r) \/ TokenFails(r) \/ SlotTimeout(r) \/ UpstreamTimeout(r)
  PROVE  EdgeInv'
<1>0. UNCHANGED client /\ mishaps' \in 0 .. MaxMishaps
  BY DEF EdgeInv, EdgeType, LimiterFails, TokenFails, SlotTimeout, UpstreamTimeout, Mishap
<1>1. CASE LimiterFails(r)
  BY <1>0, <1>1, FinishStep, ErrorStatuses DEF LimiterFails
<1>2. CASE TokenFails(r)
  BY <1>0, <1>2, FinishStep, ErrorStatuses DEF TokenFails
<1>3. CASE SlotTimeout(r)
  BY <1>0, <1>3, FinishStep, ErrorStatuses DEF SlotTimeout
<1>4. CASE UpstreamTimeout(r)
  BY <1>0, <1>4, FinishStep, ErrorStatuses DEF UpstreamTimeout, ReleaseSlot
<1> QED
  BY <1>1, <1>2, <1>3, <1>4

LEMMA DownIs ==
  ASSUME NEW max \in Nat, NEW n \in 0 .. max
  PROVE  Down(n) \in 0 .. max /\ Down(n) <= n /\ (n > 0 => Down(n) = n - 1)
  BY DEF Down

LEMMA TickEdge == ASSUME EdgeInv, Tick PROVE EdgeInv'
<1>0. /\ req \in [Requests -> Request] /\ UNCHANGED <<slots, mishaps>>
      /\ \A r \in Requests : Sound(req[r]) /\ Waiting(r)
  BY DEF EdgeInv, Tick
<1>1. ASSUME NEW r \in Requests PROVE Sound(req'[r]) /\ req'[r].pc = req[r].pc
  <2>0. Sound(req[r]) /\ Waiting(r) /\ req[r] \in Request
    BY <1>0, <1>1
  <2>1. CASE req[r].pc \in {"idle", "done"}
    BY <1>1, <2>0, <2>1 DEF Tick
  <2>2. CASE req[r].pc \notin {"idle", "done"}
    <3> DEFINE b == req[r].budget - 1
               l == Down(req[r].life)
               s == IF req[r].pc = "issued" THEN req[r].since + 1 ELSE 0
               new == [req[r] EXCEPT !.budget = b, !.life = l, !.since = s]
    <3>1. req'[r] = new
      BY <1>1, <2>2 DEF Tick
    <3>2. /\ req[r].budget > 0 /\ req[r].pc \notin {"send", "refresh", "limit", "token"}
          /\ req[r].pc = "issued" => req[r].since < FetchTimeout
      BY <2>0, <2>2 DEF Waiting
    <3>3. b \in 0 .. Timeout /\ s \in 0 .. FetchTimeout
      BY <2>0, <3>2, Numbers
    <3>4. /\ l \in 0 .. TokenTTL /\ l <= req[r].life
          /\ req[r].life > 0 => l = req[r].life - 1
      <4>1. req[r].life \in 0 .. TokenTTL
        BY <2>0, Numbers
      <4> QED
        BY <4>1, DownIs
    <3>5. /\ b = req[r].budget - 1
          /\ req[r].pc = "issued" => s = req[r].since + 1
      OBVIOUS
    <3> HIDE DEF b, l, s
    <3>6. Fields(new, req[r].pc, req[r].route, b, s, l, req[r].attempt, req[r].round,
                 req[r].sent)
      BY <2>0, <3>3, <3>4, WaitedFields
    <3> HIDE DEF new
    <3>7. Lifetime(new)
      BY <2>0, <3>2, <3>3, <3>4, <3>5, <3>6, Numbers, SMTT(30) DEF Fields, Sound, Lifetime
    <3>8. Attempts(new) /\ OneTry(new)
      BY <2>0, <3>6 DEF Fields, Sound, Attempts, OneTry
    <3> QED
      BY <2>0, <3>1, <3>6, <3>7, <3>8 DEF Fields, Sound
  <2> QED
    BY <2>1, <2>2
<1>2. req' \in [Requests -> Request]
  BY <1>1 DEF Tick, Sound
<1>3. Forwarded' = Forwarded
  BY <1>1 DEF Forwarded
<1>4. /\ Down(client.believed) \in 0 .. TokenTTL /\ Down(client.life) \in 0 .. TokenTTL
      /\ client \in [held : BOOLEAN, believed : 0 .. TokenTTL, life : 0 .. TokenTTL]
  BY DownIs DEF EdgeInv, EdgeType
<1>5. /\ client' \in [held : BOOLEAN, believed : 0 .. TokenTTL, life : 0 .. TokenTTL]
      /\ client'.held = client.held /\ client'.believed = Down(client.believed)
      /\ client'.life = Down(client.life)
  BY <1>4 DEF Tick
<1>6. Belief'
  BY <1>4, <1>5 DEF EdgeInv, Belief, Down
<1> QED
  BY <1>0, <1>1, <1>2, <1>3, <1>5, <1>6 DEF EdgeInv, EdgeType

LEMMA InitEdge == Init => EdgeInv
<1> SUFFICES ASSUME Init PROVE EdgeInv
  OBVIOUS
<1>1. ASSUME NEW r \in Requests PROVE Sound(req[r]) /\ req[r].pc = "idle"
  <2>1. PICK c \in Clients : req[r] = Idle(c)
    BY <1>1 DEF Init
  <2>2. Fields(req[r], "idle", "none", 0, 0, 0, 0, 1, 0)
    BY <2>1, IdleFields
  <2> QED
    BY <2>2 DEF Fields, Sound, Attempts, OneTry, Lifetime
<1>2. req \in [Requests -> Request]
  BY <1>1 DEF Init, Sound
<1>3. Forwarded = {}
  BY <1>1 DEF Forwarded
<1>4. 0 \in 0 .. MaxInFlight /\ 0 \in 0 .. MaxMishaps /\ 0 \in 0 .. TokenTTL
  OBVIOUS
<1>5. EdgeType /\ Belief
  BY <1>4 DEF Init, NoToken, EdgeType, Belief
<1> QED
  BY <1>1, <1>2, <1>3, <1>5, FS_EmptySet DEF Init, EdgeInv

-------------------------------------------------------------------------------
(* The limiters: nothing is let through that was not counted.              *)

Counted ==
  /\ \A k \in LimitKeys : /\ admitted.gateway[k].window <= hits[k].window
                          /\ admitted.gateway[k].burst <= hits[k].burst
  /\ \A d \in Dimensions : admitted.identity[d] <= rates[d].count

LimitInv == LimitTypeOK /\ Counted /\ AdmittedWithinLimits /\ CountersExpire

LEMMA Maxima ==
  /\ \A k \in LimitKeys : classes[k[2]].limit \in Nat /\ classes[k[2]].burst \in Nat
  /\ \A d \in Dimensions : /\ limits[d].max \in Nat
                           /\ limits[d].window \in Nat /\ limits[d].window > 0
  BY LimitAssumption DEF LimitKeys, Dimensions

LEMMA InitLimit == LimitInit => LimitInv
  BY Maxima, LimitAssumption
  DEF LimitInit, LimitInv, LimitTypeOK, Counted, AdmittedWithinLimits, CountersExpire

LEMMA allowScriptInv ==
  ASSUME LimitInv, NEW k \in LimitKeys, allowScript(k) PROVE LimitInv'
<1> DEFINE Pair == [window : Nat, burst : Nat]
<1>0. /\ hits[k] \in Pair /\ admitted.gateway[k] \in Pair
      /\ admitted.gateway \in [LimitKeys -> Pair] /\ hits \in [LimitKeys -> Pair]
      /\ UNCHANGED <<clock, rates>>
  BY DEF LimitInv, LimitTypeOK, allowScript
<1>1. ASSUME NEW n \in Pair
      PROVE  /\ Incremented(n) \in Pair
             /\ Incremented(n).window = n.window + 1 /\ Incremented(n).burst = n.burst + 1
  BY DEF Incremented
<1>2. /\ hits' \in [LimitKeys -> Pair] /\ hits'[k] = Incremented(hits[k])
      /\ \A j \in LimitKeys \ {k} : hits'[j] = hits[j]
  BY <1>0, <1>1 DEF allowScript
<1>3. /\ admitted'.gateway \in [LimitKeys -> Pair]
      /\ admitted' \in [gateway : [LimitKeys -> Pair], identity : [Dimensions -> Nat]]
      /\ admitted'.identity = admitted.identity
      /\ \A j \in LimitKeys \ {k} : admitted'.gateway[j] = admitted.gateway[j]
      /\ admitted'.gateway[k] = IF allows(k) THEN Incremented(admitted.gateway[k])
                                            ELSE admitted.gateway[k]
  BY <1>0, <1>1 DEF allowScript, LimitInv, LimitTypeOK
<1>4. allows(k) => /\ Incremented(hits[k]).window <= classes[k[2]].limit
                   /\ Incremented(hits[k]).burst <= classes[k[2]].burst
  BY DEF allows
<1> HIDE DEF Pair
<1>5. LimitTypeOK' /\ CountersExpire'
  BY <1>0, <1>2, <1>3 DEF LimitInv, LimitTypeOK, CountersExpire, Pair
<1>6. /\ admitted'.gateway[k].window <= hits'[k].window
      /\ admitted'.gateway[k].burst <= hits'[k].burst
      /\ admitted'.gateway[k].window <= classes[k[2]].limit
      /\ admitted'.gateway[k].burst <= classes[k[2]].burst
  <2>1. /\ admitted.gateway[k].window <= hits[k].window
        /\ admitted.gateway[k].burst <= hits[k].burst
        /\ admitted.gateway[k].window <= classes[k[2]].limit
        /\ admitted.gateway[k].burst <= classes[k[2]].burst
    BY DEF LimitInv, Counted, AdmittedWithinLimits
  <2>2. /\ hits[k].window \in Nat /\ hits[k].burst \in Nat
        /\ admitted.gateway[k].window \in Nat /\ admitted.gateway[k].burst \in Nat
    BY <1>0 DEF Pair
  <2> QED
    BY <1>0, <1>1, <1>2, <1>3, <1>4, <2>1, <2>2, Maxima, SMTT(30)
<1>7. Counted' /\ AdmittedWithinLimits'
  BY <1>0, <1>2, <1>3, <1>6 DEF LimitInv, Counted, AdmittedWithinLimits
<1> QED
  BY <1>5, <1>7 DEF LimitInv

LEMMA allowManyScriptInv ==
  ASSUME LimitInv, NEW dims \in SUBSET Dimensions, allowManyScript(dims) PROVE LimitInv'
<1>0. /\ UNCHANGED <<clock, hits>> /\ admitted.identity \in [Dimensions -> Nat]
      /\ \A d \in Dimensions : rates[d].count \in Nat /\ rates[d].ttl \in Nat
  BY DEF LimitInv, LimitTypeOK, allowManyScript
<1>1. ASSUME NEW d \in Dimensions
      PROVE  Expiry(d) \in Nat /\ (d \in dims => Expiry(d) > 0)
  BY <1>0, <1>1, Maxima DEF Expiry, LimitInv, CountersExpire
<1>2. /\ rates' \in [Dimensions -> [count : Nat, ttl : Nat]]
      /\ \A d \in dims : rates'[d].count = rates[d].count + 1 /\ rates'[d].ttl = Expiry(d)
      /\ \A d \in Dimensions \ dims : rates'[d] = rates[d]
  BY <1>0, <1>1 DEF allowManyScript, LimitInv, LimitTypeOK
<1>3. /\ admitted' \in [gateway : [LimitKeys -> [window : Nat, burst : Nat]],
                        identity : [Dimensions -> Nat]]
      /\ admitted'.gateway = admitted.gateway
      /\ \A d \in Dimensions : admitted'.identity[d] =
           IF d \in dims /\ allowsMany(dims) THEN admitted.identity[d] + 1
                                            ELSE admitted.identity[d]
  <2> DEFINE more == [d \in Dimensions |->
                       admitted.identity[d] + (IF d \in dims THEN 1 ELSE 0)]
  <2>1. /\ more \in [Dimensions -> Nat]
        /\ \A d \in Dimensions : more[d] = IF d \in dims THEN admitted.identity[d] + 1
                                                         ELSE admitted.identity[d]
    BY <1>0
  <2>2. admitted' = IF allowsMany(dims) THEN [admitted EXCEPT !.identity = more] ELSE admitted
    BY DEF allowManyScript
  <2> HIDE DEF more
  <2> QED
    BY <1>0, <2>1, <2>2 DEF LimitInv, LimitTypeOK
<1>4. allowsMany(dims) => \A d \in dims : rates[d].count + 1 <= limits[d].max
  BY DEF allowsMany
<1>5. LimitTypeOK' /\ CountersExpire'
  BY <1>0, <1>1, <1>2, <1>3 DEF LimitInv, LimitTypeOK, CountersExpire
<1>6. Counted' /\ AdmittedWithinLimits'
  BY <1>0, <1>2, <1>3, <1>4, Maxima, SMTT(30) DEF LimitInv, Counted, AdmittedWithinLimits
<1> QED
  BY <1>5, <1>6 DEF LimitInv

LEMMA LimitTickInv == ASSUME LimitInv, LimitTick PROVE LimitInv'
<1> DEFINE Pair == [window : Nat, burst : Nat]
<1>0. /\ hits \in [LimitKeys -> Pair] /\ admitted.gateway \in [LimitKeys -> Pair]
      /\ admitted.identity \in [Dimensions -> Nat] /\ clock \in 0 .. Window - 1
      /\ \A d \in Dimensions : /\ rates[d] \in [count : Nat, ttl : Nat]
                               /\ rates[d].count \in Nat /\ rates[d].ttl \in Nat
  BY DEF LimitInv, LimitTypeOK
<1>1. clock' \in 0 .. Window - 1
  BY <1>0, LimitAssumption DEF LimitTick
<1>2. ASSUME NEW n \in Pair, NEW m \in Pair, n.window <= m.window, n.burst <= m.burst
      PROVE  /\ Rollover(n) \in Pair
             /\ Rollover(n).window <= Rollover(m).window
             /\ Rollover(n).burst <= Rollover(m).burst
             /\ Rollover(n).window <= n.window /\ Rollover(n).burst <= n.burst
  BY <1>2 DEF Rollover
<1>3. /\ hits' \in [LimitKeys -> Pair] /\ admitted'.gateway \in [LimitKeys -> Pair]
      /\ \A k \in LimitKeys : /\ hits'[k] = Rollover(hits[k])
                              /\ admitted'.gateway[k] = Rollover(admitted.gateway[k])
  <2>1. \A n \in Pair : Rollover(n) \in Pair
    BY DEF Rollover
  <2> HIDE DEF Pair
  <2> QED
    BY <1>0, <2>1 DEF LimitTick
<1>4. ASSUME NEW n \in [count : Nat, ttl : Nat], n.count > 0 => n.ttl > 0
      PROVE  /\ Aged(n) \in [count : Nat, ttl : Nat]
             /\ Aged(n).count > 0 => Aged(n).ttl > 0
             /\ n.ttl > 1 => Aged(n).count = n.count
  BY <1>4 DEF Aged
<1>5. \A d \in Dimensions : /\ rates'[d] \in [count : Nat, ttl : Nat]
                            /\ rates'[d].count \in Nat
                            /\ rates'[d].count > 0 => rates'[d].ttl > 0
                            /\ rates[d].ttl > 1 => rates'[d].count = rates[d].count
  <2>1. \A d \in Dimensions : rates'[d] = Aged(rates[d])
    BY DEF LimitTick
  <2>2. \A d \in Dimensions : rates[d].count > 0 => rates[d].ttl > 0
    BY DEF LimitInv, CountersExpire
  <2> QED
    BY <1>0, <1>4, <2>1, <2>2
<1>6. /\ admitted' \in [gateway : [LimitKeys -> Pair], identity : [Dimensions -> Nat]]
      /\ \A d \in Dimensions : admitted'.identity[d] =
           IF rates[d].ttl <= 1 THEN 0 ELSE admitted.identity[d]
  BY <1>0, <1>3 DEF LimitTick
<1>7. rates' \in [Dimensions -> [count : Nat, ttl : Nat]]
  BY <1>5 DEF LimitTick
<1>8. LimitTypeOK' /\ CountersExpire'
  BY <1>1, <1>3, <1>5, <1>6, <1>7 DEF LimitTypeOK, CountersExpire
<1>9. \A k \in LimitKeys :
        /\ admitted'.gateway[k].window <= hits'[k].window
        /\ admitted'.gateway[k].burst <= hits'[k].burst
        /\ admitted'.gateway[k].window <= classes[k[2]].limit
        /\ admitted'.gateway[k].burst <= classes[k[2]].burst
  <2> SUFFICES ASSUME NEW k \in LimitKeys
               PROVE  /\ admitted'.gateway[k].window <= hits'[k].window
                      /\ admitted'.gateway[k].burst <= hits'[k].burst
                      /\ admitted'.gateway[k].window <= classes[k[2]].limit
                      /\ admitted'.gateway[k].burst <= classes[k[2]].burst
    OBVIOUS
  <2>1. /\ admitted.gateway[k] \in Pair /\ hits[k] \in Pair
        /\ admitted.gateway[k].window <= hits[k].window
        /\ admitted.gateway[k].burst <= hits[k].burst
        /\ admitted.gateway[k].window <= classes[k[2]].limit
        /\ admitted.gateway[k].burst <= classes[k[2]].burst
    BY <1>0 DEF LimitInv, Counted, AdmittedWithinLimits
  <2> QED
    BY <1>2, <1>3, <2>1, Maxima
<1>10. \A d \in Dimensions : /\ admitted'.identity[d] <= rates'[d].count
                            /\ admitted'.identity[d] <= limits[d].max
  BY <1>0, <1>5, <1>6, Maxima DEF LimitInv, Counted, AdmittedWithinLimits
<1> QED
  BY <1>8, <1>9, <1>10 DEF LimitInv, Counted, AdmittedWithinLimits

-------------------------------------------------------------------------------
LEMMA NextInv == EdgeInv /\ LimitInv /\ [Next]_vars => EdgeInv' /\ LimitInv'
<1> SUFFICES ASSUME EdgeInv, LimitInv, [Next]_vars PROVE EdgeInv' /\ LimitInv'
  OBVIOUS
<1>1. UNCHANGED limitVars => LimitInv'
  BY DEF limitVars, LimitInv, LimitTypeOK, Counted, AdmittedWithinLimits, CountersExpire
<1>2. ASSUME NEW r \in Requests, Arrive(r) \/ LocalStep(r) \/ Answer(r)
      PROVE  EdgeInv'
  BY <1>2, routeInv, AllowInv, TokenInv, TokenIssuedInv, TokenCachedInv, RefreshInv,
     AcquireSlotInv, DoInv, ResponseInv, TransportFailsInv, RefusalsInv
  DEF Arrive, LocalStep, Answer
<1>3. ASSUME NEW r \in Requests, Arrive(r) \/ LocalStep(r) \/ Answer(r)
      PROVE  LimitInv'
  <2>1. CASE Allow(r)
    <3>1. req[r].route \in Routes /\ req[r].client \in Clients
      BY <1>3, <2>1 DEF Allow, EdgeInv, Sound, Request
    <3>2. limitKey(r) \in LimitKeys
      BY <3>1, RouteAssumption DEF limitKey, policy, LimitKeys
    <3> QED
      BY <2>1, <3>2, allowScriptInv DEF Allow
  <2>2. ASSUME NEW what, allowManyScript(allowDimensions(what)) PROVE LimitInv'
    BY <2>2, allowManyScriptInv DEF allowDimensions
  <2>3. CASE TokenIssued(r)
    BY <2>2, <2>3 DEF TokenIssued
  <2>4. CASE Do(r)
    BY <1>1, <2>2, <2>4 DEF Do
  <2>5. CASE ~(Allow(r) \/ TokenIssued(r) \/ Do(r))
    BY <1>1, <1>3, <2>5
    DEF Arrive, LocalStep, Answer, route, Token, TokenCached, Refresh, AcquireSlot,
        SlotTimeout, UpstreamTimeout, TokenFails, Response, TransportFails, LimiterFails
  <2> QED
    BY <2>1, <2>3, <2>4, <2>5
<1>4. CASE Tick
  BY <1>4, TickEdge, LimitTickInv DEF Tick
<1>5. CASE UNCHANGED vars
  BY <1>1, <1>5 DEF vars, EdgeInv, Forwarded, EdgeType, Belief
<1> QED
  BY <1>2, <1>3, <1>4, <1>5 DEF Next

LEMMA InitInv == Init => EdgeInv /\ LimitInv
  BY InitEdge, InitLimit DEF Init

(* Every behaviour keeps the types: no more slots are taken than there are.*)
THEOREM EdgeTypes == Spec => []TypeOK
<1>1. EdgeInv /\ LimitInv => TypeOK
  BY DEF EdgeInv, EdgeType, LimitInv, TypeOK
<1> QED
  BY <1>1, InitInv, NextInv, PTL DEF Spec

(* No service token is transmitted after its expiry, if the margin covers  *)
(* the timeout of a fetch and the deadline of a request.                   *)
THEOREM TokensAreLive == Spec => []SentTokensAreLive
<1>1. EdgeInv => SentTokensAreLive
  BY Numbers DEF EdgeInv, Sound, Lifetime, SentTokensAreLive
<1> QED
  BY <1>1, InitInv, NextInv, PTL DEF Spec

(* No mutation is transmitted twice, for any number of failures.           *)
THEOREM NoMutationTwice == Spec => []MutationsSentOnce
<1>1. EdgeInv => MutationsSentOnce
  BY Numbers DEF EdgeInv, Sound, OneTry, MutationsSentOnce, policy
<1> QED
  BY <1>1, InitInv, NextInv, PTL DEF Spec

(* No slot of the upstream client leaks, for any number of slots.          *)
THEOREM NoSlotLeaks == Spec => []SlotsAccounted
<1>1. EdgeInv => SlotsAccounted
  BY DEF EdgeInv, Forwarded, SlotsAccounted
<1> QED
  BY <1>1, InitInv, NextInv, PTL DEF Spec

(* Neither limiter lets more through than its limits, for any limits.      *)
THEOREM LimitsHold == Spec => []AdmittedWithinLimits
<1>1. LimitInv => AdmittedWithinLimits
  BY DEF LimitInv
<1> QED
  BY <1>1, InitInv, NextInv, PTL DEF Spec

(* No counter of Identity's limiter is left without a time to live.        *)
THEOREM CountersDie == Spec => []CountersExpire
<1>1. LimitInv => CountersExpire
  BY DEF LimitInv
<1> QED
  BY <1>1, InitInv, NextInv, PTL DEF Spec
===============================================================================

------------------------------ MODULE GatewayEdge ------------------------------
(***************************************************************************)
(* A request through the Gateway: route policy, authorization, rate limit, *)
(* service token, a slot of the upstream client, at most two attempts, and *)
(* for reads one more round with a new token after a 401; with Identity's  *)
(* limiter behind it.  Verification of the bearer token is KeyCache.       *)
(*                                                                         *)
(* Code between two waits takes no tick: Tick happens when every request is*)
(* waiting for a response or for a slot, or has reached its deadline.      *)
(***************************************************************************)
EXTENDS RateLimit

CONSTANTS Requests,
          Routes,         \* the routes requests are made for
          MaxInFlight,    \* slots of the upstream client; 128 in the code
          Timeout,        \* ticks of a policy's timeout; 5 or 10 seconds
          FetchTimeout,   \* ticks of the identity client's timeout; 5 seconds
          Margin,         \* ticks a cached token must have left; 30 seconds
          TokenTTL,       \* ticks a service token lives; expires_in
          MaxMishaps      \* bound on failures of Redis, network and upstreams

ASSUME EdgeAssumption ==
  /\ MaxInFlight \in Nat \ {0} /\ MaxMishaps \in Nat
  /\ Timeout \in Nat /\ FetchTimeout \in Nat /\ Margin \in Nat /\ TokenTTL \in Nat
  /\ IsFiniteSet(Requests)

(* The numbers in the code: 30 >= 5 + 10 and 300 > 5 + 10 seconds.         *)
ASSUME MarginAssumption ==
  Margin >= FetchTimeout + Timeout /\ TokenTTL > FetchTimeout + Timeout

VARIABLES req, slots, client, mishaps

vars == <<limitVars, req, slots, client, mishaps>>

(* client: the cached token, the time until expiresAt as the client has    *)
(* computed it, and the time until the token expires at its issuer.        *)
NoToken == [held |-> FALSE, believed |-> 0, life |-> 0]

Stages == {"idle", "limit", "token", "fetching", "issued", "slot", "send", "reply",
           "refresh", "done"}

Replies == {0, 200, 401, 429}

Statuses == {0, 200, 400, 401, 403, 404, 405, 413, 415, 429, 502, 503, 504}

(* budget: until the policy's deadline.  since: since the token answer was *)
(* sent.  life: of the token the request holds.  sent: transmissions.      *)
Request ==
  [pc : Stages, route : Routes \cup {"none"}, client : Clients,
   body : {"ok", "too_large"}, budget : 0 .. Timeout, since : 0 .. FetchTimeout,
   life : 0 .. TokenTTL, attempt : 0 .. 1, round : 1 .. 2, sent : 0 .. 4,
   reply : Replies, status : Statuses]

(* Counters, requests and the cached token are of their types, and no more *)
(* slots are taken than the semaphore of the upstream client has.          *)
TypeOK ==
  /\ LimitTypeOK
  /\ req \in [Requests -> Request]
  /\ slots \in 0 .. MaxInFlight
  /\ client \in [held : BOOLEAN, believed : 0 .. TokenTTL, life : 0 .. TokenTTL]
  /\ mishaps \in 0 .. MaxMishaps

Idle(c) == [pc |-> "idle", route |-> "none", client |-> c, body |-> "ok",
            budget |-> 0, since |-> 0, life |-> 0, attempt |-> 0, round |-> 1,
            sent |-> 0, reply |-> 0, status |-> 0]

Init ==
  /\ LimitInit
  /\ req \in [Requests -> {Idle(c) : c \in Clients}]
  /\ slots = 0 /\ client = NoToken /\ mishaps = 0

Mishap == mishaps < MaxMishaps /\ mishaps' = mishaps + 1

Goto(r, pc) == req' = [req EXCEPT ![r].pc = pc]

Finish(r, status) ==
  req' = [req EXCEPT ![r] =
    [Idle(req[r].client) EXCEPT !.pc = "done", !.status = status,
                                !.route = req[r].route, !.sent = req[r].sent]]

-------------------------------------------------------------------------------
(* Policies.                                                               *)

Policy(method, owner, auth, class, retry) ==
  [method |-> method, owner |-> owner, auth |-> auth, class |-> class, retry |-> retry]

DefaultPolicies ==
  [route \in {"register", "login", "refresh", "reset_request", "reset_confirm",
              "confirm_email", "logout", "logout_all", "sessions", "create_order",
              "list_orders", "get_order", "cancel_order"} |->
     CASE route = "register" -> Policy("POST", "identity", "none", "demo-registration", FALSE)
       [] route \in {"login", "refresh", "reset_request", "reset_confirm", "confirm_email"} ->
            Policy("POST", "identity", "none", "auth-write", FALSE)
       [] route \in {"logout", "logout_all"} ->
            Policy("POST", "identity", "bearer", "auth-write", FALSE)
       [] route = "sessions" -> Policy("GET", "identity", "bearer", "authenticated-read", TRUE)
       [] route \in {"list_orders", "get_order"} ->
            Policy("GET", "orders", "bearer", "order-read", TRUE)
       [] route \in {"create_order", "cancel_order"} ->
            Policy("POST", "orders", "bearer", "order-write", FALSE)]

(* Every route has a policy, and every policy a class of the limiter.      *)
ASSUME RouteAssumption ==
  \A name \in Routes : /\ name \in DOMAIN DefaultPolicies
                       /\ DefaultPolicies[name].class \in DOMAIN classes

policy(r) == DefaultPolicies[req[r].route]

IsMutation(p) == p.method = "POST"

limitKey(r) == <<req[r].client, policy(r).class>>

mapError ==
  [unauthorized |-> 401, forbidden |-> 403, rate_limited |-> 429, dependency |-> 503,
   upstream_timeout |-> 504, upstream_unavailable |-> 503, upstream_response |-> 502,
   payload_too_large |-> 413, unsupported_media |-> 415, bad_request |-> 400]

(* validateRequest, as far as it depends on the policy: 413 for a declared *)
(* length, 415 where JSON is required, 400 for an idempotency key or query.*)
validateRequest(p) ==
  {mapError.payload_too_large, mapError.bad_request} \cup
  (IF p.method = "POST" /\ p.auth = "none" THEN {mapError.unsupported_media} ELSE {})

(* What Authorize answers before it asks the limiter: 401 for no or an     *)
(* invalid bearer token, 403 for one without a scope of the policy.        *)
Authorize(p) == IF p.auth = "none" THEN {} ELSE {mapError.unauthorized, mapError.forbidden}

(* A request arrives; it is refused, or goes on to the limiter.            *)
route(r, name, body) ==
  /\ req[r].pc = "idle"
  /\ LET p == DefaultPolicies[name]
         arrived == [req[r] EXCEPT !.route = name, !.body = body]
     IN \/ req' = [req EXCEPT ![r] = [arrived EXCEPT !.pc = "limit"]]
        \/ /\ body = "ok"
           /\ \E status \in {404, 405} \cup validateRequest(p) \cup Authorize(p) :
                req' = [req EXCEPT ![r] =
                  [arrived EXCEPT !.pc = "done", !.status = status]]
  /\ UNCHANGED <<limitVars, slots, client, mishaps>>

(* The body is read after the limiter has counted the request.             *)
Allow(r) ==
  /\ req[r].pc = "limit"
  /\ allowScript(limitKey(r))
  /\ IF ~allows(limitKey(r)) THEN Finish(r, mapError.rate_limited)
     ELSE IF req[r].body = "too_large" THEN Finish(r, mapError.payload_too_large)
     ELSE req' = [req EXCEPT ![r].pc = "token", ![r].budget = Timeout]
  /\ UNCHANGED <<slots, client, mishaps>>

(* The limiter fails closed.                                               *)
LimiterFails(r) ==
  /\ req[r].pc = "limit"
  /\ Mishap
  /\ Finish(r, mapError.dependency)
  /\ UNCHANGED <<limitVars, slots, client>>

-------------------------------------------------------------------------------
(* Mutant: a context without the deadline of the policy.                   *)
NeverExpires(r) == FALSE

Expired(r) == req[r].budget = 0

(* The service token.  Nobody waits for the fetch of another.              *)

(* Mutant: a cached token is used to its end.                              *)
cachedToTheEnd == client.held /\ client.believed > 0

cached == client.held /\ client.believed > Margin

Token(r) ==
  /\ req[r].pc = "token"
  /\ req' = [req EXCEPT ![r].pc = IF cached THEN "slot" ELSE "fetching",
                        ![r].life = IF cached THEN client.life ELSE 0]
  /\ UNCHANGED <<limitVars, slots, client, mishaps>>

(* Identity answers the request for a token, within its own rate limits.   *)
TokenIssued(r) ==
  /\ req[r].pc = "fetching"
  /\ LET dims == allowDimensions("service-token")
     IN /\ allowManyScript(dims)
        /\ IF allowsMany(dims)
             THEN req' = [req EXCEPT ![r].pc = "issued", ![r].life = TokenTTL,
                                     ![r].since = 0]
             ELSE Finish(r, mapError.dependency)
  /\ UNCHANGED <<slots, client, mishaps>>

(* The last answer to arrive is cached, with its time counted from now.    *)
TokenCached(r) ==
  /\ req[r].pc = "issued"
  /\ client' = [held |-> TRUE, believed |-> TokenTTL, life |-> req[r].life]
  /\ Goto(r, "slot")
  /\ UNCHANGED <<limitVars, slots, mishaps>>

TokenFails(r) ==
  /\ req[r].pc \in {"fetching", "issued"}
  /\ \/ Mishap
     \/ Expired(r) /\ UNCHANGED mishaps
  /\ Finish(r, mapError.dependency)
  /\ UNCHANGED <<limitVars, slots, client>>

Refresh(r) ==
  /\ req[r].pc = "refresh"
  /\ client' = NoToken
  /\ req' = [req EXCEPT ![r].pc = "token", ![r].round = 2, ![r].attempt = 0]
  /\ UNCHANGED <<limitVars, slots, mishaps>>

-------------------------------------------------------------------------------
(* The upstream client.                                                    *)

AcquireSlot(r) ==
  /\ req[r].pc = "slot"
  /\ slots < MaxInFlight
  /\ slots' = slots + 1
  /\ Goto(r, "send")
  /\ UNCHANGED <<limitVars, client, mishaps>>

SlotTimeout(r) ==
  /\ req[r].pc = "slot"
  /\ Expired(r)
  /\ Finish(r, mapError.upstream_timeout)
  /\ UNCHANGED <<limitVars, slots, client, mishaps>>

Transmitted(r, status) ==
  [req[r] EXCEPT !.pc = "reply", !.reply = status, !.sent = req[r].sent + 1]

(* The request is transmitted and reaches its owner, which answers: Identity*)
(* counts a login, Orders refuses a service token that has expired.        *)
Do(r) ==
  /\ req[r].pc = "send"
  /\ LET answer(status) == req' = [req EXCEPT ![r] = Transmitted(r, status)]
         dims == allowDimensions("login")
     IN \/ /\ req[r].route = "login"
           /\ allowManyScript(dims)
           /\ answer(IF allowsMany(dims) THEN 200 ELSE 429)
           /\ UNCHANGED mishaps
        \/ /\ req[r].route # "login"
           /\ answer(IF req[r].life > 0 THEN 200 ELSE 401)
           /\ UNCHANGED <<limitVars, mishaps>>
        \/ /\ req[r].route # "login"
           /\ Mishap /\ answer(401)
           /\ UNCHANGED limitVars
  /\ UNCHANGED <<slots, client>>

(* Mutant: an early return without the deferred release.                   *)
ReleaseNothing == UNCHANGED slots

ReleaseSlot == slots' = slots - 1

RetriesWithNewToken(r) == req[r].reply = 401 /\ req[r].round = 1 /\ policy(r).retry

Response(r) ==
  /\ req[r].pc = "reply"
  /\ ReleaseSlot
  /\ IF RetriesWithNewToken(r) THEN Goto(r, "refresh") ELSE Finish(r, req[r].reply)
  /\ UNCHANGED <<limitVars, client, mishaps>>

(* Mutant: every method is tried twice.                                    *)
RetriesAnyMethod(r) == req[r].attempt = 0

RetriesTransport(r) == req[r].attempt = 0 /\ policy(r).method = "GET"

(* The connection fails before or after the owner has acted on the request,*)
(* or the response is too large.                                           *)
TransportFails(r) ==
  /\ req[r].pc = "reply"
  /\ Mishap
  /\ \/ /\ RetriesTransport(r)
        /\ req' = [req EXCEPT ![r].pc = "send", ![r].attempt = 1]
        /\ UNCHANGED slots
     \/ /\ ~RetriesTransport(r)
        /\ Finish(r, mapError.upstream_unavailable) /\ ReleaseSlot
     \/ Finish(r, mapError.upstream_response) /\ ReleaseSlot
  /\ UNCHANGED <<limitVars, client>>

UpstreamTimeout(r) ==
  /\ req[r].pc = "reply"
  /\ Expired(r)
  /\ Finish(r, mapError.upstream_timeout) /\ ReleaseSlot
  /\ UNCHANGED <<limitVars, client, mishaps>>

-------------------------------------------------------------------------------
Down(n) == IF n > 0 THEN n - 1 ELSE 0

Waiting(r) ==
  \/ req[r].pc \in {"idle", "done"}
  \/ /\ req[r].budget > 0
     /\ \/ req[r].pc \in {"fetching", "reply"}
        \/ req[r].pc = "issued" /\ req[r].since < FetchTimeout
        \/ req[r].pc = "slot" /\ slots = MaxInFlight

Tick ==
  /\ \A r \in Requests : Waiting(r)
  /\ LimitTick
  /\ client' = [client EXCEPT !.believed = Down(client.believed),
                              !.life = Down(client.life)]
  /\ req' = [r \in Requests |->
       IF req[r].pc \in {"idle", "done"} THEN req[r]
       ELSE [req[r] EXCEPT !.budget = req[r].budget - 1, !.life = Down(req[r].life),
                           !.since = IF req[r].pc = "issued" THEN req[r].since + 1 ELSE 0]]
  /\ UNCHANGED <<slots, mishaps>>

(* What the Gateway does by itself, as opposed to what answers it.         *)
LocalStep(r) ==
  \/ Allow(r) \/ Token(r) \/ TokenCached(r) \/ Refresh(r) \/ AcquireSlot(r)
  \/ SlotTimeout(r) \/ Do(r) \/ UpstreamTimeout(r) \/ TokenFails(r)

Answer(r) == TokenIssued(r) \/ Response(r) \/ TransportFails(r) \/ LimiterFails(r)

Arrive(r) == \E name \in Routes, body \in {"ok", "too_large"} : route(r, name, body)

Next == Tick \/ \E r \in Requests : Arrive(r) \/ LocalStep(r) \/ Answer(r)

(* Goroutines run and time passes; nobody else has to answer.              *)
Fairness == WF_vars(Tick) /\ \A r \in Requests : WF_vars(LocalStep(r))

Spec == Init /\ [][Next]_vars /\ Fairness

-------------------------------------------------------------------------------
(* Every slot belongs to a request that is being forwarded: none leaks on  *)
(* an error, a timeout or a retry, and none is released twice.             *)
SlotsAccounted ==
  slots = Cardinality({r \in Requests : req[r].pc \in {"send", "reply"}})

(* A mutation is transmitted at most once, whatever fails; a read at most  *)
(* twice in each of two rounds.                                            *)
MutationsSentOnce ==
  \A r \in Requests : req[r].route # "none" =>
    req[r].sent <= IF IsMutation(policy(r)) THEN 1 ELSE 4

(* A service token is never transmitted after its expiry, although the     *)
(* client counts from the answer and waits for a slot: the margin covers   *)
(* both.                                                                   *)
SentTokensAreLive ==
  \A r \in Requests : req[r].pc = "send" => req[r].life > 0

(* Every request is answered within its deadline although slots, Identity  *)
(* and upstreams may never answer.                                         *)
EveryRequestAnswered == \A r \in Requests : req[r].pc # "idle" ~> req[r].pc = "done"
===============================================================================

---------------------------- MODULE KeyCacheProofs ----------------------------
(* Theorems about KeyCache, for any keys, any number of requests and any   *)
(* ages and timeouts.                                                      *)
EXTENDS KeyCache, TLAPS

(* What a request knows is at most as old as the response it holds, what   *)
(* the cache knows at most as old as its age and the timeout of a fetch.   *)
PublishedNow == \A k \in signer.publicKeys : retired[k] = 0

ResponseLag ==
  \A r \in Requests : req[r].pc = "fetched" =>
    \A k \in req[r].doc : retired[k] <= req[r].since

CacheLag ==
  cache.age <= MaxStale =>
    \A k \in cache.keys : retired[k] <= cache.age + FetchTimeout

(* Only the Gateway's requests refresh and wait.                           *)
GatewayWaits ==
  \A r \in Requests :
    req[r].pc \in {"refresh", "wait", "woken", "recheck"} => kind = "gateway"

Ages == PublishedNow /\ ResponseLag /\ CacheLag /\ GatewayWaits /\ WithdrawnKeysDie

Inv == TypeOK /\ SingleFlight /\ Ages

USE CacheAssumption

PCs == {"ready", "refresh", "wait", "woken", "fetch", "fetched", "recheck",
        "accepted", "rejected"}

-------------------------------------------------------------------------------
(* The records a request becomes.                                          *)

LEMMA ReadyType == Ready \in Request /\ Ready.pc = "ready"
  BY DEF Ready, Request, MaxLag

(* The fields that a step sets have the values it sets, the rest is kept.  *)
LEMMA WithPc ==
  ASSUME NEW rec \in Request, NEW p \in PCs
  PROVE  LET new == [rec EXCEPT !.pc = p]
         IN new \in Request /\ new.pc = p /\ new.doc = rec.doc /\ new.since = rec.since
  BY DEF Request, PCs

LEMMA WithDoc ==
  ASSUME NEW rec \in Request, NEW d \in SUBSET Keys
  PROVE  LET new == [rec EXCEPT !.pc = "fetched", !.doc = d, !.since = 0]
         IN new \in Request /\ new.pc = "fetched" /\ new.doc = d /\ new.since = 0
<1>1. 0 \in 0 .. FetchTimeout
  OBVIOUS
<1> QED
  BY <1>1, Zenon DEF Request

LEMMA AcceptedType ==
  ASSUME TypeOK, NEW k \in Keys
  PROVE  /\ Accepted(k) \in Request
         /\ Accepted(k).pc = "accepted" /\ Accepted(k).lag = retired[k]
<1>1. ASSUME NEW rec \in Request, NEW n \in 0 .. MaxLag + 1
      PROVE  LET new == [rec EXCEPT !.pc = "accepted", !.kid = k, !.lag = n]
             IN new \in Request /\ new.pc = "accepted" /\ new.lag = n
  BY DEF Request
<1>2. retired[k] \in 0 .. MaxLag + 1
  BY DEF TypeOK
<1> QED
  BY <1>1, <1>2, ReadyType, ZenonT(30) DEF Accepted

LEMMA FailedType ==
  ASSUME TypeOK, NEW r \in Requests
  PROVE  Failed(r) \in Request /\ Failed(r).pc = "rejected"
<1>1. ASSUME NEW rec \in Request, NEW k \in Keys
      PROVE  LET new == [rec EXCEPT !.pc = "rejected", !.kid = k, !.failed = TRUE]
             IN new \in Request /\ new.pc = "rejected"
  BY DEF Request
<1>2. req[r].kid \in Keys
  BY DEF TypeOK, Request
<1> QED
  BY <1>1, <1>2, ReadyType DEF Failed

(* A request on its way to a refresh, to a fetch, to look again, to wait.  *)
LEMMA AskedType ==
  ASSUME NEW k \in Keys, NEW b \in BOOLEAN
  PROVE  LET asked == [Ready EXCEPT !.pc = "refresh", !.kid = k, !.force = b]
         IN asked \in Request /\ asked.pc = "refresh"
<1>1. ASSUME NEW rec \in Request
      PROVE  LET new == [rec EXCEPT !.pc = "refresh", !.kid = k, !.force = b]
             IN new \in Request /\ new.pc = "refresh"
  BY DEF Request
<1> QED
  BY <1>1, ReadyType

LEMMA KidType ==
  ASSUME NEW k \in Keys, NEW p \in PCs
  PROVE  LET new == [Ready EXCEPT !.pc = p, !.kid = k]
         IN new \in Request /\ new.pc = p
<1>1. ASSUME NEW rec \in Request
      PROVE  LET new == [rec EXCEPT !.pc = p, !.kid = k]
             IN new \in Request /\ new.pc = p
  BY DEF Request, PCs
<1> QED
  BY <1>1, ReadyType

LEMMA JoinedType ==
  ASSUME NEW rec \in Request
  PROVE  LET new == [rec EXCEPT !.pc = "wait", !.joined = TRUE]
         IN new \in Request /\ new.pc = "wait"
  BY DEF Request

LEMMA RefusedType ==
  ASSUME NEW k \in Keys, NEW b \in BOOLEAN
  PROVE  LET refused == [Ready EXCEPT !.pc = "rejected", !.kid = k, !.joined = b]
         IN refused \in Request /\ refused.pc = "rejected"
<1>1. ASSUME NEW rec \in Request
      PROVE  LET new == [rec EXCEPT !.pc = "rejected", !.kid = k, !.joined = b]
             IN new \in Request /\ new.pc = "rejected"
  BY DEF Request
<1> QED
  BY <1>1, ReadyType

LEMMA AgesNat == TypeOK => cache.age \in Nat /\ \A k \in Keys : retired[k] \in Nat
<1>1. MaxLag + 1 \in Nat
  BY DEF MaxLag
<1>2. \A n \in 0 .. MaxLag + 1 : n \in Nat
  BY <1>1
<1>3. \A n \in 0 .. MaxStale + 1 : n \in Nat
  OBVIOUS
<1> QED
  BY <1>2, <1>3 DEF TypeOK

LEMMA NextAgesNat == TypeOK' => \A k \in Keys : retired'[k] \in Nat
<1>1. MaxLag + 1 \in Nat
  BY DEF MaxLag
<1>2. \A n \in 0 .. MaxLag + 1 : n \in Nat
  BY <1>1
<1> QED
  BY <1>2 DEF TypeOK

LEMMA InitInv == Init => Inv
<1> SUFFICES ASSUME Init PROVE Inv
  OBVIOUS
<1>1. TypeOK
  <2>1. /\ 0 \in 0 .. MaxLag + 1 /\ 0 \in 0 .. MaxStale + 1 /\ 0 \in 0 .. MaxMishaps
        /\ 1 \in Keys /\ {1} \in SUBSET Keys
    BY DEF MaxLag
  <2> QED
    BY <2>1, ReadyType, Zenon DEF Init, TypeOK
<1>2. \A r \in Requests : req[r].pc = "ready"
  BY ReadyType DEF Init
<1>3. SingleFlight
  BY <1>2 DEF Init, SingleFlight, Leaders
<1>4. Ages
  BY <1>2 DEF Init, Ages, PublishedNow, ResponseLag, CacheLag, GatewayWaits,
              WithdrawnKeysDie
<1> QED
  BY <1>1, <1>3, <1>4 DEF Inv

-------------------------------------------------------------------------------
(* What the steps do to the requests.                                      *)

(* A step of one request that leaves the others alone.                     *)
Becomes(r, p) ==
  \E v \in Request :
    /\ v.pc = p
    /\ req' = [req EXCEPT ![r] = v]

LEMMA VerifyIs ==
  ASSUME TypeOK, NEW r \in Requests, NEW k \in Keys, Verify(r, k)
  PROVE  \/ /\ usable /\ k \in cache.keys
            /\ req' = [req EXCEPT ![r] = Accepted(k)]
         \/ Becomes(r, "refresh")
<1>1. CASE k \in cache.keys /\ usable
  BY <1>1 DEF Verify
<1>2. CASE ~(k \in cache.keys /\ usable)
  <2>1. req' = [req EXCEPT ![r] = [Ready EXCEPT !.pc = "refresh", !.kid = k,
                                               !.force = k \notin cache.keys]]
    BY <1>2 DEF Verify
  <2> QED
    BY <2>1, AskedType DEF Becomes
<1> QED
  BY <1>1, <1>2

LEMMA LookIs ==
  ASSUME TypeOK, NEW r \in Requests, NEW k \in Keys, Look(r, k)
  PROVE  \/ Hit(k) /\ req' = [req EXCEPT ![r] = Accepted(k)]
         \/ Becomes(r, "fetch")
<1>1. CASE Hit(k)
  BY <1>1 DEF Look
<1>2. CASE ~Hit(k)
  <2>1. req' = [req EXCEPT ![r] = [Ready EXCEPT !.pc = "fetch", !.kid = k]]
    BY <1>2 DEF Look
  <2> QED
    BY <2>1, KidType DEF Becomes, PCs
<1> QED
  BY <1>1, <1>2

LEMMA AnswerIs ==
  ASSUME TypeOK, NEW r \in Requests, NEW found \in BOOLEAN, Answer(r, found)
  PROVE  \/ found /\ req' = [req EXCEPT ![r] = Accepted(req[r].kid)]
         \/ Becomes(r, "rejected")
<1>0. req[r].kid \in Keys /\ req[r].joined \in BOOLEAN
  BY DEF TypeOK, Request
<1>1. CASE found
  BY <1>1 DEF Answer
<1>2. CASE ~found
  <2>1. req' = [req EXCEPT ![r] = [Ready EXCEPT !.pc = "rejected", !.kid = req[r].kid,
                                               !.joined = req[r].joined]]
    BY <1>2 DEF Answer
  <2> QED
    BY <1>0, <2>1, RefusedType DEF Becomes
<1> QED
  BY <1>1, <1>2

LEMMA GotoIs ==
  ASSUME TypeOK, NEW r \in Requests, NEW p \in PCs, Goto(r, p)
  PROVE  Becomes(r, p)
<1>1. req' = [req EXCEPT ![r] = [req[r] EXCEPT !.pc = p]]
  BY DEF Goto
<1> QED
  BY <1>1, WithPc DEF Becomes, TypeOK

LEMMA Becoming ==
  ASSUME TypeOK, NEW r \in Requests, NEW p, Becomes(r, p)
  PROVE  /\ req' \in [Requests -> Request]
         /\ req'[r].pc = p
         /\ \A q \in Requests \ {r} : req'[q] = req[q]
  BY DEF Becomes, TypeOK

-------------------------------------------------------------------------------
(* Steps.                                                                  *)

(* A request that neither fetches nor waits moves on.                      *)
LEMMA QuietStep ==
  ASSUME Inv, NEW r \in Requests,
         NEW p \in {"ready", "refresh", "recheck", "rejected"}, Becomes(r, p),
         req[r].pc \notin {"fetch", "fetched"} \/ kind # "gateway",
         p \in {"refresh", "recheck"} => kind = "gateway",
         UNCHANGED <<kind, signer, retired, cache, refreshing>>,
         mishaps' \in 0 .. MaxMishaps
  PROVE  Inv'
<1>0. TypeOK /\ SingleFlight /\ Ages
  BY DEF Inv
<1>1. /\ req' \in [Requests -> Request] /\ req'[r].pc = p
      /\ \A q \in Requests \ {r} : req'[q] = req[q]
  BY <1>0, Becoming
<1>2. TypeOK'
  BY <1>0, <1>1 DEF TypeOK
<1>3. SingleFlight'
  BY <1>0, <1>1, ZenonT(30) DEF SingleFlight, Leaders
<1>4. PublishedNow' /\ CacheLag'
  BY <1>0 DEF Ages, PublishedNow, CacheLag
<1>5. ResponseLag' /\ GatewayWaits'
  BY <1>0, <1>1 DEF Ages, ResponseLag, GatewayWaits
<1>6. WithdrawnKeysDie'
  BY <1>0, <1>1 DEF Ages, WithdrawnKeysDie
<1> QED
  BY <1>2, <1>3, <1>4, <1>5, <1>6 DEF Inv, Ages

(* A request is answered with a key that was withdrawn not long ago.       *)
LEMMA AcceptStep ==
  ASSUME Inv, NEW r \in Requests, NEW k \in Keys,
         req' = [req EXCEPT ![r] = Accepted(k)],
         req[r].pc \notin {"fetch", "fetched"} \/ kind # "gateway",
         retired[k] <= (IF kind = "gateway" THEN MaxStale ELSE RefreshAfter) + FetchTimeout,
         UNCHANGED <<kind, signer, retired, refreshing, mishaps>>,
         cache' \in [keys : SUBSET Keys, age : 0 .. MaxStale + 1], CacheLag'
  PROVE  Inv'
<1>0. TypeOK /\ SingleFlight /\ Ages
  BY DEF Inv
<1>1. /\ req' \in [Requests -> Request] /\ req'[r] = Accepted(k)
      /\ req'[r].pc = "accepted" /\ req'[r].lag = retired[k]
      /\ \A q \in Requests \ {r} : req'[q] = req[q]
  BY <1>0, AcceptedType DEF TypeOK
<1>2. TypeOK'
  BY <1>0, <1>1 DEF TypeOK
<1>3. SingleFlight'
  BY <1>0, <1>1, ZenonT(60) DEF SingleFlight, Leaders
<1>4. PublishedNow'
  BY <1>0 DEF Ages, PublishedNow
<1>5. ResponseLag' /\ GatewayWaits'
  BY <1>0, <1>1 DEF Ages, ResponseLag, GatewayWaits
<1>6. WithdrawnKeysDie'
  BY <1>0, <1>1 DEF Ages, WithdrawnKeysDie
<1> QED
  BY <1>2, <1>3, <1>4, <1>5, <1>6 DEF Inv, Ages

LEMMA ArriveInv == ASSUME Inv, NEW r \in Requests, Arrive(r) PROVE Inv'
<1>0. TypeOK /\ Ages
  BY DEF Inv
<1>1. PICK k \in Keys : Verify(r, k) \/ AuthenticatorKey(r, k) \/ QuoteKey(r, k)
  BY DEF Arrive
<1>2. /\ UNCHANGED <<kind, signer, retired, cache, refreshing, mishaps>>
      /\ req[r].pc = "ready" /\ mishaps \in 0 .. MaxMishaps
  BY <1>0, <1>1 DEF Verify, AuthenticatorKey, QuoteKey, Look, TypeOK
<1>3. cache' \in [keys : SUBSET Keys, age : 0 .. MaxStale + 1] /\ CacheLag'
  BY <1>0, <1>2 DEF TypeOK, Ages, CacheLag
<1>4. cache.age \in Nat /\ retired[k] \in Nat
  BY <1>0, AgesNat
<1>5. CASE Verify(r, k)
  <2>1. CASE usable /\ k \in cache.keys /\ req' = [req EXCEPT ![r] = Accepted(k)]
    <3>1. retired[k] <= MaxStale + FetchTimeout
      BY <1>0, <1>4, <2>1 DEF usable, Ages, CacheLag
    <3> QED
      BY <1>2, <1>3, <1>5, <2>1, <3>1, AcceptStep DEF Verify
  <2>2. CASE Becomes(r, "refresh")
    BY <1>2, <1>5, <2>2, QuietStep DEF Verify
  <2> QED
    BY <1>0, <1>5, <2>1, <2>2, VerifyIs
<1>6. CASE Look(r, k) /\ kind # "gateway"
  <2>1. CASE Hit(k) /\ req' = [req EXCEPT ![r] = Accepted(k)]
    <3>1. retired[k] <= RefreshAfter + FetchTimeout
      BY <1>0, <1>4, <2>1, AgeAssumption DEF Hit, Ages, CacheLag
    <3> QED
      BY <1>2, <1>3, <1>6, <2>1, <3>1, AcceptStep
  <2>2. CASE Becomes(r, "fetch")
    <3>1. /\ req' \in [Requests -> Request] /\ req'[r].pc = "fetch"
          /\ \A q \in Requests \ {r} : req'[q] = req[q]
      BY <1>0, <2>2, Becoming
    <3>2. TypeOK' /\ SingleFlight'
      BY <1>0, <1>2, <1>6, <3>1 DEF TypeOK, SingleFlight
    <3>3. ResponseLag' /\ GatewayWaits' /\ PublishedNow' /\ WithdrawnKeysDie'
      BY <1>0, <1>2, <3>1
      DEF Ages, ResponseLag, GatewayWaits, PublishedNow, WithdrawnKeysDie
    <3> QED
      BY <1>3, <3>2, <3>3 DEF Inv, Ages
  <2> QED
    BY <1>0, <1>6, <2>1, <2>2, LookIs
<1> QED
  BY <1>1, <1>5, <1>6 DEF AuthenticatorKey, QuoteKey

LEMMA refreshInv == ASSUME Inv, NEW r \in Requests, refresh(r) PROVE Inv'
<1>0. TypeOK /\ SingleFlight /\ Ages
  BY DEF Inv
<1>1. /\ UNCHANGED <<kind, signer, retired, cache, mishaps>>
      /\ req[r].pc = "refresh" /\ kind = "gateway" /\ mishaps \in 0 .. MaxMishaps
      /\ req[r] \in Request
  BY <1>0 DEF refresh, Ages, GatewayWaits, TypeOK
<1>2. CASE Goto(r, "recheck") /\ UNCHANGED refreshing
  BY <1>0, <1>1, <1>2, GotoIs, QuietStep DEF PCs
<1>3. CASE /\ refreshing /\ UNCHANGED refreshing
           /\ req' = [req EXCEPT ![r].pc = "wait", ![r].joined = TRUE]
  <2>1. req' = [req EXCEPT ![r] = [req[r] EXCEPT !.pc = "wait", !.joined = TRUE]]
    BY <1>3
  <2>2. Becomes(r, "wait")
    BY <1>1, <2>1, JoinedType DEF Becomes
  <2>3. /\ req' \in [Requests -> Request] /\ req'[r].pc = "wait"
        /\ \A q \in Requests \ {r} : req'[q] = req[q]
    BY <1>0, <2>2, Becoming
  <2>4. TypeOK'
    BY <1>0, <1>1, <1>3, <2>3 DEF TypeOK
  <2>5. SingleFlight'
    BY <1>0, <1>1, <1>3, <2>3, ZenonT(60) DEF SingleFlight, Leaders
  <2>6. Ages'
    BY <1>0, <1>1, <2>3
    DEF Ages, ResponseLag, GatewayWaits, PublishedNow, WithdrawnKeysDie, CacheLag
  <2> QED
    BY <2>4, <2>5, <2>6 DEF Inv
<1>4. CASE ~refreshing /\ refreshing' = TRUE /\ Goto(r, "fetch")
  <2>1. Becomes(r, "fetch")
    BY <1>0, <1>4, GotoIs DEF PCs
  <2>2. /\ req' \in [Requests -> Request] /\ req'[r].pc = "fetch"
        /\ \A q \in Requests \ {r} : req'[q] = req[q]
    BY <1>0, <2>1, Becoming
  <2>3. TypeOK'
    BY <1>0, <1>1, <1>4, <2>2 DEF TypeOK
  <2>4. Leaders = {}
    BY <1>0, <1>1, <1>4 DEF SingleFlight
  <2>5. SingleFlight'
    BY <1>1, <1>4, <2>2, <2>4, ZenonT(30) DEF SingleFlight, Leaders
  <2>6. Ages'
    BY <1>0, <1>1, <2>2
    DEF Ages, ResponseLag, GatewayWaits, PublishedNow, WithdrawnKeysDie, CacheLag
  <2> QED
    BY <2>3, <2>5, <2>6 DEF Inv
<1> QED
  BY <1>2, <1>3, <1>4 DEF refresh

LEMMA FetchInv == ASSUME Inv, NEW r \in Requests, Fetch(r) PROVE Inv'
<1>0. TypeOK /\ SingleFlight /\ Ages
  BY DEF Inv
<1>1. /\ UNCHANGED <<kind, signer, retired, cache, refreshing, mishaps>>
      /\ req[r].pc = "fetch"
  BY DEF Fetch
<1>2. req' = [req EXCEPT ![r] = [req[r] EXCEPT !.pc = "fetched", !.doc = JWKS, !.since = 0]]
  BY DEF Fetch
<1>3. JWKS \in SUBSET Keys /\ req[r] \in Request
  BY <1>0 DEF TypeOK, JWKS
<1>4. /\ req' \in [Requests -> Request]
      /\ req'[r].pc = "fetched" /\ req'[r].doc = JWKS /\ req'[r].since = 0
      /\ \A q \in Requests \ {r} : req'[q] = req[q]
  <2> DEFINE new == [req[r] EXCEPT !.pc = "fetched", !.doc = JWKS, !.since = 0]
  <2>1. /\ new \in Request /\ new.pc = "fetched" /\ new.doc = JWKS /\ new.since = 0
    BY <1>3, WithDoc
  <2>2. req' = [req EXCEPT ![r] = new]
    BY <1>2
  <2> HIDE DEF new
  <2> QED
    BY <1>0, <2>1, <2>2 DEF TypeOK
<1>5. TypeOK'
  BY <1>0, <1>1, <1>4 DEF TypeOK
<1>6. SingleFlight'
  BY <1>0, <1>1, <1>4, ZenonT(30) DEF SingleFlight, Leaders
<1>7. ResponseLag'
  BY <1>0, <1>1, <1>4 DEF Ages, ResponseLag, PublishedNow, JWKS
<1>8. PublishedNow' /\ CacheLag' /\ GatewayWaits' /\ WithdrawnKeysDie'
  BY <1>0, <1>1, <1>4 DEF Ages, GatewayWaits, PublishedNow, WithdrawnKeysDie, CacheLag
<1> QED
  BY <1>5, <1>6, <1>7, <1>8 DEF Inv, Ages

(* The leader ends the refresh and wakes the waiters.                      *)
LEMMA WakeStep ==
  ASSUME Inv, NEW r \in Requests, NEW next \in Request, Wake(r, next),
         next.pc \in {"recheck", "rejected"}, kind = "gateway",
         req[r].pc \in {"fetch", "fetched"}, refreshing' = FALSE,
         UNCHANGED <<kind, signer, retired>>, mishaps' \in 0 .. MaxMishaps,
         cache' \in [keys : SUBSET Keys, age : 0 .. MaxStale + 1], CacheLag'
  PROVE  Inv'
<1>0. TypeOK /\ SingleFlight /\ Ages
  BY DEF Inv
<1>1. \A q \in Requests : req[q].pc = "wait" =>
        /\ [req[q] EXCEPT !.pc = "woken"] \in Request
        /\ [req[q] EXCEPT !.pc = "woken"].pc = "woken"
  <2> SUFFICES ASSUME NEW q \in Requests
               PROVE  /\ [req[q] EXCEPT !.pc = "woken"] \in Request
                      /\ [req[q] EXCEPT !.pc = "woken"].pc = "woken"
    OBVIOUS
  <2>1. req[q] \in Request /\ "woken" \in PCs
    BY <1>0 DEF TypeOK, PCs
  <2> QED
    BY <2>1, WithPc
<1>2. /\ req' \in [Requests -> Request] /\ req'[r] = next
      /\ \A q \in Requests \ {r} :
           IF req[q].pc = "wait" THEN req'[q].pc = "woken" ELSE req'[q] = req[q]
  BY <1>0, <1>1 DEF Wake, TypeOK
<1>3. \A q \in Requests \ {r} : req[q].pc \notin {"fetch", "fetched"}
  BY <1>0 DEF SingleFlight, Leaders
<1>4. TypeOK'
  BY <1>0, <1>2 DEF TypeOK
<1>5. \A q \in Requests : req'[q].pc \notin {"fetch", "fetched", "wait"}
  BY <1>2, <1>3
<1>6. SingleFlight'
  BY <1>5 DEF SingleFlight, Leaders
<1>7. ResponseLag' /\ GatewayWaits'
  BY <1>5 DEF ResponseLag, GatewayWaits
<1>8. PublishedNow'
  BY <1>0 DEF Ages, PublishedNow
<1>9. WithdrawnKeysDie'
  BY <1>0, <1>2 DEF Ages, WithdrawnKeysDie
<1> QED
  BY <1>4, <1>6, <1>7, <1>8, <1>9 DEF Inv, Ages

(* A document that has just arrived becomes the cache.                     *)
LEMMA Loaded ==
  ASSUME Inv, NEW r \in Requests, req[r].pc = "fetched",
         cache' = [keys |-> req[r].doc, age |-> 0], UNCHANGED retired
  PROVE  /\ cache' \in [keys : SUBSET Keys, age : 0 .. MaxStale + 1]
         /\ CacheLag'
         /\ \A k \in req[r].doc : k \in Keys /\ retired[k] <= FetchTimeout
<1>0. /\ req[r].doc \in SUBSET Keys /\ req[r].since \in 0 .. FetchTimeout
      /\ retired \in [Keys -> 0 .. MaxLag + 1]
  BY DEF Inv, TypeOK, Request
<1>1. \A k \in req[r].doc : k \in Keys /\ retired[k] <= req[r].since
  BY <1>0 DEF Inv, Ages, ResponseLag
<1>2. \A k \in req[r].doc : k \in Keys /\ retired[k] <= FetchTimeout
  <2>1. \A k \in req[r].doc : retired[k] \in Nat
    BY <1>1, AgesNat DEF Inv
  <2> QED
    BY <1>0, <1>1, <2>1
<1>3. 0 \in 0 .. MaxStale + 1
  OBVIOUS
<1>4. cache' \in [keys : SUBSET Keys, age : 0 .. MaxStale + 1]
  BY <1>0, <1>3
<1>5. CacheLag'
  BY <1>2 DEF CacheLag
<1> QED
  BY <1>2, <1>4, <1>5

LEMMA refreshEnds ==
  ASSUME Inv, NEW r \in Requests, refreshDone(r) \/ refreshFails(r) PROVE Inv'
<1>0. TypeOK
  BY DEF Inv
<1>1. CASE refreshDone(r)
  <2>1. LET next == [Ready EXCEPT !.pc = "recheck", !.kid = req[r].kid]
        IN next \in Request /\ next.pc = "recheck"
    <3>1. req[r].kid \in Keys
      BY <1>0 DEF TypeOK, Request
    <3> QED
      BY <3>1, KidType DEF PCs
  <2>2. /\ cache' \in [keys : SUBSET Keys, age : 0 .. MaxStale + 1]
        /\ CacheLag'
    BY <1>1, Loaded DEF refreshDone
  <2>3. mishaps' \in 0 .. MaxMishaps
    BY <1>0, <1>1 DEF refreshDone, TypeOK
  <2> QED
    BY <1>1, <2>1, <2>2, <2>3, WakeStep DEF refreshDone
<1>2. CASE refreshFails(r)
  <2>1. Failed(r) \in Request /\ Failed(r).pc = "rejected"
    BY <1>0, FailedType
  <2>2. cache' \in [keys : SUBSET Keys, age : 0 .. MaxStale + 1] /\ CacheLag'
    BY <1>2 DEF refreshFails, Inv, TypeOK, Ages, CacheLag
  <2>3. mishaps' \in 0 .. MaxMishaps
    BY <1>0, <1>2 DEF refreshFails, Mishap, TypeOK
  <2> QED
    BY <1>2, <2>1, <2>2, <2>3, WakeStep DEF refreshFails
<1> QED
  BY <1>1, <1>2

LEMMA QuietSteps ==
  ASSUME Inv, NEW r \in Requests,
         \/ refreshError(r) \/ WaiterCancelled(r) \/ StoreFails(r) \/ Reuse(r)
  PROVE  Inv'
<1>0. TypeOK /\ Ages
  BY DEF Inv
<1>1. CASE refreshError(r)
  <2>1. kind = "gateway" /\ mishaps' \in 0 .. MaxMishaps
    BY <1>0, <1>1 DEF refreshError, Ages, GatewayWaits, TypeOK
  <2>2. Goto(r, "recheck") \/ Goto(r, "rejected")
    BY <1>1 DEF refreshError
  <2>3. Becomes(r, "recheck") \/ Becomes(r, "rejected")
    BY <1>0, <2>2, GotoIs DEF PCs
  <2> QED
    BY <1>1, <2>1, <2>3, QuietStep DEF refreshError
<1>2. CASE WaiterCancelled(r) \/ StoreFails(r)
  <2>1. Becomes(r, "rejected")
    BY <1>0, <1>2, FailedType DEF WaiterCancelled, StoreFails, Fails, Becomes
  <2>2. mishaps' \in 0 .. MaxMishaps
    BY <1>0, <1>2 DEF WaiterCancelled, StoreFails, Mishap, TypeOK
  <2> QED
    BY <1>2, <2>1, <2>2, QuietStep DEF WaiterCancelled, StoreFails
<1>3. CASE Reuse(r)
  <2>1. Becomes(r, "ready")
    BY <1>3, ReadyType DEF Reuse, Becomes
  <2>2. mishaps' \in 0 .. MaxMishaps
    BY <1>0, <1>3 DEF Reuse, TypeOK
  <2> QED
    BY <1>3, <2>1, <2>2, QuietStep DEF Reuse
<1> QED
  BY <1>1, <1>2, <1>3

LEMMA keyInv == ASSUME Inv, NEW r \in Requests, key(r) PROVE Inv'
<1>0. TypeOK /\ Ages
  BY DEF Inv
<1>1. /\ UNCHANGED <<kind, signer, retired, cache, refreshing, mishaps>>
      /\ req[r].pc = "recheck" /\ kind = "gateway" /\ mishaps \in 0 .. MaxMishaps
      /\ req[r].kid \in Keys /\ cache.age \in Nat /\ retired[req[r].kid] \in Nat
  <2>1. req[r].kid \in Keys
    BY <1>0 DEF TypeOK, Request
  <2>2. UNCHANGED <<kind, signer, retired, cache, refreshing, mishaps>> /\ req[r].pc = "recheck"
    BY DEF key
  <2> QED
    BY <1>0, <2>1, <2>2, AgesNat DEF Ages, GatewayWaits, TypeOK
<1>2. CASE /\ req[r].kid \in cache.keys /\ usable
           /\ req' = [req EXCEPT ![r] = Accepted(req[r].kid)]
  <2>1. retired[req[r].kid] <= MaxStale + FetchTimeout
    BY <1>0, <1>1, <1>2 DEF usable, Ages, CacheLag
  <2>2. cache' \in [keys : SUBSET Keys, age : 0 .. MaxStale + 1] /\ CacheLag'
    BY <1>0, <1>1 DEF TypeOK, Ages, CacheLag
  <2> QED
    BY <1>1, <1>2, <2>1, <2>2, AcceptStep
<1>3. CASE Becomes(r, "rejected")
  BY <1>1, <1>3, QuietStep
<1>4. Answer(r, req[r].kid \in cache.keys /\ usable)
  BY DEF key
<1> QED
  BY <1>0, <1>2, <1>3, <1>4, AnswerIs

LEMMA StoreInv == ASSUME Inv, NEW r \in Requests, Store(r) PROVE Inv'
<1>0. TypeOK /\ Ages
  BY DEF Inv
<1>1. /\ UNCHANGED <<kind, signer, retired, refreshing, mishaps>>
      /\ kind # "gateway" /\ req[r].pc = "fetched" /\ req[r].kid \in Keys
      /\ retired[req[r].kid] \in Nat /\ mishaps \in 0 .. MaxMishaps
  <2>1. req[r].kid \in Keys
    BY <1>0 DEF TypeOK, Request
  <2>2. /\ UNCHANGED <<kind, signer, retired, refreshing, mishaps>>
        /\ kind # "gateway" /\ req[r].pc = "fetched"
    BY DEF Store
  <2> QED
    BY <1>0, <2>1, <2>2, AgesNat DEF TypeOK
<1>2. /\ cache' \in [keys : SUBSET Keys, age : 0 .. MaxStale + 1]
      /\ CacheLag'
      /\ \A k \in req[r].doc : retired[k] <= FetchTimeout
  BY <1>1, Loaded DEF Store
<1>3. CASE /\ req[r].kid \in req[r].doc
           /\ req' = [req EXCEPT ![r] = Accepted(req[r].kid)]
  <2>1. retired[req[r].kid] <= RefreshAfter + FetchTimeout
    BY <1>1, <1>2, <1>3
  <2> QED
    BY <1>1, <1>2, <1>3, <2>1, AcceptStep
<1>4. CASE Becomes(r, "rejected")
  <2>1. /\ req' \in [Requests -> Request] /\ req'[r].pc = "rejected"
        /\ \A q \in Requests \ {r} : req'[q] = req[q]
    BY <1>0, <1>4, Becoming
  <2>2. TypeOK' /\ SingleFlight'
    BY <1>0, <1>1, <1>2, <2>1 DEF TypeOK, SingleFlight
  <2>3. ResponseLag' /\ GatewayWaits' /\ PublishedNow' /\ WithdrawnKeysDie'
    BY <1>0, <1>1, <2>1
    DEF Ages, ResponseLag, GatewayWaits, PublishedNow, WithdrawnKeysDie
  <2> QED
    BY <1>2, <2>2, <2>3 DEF Inv, Ages
<1>5. Answer(r, req[r].kid \in req[r].doc) /\ (req[r].kid \in req[r].doc) \in BOOLEAN
  BY DEF Store
<1>6. \/ /\ req[r].kid \in req[r].doc
         /\ req' = [req EXCEPT ![r] = Accepted(req[r].kid)]
      \/ Becomes(r, "rejected")
  BY <1>0, <1>5, AnswerIs
<1> QED
  BY <1>3, <1>4, <1>6

LEMMA IssuerInv ==
  ASSUME Inv, NEW k \in Keys, LoadSignerWithHistory(k) \/ RetireKey(k) PROVE Inv'
<1>0. TypeOK /\ SingleFlight /\ Ages
  BY DEF Inv
<1>1. UNCHANGED <<kind, cache, refreshing, req, mishaps>>
  BY DEF LoadSignerWithHistory, RetireKey
<1>2. 0 \in 0 .. MaxLag + 1
  BY DEF MaxLag
<1>3. /\ signer' \in [kid : Keys, publicKeys : SUBSET Keys]
      /\ retired' \in [Keys -> 0 .. MaxLag + 1]
  BY <1>0, <1>2 DEF LoadSignerWithHistory, RetireKey, TypeOK
<1>4. \A j \in Keys : retired'[j] = retired[j] \/ retired'[j] = 0
  BY <1>0 DEF LoadSignerWithHistory, RetireKey, TypeOK
<1>5. TypeOK' /\ SingleFlight'
  BY <1>0, <1>1, <1>3 DEF TypeOK, SingleFlight, Leaders
<1>6. PublishedNow'
  BY <1>0, <1>1 DEF Ages, PublishedNow, LoadSignerWithHistory, RetireKey, TypeOK
<1>7. ResponseLag'
  <2> SUFFICES ASSUME NEW r \in Requests, req[r].pc = "fetched", NEW j \in req[r].doc
               PROVE  retired'[j] <= req[r].since
    BY <1>1 DEF ResponseLag
  <2>1. j \in Keys /\ req[r].since \in 0 .. FetchTimeout
    BY <1>0 DEF TypeOK, Request
  <2>2. retired[j] <= req[r].since
    BY <1>0 DEF Ages, ResponseLag
  <2> QED
    BY <1>4, <2>1, <2>2
<1>8. CacheLag'
  <2> SUFFICES ASSUME cache.age <= MaxStale, NEW j \in cache.keys
               PROVE  retired'[j] <= cache.age + FetchTimeout
    BY <1>1 DEF CacheLag
  <2>1. j \in Keys /\ cache.age \in Nat
    BY <1>0, AgesNat DEF TypeOK
  <2>2. retired[j] <= cache.age + FetchTimeout
    BY <1>0 DEF Ages, CacheLag
  <2> QED
    BY <1>4, <2>1, <2>2
<1>9. GatewayWaits' /\ WithdrawnKeysDie'
  BY <1>0, <1>1 DEF Ages, GatewayWaits, WithdrawnKeysDie
<1> QED
  BY <1>5, <1>6, <1>7, <1>8, <1>9 DEF Inv, Ages

(* An age stops at its cap; before that it grows by one.                   *)
LEMMA UpGrows ==
  ASSUME NEW max \in Nat, NEW n \in 0 .. max
  PROVE  Up(n, max) \in 0 .. max /\ Up(n, max) <= n + 1 /\ (Up(n, max) < max => Up(n, max) = n + 1)
  BY DEF Up

LEMMA Waited ==
  ASSUME NEW rec \in Request, rec.since < FetchTimeout
  PROVE  LET new == [rec EXCEPT !.since = rec.since + 1]
         IN /\ new \in Request /\ new.pc = rec.pc /\ new.doc = rec.doc
            /\ new.since = rec.since + 1
<1>1. rec.since + 1 \in 0 .. FetchTimeout
  BY DEF Request
<1> QED
  BY <1>1, Zenon DEF Request

LEMMA TickInv == ASSUME Inv, Tick PROVE Inv'
<1>0. TypeOK /\ SingleFlight /\ Ages
  BY DEF Inv
<1>1. UNCHANGED <<kind, signer, refreshing, mishaps>>
  BY DEF Tick
<1>2. MaxLag + 1 \in Nat /\ MaxStale + 1 \in Nat /\ 0 \in 0 .. MaxLag + 1
  BY DEF MaxLag
<1>3. /\ cache' \in [keys : SUBSET Keys, age : 0 .. MaxStale + 1]
      /\ cache'.keys = cache.keys
      /\ cache'.age <= MaxStale => cache'.age = cache.age + 1
  <2>1. /\ Up(cache.age, MaxStale + 1) \in 0 .. MaxStale + 1
        /\ Up(cache.age, MaxStale + 1) <= MaxStale => Up(cache.age, MaxStale + 1) = cache.age + 1
    BY <1>0, <1>2, UpGrows DEF TypeOK
  <2> QED
    BY <1>0, <2>1 DEF Tick, TypeOK
<1>4. \A k \in Keys : Up(retired[k], MaxLag + 1) \in 0 .. MaxLag + 1
                      /\ Up(retired[k], MaxLag + 1) <= retired[k] + 1
  BY <1>0, <1>2, UpGrows DEF TypeOK
<1>5. /\ retired' \in [Keys -> 0 .. MaxLag + 1]
      /\ \A k \in Keys : retired'[k] <= retired[k] + 1
      /\ \A k \in signer.publicKeys : retired'[k] = 0
  <2>1. \A k \in Keys : retired[k] \in Nat
    BY <1>0, AgesNat
  <2>2. \A k \in Keys : 0 <= retired[k] + 1
    BY <2>1
  <2> QED
    BY <1>0, <1>2, <1>4, <2>2 DEF Tick, TypeOK
<1>6. \A r \in Requests :
        IF req[r].pc = "fetched"
        THEN /\ req'[r] \in Request /\ req'[r].pc = "fetched" /\ req'[r].doc = req[r].doc
             /\ req'[r].since = req[r].since + 1
        ELSE req'[r] = req[r]
  BY <1>0, Waited DEF Tick, WithinTimeout, TypeOK
<1>7. req' \in [Requests -> Request] /\ \A r \in Requests : req'[r].pc = req[r].pc
  BY <1>0, <1>6 DEF Tick, TypeOK
<1>8. TypeOK'
  BY <1>0, <1>1, <1>3, <1>5, <1>7 DEF TypeOK
<1>9. SingleFlight'
  BY <1>0, <1>1, <1>7, ZenonT(30) DEF SingleFlight, Leaders
<1>10. ResponseLag'
  <2> SUFFICES ASSUME NEW r \in Requests, req'[r].pc = "fetched", NEW k \in req'[r].doc
               PROVE  retired'[k] <= req'[r].since
    BY DEF ResponseLag
  <2>1. /\ req[r].pc = "fetched" /\ req'[r].doc = req[r].doc
        /\ req'[r].since = req[r].since + 1
    BY <1>6, <1>7
  <2>2. k \in Keys /\ req[r].since \in 0 .. FetchTimeout /\ retired[k] <= req[r].since
    BY <1>0, <2>1 DEF TypeOK, Request, Ages, ResponseLag
  <2>3. retired[k] \in Nat /\ retired'[k] \in Nat
    BY <1>0, <1>8, <2>2, AgesNat, NextAgesNat
  <2> QED
    BY <1>5, <2>1, <2>2, <2>3
<1>11. CacheLag'
  <2> SUFFICES ASSUME cache'.age <= MaxStale, NEW k \in cache'.keys
               PROVE  retired'[k] <= cache'.age + FetchTimeout
    BY DEF CacheLag
  <2>1. k \in Keys /\ k \in cache.keys /\ cache'.age = cache.age + 1 /\ cache.age \in Nat
    BY <1>0, <1>3, AgesNat DEF TypeOK
  <2>2. retired[k] <= cache.age + FetchTimeout
    BY <1>0, <2>1 DEF Ages, CacheLag
  <2>3. retired[k] \in Nat /\ retired'[k] \in Nat
    BY <1>0, <1>8, <2>1, AgesNat, NextAgesNat
  <2>4. retired'[k] <= retired[k] + 1
    BY <1>5, <2>1
  <2>5. retired'[k] <= (cache.age + 1) + FetchTimeout
    BY <2>1, <2>2, <2>3, <2>4
  <2> QED
    BY <2>1, <2>5
<1>12. PublishedNow' /\ GatewayWaits'
  BY <1>0, <1>1, <1>5, <1>7 DEF Ages, PublishedNow, GatewayWaits
<1>13. WithdrawnKeysDie'
  BY <1>0, <1>1, <1>6, <1>7 DEF Ages, WithdrawnKeysDie
<1> QED
  BY <1>8, <1>9, <1>10, <1>11, <1>12, <1>13 DEF Inv, Ages

LEMMA NextInv == Inv /\ [Next]_vars => Inv'
<1> SUFFICES ASSUME Inv, [Next]_vars PROVE Inv'
  OBVIOUS
<1>1. ASSUME NEW r \in Requests, Arrive(r) \/ Step(r) \/ Fault(r) \/ Reuse(r)
      PROVE  Inv'
  BY <1>1, ArriveInv, refreshInv, FetchInv, refreshEnds, QuietSteps, keyInv, StoreInv
  DEF Step, Fault
<1>2. ASSUME NEW k \in Keys, LoadSignerWithHistory(k) \/ RetireKey(k)
      PROVE  Inv'
  BY <1>2, IssuerInv
<1>3. CASE Tick
  BY <1>3, TickInv
<1>4. CASE UNCHANGED vars
  BY <1>4 DEF vars, Inv, TypeOK, SingleFlight, Leaders, Ages, PublishedNow, ResponseLag,
              CacheLag, GatewayWaits, WithdrawnKeysDie
<1> QED
  BY <1>1, <1>2, <1>3, <1>4 DEF Next

(* Every behaviour keeps the types: no response outlives the timeout.      *)
THEOREM CacheTypes == Spec => []TypeOK
<1>1. Inv => TypeOK
  BY DEF Inv
<1> QED
  BY <1>1, InitInv, NextInv, PTL DEF Spec

(* The Gateway's verifier never has two fetches in flight, and waiters     *)
(* always have a leader, for any number of requests.                       *)
THEOREM OneFlight == Spec => []SingleFlight
<1>1. Inv => SingleFlight
  BY DEF Inv
<1> QED
  BY <1>1, InitInv, NextInv, PTL DEF Spec

(* No cache honours a withdrawn key longer than its age limit and the      *)
(* timeout of one fetch, for any ages with RefreshAfter <= MaxStale.       *)
THEOREM WithdrawnKeysAreRefused == Spec => []WithdrawnKeysDie
<1>1. Inv => WithdrawnKeysDie
  BY DEF Inv, Ages
<1> QED
  BY <1>1, InitInv, NextInv, PTL DEF Spec
===============================================================================

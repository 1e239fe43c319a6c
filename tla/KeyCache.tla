------------------------------- MODULE KeyCache -------------------------------
(***************************************************************************)
(* The caches of public signing keys: the Gateway's JWKS verifier, and the *)
(* caches of the Orders authenticator and of its quote verifier, beside an *)
(* issuer that rotates its keys.  One behaviour follows one of them, which *)
(* Init chooses.                                                           *)
(*                                                                         *)
(* Mutexes are held over single steps here: each step is what one goroutine*)
(* does between two unlocks.  Times are ages that Tick advances and that   *)
(* stop counting where nothing tells them apart any more.                  *)
(***************************************************************************)
EXTENDS Naturals, FiniteSets

CONSTANTS Keys,           \* key ids, in the order they come into use
          Requests,       \* requests that verify a token, used again and again
          RefreshAfter,   \* ticks in 5 minutes
          MaxStale,       \* ticks in 15 minutes
          FetchTimeout,   \* ticks a response can take, the client's timeout
          CacheControl,   \* max-age the issuer serves in ticks, 0 for none
          MaxMishaps      \* bound on failed fetches and cancelled requests

ASSUME CacheAssumption ==
  /\ Keys \subseteq Nat /\ 1 \in Keys
  /\ RefreshAfter \in Nat /\ MaxStale \in Nat /\ FetchTimeout \in Nat
  /\ CacheControl \in Nat /\ MaxMishaps \in Nat
  /\ IsFiniteSet(Requests)

(* The numbers in the code: 5 and 15 minutes.                              *)
ASSUME AgeAssumption == RefreshAfter <= MaxStale

VARIABLES kind,         \* which of the caches this is
          signer,       \* issuer: the key in use and the keys it publishes
          retired,      \* ticks since a key was last published
          cache,        \* keys and the time since they were loaded
          refreshing,   \* a refresh is in flight
          req,
          mishaps

vars == <<kind, signer, retired, cache, refreshing, req, mishaps>>

Kinds == {"gateway", "authenticator", "quote"}
MaxLag == MaxStale + FetchTimeout

(* doc, since: the document a fetch was answered with, and how long ago.   *)
(* joined: the request relied on the refresh of another.  failed: a fetch  *)
(* or the request's context failed.  lag: retired[kid] when it accepted.   *)
Request ==
  [pc : {"ready", "refresh", "wait", "woken", "fetch", "fetched", "recheck",
         "accepted", "rejected"},
   kid : Keys, force : BOOLEAN, doc : SUBSET Keys, since : 0 .. FetchTimeout,
   joined : BOOLEAN, failed : BOOLEAN, lag : 0 .. MaxLag + 1]

(* The cache, the requests and the issuer are of their types; no response *)
(* is used that is older than the timeout of the client.                   *)
TypeOK ==
  /\ kind \in Kinds
  /\ signer \in [kid : Keys, publicKeys : SUBSET Keys]
  /\ retired \in [Keys -> 0 .. MaxLag + 1]
  /\ cache \in [keys : SUBSET Keys, age : 0 .. MaxStale + 1]
  /\ refreshing \in BOOLEAN
  /\ req \in [Requests -> Request]
  /\ mishaps \in 0 .. MaxMishaps

Ready == [pc |-> "ready", kid |-> 1, force |-> FALSE, doc |-> {}, since |-> 0,
          joined |-> FALSE, failed |-> FALSE, lag |-> 0]

(* The Gateway does not start before it has loaded the keys once.          *)
Init ==
  /\ kind \in Kinds
  /\ signer = [kid |-> 1, publicKeys |-> {1}]
  /\ retired = [k \in Keys |-> 0]
  /\ cache = [keys |-> IF kind = "gateway" THEN {1} ELSE {}, age |-> 0]
  /\ refreshing = FALSE
  /\ req = [r \in Requests |-> Ready]
  /\ mishaps = 0

Mishap == mishaps < MaxMishaps /\ mishaps' = mishaps + 1

Goto(r, pc) == req' = [req EXCEPT ![r].pc = pc]

Failed(r) == [Ready EXCEPT !.pc = "rejected", !.kid = req[r].kid, !.failed = TRUE]

Fails(r) == req' = [req EXCEPT ![r] = Failed(r)]

Accepted(k) == [Ready EXCEPT !.pc = "accepted", !.kid = k, !.lag = retired[k]]

Answer(r, found) ==
  req' = [req EXCEPT ![r] =
    IF found THEN Accepted(req[r].kid)
             ELSE [Ready EXCEPT !.pc = "rejected", !.kid = req[r].kid,
                                !.joined = req[r].joined]]

-------------------------------------------------------------------------------
(* The issuer.  A restart with the next key keeps the keys of its history  *)
(* directory published; emptying the directory retires them.               *)

LoadSignerWithHistory(k) ==
  /\ k \in Keys /\ k > signer.kid
  /\ \A j \in Keys : j < k => j <= signer.kid
  /\ signer' = [kid |-> k, publicKeys |-> signer.publicKeys \cup {k}]
  /\ retired' = [retired EXCEPT ![k] = 0]
  /\ UNCHANGED <<kind, cache, refreshing, req, mishaps>>

RetireKey(k) ==
  /\ k \in signer.publicKeys \ {signer.kid}
  /\ signer' = [signer EXCEPT !.publicKeys = signer.publicKeys \ {k}]
  /\ UNCHANGED <<kind, retired, cache, refreshing, req, mishaps>>

JWKS == signer.publicKeys

-------------------------------------------------------------------------------
(* The Gateway's verifier.                                                 *)

maxAge(value) == IF value > 0 /\ value < RefreshAfter THEN value ELSE RefreshAfter

effectiveRefreshAfter ==
  IF maxAge(CacheControl) < RefreshAfter THEN maxAge(CacheControl) ELSE RefreshAfter

isFresh == cache.keys # {} /\ cache.age <= effectiveRefreshAfter

(* Mutant: keys that were loaded are good for ever.                        *)
usableAtAnyAge == cache.keys # {}

usable == cache.keys # {} /\ cache.age <= MaxStale

(* Mutant: an unknown key is no reason to refresh a fresh cache.           *)
VerifyUnforced(r, k) ==
  /\ kind = "gateway" /\ req[r].pc = "ready"
  /\ req' = [req EXCEPT ![r] =
       IF k \in cache.keys /\ usable
         THEN Accepted(k)
         ELSE [Ready EXCEPT !.pc = "refresh", !.kid = k]]
  /\ UNCHANGED <<kind, signer, retired, cache, refreshing, mishaps>>

(* A token whose header names the key k.                                   *)
Verify(r, k) ==
  /\ kind = "gateway" /\ req[r].pc = "ready"
  /\ req' = [req EXCEPT ![r] =
       IF k \in cache.keys /\ usable
         THEN Accepted(k)
         ELSE [Ready EXCEPT !.pc = "refresh", !.kid = k, !.force = k \notin cache.keys]]
  /\ UNCHANGED <<kind, signer, retired, cache, refreshing, mishaps>>

refresh(r) ==
  /\ req[r].pc = "refresh"
  /\ \/ /\ ~req[r].force /\ isFresh
        /\ Goto(r, "recheck")
        /\ UNCHANGED refreshing
     \/ /\ req[r].force \/ ~isFresh
        /\ refreshing
        /\ req' = [req EXCEPT ![r].pc = "wait", ![r].joined = TRUE]
        /\ UNCHANGED refreshing
     \/ /\ req[r].force \/ ~isFresh
        /\ ~refreshing
        /\ refreshing' = TRUE
        /\ Goto(r, "fetch")
  /\ UNCHANGED <<kind, signer, retired, cache, mishaps>>

(* The request of the leader is answered by the issuer.                    *)
Fetch(r) ==
  /\ req[r].pc = "fetch"
  /\ req' = [req EXCEPT ![r].pc = "fetched", ![r].doc = JWKS, ![r].since = 0]
  /\ UNCHANGED <<kind, signer, retired, cache, refreshing, mishaps>>

(* close(done) wakes every waiter.                                         *)
Wake(r, next) ==
  req' = [q \in Requests |->
    IF q = r THEN next
    ELSE IF req[q].pc = "wait" THEN [req[q] EXCEPT !.pc = "woken"] ELSE req[q]]

(* Mutant: an early return on error leaves refreshing set.                 *)
refreshFailsSilently(r) ==
  /\ kind = "gateway" /\ req[r].pc \in {"fetch", "fetched"}
  /\ Mishap
  /\ Fails(r)
  /\ UNCHANGED <<kind, signer, retired, cache, refreshing>>

refreshDone(r) ==
  /\ kind = "gateway" /\ req[r].pc = "fetched"
  /\ cache' = [keys |-> req[r].doc, age |-> 0]
  /\ refreshing' = FALSE
  /\ Wake(r, [Ready EXCEPT !.pc = "recheck", !.kid = req[r].kid])
  /\ UNCHANGED <<kind, signer, retired, mishaps>>

(* The fetch fails, or the request that leads it is cancelled.             *)
refreshFails(r) ==
  /\ kind = "gateway" /\ req[r].pc \in {"fetch", "fetched"}
  /\ Mishap
  /\ refreshing' = FALSE
  /\ Wake(r, Failed(r))
  /\ UNCHANGED <<kind, signer, retired, cache>>

refreshError(r) ==
  /\ req[r].pc = "woken"
  /\ Goto(r, IF isFresh THEN "recheck" ELSE "rejected")
  /\ UNCHANGED <<kind, signer, retired, cache, refreshing, mishaps>>

WaiterCancelled(r) ==
  /\ req[r].pc = "wait"
  /\ Mishap
  /\ Fails(r)
  /\ UNCHANGED <<kind, signer, retired, cache, refreshing>>

key(r) ==
  /\ req[r].pc = "recheck"
  /\ Answer(r, req[r].kid \in cache.keys /\ usable)
  /\ UNCHANGED <<kind, signer, retired, cache, refreshing, mishaps>>

-------------------------------------------------------------------------------
(* The caches of Orders: every miss fetches by itself, and the last fetch  *)
(* to arrive is kept.  The two differ in what they verify.                 *)

Hit(k) == k \in cache.keys /\ cache.age < RefreshAfter

Look(r, k) ==
  /\ req[r].pc = "ready"
  /\ req' = [req EXCEPT ![r] =
       IF Hit(k) THEN Accepted(k) ELSE [Ready EXCEPT !.pc = "fetch", !.kid = k]]
  /\ UNCHANGED <<kind, signer, retired, cache, refreshing, mishaps>>

AuthenticatorKey(r, k) == kind = "authenticator" /\ Look(r, k)

QuoteKey(r, k) == kind = "quote" /\ Look(r, k)

Store(r) ==
  /\ kind \in {"authenticator", "quote"} /\ req[r].pc = "fetched"
  /\ cache' = [keys |-> req[r].doc, age |-> 0]
  /\ Answer(r, req[r].kid \in req[r].doc)
  /\ UNCHANGED <<kind, signer, retired, refreshing, mishaps>>

StoreFails(r) ==
  /\ kind \in {"authenticator", "quote"} /\ req[r].pc \in {"fetch", "fetched"}
  /\ Mishap
  /\ Fails(r)
  /\ UNCHANGED <<kind, signer, retired, cache, refreshing>>

-------------------------------------------------------------------------------
(* The next request takes the place of one that was answered.              *)
Reuse(r) ==
  /\ req[r].pc \in {"accepted", "rejected"}
  /\ req' = [req EXCEPT ![r] = Ready]
  /\ UNCHANGED <<kind, signer, retired, cache, refreshing, mishaps>>

Up(n, max) == IF n < max THEN n + 1 ELSE n

WithinTimeout(r) == req[r].pc = "fetched" => req[r].since < FetchTimeout

(* A tick is longer than the code between two waits, and no response is    *)
(* older than the timeout of the client.                                   *)
Tick ==
  /\ \A r \in Requests : /\ req[r].pc \notin {"refresh", "woken", "recheck"}
                         /\ WithinTimeout(r)
  /\ cache' = [cache EXCEPT !.age = Up(cache.age, MaxStale + 1)]
  /\ retired' = [k \in Keys |->
       IF k \in signer.publicKeys THEN 0 ELSE Up(retired[k], MaxLag + 1)]
  /\ req' = [r \in Requests |->
       IF req[r].pc = "fetched" THEN [req[r] EXCEPT !.since = req[r].since + 1]
                                ELSE req[r]]
  /\ UNCHANGED <<kind, signer, refreshing, mishaps>>

Step(r) ==
  \/ refresh(r) \/ Fetch(r) \/ refreshDone(r) \/ refreshError(r) \/ key(r) \/ Store(r)

(* Tokens of every key that was ever in use.                               *)
Arrive(r) ==
  \E k \in {j \in Keys : j <= signer.kid} :
    Verify(r, k) \/ AuthenticatorKey(r, k) \/ QuoteKey(r, k)

Fault(r) == refreshFails(r) \/ WaiterCancelled(r) \/ StoreFails(r)

Next ==
  \/ \E r \in Requests : Arrive(r) \/ Step(r) \/ Fault(r) \/ Reuse(r)
  \/ \E k \in Keys : LoadSignerWithHistory(k) \/ RetireKey(k)
  \/ Tick

(* Goroutines run, and the client's timeout ends every fetch.              *)
Fairness == \A r \in Requests : WF_vars(Step(r))

Spec == Init /\ [][Next]_vars /\ Fairness

-------------------------------------------------------------------------------
Leaders == {r \in Requests : req[r].pc \in {"fetch", "fetched"}}

(* The Gateway has one fetch in flight at most, and as long as anybody     *)
(* waits on refreshDone there is a leader who will close it.               *)
SingleFlight ==
  kind = "gateway" =>
    /\ \A r, q \in Leaders : r = q
    /\ refreshing <=> Leaders # {}
    /\ (\E r \in Requests : req[r].pc = "wait") => refreshing

(* No token is accepted with a key that was withdrawn longer ago than the  *)
(* age limit of the cache and the timeout of a fetch, also when responses  *)
(* arrive out of order and the older one is kept.                          *)
WithdrawnKeysDie ==
  \A r \in Requests : req[r].pc = "accepted" =>
    req[r].lag <= (IF kind = "gateway" THEN MaxStale ELSE RefreshAfter) + FetchTimeout

(* A token with a published key is refused only if a fetch failed or was   *)
(* cancelled, or if the request joined a refresh that was under way: that  *)
(* refresh may have been answered before the key was published.            *)
RefusedForCause ==
  \A r \in Requests : req[r].pc = "rejected" =>
    req[r].failed \/ req[r].joined \/ req[r].kid \notin signer.publicKeys

(* Whoever asks is answered: no waiter is left on a channel nobody closes. *)
EveryRequestAnswered ==
  \A r \in Requests : req[r].pc # "ready" ~> req[r].pc \in {"accepted", "rejected"}
===============================================================================

------------------------------- MODULE RateLimit -------------------------------
(***************************************************************************)
(* The two rate limiters, each one atomic Redis script.  The Gateway's     *)
(* counts a key in the current window of its class and in the current burst*)
(* window, both aligned to the clock.  Identity's counts an attempt in     *)
(* several dimensions, each in a window that starts with its first hit.    *)
(* The burst window is one tick.                                           *)
(***************************************************************************)
EXTENDS Naturals, FiniteSets

CONSTANTS classes,      \* Gateway: class |-> [limit, burst]
          Window,       \* ticks of a window of the Gateway; 1 minute in the code
          Clients,      \* who a limit key of the Gateway tells apart
          limits        \* Identity: dimension |-> [max, window]

ASSUME LimitAssumption ==
  /\ \A n \in DOMAIN classes : classes[n] \in [limit : Nat, burst : Nat]
  /\ \A d \in DOMAIN limits : limits[d] \in [max : Nat, window : Nat \ {0}]
  /\ Window \in Nat \ {0}

VARIABLES clock,      \* ticks since the window of the Gateway began
          hits,       \* Gateway: counters of a key
          rates,      \* Identity: counter of a dimension and its time to live
          admitted    \* what was let through in the windows that are open

limitVars == <<clock, hits, rates, admitted>>

LimitKeys == Clients \X DOMAIN classes
Dimensions == DOMAIN limits

LimitTypeOK ==
  /\ clock \in 0 .. Window - 1
  /\ hits \in [LimitKeys -> [window : Nat, burst : Nat]]
  /\ rates \in [Dimensions -> [count : Nat, ttl : Nat]]
  /\ admitted \in [gateway : [LimitKeys -> [window : Nat, burst : Nat]],
                   identity : [Dimensions -> Nat]]

LimitInit ==
  /\ clock = 0
  /\ hits = [k \in LimitKeys |-> [window |-> 0, burst |-> 0]]
  /\ rates = [d \in Dimensions |-> [count |-> 0, ttl |-> 0]]
  /\ admitted = [gateway |-> hits, identity |-> [d \in Dimensions |-> 0]]

-------------------------------------------------------------------------------
Incremented(n) == [window |-> n.window + 1, burst |-> n.burst + 1]

(* Mutant: the count before this request is compared.                      *)
allowsOneMore(k) ==
  hits[k].window <= classes[k[2]].limit /\ hits[k].burst <= classes[k[2]].burst

(* What allowScript returns for the key k.                                 *)
allows(k) ==
  LET n == Incremented(hits[k])
  IN n.window <= classes[k[2]].limit /\ n.burst <= classes[k[2]].burst

(* Both counters go up, whatever the answer.                               *)
allowScript(k) ==
  /\ hits' = [hits EXCEPT ![k] = Incremented(hits[k])]
  /\ admitted' = IF allows(k)
       THEN [admitted EXCEPT !.gateway[k] = Incremented(admitted.gateway[k])]
       ELSE admitted
  /\ UNCHANGED <<clock, rates>>

allowsMany(dims) == \A d \in dims : rates[d].count + 1 <= limits[d].max

(* The first hit of a window sets the time to live.                        *)
Expiry(d) == IF rates[d].count = 0 THEN limits[d].window ELSE rates[d].ttl

allowManyScript(dims) ==
  /\ rates' = [d \in Dimensions |->
       IF d \notin dims THEN rates[d]
       ELSE [count |-> rates[d].count + 1, ttl |-> Expiry(d)]]
  /\ admitted' = IF allowsMany(dims)
       THEN [admitted EXCEPT !.identity =
               [d \in Dimensions |-> admitted.identity[d] + (IF d \in dims THEN 1 ELSE 0)]]
       ELSE admitted
  /\ UNCHANGED <<clock, hits>>

(* account, global and source of one kind of attempt.                      *)
allowDimensions(kind) == {d \in Dimensions : d[1] = kind}

-------------------------------------------------------------------------------
Rollover(n) == [window |-> IF clock + 1 = Window THEN 0 ELSE n.window, burst |-> 0]

(* A counter disappears when its time to live is over.                     *)
Aged(n) == [count |-> IF n.ttl = 1 THEN 0 ELSE n.count,
            ttl |-> IF n.ttl > 0 THEN n.ttl - 1 ELSE 0]

LimitTick ==
  /\ clock' = (clock + 1) % Window
  /\ hits' = [k \in LimitKeys |-> Rollover(hits[k])]
  /\ rates' = [d \in Dimensions |-> Aged(rates[d])]
  /\ admitted' =
       [gateway |-> [k \in LimitKeys |-> Rollover(admitted.gateway[k])],
        identity |-> [d \in Dimensions |->
          IF rates[d].ttl <= 1 THEN 0 ELSE admitted.identity[d]]]

-------------------------------------------------------------------------------
(* In no window is more let through than the limit, in no burst window     *)
(* more than the burst, and in no dimension of Identity more than its      *)
(* maximum, however the requests of all replicas interleave.               *)
AdmittedWithinLimits ==
  /\ \A k \in LimitKeys : /\ admitted.gateway[k].window <= classes[k[2]].limit
                          /\ admitted.gateway[k].burst <= classes[k[2]].burst
  /\ \A d \in Dimensions : admitted.identity[d] <= limits[d].max

(* A counter without a time to live would lock an account out for ever.    *)
CountersExpire == \A d \in Dimensions : rates[d].count > 0 => rates[d].ttl > 0
===============================================================================

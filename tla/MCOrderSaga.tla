----------------------------- MODULE MCOrderSaga -----------------------------
(* Instances of OrderSaga for TLC.                                         *)
EXTENDS OrderSaga, TLC

Request(id, operation, key, body) ==
  [id |-> id, operation |-> operation, key |-> key, body |-> body]

CreateAndCancel ==
  {Request(1, "create", "k1", "b1"), Request(2, "cancel", "k2", "b1")}

(* A create sent twice, its key reused for another body, a second order,   *)
(* and a cancellation sent twice with one key and once with another.       *)
KeyedRequests ==
  {Request(1, "create", "k1", "b1"), Request(2, "create", "k1", "b1"),
   Request(3, "create", "k1", "b2"), Request(4, "create", "k2", "b1"),
   Request(5, "cancel", "k1", "b1"), Request(6, "cancel", "k1", "b1"),
   Request(7, "cancel", "k2", "b1")}

AllFacts == FactTypes
RepliedFacts == SupportedFacts
EarlyFacts == {"inventory.reserved"}

(* Both forward facts and both compensations.                              *)
CoreFacts == {"inventory.reserved", "inventory.released",
              "payment.authorized", "payment.refunded"}

BothValid == BOOLEAN
OnlyValid == {TRUE}

ReplicaSymmetry == Permutations(Replicas)
==============================================================================

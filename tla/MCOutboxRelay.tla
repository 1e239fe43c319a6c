---------------------------- MODULE MCOutboxRelay ----------------------------
(* Instances of OutboxRelay for TLC.                                       *)
EXTENDS OutboxRelay

TwoDelays == <<1, 2>>
==============================================================================

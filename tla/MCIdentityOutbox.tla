--------------------------- MODULE MCIdentityOutbox ---------------------------
(* Three rows, two replicas, batches of two.                               *)
EXTENDS IdentityOutbox

MCRows == 1 .. 3
===============================================================================

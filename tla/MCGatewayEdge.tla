----------------------------- MODULE MCGatewayEdge -----------------------------
(* One client, one slot, limits of two and one, and three routes.          *)
EXTENDS GatewayEdge, TLC

MCclasses == [n \in {"auth-write", "order-read", "order-write"} |->
                [limit |-> 2, burst |-> 1]]
MClimits == [d \in ({"login"} \X {"account", "global"}) \cup
                   ({"service-token"} \X {"account"}) |->
               [max |-> IF d[2] = "global" \/ d[1] # "login" THEN 2 ELSE 1, window |-> 2]]
===============================================================================

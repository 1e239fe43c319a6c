----------------------------- MODULE MCOrdersApi ------------------------------
EXTENDS OrdersApi

(* A customer who may not order, an operator who may not cancel, and a     *)
(* customer's own token in the place of the gateway's.                     *)
MCHeaders ==
  {[token |-> "valid", kind |-> "service", subject |-> "gateway",
    machine |-> {"orders:read"}, actor |-> "alice", type |-> "human",
    scopes |-> {<<"read", "self">>, <<"cancel", "self">>}],
   [token |-> "valid", kind |-> "service", subject |-> "gateway",
    machine |-> {"orders:write"}, actor |-> "bob", type |-> "human",
    scopes |-> {<<"read", "any">>, <<"write", "any">>}],
   [token |-> "valid", kind |-> "access", subject |-> "alice",
    machine |-> {}, actor |-> "alice", type |-> "human",
    scopes |-> {<<"write", "self">>}]}

Item(p, n) == [product |-> p, quantity |-> n]

MCItemLists == {<<>>, <<Item("a", 0)>>, <<Item("a", 1), Item("a", 1)>>,
                <<Item("a", 2), Item("b", 1)>>}

Line(p, n, price, total) ==
  [product |-> p, quantity |-> n, price |-> price, total |-> total]

Quote(lines, signed, expires) == [lines |-> lines, signed |-> signed, expires |-> expires]

(* Good, wrong in a line total, too dear, unsigned, expired.               *)
MCQuotes ==
  {Quote(<<Line("b", 1, 1, 1), Line("a", 2, 3, 6)>>, TRUE, 9),
   Quote(<<Line("b", 1, 2, 1), Line("a", 2, 2, 4)>>, TRUE, 9),
   Quote(<<Line("b", 1, 2, 2), Line("a", 2, 3, 6)>>, TRUE, 9),
   Quote(<<Line("b", 1, 0, 0), Line("a", 2, 2, 4)>>, FALSE, 9),
   Quote(<<Line("b", 1, 0, 0), Line("a", 2, 1, 2)>>, TRUE, 1)}

(* Readers change nothing, so one of them and one writer meet everything. *)
MCAsks == [r \in Requests |-> IF r = "reader" THEN {"list", "read"} ELSE {"create", "cancel"}]

===============================================================================

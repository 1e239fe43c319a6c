---------------------------- MODULE OrderPricing ------------------------------
(***************************************************************************)
(* The money of an order: what NewOrder accepts, what the consumer checks  *)
(* of the quote an inventory.reserved fact carries, and the checked        *)
(* arithmetic of ApplyQuote.  Amounts are minor units in an int64, whose   *)
(* range here is -MaxInt64 - 1 .. MaxInt64; every product, difference and  *)
(* sum the code computes wraps around at that range.                       *)
(***************************************************************************)
EXTENDS Integers, Sequences, FiniteSetsExt

CONSTANTS MaxItems, MaxQuantity, MaxTotalMinor, MaxInt64

ASSUME PricingAssumption ==
  /\ MaxItems \in Nat /\ MaxQuantity \in Nat
  /\ MaxInt64 \in Nat /\ MaxTotalMinor \in 1 .. MaxInt64

int64(n) == ((n + MaxInt64 + 1) % (2 * (MaxInt64 + 1))) - (MaxInt64 + 1)

Products(lines) == {lines[i].product : i \in DOMAIN lines}

(* An order's items are [product, quantity], its product ids well formed.  *)
NewOrder(items) ==
  /\ Len(items) \in 1 .. MaxItems
  /\ \A i \in DOMAIN items : items[i].quantity \in 1 .. MaxQuantity
  /\ Cardinality(Products(items)) = Len(items)

-------------------------------------------------------------------------------
(* The quote's lines are [product, quantity, price, total].                *)

CheckedLine(line) ==
  /\ line.quantity >= 1 /\ line.price >= 0 /\ line.total >= 0
  /\ line.price # 0 => line.quantity <= MaxInt64 \div line.price
  /\ line.total = int64(line.price * line.quantity)

QuoteMatches(items, lines) ==
  /\ Len(lines) = Len(items)
  /\ \A i \in DOMAIN lines : CheckedLine(lines[i])
  /\ Cardinality(Products(lines)) = Len(lines)
  /\ \A i \in DOMAIN items : \E j \in DOMAIN lines :
       lines[j].product = items[i].product /\ lines[j].quantity = items[i].quantity

PriceOf(lines, product) ==
  (CHOOSE line \in {lines[j] : j \in DOMAIN lines} : line.product = product).price

LineTotal(item, lines) == int64(item.quantity * PriceOf(lines, item.product))

LineOverflows(item, price) ==
  \/ price \notin 0 .. MaxTotalMinor
  \/ price # 0 /\ item.quantity > MaxTotalMinor \div price

(* The running total of ApplyQuote's loop after n items, NULL as soon as   *)
(* one of them is refused.                                                 *)
NULL == -1

(* Mutant: the running total is not compared with the limit.               *)
RunningTotalUnchecked(items, lines) ==
  LET total[n \in 0 .. Len(items)] ==
        IF n = 0 THEN 0
        ELSE IF \/ total[n - 1] = NULL
                \/ LineOverflows(items[n], PriceOf(lines, items[n].product))
        THEN NULL
        ELSE int64(total[n - 1] + LineTotal(items[n], lines))
  IN  total[Len(items)]

RunningTotal(items, lines) ==
  LET total[n \in 0 .. Len(items)] ==
        IF n = 0 THEN 0
        ELSE IF \/ total[n - 1] = NULL
                \/ LineOverflows(items[n], PriceOf(lines, items[n].product))
                \/ total[n - 1] > int64(MaxTotalMinor - LineTotal(items[n], lines))
        THEN NULL
        ELSE int64(total[n - 1] + LineTotal(items[n], lines))
  IN  total[Len(items)]

(* What the quote is worth in unbounded arithmetic.                        *)
ExactTotal(items, lines) ==
  MapThenSumSet(LAMBDA i : items[i].quantity * PriceOf(lines, items[i].product),
                DOMAIN items)

===============================================================================

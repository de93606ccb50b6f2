---------------------------- MODULE MatchingEngine ----------------------------
(***************************************************************************)
(* What a TwnEngine promises its callers, whatever the storage: buy, sell  *)
(* and allocation as single steps on one order book.                       *)
(*                                                                         *)
(* A step matches the volume on offer with the open orders all at once, by *)
(* the rule of Matching.  How a storage visits the orders one after the    *)
(* other is what it must get right.  Numbers are natural numbers here: an  *)
(* engine whose u64 wrap does not implement this.                          *)
(***************************************************************************)
EXTENDS Matching

CONSTANTS Users, Prices, Volumes

VARIABLES
    offer,      \* volume sold and not yet given to anyone
    given,      \* volume given to each user that has had an order served
    orders,     \* the open orders
    arrivals    \* number of orders so far; an order is known by its arrival

engine == <<offer, given, orders, arrivals>>

Given(u) == GivenTo(given, u)

\* The volume `total` meets the orders of `book`.
Match(book, total) ==
    /\ given' = GivenAfter(given, book, total)
    /\ orders' = OrdersAfter(book, total)
    /\ offer' = OfferAfter(book, total)

Init ==
    /\ offer = 0 /\ orders = {} /\ arrivals = 0
    /\ given = [u \in {} |-> 0]

\* buy(BuyRequest): the order joins the book and meets the leftover supply.
Buy(u, v, p) ==
    /\ arrivals' = arrivals + 1
    /\ Match(orders \cup {[user |-> u, volume |-> v, price |-> p,
                           seq |-> arrivals + 1]}, offer)

\* sell(SellRequest): the new supply meets the book.
Sell(v) ==
    /\ Match(orders, offer + v)
    /\ UNCHANGED arrivals

Next ==
    \/ \E u \in Users, v \in Volumes, p \in Prices : Buy(u, v, p)
    \/ \E v \in Volumes \ {0} : Sell(v)

Spec == Init /\ [][Next]_engine
=============================================================================

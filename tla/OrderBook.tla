------------------------------- MODULE OrderBook -------------------------------
(***************************************************************************)
(* buy_impl, sell_impl and allocation of tw_main_v0 as functions of the    *)
(* book: both run with every lock held, so that a call without other       *)
(* callers maps one book to the next.  Amounts are natural numbers: the    *)
(* callers of this module stay far below 2^64.                             *)
(***************************************************************************)
EXTENDS Integers, SequencesExt, FiniteSetsExt

CONSTANT Text(_)    \* the decimal form of a number, as format! writes it

\* A definition whose name ends in _Fault is the next one with a bug in it
\* that this code could have; nothing uses it.

Empty == [seq |-> 0, supply |-> 0, given |-> [u \in {} |-> 0], orders |-> {}]

\* allocations.get(&user).unwrap_or(&0)
HeldIn(b, u) == IF u \in DOMAIN b.given THEN b.given[u] ELSE 0

\* allocations.insert(user, current_alloc + n), paid from the supply
Grant(b, user, n) ==
    [b EXCEPT !.supply = @ - n,
              !.given = [u \in DOMAIN @ \cup {user} |->
                            IF u = user THEN HeldIn(b, u) + n ELSE @[u]]]

Bid(user, volume, price, seq) ==
    [user |-> user, volume |-> volume, price |-> price, seq |-> seq]

\* Served from the supply, stored, or both.
BuyImpl(b, user, volume, price) ==
    LET n     == b.seq + 1
        next  == [b EXCEPT !.seq = n]
        store(c, v) == [c EXCEPT !.orders = @ \cup {Bid(user, v, price, n)}]
    IN  CASE b.supply = 0 -> store(next, volume)
          [] b.supply > 0 /\ b.supply >= volume -> Grant(next, user, volume)
          [] OTHER -> store(Grant(next, user, b.supply), volume - b.supply)

\* The keys (Reverse(price), seq)
Before(o, p) ==
    \/ o.price > p.price
    \/ o.price = p.price /\ o.seq < p.seq

\* A bid that was filled in part keeps its volume.
Visit_Fault(b, o) ==
    CASE b.supply = 0 -> b
      [] b.supply > 0 /\ b.supply >= o.volume ->
            [Grant(b, o.user, o.volume) EXCEPT !.orders = b.orders \ {o}]
      [] OTHER -> Grant(b, o.user, b.supply)

\* The closure of retain: keep the bid, remove it, or lower it.
Visit(b, o) ==
    LET rest == b.orders \ {o}
    IN  CASE b.supply = 0 -> b
          [] b.supply > 0 /\ b.supply >= o.volume ->
                [Grant(b, o.user, o.volume) EXCEPT !.orders = rest]
          [] OTHER ->
                [Grant(b, o.user, b.supply) EXCEPT
                    !.orders = rest \cup {[o EXCEPT !.volume = @ - b.supply]}]

\* The book in the order of the keys.
InOrder(orders) ==
    CHOOSE s \in SetToSeqs(orders) :
        \A i, j \in DOMAIN s : i < j => Before(s[i], s[j])

SellImpl(b, volume) ==
    FoldLeft(Visit, [b EXCEPT !.supply = @ + volume], InOrder(b.orders))

\* allocation: the volume, or an error 400 whose text replaces that of
\* allocation_impl.
AllocationHandler(b, u) ==
    IF u \in DOMAIN b.given
    THEN [status |-> 200, body |-> Text(b.given[u])]
    ELSE [status |-> 400, body |-> "missing username"]
=============================================================================

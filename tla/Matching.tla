------------------------------- MODULE Matching -------------------------------
(***************************************************************************)
(* How volume meets open orders, all at once: an order gets what the       *)
(* orders before it leave.  The allocation rules of the engine, as         *)
(* functions of the book, with natural numbers for amounts.                *)
(***************************************************************************)
EXTENDS Integers, Functions

Before(o, p) ==
    \/ o.price > p.price
    \/ o.price = p.price /\ o.seq < p.seq

\* The volume that a set of orders asks for.
Wanted(orders) == SumFunction([o \in orders |-> o.volume])

\* The volume wanted by the orders of `book` that come before o.
Ahead(book, o) == Wanted({p \in book : Before(p, o)})

\* An order is served when the orders before it leave something, and then gets
\* all it wants or all that is left.
Served(book, total) == {o \in book : Ahead(book, o) < total}
Portion(book, total, o) ==
    LET left == total - Ahead(book, o)
    IN  IF o.volume <= left THEN o.volume ELSE left

\* What the orders in `some` get together.
Portions(book, total, some) ==
    SumFunction([o \in some |-> Portion(book, total, o)])

\* A user has an entry once one of the user's orders was served.
GivenTo(given, u) == IF u \in DOMAIN given THEN given[u] ELSE 0

GivenAfter(given, book, total) ==
    LET served == Served(book, total)
    IN  [u \in DOMAIN given \cup {o.user : o \in served} |->
            GivenTo(given, u) + Portions(book, total, {o \in served : o.user = u})]

OrdersAfter(book, total) ==
    LET served == Served(book, total)
    IN  (book \ served)
        \cup {[o EXCEPT !.volume = @ - Portion(book, total, o)] :
                 o \in {p \in served : Portion(book, total, p) < p.volume}}

OfferAfter(book, total) == total - Portions(book, total, Served(book, total))
=============================================================================

------------------------------ MODULE EngineTests ------------------------------
(***************************************************************************)
(* The tests of tw_main_v0, for all the inputs of small ranges and for all *)
(* the orders in which spawned tasks can get the locks.                    *)
(*                                                                         *)
(* A test is a set of cases.  A case starts from a book and runs phases;   *)
(* the calls of one phase are tasks that run concurrently, each of them    *)
(* atomic, since a handler holds both locks from its first to its last     *)
(* access.  The assertions of the test are evaluated on the last book.     *)
(***************************************************************************)
EXTENDS OrderBook

CONSTANTS
    MaxVolume,   \* volumes of the property tests: 1 .. MaxVolume
    MaxPrice,    \* prices of the property tests: 1 .. MaxPrice
    MaxLength,   \* length of their vectors of bids and supplies
    Tasks        \* tasks that a concurrency test spawns (50 or 100)

VARIABLES
    case,     \* the test case that runs
    book,     \* the AppState
    phase,    \* the tasks of the current phase that have not run yet
    pending   \* the phases to come

vars == <<case, book, phase, pending>>

-----------------------------------------------------------------------------
(* Calls *)

Buy(user, volume, price) ==
    [op |-> "buy", user |-> user, volume |-> volume, price |-> price]
Sell(volume) == [op |-> "sell", volume |-> volume]

\* buy_impl_for_test, sell_impl_for_test
Run(b, c) == IF c.op = "buy" THEN BuyImpl(b, c.user, c.volume, c.price)
                             ELSE SellImpl(b, c.volume)

\* One call alone, and n tasks that make the same call.
Alone(call) == {<<1, call>>}
Spawned(n, call(_)) == {<<i, call(i)>> : i \in 1 .. n}

Case(name, start, phases) ==
    [test |-> name, start |-> start, phases |-> phases]

WithSupply(n) == [Empty EXCEPT !.supply = n]
WithBid(o) == [Empty EXCEPT !.orders = {o}]

TotalHeld(b) == MapThenSumSet(LAMBDA u : b.given[u], DOMAIN b.given)
FirstOrder(b) == CHOOSE o \in b.orders : \A p \in b.orders : p = o \/ Before(o, p)
Sum(s) == FoldLeft(LAMBDA x, y : x + y, 0, s)

TestVolumes == 1 .. MaxVolume
TestPrices == 1 .. MaxPrice
Vectors(S) == UNION {[1 .. n -> S] : n \in 1 .. MaxLength}
Pairs == [volume : TestVolumes, price : TestPrices]

-----------------------------------------------------------------------------
(* Property tests *)

\* For each bid: u1 buys, then each supply is sold.
allocation_monotonically_increases ==
    LET round(bid, supplies) ==
            <<Alone(Buy("u1", bid.volume, bid.price))>> \o
            [i \in DOMAIN supplies |-> Alone(Sell(supplies[i]))]
    IN  {Case("allocation_monotonically_increases", Empty,
              FlattenSeq([i \in DOMAIN bids |-> round(bids[i], supplies)])) :
            supplies \in Vectors(TestVolumes), bids \in Vectors(Pairs)}

\* A round never lowers what u1 has been allocated: the test compares the ends
\* of its rounds, this one call and the next.
allocation_monotonically_increases_asserts == HeldIn(book', "u1") >= HeldIn(book, "u1")

\* Every bid first, then every supply.
supply_conservation ==
    {Case("supply_conservation", Empty,
          [i \in DOMAIN bids |-> Alone(Buy("u1", bids[i].volume, bids[i].price))] \o
          [i \in DOMAIN supplies |-> Alone(Sell(supplies[i]))]) :
        supplies \in Vectors(TestVolumes), bids \in Vectors(Pairs)}

\* Volume sold by the phases of the case.
Sold == Sum([i \in DOMAIN case.phases |->
                MapThenSumSet(LAMBDA t : IF t[2].op = "sell" THEN t[2].volume ELSE 0,
                              case.phases[i])])
supply_conservation_asserts == Sold + case.start.supply = TotalHeld(book) + book.supply

fifo_within_same_price ==
    {Case("fifo_within_same_price", Empty,
          <<Alone(Buy("u1", volume, price)), Alone(Buy("u2", volume, price)),
            Alone(Sell(supply))>>) :
        supply \in 1 .. 2 * MaxVolume, price \in TestPrices, volume \in TestVolumes}
fifo_within_same_price_asserts == HeldIn(book, "u1") >= HeldIn(book, "u2")

higher_price_always_fills_first ==
    {Case("higher_price_always_fills_first", Empty,
          <<Alone(Buy("lo", volume, lo_price)), Alone(Buy("hi", volume, hi_price)),
            Alone(Sell(supply))>>) :
        supply \in 1 .. 2 * MaxVolume, lo_price \in TestPrices,
        hi_price \in MaxPrice + 1 .. 2 * MaxPrice, volume \in TestVolumes}
higher_price_always_fills_first_asserts == HeldIn(book, "hi") >= HeldIn(book, "lo")

allocated_never_exceeds_supply ==
    {Case("allocated_never_exceeds_supply", WithSupply(supply),
          <<Alone(Buy("u1", volume, price))>>) :
        supply \in 0 .. MaxVolume, volume \in 0 .. MaxVolume, price \in TestPrices}
allocated_never_exceeds_supply_asserts == HeldIn(book, "u1") <= case.start.supply

\* prop_assume!(supply < volume)
partial_fill_remainder_stays_open ==
    {Case("partial_fill_remainder_stays_open", WithSupply(r[1]),
          <<Alone(Buy("u1", r[2], price))>>) :
        r \in {q \in TestVolumes \X TestVolumes : q[1] < q[2]}, price \in TestPrices}
partial_fill_remainder_stays_open_asserts == book.supply = 0 /\ book.orders # {}

-----------------------------------------------------------------------------
(* Concurrency tests *)

same_price_buy_requests ==
    {Case("same_price_buy_requests", Empty,
          <<Spawned(5, LAMBDA i : Buy("u1", 100, 2))>>)}
same_price_buy_requests_asserts ==
    /\ Cardinality({o.seq : o \in book.orders}) = Cardinality(book.orders)
    /\ FirstOrder(book).seq = 1
    /\ \A o, p \in book.orders : Before(o, p) => o.seq < p.seq

buy_and_sell ==
    {Case("buy_and_sell", Empty,
          <<Spawned(2 * Tasks, LAMBDA i :
                IF i <= Tasks THEN Buy(Text(i), 10, 1) ELSE Sell(10))>>)}
buy_and_sell_asserts == TotalHeld(book) + book.supply = Tasks * 10

buys_no_oversell_v2 ==
    {Case("buys_no_oversell_v2", Empty,
          <<Spawned(Tasks, LAMBDA i : Buy(Text(i), 10, 1)), Alone(Sell(5 * Tasks))>>)}
buys_no_oversell_v2_asserts == TotalHeld(book) + book.supply = 5 * Tasks

buys_no_oversell ==
    {Case("buys_no_oversell", WithSupply(500),
          <<Spawned(Tasks, LAMBDA i : Buy("u1", 200, 2))>>)}
buys_no_oversell_asserts == TotalHeld(book) + book.supply = 500

-----------------------------------------------------------------------------
(* Unit tests: the book at the end of each block, as its asserts have it *)

Expecting(name, start, calls, result) ==
    [test |-> name, start |-> start, expect |-> result,
     phases |-> [i \in DOMAIN calls |-> Alone(calls[i])]]

Book(seq, supply, given, orders) ==
    [seq |-> seq, supply |-> supply, given |-> given, orders |-> orders]
Nobody == [u \in {} |-> 0]

unused_supply_auto_sold ==
    {Expecting("unused_supply_auto_sold", Empty,
        <<Buy("u1", 100, 3), Buy("u2", 150, 2), Buy("u3", 50, 4), Sell(250)>>,
        Book(3, 0, [u1 |-> 100, u2 |-> 100, u3 |-> 50], {Bid("u2", 50, 2, 2)}))}

sell ==
    {Expecting("sell", Empty, <<Sell(400)>>, Book(0, 400, Nobody, {})),
     Expecting("sell", WithBid(Bid("u1", 200, 2, 1)), <<Sell(300)>>,
        Book(0, 100, [u1 |-> 200], {})),
     Expecting("sell", WithBid(Bid("u1", 100, 2, 1)), <<Sell(50)>>,
        Book(0, 0, [u1 |-> 50], {Bid("u1", 50, 2, 1)}))}

buy ==
    {Expecting("buy", WithSupply(200), <<Buy("u1", 200, 2)>>,
        Book(1, 0, [u1 |-> 200], {})),
     Expecting("buy", WithSupply(50), <<Buy("u1", 100, 2)>>,
        Book(1, 0, [u1 |-> 50], {Bid("u1", 50, 2, 1)})),
     Expecting("buy", Empty,
        <<Buy("u1", 100, 2), Buy("u2", 100, 2), Buy("u3", 100, 3)>>,
        Book(3, 0, Nobody,
             {Bid("u1", 100, 2, 1), Bid("u2", 100, 2, 2), Bid("u3", 100, 3, 3)}))}

\* The unit test of this name sells twice.
higher_price_always_fills_first_unit ==
    LET bids == <<Buy("u1", 200, 2), Buy("u2", 200, 4), Buy("u3", 200, 10)>>
        low  == Bid("u1", 200, 2, 1)
    IN  {Expecting("higher_price_always_fills_first_unit", Empty,
            bids \o <<Sell(200)>>,
            Book(3, 0, [u3 |-> 200], {low, Bid("u2", 200, 4, 2)})),
         Expecting("higher_price_always_fills_first_unit", Empty,
            bids \o <<Sell(200), Sell(200)>>,
            Book(3, 0, [u2 |-> 200, u3 |-> 200], {low}))}

buy_same_user_buys_twice ==
    LET twice(volume) == <<Buy("u1", volume, 2), Buy("u1", volume, 2)>>
    IN  {Expecting("buy_same_user_buys_twice", WithSupply(400), twice(200),
            Book(2, 0, [u1 |-> 400], {})),
         Expecting("buy_same_user_buys_twice", WithSupply(300), twice(200),
            Book(2, 0, [u1 |-> 300], {Bid("u1", 100, 2, 2)})),
         Expecting("buy_same_user_buys_twice", Empty, twice(100),
            Book(2, 0, Nobody, {Bid("u1", 100, 2, 1), Bid("u1", 100, 2, 2)}))}

\* The HTTP test of the bad cases of GET /allocation: a user without an
\* allocation, and no user at all.
test_basics_buy_sell_and_allocation ==
    {Case("test_basics_buy_sell_and_allocation", Empty,
          <<Alone(Buy("u1", 100, 2)), Alone(Sell(100))>>)}
test_basics_buy_sell_and_allocation_asserts ==
    /\ AllocationHandler(book, "u1") = [status |-> 200, body |-> Text(100)]
    /\ AllocationHandler(book, "u8").status = 400
    /\ AllocationHandler(book, "").status = 400

-----------------------------------------------------------------------------
UnitTests ==
    unused_supply_auto_sold \cup sell \cup buy \cup
    higher_price_always_fills_first_unit \cup buy_same_user_buys_twice

Cases ==
    UnitTests \cup test_basics_buy_sell_and_allocation \cup
    allocation_monotonically_increases \cup supply_conservation \cup
    fifo_within_same_price \cup higher_price_always_fills_first \cup
    allocated_never_exceeds_supply \cup partial_fill_remainder_stays_open \cup
    same_price_buy_requests \cup buy_and_sell \cup
    buys_no_oversell_v2 \cup buys_no_oversell

Init ==
    /\ case \in Cases
    /\ book = case.start
    /\ phase = {} /\ pending = case.phases

\* The tasks of a phase are spawned when all those before have been joined.
Spawn ==
    /\ phase = {} /\ pending # <<>>
    /\ phase' = Head(pending) /\ pending' = Tail(pending)
    /\ UNCHANGED <<case, book>>

\* Any task of the phase gets the locks and runs.
RunTask ==
    /\ \E task \in phase :
        /\ book' = Run(book, task[2])
        /\ phase' = phase \ {task}
    /\ UNCHANGED <<case, pending>>

Done == phase = {} /\ pending = <<>>

Next == Spawn \/ RunTask \/ (Done /\ UNCHANGED vars)

Spec == Init /\ [][Next]_vars

-----------------------------------------------------------------------------
(* Properties *)

Ran(name) == Done /\ case.test = name

\* The assertions at the end of the property tests, the concurrency tests and
\* the HTTP test hold for all inputs of the ranges and whichever task gets the
\* locks first.
AssertionsHold ==
    /\ Ran("supply_conservation") => supply_conservation_asserts
    /\ Ran("fifo_within_same_price") => fifo_within_same_price_asserts
    /\ Ran("higher_price_always_fills_first") => higher_price_always_fills_first_asserts
    /\ Ran("allocated_never_exceeds_supply") => allocated_never_exceeds_supply_asserts
    /\ Ran("partial_fill_remainder_stays_open") => partial_fill_remainder_stays_open_asserts
    /\ Ran("same_price_buy_requests") => same_price_buy_requests_asserts
    /\ Ran("buy_and_sell") => buy_and_sell_asserts
    /\ Ran("buys_no_oversell_v2") => buys_no_oversell_v2_asserts
    /\ Ran("buys_no_oversell") => buys_no_oversell_asserts
    /\ Ran("test_basics_buy_sell_and_allocation") =>
            test_basics_buy_sell_and_allocation_asserts

\* Each unit test ends with the book that its asserts describe.
UnitTestsPass == Done /\ "expect" \in DOMAIN case => book = case.expect
=============================================================================

--------------------------- MODULE InMemoryStorage ---------------------------
(***************************************************************************)
(* The in-memory matching engine: InMemoryStorage and the two functions it *)
(* runs under the write lock on `bids`, buy_impl and sell_impl.            *)
(*                                                                         *)
(* Several server threads (two HTTP workers and the gRPC runtime) call the *)
(* engine at the same time.  One action is one access to shared state: the *)
(* lock, an atomic, or an entry of the DashMap of allocations.  What the   *)
(* code does between two of them is local and belongs to the first.        *)
(*                                                                         *)
(* u64 arithmetic is modulo Modulus (2^64 in the program).  OverflowChecks *)
(* is the build profile: TRUE for a debug build, where `+` and `sum` panic *)
(* on overflow.  AtomicU64::fetch_add wraps in both.  buy_seq_no is not    *)
(* bounded: the program cannot take 2^64 buys.                             *)
(***************************************************************************)
EXTENDS Integers, FiniteSetsExt

CONSTANTS
    Workers,         \* threads that run handlers
    NoWorker,        \* the holder of a free lock
    Users, Prices,
    Volumes,         \* volumes a request may carry
    Modulus,         \* number of values of a u64
    OverflowChecks,  \* debug build?
    MaxCalls         \* bound on the calls of a behaviour

ASSUME ConstantsAssumption ==
    /\ IsFiniteSet(Workers) /\ NoWorker \notin Workers
    /\ Modulus \in Nat \ {0}
    /\ Volumes \subseteq 0 .. Modulus - 1
    /\ Prices \subseteq 0 .. Modulus - 1
    /\ OverflowChecks \in BOOLEAN
    /\ MaxCalls \in Nat

VARIABLES
    \* struct InMemoryStorage
    supply,     \* volume offered and not yet allocated
    buy_seq_no,
    allocations,\* DashMap: total volume per user, for the users that have an entry
    bids,       \* the open bids (BTreeMap keyed by price, then sequence number)
    holder,     \* the worker with the write lock on bids, or NoWorker
    poisoned,   \* a worker panicked with that lock held
    \* locals of the worker that runs a handler
    pc, req,
    bid,        \* the bid being filled: the caller's own, or one of the book
    todo,       \* bids that `retain` has still to visit
    current,    \* last value read from supply
    held,       \* last value read from allocations
    \* the metrics registry, written by metrics_buy_impl
    gauges,
    \* history: what was asked for, to state what must be accounted for
    offered,    \* sum of the volumes sold so far (a natural number, never wraps)
    demand,     \* per user, sum of the volumes the user has asked for
    calls       \* number of calls so far, bounded by MaxCalls

shared == <<supply, buy_seq_no, allocations, bids, gauges>>
lock   == <<holder, poisoned>>
locals == <<pc, req, bid, todo, current, held>>
ghosts == <<offered, demand, calls>>
vars   == <<shared, lock, locals, ghosts>>

-----------------------------------------------------------------------------
(* Values *)
(*                                                                         *)
(* A definition whose name ends in _Fault is the next one with a bug in it *)
(* that this code could have; no action uses it.  Each property is checked *)
(* to fail when a fault takes the place of the definition it precedes.     *)

U64 == 0 .. Modulus - 1

BuyRequest  == [op : {"buy"}, user : Users, volume : Volumes, price : Prices]
SellRequest == [op : {"sell"}, volume : Volumes \ {0}]
NoRequest   == [op |-> "none"]

Bid   == [user : Users, volume : U64, price : Prices, seq : Nat]
NoBid == [seq |-> 0]

WrappingAdd(a, b)   == IF a + b < Modulus THEN a + b ELSE a + b - Modulus

PlainSub_Fault(a, b) == a - b
SaturatingSub(a, b) == IF a >= b THEN a - b ELSE 0
Lesser(a, b)        == IF a <= b THEN a ELSE b

\* A partial fill that credits the whole bid.
FillWhole_Fault(w) == bid[w].volume

\* The volume that goes to `bid` when the CAS replaced `current`.
Fill(w) == Lesser(current[w], bid[w].volume)

\* allocations.get(&user).as_deref().unwrap_or(&0)
Held(u) == IF u \in DOMAIN allocations THEN allocations[u] ELSE 0

\* The order of the BTreeMap: (Reverse(price), seq).
Precedes(b, c) ==
    \/ b.price > c.price
    \/ b.price = c.price /\ b.seq < c.seq

\* Keys without Reverse: lowest price first.
FirstAscending_Fault(book) ==
    CHOOSE b \in book : \A c \in book : c = b \/ Precedes(c, b)

\* Last in, first out within a price level.
FirstNewest_Fault(book) ==
    CHOOSE b \in book : \A c \in book :
        \/ c = b \/ b.price > c.price
        \/ b.price = c.price /\ b.seq > c.seq

First(book) == CHOOSE b \in book : \A c \in book : c = b \/ Precedes(b, c)

\* A map keyed by price only.
InsertByPrice_Fault(book, b) == {c \in book : c.price # b.price} \cup {b}

\* BTreeMap::insert: a bid with the same key is replaced.
Insert(book, b) ==
    {c \in book : c.price # b.price \/ c.seq # b.seq} \cup {b}

-----------------------------------------------------------------------------
Init ==
    /\ supply = 0 /\ buy_seq_no = 0 /\ bids = {}
    /\ allocations = [u \in {} |-> 0]
    /\ holder = NoWorker /\ poisoned = FALSE
    /\ pc = [w \in Workers |-> "idle"]
    /\ req = [w \in Workers |-> NoRequest]
    /\ bid = [w \in Workers |-> NoBid]
    /\ todo = [w \in Workers |-> {}]
    /\ current = [w \in Workers |-> 0]
    /\ held = [w \in Workers |-> 0]
    /\ gauges = [open_bids |-> 0, supply |-> 0]
    /\ offered = 0 /\ demand = [u \in Users |-> 0] /\ calls = 0

At(w, label) == pc[w] = label
Goto(w, label) == pc' = [pc EXCEPT ![w] = label]

\* A handler ends: its stack frame, with every local, is gone.
Return(w) ==
    /\ Goto(w, "idle")
    /\ req' = [req EXCEPT ![w] = NoRequest]
    /\ bid' = [bid EXCEPT ![w] = NoBid]
    /\ todo' = [todo EXCEPT ![w] = {}]
    /\ current' = [current EXCEPT ![w] = 0]
    /\ held' = [held EXCEPT ![w] = 0]

\* The metrics are written by a destructor, which runs while a panic unwinds.
Panic_Fault(w) ==
    /\ poisoned' = TRUE
    /\ holder' = NoWorker
    /\ Goto(w, "metrics")
    /\ UNCHANGED <<shared, ghosts, req, bid, todo, current, held>>

\* A panic with the guard alive: the guard's Drop poisons and frees the lock.
Panic(w) ==
    /\ poisoned' = TRUE
    /\ holder' = NoWorker
    /\ Return(w)
    /\ UNCHANGED <<shared, ghosts>>

\* Request r reaches worker w.
Receive(w, r) ==
    /\ At(w, "idle") /\ calls < MaxCalls
    /\ req' = [req EXCEPT ![w] = r]
    /\ demand' = IF r.op = "buy" THEN [demand EXCEPT ![r.user] = @ + r.volume]
                                ELSE demand
    /\ calls' = calls + 1
    /\ Goto(w, "lock")
    /\ UNCHANGED <<shared, lock, bid, todo, current, held, offered>>

\* Any request may come.  Both transports refuse a sell of volume 0.
Call(w) == \E r \in BuyRequest \cup SellRequest : Receive(w, r)

\* A read lock, or none: others may be inside.
LockShared_Fault(w) ==
    /\ At(w, "lock") /\ ~poisoned
    /\ holder' = w
    /\ Goto(w, IF req[w].op = "buy" THEN "bump" ELSE "add")
    /\ UNCHANGED <<shared, poisoned, req, bid, todo, current, held, ghosts>>

\* ordered_locks_buy, ordered_locks_sell: bids.write() with the lock free.
Lock(w) ==
    /\ At(w, "lock") /\ holder = NoWorker /\ ~poisoned
    /\ holder' = w
    /\ Goto(w, IF req[w].op = "buy" THEN "bump" ELSE "add")
    /\ UNCHANGED <<shared, poisoned, req, bid, todo, current, held, ghosts>>

\* bids.write().unwrap() of a poisoned lock panics: the call is lost.
LockPoisoned(w) ==
    /\ At(w, "lock") /\ holder = NoWorker /\ poisoned
    /\ Return(w)
    /\ UNCHANGED <<shared, lock, ghosts>>

\* buy: buy_seq_no.fetch_add(1).  The bid takes the number the fetch_add gave
\* it here; what goes into the book is the number loaded again at the insert.
Bump(w) ==
    /\ At(w, "bump")
    /\ buy_seq_no' = buy_seq_no + 1
    /\ bid' = [bid EXCEPT ![w] = [user   |-> req[w].user,
                                  volume |-> req[w].volume,
                                  price  |-> req[w].price,
                                  seq    |-> buy_seq_no + 1]]
    /\ Goto(w, "load")
    /\ UNCHANGED <<supply, allocations, bids, gauges, lock,
                   req, todo, current, held, ghosts>>

\* buy: the load before the CAS loop.
Load(w) ==
    /\ At(w, "load")
    /\ current' = [current EXCEPT ![w] = supply]
    /\ Goto(w, "try")
    /\ UNCHANGED <<shared, lock, req, bid, todo, held, ghosts>>

\* sell: supply.fetch_add(volume), then retain starts at the first key.
Add(w) ==
    /\ At(w, "add")
    /\ supply' = WrappingAdd(supply, req[w].volume)
    /\ offered' = offered + req[w].volume
    /\ todo' = [todo EXCEPT ![w] = bids]
    /\ Goto(w, "next")
    /\ UNCHANGED <<buy_seq_no, allocations, bids, gauges, lock,
                   req, bid, current, held, demand, calls>>

\* sell: retain visits the next bid, in the order of the keys.
NextBid(w) ==
    /\ At(w, "next") /\ todo[w] # {}
    /\ LET b == First(todo[w]) IN
        /\ bid' = [bid EXCEPT ![w] = b]
        /\ todo' = [todo EXCEPT ![w] = @ \ {b}]
    /\ current' = [current EXCEPT ![w] = supply]
    /\ Goto(w, "try")
    /\ UNCHANGED <<shared, lock, req, held, ghosts>>

\* The test for leftover supply is forgotten.
StoreBidUnchecked_Fault(w) ==
    /\ At(w, "try") /\ req[w].op = "buy"
    /\ bids' = Insert(bids, [bid[w] EXCEPT !.seq = buy_seq_no])
    /\ Goto(w, "metrics")
    /\ UNCHANGED <<supply, buy_seq_no, allocations, gauges, lock,
                   req, bid, todo, current, held, ghosts>>

\* buy: nothing to sell, the whole bid goes into the book.
StoreBid(w) ==
    /\ At(w, "try") /\ req[w].op = "buy" /\ current[w] = 0
    /\ bids' = Insert(bids, [bid[w] EXCEPT !.seq = buy_seq_no])
    /\ Goto(w, "metrics")
    /\ UNCHANGED <<supply, buy_seq_no, allocations, gauges, lock,
                   req, bid, todo, current, held, ghosts>>

\* `continue` instead of `return true`.
KeepBidSpins_Fault(w) ==
    /\ At(w, "try") /\ req[w].op = "sell" /\ current[w] = 0
    /\ UNCHANGED vars

\* sell: the supply is used up, the bid stays as it is.
KeepBid(w) ==
    /\ At(w, "try") /\ req[w].op = "sell" /\ current[w] = 0
    /\ Goto(w, "next")
    /\ UNCHANGED <<shared, lock, req, bid, todo, current, held, ghosts>>

\* supply.compare_exchange(current, current.saturating_sub(volume))
CompareExchange(w) ==
    /\ At(w, "try") /\ current[w] # 0
    /\ IF supply = current[w]
       THEN /\ supply' = SaturatingSub(current[w], bid[w].volume)
            /\ Goto(w, "get")
            /\ UNCHANGED current
       ELSE /\ current' = [current EXCEPT ![w] = supply]
            /\ UNCHANGED <<supply, pc>>
    /\ UNCHANGED <<buy_seq_no, allocations, bids, gauges, lock,
                   req, bid, todo, held, ghosts>>

\* The old allocation is not read: insert replaces it.
GetNothing_Fault(w) ==
    /\ At(w, "get")
    /\ held' = [held EXCEPT ![w] = 0]
    /\ Goto(w, "put")
    /\ UNCHANGED <<shared, lock, req, bid, todo, current, ghosts>>

\* allocations.get(&user)
GetAllocation(w) ==
    /\ At(w, "get")
    /\ held' = [held EXCEPT ![w] = Held(bid[w].user)]
    /\ Goto(w, "put")
    /\ UNCHANGED <<shared, lock, req, bid, todo, current, ghosts>>

\* The remainder of a partly filled buy is dropped.
SettleDropsRest_Fault(w) ==
    LET b    == bid[w]
        full == current[w] >= b.volume
    IN  CASE req[w].op = "buy" -> bids
          [] req[w].op = "sell" /\ full -> bids \ {b}
          [] req[w].op = "sell" /\ ~full ->
                (bids \ {b}) \cup {[b EXCEPT !.volume = @ - current[w]]}

\* The book after the fill: a buy stores what is left of its own bid, a sell
\* removes a full bid or lowers the volume of a partly filled one.
Settle(w) ==
    LET b    == bid[w]
        full == current[w] >= b.volume
        rest == b.volume - current[w]
    IN  CASE req[w].op = "buy" /\ full   -> bids
          [] req[w].op = "buy" /\ ~full  ->
                Insert(bids, [b EXCEPT !.volume = rest, !.seq = buy_seq_no])
          [] req[w].op = "sell" /\ full  -> bids \ {b}
          [] req[w].op = "sell" /\ ~full ->
                (bids \ {b}) \cup {[b EXCEPT !.volume = rest]}

\* Off by one.
AllocationOverflowsLate_Fault(w) == held[w] + Fill(w) > Modulus

\* `alloc + fill` does not fit in a u64.
AllocationOverflows(w) == held[w] + Fill(w) >= Modulus

\* allocations.insert(user, alloc + fill), then the book, still private to w.
PutAllocation(w) ==
    /\ At(w, "put")
    /\ ~(OverflowChecks /\ AllocationOverflows(w))
    /\ allocations' = [u \in DOMAIN allocations \cup {bid[w].user} |->
                         IF u = bid[w].user THEN WrappingAdd(held[w], Fill(w))
                                            ELSE allocations[u]]
    /\ bids' = Settle(w)
    /\ Goto(w, IF req[w].op = "buy" THEN "metrics" ELSE "next")
    /\ UNCHANGED <<supply, buy_seq_no, gauges, lock,
                   req, bid, todo, current, held, ghosts>>

\* The same addition panics in a debug build: supply is taken, nothing is given.
PutPanics(w) ==
    /\ At(w, "put")
    /\ OverflowChecks /\ AllocationOverflows(w)
    /\ Panic(w)

\* allocations.iter().map(|e| *e).sum()
TotalAllocated == SumFunction(allocations)

\* sell: every bid was visited; `_total_alloc` is summed and dropped.
EndSell(w) ==
    /\ At(w, "next") /\ todo[w] = {}
    /\ ~(OverflowChecks /\ TotalAllocated >= Modulus)
    /\ Goto(w, "unlock")
    /\ UNCHANGED <<shared, lock, req, bid, todo, current, held, ghosts>>

\* `_total_alloc` does not fit in a u64: a debug build panics on the sum.
SumPanics(w) ==
    /\ At(w, "next") /\ todo[w] = {}
    /\ OverflowChecks /\ TotalAllocated >= Modulus
    /\ Panic(w)

\* metrics_buy_impl, which only buy_impl calls.
Metrics(w) ==
    /\ At(w, "metrics")
    /\ gauges' = [open_bids |-> Cardinality(bids), supply |-> supply]
    /\ Goto(w, "unlock")
    /\ UNCHANGED <<supply, buy_seq_no, allocations, bids, lock,
                   req, bid, todo, current, held, ghosts>>

\* The guard is dropped and the handler answers 200.
Unlock(w) ==
    /\ At(w, "unlock")
    /\ holder' = NoWorker
    /\ Return(w)
    /\ UNCHANGED <<shared, poisoned, ghosts>>

\* What worker w does with the lock held.
Step(w) ==
    \/ Bump(w) \/ Load(w) \/ Add(w) \/ NextBid(w)
    \/ StoreBid(w) \/ KeepBid(w) \/ CompareExchange(w)
    \/ GetAllocation(w) \/ PutAllocation(w) \/ PutPanics(w)
    \/ EndSell(w) \/ SumPanics(w) \/ Metrics(w) \/ Unlock(w)

\* Every call allowed by the bound was made and answered.
Finished ==
    /\ calls = MaxCalls
    /\ \A w \in Workers : At(w, "idle")
    /\ UNCHANGED vars

Next ==
    \/ \E w \in Workers : Call(w) \/ Lock(w) \/ LockPoisoned(w) \/ Step(w)
    \/ Finished

Spec == Init /\ [][Next]_vars

\* A thread with the lock never waits for another: buy_impl and sell_impl have
\* no await and take no other lock for longer than a statement.  A waiter gets
\* a lock that stays free.  Nothing is assumed of the order of the waiters.
FairSpec ==
    Spec /\ \A w \in Workers : WF_vars(Lock(w) \/ LockPoisoned(w) \/ Step(w))

-----------------------------------------------------------------------------
(* Properties *)

Labels == {"idle", "lock", "bump", "load", "add", "next", "try", "get", "put",
           "metrics", "unlock"}
Waiting == {"idle", "lock"}

\* Every variable holds a value of its kind; every amount the code keeps in a
\* u64 is one, whatever wrapped on the way.
TypeOK ==
    /\ supply \in U64 /\ buy_seq_no \in Nat
    /\ DOMAIN allocations \subseteq Users /\ IsFiniteSet(DOMAIN allocations)
    /\ allocations \in [DOMAIN allocations -> U64]
    /\ bids \subseteq Bid /\ IsFiniteSet(bids)
    /\ gauges \in [open_bids : Nat, supply : U64]
    /\ holder \in Workers \cup {NoWorker} /\ poisoned \in BOOLEAN
    /\ pc \in [Workers -> Labels]
    /\ req \in [Workers -> BuyRequest \cup SellRequest \cup {NoRequest}]
    /\ bid \in [Workers -> Bid \cup {NoBid}]
    /\ todo \in [Workers -> SUBSET Bid]
    /\ current \in [Workers -> U64] /\ held \in [Workers -> U64]
    /\ offered \in Nat /\ demand \in [Users -> Nat] /\ calls \in Nat

\* Supply taken by a CAS and not yet written to allocations.
InFlight(w) == IF pc[w] \in {"get", "put"} THEN Fill(w) ELSE 0

\* Every unit sold is in supply, in an allocation, or between the CAS and the
\* insert of one worker (the tests' supply_conservation, at every step and for
\* any interleaving), as long as the volume sold fits in a u64: the fetch_add
\* on supply wraps in both builds.  A panic between the CAS and the insert
\* loses the units in flight.
Conservation ==
    ~poisoned /\ offered < Modulus =>
        offered = supply + TotalAllocated
                  + SumFunction([w \in Workers |-> InFlight(w)])

\* The volume that the bids of user u ask for in a book.
Open(book, u) ==
    SumFunctionOnSet([b \in book |-> b.volume], {b \in book : b.user = u})

\* What the book and the allocations do not show yet of a buy by user u.
Unregistered(u, w) ==
    IF /\ req[w].op = "buy" /\ pc[w] \notin {"metrics", "unlock"}
       /\ req[w].user = u
    THEN req[w].volume ELSE 0

\* No bid is lost, duplicated or overwritten by another with the same key: all
\* that a user asked for is allocated, open in the book, or still with the
\* worker that handles the request.  A release build keeps these accounts as
\* long as the volume sold fits in a u64, a debug build always: it panics
\* before an allocation wraps.
DemandAccounted ==
    ~poisoned /\ (OverflowChecks \/ offered < Modulus) =>
        \A u \in Users :
            demand[u] = Held(u) + Open(bids, u)
                        + SumFunction([w \in Workers |-> Unregistered(u, w)])

\* Unused supply and open bids never coexist while nobody holds the lock: a buy
\* takes the leftover supply before it waits, a sell serves the book first.
NoIdleSupply ==
    holder = NoWorker /\ ~poisoned /\ supply > 0 => bids = {}

\* What a worker read of supply and of an allocation is still true when it acts
\* on it: the CAS never fails and the get-then-insert never loses an update.
\* This is what the lock gives, the atomics and the DashMap alone do not.
ReadsStayFresh ==
    \A w \in Workers :
        /\ At(w, "try") => current[w] = supply
        /\ At(w, "put") => held[w] = Held(bid[w].user)

\* Supply goes to a bid only when no bid of the book comes before it: highest
\* price first, then lowest sequence number.
PriceTimePriority ==
    [][\A w \in Workers :
          At(w, "try") /\ pc'[w] = "get" =>
              \A c \in bids : c = bid[w] \/ Precedes(bid[w], c)]_vars

\* No step takes volume away from a user (the tests'
\* allocation_monotonically_increases), so that successive GET /allocation of
\* a user never go down.
AllocationNeverDecreases ==
    [][\A u \in Users : Held(u)' >= Held(u)]_vars

\* One panic with the lock held is the last change the engine ever sees.
PoisonFreezes ==
    [][poisoned => poisoned' /\ UNCHANGED <<shared, holder>>]_vars

\* In a debug build an overflow panics before it changes anything but supply:
\* a wrapped sum is never stored as an allocation, so no user holds more than
\* was ever sold.
NobodyHoldsMoreThanSold == \A u \in Users : Held(u) <= offered

\* A debug build panics on overflow, as the design document says, also when
\* the volume of a sell does not fit into the supply.
SupplyOverflowPanics ==
    [][\A w \in Workers :
          At(w, "add") /\ ~At(w, "add")' /\ OverflowChecks
          /\ supply + req[w].volume >= Modulus => poisoned']_vars

\* A burst of calls drains: every call returns or panics, because retain and
\* the CAS loop end, the guard is always dropped and a poisoned lock is no
\* dead end.  (The calls of a behaviour are finitely many, so a waiter can be
\* overtaken only finitely often.)
BurstDrains == \A w \in Workers : At(w, "lock") ~> At(w, "idle")

-----------------------------------------------------------------------------
(* The inductive invariant behind the safety properties *)

Filling == {"try", "get", "put"}
InBuy(w)  == pc[w] \notin Waiting /\ req[w].op = "buy"
InSell(w) == pc[w] \notin Waiting /\ req[w].op = "sell"

\* One worker at a time is past the lock, in a place of its own operation.
LockDiscipline ==
    /\ poisoned => holder = NoWorker
    /\ \A w \in Workers :
        /\ holder = w <=> pc[w] \notin Waiting
        /\ pc[w] # "idle" => req[w] \in BuyRequest \cup SellRequest
        /\ pc[w] \in {"bump", "load", "metrics"} => req[w].op = "buy"
        /\ pc[w] \in {"add", "next"} => req[w].op = "sell"
        /\ pc[w] \in {"load"} \cup Filling => bid[w] \in Bid

\* The sequence numbers of the book are distinct and were handed out; the one
\* of a buy in progress is the latest and is not in the book yet.
BookKeys ==
    /\ \A b \in bids : b.seq <= buy_seq_no
    /\ \A b, c \in bids : b.seq = c.seq => b = c
    /\ \A w \in Workers :
        InBuy(w) /\ pc[w] \in {"load"} \cup Filling =>
            /\ bid[w].seq = buy_seq_no
            /\ \A b \in bids : b.seq < buy_seq_no

\* retain goes through the book in the order of the keys.
VisitOrder ==
    \A w \in Workers :
        /\ InSell(w) /\ pc[w] \in {"next"} \cup Filling => todo[w] \subseteq bids
        /\ InSell(w) /\ pc[w] \in Filling =>
            /\ bid[w] \in bids /\ bid[w] \notin todo[w]
            /\ \A c \in todo[w] : Precedes(bid[w], c)

\* Between the CAS and the insert, supply is what the CAS left.
Taken ==
    \A w \in Workers :
        pc[w] \in {"get", "put"} =>
            /\ current[w] # 0
            /\ supply = SaturatingSub(current[w], bid[w].volume)

\* With supply left, no bid was passed over: a buy runs on an empty book, and
\* what a sell has visited is gone.
NothingPassedOver ==
    \A w \in Workers :
        supply > 0 =>
            /\ InBuy(w) \/ pc[w] \in {"add", "unlock"} => bids = {}
            /\ InSell(w) /\ pc[w] = "next" => bids = todo[w]
            /\ InSell(w) /\ pc[w] \in Filling => bids = todo[w] \cup {bid[w]}

\* What every step preserves, and what TypeOK, NoIdleSupply, ReadsStayFresh and
\* PriceTimePriority follow from.
IInv ==
    /\ TypeOK
    /\ LockDiscipline /\ BookKeys /\ VisitOrder /\ Taken
    /\ NothingPassedOver /\ NoIdleSupply /\ ReadsStayFresh
=============================================================================

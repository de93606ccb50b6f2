------------------------------- MODULE TwMainV0 -------------------------------
(***************************************************************************)
(* The first version of the engine (tw_main_v0): supply is behind a Mutex  *)
(* and the book behind a RwLock, and both handlers take the two locks, in  *)
(* the same order, before buy_impl or sell_impl runs.                      *)
(*                                                                         *)
(* One action is one lock, or what the code does under both locks up to    *)
(* the next write of `allocations`: that DashMap is the only part that a   *)
(* caller without the locks can read.  A panic unwinds with both guards    *)
(* alive: they are dropped in the reverse order and poison their locks.    *)
(*                                                                         *)
(* u64 arithmetic is modulo Modulus, with a panic on overflow in a debug   *)
(* build (OverflowChecks).                                                 *)
(***************************************************************************)
EXTENDS Integers, Functions

CONSTANTS
    Workers, NoWorker, Users, Prices, Volumes,
    Modulus,         \* number of values of a u64
    OverflowChecks,  \* debug build?
    MaxCalls         \* bound on the calls of a behaviour

ASSUME V0Assumption ==
    /\ NoWorker \notin Workers
    /\ Modulus \in Nat \ {0}
    /\ Volumes \subseteq 0 .. Modulus - 1 /\ Prices \subseteq 0 .. Modulus - 1
    /\ OverflowChecks \in BOOLEAN /\ MaxCalls \in Nat

VARIABLES
    \* struct AppState
    buy_seq_no, supply, allocations, bids,
    supplyLock, bidsLock,   \* the worker with the guard, or NoWorker
    poisoned,               \* the locks that are poisoned
    \* locals of the worker that runs a handler
    pc, req,
    todo,                   \* bids that `retain` has still to visit
    \* history
    base,                   \* the state when a handler last returned without a panic
    offered, calls          \* volume sold so far; calls so far

data    == <<buy_seq_no, supply, allocations, bids>>
mutexes == <<supplyLock, bidsLock, poisoned>>
locals  == <<pc, req, todo>>
vars    == <<data, mutexes, locals, base, offered, calls>>

-----------------------------------------------------------------------------
(* A definition whose name ends in _Fault is the next one with a bug in it *)
(* that this code could have; no action uses it.                           *)

BuyRequest  == [op : {"buy"}, user : Users, volume : Volumes, price : Prices]
SellRequest == [op : {"sell"}, volume : Volumes]
NoRequest   == [op |-> "none"]
Requests    == BuyRequest \cup SellRequest

Held(u) == IF u \in DOMAIN allocations THEN allocations[u] ELSE 0

Overflows(n) == OverflowChecks /\ n >= Modulus
Wrap(n) == n % Modulus

Precedes(b, c) ==
    \/ b.price > c.price
    \/ b.price = c.price /\ b.seq < c.seq

\* Plain u64 keys: the lowest price comes first.
First_Fault(book) ==
    CHOOSE b \in book : \A c \in book :
        \/ c = b \/ b.price < c.price
        \/ b.price = c.price /\ b.seq < c.seq

\* The order of the keys (Reverse(price), seq).
First(book) == CHOOSE b \in book : \A c \in book : c = b \/ Precedes(b, c)

\* allocations.get(&user), then allocations.insert(user, alloc + volume)
Allocate(user, volume) ==
    allocations' = [u \in DOMAIN allocations \cup {user} |->
                       IF u = user THEN Wrap(Held(u) + volume) ELSE allocations[u]]

state == [seq |-> buy_seq_no, supply |-> supply, given |-> allocations,
          orders |-> bids]

Init ==
    /\ buy_seq_no = 0 /\ supply = 0 /\ bids = {}
    /\ allocations = [u \in {} |-> 0]
    /\ supplyLock = NoWorker /\ bidsLock = NoWorker /\ poisoned = {}
    /\ pc = [w \in Workers |-> "idle"]
    /\ req = [w \in Workers |-> NoRequest]
    /\ todo = [w \in Workers |-> {}]
    /\ base = state /\ offered = 0 /\ calls = 0

At(w, label) == pc[w] = label
Goto(w, label) == pc' = [pc EXCEPT ![w] = label]
Return(w) ==
    /\ Goto(w, "idle")
    /\ req' = [req EXCEPT ![w] = NoRequest]
    /\ todo' = [todo EXCEPT ![w] = {}]

\* A request reaches one of the handlers.  v0 does not refuse a sell of 0.
Call(w) ==
    /\ At(w, "idle") /\ calls < MaxCalls
    /\ calls' = calls + 1
    /\ \E r \in Requests : req' = [req EXCEPT ![w] = r]
    /\ Goto(w, "lock_supply")
    /\ UNCHANGED <<data, mutexes, todo, base, offered>>

\* sell takes the lock on bids first, buy the one on supply.
LockSupply_Fault(w) ==
    /\ At(w, "lock_supply")
    /\ IF req[w].op = "buy"
       THEN supplyLock = NoWorker /\ supplyLock' = w /\ UNCHANGED bidsLock
       ELSE bidsLock = NoWorker /\ bidsLock' = w /\ UNCHANGED supplyLock
    /\ Goto(w, "lock_bids")
    /\ UNCHANGED <<data, poisoned, req, todo, base, offered, calls>>

\* ordered_locks_buy, ordered_locks_sell: supply.lock().unwrap(), a panic with
\* no lock held when it is poisoned
LockSupply(w) ==
    /\ At(w, "lock_supply") /\ supplyLock = NoWorker
    /\ IF "supply" \in poisoned
       THEN Return(w) /\ UNCHANGED supplyLock
       ELSE /\ supplyLock' = w
            /\ Goto(w, "lock_bids")
            /\ UNCHANGED <<req, todo>>
    /\ UNCHANGED <<data, bidsLock, poisoned, base, offered, calls>>

\* .. then bids.write().unwrap(), a panic with the supply guard alive when it
\* is poisoned
LockBids(w) ==
    /\ At(w, "lock_bids") /\ bidsLock = NoWorker
    /\ IF "bids" \in poisoned
       THEN Goto(w, "unwind_supply") /\ UNCHANGED bidsLock
       ELSE bidsLock' = w /\ Goto(w, req[w].op)
    /\ UNCHANGED <<data, supplyLock, poisoned, req, todo, base, offered, calls>>

\* A bid of the book for `volume` of the request, with the latest number.
BidFor(w, volume) == [user |-> req[w].user, volume |-> volume,
                      price |-> req[w].price, seq |-> buy_seq_no + 1]

\* buy_impl: a full fill, a partial fill whose remainder is stored, or a bid
\* that waits; a sum that overflows panics before supply or bids change.
Buy(w) ==
    LET volume == req[w].volume
        user   == req[w].user
        fill   == IF supply >= volume THEN volume ELSE supply
        panics == supply > 0 /\ Overflows(Held(user) + fill)
    IN  /\ At(w, "buy")
        /\ buy_seq_no' = buy_seq_no + 1
        /\ \/ /\ panics
              /\ Goto(w, "unwind_bids")
              /\ UNCHANGED <<supply, allocations, bids>>
           \/ /\ ~panics
              /\ IF supply > 0 THEN Allocate(user, fill) ELSE UNCHANGED allocations
              /\ supply' = supply - fill
              /\ bids' = IF supply > 0 /\ fill = volume THEN bids
                         ELSE bids \cup {BidFor(w, volume - fill)}
              /\ Goto(w, "unlock_bids")
        /\ UNCHANGED <<mutexes, req, todo, base, offered, calls>>

\* sell_impl: **supply += volume, then retain starts.
Sell(w) ==
    /\ At(w, "sell")
    /\ IF Overflows(supply + req[w].volume)
       THEN Goto(w, "unwind_bids") /\ UNCHANGED <<supply, todo, offered>>
       ELSE /\ supply' = Wrap(supply + req[w].volume)
            /\ offered' = offered + req[w].volume
            /\ todo' = [todo EXCEPT ![w] = bids]
            /\ Goto(w, "retain")
    /\ UNCHANGED <<buy_seq_no, allocations, bids, mutexes, req, base, calls>>

\* `continue` instead of `return true`: without supply it comes back to the bid.
FillBidSpins_Fault(w) ==
    LET b    == First(todo[w])
        fill == IF supply >= b.volume THEN b.volume ELSE supply
    IN  /\ At(w, "retain") /\ todo[w] # {}
        /\ \/ supply = 0 /\ UNCHANGED <<data, todo, pc>>
           \/ /\ supply > 0 /\ Overflows(Held(b.user) + fill)
              /\ Goto(w, "unwind_bids")
              /\ UNCHANGED <<data, todo>>
           \/ /\ supply > 0 /\ ~Overflows(Held(b.user) + fill)
              /\ todo' = [todo EXCEPT ![w] = @ \ {b}]
              /\ Allocate(b.user, fill)
              /\ supply' = supply - fill
              /\ bids' = (bids \ {b}) \cup
                         (IF fill = b.volume THEN {}
                          ELSE {[b EXCEPT !.volume = @ - fill]})
              /\ UNCHANGED <<buy_seq_no, pc>>
        /\ UNCHANGED <<mutexes, req, base, offered, calls>>

\* The supply is taken before the allocation is written.
FillBidTakesFirst_Fault(w) ==
    LET b    == First(todo[w])
        fill == IF supply >= b.volume THEN b.volume ELSE supply
    IN  /\ At(w, "retain") /\ todo[w] # {}
        /\ supply' = supply - fill
        /\ IF Overflows(Held(b.user) + fill)
           THEN Goto(w, "unwind_bids") /\ UNCHANGED <<allocations, bids, todo>>
           ELSE /\ todo' = [todo EXCEPT ![w] = @ \ {b}]
                /\ Allocate(b.user, fill)
                /\ bids' = bids \ {b}
                /\ UNCHANGED pc
        /\ UNCHANGED <<buy_seq_no, mutexes, req, base, offered, calls>>

\* The closure of retain on the next bid: nothing without supply; otherwise a
\* full fill that removes the bid or a partial one that lowers it.
FillBid(w) ==
    LET b    == First(todo[w])
        fill == IF supply >= b.volume THEN b.volume ELSE supply
    IN  /\ At(w, "retain") /\ todo[w] # {}
        /\ \/ /\ supply = 0
              /\ todo' = [todo EXCEPT ![w] = @ \ {b}]
              /\ UNCHANGED <<supply, allocations, bids, pc>>
           \/ /\ supply > 0 /\ Overflows(Held(b.user) + fill)
              /\ Goto(w, "unwind_bids")
              /\ UNCHANGED <<supply, allocations, bids, todo>>
           \/ /\ supply > 0 /\ ~Overflows(Held(b.user) + fill)
              /\ todo' = [todo EXCEPT ![w] = @ \ {b}]
              /\ Allocate(b.user, fill)
              /\ supply' = supply - fill
              /\ bids' = (bids \ {b}) \cup
                         (IF fill = b.volume THEN {}
                          ELSE {[b EXCEPT !.volume = @ - fill]})
              /\ UNCHANGED pc
        /\ UNCHANGED <<buy_seq_no, mutexes, req, base, offered, calls>>

TotalAllocated == SumFunction(allocations)

\* The sum `_total_alloc`, which a debug build may panic on.
EndRetain(w) ==
    /\ At(w, "retain") /\ todo[w] = {}
    /\ Goto(w, IF Overflows(TotalAllocated) THEN "unwind_bids" ELSE "unlock_bids")
    /\ UNCHANGED <<data, mutexes, req, todo, base, offered, calls>>

\* The answer was formatted, or a panic unwinds: the guard on bids goes first.
UnlockBids(w) ==
    /\ pc[w] \in {"unlock_bids", "unwind_bids"}
    /\ bidsLock' = NoWorker
    /\ poisoned' = IF At(w, "unwind_bids") THEN poisoned \cup {"bids"} ELSE poisoned
    /\ Goto(w, IF At(w, "unwind_bids") THEN "unwind_supply" ELSE "unlock_supply")
    /\ UNCHANGED <<data, supplyLock, req, todo, base, offered, calls>>

\* A guard whose drop does not poison.
UnlockSupply_Fault(w) ==
    /\ pc[w] \in {"unlock_supply", "unwind_supply"}
    /\ supplyLock' = NoWorker
    /\ Return(w)
    /\ base' = IF At(w, "unwind_supply") THEN base ELSE state
    /\ UNCHANGED <<data, bidsLock, poisoned, offered, calls>>

\* The guard on supply is dropped last, and the handler returns.
UnlockSupply(w) ==
    /\ pc[w] \in {"unlock_supply", "unwind_supply"}
    /\ supplyLock' = NoWorker
    /\ poisoned' = IF At(w, "unwind_supply") THEN poisoned \cup {"supply"} ELSE poisoned
    /\ Return(w)
    /\ base' = IF At(w, "unwind_supply") THEN base ELSE state
    /\ UNCHANGED <<data, bidsLock, offered, calls>>

Step(w) ==
    \/ LockSupply(w) \/ LockBids(w)
    \/ Buy(w) \/ Sell(w) \/ FillBid(w) \/ EndRetain(w)
    \/ UnlockBids(w) \/ UnlockSupply(w)

\* Every call allowed by the bound was made and has ended.
Finished ==
    /\ calls = MaxCalls /\ \A w \in Workers : At(w, "idle")
    /\ UNCHANGED vars

Next == (\E w \in Workers : Call(w) \/ Step(w)) \/ Finished

Spec == Init /\ [][Next]_vars

\* A thread that can go on does, and a waiter gets a lock that stays free.
FairSpec == Spec /\ \A w \in Workers : WF_vars(Step(w))

-----------------------------------------------------------------------------
(* Properties *)

\* The guard on bids is only ever taken by the worker with the one on supply,
\* and given back first: no two handlers can wait for each other.
LocksInOrder ==
    /\ bidsLock # NoWorker => bidsLock = supplyLock
    /\ \A w \in Workers :
        At(w, "lock_bids") => supplyLock = w /\ bidsLock = NoWorker

\* A panic in a handler poisons both locks before another handler gets in, so
\* that none runs on a book that was left half-way.
PoisonedTogether ==
    supplyLock = NoWorker => poisoned \in {{}, {"supply", "bids"}}

\* In a debug build every unit sold is in supply or in an allocation at every
\* step, also after a panic in the middle of a sell: the sum that panics comes
\* before the supply it pays for is taken.
NothingLostInPanic ==
    OverflowChecks => offered = supply + TotalAllocated

\* Every call ends: it takes its locks, or finds them poisoned.
CallsEnd == \A w \in Workers : At(w, "lock_supply") ~> At(w, "idle")

Engine == INSTANCE MatchingEngine WITH
    offer    <- base.supply,
    given    <- base.given,
    orders   <- base.orders,
    arrivals <- base.seq

\* Each handler that returns is one atomic Buy or Sell of the abstract engine,
\* the one that the storages behind TwnEngine implement too.  A handler that
\* panics is none, and what it left behind is nowhere built upon.
ImplementsEngine == Engine!Spec
=============================================================================

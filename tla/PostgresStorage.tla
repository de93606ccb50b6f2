--------------------------- MODULE PostgresStorage ---------------------------
(***************************************************************************)
(* The Postgres matching engine: PostgresStorage::buy and ::sell, each one *)
(* transaction of several statements on three tables.                      *)
(*                                                                         *)
(* One action is one statement.  Isolation is READ COMMITTED, the default: *)
(* a statement sees what was committed before it and what its own          *)
(* transaction wrote; UPDATE and SELECT .. FOR UPDATE take row locks that  *)
(* last until the transaction ends.  Every Result is unwrapped, so that a  *)
(* failed statement, a lost connection or a lost answer to COMMIT panics   *)
(* the handler; dropping the transaction queues a ROLLBACK, and the locks  *)
(* stay until the server has executed it.                                  *)
(*                                                                         *)
(* A request carries u64 values modulo Modulus; `as i64` makes the upper   *)
(* half negative, and a BIGINT result out of range is an error.            *)
(***************************************************************************)
EXTENDS Integers, FiniteSetsExt

CONSTANTS
    Workers,         \* tasks that run handlers
    Users, Prices,
    Volumes,         \* volumes a request may carry
    Modulus,         \* number of values of a u64 (2^64)
    PoolSize,        \* connections of the pool (10 by default)
    MaxCalls,        \* bound on the calls of a behaviour
    MaxFailures      \* bound on the connections lost or refused

ASSUME PostgresAssumption ==
    /\ IsFiniteSet(Workers)
    /\ Modulus \in Nat \ {0}
    /\ Volumes \subseteq 0 .. Modulus - 1 /\ Prices \subseteq 0 .. Modulus - 1
    /\ PoolSize \in Nat \ {0} /\ MaxCalls \in Nat /\ MaxFailures \in Nat

VARIABLES
    \* the database: the committed value of each row, and the last bids.id
    table, lastId,
    \* per transaction: the rows it wrote and the rows it locked
    draft, locks,
    \* locals of the handler
    pc, req,
    supply, seq,     \* the values last read from supply_state
    bid,             \* the bid being filled: the caller's own or a fetched row
    fetched,         \* bids that the loop of sell has still to visit
    \* history
    sold,            \* sum of the committed sells, as i64
    confirmed,       \* what calls answered with success have sold and bought
    calls, failures  \* bounded by MaxCalls and MaxFailures

database == <<table, lastId>>
session  == <<draft, locks>>
locals   == <<pc, req, supply, seq, bid, fetched>>
ghosts   == <<sold, confirmed, calls, failures>>
vars     == <<database, session, locals, ghosts>>

-----------------------------------------------------------------------------
(* Values, rows and transactions *)
(*                                                                         *)
(* A definition whose name ends in _Fault is the next one with a bug in it *)
(* that this code could have; no action uses it.                           *)

I64 == -(Modulus \div 2) .. (Modulus + 1) \div 2 - 1

\* `n as i64` and `i as u64`
AsI64(n) == IF n \in I64 THEN n ELSE n - Modulus
AsU64(i) == i % Modulus

FitsBigint(n) == n \in I64

SupplyRow == <<"supply_state", 1>>
AllocationRow(u) == <<"allocations", u>>
BidRow(id) == <<"bids", id>>

BuyRequest  == [op : {"buy"}, user : Users, volume : Volumes, price : Prices]
SellRequest == [op : {"sell"}, volume : Volumes \ {0}]
NoRequest   == [op |-> "none"]
NoBid       == [id |-> 0]

\* The rows of `f`, over those of `g`.
Over(f, g) == [r \in DOMAIN f \cup DOMAIN g |->
                  IF r \in DOMAIN f THEN f[r] ELSE g[r]]

\* What a statement of w's transaction sees.
View(w) == Over(draft[w], table)

BidRows(rows) == {r \in DOMAIN rows : r[1] = "bids"}
BidsOf(rows) == {rows[r] : r \in BidRows(rows)}
OpenBids(rows) == {b \in BidsOf(rows) : b.volume > 0}

Precedes(b, c) ==
    \/ b.price > c.price
    \/ b.price = c.price /\ b.seq < c.seq

\* ORDER BY price ASC.
First_Fault(rows) == CHOOSE b \in rows : \A c \in rows : c = b \/ Precedes(c, b)

\* ORDER BY price DESC, seq ASC
First(rows) == CHOOSE b \in rows : \A c \in rows : c = b \/ Precedes(b, c)

\* No other transaction has a lock on one of the rows.
Available(w, rows) == \A v \in Workers \ {w} : locks[v] \cap rows = {}

Holding(w, rows) == locks' = [locks EXCEPT ![w] = @ \cup rows]

-----------------------------------------------------------------------------
Init ==
    /\ table = [r \in {SupplyRow} |-> [supply |-> 0, buy_seq |-> 0]]
    /\ lastId = 0
    /\ draft = [w \in Workers |-> [r \in {} |-> 0]]
    /\ locks = [w \in Workers |-> {}]
    /\ pc = [w \in Workers |-> "idle"]
    /\ req = [w \in Workers |-> NoRequest]
    /\ supply = [w \in Workers |-> 0] /\ seq = [w \in Workers |-> 0]
    /\ bid = [w \in Workers |-> NoBid]
    /\ fetched = [w \in Workers |-> {}]
    /\ sold = 0 /\ calls = 0 /\ failures = 0
    /\ confirmed = [sold |-> 0, bought |-> [u \in Users |-> 0]]

At(w, label) == pc[w] = label
Goto(w, label) == pc' = [pc EXCEPT ![w] = label]

Working == {"lock", "add", "select", "next", "take", "mark", "give", "insert",
            "bump", "commit"}
InTransaction(w) == pc[w] \in Working \cup {"aborted"}

\* The transaction is over: its locks and its uncommitted rows are gone.
EndTransaction(w) ==
    /\ draft' = [draft EXCEPT ![w] = [r \in {} |-> 0]]
    /\ locks' = [locks EXCEPT ![w] = {}]
    /\ Goto(w, "idle")
    /\ req' = [req EXCEPT ![w] = NoRequest]
    /\ supply' = [supply EXCEPT ![w] = 0] /\ seq' = [seq EXCEPT ![w] = 0]
    /\ bid' = [bid EXCEPT ![w] = NoBid]
    /\ fetched' = [fetched EXCEPT ![w] = {}]

\* UPDATE or upsert of one row to a value whose number is n: it waits for the
\* row lock, and panics the handler when n is out of range.
Update(w, row, value, n, next) ==
    /\ Available(w, {row})
    /\ IF FitsBigint(n)
       THEN /\ Holding(w, {row})
            /\ draft' = [draft EXCEPT ![w] = Over([r \in {row} |-> value], @)]
            /\ Goto(w, next)
       ELSE /\ Goto(w, "aborted")
            /\ UNCHANGED session

\* A request reaches a handler.
Call(w) ==
    /\ At(w, "idle") /\ calls < MaxCalls
    /\ \E r \in BuyRequest \cup SellRequest : req' = [req EXCEPT ![w] = r]
    /\ calls' = calls + 1
    /\ Goto(w, "begin")
    /\ UNCHANGED <<database, session, supply, seq, bid, fetched,
                   sold, confirmed, failures>>

InUse == {w \in Workers : InTransaction(w)}

\* pool.begin() gets a connection.
Begin(w) ==
    /\ At(w, "begin") /\ Cardinality(InUse) < PoolSize
    /\ Goto(w, IF req[w].op = "buy" THEN "lock" ELSE "add")
    /\ UNCHANGED <<database, session, req, supply, seq, bid, fetched, ghosts>>

\* begin().await.unwrap() panics: no connection of a pool in use comes free for
\* 30 seconds, or the database cannot be reached.
BeginFails(w) ==
    /\ At(w, "begin")
    /\ \/ Cardinality(InUse) >= PoolSize /\ UNCHANGED failures
       \/ failures < MaxFailures /\ failures' = failures + 1
    /\ Goto(w, "idle")
    /\ req' = [req EXCEPT ![w] = NoRequest]
    /\ UNCHANGED <<database, session, supply, seq, bid, fetched,
                   sold, confirmed, calls>>

\* A plain SELECT: it takes no lock and waits for none.
LockSupply_Fault(w) ==
    /\ At(w, "lock")
    /\ LET row == View(w)[SupplyRow] IN
        /\ supply' = [supply EXCEPT ![w] = row.supply]
        /\ seq' = [seq EXCEPT ![w] = row.buy_seq + 1]
        /\ bid' = [bid EXCEPT ![w] = [user   |-> req[w].user,
                                      price  |-> AsI64(req[w].price),
                                      volume |-> AsI64(req[w].volume)]]
        /\ Goto(w, IF row.supply <= 0 THEN "insert" ELSE "take")
    /\ UNCHANGED <<database, draft, locks, req, fetched, ghosts>>

\* buy: SELECT supply, buy_seq .. FOR UPDATE, and the casts of the request.
LockSupply(w) ==
    /\ At(w, "lock") /\ Available(w, {SupplyRow}) /\ Holding(w, {SupplyRow})
    /\ LET row == View(w)[SupplyRow] IN
        /\ supply' = [supply EXCEPT ![w] = row.supply]
        /\ seq' = [seq EXCEPT ![w] = row.buy_seq + 1]
        /\ bid' = [bid EXCEPT ![w] = [user   |-> req[w].user,
                                      price  |-> AsI64(req[w].price),
                                      volume |-> AsI64(req[w].volume)]]
        /\ Goto(w, IF row.supply <= 0 THEN "insert" ELSE "take")
    /\ UNCHANGED <<database, draft, req, fetched, ghosts>>

\* sell: UPDATE supply_state SET supply = supply + volume
AddSupply(w) ==
    /\ At(w, "add")
    /\ LET row   == View(w)[SupplyRow]
           total == row.supply + AsI64(req[w].volume)
       IN  Update(w, SupplyRow, [row EXCEPT !.supply = total], total, "select")
    /\ UNCHANGED <<database, req, supply, seq, bid, fetched, ghosts>>

\* sell: SELECT .. FROM bids WHERE volume > 0 ORDER BY .. FOR UPDATE
SelectBids(w) ==
    LET open == OpenBids(View(w))
        rows == {BidRow(b.id) : b \in open}
    IN  /\ At(w, "select") /\ Available(w, rows)
        /\ fetched' = [fetched EXCEPT ![w] = open]
        /\ Holding(w, rows)
        /\ Goto(w, "next")
        /\ UNCHANGED <<database, draft, req, supply, seq, bid, ghosts>>

\* sell: the next bid of the loop, and SELECT supply .. FOR UPDATE.  `break`
\* when nothing is left, and the end of the loop, lead to the commit.
NextBid(w) ==
    /\ At(w, "next") /\ fetched[w] # {} /\ Available(w, {SupplyRow})
    /\ Holding(w, {SupplyRow})
    /\ LET left == View(w)[SupplyRow].supply
           b    == First(fetched[w])
       IN  /\ supply' = [supply EXCEPT ![w] = left]
           /\ bid' = [bid EXCEPT ![w] = b]
           /\ fetched' = [fetched EXCEPT ![w] = @ \ {b}]
           /\ Goto(w, IF left = 0 THEN "commit" ELSE "take")
    /\ UNCHANGED <<database, draft, req, seq, ghosts>>

EndLoop(w) ==
    /\ At(w, "next") /\ fetched[w] = {}
    /\ Goto(w, "commit")
    /\ UNCHANGED <<database, session, req, supply, seq, bid, fetched, ghosts>>

Full(w) == supply[w] >= bid[w].volume
\* A partial fill that credits the whole bid.
Fill_Fault(w) == bid[w].volume
Fill(w) == IF Full(w) THEN bid[w].volume ELSE supply[w]

\* UPDATE supply_state: supply - volume for a full fill, 0 for a partial one.
Take(w) ==
    /\ At(w, "take")
    /\ LET row  == View(w)[SupplyRow]
           left == IF Full(w) THEN row.supply - bid[w].volume ELSE 0
       IN  Update(w, SupplyRow, [row EXCEPT !.supply = left], left,
                  IF req[w].op = "buy" THEN "give" ELSE "mark")
    /\ UNCHANGED <<database, req, supply, seq, bid, fetched, ghosts>>

\* sell: UPDATE bids: volume 0 for a full fill, volume - supply for a partial
\* one.
MarkBid(w) ==
    /\ At(w, "mark")
    /\ LET row == BidRow(bid[w].id)
           old == View(w)[row]
           left == IF Full(w) THEN 0 ELSE old.volume - supply[w]
       IN  Update(w, row, [old EXCEPT !.volume = left], left, "give")
    /\ UNCHANGED <<database, req, supply, seq, bid, fetched, ghosts>>

\* The sign of the update of supply_state in the update of allocations.
Upserted_Fault(rows, row, add) == IF row \in DOMAIN rows THEN rows[row] - add ELSE add

\* upsert_allocation: the row is inserted with `add`, or grows by it.
Upserted(rows, row, add) == IF row \in DOMAIN rows THEN rows[row] + add ELSE add

UpsertAllocation(w) ==
    /\ At(w, "give")
    /\ LET row   == AllocationRow(bid[w].user)
           value == Upserted(View(w), row, Fill(w))
       IN  Update(w, row, value, value,
                  CASE req[w].op = "sell" -> "next"
                    [] req[w].op = "buy" /\ Full(w) -> "bump"
                    [] OTHER -> "insert")
    /\ UNCHANGED <<database, req, supply, seq, bid, fetched, ghosts>>

\* buy: INSERT INTO bids the volume that is not filled.  The id comes from a
\* sequence, which no rollback takes back.
InsertBid(w) ==
    /\ At(w, "insert")
    /\ lastId' = lastId + 1
    /\ LET want == IF supply[w] <= 0 THEN bid[w].volume
                                     ELSE bid[w].volume - supply[w]
           row  == [id |-> lastId', user |-> bid[w].user, volume |-> want,
                    price |-> bid[w].price, seq |-> seq[w]]
       IN  draft' = [draft EXCEPT ![w] = Over([r \in {BidRow(lastId')} |-> row], @)]
    /\ Goto(w, "bump")
    /\ UNCHANGED <<table, locks, req, supply, seq, bid, fetched, ghosts>>

\* Bug: the UPDATE repeats the number that was read.
BumpSeq_Fault(w) ==
    /\ At(w, "bump")
    /\ Update(w, SupplyRow, [View(w)[SupplyRow] EXCEPT !.buy_seq = @],
              seq[w], "commit")
    /\ UNCHANGED <<database, req, supply, seq, bid, fetched, ghosts>>

\* buy: UPDATE supply_state SET buy_seq
BumpSeq(w) ==
    /\ At(w, "bump")
    /\ Update(w, SupplyRow, [View(w)[SupplyRow] EXCEPT !.buy_seq = seq[w]],
              seq[w], "commit")
    /\ UNCHANGED <<database, req, supply, seq, bid, fetched, ghosts>>

\* The server commits: the transaction's rows are the committed ones.
Committed(w) ==
    /\ table' = View(w)
    /\ sold' = IF req[w].op = "sell" THEN sold + AsI64(req[w].volume) ELSE sold
    /\ EndTransaction(w)
    /\ UNCHANGED <<lastId, calls>>

\* `tx` is dropped without commit: the caller is told of a success.
Commit_Fault(w) ==
    /\ At(w, "commit")
    /\ confirmed' = IF req[w].op = "sell"
                    THEN [confirmed EXCEPT !.sold = @ + req[w].volume]
                    ELSE [confirmed EXCEPT !.bought[req[w].user] = @ + req[w].volume]
    /\ EndTransaction(w)
    /\ UNCHANGED <<database, sold, calls, failures>>

\* tx.commit() succeeds and the handler answers.
Commit(w) ==
    /\ At(w, "commit")
    /\ Committed(w)
    /\ confirmed' = IF req[w].op = "sell"
                    THEN [confirmed EXCEPT !.sold = @ + req[w].volume]
                    ELSE [confirmed EXCEPT !.bought[req[w].user] = @ + req[w].volume]
    /\ UNCHANGED failures

\* The server commits but its answer is lost: the handler panics.
CommitAnswerLost(w) ==
    /\ At(w, "commit") /\ failures < MaxFailures
    /\ Committed(w)
    /\ failures' = failures + 1
    /\ UNCHANGED confirmed

\* The connection is lost before a statement or the commit takes effect.
LoseConnection(w) ==
    /\ pc[w] \in Working /\ failures < MaxFailures
    /\ failures' = failures + 1
    /\ Goto(w, "aborted")
    /\ UNCHANGED <<database, session, req, supply, seq, bid, fetched,
                   sold, confirmed, calls>>

\* The transaction is dropped without a rollback: its connection is not used
\* again.
Rollback_Fault(w) == At(w, "aborted") /\ UNCHANGED vars

\* The server rolls an abandoned transaction back.
Rollback(w) ==
    /\ At(w, "aborted")
    /\ EndTransaction(w)
    /\ UNCHANGED <<database, ghosts>>

BuyStep(w) == LockSupply(w) \/ InsertBid(w) \/ BumpSeq(w)
SellStep(w) ==
    AddSupply(w) \/ SelectBids(w) \/ NextBid(w) \/ EndLoop(w) \/ MarkBid(w)
Step(w) ==
    \/ Begin(w) \/ BuyStep(w) \/ SellStep(w) \/ Take(w)
    \/ UpsertAllocation(w) \/ Commit(w) \/ Rollback(w)

\* Every call allowed by the bound was made and has ended.
Finished ==
    /\ calls = MaxCalls
    /\ \A w \in Workers : At(w, "idle")
    /\ UNCHANGED vars

Next ==
    \/ \E w \in Workers :
        \/ Call(w) \/ Step(w) \/ BeginFails(w)
        \/ LoseConnection(w) \/ CommitAnswerLost(w)
    \/ Finished

Spec == Init /\ [][Next]_vars

\* A statement that has its rows is executed and answered, the server rolls
\* back what was abandoned, and a free connection goes to a waiter.  Failures
\* of begin() and losses may happen or not.
FairSpec == Spec /\ \A w \in Workers : WF_vars(Step(w))

-----------------------------------------------------------------------------
(* Properties *)

HeldIn(rows, u) == IF AllocationRow(u) \in DOMAIN rows
                   THEN rows[AllocationRow(u)] ELSE 0
OpenIn(rows, u) ==
    SumFunctionOnSet([r \in BidRows(rows) |-> rows[r].volume],
                     {r \in BidRows(rows) : rows[r].user = u /\ rows[r].volume > 0})
TotalIn(rows) ==
    SumFunctionOnSet(rows, {r \in DOMAIN rows : r[1] = "allocations"})

Holds(u) == HeldIn(table, u)
SupplyLeft == table[SupplyRow].supply
Balance == SupplyLeft + TotalIn(table)

\* GET /allocation: `volume as u64`, for a user with a row.
Allocation(u) == AsU64(Holds(u))

\* Only one transaction at a time has written or locked anything: both handlers
\* start with the row of supply_state.  So a handler that waits for a row holds
\* none, and no two can wait for each other; Postgres never has to break a
\* deadlock by failing one of them.
Busy(w) == locks[w] # {} \/ DOMAIN draft[w] # {}
OneWriter == \A v, w \in Workers : Busy(v) /\ Busy(w) => v = w

\* Every unit of a committed sell is in the supply or in an allocation, and a
\* transaction that was abandoned half-way leaves nothing behind.
BooksBalance == sold = Balance

\* What a caller was told is done stays done: no crash or later call takes a
\* confirmed sell or a confirmed buy away.
ConfirmedIsKept ==
    /\ confirmed.sold <= Balance
    /\ \A u \in Users : confirmed.bought[u] <= Holds(u) + OpenIn(table, u)

\* Committed supply and open bids never coexist, with any reader's timing.
NoIdleSupply == SupplyLeft > 0 => OpenBids(table) = {}

\* What GET /allocation returns for a user never goes down (the tests'
\* allocation_monotonically_increases, for this engine).
AllocationNeverDecreases ==
    [][\A u \in Users : Allocation(u)' >= Allocation(u)]_vars

\* Every call ends and gives its connection back, also with a pool smaller than
\* the number of callers and with connections lost on the way.
CallsEnd == \A w \in Workers : At(w, "begin") ~> At(w, "idle")

-----------------------------------------------------------------------------
(* The inductive invariant behind the safety properties: what a transaction *)
(* has made of the rows, statement by statement.  Only the transaction that *)
(* has the row of supply_state writes, so that nobody changes its view.     *)

Writing(w) == pc[w] \in Working \ {"lock", "add"}
Buying(w)  == Writing(w) /\ req[w].op = "buy"
Selling(w) == Writing(w) /\ req[w].op = "sell"

\* The keys of a table are those of its rows; the ids of the bids go up to
\* `ids`, and their sequence numbers differ and go up to `last`.
WellFormed(rows, ids, last) ==
    /\ IsFiniteSet(DOMAIN rows) /\ SupplyRow \in DOMAIN rows
    /\ rows[SupplyRow] \in [supply : Int, buy_seq : Nat]
    /\ \A r \in DOMAIN rows :
        \/ r = SupplyRow
        \/ \E u \in Users : r = AllocationRow(u) /\ rows[r] \in Int
        \/ \E i \in 1 .. ids :
            /\ r = BidRow(i)
            /\ rows[r] \in [id : {i}, user : Users, volume : Int,
                            price : I64, seq : 1 .. last]
    /\ \A r, q \in BidRows(rows) : rows[r].seq = rows[q].seq => r = q

\* The bids that `SELECT .. FOR UPDATE` has returned are still what is stored.
Fetched(w) ==
    /\ fetched[w] \subseteq OpenBids(View(w))
    /\ pc[w] \in {"take", "mark", "give"} => bid[w] \notin fetched[w]
    /\ pc[w] \in {"take", "mark"} => bid[w] \in OpenBids(View(w))

\* A transaction is in a place of its own operation, with the locals of it.
InPlace(w) ==
    /\ pc[w] \notin {"idle", "aborted"} => req[w] \in BuyRequest \cup SellRequest
    /\ pc[w] = "lock" => req[w].op = "buy"
    /\ pc[w] = "add" => req[w].op = "sell"
    /\ Writing(w) => WellFormed(View(w), lastId,
                                IF pc[w] = "bump" THEN seq[w]
                                                  ELSE View(w)[SupplyRow].buy_seq)
    /\ Buying(w) =>
        /\ pc[w] \in {"take", "give", "insert", "bump", "commit"}
        /\ pc[w] # "commit" =>
            /\ bid[w] = [user |-> req[w].user, price |-> AsI64(req[w].price),
                         volume |-> AsI64(req[w].volume)]
            /\ seq[w] = View(w)[SupplyRow].buy_seq + 1
            /\ supply[w] \in Int
    /\ Selling(w) =>
        /\ pc[w] \in {"select", "next", "take", "mark", "give", "commit"}
        /\ pc[w] \in {"next", "take", "mark", "give"} => Fetched(w)
        /\ pc[w] \in {"take", "mark", "give"} =>
            /\ supply[w] \in Int
            /\ bid[w].user \in Users /\ bid[w].volume \in Int

Drafts ==
    /\ lastId \in Nat
    /\ WellFormed(table, lastId, table[SupplyRow].buy_seq)
    /\ \A w \in Workers : InPlace(w)

\* What was taken from the supply and not given yet.
InHand(w) == IF pc[w] \in {"mark", "give"} THEN Fill(w) ELSE 0

\* A transaction moves volume, and only a sell adds some.
Balances(w) ==
    /\ Writing(w) =>
        View(w)[SupplyRow].supply + TotalIn(View(w)) + InHand(w)
          = sold + (IF req[w].op = "sell" THEN AsI64(req[w].volume) ELSE 0)
    /\ pc[w] = "take" => supply[w] = View(w)[SupplyRow].supply

\* With supply left in its view, a transaction has passed no bid over.
PassesNone(w) ==
    /\ pc[w] \in {"mark", "give"} /\ ~Full(w) => View(w)[SupplyRow].supply = 0
    /\ pc[w] = "insert" => View(w)[SupplyRow].supply <= 0
    /\ Buying(w) /\ pc[w] = "take" => View(w)[SupplyRow].supply > 0
    /\ View(w)[SupplyRow].supply > 0 =>
        /\ Buying(w) => OpenBids(View(w)) = {}
        /\ Selling(w) =>
            CASE pc[w] \in {"next", "give"} -> OpenBids(View(w)) = fetched[w]
              [] pc[w] \in {"take", "mark"} ->
                    OpenBids(View(w)) = fetched[w] \cup {bid[w]}
              [] pc[w] = "commit" -> OpenBids(View(w)) = {}
              [] pc[w] = "select" -> TRUE

\* Volumes below 2^63 are not negative as an i64.
NoNegatives == Volumes \subseteq I64

\* Nothing is below zero, and what a user holds fits its column.
Amounts(rows) ==
    /\ rows[SupplyRow].supply >= 0
    /\ \A u \in Users : HeldIn(rows, u) >= 0 /\ HeldIn(rows, u) \in I64
    /\ \A b \in BidsOf(rows) : b.volume >= 0

\* What a transaction has not entered yet of the account of user u.
Owed(w, u) ==
    CASE Buying(w) /\ pc[w] \in {"take", "give"} /\ req[w].user = u -> bid[w].volume
      [] Buying(w) /\ pc[w] = "insert" /\ req[w].user = u ->
            IF supply[w] <= 0 THEN bid[w].volume ELSE bid[w].volume - supply[w]
      [] Selling(w) /\ pc[w] = "give" /\ bid[w].user = u -> Fill(w)
      [] OTHER -> 0

\* What it adds to it, from its begin to its commit.
Asked(w, u) == IF Buying(w) /\ req[w].user = u THEN AsI64(req[w].volume) ELSE 0

\* A transaction takes nothing from any user, and adds what was asked.
Accounts(w) ==
    /\ Writing(w) => Amounts(View(w))
    /\ pc[w] \in {"take", "mark", "give", "insert"} =>
          supply[w] >= 0 /\ bid[w].volume >= 0
    /\ pc[w] = "insert" => bid[w].volume >= supply[w]
    /\ Writing(w) => \A u \in Users :
        /\ HeldIn(View(w), u) >= HeldIn(table, u)
        /\ HeldIn(View(w), u) + OpenIn(View(w), u) + Owed(w, u)
             = HeldIn(table, u) + OpenIn(table, u) + Asked(w, u)

IInv ==
    /\ Drafts /\ BooksBalance /\ NoIdleSupply
    /\ \A w \in Workers : Balances(w) /\ PassesNone(w)
    /\ NoNegatives =>
        /\ Amounts(table) /\ \A w \in Workers : Accounts(w)
        /\ ConfirmedIsKept /\ confirmed.sold <= sold

-----------------------------------------------------------------------------
(* Refinement *)

Engine == INSTANCE MatchingEngine WITH
    offer    <- SupplyLeft,
    given    <- [u \in {v \in Users : AllocationRow(v) \in DOMAIN table} |-> Holds(u)],
    orders   <- {[user |-> b.user, volume |-> b.volume, price |-> b.price,
                  seq |-> b.seq] : b \in OpenBids(table)},
    arrivals <- table[SupplyRow].buy_seq

\* What is committed only ever changes by one atomic Buy or Sell of the
\* abstract engine, the one the in-memory engine implements too; a transaction
\* that fails at any statement is not seen at all.
ImplementsEngine == Engine!Spec
=============================================================================

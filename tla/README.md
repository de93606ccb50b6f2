# TLA+ models and proofs for my_server_actix_web

The program is a small exchange for one good, "VM-hours".  Sellers add volume
(`POST /sell`), buyers bid for volume at a price (`POST /buy`), and anyone may ask
what a user has been allocated so far (`GET /allocation`).  The server (`twn`,
`src/src/tw_main_fn.rs`) offers these operations over HTTP (two actix workers) and
gRPC (the runtime of the main thread), so calls run on several threads at once.
Everything is matched by one engine, either in memory or in Postgres (a build
feature).  A side feature, `GET /btc-price`, asks an external service through a
circuit breaker.

This directory holds models of the parts where ordering, concurrency and failure
matter, TLC runs that check them on small instances, and TLAPS proofs for all
instances.  Paths below are relative to the repository, which is checked out in `src/`.

## Inventory

| Component | State | Operations | What is hard, and what makes it correct |
|---|---|---|---|
| In-memory engine (`src/tw_storage_in_memory.rs`, `buy_impl` and `sell_impl` in `src/tw_main.rs`) | `supply`, `buy_seq_no` (atomics), `allocations` (DashMap), `bids` (RwLock of a BTreeMap), the poison flag, the gauges | `buy`, `sell`, `allocation` | Threads interleave; four fields with four kinds of synchronisation have to move together. No volume lost or invented, no bid lost, price-time order, no leftover supply beside open bids, allocations only grow, one panic poisons the lock |
| Engine interface (`src/tw_matching_engine_trait.rs`) | - | the same three | Both storages, and the first version, must be one and the same engine |
| Postgres engine (`src/tw_storage_postgres.rs`, `migrations/`) | tables `supply_state`, `bids`, `allocations`; the pool | the same three, each a transaction | Row locks, lost connections, a lost answer to COMMIT, rollback by panic, a pool with a limit, u64 cast to i64 |
| First engine (`src/tw_main_v0.rs`) | `supply` and `bids` behind two locks, `allocations` | `buy`, `sell`, `allocation` | Lock order, two locks poisoned by one panic |
| Price feed (`src/tw_err_circuit_breaker.rs`) | `failures` (atomic), `circuit_state` (mutex) | `get_btc_price` | State read before an await and written after it; late answers from before the circuit opened; a path that forgets to update it |
| HTTP API (`src/tw_main.rs`) | - | `/buy`, `/sell`, `/allocation`, `/btc-price`, `/v2/buy`, `/` | Validation (only `sell` checks its volume), answers that are lost, calls that are sent twice |
| gRPC API (`src/tw_grpc.rs`) | - | `Buy`, `Sell`, `GetAllocation` | Same engine beside HTTP; absent fields get defaults; an unknown user is 0 here and an error in HTTP |
| Debug dump (`index` in `src/tw_main.rs`) | - | `GET /` | Reads four fields one after the other while handlers run, also after a panic |
| Server lifecycle (`src/tw_main_fn.rs`) | two server tasks, a stop timer | start, `select!`, abort | The first server to end ends the process, with the calls that are open |
| Auth, error bodies, versioning stub, middleware, benches | none | - | Pure functions, stubs and drivers |
| Tutorial programs (`src/main_*.rs`) | - | - | Examples from the actix documentation, not part of the server |

The handlers call the engine directly.  The in-memory engine's handlers hold the write
lock on `bids` from their first to their last access and never wait inside;
`/allocation` reads the DashMap without that lock.  The Postgres handlers wait at every
statement.  The price feed shares nothing with the engine.

## Modules

| Module | Models | Uses |
|---|---|---|
| `Matching` | how volume meets open orders, as functions of the book | |
| `MatchingEngine` | what a `TwnEngine` promises: `Buy` and `Sell` as atomic steps | `Matching` |
| `InMemoryStorage` | the in-memory engine, one action per access to shared state | |
| `InMemoryRefinement` | that it implements `MatchingEngine` | `InMemoryStorage`, `MatchingEngine` |
| `InMemoryArrival` | the order in which requests arrived, beside the order of their numbers | `InMemoryStorage` |
| `StateDump` | `GET /` beside the running handlers | `InMemoryStorage` |
| `PostgresStorage` | the Postgres engine, one action per statement, and its refinement | `MatchingEngine` |
| `TwMainV0` | the first engine, one action per lock or write of `allocations`, and its refinement | `MatchingEngine` |
| `OrderBook` | `buy_impl`, `sell_impl` and `allocation` of the first version as functions of the book | |
| `EngineTests` | the tests of both versions, as cases with phases of concurrent tasks | `OrderBook` |
| `InMemoryTests` | these tests run on the in-memory engine by several threads | `InMemoryRefinement`, `EngineTests` |
| `TwnApi` | both transports and their clients, over the atomic engine | `MatchingEngine` |
| `PriceFeed` | the circuit breaker | |
| `ServerLifecycle` | `main`: servers, timer, signals, `select!` | |
| `BookTheorems` | lemmas on sums over finite sets and on `Matching` | `Matching` |
| `*Proofs` | the theorems about the module of that name (those of `StateDump` are in `InMemoryStorageProofs`) | that module, `BookTheorems` |
| `MCInMemoryRefinement` | symmetry sets for TLC | |

**`InMemoryStorage`**: `pc[w]` is where worker `w` is in `buy_impl` or `sell_impl`:

| Label | Code | Actions |
|---|---|---|
| `idle` -> `lock` | a request reaches a handler; both transports refuse a sell of 0 | `Call` |
| `lock` | `bids.write().unwrap()` | `Lock`, `LockPoisoned` |
| `bump`, `load` | `buy_seq_no.fetch_add`, `supply.load` | `Bump`, `Load` |
| `add`, `next` | `supply.fetch_add`, the next element of `retain` and `supply.load` | `Add`, `NextBid` |
| `try` | the body of the CAS loop | `StoreBid`, `KeepBid`, `CompareExchange` |
| `get`, `put` | `allocations.get`, then `+`, `insert` and the book | `GetAllocation`, `PutAllocation`, `PutPanics` |
| `next`, nothing left | `_total_alloc` | `EndSell`, `SumPanics` |
| `metrics`, `unlock` | `metrics_buy_impl`, the guard's drop | `Metrics`, `Unlock` |

u64 arithmetic is modulo `Modulus`; `OverflowChecks` says whether `+` panics (debug
build) or wraps.  A bid is a record with the two parts of its key; `Precedes` is the
order of the BTreeMap and `Insert` replaces an equal key, as the map does.  The
sequence number that goes into the book is the one loaded at the insert, as in the
code.  `offered` and `demand` are history variables: they let the properties say that
nothing is lost.

**`MatchingEngine`** matches the volume on offer with the whole book at once, by the
formula of `Matching` for what each order gets, without a loop.  Three detailed modules are shown to
implement it, by TLC and by proof.  In `InMemoryRefinement` the history variable `base` keeps the book as it was
when the lock was last free, so that a call takes effect when its guard is dropped;
`TwMainV0` does the same for its two locks, and does not move `base` when a handler
panics: what a panic leaves half-way must never be built upon.  In `PostgresStorage` the abstract
engine is the committed tables themselves, and a call takes effect at its COMMIT.

**`PostgresStorage`**: `table` is what is committed, `draft[w]` and `locks[w]` are the rows
that the transaction of task `w` has written and locked.  A statement sees its own draft
over `table` (READ COMMITTED) and waits for the locks of the others.  The labels follow
the statements: `lock`, `take`, `give`, `insert`, `bump`, `commit` for a buy; `add`, `select`, `next`,
`take`, `mark`, `give`, `commit` for a sell.  Every `Result` is unwrapped, so `LoseConnection`, a BIGINT
out of range and `CommitAnswerLost` panic the handler; the dropped transaction stays in
the way (`aborted`) until `Rollback`.  `Begin` needs one of `PoolSize` connections,
`BeginFails` is the panic when none came in time or the database cannot be reached.  Postgres and sqlx are external: what is
said of them is what the code relies on.

**`TwMainV0`**: `lock_supply`, `lock_bids`, then `buy`, or `sell` and `retain`; `unwind_*` are the places
of a panic, at which the guards are dropped in reverse order and poison their locks.

**`OrderBook`**, **`EngineTests`** and **`InMemoryTests`**: a test is a set of cases; a case is a book to
start from and a sequence of phases; the calls of a phase are spawned together and joined
before the next phase.  The property tests become all vectors over small ranges.  The
assertions are evaluated on the last book, but for the one of `allocation_monotonically_increases`,
which the test makes after every round: it is an action property (`AllocationsIncrease`).  In `EngineTests` a task is one step, the
functions of `OrderBook`; in `InMemoryTests` it takes all the steps of `InMemoryStorage` on one
of several threads.  The two versions have the same tests, so the specification of
`EngineTests` is also what `InMemoryTests` is checked to implement.  `Text` is a number in
decimal, as `format!` writes it: a constant operator, which the run sets to `ToString` and of which the
proofs assume nothing.

**`TwnApi`**: `requests` and `answers` are sets of messages under way; one that is never taken
up is lost.  `Retry` sends another attempt of a call and drops the connection of the
last; the earlier attempt may still be served.  A gRPC request may lack any of its fields,
each by itself, for protobuf does not send a zero; so there are bids of nobody with a volume,
and bids of 0 with a name.  `Decoded` fills in what protobuf fills in for absent fields,
`Refused` is the validation of each transport.  Over HTTP a name may be empty; a body that lacks
a field is refused whatever it lacks.  The clients and the
network are external.

**`PriceFeed`** is `get_btc_price` with one action per lock region, atomic access and
await: the gate (`Pass`, `Try`, `Block`), the upstream's answer, the body, and the two
accesses that each outcome makes.  `healthy` is the upstream, `Tick` is the clock, `trials`
remembers which calls went through an open circuit.  `ParseFails` and `Disconnect` are the two ways in
which a call ends without a verdict: the body has another shape, or the client goes away and
actix drops the handler at its await.  When the last trial ends so, `stranded` says that the circuit
was left half-open.  Ages and counts stop at the limit
they are compared with.

**`StateDump`** adds `reading`, the field that the derived `Debug` comes to next, and `shown` and `shownBids`,
the allocations and the bids on the page.

**`ServerLifecycle`**: `timer`, `http` and `grpc` are the three tasks that `main` spawns, `call[c]` what
became of a call, `cut` whether the HTTP server was ended with its calls open.  What actix
and tonic do on a stop, a signal or a failure is external.

A definition whose name ends in `_Fault` is a variant of the definition after it with a
bug this code could have.  No action uses it; it serves to see that a property notices.

## Runs

| Run | What it shows | Bounds |
|---|---|---|
| `core_safety` | Nothing is lost, invented, overwritten, served out of order or left idle; the invariant of the proofs is one; the interleaved engine is the atomic one | 2 workers, 2 users, 2 prices, volumes 0 to 2, 4 calls |
| `overflow_debug` | When additions overflow in a debug build: nobody gets more than was sold, the engine freezes, no wrapped sum is stored or shown, the debug page counts no unit twice, every call ends | u64 of 3 values, volumes 1 and 2, 4 calls, one page |
| `engine_tests` | The tests pass in every interleaving, also the assert within a test, and every task does what the functions of the first version compute | 3 threads, 3 tasks of a kind, volumes and prices up to 2, vectors up to length 2 |
| `pg_engine` | One transaction writes at a time, the books balance, what was confirmed is kept, reads never go down, the committed tables are the atomic engine, every call ends; the invariant of the proofs is one | 3 tasks, 2 connections, 1 user, 2 prices, volumes 1 and 2, 3 calls, 1 connection or answer lost or refused |
| `v0_engine` | Locks are taken in order and poisoned together, a panic loses nothing, each returning handler is one atomic call, every call ends | 2 workers, 2 users, 2 prices, volumes 1 and 2, u64 of 3 values, 4 calls |
| `api_answers` | Answers are true whatever was lost or repeated, no read is older than the call for it over either transport, what was carried out is booked for the user it names | 1 client, 3 calls, 1 retry, 2 users of whom one has the empty name, volumes 0 (where it may be sent) and 2, one price, which no answer depends on |
| `breaker_recovery` | Trials are a cooldown apart; a half-open circuit has a trial out and ends, unless its last trial got a bad body or was dropped; otherwise a recovered upstream closes the circuit | 3 calls at a time, threshold 3, cooldown of 2 ticks; bodies fail to parse and clients go away at any time |
| `server_stop` | The timed stop loses no HTTP call by itself, and the gRPC server only by ending first; the process ends | 3 calls over either transport |
| `arrival_order` | Ties are not broken by arrival | violated, see below |
| `supply_overflow` | Overflow of the supply does not panic in a debug build | violated, see below |
| `breaker_stuck` | The test of an open circuit need not have a result: a trial that does not parse leaves it half-open | violated, see below |
| `breaker_early_close` | An open circuit does not stay open for the cooldown | violated, see below |

Why the bounds are enough.  Two workers are all an exclusive lock can tell apart: one
inside, one waiting.  Four calls allow two bids, with a tie or with different prices,
and two sells that fill, part-fill and pass them by, or three bids and a sell; volumes of 1
and 2 give full and partial fills in both directions, and 0 is the degenerate bid.
In `overflow_debug` and `v0_engine` every number comes near the width: four calls are what
it takes for two fills of one user, or of two users, to exceed it.  In Postgres the
third task is the one that finds no connection; with one user, whose bids differ in
price, a wrong order or amount still shows in what is left of each.  Three calls over
two transports with one retry are a write, its repetition and a read
that overtakes it; a client that gives up leaves its call under way when it makes the next, so
the calls of one client overlap as those of several do (two clients are 3.6 million states, in which
TLC found no error either).  For the feed, three callers who call again and again produce any
mix of successes, failures and late answers.  `MaxCalls`, `MaxRetries` and `MaxFailures` are the only bounds on a
behaviour; it may stop (`Finished`, `Joined`) only when all its calls have been
made and answered, so TLC's deadlock check stays on.  Users and workers are symmetric in
`core_safety`; the runs with a liveness property use no symmetry.

Fairness.  `InMemoryStorage` and `TwMainV0` have weak fairness of each worker: the code
inside the locks contains no await and the operating system schedules threads.  std's
locks promise no order among their waiters, so none is assumed; the property is stated
for finitely many calls.  The page of `StateDump` is asked nothing:
it may stop half-way.  `PostgresStorage` assumes
that a statement which has its rows is executed and that the server rolls back what was
abandoned; losses and failures of `begin()` may happen or not.  `PriceFeed!FairSpec` says that time
passes and that a call which went upstream gets an answer and runs on: the code sets no
timeout, so the answer is an assumption on the upstream; a client need not go away.  `BusySpec` adds that clients keep
calling, without which nobody would ever try the circuit.  No fairness is assumed of
`Toggle`.  `ServerLifecycle` assumes that time passes, that the timer and the drain run and
that `select!` takes a ready branch; nothing of the handlers, which may hang.

## What the runs found

* **Ties are not broken by arrival** (`arrival_order`).  The assignment asks for "true
  arrival order even under concurrency" (`src/tw_assignment_specs.md:37`).  The number is
  taken under the lock (`src/tw_main.rs:174`), so it is the order of acquisition.
* **Supply wraps in a debug build too** (`supply_overflow`).  `src/tw_design.md:22` counts on
  the debug panic, but `AtomicU64::fetch_add` (`src/tw_main.rs:297`) always wraps.
* **A trial that does not parse stalls the feed for good** (`breaker_stuck`), as the todo at
  `src/tw_err_circuit_breaker.rs:112` suspects.  A trial whose client goes away does the same
  (`breaker_recovery` has both and shows that there is no third way, `OnlyLostTrialsStrand`).
* **An open circuit can close before its 10 seconds are over** (`breaker_early_close`): a
  success that was under way when it opened is applied to the new state.

`src/tw_known_issues.md:15` suspects a race between `fetch_add` and the later `load` of the
sequence number.  There is none: both happen under the lock (`BookKeys`, proved).

Differences between code and documents that were noticed while modelling, and that no
run is about:

* A repeated `/buy` whose first answer was lost is carried out twice (`TwnApi`, `Retry`), while
  `src/tw_data_valid_error_handling.md:87` asks for idempotency.  `AnswersAreHonest` bounds it by
  the number of attempts.
* For a user without an allocation gRPC answers 0 and HTTP 400 (`src/tw_gRPC.md:68` notes it).
* On Postgres a volume of 2^63 or more becomes negative, takes the full-fill branch, and
  lowers the allocation that is read next.  A bid of volume 0 is inserted but never
  selected again, while the in-memory engine fills it with nothing.
* The gauges are set by a buy only: after a sell they show the book before it.
* The page of `GET /` can mix fields of different moments, and shows `<locked>` for a book
  that a handler has.
* Three failures that are counted between the two steps of a success (the count reset, the
  mutex) open the circuit, and the success then closes it.
* `test_4` of the price feed expects one request of a burst to go upstream; when the trial is
  answered early, more do (the note at `src/tw_err_circuit_breaker.rs:194` knows it).
* `src/tw_known_issues.md:35` says there is no graceful shutdown, and that the handle of the server "is
  created but never used for graceful drain".  The timer uses it: `stop(true)`
  (`src/tw_main_fn.rs:128`) is actix's graceful stop, so open HTTP calls are drained; the note is older than
  the code or means something else by it.  It is right about the rest: a call over gRPC is never drained,
  Ctrl+C drains nothing, and an HTTP call is lost when the gRPC server ends first
  (`TimedStopIsGraceful` names the cases in which one may be).
* `main` says that the stop timeout was reached (`src/tw_main_fn.rs:164`) whichever server ended
  and why; a gRPC server that cannot bind its port takes the HTTP server down; the timer
  that a comment calls "the 5-min timer" sleeps for 15 minutes.
* The unit test `allocation` of the first version expects the text of the handler from
  `allocation_impl`, which returns another one.
* The tests of `src/tw_main.rs` are written for an `AppState` that has the fields of the engine
  itself; `InMemoryTests` plays the calls and the assertions that they make.

## Proofs

The theorems hold for every set of workers, users, prices and volumes and every width of
the integers, under the named assumption of the module they are about (`Workers` is
finite, volumes and prices fit in a u64, the model values of "none" are no workers or users).
What a theorem assumes beyond that is said with it.

**What they rest on.**  `BookTheorems` has two parts.  Sums over finite sets: what adding, removing or
changing one element does to `SumFunctionOnSet`, that a sum of naturals is monotonic, and
that only the non-zero elements count (`SumRemove`, `SumChange`, `SumMonotonic`, `SumSupport`,
...).  The library's induction theorems take an operator as a parameter, which the provers here
do not instantiate, so each is shown by a smallest counterexample instead: `LeastNat` is
the least element of a set of naturals, `SmallestSubset` a subset of least size that has a
property.  Then the matching rule of `Matching`: a match gives exactly what was on offer or what
was wanted (`MatchGives`), keeps what each user asked for (`MatchKeepsDemand`), and can be peeled from
its first order on - the first is filled and the rest of the book meets what is left
(`MatchFull`), the first is filled in part and nothing is left (`MatchPartial`), nothing is on
offer (`MatchIdle`), the book has one order (`MatchAlone`).  The last four are what relates a loop
over the book to the formula, which has none.

**`InMemoryStorageProofs`** proves, for both build profiles unless said otherwise:

* `TypeCorrect`, `LeftoverIsServed`, `NoLostUpdate`: `TypeOK`, `NoIdleSupply` and `ReadsStayFresh` are
  invariants; `FillsInOrder`: supply is only taken for the first bid of the book;
  `PoisonIsFinal`: a poisoned engine never changes; `DebugAllocationsGrow`: with overflow checks no
  allocation goes down;
* `HoldingsAreBacked`: no allocation exceeds what was sold;
* `SupplyIsConserved`: `Conservation`, every unit sold is in the supply, in an allocation or in
  the hand of a worker (its own condition: nobody panicked, and the volume sold fits in a
  u64, because `fetch_add` wraps in both builds);
* `NoBidIsLost`: `DemandAccounted`, per user, all that was asked for is allocated, open or with a
  worker (no condition on what was sold in a debug build);
* `PageIsBacked`: with overflow checks, the debug page shows nobody more than is held;
  `PageCountsOnce`: nor more, allocated and open together, than was asked for.  A page that read the
  bids before the allocations would; in the code's order the allocations it shows are
  older than the bids, so no more than those beside the bids, and at every moment what is allocated
  and open is within what was asked for (`Within`, also of a book that a panic left half-way).

`NoIdleSupply` is not inductive: that the book is empty at the end of a sell depends on which
bids `retain` has visited, in what order, and on supply being what the last CAS left.  `IInv`
says so for each place in the code: `LockDiscipline` (one worker inside), `BookKeys` (distinct
sequence numbers, the buy in progress has the latest), `VisitOrder`, `Taken`, `NothingPassedOver`.
`FirstPrecedes`, that a non-empty part of the book has a first bid, rests on the
well-foundedness of the naturals and on prices being bounded.  The other invariants stand on
top of `IInv`: `Backed` bounds each user's allocation, the supply and what is in flight by what was
sold; `Books` is `Conservation` while nothing has wrapped; `Accounts` is the balance per user, with
the bid that a handler carries (`Carried`).  The only place where they need that additions do
not wrap is what `Backed` gives: an amount that was sold and fits cannot overflow where it goes.

**`InMemoryRefinementProofs`** proves `ImplementsTheEngine`: as long as the volume sold fits in a u64, the
interleaved engine is the atomic one, in both builds, and no handler panics.  Its
invariant `RefInv` compares the data with `base`, the book as the last handler left it: for a
sell at `retain`, the bids that are done with are as the sell leaves them, and those
to come will be when they meet what is on offer (`SellUnderWay`); for a buy, only the number is
taken until the CAS has succeeded (`BuyUnderWay`); a handler with only its guard to drop has
made one match of the whole book (`Done`).  Each round of `retain` is one peel lemma.  Without
the condition the theorem is false: a supply that wraps is not what was sold.

It proves `TestsImplementTheBook` too, under the same condition: in every test, for every range of its
inputs, every number of spawned tasks and of threads, each task does what the functions of
the first version compute from the book in one go (`ImplementsBook`).  The argument has three parts.
`SellImplMatches`: the fold of `Visit` over the book in key order, which is a loop over a list, is one
match of the whole book (`FoldVisits` unrolls the fold, `VisitPeels` is its step); `BuyImplMatches` is the
same for a buy.  `TasksTaken`: each busy worker has a task of its own, which is out until the
worker returns.  `EngineHolds`: the engine started from an empty book, with some supply, keeps all the
invariants above.  Two blocks of the unit test `sell` put a bid into the book by hand, with a number that
`buy_seq_no` never gave out, so that `BookKeys` does not hold; `SoloHolds` follows their one task from
place to place.  `RequestsAssumption` says that the tests make requests of the engine's `Users`, `Volumes` and
`Prices`; TLC evaluates it.

`TestsAlwaysPass` adds that the asserts at the ends of all these tests hold (`TestsPass`), and
`RoundsAlwaysAdd` the one inside `allocation_monotonically_increases`: no step of it lowers what `u1` has (`RunGives`).  What TLC
shows for three tasks of a kind and volumes up to 2 holds for the 50 and 100 tasks and the
volumes up to 9999 that the tests sample.  The asserts speak of the last book only, so `TestCourse` says what
leads there, in three invariants that each step of the refinement keeps:

* `OnTrack`: a test that makes one call after the other has reached one of the books that its calls
  lead to.  The last of them is computed bid by bid with the peel lemmas (`MatchGoesOn`, `MatchEnds`): the
  unit tests, and for any volumes and prices `FifoTest`, `HigherTest`, `NeverExceedsTest`, `RemainderTest`;
* `Balance`: supply and allocations are what the test started with and what the tasks that ran
  have sold (`RunConserves`, which rests on `MatchConserves`: a match moves volume and makes none).  At the
  end this is all that the test sells; `WorthOfHalves` and `SumOfList` add that up for the number of tasks and
  the phases of the test, which no order of the tasks changes;
* `SamePrice`: when q of the equal bids of `same_price_buy_requests` are stored, they have the numbers
  1 to q, whichever task was next.

**`PostgresStorageProofs`** proves the lock discipline (`LocksInOrder`): every transaction that has
locked or written anything holds the row of `supply_state`.  `NoDeadlockOfRows` follows: one
transaction at a time has locks, so no two wait for each other.  It follows too that only the
holder's view differs from the tables and that nobody moves the tables under it (`Bystander`),
which is what makes the rest provable one transaction at a time:

* `StatementsKeepTheBooks`: `IInv` is an invariant.  It follows a transaction statement by
  statement: what rows it has made (`Drafts`, `InPlace`), that supply, allocations and what is in
  hand add up to the committed sells and its own (`Balances`), that with supply left it has passed
  no bid over (`PassesNone`), and that it takes nothing from any user and adds what was
  asked (`Accounts`);
* `BooksAlwaysBalance` and `SupplyIsNeverIdle`: the committed tables balance and never have supply
  beside an open bid, whatever statement fails;
* `ConfirmedStaysDone` and `AllocationsOnlyGrow`: what a caller was told is done stays done, and no read
  goes down, under `NoNegatives`: no request carries a volume of 2^63 or more, which `as i64`
  would make negative.  The code does not check this; without it both are false;
* `PostgresIsTheEngine`: each COMMIT is one atomic call of the engine, and a transaction that fails
  anywhere is none.  It holds under `PlainRequests`: `NoNegatives`, the same of prices, and no buy of
  volume 0, which Postgres stores but never opens.  Its invariant `RefInv` relates the view of the
  transaction that writes to the match it is in the middle of: a buy has changed nothing yet, has given
  the supply away, or has reached the match of the book with its order (`BuyProgress`); what a
  sell makes of all the open bids is what it has made of those it visited and would make
  of those it has still to visit, with the supply that is left (`SellProgress`, `LeftToMatch`).
  Each round of the loop is a peel lemma, its three statements the three places in between.
  Besides the proof, TLC found `RefInv` to hold with two tasks, two users, volumes up to 3 and four
  calls.

**`TwMainV0Proofs`** proves where each guard is held (`GuardsInPlace`), and from it that the two locks
are nested (`OrderedLocks`) and that no handler gets in between the two poisonings of a panic
(`PanicPoisonsBoth`).  `BookInv` adds the book: distinct numbers, `retain` has a part of it to visit, the balance of
supply and allocations; `NothingIsLost` is `NothingLostInPanic` from it.  `FirstVersionIsTheEngine` is the
refinement, in a debug build: each handler that returns is one atomic call, and one that
panics is none, for a lock is poisoned before another handler can read what was left.
Its invariant `RefInv` is like the one of the in-memory engine: how far a sell is, in the order of the book, is in `Progress`; in a release build additions wrap and the
theorem is false.

**`TwnApiProofs`** proves the client's side over the atomic engine: `HonestAnswers` (success was carried
out, errors changed nothing), `FreshReads` (no read over either transport is older than its
call) and `EveryAttemptIsBooked` (each attempt that a handler carried out is in the book or in the
allocations of the user it names, once).  The invariant behind the first two, `IInv`, counts attempts: a call is carried out at most once for each of its
attempts that is no longer on its way, and an answer under way is vouched for by the
state, which only grows.  That a match takes nothing from a user comes from `MatchRule` and
`MatchEffect`.

**`PriceFeedProofs`** proves `TypeOK` and `TrialsSpaced` for any number of callers, any cooldown and any
threshold, from the invariant that an open circuit is not older than the last trial; and
`BlockedByATrial`, with no assumption on bodies or clients: a half-open circuit has a trial out, or its
last trial was lost to a body that does not parse or to a client that went away.

**`ServerLifecycleProofs`** proves `TimedStopIsGraceful` for any set of calls.  It rests on
`NothingOpenWhenDrained`, which is no more than what actix promises of a graceful stop: what remains is that
no path of `main` ends the process under an HTTP server that is up, but the one through gRPC.

What the attempts showed.  The `CASE` of `UpsertAllocation` and some of `OrderBook` had overlapping guards: TLC
takes the first that holds, TLA+ leaves the choice open, and no proof went through until
they were disjoint, as the code's branches are.  The invariant of the Postgres engine lacked
that a buy comes to `take` only with supply left.  TLC had not needed it, since its runs start
from `Init`.

Model-checked only: `BurstDrains`, `HalfOpenResolves`, `FeedRecovers`, `CallsEnd` and `ProcessEnds`,
which are liveness under fairness; the provers here have no rule for it, nor one for `ENABLED`.
Every invariant and every action property of the passing runs is proved.

## Not modelled

`buy_seq_no` and the history variables do not wrap (2^64 buys are out of reach).  The
duration histogram and the request counter of `metrics_buy_impl` are left out: nothing
reads them.  `allocation` has no action in the engines, for it changes nothing; that
successive answers never go down is `AllocationNeverDecreases`.  A client that disconnects
does not stop a handler of the in-memory engine, which never yields.  `/btc-price` only turns the result of the feed into a status, and `/v2/buy`
answers a constant.  Authentication is a call of a library whose result is not used yet;
middleware, error bodies, logging and the set-up of metrics have no state and no branch.
The tests of the price feed, the benches, and the tutorial programs, which share no code
with the server, have no model.

## What is left

The Postgres casts as a run of their own, the tests of the price feed in the manner of
`InMemoryTests`, and the gauges after a sell.

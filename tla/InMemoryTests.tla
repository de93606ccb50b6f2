----------------------------- MODULE InMemoryTests -----------------------------
(***************************************************************************)
(* The tests of tw_main, which are those of tw_main_v0, on the in-memory   *)
(* engine step by step: the tasks that a test spawns run on Workers, and   *)
(* the runtime may start them in any order and interleave them anywhere.   *)
(***************************************************************************)
EXTENDS InMemoryRefinement, Sequences

CONSTANTS
    MaxVolume, MaxPrice, MaxLength, Tasks,    \* as in EngineTests
    Text(_),
    NoTask

ASSUME TestsAssumption ==
    /\ MaxVolume \in Nat \ {0} /\ MaxPrice \in Nat \ {0}
    /\ MaxLength \in Nat \ {0} /\ Tasks \in Nat \ {0}

VARIABLES
    case, phase, pending,    \* as in EngineTests
    running                  \* the task that a worker has taken, or NoTask

script   == <<case, phase, pending, running>>
testVars == <<vars, base, script>>

\* Tasks that were spawned and have not been joined.
Outstanding == phase \cup {running[w] : w \in {v \in Workers : ~At(v, "idle")}}

\* A task counts as run, and its effect on the book as made, when it gives the
\* lock back.
V0 == INSTANCE EngineTests WITH
    book  <- [seq |-> base.seq, supply |-> base.supply,
              given |-> base.allocations, orders |-> base.bids],
    phase <- Outstanding

\* The tests make requests that the engine may receive.
ASSUME RequestsAssumption ==
    \A c \in V0!Cases : c.phases \in Seq(SUBSET (Nat \X (BuyRequest \cup SellRequest)))

http_tests == V0!test_basics_buy_sell_and_allocation \cup V0!unused_supply_auto_sold

concurrency_tests ==
    V0!same_price_buy_requests \cup V0!buy_and_sell \cup
    V0!buys_no_oversell_v2 \cup V0!buys_no_oversell

property_tests ==
    V0!allocation_monotonically_increases \cup V0!supply_conservation \cup
    V0!fifo_within_same_price \cup V0!higher_price_always_fills_first \cup
    V0!allocated_never_exceeds_supply \cup V0!partial_fill_remainder_stays_open

\* The first test of unit_tests, unused_supply_auto_sold, is the one that
\* http_tests has as test_example_in_assignment_doc.
unit_tests ==
    V0!sell \cup V0!buy \cup
    V0!higher_price_always_fills_first_unit \cup V0!buy_same_user_buys_twice

InitTest ==
    /\ case \in http_tests \cup concurrency_tests \cup property_tests \cup unit_tests
    /\ phase = {} /\ pending = case.phases
    /\ supply = case.start.supply /\ bids = case.start.orders
    /\ allocations = case.start.given /\ buy_seq_no = 0
    /\ holder = NoWorker /\ poisoned = FALSE
    /\ pc = [w \in Workers |-> "idle"]
    /\ req = [w \in Workers |-> NoRequest]
    /\ bid = [w \in Workers |-> NoBid]
    /\ todo = [w \in Workers |-> {}]
    /\ current = [w \in Workers |-> 0] /\ held = [w \in Workers |-> 0]
    /\ gauges = [open_bids |-> 0, supply |-> 0]
    /\ offered = supply /\ demand = [u \in Users |-> Open(bids, u)] /\ calls = 0
    /\ base = state /\ running = [w \in Workers |-> NoTask]

\* tokio::spawn for each call of the phase, after the joins of the last one.
Spawn ==
    /\ Outstanding = {} /\ pending # <<>>
    /\ phase' = Head(pending) /\ pending' = Tail(pending)
    /\ UNCHANGED <<vars, base, case, running>>

\* buy_impl_for_test, sell_impl_for_test: a thread picks a task up and asks for
\* the lock.
Start(w) ==
    /\ \E task \in phase :
        /\ Receive(w, task[2])
        /\ phase' = phase \ {task}
        /\ running' = [running EXCEPT ![w] = task]
    /\ UNCHANGED <<base, case, pending>>

Work(w) ==
    /\ Lock(w) \/ Step(w)
    /\ base' = IF holder' = NoWorker THEN state' ELSE base
    /\ running' = IF At(w, "idle")' THEN [running EXCEPT ![w] = NoTask] ELSE running
    /\ UNCHANGED <<case, phase, pending>>

Joined == Outstanding = {} /\ pending = <<>> /\ UNCHANGED testVars

NextTest == Spawn \/ Joined \/ \E w \in Workers : Start(w) \/ Work(w)

TestSpec == InitTest /\ [][NextTest]_testVars

\* The asserts at the end of the tests of tw_main hold for every input of the
\* ranges and every interleaving of the tasks, and the unit tests end with the
\* books they expect: what the tests sample, for all schedules.
TestsPass == V0!AssertionsHold /\ V0!UnitTestsPass

\* The assert within allocation_monotonically_increases: while its bids and
\* supplies come in, what u1 has been allocated never goes down.
AllocationsIncrease ==
    [][case.test = "allocation_monotonically_increases" =>
            V0!allocation_monotonically_increases_asserts]_testVars

\* Each task of a test, interleaved with the others at every access, does to the
\* book what buy_impl or sell_impl of the first version computes from it in one
\* go, in one of the orders in which the tasks can be run.
ImplementsBook == V0!Spec
=============================================================================

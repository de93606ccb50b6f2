-------------------------- MODULE InMemoryRefinement --------------------------
(***************************************************************************)
(* InMemoryStorage implements MatchingEngine: under the lock on bids each  *)
(* buy and each sell takes effect at once, when the guard is dropped.      *)
(*                                                                         *)
(* The history variable `base` keeps what the book was when the lock was   *)
(* last taken.  While a worker holds the lock the engine is still at base; *)
(* when the lock is free it is at the variables of the code.               *)
(***************************************************************************)
EXTENDS InMemoryStorage

VARIABLE base

state == [supply |-> supply, allocations |-> allocations, bids |-> bids,
          seq |-> buy_seq_no]

InitH == Init /\ base = state

NextH ==
    /\ Next
    /\ base' = IF holder' = NoWorker THEN state' ELSE base

SpecH == InitH /\ [][NextH]_<<vars, base>>

Engine == INSTANCE MatchingEngine WITH
    offer    <- base.supply,
    given    <- base.allocations,
    orders   <- base.bids,
    arrivals <- base.seq

\* Whatever the interleaving of the workers, each call that returns is one
\* atomic Buy or Sell of the abstract engine, and nothing else changes it.
ImplementsEngine == Engine!Spec
=============================================================================

------------------------------ MODULE StateDump ------------------------------
(***************************************************************************)
(* GET /, "show full app state": index formats AppState with {:#?} while   *)
(* the engine's handlers run on other threads.                             *)
(*                                                                         *)
(* The derived Debug reads one field of InMemoryStorage after the other,   *)
(* in the order of their declaration.  Debug of an RwLock does not wait:   *)
(* it shows "<locked>" when it does not get the lock at once, and the data *)
(* also when the lock is poisoned.  Debug reads the DashMap shard by shard,*)
(* which is one step here.  Of what the page shows the allocations and the *)
(* bids are kept.  The price feed at the end shares nothing with the book  *)
(* and is left out.                                                        *)
(***************************************************************************)
EXTENDS InMemoryStorage

VARIABLES
    reading,   \* the field that index reads next, "none" before and "done" after
    shown,     \* the allocations on the page
    shownBids  \* the bids on the page, none when it says "<locked>"

dump == <<reading, shown, shownBids>>

DumpInit ==
    /\ Init
    /\ reading = "none" /\ shown = [u \in {} |-> 0] /\ shownBids = {}

\* The bids declared, and so read, before the allocations.
After_Fault(place) ==
    CASE place = "none"        -> "buy_seq_no"
      [] place = "buy_seq_no"  -> "supply"
      [] place = "supply"      -> "bids"
      [] place = "bids"        -> "allocations"
      [] place = "allocations" -> "done"

\* The fields in the order of their declaration.
After(place) ==
    CASE place = "none"        -> "buy_seq_no"
      [] place = "buy_seq_no"  -> "supply"
      [] place = "supply"      -> "allocations"
      [] place = "allocations" -> "bids"
      [] place = "bids"        -> "done"

Advance(place) == reading = place /\ reading' = After(place)

\* A GET / arrives.
Index == Advance("none") /\ UNCHANGED <<vars, shown, shownBids>>

\* The two atomics.
ReadAtomics ==
    /\ Advance("buy_seq_no") \/ Advance("supply")
    /\ UNCHANGED <<vars, shown, shownBids>>

ReadAllocations ==
    /\ Advance("allocations")
    /\ shown' = allocations
    /\ UNCHANGED <<vars, shownBids>>

\* The book when the lock is free, poisoned or not; "<locked>" when it is held,
\* or when another handler waits for it.
ReadBids ==
    /\ Advance("bids")
    /\ \/ holder = NoWorker /\ shownBids' = bids
       \/ UNCHANGED shownBids
    /\ UNCHANGED <<vars, shown>>

Dump == Index \/ ReadAtomics \/ ReadAllocations \/ ReadBids

\* The handlers go on meanwhile.
Handlers == Next /\ UNCHANGED dump

DumpSpec == DumpInit /\ [][Handlers \/ Dump]_<<vars, dump>>

\* The threads of the handlers run on.  Nothing is asked of the one of index.
FairDumpSpec ==
    /\ DumpSpec
    /\ \A w \in Workers :
        WF_<<vars, dump>>((Lock(w) \/ LockPoisoned(w) \/ Step(w)) /\ UNCHANGED dump)

-----------------------------------------------------------------------------
(* Properties *)

\* What the page shows of the users is never more than they have, however long
\* ago it was read and whoever held the lock then: allocations only grow.
ShownIsHeld == \A u \in DOMAIN shown : shown[u] <= Held(u)

\* Who adds up the page does not count a unit twice: though bids are filled
\* while it is read, or half-way through when a panic poisoned the lock, what
\* it shows of a user, allocated and open, is within what the user asked for.
ShownCountsOnce ==
    \A u \in Users :
        (IF u \in DOMAIN shown THEN shown[u] ELSE 0) + Open(shownBids, u)
            <= demand[u]
=============================================================================

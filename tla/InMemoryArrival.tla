--------------------------- MODULE InMemoryArrival ---------------------------
(***************************************************************************)
(* InMemoryStorage with a history of the order in which requests arrived,  *)
(* to compare it with the order of the sequence numbers.  A request has    *)
(* arrived when its handler runs, before it waits for the lock.            *)
(***************************************************************************)
EXTENDS InMemoryStorage

VARIABLES
    arrivalOfCall,  \* per worker, the number of the call it handles
    arrivalOfSeq    \* per sequence number, the number of the call that took it

SpecA ==
    /\ Init
    /\ arrivalOfCall = [w \in Workers |-> 0]
    /\ arrivalOfSeq = [s \in 1 .. MaxCalls |-> 0]
    /\ [][/\ Next
          /\ arrivalOfCall' = [w \in Workers |->
                IF pc[w] = "idle" /\ pc'[w] = "lock" THEN calls'
                                                     ELSE arrivalOfCall[w]]
          /\ arrivalOfSeq' = [s \in 1 .. MaxCalls |->
                IF s = buy_seq_no' /\ s > buy_seq_no
                THEN arrivalOfCall[holder] ELSE arrivalOfSeq[s]]
         ]_<<vars, arrivalOfCall, arrivalOfSeq>>

\* Ties within a price level are broken by true arrival order, as the
\* assignment asks: of two open bids at one price, the one whose request
\* arrived first has the lower sequence number.
TieBreakIsArrivalOrder ==
    \A b, c \in bids :
        b.price = c.price /\ b.seq < c.seq =>
            arrivalOfSeq[b.seq] < arrivalOfSeq[c.seq]
=============================================================================

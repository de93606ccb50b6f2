---------------------------- MODULE TwMainV0Proofs ----------------------------
(***************************************************************************)
(* Proofs about the locks and the books of TwMainV0, for any number of     *)
(* workers and calls and any width of the integers.                        *)
(*                                                                         *)
(* LockInv says where in its handler the holder of each guard is, and when *)
(* a lock is poisoned: the two guards are taken and dropped like brackets, *)
(* so a lock on bids is only ever free together with what it protects.     *)
(* BookInv says what they protect: a book of bids with numbers of their    *)
(* own, of which `retain` has a part still to visit, and in a debug build  *)
(* every unit sold is in supply or in an allocation.                       *)
(***************************************************************************)
EXTENDS TwMainV0, BookTheorems

\* Places where a worker has the guard on supply, and on bids.
SupplyHeld == {"lock_bids", "buy", "sell", "retain", "unlock_bids",
               "unwind_bids", "unlock_supply", "unwind_supply"}
BidsHeld == {"buy", "sell", "retain", "unlock_bids", "unwind_bids"}
Outside == {"idle", "lock_supply"}

LockTypes ==
    /\ pc \in [Workers -> Outside \cup SupplyHeld]
    /\ req \in [Workers -> Requests \cup {NoRequest}]
    /\ supplyLock \in Workers \cup {NoWorker}
    /\ bidsLock \in Workers \cup {NoWorker}
    /\ poisoned \subseteq {"supply", "bids"}
    /\ \A w \in Workers :
        /\ pc[w] \in {"lock_supply", "lock_bids"} => req[w].op \in {"buy", "sell"}
        /\ pc[w] \in {"buy", "sell"} => req[w].op = pc[w]

Guards ==
    \A w \in Workers :
        /\ supplyLock = w <=> pc[w] \in SupplyHeld
        /\ bidsLock = w <=> pc[w] \in BidsHeld

\* The lock on bids is poisoned while its worker unwinds; the other one follows
\* before anybody can take it.
Poison ==
    /\ "supply" \in poisoned => poisoned = {"supply", "bids"} /\ supplyLock = NoWorker
    /\ poisoned = {"bids"} => \E w \in Workers : pc[w] = "unwind_supply"
    /\ \A w \in Workers : pc[w] = "unwind_supply" => "bids" \in poisoned

LockInv == LockTypes /\ Guards /\ Poison

-----------------------------------------------------------------------------
\* At the start nobody holds or has poisoned a lock.
LEMMA InitLockInv == Init => LockInv
  BY V0Assumption DEF Init, LockInv, LockTypes, Guards, Poison, Outside,
     SupplyHeld, BidsHeld, Requests, NoRequest

\* Each step of a handler or of an unwinding keeps the guards in place.
LEMMA NextLockInv == LockInv /\ [Next]_vars => LockInv'
<1>. SUFFICES ASSUME LockInv, [Next]_vars
              PROVE  LockInv'
  OBVIOUS
<1>. USE V0Assumption
     DEF LockInv, LockTypes, Guards, Poison, Outside, SupplyHeld, BidsHeld,
         At, Goto, mutexes
<1>1. ASSUME NEW w \in Workers, Call(w)
      PROVE  LockInv'
  <2>1. PICK r \in Requests :
            /\ req' = [req EXCEPT ![w] = r]
            /\ pc' = [pc EXCEPT ![w] = "lock_supply"]
    BY <1>1 DEF Call
  <2>2. r.op \in {"buy", "sell"}
    BY DEF Requests, BuyRequest, SellRequest
  <2>. QED
    BY <1>1, <2>1, <2>2 DEF Call
<1>2. ASSUME NEW w \in Workers, LockSupply(w)
      PROVE  LockInv'
  <2>1. CASE "supply" \in poisoned
    BY <1>2, <2>1 DEF LockSupply, Return
  <2>2. CASE "supply" \notin poisoned
    BY <1>2, <2>2 DEF LockSupply
  <2>. QED
    BY <2>1, <2>2
<1>3. ASSUME NEW w \in Workers, LockBids(w)
      PROVE  LockInv'
  <2>1. "bids" \notin poisoned
    BY <1>3 DEF LockBids
  <2>2. /\ bidsLock' = w /\ UNCHANGED <<supplyLock, poisoned, req>>
        /\ pc[w] = "lock_bids" /\ bidsLock = NoWorker
        /\ pc' = [pc EXCEPT ![w] = req[w].op] /\ req[w].op \in {"buy", "sell"}
    BY <1>3, <2>1 DEF LockBids
  <2>. QED
    BY <2>2
<1>4. ASSUME NEW w \in Workers, Buy(w)
      PROVE  LockInv'
  <2>1. PICK next \in {"unwind_bids", "unlock_bids"} : pc' = [pc EXCEPT ![w] = next]
    BY <1>4 DEF Buy
  <2>. QED
    BY <1>4, <2>1 DEF Buy
<1>5. ASSUME NEW w \in Workers, Sell(w)
      PROVE  LockInv'
  <2>1. PICK next \in {"unwind_bids", "retain"} : pc' = [pc EXCEPT ![w] = next]
    BY <1>5 DEF Sell
  <2>. QED
    BY <1>5, <2>1 DEF Sell
<1>6. ASSUME NEW w \in Workers, FillBid(w)
      PROVE  LockInv'
  <2>1. PICK next \in {"unwind_bids", "retain"} : pc' = [pc EXCEPT ![w] = next]
    BY <1>6 DEF FillBid
  <2>. QED
    BY <1>6, <2>1 DEF FillBid
<1>7. ASSUME NEW w \in Workers, EndRetain(w)
      PROVE  LockInv'
  <2>1. PICK next \in {"unwind_bids", "unlock_bids"} : pc' = [pc EXCEPT ![w] = next]
    BY <1>7 DEF EndRetain
  <2>. QED
    BY <1>7, <2>1 DEF EndRetain
<1>8. ASSUME NEW w \in Workers, UnlockBids(w)
      PROVE  LockInv'
  BY <1>8 DEF UnlockBids
<1>9. ASSUME NEW w \in Workers, UnlockSupply(w)
      PROVE  LockInv'
  BY <1>9 DEF UnlockSupply, Return, Requests, NoRequest
<1>10. CASE UNCHANGED vars
  BY <1>10 DEF vars, locals
<1>. QED
  BY <1>1, <1>2, <1>3, <1>4, <1>5, <1>6, <1>7, <1>8, <1>9, <1>10
  DEF Next, Step, Finished

\* The places of the guards in buy and sell (ordered_locks_buy,
\* ordered_locks_sell and the drops at the end of the handlers).
THEOREM GuardsInPlace == Spec => []LockInv
<1>1. LockInv /\ [Next]_vars => LockInv'
  BY NextLockInv
<1>. QED
  BY InitLockInv, <1>1, PTL DEF Spec

\* The two locks are always taken in the same order: with any number of
\* handlers none waits for a lock that a waiter holds.
THEOREM OrderedLocks == Spec => []LocksInOrder
<1>1. LockInv => LocksInOrder
  BY V0Assumption DEF LockInv, LockTypes, Guards, LocksInOrder, At, SupplyHeld, BidsHeld, Outside
<1>. QED
  BY GuardsInPlace, <1>1, PTL

\* No handler ever gets in between the two poisonings of a panic.
THEOREM PanicPoisonsBoth == Spec => []PoisonedTogether
<1>1. LockInv => PoisonedTogether
  <2>. SUFFICES ASSUME LockInv, supplyLock = NoWorker
                PROVE  poisoned \in {{}, {"supply", "bids"}}
    BY DEF PoisonedTogether
  <2>1. \A w \in Workers : pc[w] # "unwind_supply"
    BY V0Assumption DEF LockInv, Guards, SupplyHeld
  <2>. QED
    BY <2>1 DEF LockInv, LockTypes, Poison
<1>. QED
  BY GuardsInPlace, <1>1, PTL

-----------------------------------------------------------------------------
(* What the guards protect *)

IsBid(b) == b \in [user : Users, volume : Nat, price : 0 .. Modulus - 1,
                   seq : 1 .. buy_seq_no]

BookTypes ==
    /\ buy_seq_no \in Nat /\ supply \in Nat /\ offered \in Nat
    /\ IsFiniteSet(DOMAIN allocations)
    /\ \A u \in DOMAIN allocations : allocations[u] \in Nat

\* The keys of the BTreeMap are distinct, and `retain` still has bids of the
\* book ahead: nobody else can change the book meanwhile.
BookOrder ==
    /\ \A b \in bids : IsBid(b)
    /\ \A b, c \in bids : b.seq = c.seq => b = c
    /\ DOMAIN todo = Workers
    /\ \A w \in Workers : pc[w] = "retain" => todo[w] \subseteq bids

BookInv == BookTypes /\ BookOrder /\ NothingLostInPanic

-----------------------------------------------------------------------------
\* Volumes and prices are u64.
LEMMA RequestValues ==
    ASSUME LockTypes, NEW w \in Workers
    PROVE  /\ req[w].op \in {"buy", "sell"} => req[w].volume \in Nat
           /\ req[w].op = "buy" =>
                req[w].user \in Users /\ req[w].price \in 0 .. Modulus - 1
<1>1. req[w] \in BuyRequest \/ req[w] \in SellRequest \/ req[w] = NoRequest
  BY DEF LockTypes, Requests
<1>2. Volumes \subseteq Nat /\ Prices \subseteq 0 .. Modulus - 1
  BY V0Assumption
<1>3. CASE req[w] \in BuyRequest
  BY <1>2, <1>3 DEF BuyRequest
<1>4. CASE req[w] \in SellRequest
  BY <1>2, <1>4 DEF SellRequest
<1>5. CASE req[w] = NoRequest
  BY <1>5 DEF NoRequest
<1> QED  BY <1>1, <1>3, <1>4, <1>5

\* What a user holds and the total of it are amounts.
LEMMA HoldingsAreAmounts ==
    ASSUME BookTypes
    PROVE  TotalAllocated \in Nat /\ \A u : Held(u) \in Nat
<1>1. TotalAllocated \in Nat
  BY SumNat DEF BookTypes, TotalAllocated, SumFunction
<1> QED  BY <1>1 DEF BookTypes, Held

\* Writing an allocation adds the fill to the total, unless the sum wrapped.
LEMMA AllocateEffect ==
    ASSUME BookTypes, NEW u, NEW n \in Nat, Allocate(u, n)
    PROVE  /\ IsFiniteSet(DOMAIN allocations')
           /\ \A v \in DOMAIN allocations' : allocations'[v] \in Nat
           /\ OverflowChecks /\ ~Overflows(Held(u) + n)
                => TotalAllocated' = TotalAllocated + n
<1>1. /\ DOMAIN allocations' = DOMAIN allocations \cup {u}
      /\ \A v \in DOMAIN allocations \ {u} : allocations'[v] = allocations[v]
      /\ allocations'[u] = Wrap(Held(u) + n)
  BY DEF Allocate
<1>2. Held(u) \in Nat /\ IsFiniteSet(DOMAIN allocations)
      /\ \A v \in DOMAIN allocations : allocations[v] \in Nat
  BY HoldingsAreAmounts DEF BookTypes
<1>3. IsFiniteSet(DOMAIN allocations')
  BY <1>1, <1>2, FS_AddElement
<1>4. Wrap(Held(u) + n) \in Nat
  <2>1. Held(u) + n \in Nat  BY <1>2
  <2> QED  BY <2>1, V0Assumption DEF Wrap
<1>5. ASSUME OverflowChecks, ~Overflows(Held(u) + n)
      PROVE  TotalAllocated' = TotalAllocated + n
  <2>1. Wrap(Held(u) + n) = Held(u) + n
    <3>1. Held(u) + n \in Nat /\ Held(u) + n < Modulus
      BY <1>2, <1>5, V0Assumption DEF Overflows
    <3> QED  BY <3>1, V0Assumption DEF Wrap
  <2>2. allocations'[u] = (IF u \in DOMAIN allocations THEN allocations[u] ELSE 0) + n
    BY <1>1, <2>1 DEF Held
  <2>3. \A v \in DOMAIN allocations : allocations[v] \in Int  BY <1>2
  <2>4. n \in Int  OBVIOUS
  <2> QED  BY <1>1, <1>2, <2>2, <2>3, <2>4, SumPut DEF TotalAllocated
<1>6. \A v \in DOMAIN allocations' : allocations'[v] \in Nat
  BY <1>1, <1>2, <1>4
<1> QED  BY <1>3, <1>5, <1>6

\* Of the bids still to visit there is a first one.
LEMMA FirstIsOne ==
    ASSUME BookInv, NEW S, S \subseteq bids, S # {}
    PROVE  First(S) \in S
<1>1. \A b \in S : b.price \in Int /\ b.price <= Modulus /\ b.seq \in Nat
  BY V0Assumption DEF BookInv, BookOrder, BookTypes, IsBid
<1>2. \A b, c \in S : b.seq = c.seq => b = c
  BY DEF BookInv, BookOrder
<1>3. Modulus \in Int  BY V0Assumption
<1>4. \E b \in S : \A c \in S : c = b \/ Precedes(b, c)
  BY <1>1, <1>2, <1>3, BestBid DEF Precedes
<1> QED  BY <1>4 DEF First

\* A step that leaves the data alone and starts no `retain`.
LEMMA QuietBook ==
    ASSUME BookInv,
           UNCHANGED <<buy_seq_no, supply, allocations, bids, offered, DOMAIN todo>>,
           \A w \in Workers : pc'[w] = "retain" =>
                pc[w] = "retain" /\ todo'[w] = todo[w]
    PROVE  BookInv'
BY DEF BookInv, BookTypes, BookOrder, IsBid, NothingLostInPanic, TotalAllocated

\* Only the worker with both guards is in `retain`.
LEMMA AloneInside ==
    ASSUME LockInv, NEW w \in Workers, pc[w] \in BidsHeld
    PROVE  \A v \in Workers \ {w} : pc[v] \notin BidsHeld
BY DEF LockInv, Guards

\* buy_impl keeps the books.
LEMMA BuyBook ==
    ASSUME LockInv, BookInv, NEW w \in Workers, Buy(w)
    PROVE  BookInv'
<1> DEFINE volume == req[w].volume
           user == req[w].user
           fill == IF supply >= volume THEN volume ELSE supply
           rest == BidFor(w, volume - fill)
<1>1. /\ volume \in Nat /\ user \in Users /\ req[w].price \in 0 .. Modulus - 1
      /\ buy_seq_no' = buy_seq_no + 1 /\ UNCHANGED <<todo, offered>>
      /\ supply \in Nat /\ buy_seq_no \in Nat
  BY RequestValues DEF Buy, At, LockInv, LockTypes, BookInv, BookTypes
<1>2. /\ fill \in Nat /\ supply - fill \in Nat /\ volume - fill \in Nat
      /\ supply = 0 => fill = 0
  <2> HIDE DEF volume
  <2> QED  BY <1>1
<1>3. \A v \in Workers : pc'[v] # "retain"
  <2>1. PICK next \in {"unwind_bids", "unlock_bids"} :
            pc' = [pc EXCEPT ![w] = next]
    BY DEF Buy, Goto
  <2>2. \A v \in Workers \ {w} : pc[v] # "retain"
    BY AloneInside DEF Buy, At, BidsHeld
  <2> QED  BY <2>1, <2>2 DEF LockInv, LockTypes
<1>4. CASE UNCHANGED <<supply, allocations, bids>>
  BY <1>1, <1>3, <1>4
  DEF BookInv, BookTypes, BookOrder, IsBid, NothingLostInPanic, TotalAllocated
<1>5. CASE /\ ~(supply > 0 /\ Overflows(Held(user) + fill))
           /\ IF supply > 0 THEN Allocate(user, fill) ELSE UNCHANGED allocations
           /\ supply' = supply - fill
           /\ bids' \in {bids, bids \cup {rest}}
  <2>1. BookTypes' /\ NothingLostInPanic'
    <3> HIDE DEF volume, user, fill, rest
    <3>0. BookTypes /\ NothingLostInPanic  BY DEF BookInv
    <3>1. TotalAllocated \in Nat  BY <3>0, HoldingsAreAmounts
    <3>2. CASE supply > 0
      <4>1. Allocate(user, fill) /\ ~Overflows(Held(user) + fill)
        BY <1>5, <3>2
      <4>2. /\ IsFiniteSet(DOMAIN allocations')
            /\ \A v \in DOMAIN allocations' : allocations'[v] \in Nat
            /\ OverflowChecks => TotalAllocated' = TotalAllocated + fill
        BY <1>2, <3>0, <4>1, AllocateEffect
      <4> QED  BY <1>1, <1>2, <1>5, <3>0, <3>1, <4>2 DEF BookTypes, NothingLostInPanic
    <3>3. CASE ~(supply > 0)
      <4>1. allocations' = allocations /\ supply' = supply
        BY <1>1, <1>2, <1>5, <3>3
      <4> QED  BY <1>1, <3>0, <4>1 DEF BookTypes, NothingLostInPanic, TotalAllocated
    <3> QED  BY <3>2, <3>3
  <2>2. /\ rest \in [user : Users, volume : Nat, price : 0 .. Modulus - 1,
                     seq : 1 .. buy_seq_no']
        /\ rest.seq = buy_seq_no + 1
    <3> HIDE DEF fill
    <3> QED  BY <1>1, <1>2 DEF BidFor
  <2>3. \A b \in bids : IsBid(b)' /\ b.seq # buy_seq_no + 1
    BY <1>1 DEF BookInv, BookOrder, IsBid
  <2>4. BookOrder'
    <3> HIDE DEF rest
    <3>1. \A b \in bids' : IsBid(b)'  BY <1>5, <2>2, <2>3 DEF IsBid
    <3>2. \A b, c \in bids : b.seq = c.seq => b = c
      BY DEF BookInv, BookOrder
    <3>3. \A b \in bids' : b \in bids \/ b = rest  BY <1>5
    <3>4. \A b, c \in bids' : b.seq = c.seq => b = c
      BY <2>2, <2>3, <3>2, <3>3
    <3>5. DOMAIN todo' = Workers  BY <1>1 DEF BookInv, BookOrder
    <3> QED  BY <1>3, <3>1, <3>4, <3>5 DEF BookOrder
  <2> QED  BY <2>1, <2>4 DEF BookInv
<1> QED  BY <1>4, <1>5 DEF Buy

\* sell_impl adds the volume, or panics before it does.
LEMMA SellBook ==
    ASSUME LockInv, BookInv, NEW w \in Workers, Sell(w)
    PROVE  BookInv'
<1>1. CASE Overflows(supply + req[w].volume)
  <2>1. UNCHANGED <<buy_seq_no, supply, allocations, bids, offered, todo>>
    BY <1>1 DEF Sell
  <2>2. pc' = [pc EXCEPT ![w] = "unwind_bids"]
    BY <1>1 DEF Sell, Goto
  <2>3. \A v \in Workers : pc'[v] = "retain" => pc[v] = "retain"
    BY <2>2 DEF LockInv, LockTypes
  <2> QED  BY <2>1, <2>3, QuietBook
<1>2. CASE ~Overflows(supply + req[w].volume)
  <2>1. /\ supply' = Wrap(supply + req[w].volume)
        /\ offered' = offered + req[w].volume
        /\ todo' = [todo EXCEPT ![w] = bids]
        /\ pc' = [pc EXCEPT ![w] = "retain"]
        /\ UNCHANGED <<buy_seq_no, allocations, bids>>
    BY <1>2 DEF Sell, Goto
  <2>2. req[w].volume \in Nat
    BY RequestValues DEF Sell, At, LockInv, LockTypes
  <2>3. BookTypes /\ NothingLostInPanic /\ BookOrder  BY DEF BookInv
  <2>4. supply + req[w].volume \in Nat /\ offered + req[w].volume \in Nat
    BY <2>2, <2>3 DEF BookTypes
  <2>5. Wrap(supply + req[w].volume) \in Nat
    BY <2>4, V0Assumption DEF Wrap
  <2>6. BookTypes'
    BY <2>1, <2>3, <2>4, <2>5 DEF BookTypes
  <2>7. ASSUME OverflowChecks  PROVE offered' = supply' + TotalAllocated'
    <3>1. supply + req[w].volume < Modulus
      BY <1>2, <2>4, <2>7, V0Assumption DEF Overflows
    <3>2. supply' = supply + req[w].volume
      BY <2>1, <2>4, <3>1, V0Assumption DEF Wrap
    <3>3. TotalAllocated' = TotalAllocated /\ TotalAllocated \in Nat
      BY <2>1, <2>3, HoldingsAreAmounts DEF TotalAllocated
    <3> QED
      BY <2>1, <2>2, <2>3, <2>7, <3>2, <3>3 DEF BookTypes, NothingLostInPanic
  <2>8. \A v \in Workers \ {w} : pc'[v] # "retain"
    <3>1. \A v \in Workers \ {w} : pc[v] # "retain"
      BY AloneInside DEF Sell, At, BidsHeld
    <3> QED  BY <2>1, <3>1 DEF LockInv, LockTypes
  <2>9. \A v \in Workers : pc'[v] = "retain" => todo'[v] \subseteq bids'
    <3>1. todo'[w] = bids  BY <2>1, <2>3 DEF BookOrder
    <3> QED  BY <2>1, <2>8, <3>1
  <2>10. BookOrder'
    BY <2>1, <2>3, <2>9 DEF BookOrder, IsBid
  <2> QED  BY <2>6, <2>7, <2>10 DEF BookInv, NothingLostInPanic
<1> QED  BY <1>1, <1>2

\* The closure of retain gives what it takes: a bid leaves the book, or stays
\* with the rest of its volume under its old key.
LEMMA FillBidBook ==
    ASSUME LockInv, BookInv, NEW w \in Workers, FillBid(w)
    PROVE  BookInv'
<1> DEFINE b == First(todo[w])
           fill == IF supply >= b.volume THEN b.volume ELSE supply
           rest == [b EXCEPT !.volume = @ - fill]
<1>1. /\ pc[w] = "retain" /\ todo[w] # {} /\ todo[w] \subseteq bids
      /\ BookTypes /\ NothingLostInPanic /\ BookOrder
      /\ UNCHANGED <<buy_seq_no, offered>>
  BY DEF FillBid, At, BookInv, BookOrder
<1>2. b \in todo[w] /\ b \in bids
  <2>1. First(todo[w]) \in todo[w]  BY <1>1, FirstIsOne
  <2> QED  BY <1>1, <2>1
<1>3. IsBid(b)  BY <1>1, <1>2 DEF BookOrder
<1> HIDE DEF b
<1>4. /\ fill \in Nat /\ supply - fill \in Nat /\ b.volume - fill \in Nat
  BY <1>1, <1>3 DEF IsBid, BookTypes
<1>5. /\ IsBid(rest) /\ rest.seq = b.seq
  BY <1>3, <1>4 DEF IsBid
<1>6. \A v \in Workers \ {w} : pc'[v] # "retain"
  <2>1. PICK next \in {"unwind_bids", "retain"} : pc' = [pc EXCEPT ![w] = next]
    BY <1>1 DEF FillBid, Goto, LockInv, LockTypes
  <2>2. \A v \in Workers \ {w} : pc[v] # "retain"
    BY <1>1, AloneInside DEF BidsHeld
  <2> QED  BY <2>1, <2>2 DEF LockInv, LockTypes
<1> HIDE DEF fill, rest
<1>7. CASE /\ todo' = [todo EXCEPT ![w] = @ \ {b}]
           /\ UNCHANGED <<supply, allocations, bids>>
  <2>1. DOMAIN todo' = Workers /\ todo'[w] \subseteq bids'
    BY <1>1, <1>7 DEF BookOrder
  <2> QED
    BY <1>1, <1>6, <1>7, <2>1
    DEF BookInv, BookTypes, BookOrder, IsBid, NothingLostInPanic, TotalAllocated
<1>8. CASE /\ pc' = [pc EXCEPT ![w] = "unwind_bids"]
           /\ UNCHANGED <<supply, allocations, bids, todo>>
  <2>1. \A v \in Workers : pc'[v] # "retain"
    BY <1>6, <1>8 DEF LockInv, LockTypes
  <2> QED  BY <1>1, <1>8, <2>1, QuietBook
<1>9. CASE /\ ~Overflows(Held(b.user) + fill)
           /\ todo' = [todo EXCEPT ![w] = @ \ {b}]
           /\ Allocate(b.user, fill)
           /\ supply' = supply - fill
           /\ \/ bids' = bids \ {b}
              \/ bids' = (bids \ {b}) \cup {rest}
  <2>1. /\ IsFiniteSet(DOMAIN allocations')
        /\ \A v \in DOMAIN allocations' : allocations'[v] \in Nat
        /\ OverflowChecks => TotalAllocated' = TotalAllocated + fill
    BY <1>1, <1>4, <1>9, AllocateEffect
  <2>2. TotalAllocated \in Nat  BY <1>1, HoldingsAreAmounts
  <2>3. BookTypes' /\ NothingLostInPanic'
    BY <1>1, <1>4, <1>9, <2>1, <2>2 DEF BookTypes, NothingLostInPanic
  <2>4. \A c \in bids' : c \in bids \/ c = rest
    BY <1>9
  <2>5. \A c \in bids' : IsBid(c)'
    BY <1>1, <1>5, <2>4 DEF BookOrder, IsBid
  <2>6. \A c \in bids \ {b} : c.seq # b.seq
    BY <1>1, <1>2 DEF BookOrder
  <2>7. \A c, d \in bids' : c.seq = d.seq => c = d
    <3>1. \A c, d \in bids : c.seq = d.seq => c = d  BY <1>1 DEF BookOrder
    <3>2. \A c \in bids' : c \in bids \ {b} \/ c = rest  BY <1>9
    <3> QED  BY <1>5, <2>6, <3>1, <3>2
  <2>8. DOMAIN todo' = Workers /\ todo'[w] \subseteq bids'
    BY <1>1, <1>9 DEF BookOrder
  <2>9. BookOrder'
    BY <1>6, <2>5, <2>7, <2>8 DEF BookOrder
  <2> QED  BY <2>3, <2>9 DEF BookInv
<1>10. \/ /\ todo' = [todo EXCEPT ![w] = @ \ {b}]
          /\ UNCHANGED <<supply, allocations, bids>>
       \/ /\ pc' = [pc EXCEPT ![w] = "unwind_bids"]
          /\ UNCHANGED <<supply, allocations, bids, todo>>
       \/ /\ ~Overflows(Held(b.user) + fill)
          /\ todo' = [todo EXCEPT ![w] = @ \ {b}]
          /\ Allocate(b.user, fill)
          /\ supply' = supply - fill
          /\ \/ bids' = bids \ {b}
             \/ bids' = (bids \ {b}) \cup {rest}
  <2>1. \/ /\ todo' = [todo EXCEPT ![w] = @ \ {b}]
           /\ UNCHANGED <<supply, allocations, bids>>
        \/ /\ pc' = [pc EXCEPT ![w] = "unwind_bids"]
           /\ UNCHANGED <<supply, allocations, bids, todo>>
        \/ /\ ~Overflows(Held(b.user) + fill)
           /\ todo' = [todo EXCEPT ![w] = @ \ {b}]
           /\ Allocate(b.user, fill)
           /\ supply' = supply - fill
           /\ bids' = (bids \ {b}) \cup (IF fill = b.volume THEN {} ELSE {rest})
    BY Zenon DEF FillBid, Goto, b, fill, rest
  <2>2. (IF fill = b.volume THEN {} ELSE {rest}) \in {{}, {rest}}
    OBVIOUS
  <2> QED  BY <2>1, <2>2
<1> QED  BY <1>7, <1>8, <1>9, <1>10

\* The other steps move the guards or the handler only.
LEMMA OtherBook ==
    ASSUME LockInv, BookInv, NEW w \in Workers,
           \/ Call(w) \/ LockSupply(w) \/ LockBids(w) \/ EndRetain(w)
           \/ UnlockBids(w) \/ UnlockSupply(w)
    PROVE  BookInv'
<1>1. PICK to \in Outside \cup (SupplyHeld \ {"retain"}) :
        pc' = [pc EXCEPT ![w] = to]
  <2>1. CASE LockBids(w)
    <3>1. req[w].op \in {"buy", "sell"}
      BY <2>1 DEF LockBids, At, LockInv, LockTypes
    <3> QED  BY <2>1, <3>1 DEF LockBids, Goto, SupplyHeld
  <2> QED
    BY <2>1 DEF Call, LockSupply, EndRetain, UnlockBids, UnlockSupply, At, Goto,
       Return, Outside, SupplyHeld
<1>2. /\ UNCHANGED <<buy_seq_no, supply, allocations, bids, offered>>
      /\ todo' = todo \/ todo' = [todo EXCEPT ![w] = {}]
  BY DEF Call, LockSupply, LockBids, EndRetain, UnlockBids, UnlockSupply, Return, data
<1>3. \A v \in Workers : pc'[v] = "retain" => pc[v] = "retain" /\ todo'[v] = todo[v]
  <2>1. to # "retain"  BY DEF Outside, SupplyHeld
  <2>2. DOMAIN todo = Workers  BY DEF BookInv, BookOrder
  <2> QED  BY <1>1, <1>2, <2>1, <2>2 DEF LockInv, LockTypes
<1>4. DOMAIN todo' = DOMAIN todo
  BY <1>2
<1> QED  BY <1>2, <1>3, <1>4, QuietBook

\* The empty engine.
LEMMA InitBook == Init => BookInv
<1> SUFFICES ASSUME Init  PROVE BookInv
  OBVIOUS
<1>1. DOMAIN allocations = {} /\ supply = 0 /\ offered = 0 /\ buy_seq_no = 0
  BY DEF Init
<1>2. IsFiniteSet(DOMAIN allocations)  BY <1>1, FS_EmptySet
<1>3. TotalAllocated = 0  BY <1>1, SumEmpty DEF TotalAllocated, SumFunction
<1>4. bids = {} /\ DOMAIN todo = Workers /\ \A w \in Workers : pc[w] = "idle"
  BY DEF Init
<1> QED
  BY <1>1, <1>2, <1>3, <1>4 DEF BookInv, BookTypes, BookOrder, NothingLostInPanic

\* Each step of each handler keeps the book and its total.
LEMMA NextBook == ASSUME LockInv, BookInv, [Next]_vars  PROVE BookInv'
<1>1. ASSUME NEW w \in Workers, Call(w) \/ Step(w)  PROVE BookInv'
  BY <1>1, BuyBook, SellBook, FillBidBook, OtherBook DEF Step
<1>2. CASE UNCHANGED vars
  BY <1>2, QuietBook DEF vars, data, locals
<1> QED  BY <1>1, <1>2 DEF Next, Finished

\* What the two guards protect stays in order, with any number of handlers and
\* with a panic in any of them.
LEMMA BookHolds == Spec => []BookInv
<1>1. LockInv /\ BookInv /\ [Next]_vars => BookInv'
  BY NextBook
<1> QED  BY GuardsInPlace, InitBook, <1>1, PTL DEF Spec

\* In a debug build no unit sold is lost or given twice, also when a panic
\* leaves a sell half-way: in sell_impl every allocation is written, or panics,
\* before the supply it pays for is taken.
THEOREM NothingIsLost == Spec => []NothingLostInPanic
<1>1. BookInv => NothingLostInPanic  BY DEF BookInv
<1> QED  BY BookHolds, <1>1, PTL

-----------------------------------------------------------------------------
(* The refinement: a handler takes effect at once, when it returns *)

\* Between handlers no supply is left beside a bid.
NoneIdle == supply > 0 => bids = {}

\* The data is what a match of `total` with `book` makes of base.
Reached(book, total) ==
    /\ bids = OrdersAfter(book, total)
    /\ supply = OfferAfter(book, total)
    /\ allocations = GivenAfter(base.given, book, total)

\* The order of the buy that worker w runs.
OrderOf(w) == [user |-> req[w].user, volume |-> req[w].volume,
               price |-> req[w].price, seq |-> base.seq + 1]

\* How far the handler of w is from base.  The bids that `retain` has visited
\* are as the sell leaves them, and those it has still to visit will be when
\* they meet what is left of the supply.
Progress(w) ==
    /\ pc[w] \in {"lock_bids", "buy", "sell"} => base = state /\ NoneIdle
    /\ pc[w] = "retain" =>
        LET total == base.supply + req[w].volume
        IN  /\ req[w].op = "sell" /\ base.seq = buy_seq_no
            /\ supply > 0 => bids \subseteq todo[w]
            /\ OrdersAfter(base.orders, total)
                 = (bids \ todo[w]) \cup OrdersAfter(todo[w], supply)
            /\ OfferAfter(base.orders, total) = OfferAfter(todo[w], supply)
            /\ GivenAfter(base.given, base.orders, total)
                 = GivenAfter(allocations, todo[w], supply)
    /\ pc[w] \in {"unlock_bids", "unlock_supply"} =>
        /\ NoneIdle
        /\ req[w].op = "buy" =>
            /\ buy_seq_no = base.seq + 1
            /\ Reached(base.orders \cup {OrderOf(w)}, base.supply)
        /\ req[w].op = "sell" =>
            /\ buy_seq_no = base.seq
            /\ Reached(base.orders, base.supply + req[w].volume)
        /\ req[w].op \in {"buy", "sell"}

BaseOrder ==
    /\ IsBook(base.orders, Users) /\ IsAccount(base.given)
    /\ base.supply \in Nat /\ base.seq \in Nat
    /\ base.supply > 0 => base.orders = {}

Stored == IsFiniteSet(bids) /\ IsAccount(allocations)

\* A free lock that is not poisoned guards what a handler returned with.
RefInv ==
    /\ BaseOrder /\ Stored
    /\ \A w \in Workers : Progress(w)
    /\ supplyLock = NoWorker /\ poisoned = {} => base = state /\ NoneIdle

-----------------------------------------------------------------------------
\* The engine matches by the rule of Matching.
LEMMA EngineRule ==
    \A book, total, some :
        /\ Engine!OrdersAfter(book, total) = OrdersAfter(book, total)
        /\ Engine!OfferAfter(book, total) = OfferAfter(book, total)
        /\ Engine!GivenAfter(some, book, total) = GivenAfter(some, book, total)
<1> SUFFICES ASSUME NEW book, NEW total, NEW some
             PROVE  /\ Engine!OrdersAfter(book, total) = OrdersAfter(book, total)
                    /\ Engine!OfferAfter(book, total) = OfferAfter(book, total)
                    /\ Engine!GivenAfter(some, book, total) = GivenAfter(some, book, total)
  OBVIOUS
<1>1. \A f : Engine!SumFunction(f) = SumFunction(f)
  BY Zenon DEF Engine!SumFunction, Engine!SumFunctionOnSet, Engine!FoldFunctionOnSet,
     Engine!MapThenFoldSet, SumFunction, SumFunctionOnSet, FoldFunctionOnSet, MapThenFoldSet
<1>2. \A o : Engine!Ahead(book, o) = Ahead(book, o)
  BY <1>1, Zenon DEF Engine!Ahead, Ahead, Engine!Wanted, Wanted, Engine!Before, Before
<1>3. Engine!Served(book, total) = Served(book, total)
  BY <1>2 DEF Engine!Served, Served
<1>4. \A o : Engine!Portion(book, total, o) = Portion(book, total, o)
  BY <1>2 DEF Engine!Portion, Portion
<1>5. \A S : Engine!Portions(book, total, S) = Portions(book, total, S)
  <2>1. \A S : [o \in S |-> Engine!Portion(book, total, o)] = [o \in S |-> Portion(book, total, o)]
    BY <1>4
  <2> QED  BY <1>1, <2>1, Zenon DEF Engine!Portions, Portions
<1>6. \A u : Engine!GivenTo(some, u) = GivenTo(some, u)
  BY Zenon DEF Engine!GivenTo, GivenTo
<1>7. Engine!GivenAfter(some, book, total) = GivenAfter(some, book, total)
  BY <1>3, <1>5, <1>6 DEF Engine!GivenAfter, GivenAfter
<1>8. Engine!OrdersAfter(book, total) = OrdersAfter(book, total)
  BY <1>3, <1>4 DEF Engine!OrdersAfter, OrdersAfter
<1>9. Engine!OfferAfter(book, total) = OfferAfter(book, total)
  BY <1>3, <1>5, Zenon DEF Engine!OfferAfter, OfferAfter
<1> QED  BY <1>7, <1>8, <1>9

\* The bids of the code are a book, and its allocations are accounts.
LEMMA BidsAreABook ==
    ASSUME BookInv, Stored
    PROVE  /\ IsBook(bids, Users) /\ IsAccount(allocations)
           /\ supply \in Nat /\ buy_seq_no \in Nat
           /\ \A b \in bids : b.seq <= buy_seq_no
<1>1. \A b \in bids : b \in [user : Users, volume : Nat, price : Int, seq : Nat]
                      /\ b.seq <= buy_seq_no
  BY V0Assumption DEF BookInv, BookOrder, BookTypes, IsBid
<1>2. IsBook(bids, Users)
  BY <1>1 DEF BookInv, BookOrder, Stored, IsBook
<1> QED  BY <1>1, <1>2 DEF BookInv, BookTypes, Stored

\* The first bid to visit is the first by the rule of the engine.
LEMMA FirstIsFirst ==
    ASSUME BookInv, NEW S, S \subseteq bids, S # {}
    PROVE  IsFirst(First(S), S)
<1>1. \A b \in S : b.price \in Int /\ b.price <= Modulus /\ b.seq \in Nat
  BY V0Assumption DEF BookInv, BookOrder, BookTypes, IsBid
<1>2. \A b, c \in S : b.seq = c.seq => b = c
  BY DEF BookInv, BookOrder
<1>3. Modulus \in Int  BY V0Assumption
<1>4. \E b \in S : \A c \in S : c = b \/ Precedes(b, c)
  BY <1>1, <1>2, <1>3, BestBid DEF Precedes
<1>5. First(S) \in S /\ \A c \in S : c = First(S) \/ Precedes(First(S), c)
  BY <1>4 DEF First
<1> QED  BY <1>5 DEF IsFirst, Precedes, Before

\* In a debug build an allocation that is written is the user's and the fill.
LEMMA AllocateCredits ==
    ASSUME OverflowChecks, BookTypes, NEW u, NEW n \in Nat,
           ~Overflows(Held(u) + n), Allocate(u, n)
    PROVE  allocations' = Credit(allocations, u, n)
<1>1. Held(u) \in Nat  BY HoldingsAreAmounts
<1>2. Held(u) + n < Modulus /\ Held(u) + n \in Nat
  BY <1>1, V0Assumption DEF Overflows
<1>3. Wrap(Held(u) + n) = Held(u) + n
  BY <1>2, V0Assumption DEF Wrap
<1>4. Held(u) = GivenTo(allocations, u)
  BY Zenon DEF Held, GivenTo
<1> QED  BY <1>3, <1>4 DEF Allocate, Credit

\* The worker with a guard is the only one inside.
LEMMA OnlyOneInside ==
    ASSUME LockInv, NEW w \in Workers, pc[w] \in SupplyHeld
    PROVE  /\ supplyLock = w /\ supplyLock # NoWorker
           /\ \A v \in Workers \ {w} : pc[v] \in Outside
           /\ pc[w] \notin {"unwind_bids", "unwind_supply"} => poisoned = {}
<1>1. supplyLock = w /\ supplyLock # NoWorker
  BY V0Assumption DEF LockInv, Guards
<1>2. \A v \in Workers \ {w} : pc[v] \in Outside
  BY <1>1 DEF LockInv, LockTypes, Guards
<1>3. ASSUME pc[w] \notin {"unwind_bids", "unwind_supply"}  PROVE poisoned = {}
  <2>1. "supply" \notin poisoned  BY <1>1 DEF LockInv, Poison
  <2>2. poisoned # {"bids"}
    BY <1>2, <1>3 DEF LockInv, Poison, Outside
  <2> QED  BY <2>1, <2>2 DEF LockInv, LockTypes
<1> QED  BY <1>1, <1>2, <1>3

\* A step after which worker w is inside: the others are outside, where they
\* have nothing to do with base.
LEMMA InsideStep ==
    ASSUME LockInv', NEW w \in Workers, pc'[w] \in SupplyHeld,
           BaseOrder', Stored', Progress(w)'
    PROVE  RefInv'
<1>1. supplyLock' = w /\ supplyLock' # NoWorker
  BY V0Assumption DEF LockInv, Guards
<1>2. \A v \in Workers \ {w} : pc'[v] \in Outside
  BY <1>1 DEF LockInv, LockTypes, Guards
<1>3. \A v \in Workers \ {w} : Progress(v)'
  BY <1>2 DEF Progress, Outside
<1> QED  BY <1>1, <1>3 DEF RefInv

\* buy_impl: the order takes what is left, and the rest joins the book.
LEMMA BuyProgress ==
    ASSUME OverflowChecks, LockInv, BookInv, RefInv, LockInv',
           NEW w \in Workers, Buy(w)
    PROVE  RefInv' /\ base' = base
<1> DEFINE volume == req[w].volume
           user == req[w].user
           fill == IF supply >= volume THEN volume ELSE supply
           o == OrderOf(w)
           rest == BidFor(w, volume - fill)
<1>1. /\ volume \in Nat /\ user \in Users /\ req[w].price \in Int
      /\ req[w].op = "buy" /\ pc[w] = "buy" /\ base' = base /\ req' = req
      /\ buy_seq_no' = buy_seq_no + 1
      /\ DOMAIN pc = Workers
  BY RequestValues, V0Assumption DEF Buy, At, LockInv, LockTypes
<1>2. /\ base = state /\ NoneIdle /\ BaseOrder /\ Stored
      /\ IsBook(bids, Users) /\ IsAccount(allocations)
      /\ supply \in Nat /\ buy_seq_no \in Nat
      /\ \A b \in bids : b.seq <= buy_seq_no
  BY <1>1, BidsAreABook DEF RefInv, Progress
<1>3. /\ base.seq = buy_seq_no /\ base.supply = supply
      /\ base.given = allocations /\ base.orders = bids
  BY <1>2 DEF state
<1>4. /\ o \in [user : Users, volume : Nat, price : Int, seq : Nat]
      /\ o.user = user /\ o.volume = volume /\ o.seq = buy_seq_no + 1
      /\ \A n : [o EXCEPT !.volume = n]
                  = [user |-> user, volume |-> n, price |-> req[w].price,
                     seq |-> buy_seq_no + 1]
  BY <1>1, <1>2, <1>3 DEF OrderOf
<1>5. IsBook(bids \cup {o}, Users) /\ IsBook({o}, Users)
  <2>1. IsFiniteSet(bids \cup {o})  BY <1>2, FS_AddElement DEF IsBook
  <2>2. IsFiniteSet({o})  BY FS_Singleton
  <2>3. \A b \in bids : b.seq # o.seq /\ b \in [user : Users, volume : Nat, price : Int, seq : Nat]
    BY <1>2, <1>4 DEF IsBook
  <2> HIDE DEF o
  <2>4. IsBook({o}, Users)  BY <1>4, <2>2 DEF IsBook
  <2>5. \A b, c \in bids : b.seq = c.seq => b = c  BY <1>2 DEF IsBook
  <2> QED  BY <1>4, <2>1, <2>3, <2>4, <2>5 DEF IsBook
<1>b. BaseOrder'  BY <1>1, <1>2 DEF BaseOrder
<1>6. CASE pc'[w] = "unwind_bids" /\ UNCHANGED <<supply, allocations, bids>>
  <2>1. Stored'  BY <1>2, <1>6 DEF Stored
  <2>2. Progress(w)'  BY <1>6 DEF Progress
  <2> QED  BY <1>1, <1>6, <1>b, <2>1, <2>2, InsideStep DEF SupplyHeld
<1>7. CASE /\ ~(supply > 0 /\ Overflows(Held(user) + fill))
           /\ IF supply > 0 THEN Allocate(user, fill) ELSE UNCHANGED allocations
           /\ supply' = supply - fill
           /\ bids' = IF supply > 0 /\ fill = volume THEN bids ELSE bids \cup {rest}
           /\ pc'[w] = "unlock_bids"
  <2>1. /\ Stored'
        /\ bids' = OrdersAfter(bids \cup {o}, supply)
        /\ supply' = OfferAfter(bids \cup {o}, supply)
        /\ allocations' = GivenAfter(allocations, bids \cup {o}, supply)
        /\ NoneIdle'
    <3> HIDE DEF o
    <3>1. CASE supply = 0
      <4>1. fill = 0  BY <1>1, <3>1
      <4>2. rest = o
        <5>1. volume - fill = volume  BY <1>1, <4>1
        <5> QED  BY <5>1, <1>3 DEF BidFor, o, OrderOf
      <4>3. /\ OrdersAfter(bids \cup {o}, supply) = bids \cup {o}
            /\ OfferAfter(bids \cup {o}, supply) = supply
            /\ GivenAfter(allocations, bids \cup {o}, supply) = allocations
        BY <1>2, <1>5, <3>1, MatchIdle
      <4>4. bids' = bids \cup {o} /\ supply' = 0 /\ allocations' = allocations
        <5> HIDE DEF fill, rest
        <5> QED  BY <1>7, <3>1, <4>1, <4>2
      <4>5. IsFiniteSet(bids \cup {o})  BY <1>5 DEF IsBook
      <4> QED  BY <1>2, <3>1, <4>3, <4>4, <4>5 DEF Stored, NoneIdle
    <3>2. CASE supply > 0
      <4>1. bids = {} /\ bids \cup {o} = {o}  BY <1>2, <3>2 DEF NoneIdle
      <4>2. fill \in Nat /\ fill <= supply
        <5> HIDE DEF volume
        <5> QED  BY <1>1, <1>2
      <4>3. allocations' = Credit(allocations, user, fill)
        <5>1. Allocate(user, fill) /\ ~Overflows(Held(user) + fill)
          BY <1>7, <3>2
        <5> HIDE DEF fill, user
        <5> QED  BY <4>2, <5>1, AllocateCredits DEF BookInv
      <4>4. IsAccount(allocations')  BY <1>2, <4>2, <4>3, CreditIsAccount
      <4>5. CASE volume <= supply
        <5>1. fill = volume
          <6> HIDE DEF volume
          <6> QED  BY <1>1, <1>2, <4>5
        <5>2. bids' = {} /\ supply' = supply - volume
          <6> HIDE DEF fill, rest, volume
          <6> QED  BY <1>7, <3>2, <4>1, <5>1
        <5>3. /\ OrdersAfter({o}, supply) = {}
              /\ OfferAfter({o}, supply) = supply - o.volume
              /\ GivenAfter(allocations, {o}, supply)
                   = Credit(allocations, o.user, o.volume)
          BY <1>2, <1>4, <1>5, <3>2, <4>5, MatchAlone
        <5>4. IsFiniteSet(bids')  BY <5>2, FS_EmptySet
        <5> HIDE DEF fill, volume
        <5> QED  BY <1>4, <4>1, <4>3, <4>4, <5>1, <5>2, <5>3, <5>4 DEF Stored, NoneIdle
      <4>6. CASE volume > supply
        <5>1. fill = supply /\ fill # volume
          <6> HIDE DEF volume
          <6> QED  BY <1>1, <1>2, <4>6
        <5>2. bids' = {rest} /\ supply' = 0
          <6> HIDE DEF fill, rest, volume
          <6> QED  BY <1>2, <1>7, <3>2, <4>1, <5>1
        <5>3. /\ OrdersAfter({o}, supply) = {[o EXCEPT !.volume = @ - supply]}
              /\ OfferAfter({o}, supply) = 0
              /\ GivenAfter(allocations, {o}, supply)
                   = Credit(allocations, o.user, supply)
          BY <1>2, <1>4, <1>5, <3>2, <4>6, MatchAlone
        <5>4. rest = [o EXCEPT !.volume = @ - supply]
          <6>1. [o EXCEPT !.volume = @ - supply] = [o EXCEPT !.volume = volume - supply]
            BY <1>4
          <6>2. rest = [user |-> user, volume |-> volume - supply,
                        price |-> req[w].price, seq |-> buy_seq_no + 1]
            BY <5>1 DEF BidFor
          <6> QED  BY <1>4, <6>1, <6>2
        <5>5. IsFiniteSet(bids')  BY <5>2, FS_Singleton
        <5>6. o.user = user  BY <1>4
        <5> HIDE DEF fill, volume, rest, user
        <5>7. bids' = OrdersAfter(bids \cup {o}, supply)
          BY <4>1, <5>2, <5>3, <5>4, Zenon
        <5>8. allocations' = GivenAfter(allocations, bids \cup {o}, supply)
          BY <4>1, <4>3, <5>1, <5>3, <5>6, Zenon
        <5>9. supply' = OfferAfter(bids \cup {o}, supply) /\ supply' = 0
          BY <4>1, <5>2, <5>3
        <5> QED  BY <4>4, <5>5, <5>7, <5>8, <5>9 DEF Stored, NoneIdle
      <4> HIDE DEF volume
      <4> QED  BY <1>1, <1>2, <4>5, <4>6
    <3> QED  BY <1>2, <3>1, <3>2
  <2>2. Progress(w)'
    <3>1. o' = o  BY <1>1 DEF OrderOf
    <3>2. /\ bids' = OrdersAfter(base.orders \cup {o}, base.supply)
          /\ supply' = OfferAfter(base.orders \cup {o}, base.supply)
          /\ allocations' = GivenAfter(base.given, base.orders \cup {o}, base.supply)
      BY <1>3, <2>1
    <3> HIDE DEF o, rest, fill, volume, user
    <3>3. Reached(base.orders \cup {OrderOf(w)}, base.supply)'
      BY <1>1, <3>1, <3>2 DEF Reached, o
    <3> QED  BY <1>1, <1>3, <1>7, <2>1, <3>3 DEF Progress
  <2> QED  BY <1>1, <1>7, <1>b, <2>1, <2>2, InsideStep DEF SupplyHeld
<1>8. \/ pc'[w] = "unwind_bids" /\ UNCHANGED <<supply, allocations, bids>>
      \/ /\ ~(supply > 0 /\ Overflows(Held(user) + fill))
         /\ IF supply > 0 THEN Allocate(user, fill) ELSE UNCHANGED allocations
         /\ supply' = supply - fill
         /\ bids' = IF supply > 0 /\ fill = volume THEN bids ELSE bids \cup {rest}
         /\ pc'[w] = "unlock_bids"
  <2>1. \/ Goto(w, "unwind_bids") /\ UNCHANGED <<supply, allocations, bids>>
        \/ /\ ~(supply > 0 /\ Overflows(Held(user) + fill))
           /\ IF supply > 0 THEN Allocate(user, fill) ELSE UNCHANGED allocations
           /\ supply' = supply - fill
           /\ bids' = IF supply > 0 /\ fill = volume THEN bids ELSE bids \cup {rest}
           /\ Goto(w, "unlock_bids")
    BY Zenon DEF Buy
  <2> HIDE DEF fill, rest, volume, user
  <2> QED  BY <1>1, <2>1 DEF Goto
<1> QED  BY <1>1, <1>6, <1>7, <1>8

\* sell_impl puts its volume on offer, with every bid still to visit.
LEMMA SellProgress ==
    ASSUME OverflowChecks, LockInv, BookInv, RefInv, LockInv',
           NEW w \in Workers, Sell(w)
    PROVE  RefInv' /\ base' = base
<1>1. /\ req[w].volume \in Nat /\ req[w].op = "sell" /\ pc[w] = "sell"
      /\ UNCHANGED <<base, req, buy_seq_no, allocations, bids>>
      /\ DOMAIN pc = Workers /\ DOMAIN todo = Workers
  BY RequestValues DEF Sell, At, LockInv, LockTypes, BookInv, BookOrder
<1>2. /\ base = state /\ NoneIdle /\ BaseOrder /\ Stored
      /\ IsBook(bids, Users) /\ supply \in Nat
  BY <1>1, BidsAreABook DEF RefInv, Progress
<1>3. /\ base.seq = buy_seq_no /\ base.supply = supply
      /\ base.given = allocations /\ base.orders = bids
  BY <1>2 DEF state
<1>4. BaseOrder' /\ Stored'  BY <1>1, <1>2 DEF BaseOrder, Stored
<1>5. CASE pc'[w] = "unwind_bids"
  <2>1. Progress(w)'  BY <1>5 DEF Progress
  <2> QED  BY <1>1, <1>4, <1>5, <2>1, InsideStep DEF SupplyHeld
<1>6. CASE /\ ~Overflows(supply + req[w].volume) /\ pc'[w] = "retain"
           /\ supply' = Wrap(supply + req[w].volume) /\ todo'[w] = bids
  <2>1. supply + req[w].volume \in Nat /\ supply + req[w].volume < Modulus
    BY <1>1, <1>2, <1>6, V0Assumption DEF Overflows
  <2>2. supply' = supply + req[w].volume
    BY <1>6, <2>1, V0Assumption DEF Wrap
  <2>3. /\ bids' \ todo'[w] = {} /\ todo'[w] = base.orders
        /\ supply' = base.supply + req[w].volume
        /\ allocations' = base.given
    BY <1>1, <1>3, <1>6, <2>2
  <2>4. bids' \subseteq todo'[w]  BY <1>1, <1>6
  <2>5. Progress(w)'
    BY <1>1, <1>3, <1>6, <2>3, <2>4 DEF Progress
  <2> QED  BY <1>1, <1>4, <1>6, <2>5, InsideStep DEF SupplyHeld
<1> QED  BY <1>1, <1>5, <1>6 DEF Sell, Goto

\* The closure of retain meets the first of the bids to visit, as the rule says
\* that the match of the bids to visit does.
LEMMA FillProgress ==
    ASSUME OverflowChecks, LockInv, BookInv, RefInv, LockInv',
           NEW w \in Workers, FillBid(w)
    PROVE  RefInv' /\ base' = base
<1> DEFINE T == todo[w]
           b == First(T)
           fill == IF supply >= b.volume THEN b.volume ELSE supply
           rest == [b EXCEPT !.volume = @ - fill]
           total == base.supply + req[w].volume
<1>1. /\ pc[w] = "retain" /\ T # {} /\ T \subseteq bids
      /\ UNCHANGED <<buy_seq_no, base, req>>
      /\ DOMAIN pc = Workers /\ DOMAIN todo = Workers
  BY DEF FillBid, At, LockInv, LockTypes, BookInv, BookOrder
<1>2. /\ BaseOrder /\ Stored /\ IsBook(bids, Users) /\ IsAccount(allocations)
      /\ supply \in Nat
      /\ req[w].op = "sell" /\ base.seq = buy_seq_no
      /\ supply > 0 => bids \subseteq T
      /\ OrdersAfter(base.orders, total) = (bids \ T) \cup OrdersAfter(T, supply)
      /\ OfferAfter(base.orders, total) = OfferAfter(T, supply)
      /\ GivenAfter(base.given, base.orders, total) = GivenAfter(allocations, T, supply)
  BY <1>1, BidsAreABook DEF RefInv, Progress
<1> HIDE DEF total
<1>3. IsBook(T, Users)
  <2>1. IsFiniteSet(T)  BY <1>1, <1>2, FS_Subset DEF IsBook
  <2> HIDE DEF T
  <2> QED  BY <1>1, <1>2, <2>1 DEF IsBook
<1>4. IsFirst(b, T) /\ b \in T
  <2>1. IsFirst(First(T), T)  BY <1>1, FirstIsFirst
  <2> QED  BY <2>1 DEF IsFirst
<1> HIDE DEF b
<1>5. b.volume \in Nat  BY <1>3, <1>4 DEF IsBook
<1>6. fill \in Nat /\ fill <= supply  BY <1>2, <1>5
<1>b. BaseOrder'  BY <1>1, <1>2 DEF BaseOrder
<1>7. IsBook(T \ {b}, Users)  BY <1>3, <1>4, FirstHasNoneAhead
<1>8. IsFiniteSet(bids) /\ IsFiniteSet(bids \ {b}) /\ IsFiniteSet((bids \ {b}) \cup {rest})
  <2> HIDE DEF rest
  <2>1. IsFiniteSet(bids)  BY <1>2 DEF IsBook
  <2>2. IsFiniteSet(bids \ {b})  BY <2>1, FS_RemoveElement
  <2>3. IsFiniteSet((bids \ {b}) \cup {rest})  BY <2>2, FS_AddElement
  <2> QED  BY <2>1, <2>2, <2>3
\* What is left to show once the new values are known.
<1>9. ASSUME pc'[w] = "retain", Stored',
             supply' > 0 => bids' \subseteq todo'[w],
             OrdersAfter(base.orders, total)
               = (bids' \ todo'[w]) \cup OrdersAfter(todo'[w], supply'),
             OfferAfter(base.orders, total) = OfferAfter(todo'[w], supply'),
             GivenAfter(base.given, base.orders, total)
               = GivenAfter(allocations', todo'[w], supply')
      PROVE  RefInv'
  <2>1. total' = total  BY <1>1 DEF total
  <2>2. Progress(w)'
    BY <1>1, <1>2, <1>9, <2>1 DEF Progress, total
  <2> QED  BY <1>1, <1>9, <1>b, <2>2, InsideStep DEF SupplyHeld
<1>10. CASE /\ supply = 0 /\ pc' = pc /\ todo'[w] = T \ {b}
            /\ UNCHANGED <<supply, allocations, bids>>
  <2>1. /\ OrdersAfter(T, supply) = T /\ OfferAfter(T, supply) = supply
        /\ GivenAfter(allocations, T, supply) = allocations
    BY <1>2, <1>3, <1>10, MatchIdle
  <2>2. /\ OrdersAfter(T \ {b}, supply) = T \ {b}
        /\ OfferAfter(T \ {b}, supply) = supply
        /\ GivenAfter(allocations, T \ {b}, supply) = allocations
    BY <1>2, <1>7, <1>10, MatchIdle
  <2>3. (bids \ T) \cup T = (bids \ (T \ {b})) \cup (T \ {b})
    BY <1>1, <1>4
  <2>4. Stored'  BY <1>2, <1>10 DEF Stored
  <2>5. ~(supply' > 0)  BY <1>10
  <2> HIDE DEF T
  <2> QED  BY <1>1, <1>2, <1>9, <1>10, <2>1, <2>2, <2>3, <2>4, <2>5
<1>11. CASE pc'[w] = "unwind_bids" /\ UNCHANGED <<supply, allocations, bids>>
  <2>1. Stored'  BY <1>2, <1>11 DEF Stored
  <2>2. Progress(w)'  BY <1>11 DEF Progress
  <2> QED  BY <1>1, <1>11, <1>b, <2>1, <2>2, InsideStep DEF SupplyHeld
<1>12. CASE /\ supply > 0 /\ ~Overflows(Held(b.user) + fill) /\ pc' = pc
            /\ todo'[w] = T \ {b} /\ Allocate(b.user, fill)
            /\ supply' = supply - fill
            /\ bids' = (bids \ {b}) \cup (IF fill = b.volume THEN {} ELSE {rest})
  <2>1. allocations' = Credit(allocations, b.user, fill)
    <3> HIDE DEF fill
    <3> QED  BY <1>6, <1>12, AllocateCredits DEF BookInv
  <2>2. IsAccount(allocations')  BY <1>2, <1>6, <2>1, CreditIsAccount
  <2>3. T = bids  BY <1>1, <1>2, <1>12
  <2>4. CASE b.volume <= supply
    <3>1. fill = b.volume  BY <1>2, <1>5, <2>4
    <3>2. bids' = bids \ {b} /\ supply' = supply - b.volume
      <4> HIDE DEF fill, rest
      <4> QED  BY <1>12, <3>1
    <3>3. /\ OrdersAfter(T, supply) = OrdersAfter(T \ {b}, supply - b.volume)
          /\ OfferAfter(T, supply) = OfferAfter(T \ {b}, supply - b.volume)
          /\ GivenAfter(allocations, T, supply)
               = GivenAfter(Credit(allocations, b.user, b.volume), T \ {b}, supply - b.volume)
      BY <1>2, <1>3, <1>4, <1>12, <2>4, MatchFull
    <3>4. Stored'  BY <1>8, <2>2, <3>2 DEF Stored
    <3>5. bids' \ todo'[w] = {} /\ bids \ T = {} /\ bids' \subseteq todo'[w]
      BY <1>12, <2>3, <3>2
    <3> HIDE DEF fill, T
    <3> QED  BY <1>1, <1>2, <1>9, <1>12, <2>1, <3>1, <3>2, <3>3, <3>4, <3>5
  <2>5. CASE supply < b.volume
    <3>1. fill = supply /\ fill # b.volume  BY <1>2, <1>5, <2>5
    <3>2. bids' = (bids \ {b}) \cup {rest} /\ supply' = 0
      <4> HIDE DEF fill, rest
      <4> QED  BY <1>2, <1>12, <3>1
    <3>3. rest = [b EXCEPT !.volume = @ - supply]
      <4> HIDE DEF fill
      <4> QED  BY <3>1
    <3>4. /\ OrdersAfter(T, supply) = (T \ {b}) \cup {rest}
          /\ OfferAfter(T, supply) = 0
          /\ GivenAfter(allocations, T, supply) = Credit(allocations, b.user, supply)
      <4>1. /\ OrdersAfter(T, supply) = (T \ {b}) \cup {[b EXCEPT !.volume = @ - supply]}
            /\ OfferAfter(T, supply) = 0
            /\ GivenAfter(allocations, T, supply) = Credit(allocations, b.user, supply)
        BY <1>2, <1>3, <1>4, <1>12, <2>5, MatchPartial
      <4> HIDE DEF rest
      <4> QED  BY <3>3, <4>1
    <3>5. /\ OrdersAfter(T \ {b}, 0) = T \ {b} /\ OfferAfter(T \ {b}, 0) = 0
          /\ GivenAfter(allocations', T \ {b}, 0) = allocations'
      BY <1>7, <2>2, MatchIdle
    <3>6. Stored'
      <4> HIDE DEF rest
      <4> QED  BY <1>8, <2>2, <3>2 DEF Stored
    <3>7. (bids \ T) \cup ((T \ {b}) \cup {rest}) = (bids' \ todo'[w]) \cup (T \ {b})
      <4> HIDE DEF rest, fill
      <4> QED  BY <1>12, <2>3, <3>2
    <3>8. OrdersAfter(base.orders, total)
            = (bids' \ todo'[w]) \cup OrdersAfter(todo'[w], supply')
      <4> HIDE DEF rest, fill, T
      <4> QED  BY <1>2, <1>12, <3>2, <3>4, <3>5, <3>7
    <3>9. /\ OfferAfter(base.orders, total) = OfferAfter(todo'[w], supply')
          /\ GivenAfter(base.given, base.orders, total)
               = GivenAfter(allocations', todo'[w], supply')
      <4> HIDE DEF rest, fill, T
      <4> QED  BY <1>2, <1>12, <2>1, <3>1, <3>2, <3>4, <3>5
    <3> HIDE DEF rest, fill, T
    <3> QED  BY <1>1, <1>9, <1>12, <3>2, <3>6, <3>8, <3>9
  <2> QED  BY <1>2, <1>5, <2>4, <2>5
<1>13. \/ /\ supply = 0 /\ pc' = pc /\ todo'[w] = T \ {b}
          /\ UNCHANGED <<supply, allocations, bids>>
       \/ pc'[w] = "unwind_bids" /\ UNCHANGED <<supply, allocations, bids>>
       \/ /\ supply > 0 /\ ~Overflows(Held(b.user) + fill) /\ pc' = pc
          /\ todo'[w] = T \ {b} /\ Allocate(b.user, fill)
          /\ supply' = supply - fill
          /\ bids' = (bids \ {b}) \cup (IF fill = b.volume THEN {} ELSE {rest})
  <2>1. \/ /\ supply = 0 /\ todo' = [todo EXCEPT ![w] = @ \ {b}]
           /\ UNCHANGED <<supply, allocations, bids, pc>>
        \/ Goto(w, "unwind_bids") /\ UNCHANGED <<supply, allocations, bids>>
        \/ /\ supply > 0 /\ ~Overflows(Held(b.user) + fill)
           /\ todo' = [todo EXCEPT ![w] = @ \ {b}] /\ Allocate(b.user, fill)
           /\ supply' = supply - fill
           /\ bids' = (bids \ {b}) \cup (IF fill = b.volume THEN {} ELSE {rest})
           /\ UNCHANGED pc
    BY Zenon DEF FillBid, b, fill, rest
  <2>2. todo' = [todo EXCEPT ![w] = @ \ {b}] => todo'[w] = T \ {b}
    BY <1>1
  <2>3. Goto(w, "unwind_bids") => pc'[w] = "unwind_bids"
    BY <1>1 DEF Goto
  <2> HIDE DEF fill, rest, T
  <2> QED  BY <2>1, <2>2, <2>3
<1> QED  BY <1>1, <1>10, <1>11, <1>12, <1>13

\* Taking and dropping the guard on bids, and the end of retain, move nothing.
LEMMA GuardProgress ==
    ASSUME LockInv, BookInv, RefInv, LockInv', NEW w \in Workers,
           \/ Call(w) \/ LockSupply(w) \/ LockBids(w)
           \/ EndRetain(w) \/ UnlockBids(w)
    PROVE  RefInv' /\ base' = base
<1>1. /\ DOMAIN pc = Workers /\ DOMAIN req = Workers /\ DOMAIN todo = Workers
      /\ BaseOrder /\ Stored /\ Progress(w)
      /\ IsAccount(allocations) /\ supply \in Nat
  BY BidsAreABook DEF LockInv, LockTypes, BookInv, BookOrder, RefInv
<1>2. UNCHANGED <<data, base>>
  BY DEF Call, LockSupply, LockBids, EndRetain, UnlockBids
<1>3. BaseOrder' /\ Stored' /\ state' = state /\ (NoneIdle' <=> NoneIdle)
  BY <1>1, <1>2 DEF BaseOrder, Stored, state, NoneIdle, data
\* A step that ends outside.
<1>4. ASSUME pc'[w] \in Outside, UNCHANGED <<supplyLock, poisoned>>,
             \A v \in Workers \ {w} :
                pc'[v] = pc[v] /\ req'[v] = req[v] /\ todo'[v] = todo[v]
      PROVE  RefInv'
  <2>1. Progress(w)'  BY <1>4 DEF Progress, Outside
  <2>2. ASSUME NEW v \in Workers \ {w}  PROVE Progress(v)'
    <3>1. Progress(v)  BY DEF RefInv
    <3>2. pc'[v] = pc[v] /\ req'[v] = req[v] /\ todo'[v] = todo[v]  BY <1>4
    <3>3. OrderOf(v)' = OrderOf(v)  BY <1>2, <3>2 DEF OrderOf
    <3> QED  BY <1>2, <1>3, <3>1, <3>2, <3>3 DEF Progress, Reached, data
  <2> QED  BY <1>2, <1>3, <1>4, <2>1, <2>2 DEF RefInv
<1>5. CASE Call(w)
  <2>1. PICK r \in Requests : req' = [req EXCEPT ![w] = r]  BY <1>5 DEF Call
  <2> QED  BY <1>1, <1>2, <1>4, <1>5, <2>1 DEF Call, Goto, mutexes, Outside
<1>6. CASE LockSupply(w)
  <2>1. CASE "supply" \in poisoned
    BY <1>1, <1>2, <1>4, <1>6, <2>1 DEF LockSupply, Return, Goto, Outside
  <2>2. CASE "supply" \notin poisoned
    <3>1. poisoned = {}
      <4>1. supplyLock = NoWorker  BY <1>6 DEF LockSupply
      <4>2. \A v \in Workers : pc[v] # "unwind_supply"
        BY <4>1, V0Assumption DEF LockInv, Guards, SupplyHeld
      <4> QED  BY <2>2, <4>2 DEF LockInv, LockTypes, Poison
    <3>2. base = state /\ NoneIdle /\ pc'[w] = "lock_bids"
      BY <1>1, <1>6, <2>2, <3>1 DEF LockSupply, Goto, RefInv
    <3>3. Progress(w)'  BY <1>2, <1>3, <3>2 DEF Progress
    <3> QED  BY <1>2, <1>3, <3>2, <3>3, InsideStep DEF SupplyHeld
  <2> QED  BY <2>1, <2>2
<1>7. CASE LockBids(w)
  <2>1. base = state /\ NoneIdle /\ pc[w] = "lock_bids"
    BY <1>1, <1>7 DEF LockBids, At, Progress
  <2>2. pc'[w] \in {"unwind_supply", "buy", "sell"}
    BY <1>1, <1>7, <2>1 DEF LockBids, Goto, LockInv, LockTypes
  <2>3. Progress(w)'  BY <1>2, <1>3, <2>1, <2>2 DEF Progress
  <2> QED  BY <1>2, <1>3, <2>2, <2>3, InsideStep DEF SupplyHeld
<1>8. CASE EndRetain(w)
  <2>1. /\ pc[w] = "retain" /\ todo[w] = {} /\ req' = req
        /\ pc'[w] \in {"unwind_bids", "unlock_bids"}
    BY <1>1, <1>8 DEF EndRetain, At, Goto
  <2>2. IsBook({}, Users)  BY FS_EmptySet DEF IsBook
  <2>3. /\ OrdersAfter({}, supply) = {} /\ OfferAfter({}, supply) = supply
        /\ GivenAfter(allocations, {}, supply) = allocations
    BY <1>1, <2>2, MatchIdle
  <2>4. /\ req[w].op = "sell" /\ buy_seq_no = base.seq /\ NoneIdle
        /\ Reached(base.orders, base.supply + req[w].volume)
    BY <1>1, <2>1, <2>3 DEF Progress, Reached, NoneIdle
  <2>5. Progress(w)'
    BY <1>2, <1>3, <2>1, <2>4 DEF Progress, Reached, data
  <2> QED  BY <1>2, <1>3, <2>1, <2>5, InsideStep DEF SupplyHeld
<1>9. CASE UnlockBids(w)
  <2>1. /\ req' = req
        /\ \/ pc[w] = "unlock_bids" /\ pc'[w] = "unlock_supply"
           \/ pc'[w] = "unwind_supply"
    BY <1>1, <1>9 DEF UnlockBids, At, Goto
  <2>2. OrderOf(w)' = OrderOf(w)  BY <1>2, <2>1 DEF OrderOf
  <2>3. Progress(w)'
    BY <1>1, <1>2, <1>3, <2>1, <2>2 DEF Progress, Reached, data
  <2> QED  BY <1>2, <1>3, <2>1, <2>3, InsideStep DEF SupplyHeld
<1> QED  BY <1>2, <1>5, <1>6, <1>7, <1>8, <1>9

\* A handler that returns took base to what the variables hold by now: by a buy,
\* by a sell, or by nothing when the volume sold is 0.
LEMMA ReturnIsEngineStep ==
    ASSUME LockInv, BookInv, RefInv, NEW w \in Workers,
           pc[w] = "unlock_supply", base' = state
    PROVE  [Engine!Next]_Engine!engine
<1>1. /\ base'.seq = buy_seq_no /\ base'.supply = supply
      /\ base'.given = allocations /\ base'.orders = bids
  BY DEF state
<1>2. BaseOrder /\ Progress(w) /\ req[w].op \in {"buy", "sell"}
  BY DEF RefInv, Progress
<1>3. req[w] \in BuyRequest \/ req[w] \in SellRequest
  BY <1>2 DEF LockInv, LockTypes, Requests, NoRequest
<1>4. CASE req[w].op = "buy"
  <2>1. /\ req[w].user \in Users /\ req[w].volume \in Volumes /\ req[w].price \in Prices
    BY <1>3, <1>4 DEF BuyRequest, SellRequest
  <2>2. /\ buy_seq_no = base.seq + 1
        /\ Reached(base.orders \cup {OrderOf(w)}, base.supply)
    BY <1>2, <1>4 DEF Progress
  <2>3. Engine!Match(base.orders \cup {OrderOf(w)}, base.supply)
    <3>1. /\ base'.given = GivenAfter(base.given, base.orders \cup {OrderOf(w)}, base.supply)
          /\ base'.orders = OrdersAfter(base.orders \cup {OrderOf(w)}, base.supply)
          /\ base'.supply = OfferAfter(base.orders \cup {OrderOf(w)}, base.supply)
      BY <1>1, <2>2 DEF Reached
    <3> QED  BY <3>1, EngineRule DEF Engine!Match
  <2>4. Engine!Buy(req[w].user, req[w].volume, req[w].price)
    BY <1>1, <2>2, <2>3 DEF Engine!Buy, OrderOf
  <2> QED  BY <2>1, <2>4 DEF Engine!Next
<1>5. CASE req[w].op = "sell" /\ req[w].volume # 0
  <2>1. req[w].volume \in Volumes \ {0}
    BY <1>3, <1>5 DEF BuyRequest, SellRequest
  <2>2. /\ buy_seq_no = base.seq
        /\ Reached(base.orders, base.supply + req[w].volume)
    BY <1>2, <1>5 DEF Progress
  <2>3. /\ base'.given = GivenAfter(base.given, base.orders, base.supply + req[w].volume)
        /\ base'.orders = OrdersAfter(base.orders, base.supply + req[w].volume)
        /\ base'.supply = OfferAfter(base.orders, base.supply + req[w].volume)
    BY <1>1, <2>2 DEF Reached
  <2>4. Engine!Match(base.orders, base.supply + req[w].volume)
    BY <2>3, EngineRule DEF Engine!Match
  <2>5. Engine!Sell(req[w].volume)
    BY <1>1, <2>2, <2>4 DEF Engine!Sell
  <2> QED  BY <2>1, <2>5 DEF Engine!Next
<1>6. CASE req[w].op = "sell" /\ req[w].volume = 0
  <2>1. /\ buy_seq_no = base.seq
        /\ Reached(base.orders, base.supply + 0)
    BY <1>2, <1>6 DEF Progress
  <2>2. base.supply + 0 = base.supply /\ (base.supply = 0 \/ base.orders = {})
    BY <1>2 DEF BaseOrder
  <2>3. Reached(base.orders, base.supply)  BY <2>1, <2>2
  <2>4. /\ OrdersAfter(base.orders, base.supply) = base.orders
        /\ OfferAfter(base.orders, base.supply) = base.supply
        /\ GivenAfter(base.given, base.orders, base.supply) = base.given
    BY <1>2, <2>2, MatchIdle DEF BaseOrder
  <2> QED  BY <1>1, <2>1, <2>3, <2>4 DEF Reached, Engine!engine
<1> QED  BY <1>2, <1>4, <1>5, <1>6

\* The last guard is dropped: what the handler left is the new base, or locked
\* away for good.
LEMMA ReturnProgress ==
    ASSUME LockInv, BookInv, RefInv, LockInv', NEW w \in Workers, UnlockSupply(w)
    PROVE  RefInv' /\ [Engine!Next]_Engine!engine
<1>1. /\ pc[w] \in {"unlock_supply", "unwind_supply"} /\ pc'[w] = "idle"
      /\ UNCHANGED data /\ BaseOrder /\ Stored /\ Progress(w)
      /\ DOMAIN pc = Workers
      /\ \A v \in Workers \ {w} : pc'[v] = pc[v]
  BY DEF UnlockSupply, Return, Goto, RefInv, LockInv, LockTypes
<1>2. \A v \in Workers \ {w} : pc[v] \in Outside
  BY <1>1, OnlyOneInside DEF SupplyHeld
<1>3. \A v \in Workers : Progress(v)'
  BY <1>1, <1>2 DEF Progress, Outside
<1>4. Stored' /\ state' = state /\ (NoneIdle' <=> NoneIdle)
  BY <1>1 DEF Stored, state, NoneIdle, data
<1>5. CASE pc[w] = "unwind_supply"
  <2>1. base' = base /\ "supply" \in poisoned'
    BY <1>5 DEF UnlockSupply, At
  <2>2. BaseOrder'  BY <1>1, <2>1 DEF BaseOrder
  <2>3. RefInv'  BY <1>3, <1>4, <2>1, <2>2 DEF RefInv
  <2> QED  BY <2>1, <2>3 DEF Engine!engine
<1>6. CASE pc[w] = "unlock_supply"
  <2>1. base' = state  BY <1>6 DEF UnlockSupply, At
  <2>2. NoneIdle  BY <1>1, <1>6 DEF Progress
  <2>3. BaseOrder'
    <3>1. /\ base'.seq = buy_seq_no /\ base'.supply = supply
          /\ base'.given = allocations /\ base'.orders = bids
      BY <2>1 DEF state
    <3>2. /\ IsBook(bids, Users) /\ IsAccount(allocations)
          /\ supply \in Nat /\ buy_seq_no \in Nat
      BY <1>1, BidsAreABook
    <3> QED  BY <2>2, <3>1, <3>2 DEF BaseOrder, NoneIdle
  <2>4. RefInv'  BY <1>3, <1>4, <2>1, <2>2, <2>3 DEF RefInv
  <2> QED  BY <1>6, <2>1, <2>4, ReturnIsEngineStep
<1> QED  BY <1>1, <1>5, <1>6

\* The empty engine is at its base.
LEMMA InitRef == Init => RefInv /\ Engine!Init
<1> SUFFICES ASSUME Init  PROVE RefInv /\ Engine!Init
  OBVIOUS
<1>1. /\ buy_seq_no = 0 /\ supply = 0 /\ bids = {} /\ base = state
      /\ allocations = [u \in {} |-> 0]
      /\ \A w \in Workers : pc[w] = "idle"
  BY DEF Init
<1>2. /\ base.seq = 0 /\ base.supply = 0 /\ base.orders = {}
      /\ base.given = [u \in {} |-> 0]
  BY <1>1 DEF state
<1>3. IsFiniteSet({})  BY FS_EmptySet
<1>4. IsAccount([u \in {} |-> 0])  BY DEF IsAccount
<1>5. IsBook({}, Users)  BY <1>3 DEF IsBook
<1>6. RefInv
  BY <1>1, <1>2, <1>3, <1>4, <1>5 DEF RefInv, BaseOrder, Stored, Progress, NoneIdle
<1> QED  BY <1>2, <1>6 DEF Engine!Init

\* Each step of the code is one of the engine, or none.
LEMMA NextRef ==
    ASSUME OverflowChecks, LockInv, BookInv, RefInv, LockInv', [Next]_vars
    PROVE  RefInv' /\ [Engine!Next]_Engine!engine
<1>1. base' = base => [Engine!Next]_Engine!engine
  BY DEF Engine!engine
<1>2. ASSUME NEW w \in Workers, Call(w) \/ Step(w)
      PROVE  RefInv' /\ [Engine!Next]_Engine!engine
  <2>1. \/ Call(w) \/ LockSupply(w) \/ LockBids(w) \/ EndRetain(w) \/ UnlockBids(w)
        \/ Buy(w) \/ Sell(w) \/ FillBid(w) \/ UnlockSupply(w)
    BY <1>2 DEF Step
  <2>2. CASE \/ Call(w) \/ LockSupply(w) \/ LockBids(w) \/ EndRetain(w) \/ UnlockBids(w)
    BY <1>1, <2>2, GuardProgress
  <2>3. CASE Buy(w)  BY <1>1, <2>3, BuyProgress
  <2>4. CASE Sell(w)  BY <1>1, <2>4, SellProgress
  <2>5. CASE FillBid(w)  BY <1>1, <2>5, FillProgress
  <2>6. CASE UnlockSupply(w)  BY <2>6, ReturnProgress
  <2> QED  BY <2>1, <2>2, <2>3, <2>4, <2>5, <2>6
<1>3. CASE UNCHANGED vars
  <2>1. RefInv'
    BY <1>3 DEF RefInv, BaseOrder, Stored, Progress, Reached, OrderOf, NoneIdle, state,
       vars, data, mutexes, locals
  <2> QED  BY <1>1, <1>3, <2>1 DEF vars
<1> QED  BY <1>2, <1>3 DEF Next, Finished

\* In a debug build each handler that returns is one atomic Buy or Sell of the
\* engine, whatever the other handlers do meanwhile, and one that panics is none.
THEOREM FirstVersionIsTheEngine ==
    ASSUME OverflowChecks  PROVE Spec => ImplementsEngine
<1>1. LockInv /\ BookInv /\ RefInv /\ [Next]_vars => RefInv' /\ [Engine!Next]_Engine!engine
  BY OverflowChecks, NextLockInv, NextRef
<1>2. Init => RefInv /\ Engine!Init  BY InitRef
<1> QED
  BY GuardsInPlace, BookHolds, <1>1, <1>2, PTL DEF Spec, ImplementsEngine, Engine!Spec
=============================================================================
